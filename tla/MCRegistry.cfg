SPECIFICATION Spec
CONSTANTS
    Build = "build"
    User = "user"
    Order <- Listed
    OpenNeeds = {"policies"}
    LintNeeds = {"ontology", "policies"}
    MaxContent = 2
    MaxDrafts = 2
    MaxKills = 1
INVARIANT TreeAsRecorded
PROPERTY PendingLands
CHECK_DEADLOCK FALSE
