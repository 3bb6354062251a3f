SPECIFICATION ServingSpec
CONSTANTS
    Copies <- MCCopies
    MaxSwaps = 1
    Plans <- MCPlans
    Fallback <- Narrow
    MaxNeighbors = 2
    Window = 2
    Drafts <- MCDrafts
    MaxFailures = 1
    Unit = 16
    Threshold = 8
    QuestionSets <- MCQuestionSets
    Unset = Unset
    Conditions <- MCConditions
    Replies <- MCReplies
    Texts = {t1, t2}
    MaxRounds = 2
    MaxRuns = 1
    c1 = c1  c2 = c2  c3 = c3
    Calls = {c1, c2, c3}
    Buckets = {"req", "tok"}
    Need <- Needs
    Rate <- Rates
    Cap <- Caps
    Full = 8
    Floor = 3
    BackoffBy = 2
    RecoverBy = 2
    RecoverAfter = 3
INVARIANTS PassagesWereAccepted AnswersAreAudited GatedAsRecorded WithinProfileRate
PROPERTY AcquireReturns
CHECK_DEADLOCK FALSE
