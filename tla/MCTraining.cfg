\* Every template, both split policies, one edit between runs.
SPECIFICATION Spec
CONSTANTS
    Chunks = {1, 2}
    Docs = {1, 2}
    Home <- MCHome
    FactsOf <- MCFactsOf
    Long = {1, 2}
    FactsPerChunk = 1
    Links <- MCLinks
    Quota = 1
    Hops = 1
    SplitOf <- MCSplitOf
    Policies = {"document", "component"}
    Alike <- MCAlike
    Rounds = 1
    Menus <- MCMenus
    MaxRuns = 2
    MaxVerdicts = 1
    MaxFaults = 1
    MaxChanges = 1
INVARIANTS OneExamplePerSource NoLeakage DerivedFollowsSource
CHECK_DEADLOCK FALSE
