SPECIFICATION WorkSpec
CONSTANTS
    a = a  b = b  c = c  d = d
    Batches <- Three
    Cap = 1
    JobSlots = 2
    ItemSlots = 2
    MaxAttempts = 1
    Faults = {"limit", "error", "unverified", "kill", "abort"}
    MaxFaults = 1
    Ids = {a, b}
    JobAttempts = 3
    MaxCalls = 3
    NoSession = NoSession
    NoAgent = NoAgent
INVARIANT ContinuesWhatItWasShown
PROPERTIES RecordsSurvive NothingAskedTwice LimitCostsNothing ChunksEndSettled
CHECK_DEADLOCK FALSE
