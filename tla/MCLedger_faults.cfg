SPECIFICATION FairSpec
CONSTANTS
    Runs = {r1, r2}
    Items = {i1, i2}
    Hashes = {h1}
    MaxAttempts = 2
    Concurrency = 2
    AfterItem = TRUE
    Options = {"all"}
    Faults = {"fail", "stop", "crash", "owner_loss", "abort"}
    NoRun = NoRun
    NoHash = NoHash
CHECK_DEADLOCK FALSE
PROPERTY RunsEnd
