SPECIFICATION Spec
CONSTANTS
    Runs = {r1, r2, r3}
    Items = {i1}
    Hashes = {h1, h2}
    MaxAttempts = 2
    Concurrency = 1
    AfterItem = FALSE
    Options = {"all", "resume", "part"}
    Faults = {"fail", "stop", "crash"}
    NoRun = NoRun
    NoHash = NoHash
CHECK_DEADLOCK FALSE
SYMMETRY Symmetry
INVARIANTS WorkerHoldsRow SettledMeansWritten RetryBudget SoloRunSettles
PROPERTIES SettledRowsStay ImplementsCheckout
