SPECIFICATION PublishSpec
CONSTANTS
    documents = documents
    chunks = chunks
    Order <- LoadOrder
    Refs <- ForeignKeys
    Contents = {"a", "b", "c"}
    RowsIn <- RowCounts
    Edits <- Grow
    People = {"u1"}
    LateSignIns = FALSE
    Faults = {"error", "kill"}
    MaxFaults = 2
    Empty = Empty
    None = None
    Absent = Absent
    Graphs <- ServedGraphs
    MaxEdits = 2
    MaxKills = 1
    Nothing = Nothing
INVARIANTS ServedIsComplete PreviousWasServed NobodySignedOut
PROPERTIES NeverWithoutCopy PublishLands
