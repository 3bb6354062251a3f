SPECIFICATION SidesSpec
CONSTANTS
    a = a  b = b  c = c  t1 = t1  t2 = t2  t3 = t3  t4 = t4  x = x  x2 = x2  y = y  z = z
    Files = {a, b, c}
    Versions <- Growing
    Parts = {x, x2, y, z}
    Wording <- SameWords
    Sections <- TwoCuts
    IngestDeps <- Same
    SegmentDeps <- Changed
    Workers <- OneWorkerThen
    OutOfScope = {t3}
    Injected = {z}
    Faults = {"fail", "crash"}
    MaxFaults = 1
    NoText = NoText
    NoChunk = NoChunk
    Idle = Idle
    Pages = {1, 2, 3}
    Passages = {"p", "q", "s"}
    Owner <- PassageOwner
    Reuses <- Repeats
    Values = {"9", "9.1", "9.1.1", "8"}
    Extends <- Releases
    Tokens <- InText
    FileValues = {{}, {"9.1"}, {"8"}, {"9.1", "8"}}
    MaxReads = 1
INVARIANTS SectionsCarried NothingLeftOver JevDecisionsStay ChunksCarryEach
PROPERTY BuildsCatchUp
