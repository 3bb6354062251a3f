SPECIFICATION SidesSpec
CONSTANTS
    a = a  b = b  c = c  t1 = t1  t2 = t2  t3 = t3  t4 = t4  x = x  x2 = x2  y = y  z = z
    Files = {a, b}
    Versions <- Repeated
    Parts = {x, x2, y, z}
    Wording <- SameWords
    Sections <- BackAgain
    IngestDeps <- Three
    SegmentDeps <- ChangedBack
    Workers <- Three
    OutOfScope = {}
    Injected = {}
    Faults = {}
    MaxFaults = 0
    NoText = NoText
    NoChunk = NoChunk
    Idle = Idle
    Pages = {1, 2, 3}
    Passages = {"p", "q", "s"}
    Owner <- PassageOwner
    Reuses <- Repeats
    Values = {"9", "9.1", "9.1.1", "8"}
    Extends <- Releases
    Tokens <- InText
    FileValues = {{}, {"9.1"}, {"8"}, {"9.1", "8"}}
    MaxReads = 1
INVARIANT SectionsCarried
