CONSTANTS
    Client = {c1}
    Conn = {x1, x2, x3}
    None = None
    MaxStreams = 2
    Slots = 1
    Batch = 2
    MaxSeq = 2
    MaxBreaks = 2
SPECIFICATION Spec
INVARIANTS
    TypeOK
    CountsAreExact
PROPERTIES
    InOrderOnce
    EveryRecordArrives
    ShutdownDrains
CHECK_DEADLOCK FALSE
