CONSTANTS
    NoRow = NoRow
    NoMark = NoMark
    RetainDays = 1
    RetainRows = 1
    Maintainer = {p1, p2}
    Batch = 1
    MaxBatches = 2
    Interval = 3
    VolumeRows = 3
    Tolerance = 1
    Skew = 1
    MaxSeq = 4
    MaxFails = 1
SPECIFICATION Spec
INVARIANTS
    TypeOK
    SuffixLeft
    WorkIsStamped
PROPERTIES
    BatchSparesFloors
    RetentionCatchesUp
