CONSTANTS
    NoRow = NoRow
    RetainDays = 1
    RetainRows = 1
    Tx = {t1, t2, t3}
    Consumer = {k1}
    Limits = {0, 2}
    Befores = {3}
    MaxRecords = 2
    MaxClock = 2
    Skew = 1
    MaxFaults = 1
SYMMETRY TxSymmetry
SPECIFICATION SpecHealed
INVARIANTS
    TypeOK
    SeqContract
    RetainedSuffix
    LossesAreReal
    NoSilentLoss
PROPERTY
    PruneSparesFloors
