CONSTANTS
    NoRow = NoRow
    RetainDays = 0
    RetainRows = 1
    Tx = {t1, t2, t3, t4}
    Consumer = {k1}
    Limits = {0, 1}
    Befores = {2, 9}
    MaxRecords = 2
    MaxClock = 0
    Skew = 0
    MaxFaults = 1
SYMMETRY TxSymmetry
SPECIFICATION SpecStale
INVARIANTS
    NoSilentLoss
