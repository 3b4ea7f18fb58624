CONSTANTS
    NoRow = NoRow
    RetainDays = 0
    RetainRows = 0
    Tx = {t1, t2, t3}
    Consumer = {k1}
    Limits = {0, 1}
    Befores = {2, 9}
    MaxRecords = 2
    MaxClock = 0
    Skew = 0
SYMMETRY TxSymmetry
SPECIFICATION Spec
INVARIANTS
    SeqContract
