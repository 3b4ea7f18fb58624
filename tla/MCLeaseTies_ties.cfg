SPECIFICATION SpecTies
CONSTANTS
    NoRow = NoRow
    NoTx = NoTx
    Unassigned = Unassigned
    ann = ann
    Ann = Ann
    Actor = {ann, bob}
    Canon <- MCCanon
    Pools = {}
    ActiveCustom = {}
    DoneCustom = {}
    Issue = {i1}
    Node = {}
    NoNode = NoNode
    RowLock = {1, 2, 3}
    Mintable <- Least
    Session = {s1, s2}
    TTL = 1
    Grace = 0
    MaxClock = 1
SYMMETRY SessionActorSymmetry
INVARIANT RowLockGuardsRow
PROPERTY ClaimTakesOnlyFreeIssues
