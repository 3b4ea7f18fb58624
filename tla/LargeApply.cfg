CONSTANTS
    Request = {r1, r2, r3, r4}
    NoRequest = NoRequest
    MaxInflight = 3
    SemTimeout = 1
    Ceiling = 2
    DrainTimeout = 1
    DrainGrace = 1
SPECIFICATION Spec
INVARIANTS
    TypeOK
    OneLargeApply
    DrainCoversRun
    DeadlineIsPublished
PROPERTIES
    WaitEnds
    StopsGracefully
CHECK_DEADLOCK FALSE
