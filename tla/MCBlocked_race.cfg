CONSTANTS
    a = a
    b = b
    c = c
    x = x
    s1 = s1
    s2 = s2
    NoRow = NoRow
    NoTx = NoTx
    Issue <- MCIssue
    Session <- MCSession
    SubtreeWalkDepth = 4
    Scenarios <- SafeScenarios
SPECIFICATION Spec
INVARIANTS
    TypeOK
    ReadyHasNoReason
    FlagsSettle
PROPERTIES
    NoChildSlipsUnderClose
CHECK_DEADLOCK FALSE
