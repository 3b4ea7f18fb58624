CONSTANTS
    s1 = s1
    s2 = s2
    None = None
    Session <- MCSession
    Threshold = 2
    Window = 0
    Cooldown = 2
    StaleTTL = 2
    Scenarios <- DeleteScenarios
SPECIFICATION Spec
INVARIANT OutcomeIsTruthful
