SPECIFICATION FairSpec
CONSTANTS
    N = 3
    MaxAttempts = 2
    c1 = c1
    v1 = v1
    Cancellers = {c1}
    Verifiers = {}
    SharedStore = FALSE
    MayFail = TRUE
    MayResume = TRUE
INVARIANTS
    DependenciesFirst
    IncompleteHasCause
PROPERTIES
    NeverRepeatsSuccess
    ImplementsPlanRun
    EveryCallEnds
