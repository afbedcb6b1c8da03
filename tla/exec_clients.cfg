SPECIFICATION Spec
CONSTANTS
    N = 2
    MaxAttempts = 1
    c1 = c1
    v1 = v1
    Cancellers = {c1}
    Verifiers = {v1}
    SharedStore = TRUE
    MayFail = TRUE
    MayResume = FALSE
INVARIANTS
    TypeOK
    RecordedSuccessIsReal
    CompletedIsEarned
