SPECIFICATION MockSpec
CONSTANTS
    Runs = {"full", "narrow", "smaller", "other", "shifted", "twice"}
    Spec <- MCSpec
    Options <- MCOptions
    Scalars <- MCScalars
    Names = {"x", "t", "u"}
    MaxColumns = 2
    MaxAttempts = 2
    MaxBegun = 3
    MaxAtOnce = 2
INVARIANTS
    TypeOK NoOrphans DeclaredIsDone FixedTermsAreForetold
CHECK_DEADLOCK FALSE
