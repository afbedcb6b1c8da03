SPECIFICATION FairSpec
CONSTANTS
    Processes = {"server", "next"}
    Writers = {"server"}
    Names = {"stripe", "other"}
    Allowed = {"stripe"}
    Environment = {"stripe"}
    MaxMutations = 2
    KeyKinds = {"direct", "passphrase", "environment"}
    FirstWriteMayFail = FALSE
    MaxRecords = 3
    MayEdit = TRUE
    MaxCalls = 4
INVARIANTS
    TypeOK VerifyFindsTheEdit CallsKeepOrder KeptIsReadable
PROPERTY CallsEnd
CHECK_DEADLOCK FALSE
