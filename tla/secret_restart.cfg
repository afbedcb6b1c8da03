SPECIFICATION StoresSpec
CONSTANTS
    Processes = {"server", "next"}
    Writers = {"server"}
    Names = {"stripe", "other"}
    Allowed = {"stripe"}
    Environment = {"stripe"}
    MaxMutations = 2
    KeyKinds = {"passphrase"}
    FirstWriteMayFail = TRUE
    MaxRecords = 3
    MayEdit = TRUE
    MaxCalls = 4
INVARIANT KeptIsReadable
CHECK_DEADLOCK FALSE
