SPECIFICATION Spec
CONSTANTS
    r0 = r0
    r1 = r1
    a1 = a1
    a2 = a2
    a3 = a3
    p1 = p1
    p2 = p2
    k1 = k1
    k2 = k2
    alice = alice
    bob = bob
    Revisions = {r0}
    Configs <- Changing
    Bundle <- ChangingBundle
    MinApprovals <- ChangingRequired
    Denying <- ChangingDenying
    Documents = {"d"}
    Approvers = {}
    Keys = {k1, k2}
    Appliers = {a1, a2, a3}
    Planners = {p1}
    TTL = 1
    MaxTime = 0
    SharedStore = FALSE
    MayFail = TRUE
    MayDrift = FALSE
SYMMETRY Interchangeable
INVARIANTS
    KeyNamesOneOperation
    LaunchedUnderItsPolicies
