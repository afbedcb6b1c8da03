SPECIFICATION Spec
CONSTANTS
    r0 = r0
    r1 = r1
    a1 = a1
    a2 = a2
    a3 = a3
    p1 = p1
    p2 = p2
    k1 = k1
    k2 = k2
    alice = alice
    bob = bob
    Revisions = {r0}
    Configs <- TwoEyes
    Bundle <- TwoEyesBundle
    MinApprovals <- TwoEyesRequired
    Denying = {}
    Documents = {"d"}
    Approvers = {alice, bob}
    Keys = {k1}
    Appliers = {a1}
    Planners = {p1, p2}
    TTL = 2
    MaxTime = 4
    SharedStore = FALSE
    MayFail = TRUE
    MayDrift = FALSE
INVARIANTS
    TypeOK
    LaunchedWithApproval
PROPERTIES
    ApprovalsAge
    WindowIsKept
