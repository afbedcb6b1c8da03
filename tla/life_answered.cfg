SPECIFICATION FairSpec
CONSTANTS
    r0 = r0
    r1 = r1
    a1 = a1
    a2 = a2
    a3 = a3
    p1 = p1
    p2 = p2
    k1 = k1
    k2 = k2
    alice = alice
    bob = bob
    Revisions = {r0, r1}
    Configs <- Open
    Bundle <- OpenBundle
    MinApprovals <- OpenRequired
    Denying = {}
    Documents = {"d"}
    Approvers = {}
    Keys = {k1}
    Appliers = {a1, a2}
    Planners = {p1}
    TTL = 1
    MaxTime = 1
    SharedStore = FALSE
    MayFail = TRUE
    MayDrift = TRUE
PROPERTIES
    AppliesAreAnswered
