SPECIFICATION Spec
CONSTANTS
    Resources = {"r", "s"}
    Paths = {"x", "y"}
    Values = {"1", "2"}
    Documents <- Rivals
    OwnerOf <- RivalsOwner
    Declares <- RivalsDeclares
    Planners = {"q"}
    Appliers = {p1, p2}
    AllowDelete = TRUE
    MaxPlans = 1
    MaxApplies = 2
SYMMETRY AnyApplier
INVARIANTS
    TypeOK
    ClaimsAreEarned
    OwnersValueIsInPlace
