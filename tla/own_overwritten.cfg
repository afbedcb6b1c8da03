SPECIFICATION Spec
CONSTANTS
    Resources = {"r"}
    Paths = {"x", "y"}
    Values = {"1", "2"}
    Documents <- Successors
    OwnerOf <- SuccessorsOwner
    Declares <- SuccessorsDeclares
    Planners = {"q"}
    Appliers = {"p"}
    AllowDelete = FALSE
    MaxPlans = 2
    MaxApplies = 3
PROPERTIES
    NothingIsOverwritten
