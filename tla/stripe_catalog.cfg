SPECIFICATION Spec
CONSTANTS
    Products = {1, 2, 3}
    LookupKeys = {"monthly", "legacy"}
    Runs = {"a1", "a2", "b"}
    OwnerOf <- MCOwnerOf
    KeyOf <- MCKeyOf
    Declares <- MCDeclares
    Found <- MCFound
    PageSize = 1
    MaxPages = 3
    MaxAttempts = 2
    MaxBegun = 2
INVARIANTS
    TypeOK InspectionIsComplete SuccessIsOneWrite AccountIsAsDeclared
PROPERTIES
    OwnersKeepTheirs
