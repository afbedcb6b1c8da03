SPECIFICATION Spec
CONSTANTS
    Keys = {1, 2, 3, 4, 5, 6}
    Paths = {"name", "size", "tags", "tags.a"}
    Inside <- MCInside
    Scalars = {"1", "2", "null"}
    Types = {1, 2, 3, 4}
    TypeOf <- MCTypeOf
    Definitions <- MCDefinitions
    Environments = {"production", "development"}
    MaxPlanSize = 100
    Kinds = {"served"}
    StoredSecrets = {"key"}
    MaxPredicates = 2
    MaxExpression = 1
    MaxGoal = 1
    Families <- MCFamilies
INVARIANTS
    TypeOK ValidateForetells PlanIsOrdered PlanIsTheDiff NothingIsDestroyed
    RiskyWritesAreAsked WritesFindTheirDependencies Converges
