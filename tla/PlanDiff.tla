------------------------------ MODULE PlanDiff ------------------------------
(***************************************************************************)
(* The differences between two projections: what a plan intends for each   *)
(* resource, what the runtime refuses to do, and which change has to wait  *)
(* for which.  No state: PlanBuild makes plans of these.                   *)
(*                                                                         *)
(* A projection maps the keys of its resources to what they hold.  The     *)
(* attributes are the leaves flattenValue leaves of them: a function from  *)
(* paths to scalars, "null" among them, an emptied object or array being a *)
(* leaf of its own.  Where one path lies inside another no value has both. *)
(***************************************************************************)
EXTENDS Integers, FiniteSets

CONSTANTS
    Keys,           \* resource keys
    Paths,          \* attribute paths
    Inside,         \* the pairs <<p, q>> of paths such that q lies inside p
    Scalars,        \* values of leaves
    Types,          \* resource types
    TypeOf,         \* key -> type: providers build the type into the key
    Definitions     \* type -> its ResourceTypeDefinition

RiskFactors == {"financial", "sensitive", "permissionScope", "externallyVisible"}

Definition == [apply : BOOLEAN, delete : BOOLEAN, immutable : SUBSET Paths,
               sensitive : SUBSET Paths, factors : SUBSET RiskFactors]

IsLeaves(a) ==
    /\ a = [p \in DOMAIN a |-> a[p]]
    /\ DOMAIN a \subseteq Paths
    /\ \A p \in DOMAIN a : a[p] \in Scalars
    /\ \A p, q \in DOMAIN a : <<p, q>> \notin Inside

IsResource(r) == IsLeaves(r.attributes) /\ r.dependsOn \subseteq Keys

IsProjection(f) ==
    /\ f = [k \in DOMAIN f |-> f[k]]
    /\ DOMAIN f \subseteq Keys
    /\ \A k \in DOMAIN f : IsResource(f[k])

ASSUME KeysAssumption ==
    /\ IsFiniteSet(Keys)
    /\ TypeOf \in [Keys -> Types]
    /\ Definitions \in [Types -> Definition]
ASSUME PathsAssumption ==
    /\ "null" \in Scalars
    /\ Inside \subseteq Paths \X Paths
    /\ \A p \in Paths : <<p, p>> \notin Inside
    /\ \A p, q, r \in Paths : <<p, q>> \in Inside /\ <<q, r>> \in Inside => <<p, r>> \in Inside

definition(k) == Definitions[TypeOf[k]]

-----------------------------------------------------------------------------
(***************************************************************************)
(* Fields                                                                  *)
(***************************************************************************)
\* A leaf that is not there compares like null.
at(leaves, p) == IF p \in DOMAIN leaves THEN leaves[p] ELSE "null"

differing_onlyDesired(before, after) ==
    {p \in DOMAIN after : at(before, p) # at(after, p)}

differing(before, after) ==
    {p \in DOMAIN before \cup DOMAIN after : at(before, p) # at(after, p)}

\* An emptied container says nothing when a leaf inside it is reported.
fieldDiffs(before, after) ==
    {p \in differing(before, after) : \A q \in differing(before, after) : <<p, q>> \notin Inside}

immutableDiffs_unlessCleared(k, before, after) ==
    {p \in fieldDiffs(before, after) \cap definition(k).immutable \cap DOMAIN before :
        at(after, p) # "null"}

\* A path on one side only is an addition or a removal.
immutableDiffs(k, before, after) ==
    fieldDiffs(before, after) \cap definition(k).immutable \cap DOMAIN before \cap DOMAIN after

-----------------------------------------------------------------------------
(***************************************************************************)
(* Changes                                                                 *)
(***************************************************************************)
Actions == {"create", "update", "replace", "delete", "noop", "blocked"}
Levels  == {"low", "medium", "high", "critical"}

IsChange(c) ==
    /\ c.intent \in Actions \ {"blocked"}
    /\ c.action \in Actions
    /\ \A a \in c.before \cup c.after : IsLeaves(a)
    /\ c.fields \subseteq Paths
    /\ c.reversible \in BOOLEAN /\ c.destructive \in BOOLEAN
    /\ c.dependencies \subseteq Keys
    /\ c.estimatedRisk \in Levels

planned(desired, current) == DOMAIN desired \cup DOMAIN current

fields(desired, current, k) ==
    IF k \in DOMAIN desired \cap DOMAIN current
    THEN fieldDiffs(current[k].attributes, desired[k].attributes) ELSE {}

intent(desired, current, k) ==
    CASE k \notin DOMAIN current -> "create"
      [] k \notin DOMAIN desired -> "delete"
      [] OTHER ->
           IF fields(desired, current, k) = {} THEN "noop"
           ELSE IF immutableDiffs(k, current[k].attributes, desired[k].attributes) # {}
                THEN "replace" ELSE "update"

\* blockReason, its code and its message left out.
blocks(k, what, options) ==
    /\ what # "noop"
    /\ \/ ~definition(k).apply
       \/ what = "delete" /\ (~options.allowDelete \/ ~definition(k).delete)
       \/ what = "replace" /\ ~options.allowReplace

isReversible(what) == what \in {"update", "noop"}

\* Deletes wait for the deletes of what depends on them.
dependenciesFor(desired, current, k) ==
    IF intent(desired, current, k) = "delete"
    THEN {j \in DOMAIN current :
            intent(desired, current, j) = "delete" /\ k \in current[j].dependsOn}
    ELSE desired[k].dependsOn \cap planned(desired, current)

\* What a resource holds, or nothing.
attributes(projection, k) == {projection[j].attributes : j \in DOMAIN projection \cap {k}}

toPlanChange(desired, current, options, k) ==
    LET what == intent(desired, current, k)
    IN  [intent        |-> what,
         action        |-> IF blocks(k, what, options) THEN "blocked" ELSE what,
         before        |-> attributes(current, k),
         after         |-> attributes(desired, k),
         fields        |-> fields(desired, current, k),
         reversible    |-> isReversible(what),
         destructive   |-> what \in {"delete", "replace"},
         dependencies  |-> dependenciesFor(desired, current, k),
         estimatedRisk |-> "low"]

computeChanges(desired, current, options) ==
    [k \in planned(desired, current) |-> toPlanChange(desired, current, options, k)]

=============================================================================
