------------------------------ MODULE Ownership ------------------------------
(***************************************************************************)
(* Field ownership: several documents plan and apply over one slice of the *)
(* world, and the runtime records which document is responsible for each   *)
(* field.                                                                  *)
(*                                                                         *)
(* A plan is made from what the provider showed and from the record as it  *)
(* was; apply re-checks the record, then the world, then sends the changes *)
(* one by one, and at the end records what it took and what it gave up in  *)
(* one transaction.  The requests interleave wherever they wait.           *)
(*                                                                         *)
(* Approvals, keys and drift by others are PlanLifecycle's, retries and    *)
(* the operation's row Execution's.  A definition named original_variant   *)
(* is a broken variant that nothing uses.                                  *)
(***************************************************************************)
EXTENDS Integers, FiniteSets

CONSTANTS
    Resources, Paths, Values,
    Documents,      \* contents of documents
    OwnerOf,        \* kind/namespace/name of each
    Declares,       \* document -> projection it asks for
    Planners,       \* plan requests in flight at one time
    Appliers,       \* apply requests in flight at one time
    AllowDelete,    \* options.allowDelete and config.allowDestructive
    MaxPlans,       \* bound of the plans that are open, for model checking
    MaxApplies      \* bound of the applies that are admitted, for model checking

Field      == Resources \X Paths
Projection == [Resources -> [Paths -> Values \cup {"unset"}]]
Owners     == {OwnerOf[d] : d \in Documents}

ASSUME DocumentsAssumption ==
    /\ DOMAIN OwnerOf = Documents
    /\ Declares \in [Documents -> Projection]
    /\ "free" \notin Owners
    /\ "unset" \notin Values
ASSUME LimitsAssumption == AllowDelete \in BOOLEAN /\ MaxPlans \in Nat /\ MaxApplies \in Nat

VARIABLES
    world,          \* the content of the slice of the world
    owner,          \* the table field_ownership: field -> owner or "free"
    planner,        \* the plan requests: the document and what was inspected
    plans,          \* the plans stored that have not expired
    applier,        \* the apply requests
    admitted,       \* how many applies have been admitted
    earned,         \* history: owner, field that a change of its that landed declared
    exposed         \* history: fields that a step nothing guards has put at risk

vars == <<world, owner, planner, plans, applier, admitted, earned, exposed>>

present(projection, r) == \E p \in Paths : projection[r][p] # "unset"

declared(d) == {f \in Field : Declares[d][f[1]][f[2]] # "unset"}

Idle       == [at |-> "idle"]
Inspection == [at : {"inspected"}, document : Documents, world : Projection]

Plan == [document : Documents, revision : Projection,
         claims : SUBSET Field, releases : SUBSET Field, conflicts : SUBSET Field]

Request == [at : {"inspect", "execute", "record"}, plan : Plan,
            todo : SUBSET Resources, landed : SUBSET Resources]

-----------------------------------------------------------------------------
(***************************************************************************)
(* What plan decides                                                       *)
(***************************************************************************)
\* resolveOwnership, over the record held for the resources in play.
resolveOwnership(d, current) ==
    LET inPlay == {r \in Resources : present(Declares[d], r) \/ present(current, r)}
    IN  [document  |-> d,
         revision  |-> current,
         claims    |-> {f \in declared(d) : owner[f] = "free"},
         releases  |-> {f \in Field \ declared(d) : f[1] \in inPlay /\ owner[f] = OwnerOf[d]},
         conflicts |-> {f \in declared(d) : owner[f] \notin {"free", OwnerOf[d]}}]

\* The resources a plan has a change for, and what computeChanges intends there.
\* A field on either side only is a difference.
changed(plan) ==
    {r \in Resources : present(Declares[plan.document], r) \/ present(plan.revision, r)}

intent(plan, r) ==
    LET desired == Declares[plan.document]
    IN  IF ~present(desired, r) THEN "delete"
        ELSE IF ~present(plan.revision, r) THEN "create"
        ELSE IF desired[r] = plan.revision[r] THEN "noop" ELSE "update"

actionOf_ignoringConflicts(plan, r) ==
    IF intent(plan, r) = "delete" /\ ~AllowDelete THEN "blocked" ELSE intent(plan, r)

\* blockReason and blockConflicted: a noop sets nothing, so it is not blocked.
actionOf(plan, r) ==
    IF \/ intent(plan, r) = "delete" /\ ~AllowDelete
       \/ intent(plan, r) # "noop" /\ \E p \in Paths : <<r, p>> \in plan.conflicts
    THEN "blocked" ELSE intent(plan, r)

\* What a document leaves that is applied where nothing was.
Applied(d) ==
    /\ world = Declares[d]
    /\ owner = [f \in Field |-> IF f \in declared(d) THEN OwnerOf[d] ELSE "free"]
    /\ earned = {OwnerOf[d]} \X declared(d)

Empty ==
    /\ world = [r \in Resources |-> [p \in Paths |-> "unset"]]
    /\ owner = [f \in Field |-> "free"]
    /\ earned = {}

Init ==
    /\ Empty \/ \E d \in Documents : Applied(d)
    /\ planner = [p \in Planners |-> Idle]
    /\ plans = {}
    /\ applier = [a \in Appliers |-> Idle]
    /\ admitted = 0
    /\ exposed = {}

\* plan waits for the inspection, then reads the record and saves the plan.
InspectForPlan(p, d) ==
    /\ planner[p] = Idle
    /\ planner' = [planner EXCEPT ![p] = [at |-> "inspected", document |-> d, world |-> world]]
    /\ UNCHANGED <<world, owner, plans, applier, admitted, earned, exposed>>

SavePlan(p) ==
    /\ planner[p] # Idle
    /\ LET plan == resolveOwnership(planner[p].document, planner[p].world)
       IN  /\ plan \in plans \/ Cardinality(plans) < MaxPlans
           /\ plans' = plans \cup {plan}
    /\ planner' = [planner EXCEPT ![p] = Idle]
    /\ UNCHANGED <<world, owner, applier, admitted, earned, exposed>>

\* Its window has closed: apply refuses the plan from now on.
Expire(plan) ==
    /\ plans' = plans \ {plan}
    /\ UNCHANGED <<world, owner, planner, applier, admitted, earned, exposed>>

-----------------------------------------------------------------------------
(***************************************************************************)
(* apply                                                                   *)
(***************************************************************************)
\* #assertOwnershipStillHeld looks at the paths that the plan newly claims.
ownershipStillHeld(plan) ==
    \A f \in plan.claims : owner[f] \in {"free", OwnerOf[plan.document]}

\* What that check passes over: fields that were this document's own when the plan
\* was made, are another one's since, and are set by the plan.
unchecked(plan) ==
    {f \in declared(plan.document) \ (plan.claims \cup plan.conflicts) :
        /\ actionOf(plan, f[1]) \in {"create", "update"}
        /\ owner[f] \notin {"free", OwnerOf[plan.document]}}

\* Fields of the resources that another request under way has a change for as well.
overlapping(a, plan) ==
    {f \in Field : \E b \in Appliers \ {a} :
        applier[b] # Idle /\ f[1] \in changed(plan) \cap changed(applier[b].plan)}

\* A request that is refused leaves nothing behind.
Admit(a, plan) ==
    /\ applier[a] = Idle
    /\ plan \in plans
    /\ ownershipStillHeld(plan)
    /\ admitted < MaxApplies /\ admitted' = admitted + 1
    /\ applier' = [applier EXCEPT ![a] =
          [at |-> "inspect", plan |-> plan, todo |-> changed(plan), landed |-> {}]]
    /\ exposed' = exposed \cup unchecked(plan) \cup overlapping(a, plan)
    /\ UNCHANGED <<world, owner, planner, plans, earned>>

\* #assertNoDrift: the inspection shows the world the plan was made for.
AssertNoDrift(a) ==
    /\ applier[a] # Idle /\ applier[a].at = "inspect"
    /\ applier' = [applier EXCEPT ![a] =
          IF world = applier[a].plan.revision THEN [@ EXCEPT !.at = "execute"] ELSE Idle]
    /\ UNCHANGED <<world, owner, planner, plans, admitted, earned, exposed>>

\* What the provider makes of a change.  An update sets what is declared and
\* leaves the other fields alone.
written(plan, r) ==
    LET desired == Declares[plan.document][r]
    IN  CASE actionOf(plan, r) = "create" -> desired
          [] actionOf(plan, r) = "update" ->
                [p \in Paths |-> IF desired[p] = "unset" THEN world[r][p] ELSE desired[p]]
          [] actionOf(plan, r) = "delete" -> [p \in Paths |-> "unset"]
          [] OTHER -> world[r]

Executes(a, r) ==
    /\ applier[a] # Idle /\ applier[a].at = "execute"
    /\ r \in applier[a].todo

\* The change takes effect; what is deleted has lost the fields it was recorded with.
Takes(a, r) ==
    /\ world' = [world EXCEPT ![r] = written(applier[a].plan, r)]
    /\ exposed' = exposed \cup
          {f \in Field : /\ f[1] = r /\ actionOf(applier[a].plan, r) = "delete"
                        /\ owner[f] # "free"}

\* A noop is skipped, a write or a deletion succeeds: the change has landed.
ChangeLands(a, r) ==
    /\ Executes(a, r)
    /\ actionOf(applier[a].plan, r) # "blocked"
    /\ actionOf(applier[a].plan, r) = "delete" => present(world, r)
    /\ Takes(a, r)
    /\ applier' = [applier EXCEPT ![a].todo = @ \ {r}, ![a].landed = @ \cup {r}]
    /\ earned' = earned \cup {<<OwnerOf[applier[a].plan.document], f>> :
                                f \in {g \in declared(applier[a].plan.document) : g[1] = r}}
    /\ UNCHANGED <<owner, planner, plans, admitted>>

\* A change is blocked, is skipped for its dependencies, or fails, with or
\* without effect in the world.
ChangeFails(a, r) ==
    /\ Executes(a, r)
    /\ actionOf(applier[a].plan, r) # "noop"
    /\ Takes(a, r) \/ UNCHANGED <<world, exposed>>
    /\ applier' = [applier EXCEPT ![a].todo = @ \ {r}]
    /\ UNCHANGED <<owner, planner, plans, admitted, earned>>

\* All changes are settled, or the operation was cancelled between two.
FinishExecution(a) ==
    /\ applier[a] # Idle /\ applier[a].at = "execute"
    /\ applier' = [applier EXCEPT ![a].at = "record", ![a].todo = {}]
    /\ UNCHANGED <<world, owner, planner, plans, admitted, earned, exposed>>

claimsToRecord_everything(request) == declared(request.plan.document)

\* Everything declared of the resources whose change landed.
claimsToRecord(request) ==
    {f \in declared(request.plan.document) : f[1] \in request.landed}

\* DELETE ... WHERE owner = ?
released(request) ==
    {f \in request.plan.releases : owner[f] = OwnerOf[request.plan.document]}

RecordOwnership_forDocument(a) ==
    /\ applier[a] # Idle /\ applier[a].at = "record"
    /\ owner' = [f \in Field |->
          IF f \in claimsToRecord(applier[a]) THEN applier[a].plan.document
          ELSE IF f \in released(applier[a]) THEN "free" ELSE owner[f]]
    /\ applier' = [applier EXCEPT ![a] = Idle]
    /\ UNCHANGED <<world, planner, plans, admitted, earned, exposed>>

\* recordOwnership: the releases, then the claims, in one transaction.
RecordOwnership(a) ==
    /\ applier[a] # Idle /\ applier[a].at = "record"
    /\ owner' = [f \in Field |->
          IF f \in claimsToRecord(applier[a]) THEN OwnerOf[applier[a].plan.document]
          ELSE IF f \in released(applier[a]) THEN "free" ELSE owner[f]]
    /\ applier' = [applier EXCEPT ![a] = Idle]
    /\ UNCHANGED <<world, planner, plans, admitted, earned, exposed>>

\* The request fails or dies with the process: what it changed stays unrecorded.
Abandon(a) ==
    /\ applier[a] # Idle
    /\ applier' = [applier EXCEPT ![a] = Idle]
    /\ UNCHANGED <<world, owner, planner, plans, admitted, earned, exposed>>

-----------------------------------------------------------------------------
Next ==
    \/ \E p \in Planners : SavePlan(p) \/ \E d \in Documents : InspectForPlan(p, d)
    \/ \E plan \in plans : Expire(plan)
    \/ \E a \in Appliers :
        \/ \E plan \in plans : Admit(a, plan)
        \/ AssertNoDrift(a) \/ FinishExecution(a) \/ RecordOwnership(a) \/ Abandon(a)
        \/ \E r \in Resources : ChangeLands(a, r) \/ ChangeFails(a, r)

Spec == Init /\ [][Next]_vars

-----------------------------------------------------------------------------
\* Well-formed rows and requests; every field is owned by a document's name
\* (fieldOwnerFor), never by its content.
TypeOK ==
    /\ world \in Projection
    /\ owner \in [Field -> Owners \cup {"free"}]
    /\ planner \in [Planners -> Inspection \cup {Idle}]
    /\ plans \subseteq Plan
    /\ applier \in [Appliers -> Request \cup {Idle}]
    /\ admitted \in 0..MaxApplies
    /\ earned \subseteq Owners \X Field
    /\ exposed \subseteq Field

\* A document is responsible only for fields of resources that some change of
\* its own has set or found in place, never for what was blocked, failed or was
\* not reached (SPEC section 8.3.4, #recordOwnership).
ClaimsAreEarned ==
    \A f \in Field : owner[f] # "free" => <<owner[f], f>> \in earned

\* What a document is responsible for has a value that this owner asked for:
\* documents do not overwrite each other's fields behind the record, however stale
\* a plan is when it is applied and whatever failed half-way or went unrecorded
\* (resolveOwnership, #assertOwnershipStillHeld, #recordOwnership).  There are three
\* ways to lose that, and no fourth: a field that was the document's own at
\* planning and is taken since, two requests that change a resource at once, and
\* the deletion of a resource that is recorded.
OwnersValueIsInPlace ==
    \A f \in Field \ exposed : owner[f] # "free"
        => \E d \in Documents :
              OwnerOf[d] = owner[f] /\ f \in declared(d)
              /\ world[f[1]][f[2]] = Declares[d][f[1]][f[2]]

(***************************************************************************)
(* A statement of the documentation that the code does not keep            *)
(***************************************************************************)
\* "Another document may have taken a field, so the check is repeated": no change
\* sets a field that another document has become responsible for.
NothingIsOverwritten ==
    [][\A f \in Field :
          owner[f] # "free" /\ world'[f[1]][f[2]] # world[f[1]][f[2]]
            => \E a \in Appliers : applier[a] # Idle /\ OwnerOf[applier[a].plan.document] = owner[f]]_vars
=============================================================================
