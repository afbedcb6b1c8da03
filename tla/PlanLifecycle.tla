--------------------------- MODULE PlanLifecycle ---------------------------
(***************************************************************************)
(* The life of plans: plan, approve and apply requests of many clients on  *)
(* one runtime, over a world that drifts, a clock that closes validity     *)
(* windows, and a process that may be restarted with another               *)
(* configuration.                                                          *)
(*                                                                         *)
(* One desired state document is planned again and again, possibly in      *)
(* variants that differ only in contract.success.  The id of a plan is     *)
(* derived from its hash, so planning the same world under the same        *)
(* policies lands on the row that already exists.  What an operation does  *)
(* once it runs is Execution's subject: here it is one write.              *)
(*                                                                         *)
(* A step is one store call, or what lies between two waits and calls no   *)
(* store.  `turn' and SharedStore are those of Execution, and so is the    *)
(* naming of broken variants, original_variant.                            *)
(***************************************************************************)
EXTENDS Integers, FiniteSets

CONSTANTS
    Revisions,      \* contents the world can have; a revision is their hash
    Configs,        \* what the process can be started with
    Bundle,         \* the policy bundle of a configuration
    MinApprovals,   \* approvals its policies require of a plan
    Denying,        \* configurations whose policies deny the plan
    Documents,      \* variants of the document, differing in contract.success
    Approvers,
    Keys,           \* idempotency keys
    Appliers,       \* apply requests, each made once
    Planners,       \* clients that plan
    TTL,            \* limits.planTtlSeconds
    MaxTime,        \* bound of the clock, for model checking
    SharedStore,    \* do requests interleave at every store call?
    MayFail,        \* may requests fail half-way and the process restart?
    MayDrift        \* may others change the world?

ASSUME ConfigAssumption ==
    /\ DOMAIN Bundle = Configs
    /\ MinApprovals \in [Configs -> Nat]
    /\ Denying \subseteq Configs
ASSUME TimeAssumption == TTL \in Nat \ {0} /\ MaxTime \in Nat
ASSUME LifecycleFlagsAssumption == {SharedStore, MayFail, MayDrift} \subseteq BOOLEAN
ASSUME ApproversAssumption == IsFiniteSet(Approvers)
ASSUME RequestsAssumption ==
    /\ Appliers \cap Planners = {}
    /\ {"nobody", "none", "free"} \cap (Appliers \cup Planners) = {}

VARIABLES
    now,            \* the clock
    revision,       \* the content of the world
    config,         \* what the process runs with
    (***********************************************************************)
    (* The database                                                        *)
    (***********************************************************************)
    plans,          \* plan id -> PlanRecord or NoPlan
    approvals,      \* plan id, approver -> when it approved which document
    reserved,       \* plan id, key -> operation id or "free"
    operations,     \* operation id -> status or "absent"
    (***********************************************************************)
    (* The requests in the process                                         *)
    (***********************************************************************)
    applier,
    planner,
    turn,
    (***********************************************************************)
    (* History                                                             *)
    (***********************************************************************)
    launched        \* requests that came to the point of calling the provider

database == <<plans, approvals, reserved, operations>>
requests == <<applier, planner, turn>>
vars     == <<now, revision, config, database, requests, launched>>

\* What the plan hash tells apart: the world planned against, the bundle, and
\* what its policies decided.  contract.success is not among it.
PlanIds == {[revision |-> r, bundle |-> Bundle[c], required |-> MinApprovals[c],
             executable |-> c \notin Denying] : r \in Revisions, c \in Configs}

PlanId(r) == [revision |-> r, bundle |-> Bundle[config], required |-> MinApprovals[config],
              executable |-> config \notin Denying]

Time     == 0..MaxTime
NoPlan   == [stored |-> FALSE]
Plan     == [stored : {TRUE}, createdAt : Time, expiresAt : Nat, document : Documents]
NoVote   == [given |-> FALSE]
Vote     == [given : {TRUE}, approvedAt : Time, document : Documents]

isPlanExpired(plan) == plan.expiresAt <= now

Unused   == [at |-> "idle"]
\* An operation is named after the request whose newOperationId claimed the key.
Request  == [at : {"lookup", "gates", "inspect", "claim", "join", "create", "begin",
                   "calling", "finish", "applied", "replayed", "refused", "dead"},
             id : PlanIds, key : Keys, plan : Plan,
             op : Appliers \cup {"none"}, seen : Revisions \cup {"none"}]
Draft    == [at : {"built", "save"}, id : PlanIds, plan : Plan]

Waits == {"inspect", "calling", "finish", "applied", "replayed", "refused", "dead", "idle", "built"}
Over  == {"applied", "replayed", "refused", "dead"}

-----------------------------------------------------------------------------
MayRun(who)     == turn \in {who, "nobody"}
Turn(who, to)   == turn' = IF SharedStore \/ to \in Waits THEN "nobody" ELSE who

ApplierGoes(a, to) ==
    /\ applier' = [applier EXCEPT ![a].at = to]
    /\ Turn(a, to)

Init ==
    /\ now = 0
    /\ revision \in Revisions
    /\ config \in Configs
    /\ plans = [id \in PlanIds |-> NoPlan]
    /\ approvals = [id \in PlanIds |-> [p \in Approvers |-> NoVote]]
    /\ reserved = [id \in PlanIds |-> [k \in Keys |-> "free"]]
    /\ operations = [a \in Appliers |-> "absent"]
    /\ applier = [a \in Appliers |-> Unused]
    /\ planner = [p \in Planners |-> Unused]
    /\ turn = "nobody"
    /\ launched = {}

-----------------------------------------------------------------------------
(***************************************************************************)
(* plan                                                                    *)
(***************************************************************************)
\* The provider inspects the world and the plan is built with a new window; then
\* the provider may refine it, which may take time.
PlanBuild(p) ==
    /\ planner[p].at = "idle" /\ MayRun(p)
    /\ \E d \in Documents :
        planner' = [planner EXCEPT ![p] =
            [at |-> "built", id |-> PlanId(revision),
             plan |-> [stored |-> TRUE, createdAt |-> now, expiresAt |-> now + TTL,
                       document |-> d]]]
    /\ Turn(p, "built")
    /\ UNCHANGED <<now, revision, config, database, applier, launched>>

PreserveValidityWindow_longer(p) ==
    /\ planner[p].at = "built" /\ MayRun(p)
    /\ LET stored == plans[planner[p].id]
       IN  planner' = [planner EXCEPT
            ![p].at = "save",
            ![p].plan = IF stored = NoPlan THEN @ ELSE [@ EXCEPT !.createdAt = stored.createdAt]]
    /\ Turn(p, "save")
    /\ UNCHANGED <<now, revision, config, database, applier, launched>>

PreserveValidityWindow_always_new(p) ==
    /\ planner[p].at = "built" /\ MayRun(p)
    /\ planner' = [planner EXCEPT ![p].at = "save"]
    /\ Turn(p, "save")
    /\ UNCHANGED <<now, revision, config, database, applier, launched>>

\* #preserveValidityWindow: an unexpired plan of the same id lends its window.
PreserveValidityWindow(p) ==
    /\ planner[p].at = "built" /\ MayRun(p)
    /\ LET stored == plans[planner[p].id]
       IN  planner' = [planner EXCEPT
            ![p].at = "save",
            ![p].plan = IF stored = NoPlan \/ isPlanExpired(stored) THEN @
                        ELSE [@ EXCEPT !.createdAt = stored.createdAt,
                                       !.expiresAt = stored.expiresAt]]
    /\ Turn(p, "save")
    /\ UNCHANGED <<now, revision, config, database, applier, launched>>

SavePlan(p) ==
    /\ planner[p].at = "save" /\ MayRun(p)
    /\ plans' = [plans EXCEPT ![planner[p].id] = planner[p].plan]
    /\ planner' = [planner EXCEPT ![p] = Unused]
    /\ Turn(p, "idle")
    /\ UNCHANGED <<now, revision, config, approvals, reserved, operations, applier, launched>>

(***************************************************************************)
(* approve.  The hash the caller must repeat determines the id, so the     *)
(* comparison of hashes fails only for a caller who names another plan.    *)
(* One approval is kept per approver, the last one.                        *)
(***************************************************************************)
saveApproval(id, p) ==
    approvals' = [approvals EXCEPT ![id][p] =
                    [given |-> TRUE, approvedAt |-> now, document |-> plans[id].document]]

Approve(p, id) ==
    /\ turn = "nobody"
    /\ plans[id] # NoPlan /\ ~isPlanExpired(plans[id])
    /\ saveApproval(id, p)
    /\ UNCHANGED <<now, revision, config, plans, reserved, operations, requests, launched>>

(***************************************************************************)
(* apply                                                                   *)
(***************************************************************************)
\* #requirePlan: the request works on this copy of the plan to its end.
LoadPlan(a, id, k) ==
    /\ applier[a].at = "idle" /\ MayRun(a)
    /\ plans[id] # NoPlan
    /\ applier' = [applier EXCEPT ![a] =
          [at |-> "lookup", id |-> id, key |-> k, plan |-> plans[id],
           op |-> "none", seen |-> "none"]]
    /\ Turn(a, "lookup")
    /\ UNCHANGED <<now, revision, config, database, planner, launched>>

getOperation(o) == operations[o] # "absent"

\* The operation that claimed the key, once it has a row.
findOperationByIdempotency(id, k) ==
    LET o == reserved[id][k] IN IF o # "free" /\ getOperation(o) THEN o ELSE "none"

\* A known key whose operation exists is a replay.
FindReplay(a) ==
    /\ applier[a].at = "lookup" /\ MayRun(a)
    /\ LET o == findOperationByIdempotency(applier[a].id, applier[a].key)
       IN  IF o # "none"
           THEN /\ applier' = [applier EXCEPT ![a].at = "replayed", ![a].op = o]
                /\ Turn(a, "replayed")
           ELSE ApplierGoes(a, "gates")
    /\ UNCHANGED <<now, revision, config, database, planner, launched>>

listApprovals(id) == {p \in Approvers : approvals[id][p] # NoVote}

\* The approvals that #assertApproved counts: inside the window of the copy.
counted(id, plan) == {p \in listApprovals(id) : approvals[id][p].approvedAt >= plan.createdAt}

assertGates_oneApproval(id, plan) ==
    /\ ~isPlanExpired(plan)
    /\ id.executable
    /\ id.bundle = Bundle[config]
    /\ config \notin Denying
    /\ id.required > 0 => counted(id, plan) # {}

assertGates_anyBundle(id, plan) ==
    /\ ~isPlanExpired(plan)
    /\ id.executable
    /\ config \notin Denying
    /\ Cardinality(counted(id, plan)) >= id.required

\* #assertPlanIntegrity, #assertPolicyStillAllows and #assertApproved.  The
\* stored plan always matches its own hash.  The number of approvals wanted is
\* the one in the plan.
assertGates(id, plan) ==
    /\ ~isPlanExpired(plan)
    /\ id.executable
    /\ id.bundle = Bundle[config]
    /\ config \notin Denying
    /\ Cardinality(counted(id, plan)) >= id.required

PassGates(a) ==
    /\ applier[a].at = "gates" /\ MayRun(a)
    /\ assertGates(applier[a].id, applier[a].plan)
    /\ ApplierGoes(a, "inspect")
    /\ UNCHANGED <<now, revision, config, database, planner, launched>>

RefuseAtGates(a) ==
    /\ applier[a].at = "gates" /\ MayRun(a)
    /\ ~assertGates(applier[a].id, applier[a].plan)
    /\ ApplierGoes(a, "refused")
    /\ UNCHANGED <<now, revision, config, database, planner, launched>>

\* The provider reads the world; its answer arrives later.
Inspect(a) ==
    /\ applier[a].at = "inspect"
    /\ applier[a].seen = "none"
    /\ applier' = [applier EXCEPT ![a].seen = revision]
    /\ UNCHANGED <<now, revision, config, database, planner, turn, launched>>

\* #assertNoDrift on what was read, also against an If-Match of the client.
AssertNoDrift(a) ==
    /\ applier[a].at = "inspect" /\ MayRun(a)
    /\ applier[a].seen # "none"
    /\ \E ifMatch \in Revisions \cup {"none"} :
        ApplierGoes(a, IF /\ ifMatch \in {"none", applier[a].seen}
                          /\ applier[a].seen = applier[a].id.revision
                       THEN "claim" ELSE "refused")
    /\ UNCHANGED <<now, revision, config, database, planner, launched>>

ReserveIdempotency_noId(a) ==
    /\ applier[a].at = "claim" /\ MayRun(a)
    /\ LET o == reserved[applier[a].id][applier[a].key]
       IN  /\ reserved' = [reserved EXCEPT ![applier[a].id][applier[a].key] = IF @ = "free" THEN a ELSE @]
           /\ applier' = [applier EXCEPT ![a].at = IF o = "free" THEN "create" ELSE "join", ![a].op = o]
    /\ Turn(a, "create")
    /\ UNCHANGED <<now, revision, config, plans, approvals, operations, planner, launched>>

\* reserveIdempotency: INSERT ... ON CONFLICT DO NOTHING, then the id in the row.
ReserveIdempotency(a) ==
    /\ applier[a].at = "claim" /\ MayRun(a)
    /\ LET o == reserved[applier[a].id][applier[a].key]
       IN  IF o = "free"
           THEN /\ reserved' = [reserved EXCEPT ![applier[a].id][applier[a].key] = a]
                /\ applier' = [applier EXCEPT ![a].at = "create", ![a].op = a]
                /\ Turn(a, "create")
           ELSE /\ applier' = [applier EXCEPT ![a].at = "join", ![a].op = o]
                /\ Turn(a, "join")
                /\ UNCHANGED reserved
    /\ UNCHANGED <<now, revision, config, plans, approvals, operations, planner, launched>>

JoinOther_runs(a) ==
    /\ applier[a].at = "join" /\ MayRun(a)
    /\ ApplierGoes(a, "create")
    /\ UNCHANGED <<now, revision, config, database, planner, launched>>

JoinOther_waits(a) ==
    /\ applier[a].at = "join" /\ MayRun(a)
    /\ operations[applier[a].op] # "absent"
    /\ ApplierGoes(a, "replayed")
    /\ UNCHANGED <<now, revision, config, database, planner, launched>>

\* The key was claimed by another: return its operation, or run it if the row
\* of the operation was never written.
JoinOther(a) ==
    /\ applier[a].at = "join" /\ MayRun(a)
    /\ ApplierGoes(a, IF getOperation(applier[a].op) THEN "replayed" ELSE "create")
    /\ UNCHANGED <<now, revision, config, database, planner, launched>>

CreateOperation(a) ==
    /\ applier[a].at = "create" /\ MayRun(a)
    /\ operations' = [operations EXCEPT ![applier[a].op] = "created"]
    /\ ApplierGoes(a, "begin")
    /\ UNCHANGED <<now, revision, config, plans, approvals, reserved, planner, launched>>

BeginExecution(a) ==
    /\ applier[a].at = "begin" /\ MayRun(a)
    /\ operations' = [operations EXCEPT ![applier[a].op] = "running"]
    /\ ApplierGoes(a, "calling")
    /\ launched' = launched \cup {a}
    /\ UNCHANGED <<now, revision, config, plans, approvals, reserved, planner>>

\* The provider carries the call out, unless it fails.
ProviderWrites(a) ==
    /\ applier[a].at = "calling"
    /\ revision' \in Revisions
    /\ applier' = [applier EXCEPT ![a].at = "finish"]
    /\ UNCHANGED <<now, config, database, planner, turn, launched>>

\* The terminal status of Execution.
FinishOperation(a) ==
    /\ applier[a].at = "finish" /\ MayRun(a)
    /\ operations' = [operations EXCEPT ![applier[a].op] = "ended"]
    /\ ApplierGoes(a, "applied")
    /\ UNCHANGED <<now, revision, config, plans, approvals, reserved, planner, launched>>

\* The store, the audit log or the inspection throws.
FailApply(a) ==
    /\ MayFail /\ MayRun(a)
    /\ applier[a].at \notin Over \cup {"idle", "calling"}
    /\ ApplierGoes(a, "dead")
    /\ UNCHANGED <<now, revision, config, database, planner, launched>>

-----------------------------------------------------------------------------
(***************************************************************************)
(* The rest of the world                                                   *)
(***************************************************************************)
\* The process dies with its requests and is started again, perhaps with another
\* configuration; only the database remains.
Restart(c) ==
    /\ MayFail
    /\ config' = c
    /\ applier' = [a \in Appliers |->
          IF applier[a].at \in Over \cup {"idle"} THEN applier[a]
          ELSE [applier[a] EXCEPT !.at = "dead"]]
    /\ planner' = [p \in Planners |-> Unused]
    /\ turn' = "nobody"
    /\ UNCHANGED <<now, revision, database, launched>>

Drift ==
    /\ MayDrift
    /\ revision' \in Revisions
    /\ UNCHANGED <<now, config, database, requests, launched>>

Tick ==
    /\ now < MaxTime
    /\ now' = now + 1
    /\ UNCHANGED <<revision, config, database, requests, launched>>

PlanStep(p) == PlanBuild(p) \/ PreserveValidityWindow(p) \/ SavePlan(p)

ApplyStep(a) ==
    \/ FindReplay(a) \/ PassGates(a) \/ RefuseAtGates(a) \/ Inspect(a) \/ AssertNoDrift(a)
    \/ ReserveIdempotency(a) \/ JoinOther(a) \/ CreateOperation(a) \/ BeginExecution(a)
    \/ ProviderWrites(a) \/ FinishOperation(a)

Next ==
    \/ \E p \in Planners : PlanStep(p)
    \/ \E p \in Approvers, id \in PlanIds : Approve(p, id)
    \/ \E a \in Appliers :
        \/ \E id \in PlanIds, k \in Keys : LoadPlan(a, id, k)
        \/ ApplyStep(a)
        \/ FailApply(a)
    \/ \E c \in Configs : Restart(c)
    \/ Drift
    \/ Tick

Spec == Init /\ [][Next]_vars

(***************************************************************************)
(* Every request that was begun goes on: provider calls end by their       *)
(* timeout, and Node resumes what has stopped waiting in the order of its  *)
(* queue.  A request can go on only while no other one has the turn, so    *)
(* that order is strong fairness.                                          *)
(***************************************************************************)
Fairness ==
    /\ \A a \in Appliers : SF_vars(ApplyStep(a))
    /\ \A p \in Planners : SF_vars(PreserveValidityWindow(p) \/ SavePlan(p))

FairSpec == Spec /\ Fairness

-----------------------------------------------------------------------------
(***************************************************************************)
(* Properties                                                              *)
(***************************************************************************)
\* Well-formed rows and requests.
TypeOK ==
    /\ now \in Time
    /\ revision \in Revisions
    /\ config \in Configs
    /\ plans \in [PlanIds -> Plan \cup {NoPlan}]
    /\ approvals \in [PlanIds -> [Approvers -> Vote \cup {NoVote}]]
    /\ reserved \in [PlanIds -> [Keys -> Appliers \cup {"free"}]]
    /\ operations \in [Appliers -> {"absent", "created", "running", "ended"}]
    /\ applier \in [Appliers -> Request \cup {Unused}]
    /\ planner \in [Planners -> Draft \cup {Unused}]
    /\ turn \in Appliers \cup Planners \cup {"nobody"}
    /\ launched \subseteq Appliers

\* a passes the gates in this step.
Admits(a) == applier[a].at = "gates" /\ applier'[a].at = "inspect"

\* An approval authorises nothing later than one TTL after it was given, however
\* often the plan was planned again meanwhile (#preserveValidityWindow together
\* with #assertApproved).
ApprovalsAge ==
    [][\A a \in Appliers : Admits(a) =>
          Cardinality({p \in Approvers :
              /\ approvals[applier[a].id][p] # NoVote
              /\ approvals[applier[a].id][p].approvedAt + TTL > now})
            >= applier[a].id.required]_vars

\* Whatever reaches the provider was approved by as many people as its plan
\* asked for, inside the window of the copy that runs, and nothing has taken
\* those approvals back.
LaunchedWithApproval ==
    \A a \in launched :
        Cardinality(counted(applier[a].id, applier[a].plan)) >= applier[a].id.required

\* Planning again never moves the window of a plan that is still open (SPEC
\* section 12.3).
WindowIsKept ==
    [][\A id \in PlanIds :
          plans[id] # NoPlan /\ ~isPlanExpired(plans[id])
            => /\ plans'[id] # NoPlan
               /\ plans'[id].createdAt = plans[id].createdAt
               /\ plans'[id].expiresAt = plans[id].expiresAt]_vars

\* A plan and an idempotency key stand for one operation: they reach the provider
\* through one request at most, and a replay answers with the operation that
\* claimed them, which exists; also when requests with the key race, fail half-way
\* or come again after a crash at any point between the claim and the end.
KeyNamesOneOperation ==
    \A a \in Appliers :
        /\ a \in launched
            => \A b \in launched :
                  applier[a].id = applier[b].id /\ applier[a].key = applier[b].key => a = b
        /\ applier[a].at = "replayed"
            => /\ reserved[applier[a].id][applier[a].key] = applier[a].op
               /\ operations[applier[a].op] # "absent"

\* Nothing runs under policies other than those its plan was made under, nor
\* under policies that deny it.
LaunchedUnderItsPolicies ==
    \A a \in Appliers : applier[a].at \in {"calling", "finish"}
        => Bundle[config] = applier[a].id.bundle /\ config \notin Denying

\* Every apply request is answered.
AppliesAreAnswered ==
    \A a \in Appliers : applier[a].at = "lookup" ~> applier[a].at \in Over
=============================================================================
