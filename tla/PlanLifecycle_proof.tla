------------------------- MODULE PlanLifecycle_proof -------------------------
(***************************************************************************)
(* Theorems about PlanLifecycle, for any clients, keys, configurations and *)
(* clock.                                                                  *)
(***************************************************************************)
EXTENDS PlanLifecycle, FiniteSetTheorems, TLAPS

LEMMA PlanIdType == TypeOK => \A r \in Revisions : PlanId(r) \in PlanIds
BY DEF TypeOK, PlanId, PlanIds

LEMMA InitType == Init => TypeOK
BY TimeAssumption DEF Init, TypeOK, Time

-----------------------------------------------------------------------------
(***************************************************************************)
(* Type correctness                                                        *)
(***************************************************************************)
LEMMA PlanStepType ==
    ASSUME TypeOK, NEW p \in Planners, PlanStep(p)
    PROVE  TypeOK'
<1>1. CASE PlanBuild(p)
  <2>1. PlanId(revision) \in PlanIds
    BY PlanIdType DEF TypeOK
  <2>2. now + TTL \in Nat
    BY TimeAssumption DEF TypeOK, Time
  <2>3. PICK d \in Documents :
          planner' = [planner EXCEPT ![p] =
            [at |-> "built", id |-> PlanId(revision),
             plan |-> [stored |-> TRUE, createdAt |-> now, expiresAt |-> now + TTL,
                       document |-> d]]]
    BY <1>1 DEF PlanBuild
  <2>4. [stored |-> TRUE, createdAt |-> now, expiresAt |-> now + TTL, document |-> d] \in Plan
    BY <2>2 DEF Plan, TypeOK
  <2>5. planner' \in [Planners -> Draft \cup {Unused}]
    BY <2>1, <2>3, <2>4 DEF TypeOK, Draft
  <2> QED BY <1>1, <2>5 DEF PlanBuild, TypeOK, Turn, database
<1>2. CASE PreserveValidityWindow(p)
  <2>1. planner[p] \in Draft
    BY <1>2 DEF PreserveValidityWindow, TypeOK, Unused
  <2>2. plans[planner[p].id] \in Plan \cup {NoPlan}
    BY <2>1 DEF TypeOK, Draft
  <2>3. planner' \in [Planners -> Draft \cup {Unused}]
    <3>1. CASE plans[planner[p].id] = NoPlan \/ isPlanExpired(plans[planner[p].id])
      BY <1>2, <2>1, <3>1 DEF PreserveValidityWindow, TypeOK, Draft
    <3>2. CASE ~(plans[planner[p].id] = NoPlan \/ isPlanExpired(plans[planner[p].id]))
      BY <1>2, <2>1, <2>2, <3>2 DEF PreserveValidityWindow, TypeOK, Draft, Plan
    <3> QED BY <3>1, <3>2
  <2> QED BY <1>2, <2>3 DEF PreserveValidityWindow, TypeOK, Turn, database
<1>3. CASE SavePlan(p)
  <2>1. planner[p] \in Draft
    BY <1>3 DEF SavePlan, TypeOK, Unused
  <2>2. plans' \in [PlanIds -> Plan \cup {NoPlan}]
    BY <1>3, <2>1 DEF SavePlan, TypeOK, Draft
  <2> QED BY <1>3, <2>2 DEF SavePlan, TypeOK, Turn
<1> QED BY <1>1, <1>2, <1>3 DEF PlanStep

LEMMA LoadPlanType ==
    ASSUME TypeOK, NEW a \in Appliers, NEW id \in PlanIds, NEW k \in Keys, LoadPlan(a, id, k)
    PROVE  TypeOK'
<1>1. plans[id] \in Plan
  BY DEF LoadPlan, TypeOK
<1>2. applier' \in [Appliers -> Request \cup {Unused}]
  BY <1>1 DEF LoadPlan, TypeOK, Request
<1> QED BY <1>2 DEF LoadPlan, TypeOK, Turn, database

\* A request that only moves on stays well formed.
LEMMA GoesType ==
    ASSUME TypeOK, NEW a \in Appliers, applier[a].at # "idle",
           NEW to \in {"lookup", "gates", "inspect", "claim", "join", "create", "begin",
                       "calling", "finish", "applied", "replayed", "refused", "dead"},
           ApplierGoes(a, to)
    PROVE  /\ applier' \in [Appliers -> Request \cup {Unused}]
           /\ turn' \in Appliers \cup Planners \cup {"nobody"}
<1>1. applier[a] \in Request
  BY DEF TypeOK, Unused
<1>2. applier' \in [Appliers -> Request \cup {Unused}]
  BY <1>1 DEF ApplierGoes, TypeOK, Request
<1> QED BY <1>2 DEF ApplierGoes, Turn

\* Only a request that is under way takes a step of apply.
LEMMA ActsOnRequest ==
    ASSUME TypeOK, NEW a \in Appliers, ApplyStep(a)
    PROVE  applier[a] \in Request /\ applier[a].at # "idle"
<1>1. applier[a].at # "idle"
  <2>1. CASE FindReplay(a) \/ PassGates(a) \/ RefuseAtGates(a) \/ Inspect(a)
    BY <2>1 DEF FindReplay, PassGates, RefuseAtGates, Inspect
  <2>2. CASE AssertNoDrift(a) \/ ReserveIdempotency(a) \/ JoinOther(a) \/ CreateOperation(a)
    BY <2>2 DEF AssertNoDrift, ReserveIdempotency, JoinOther, getOperation, CreateOperation
  <2>3. CASE BeginExecution(a) \/ ProviderWrites(a) \/ FinishOperation(a)
    BY <2>3 DEF BeginExecution, ProviderWrites, FinishOperation
  <2> QED BY <2>1, <2>2, <2>3 DEF ApplyStep
<1> QED BY <1>1 DEF TypeOK, Unused

\* What FindReplay does, in terms of the row of the key.
LEMMA FindReplayReads ==
    ASSUME TypeOK, NEW a \in Appliers, FindReplay(a)
    PROVE  LET o == reserved[applier[a].id][applier[a].key]
           IN  IF o # "free" /\ operations[o] # "absent"
               THEN /\ o \in Appliers
                    /\ applier' = [applier EXCEPT ![a].at = "replayed", ![a].op = o]
                    /\ Turn(a, "replayed")
               ELSE ApplierGoes(a, "gates")
<1>1. applier[a] \in Request
  BY DEF FindReplay, TypeOK, Unused
<1>2. reserved[applier[a].id][applier[a].key] \in Appliers \cup {"free"}
  BY <1>1 DEF TypeOK, Request
<1>3. "none" \notin Appliers
  BY RequestsAssumption
<1> QED BY <1>2, <1>3 DEF FindReplay, findOperationByIdempotency, getOperation

LEMMA ApplyStepType ==
    ASSUME TypeOK, NEW a \in Appliers, ApplyStep(a)
    PROVE  TypeOK'
<1>1. applier[a] \in Request /\ applier[a].at # "idle"
  BY ActsOnRequest
<1>2. reserved[applier[a].id][applier[a].key] \in Appliers \cup {"free"}
  BY <1>1 DEF TypeOK, Request
<1>3. CASE FindReplay(a)
  <2>1. CASE /\ reserved[applier[a].id][applier[a].key] # "free"
             /\ operations[reserved[applier[a].id][applier[a].key]] # "absent"
    <3>1. PICK o \in Appliers :
            applier' = [applier EXCEPT ![a].at = "replayed", ![a].op = o]
      BY <1>2, <1>3, <2>1, FindReplayReads DEF FindReplay
    <3>2. [applier[a] EXCEPT !.at = "replayed", !.op = o] \in Request
      BY <1>1 DEF Request
    <3>3. applier' \in [Appliers -> Request \cup {Unused}]
      BY <3>1, <3>2 DEF TypeOK
    <3> QED BY <1>3, <2>1, <3>3, FindReplayReads DEF FindReplay, TypeOK, Turn, database
  <2>2. CASE ~(/\ reserved[applier[a].id][applier[a].key] # "free"
               /\ operations[reserved[applier[a].id][applier[a].key]] # "absent")
    <3>1. ApplierGoes(a, "gates")
      BY <1>3, <2>2, FindReplayReads DEF FindReplay
    <3> QED BY <1>1, <1>3, <3>1, GoesType, FindReplayReads DEF FindReplay, TypeOK, database
  <2> QED BY <2>1, <2>2
<1>4. CASE PassGates(a)
  BY <1>1, <1>4, GoesType DEF PassGates, TypeOK, database
<1>5. CASE RefuseAtGates(a)
  BY <1>1, <1>5, GoesType DEF RefuseAtGates, TypeOK, database
<1>6. CASE Inspect(a)
  <2>1. applier' \in [Appliers -> Request \cup {Unused}]
    BY <1>1, <1>6 DEF Inspect, TypeOK, Request
  <2> QED BY <1>6, <2>1 DEF Inspect, TypeOK, database
<1>7. CASE AssertNoDrift(a)
  <2>1. \E to \in {"claim", "refused"} : ApplierGoes(a, to)
    <3>1. PICK ifMatch \in Revisions \cup {"none"} :
            ApplierGoes(a, IF /\ ifMatch \in {"none", applier[a].seen}
                              /\ applier[a].seen = applier[a].id.revision
                           THEN "claim" ELSE "refused")
      BY <1>7 DEF AssertNoDrift
    <3> QED BY <3>1
  <2> QED BY <1>1, <1>7, <2>1, GoesType DEF AssertNoDrift, TypeOK, database
<1>8. CASE ReserveIdempotency(a)
  <2>1. applier' \in [Appliers -> Request \cup {Unused}]
    <3>1. CASE reserved[applier[a].id][applier[a].key] = "free"
      BY <1>1, <1>8, <3>1 DEF ReserveIdempotency, TypeOK, Request
    <3>2. CASE reserved[applier[a].id][applier[a].key] # "free"
      <4>1. PICK o \in Appliers :
              applier' = [applier EXCEPT ![a].at = "join", ![a].op = o]
        BY <1>2, <1>8, <3>2 DEF ReserveIdempotency
      <4>2. [applier[a] EXCEPT !.at = "join", !.op = o] \in Request
        BY <1>1 DEF Request
      <4> QED BY <4>1, <4>2 DEF TypeOK
    <3> QED BY <3>1, <3>2
  <2>2. reserved' \in [PlanIds -> [Keys -> Appliers \cup {"free"}]]
    <3>1. CASE reserved[applier[a].id][applier[a].key] = "free"
      <4>1. reserved' = [reserved EXCEPT ![applier[a].id][applier[a].key] = a]
        BY <1>8, <3>1 DEF ReserveIdempotency
      <4> QED BY <1>1, <4>1 DEF TypeOK, Request
    <3>2. CASE reserved[applier[a].id][applier[a].key] # "free"
      BY <1>8, <3>2 DEF ReserveIdempotency, TypeOK
    <3> QED BY <3>1, <3>2
  <2>3. turn' \in Appliers \cup Planners \cup {"nobody"}
    BY <1>8 DEF ReserveIdempotency, Turn
  <2> QED BY <1>8, <2>1, <2>2, <2>3 DEF ReserveIdempotency, TypeOK
<1>9. CASE JoinOther(a)
  <2>1. PICK to \in {"replayed", "create"} : ApplierGoes(a, to)
    BY <1>9 DEF JoinOther, getOperation
  <2> QED BY <1>1, <1>9, <2>1, GoesType DEF JoinOther, getOperation, TypeOK, database
<1>10. CASE CreateOperation(a)
  BY <1>1, <1>10, GoesType DEF CreateOperation, TypeOK
<1>11. CASE BeginExecution(a)
  BY <1>1, <1>11, GoesType DEF BeginExecution, TypeOK
<1>12. CASE ProviderWrites(a)
  <2>1. applier' \in [Appliers -> Request \cup {Unused}]
    BY <1>1, <1>12 DEF ProviderWrites, TypeOK, Request
  <2> QED BY <1>12, <2>1 DEF ProviderWrites, TypeOK, database
<1>13. CASE FinishOperation(a)
  BY <1>1, <1>13, GoesType DEF FinishOperation, TypeOK
<1> QED
  BY <1>3, <1>4, <1>5, <1>6, <1>7, <1>8, <1>9, <1>10, <1>11, <1>12, <1>13 DEF ApplyStep

LEMMA NextType == TypeOK /\ [Next]_vars => TypeOK'
<1> SUFFICES ASSUME TypeOK, [Next]_vars PROVE TypeOK'
  OBVIOUS
<1>1. ASSUME NEW p \in Planners, PlanStep(p) PROVE TypeOK'
  BY <1>1, PlanStepType
<1>2. ASSUME NEW p \in Approvers, NEW id \in PlanIds, Approve(p, id) PROVE TypeOK'
  <2>1. plans[id] \in Plan
    BY <1>2 DEF Approve, saveApproval, TypeOK
  <2>2. approvals' \in [PlanIds -> [Approvers -> Vote \cup {NoVote}]]
    BY <1>2, <2>1 DEF Approve, saveApproval, TypeOK, Vote, Plan
  <2> QED BY <1>2, <2>2 DEF Approve, saveApproval, TypeOK, requests
<1>3. ASSUME NEW a \in Appliers, NEW id \in PlanIds, NEW k \in Keys, LoadPlan(a, id, k)
      PROVE  TypeOK'
  BY <1>3, LoadPlanType
<1>4. ASSUME NEW a \in Appliers, ApplyStep(a) PROVE TypeOK'
  BY <1>4, ApplyStepType
<1>5. ASSUME NEW a \in Appliers, FailApply(a) PROVE TypeOK'
  BY <1>5, GoesType DEF FailApply, TypeOK, database
<1>6. ASSUME NEW c \in Configs, Restart(c) PROVE TypeOK'
  <2>1. ASSUME NEW a \in Appliers PROVE applier'[a] \in Request \cup {Unused}
    <3>1. CASE applier[a].at \in Over \cup {"idle"}
      BY <1>6, <3>1 DEF Restart, TypeOK
    <3>2. CASE applier[a].at \notin Over \cup {"idle"}
      <4>1. applier[a] \in Request
        BY <3>2 DEF TypeOK, Unused
      <4>2. applier'[a] = [applier[a] EXCEPT !.at = "dead"]
        BY <1>6, <3>2 DEF Restart
      <4> QED BY <4>1, <4>2 DEF Request
    <3> QED BY <3>1, <3>2
  <2>2. applier' = [a \in Appliers |-> applier'[a]]
    BY <1>6 DEF Restart
  <2>3. applier' \in [Appliers -> Request \cup {Unused}]
    BY <2>1, <2>2
  <2> QED BY <1>6, <2>3 DEF Restart, TypeOK, database
<1>7. CASE Drift
  BY <1>7 DEF Drift, TypeOK, database, requests
<1>8. CASE Tick
  BY <1>8, TimeAssumption DEF Tick, TypeOK, database, requests, Time
<1>9. CASE UNCHANGED vars
  BY <1>9 DEF vars, TypeOK, database, requests
<1> QED BY <1>1, <1>2, <1>3, <1>4, <1>5, <1>6, <1>7, <1>8, <1>9 DEF Next

\* Every reachable state of PlanLifecycle is well typed.
THEOREM TypeCorrect == Spec => []TypeOK
BY InitType, NextType, PTL DEF Spec

-----------------------------------------------------------------------------
(***************************************************************************)
(* What no step undoes                                                     *)
(***************************************************************************)
\* A step of an apply request touches that request and the tables it writes.
LEMMA ApplyStepShape ==
    ASSUME TypeOK, NEW a \in Appliers, ApplyStep(a)
    PROVE  /\ applier[a] \in Request
           /\ applier'[a] # Unused
           /\ applier'[a].id = applier[a].id
           /\ applier'[a].key = applier[a].key
           /\ applier'[a].plan = applier[a].plan
           /\ \A b \in Appliers \ {a} : applier'[b] = applier[b]
           /\ UNCHANGED <<now, config, plans, approvals, planner>>
<1>1. applier[a] \in Request /\ applier[a].at # "idle"
  BY ActsOnRequest
<1>2. UNCHANGED <<now, config, plans, approvals, planner>>
  BY DEF ApplyStep, FindReplay, PassGates, RefuseAtGates, Inspect, AssertNoDrift,
         ReserveIdempotency, JoinOther, CreateOperation, BeginExecution, ProviderWrites,
         FinishOperation, database
<1> DEFINE Kept == /\ applier'[a] # Unused
                   /\ applier'[a].id = applier[a].id
                   /\ applier'[a].key = applier[a].key
                   /\ applier'[a].plan = applier[a].plan
                   /\ \A b \in Appliers \ {a} : applier'[b] = applier[b]
<1>3. applier \in [Appliers -> Request \cup {Unused}]
  BY DEF TypeOK
<1>4. ASSUME NEW to, applier' = [applier EXCEPT ![a].at = to] PROVE Kept
  BY <1>1, <1>3, <1>4 DEF Request, Unused
<1>5. ASSUME NEW to, NEW o, applier' = [applier EXCEPT ![a].at = to, ![a].op = o] PROVE Kept
  BY <1>1, <1>3, <1>5 DEF Request, Unused
<1>6. ASSUME NEW r, applier' = [applier EXCEPT ![a].seen = r] PROVE Kept
  BY <1>1, <1>3, <1>6 DEF Request, Unused
<1>7. ASSUME NEW to, ApplierGoes(a, to) PROVE Kept
  BY <1>4, <1>7 DEF ApplierGoes
<1> HIDE DEF Kept
<1>8. ASSUME FindReplay(a) PROVE Kept
  <2>1. CASE /\ reserved[applier[a].id][applier[a].key] # "free"
             /\ operations[reserved[applier[a].id][applier[a].key]] # "absent"
    <3>1. \E o : applier' = [applier EXCEPT ![a].at = "replayed", ![a].op = o]
      BY <1>8, <2>1, FindReplayReads
    <3> QED BY <1>5, <3>1
  <2>2. CASE ~(/\ reserved[applier[a].id][applier[a].key] # "free"
               /\ operations[reserved[applier[a].id][applier[a].key]] # "absent")
    <3>1. ApplierGoes(a, "gates")
      BY <1>8, <2>2, FindReplayReads
    <3> QED BY <1>7, <3>1
  <2> QED BY <2>1, <2>2
<1>9. ASSUME PassGates(a) \/ RefuseAtGates(a) PROVE Kept
  BY <1>7, <1>9 DEF PassGates, RefuseAtGates
<1>10. ASSUME Inspect(a) PROVE Kept
  BY <1>6, <1>10 DEF Inspect
<1>11. ASSUME AssertNoDrift(a) PROVE Kept
  BY <1>7, <1>11 DEF AssertNoDrift
<1>12. ASSUME ReserveIdempotency(a) PROVE Kept
  <2>1. CASE reserved[applier[a].id][applier[a].key] = "free"
    BY <1>5, <1>12, <2>1 DEF ReserveIdempotency
  <2>2. CASE reserved[applier[a].id][applier[a].key] # "free"
    BY <1>5, <1>12, <2>2 DEF ReserveIdempotency
  <2> QED BY <2>1, <2>2
<1>13. ASSUME JoinOther(a) PROVE Kept
  BY <1>7, <1>13 DEF JoinOther, getOperation
<1>14. ASSUME CreateOperation(a) \/ BeginExecution(a) \/ FinishOperation(a) PROVE Kept
  BY <1>7, <1>14 DEF CreateOperation, BeginExecution, FinishOperation
<1>15. ASSUME ProviderWrites(a) PROVE Kept
  BY <1>4, <1>15 DEF ProviderWrites
<1>16. Kept
  BY <1>8, <1>9, <1>10, <1>11, <1>12, <1>13, <1>14, <1>15 DEF ApplyStep
<1> QED BY <1>1, <1>2, <1>16 DEF Kept

\* A failing request goes nowhere else than to its death.
LEMMA FailShape ==
    ASSUME TypeOK, NEW a \in Appliers, FailApply(a)
    PROVE  /\ applier[a] \in Request
           /\ applier' = [applier EXCEPT ![a].at = "dead"]
           /\ \A b \in Appliers \ {a} : applier'[b] = applier[b]
           /\ UNCHANGED <<now, config, database, planner, launched>>
BY DEF FailApply, ApplierGoes, TypeOK, Unused

\* The clock never goes back.
LEMMA ClockGoesOn ==
    ASSUME TypeOK, [Next]_vars
    PROVE  now' \in Nat /\ now \in Nat /\ now <= now'
<1>1. now \in Nat
  BY TimeAssumption DEF TypeOK, Time
<1>2. CASE Tick
  BY <1>1, <1>2 DEF Tick
<1>3. CASE ~Tick
  <2>1. now' = now
    <3>1. ASSUME NEW p \in Planners, PlanStep(p) PROVE now' = now
      BY <3>1 DEF PlanStep, PlanBuild, PreserveValidityWindow, SavePlan
    <3>2. ASSUME NEW a \in Appliers, ApplyStep(a) PROVE now' = now
      BY <3>2, ApplyStepShape
    <3> QED BY <1>3, <3>1, <3>2 DEF Next, Approve, saveApproval, LoadPlan, FailApply, Restart,
        Drift, vars
  <2> QED BY <1>1, <2>1
<1> QED BY <1>2, <1>3

\* A request keeps the plan it has loaded and its key.
LEMMA RequestsKeepTheirPlan ==
    ASSUME TypeOK, [Next]_vars, NEW a \in Appliers, applier[a] # Unused
    PROVE  /\ applier'[a] # Unused
           /\ applier'[a].id = applier[a].id
           /\ applier'[a].key = applier[a].key
           /\ applier'[a].plan = applier[a].plan
<1>1. applier[a] \in Request
  BY DEF TypeOK
<1> DEFINE Kept == /\ applier'[a] # Unused
                   /\ applier'[a].id = applier[a].id
                   /\ applier'[a].key = applier[a].key
                   /\ applier'[a].plan = applier[a].plan
<1>2. applier' = applier => Kept
  OBVIOUS
<1>3. ASSUME NEW b \in Appliers, ApplyStep(b) PROVE Kept
  BY <1>3, ApplyStepShape
<1>4. ASSUME NEW b \in Appliers, FailApply(b) PROVE Kept
  BY <1>1, <1>4, FailShape DEF Request, Unused, TypeOK
<1>5. ASSUME NEW b \in Appliers, NEW id \in PlanIds, NEW k \in Keys, LoadPlan(b, id, k)
      PROVE  Kept
  BY <1>1, <1>5 DEF LoadPlan, Request, TypeOK
<1>6. ASSUME NEW c \in Configs, Restart(c) PROVE Kept
  <2>1. CASE applier[a].at \in Over \cup {"idle"}
    BY <1>6, <2>1 DEF Restart
  <2>2. CASE applier[a].at \notin Over \cup {"idle"}
    <3>1. applier'[a] = [applier[a] EXCEPT !.at = "dead"]
      BY <1>6, <2>2 DEF Restart
    <3> QED BY <1>1, <3>1 DEF Request, Unused
  <2> QED BY <2>1, <2>2
<1>7. ASSUME NEW p \in Planners, PlanStep(p) PROVE Kept
  BY <1>2, <1>7 DEF PlanStep, PlanBuild, PreserveValidityWindow, SavePlan
<1> HIDE DEF Kept
<1>8. Kept
  BY <1>2, <1>3, <1>4, <1>5, <1>6, <1>7 DEF Next, Approve, saveApproval, Drift, Tick, requests,
      vars
<1> QED BY <1>8 DEF Kept
-----------------------------------------------------------------------------
(***************************************************************************)
(* Windows and approvals                                                   *)
(***************************************************************************)
\* A plan dates from the past and is open for one TTL.
Windowed(plan) == plan.createdAt <= now /\ plan.expiresAt = plan.createdAt + TTL

WindowInv ==
    /\ \A id \in PlanIds : plans[id] # NoPlan => Windowed(plans[id])
    /\ \A p \in Planners : planner[p] # Unused => Windowed(planner[p].plan)
    /\ \A a \in Appliers : applier[a] # Unused => Windowed(applier[a].plan)

LEMMA WindowedStays ==
    ASSUME TypeOK, [Next]_vars, NEW plan \in Plan, Windowed(plan)
    PROVE  Windowed(plan)'
BY ClockGoesOn DEF Windowed, Plan, Time

LEMMA InitWindow == Init => WindowInv
BY DEF Init, WindowInv

LEMMA NextWindow == TypeOK /\ WindowInv /\ [Next]_vars => WindowInv'
<1> SUFFICES ASSUME TypeOK, WindowInv, [Next]_vars PROVE WindowInv'
  OBVIOUS
<1>1. \A p \in Planners : planner[p] # Unused =>
        planner[p] \in Draft /\ planner[p].plan \in Plan /\ planner[p].id \in PlanIds
  BY DEF TypeOK, Draft
<1>2. \A plan \in Plan : Windowed(plan) =>
        plan.createdAt <= now' /\ plan.expiresAt = plan.createdAt + TTL
  BY WindowedStays DEF Windowed
<1>3. ASSUME NEW id \in PlanIds, plans'[id] # NoPlan PROVE Windowed(plans[id])'
  <2>1. CASE plans' = plans
    BY <1>2, <1>3, <2>1 DEF TypeOK, WindowInv, Windowed
  <2>2. CASE plans' # plans
    <3>1. PICK p \in Planners : SavePlan(p)
      <4>1. \A a \in Appliers : ~ApplyStep(a)
        BY <2>2, ApplyStepShape
      <4> QED BY <2>2, <4>1 DEF Next, PlanStep, PlanBuild, PreserveValidityWindow, Approve,
          saveApproval,
            LoadPlan, FailApply, Restart, Drift, Tick, vars, database
    <3>2. planner[p] # Unused
      BY <3>1 DEF SavePlan, Unused
    <3>3. plans'[id] = planner[p].plan \/ plans'[id] = plans[id]
      BY <1>1, <3>1, <3>2 DEF SavePlan, TypeOK
    <3> QED BY <1>1, <1>2, <1>3, <3>2, <3>3 DEF TypeOK, WindowInv, Windowed
  <2> QED BY <2>1, <2>2
<1>4. ASSUME NEW p \in Planners, planner'[p] # Unused PROVE Windowed(planner[p].plan)'
  <2>1. CASE planner'[p] = planner[p]
    BY <1>1, <1>2, <1>4, <2>1 DEF WindowInv, Windowed
  <2>2. CASE planner'[p] # planner[p]
    <3>1. PICK q \in Planners : PlanStep(q)
      <4>1. \A a \in Appliers : ~ApplyStep(a)
        BY <2>2, ApplyStepShape
      <4> QED BY <1>4, <2>2, <4>1 DEF Next, Approve, saveApproval, LoadPlan, FailApply, Restart,
          Drift, Tick,
            vars, requests
    <3>2. CASE PlanBuild(q)
      <4>1. PICK d \in Documents :
              planner' = [planner EXCEPT ![q] =
                [at |-> "built", id |-> PlanId(revision),
                 plan |-> [stored |-> TRUE, createdAt |-> now, expiresAt |-> now + TTL,
                           document |-> d]]]
        BY <3>2 DEF PlanBuild
      <4>2. planner'[p].plan = [stored |-> TRUE, createdAt |-> now, expiresAt |-> now + TTL,
                                document |-> d]
        BY <2>2, <4>1 DEF TypeOK
      <4> QED BY <4>2, ClockGoesOn DEF Windowed
    <3>3. CASE PreserveValidityWindow(q)
      <4>1. planner[q] # Unused /\ q = p
        BY <2>2, <3>3 DEF PreserveValidityWindow, Unused, TypeOK
      <4>2. CASE plans[planner[p].id] = NoPlan \/ isPlanExpired(plans[planner[p].id])
        <5>1. planner'[p].plan = planner[p].plan
          BY <1>1, <3>3, <4>1, <4>2 DEF PreserveValidityWindow, TypeOK, Draft
        <5> QED BY <1>1, <1>2, <4>1, <5>1 DEF WindowInv, Windowed
      <4>3. CASE ~(plans[planner[p].id] = NoPlan \/ isPlanExpired(plans[planner[p].id]))
        <5>1. planner'[p].plan = [planner[p].plan EXCEPT
                !.createdAt = plans[planner[p].id].createdAt,
                !.expiresAt = plans[planner[p].id].expiresAt]
          BY <1>1, <3>3, <4>1, <4>3 DEF PreserveValidityWindow, TypeOK, Draft
        <5>2. plans[planner[p].id] \in Plan /\ Windowed(plans[planner[p].id])
          BY <1>1, <4>1, <4>3 DEF TypeOK, WindowInv
        <5>3. /\ planner'[p].plan.createdAt = plans[planner[p].id].createdAt
              /\ planner'[p].plan.expiresAt = plans[planner[p].id].expiresAt
          BY <1>1, <4>1, <5>1 DEF Plan
        <5> QED BY <1>2, <5>2, <5>3 DEF Windowed
      <4> QED BY <4>2, <4>3
    <3>4. CASE SavePlan(q)
      BY <1>4, <2>2, <3>4 DEF SavePlan, TypeOK
    <3> QED BY <3>1, <3>2, <3>3, <3>4 DEF PlanStep
  <2> QED BY <2>1, <2>2
<1>5. ASSUME NEW a \in Appliers, applier'[a] # Unused PROVE Windowed(applier[a].plan)'
  <2>1. CASE applier[a] # Unused
    <3>1. applier'[a].plan = applier[a].plan
      BY <2>1, RequestsKeepTheirPlan
    <3>2. applier[a].plan \in Plan
      BY <2>1 DEF TypeOK, Request
    <3> QED BY <1>2, <2>1, <3>1, <3>2 DEF WindowInv, Windowed
  <2>2. CASE applier[a] = Unused
    <3>1. PICK b \in Appliers, id \in PlanIds, k \in Keys : LoadPlan(b, id, k)
      <4>1. \A b \in Appliers : ~ApplyStep(b)
        BY <1>5, <2>2, ApplyStepShape DEF Request, Unused
      <4>2. \A b \in Appliers : ~FailApply(b)
        BY <1>5, <2>2, FailShape DEF Request, Unused
      <4>3. \A c \in Configs : ~Restart(c)
        BY <1>5, <2>2 DEF Restart, Unused, Over
      <4> QED BY <1>5, <2>2, <4>1, <4>2, <4>3 DEF Next, PlanStep, PlanBuild,
            PreserveValidityWindow, SavePlan, Approve, Drift, Tick, vars, requests
    <3>2. applier'[a].plan = plans[id] /\ plans[id] # NoPlan
      BY <1>5, <2>2, <3>1 DEF LoadPlan, TypeOK
    <3> QED BY <1>2, <3>2 DEF TypeOK, WindowInv, Windowed
  <2> QED BY <2>1, <2>2
<1> QED BY <1>3, <1>4, <1>5 DEF WindowInv

\* Where a request is once it has passed the gates and is alive.
PastGates == {"inspect", "claim", "join", "create", "begin", "calling", "finish", "applied"}

\* There is one way past the gates.
LEMMA OneWayPastGates ==
    ASSUME TypeOK, [Next]_vars, NEW a \in Appliers,
           applier'[a].at \in PastGates, applier[a].at \notin PastGates
    PROVE  /\ applier[a].at = "gates"
           /\ assertGates(applier[a].id, applier[a].plan)
           /\ UNCHANGED <<now, config, approvals>>
<1>1. applier'[a] # applier[a]
  OBVIOUS
<1>2. \A p \in Planners : ~PlanStep(p)
  BY <1>1 DEF PlanStep, PlanBuild, PreserveValidityWindow, SavePlan
<1>3. \A b \in Appliers : ~FailApply(b)
  <2>1. ASSUME NEW b \in Appliers, FailApply(b) PROVE FALSE
    <3>1. CASE b = a
      <4>1. applier[a] \in Request /\ applier' = [applier EXCEPT ![a].at = "dead"]
        BY <2>1, <3>1 DEF FailApply, ApplierGoes, TypeOK, Unused
      <4>2. applier'[a].at = "dead"
        BY <4>1 DEF TypeOK, Request
      <4> QED BY <4>2 DEF PastGates
    <3>2. CASE b # a
      <4>1. applier' = [applier EXCEPT ![b].at = "dead"]
        BY <2>1 DEF FailApply, ApplierGoes
      <4> QED BY <1>1, <3>2, <4>1 DEF TypeOK
    <3> QED BY <3>1, <3>2
  <2> QED BY <2>1
<1>4. \A b \in Appliers, id \in PlanIds, k \in Keys : ~LoadPlan(b, id, k)
  BY <1>1 DEF LoadPlan, TypeOK, PastGates
<1>5. \A c \in Configs : ~Restart(c)
  <2>1. ASSUME NEW c \in Configs, Restart(c), applier[a].at \notin Over \cup {"idle"} PROVE FALSE
    <3>1. applier[a] \in Request
      BY <2>1 DEF TypeOK, Unused
    <3>2. applier'[a].at = "dead"
      BY <2>1, <3>1 DEF Restart, Request
    <3> QED BY <3>2 DEF PastGates
  <2> QED BY <1>1, <2>1 DEF Restart
<1>6. ApplyStep(a)
  <2>1. PICK b \in Appliers : ApplyStep(b)
    BY <1>1, <1>2, <1>3, <1>4, <1>5 DEF Next, Approve, saveApproval, Drift, Tick, vars, requests
  <2> QED BY <1>1, <2>1, ApplyStepShape
<1>7. applier[a] \in Request
  BY <1>6, ApplyStepShape
<1>8. PassGates(a)
  <2>1. ~FindReplay(a)
    <3>1. FindReplay(a) => applier'[a].at \in {"replayed", "gates"}
      BY <1>7, FindReplayReads DEF FindReplay, ApplierGoes, TypeOK, Request
    <3> QED BY <3>1 DEF PastGates
  <2>2. ~RefuseAtGates(a)
    BY <1>7 DEF RefuseAtGates, ApplierGoes, TypeOK, Request, PastGates
  <2> QED BY <1>6, <2>1, <2>2 DEF ApplyStep, Inspect, AssertNoDrift, ReserveIdempotency,
        JoinOther, CreateOperation, BeginExecution, ProviderWrites, FinishOperation, PastGates
<1> QED BY <1>8 DEF PassGates, database

-----------------------------------------------------------------------------
\* The approvals in the window are a finite set, and a larger one counts for more.
LEMMA MoreApprovers ==
    ASSUME NEW S \in SUBSET Approvers, NEW T \in SUBSET Approvers, S \subseteq T
    PROVE  Cardinality(S) \in Nat /\ Cardinality(T) \in Nat /\ Cardinality(S) <= Cardinality(T)
<1>1. IsFiniteSet(S) /\ IsFiniteSet(T)
  BY ApproversAssumption, FS_Subset
<1> QED BY <1>1, FS_Subset, FS_CardinalityType

LEMMA RequiredType == \A id \in PlanIds : id.required \in Nat
BY ConfigAssumption DEF PlanIds

\* An approval is only ever replaced by a later one, so what counts in a window
\* goes on counting.
LEMMA CountedGrows ==
    ASSUME TypeOK, [Next]_vars, NEW id \in PlanIds, NEW plan \in Plan, plan.createdAt <= now
    PROVE  counted(id, plan) \subseteq counted(id, plan)'
<1>1. CASE approvals' = approvals
  BY <1>1 DEF counted, listApprovals
<1>2. CASE approvals' # approvals
  <2>1. PICK p \in Approvers, i \in PlanIds : Approve(p, i)
    <3>1. \A a \in Appliers : ~ApplyStep(a)
      BY <1>2, ApplyStepShape
    <3> QED BY <1>2, <3>1 DEF Next, PlanStep, PlanBuild, PreserveValidityWindow, SavePlan,
          LoadPlan, FailApply, Restart, Drift, Tick, vars, database
  <2>2. approvals' = [approvals EXCEPT ![i][p] =
            [given |-> TRUE, approvedAt |-> now, document |-> plans[i].document]]
    BY <2>1 DEF Approve, saveApproval
  <2>3. ASSUME NEW q \in counted(id, plan) PROVE q \in counted(id, plan)'
    <3>1. CASE q = p /\ id = i
      <4>1. approvals'[id][q] = [given |-> TRUE, approvedAt |-> now, document |-> plans[i].document]
        BY <2>2, <3>1 DEF TypeOK
      <4>2. approvals'[id][q] # NoVote
        BY <4>1 DEF NoVote
      <4>3. approvals'[id][q].approvedAt = now
        BY <4>1
      <4>4. now >= plan.createdAt
        BY DEF Plan, TypeOK, Time
      <4> QED BY <2>3, <4>2, <4>3, <4>4 DEF counted, listApprovals
    <3>2. CASE ~(q = p /\ id = i)
      <4>1. approvals'[id][q] = approvals[id][q]
        BY <2>2, <2>3, <3>2 DEF TypeOK, counted, listApprovals
      <4> QED BY <2>3, <4>1 DEF counted, listApprovals
    <3> QED BY <3>1, <3>2
  <2> QED BY <2>3
<1> QED BY <1>1, <1>2

\* Why LaunchedWithApproval is kept: enough approvals count for every request that
\* has passed the gates, and go on counting.
ApprovedInv ==
    \A a \in Appliers : a \in launched \/ applier[a].at \in PastGates
        => /\ applier[a] # Unused
           /\ Cardinality(counted(applier[a].id, applier[a].plan)) >= applier[a].id.required

LEMMA InitApproved == Init => ApprovedInv
BY DEF Init, ApprovedInv, PastGates, Unused

LEMMA NextApproved == TypeOK /\ WindowInv /\ ApprovedInv /\ [Next]_vars => ApprovedInv'
<1> SUFFICES ASSUME TypeOK, WindowInv, ApprovedInv, [Next]_vars,
                    NEW a \in Appliers, a \in launched' \/ applier'[a].at \in PastGates
             PROVE  /\ applier'[a] # Unused
                    /\ Cardinality(counted(applier[a].id, applier[a].plan)')
                         >= applier'[a].id.required
  BY DEF ApprovedInv
<1>1. a \in launched \/ applier[a].at \in PastGates \/ applier'[a].at \in PastGates
  <2>1. CASE launched' = launched
    BY <2>1
  <2>2. CASE launched' # launched
    <3>1. PICK b \in Appliers : BeginExecution(b)
      BY <2>2 DEF Next, PlanStep, PlanBuild, PreserveValidityWindow, SavePlan, Approve,
          saveApproval,
        LoadPlan, ApplyStep, FindReplay, PassGates, RefuseAtGates, Inspect, AssertNoDrift,
        ReserveIdempotency, JoinOther, CreateOperation, ProviderWrites, FinishOperation,
        FailApply, Restart, Drift, Tick, vars
    <3> QED BY <3>1 DEF BeginExecution, PastGates
  <2> QED BY <2>1, <2>2
<1>2. applier[a] # Unused
  <2>1. CASE a \in launched \/ applier[a].at \in PastGates
    BY <2>1 DEF ApprovedInv
  <2>2. CASE applier[a].at \notin PastGates /\ applier'[a].at \in PastGates
    BY <2>2, OneWayPastGates DEF Unused
  <2> QED BY <1>1, <2>1, <2>2
<1>3. applier[a].id \in PlanIds /\ applier[a].plan \in Plan /\ applier[a].plan.createdAt <= now
  BY <1>2 DEF TypeOK, Request, WindowInv, Windowed
<1>4. Cardinality(counted(applier[a].id, applier[a].plan)) >= applier[a].id.required
  <2>1. CASE a \in launched \/ applier[a].at \in PastGates
    BY <2>1 DEF ApprovedInv
  <2>2. CASE applier[a].at \notin PastGates /\ applier'[a].at \in PastGates
    BY <2>2, OneWayPastGates DEF assertGates
  <2> QED BY <1>1, <2>1, <2>2
<1>5. /\ applier'[a] # Unused
      /\ applier'[a].id = applier[a].id
      /\ applier'[a].plan = applier[a].plan
  BY <1>2, RequestsKeepTheirPlan
<1> DEFINE before == counted(applier[a].id, applier[a].plan)
           after  == {p \in Approvers : approvals'[applier[a].id][p] # NoVote
                        /\ approvals'[applier[a].id][p].approvedAt >= applier[a].plan.createdAt}
<1>6. before \subseteq after
  BY <1>3, CountedGrows DEF counted, listApprovals
<1>7. Cardinality(after) >= applier[a].id.required
  <2>1. before \in SUBSET Approvers /\ after \in SUBSET Approvers
    BY DEF counted, listApprovals
  <2>2. Cardinality(before) <= Cardinality(after) /\ Cardinality(before) \in Nat /\ Cardinality(after) \in Nat
    BY <1>6, <2>1, MoreApprovers
  <2>3. applier[a].id.required \in Nat
    BY <1>3, RequiredType
  <2>4. Cardinality(before) >= applier[a].id.required
    BY <1>4
  <2> HIDE DEF before, after
  <2> QED BY <2>2, <2>3, <2>4
<1>8. counted(applier[a].id, applier[a].plan)' = after
  BY <1>5 DEF counted, listApprovals
<1> QED BY <1>5, <1>7, <1>8

\* Whatever reaches the provider has the approvals its plan asks for, in any
\* number of plans, requests, restarts and interleavings.
THEOREM LaunchedWithApprovalAlways == Spec => []LaunchedWithApproval
<1>1. TypeOK /\ WindowInv /\ ApprovedInv /\ [Next]_vars => TypeOK' /\ WindowInv' /\ ApprovedInv'
  BY NextType, NextWindow, NextApproved
<1>2. TypeOK /\ ApprovedInv => LaunchedWithApproval
  BY DEF TypeOK, ApprovedInv, LaunchedWithApproval
<1> QED BY InitType, InitWindow, InitApproved, <1>1, <1>2, PTL DEF Spec

-----------------------------------------------------------------------------
\* The approvals of p that are younger than one TTL.
recent(id) == {p \in Approvers : approvals[id][p] # NoVote
                                 /\ approvals[id][p].approvedAt + TTL > now}

\* Whoever is let past the gates has enough of them: the window of the plan began
\* less than one TTL ago, and what counts was given since.
LEMMA AdmittedOnRecentApprovals ==
    ASSUME TypeOK, WindowInv, [Next]_vars, NEW a \in Appliers, Admits(a)
    PROVE  Cardinality(recent(applier[a].id)) >= applier[a].id.required
<1>1. assertGates(applier[a].id, applier[a].plan)
  BY OneWayPastGates DEF Admits, PastGates
<1>2. applier[a] # Unused
  BY DEF Admits, Unused
<1>3. applier[a].id \in PlanIds /\ applier[a].plan \in Plan /\ Windowed(applier[a].plan)
  BY <1>2 DEF TypeOK, Request, WindowInv
<1>4. counted(applier[a].id, applier[a].plan) \subseteq recent(applier[a].id)
  <2>1. ASSUME NEW p \in counted(applier[a].id, applier[a].plan) PROVE p \in recent(applier[a].id)
    <3>1. approvals[applier[a].id][p] \in Vote
      BY <1>3 DEF counted, listApprovals, TypeOK
    <3>2. /\ applier[a].plan.createdAt \in Nat
          /\ approvals[applier[a].id][p].approvedAt \in Nat
          /\ now \in Nat /\ TTL \in Nat
      <4>1. applier[a].plan.createdAt \in Time
        BY <1>3 DEF Plan
      <4>2. approvals[applier[a].id][p].approvedAt \in Time
        BY <3>1 DEF Vote
      <4>3. Time \subseteq Nat /\ now \in Time /\ TTL \in Nat
        BY TimeAssumption DEF TypeOK, Time
      <4> QED BY <4>1, <4>2, <4>3
    <3>3. ~(applier[a].plan.createdAt + TTL <= now)
      BY <1>1, <1>3 DEF assertGates, isPlanExpired, Windowed
    <3>4. approvals[applier[a].id][p].approvedAt >= applier[a].plan.createdAt
      BY DEF counted, listApprovals
    <3>5. approvals[applier[a].id][p].approvedAt + TTL > now
      BY <3>2, <3>3, <3>4
    <3> QED BY <3>5 DEF counted, listApprovals, recent
  <2> QED BY <2>1
<1> DEFINE c == counted(applier[a].id, applier[a].plan)
           r == recent(applier[a].id)
<1>5. c \in SUBSET Approvers /\ r \in SUBSET Approvers
  BY DEF counted, listApprovals, recent
<1>6. Cardinality(c) \in Nat /\ Cardinality(r) \in Nat /\ Cardinality(c) <= Cardinality(r)
  BY <1>4, <1>5, MoreApprovers
<1>7. applier[a].id.required \in Nat
  BY <1>3, RequiredType
<1>8. Cardinality(c) >= applier[a].id.required
  BY <1>1 DEF assertGates
<1> QED BY <1>6, <1>7, <1>8

\* No approval authorises anything later than one TTL after it was given, however
\* often the plan was planned again (#preserveValidityWindow, #assertApproved).
THEOREM ApprovalsAgeAlways == Spec => ApprovalsAge
<1>1. TypeOK /\ WindowInv /\ [Next]_vars => TypeOK' /\ WindowInv'
  BY NextType, NextWindow
<1>2. TypeOK /\ WindowInv /\ [Next]_vars =>
        [\A a \in Appliers : Admits(a) =>
          Cardinality({p \in Approvers :
              /\ approvals[applier[a].id][p] # NoVote
              /\ approvals[applier[a].id][p].approvedAt + TTL > now})
            >= applier[a].id.required]_vars
  BY AdmittedOnRecentApprovals DEF recent
<1> QED BY InitType, InitWindow, <1>1, <1>2, PTL DEF Spec, ApprovalsAge

-----------------------------------------------------------------------------
(***************************************************************************)
(* Policies                                                                *)
(***************************************************************************)
\* Why LaunchedUnderItsPolicies is kept: what the gates saw of the configuration
\* stays true of every request past them, since another configuration comes only
\* with a restart and no request survives that.
PoliciesInv ==
    \A a \in Appliers : applier[a].at \in PastGates \ {"applied"}
        => Bundle[config] = applier[a].id.bundle /\ config \notin Denying

LEMMA InitPolicies == Init => PoliciesInv
BY DEF Init, PoliciesInv, PastGates, Unused

LEMMA NextPolicies == TypeOK /\ PoliciesInv /\ [Next]_vars => PoliciesInv'
<1> SUFFICES ASSUME TypeOK, PoliciesInv, [Next]_vars,
                    NEW a \in Appliers, applier'[a].at \in PastGates \ {"applied"}
             PROVE  Bundle[config'] = applier'[a].id.bundle /\ config' \notin Denying
  BY DEF PoliciesInv
<1>1. CASE \E c \in Configs : Restart(c)
  <2>1. PICK c \in Configs : Restart(c)
    BY <1>1
  <2>2. CASE applier[a].at \in Over \cup {"idle"}
    BY <2>1, <2>2 DEF Restart, Over, PastGates
  <2>3. CASE applier[a].at \notin Over \cup {"idle"}
    <3>1. applier[a] \in Request
      BY <2>3 DEF TypeOK, Unused
    <3>2. applier'[a] = [applier[a] EXCEPT !.at = "dead"]
      BY <2>1, <2>3 DEF Restart
    <3> QED BY <3>1, <3>2 DEF Request, PastGates
  <2> QED BY <2>2, <2>3
<1>2. CASE ~ \E c \in Configs : Restart(c)
  <2>1. config' = config
    <3>1. \A p \in Planners : PlanStep(p) => config' = config
      BY DEF PlanStep, PlanBuild, PreserveValidityWindow, SavePlan
    <3>2. \A b \in Appliers : ApplyStep(b) => config' = config
      BY ApplyStepShape
    <3> QED BY <1>2, <3>1, <3>2 DEF Next, Approve, saveApproval, LoadPlan, FailApply, Drift,
        Tick, vars
  <2>2. CASE applier[a].at \in PastGates
    <3>1. applier[a] # Unused
      BY <2>2 DEF PastGates, Unused
    <3>2. applier'[a].id = applier[a].id
      BY <3>1, RequestsKeepTheirPlan
    <3>3. applier[a].at # "applied"
      <4>1. ASSUME applier[a].at = "applied" PROVE applier'[a] = applier[a]
        <5>1. ~ApplyStep(a) /\ ~FailApply(a)
          BY <4>1 DEF ApplyStep, FindReplay, PassGates, RefuseAtGates, Inspect, AssertNoDrift,
            ReserveIdempotency, JoinOther, CreateOperation, BeginExecution, ProviderWrites,
            FinishOperation, FailApply, Over
        <5>2. \A b \in Appliers : ApplyStep(b) \/ FailApply(b) => applier'[a] = applier[a]
          BY <5>1, ApplyStepShape, FailShape
        <5>3. \A b \in Appliers, id \in PlanIds, k \in Keys :
                LoadPlan(b, id, k) => applier'[a] = applier[a]
          BY <4>1 DEF LoadPlan, TypeOK
        <5>4. \A p \in Planners : PlanStep(p) => applier' = applier
          BY DEF PlanStep, PlanBuild, PreserveValidityWindow, SavePlan
        <5> QED BY <1>2, <5>2, <5>3, <5>4 DEF Next, Approve, saveApproval, Drift, Tick,
            requests, vars
      <4> QED BY <4>1
    <3> QED BY <2>1, <2>2, <3>2, <3>3 DEF PoliciesInv
  <2>3. CASE applier[a].at \notin PastGates
    <3>1. applier[a].at = "gates" /\ assertGates(applier[a].id, applier[a].plan)
      BY <2>3, OneWayPastGates
    <3>2. applier'[a].id = applier[a].id
      BY <3>1, RequestsKeepTheirPlan DEF Unused
    <3> QED BY <2>1, <3>1, <3>2 DEF assertGates
  <2> QED BY <2>2, <2>3
<1> QED BY <1>1, <1>2

\* Nothing runs under other policies than its plan was made under, nor under ones
\* that deny it, through any restarts with any configurations.
THEOREM LaunchedUnderItsPoliciesAlways == Spec => []LaunchedUnderItsPolicies
<1>1. TypeOK /\ PoliciesInv /\ [Next]_vars => TypeOK' /\ PoliciesInv'
  BY NextType, NextPolicies
<1>2. PoliciesInv => LaunchedUnderItsPolicies
  BY DEF PoliciesInv, PastGates, LaunchedUnderItsPolicies
<1> QED BY InitType, InitPolicies, <1>1, <1>2, PTL DEF Spec

-----------------------------------------------------------------------------
(***************************************************************************)
(* Idempotency keys                                                        *)
(***************************************************************************)
Claims == <<reserved, operations, launched>>

\* b goes from one place to another under the same operation.
Moves(b, from, to) ==
    applier[b].at \in from /\ applier'[b].at \in to /\ applier'[b].op = applier[b].op

\* b takes operation o and goes somewhere.
Takes(b, from, to, o) ==
    applier[b].at = from /\ applier'[b].at = to /\ applier'[b].op = o

\* The key of b's request.
claimed(b) == reserved[applier[b].id][applier[b].key]

\* What the steps of an apply request are for its operation.
LEMMA ApplyMoves ==
    ASSUME TypeOK, NEW b \in Appliers, ApplyStep(b)
    PROVE  \/ /\ Takes(b, "lookup", "replayed", claimed(b))
              /\ claimed(b) # "free" /\ operations[claimed(b)] # "absent"
              /\ UNCHANGED Claims
           \/ /\ \/ Moves(b, {"lookup"}, {"gates"})
                 \/ Moves(b, {"gates"}, {"inspect", "refused"})
                 \/ Moves(b, {"inspect"}, {"inspect", "claim", "refused"})
                 \/ Moves(b, {"calling"}, {"finish"})
                 \/ Moves(b, {"join"}, {"replayed"}) /\ operations[applier[b].op] # "absent"
                 \/ Moves(b, {"join"}, {"create"}) /\ operations[applier[b].op] = "absent"
              /\ UNCHANGED Claims
           \/ /\ Takes(b, "claim", "create", b)
              /\ claimed(b) = "free"
              /\ reserved' = [reserved EXCEPT ![applier[b].id][applier[b].key] = b]
              /\ UNCHANGED <<operations, launched>>
           \/ /\ Takes(b, "claim", "join", claimed(b))
              /\ claimed(b) # "free"
              /\ UNCHANGED Claims
           \/ /\ Moves(b, {"create"}, {"begin"})
              /\ operations' = [operations EXCEPT ![applier[b].op] = "created"]
              /\ UNCHANGED <<reserved, launched>>
           \/ /\ Moves(b, {"begin"}, {"calling"})
              /\ operations' = [operations EXCEPT ![applier[b].op] = "running"]
              /\ launched' = launched \cup {b}
              /\ UNCHANGED reserved
           \/ /\ Moves(b, {"finish"}, {"applied"})
              /\ operations' = [operations EXCEPT ![applier[b].op] = "ended"]
              /\ UNCHANGED <<reserved, launched>>
<1>1. applier[b] \in Request
  BY ApplyStepShape
<1>2. ASSUME NEW to, applier' = [applier EXCEPT ![b].at = to]
      PROVE  applier'[b].at = to /\ applier'[b].op = applier[b].op
  BY <1>1, <1>2 DEF TypeOK, Request
<1>3. ASSUME NEW to, NEW o, applier' = [applier EXCEPT ![b].at = to, ![b].op = o]
      PROVE  applier'[b].at = to /\ applier'[b].op = o
  BY <1>1, <1>3 DEF TypeOK, Request
<1>4. ASSUME NEW to, ApplierGoes(b, to)
      PROVE  applier'[b].at = to /\ applier'[b].op = applier[b].op
  BY <1>2, <1>4 DEF ApplierGoes
<1>5. CASE FindReplay(b)
  <2>1. CASE claimed(b) # "free" /\ operations[claimed(b)] # "absent"
    <3>1. applier' = [applier EXCEPT ![b].at = "replayed", ![b].op = claimed(b)]
      BY <1>5, <2>1, FindReplayReads DEF claimed
    <3>2. applier[b].at = "lookup" /\ UNCHANGED Claims
      BY <1>5 DEF FindReplay, Claims, database
    <3>3. applier'[b].at = "replayed" /\ applier'[b].op = claimed(b)
      BY <1>3, <3>1
    <3> QED BY <2>1, <3>2, <3>3 DEF Takes
  <2>2. CASE ~(claimed(b) # "free" /\ operations[claimed(b)] # "absent")
    BY <1>4, <1>5, <2>2, FindReplayReads DEF FindReplay, claimed, Moves, Claims, database
  <2> QED BY <2>1, <2>2
<1>6. CASE PassGates(b) \/ RefuseAtGates(b)
  BY <1>4, <1>6 DEF PassGates, RefuseAtGates, Moves, Claims, database
<1>7. CASE Inspect(b)
  <2>1. applier'[b].at = applier[b].at /\ applier'[b].op = applier[b].op
    BY <1>1, <1>7 DEF Inspect, TypeOK, Request
  <2> QED BY <1>7, <2>1 DEF Inspect, Moves, Claims, database
<1>8. CASE AssertNoDrift(b)
  BY <1>4, <1>8 DEF AssertNoDrift, Moves, Claims, database
<1>9. CASE ReserveIdempotency(b)
  <2>1. CASE claimed(b) = "free"
    BY SMTT(30), <1>3, <1>9, <2>1 DEF ReserveIdempotency, claimed, Takes
  <2>2. CASE claimed(b) # "free"
    BY <1>3, <1>9, <2>2 DEF ReserveIdempotency, claimed, Takes, Claims
  <2> QED BY <2>1, <2>2
<1>10. CASE JoinOther(b)
  BY <1>4, <1>10 DEF JoinOther, getOperation, Moves, Claims, database
<1>11. CASE CreateOperation(b)
  BY <1>4, <1>11 DEF CreateOperation, Moves
<1>12. CASE BeginExecution(b)
  BY <1>4, <1>12 DEF BeginExecution, Moves
<1>13. CASE ProviderWrites(b)
  BY <1>2, <1>13 DEF ProviderWrites, Moves, Claims, database
<1>14. CASE FinishOperation(b)
  BY <1>4, <1>14 DEF FinishOperation, Moves
<1> QED BY <1>5, <1>6, <1>7, <1>8, <1>9, <1>10, <1>11, <1>12, <1>13, <1>14 DEF ApplyStep

\* Whatever else happens begins requests and ends them, and claims nothing.
LEMMA RestClaimsNothing ==
    ASSUME TypeOK, [Next]_vars, \A b \in Appliers : ~ApplyStep(b)
    PROVE  /\ UNCHANGED Claims
           /\ \A a \in Appliers :
                \/ applier'[a] = applier[a]
                \/ applier[a].at = "idle" /\ applier'[a].at = "lookup"
                \/ applier'[a].at = "dead" /\ applier'[a].op = applier[a].op
                   /\ applier[a] # Unused
<1> DEFINE Rest(a) == \/ applier'[a] = applier[a]
                      \/ applier[a].at = "idle" /\ applier'[a].at = "lookup"
                      \/ applier'[a].at = "dead" /\ applier'[a].op = applier[a].op
                         /\ applier[a] # Unused
<1>1. UNCHANGED Claims
  BY DEF Next, PlanStep, PlanBuild, PreserveValidityWindow, SavePlan, Approve, saveApproval,
      LoadPlan,
         FailApply, Restart, Drift, Tick, vars, database, Claims
<1>2. ASSUME NEW a \in Appliers PROVE Rest(a)
  <2>1. ASSUME NEW b \in Appliers, FailApply(b) PROVE Rest(a)
    <3>1. applier[b] \in Request /\ applier' = [applier EXCEPT ![b].at = "dead"]
      BY <2>1, FailShape
    <3> QED BY <3>1 DEF TypeOK, Request, Unused
  <2>2. ASSUME NEW b \in Appliers, NEW id \in PlanIds, NEW k \in Keys, LoadPlan(b, id, k)
        PROVE  Rest(a)
    BY <2>2 DEF LoadPlan, TypeOK
  <2>3. ASSUME NEW c \in Configs, Restart(c) PROVE Rest(a)
    <3>1. CASE applier[a].at \in Over \cup {"idle"}
      BY <2>3, <3>1 DEF Restart
    <3>2. CASE applier[a].at \notin Over \cup {"idle"}
      <4>1. applier[a] \in Request
        BY <3>2 DEF TypeOK, Unused
      <4>2. applier'[a] = [applier[a] EXCEPT !.at = "dead"]
        BY <2>3, <3>2 DEF Restart
      <4> QED BY <4>1, <4>2 DEF Request, Unused
    <3> QED BY <3>1, <3>2
  <2>4. ASSUME NEW p \in Planners, PlanStep(p) PROVE Rest(a)
    BY <2>4 DEF PlanStep, PlanBuild, PreserveValidityWindow, SavePlan
  <2> HIDE DEF Rest
  <2>5. ASSUME applier' = applier PROVE Rest(a)
    BY <2>5 DEF Rest
  <2> QED BY <2>1, <2>2, <2>3, <2>4, <2>5 DEF Next, Approve, saveApproval, Drift, Tick,
      requests, vars
<1> QED BY <1>1, <1>2

\* A key that is claimed stays so, and an operation that exists goes on existing.
LEMMA ClaimsStay ==
    ASSUME TypeOK, [Next]_vars
    PROVE  /\ \A id \in PlanIds, k \in Keys :
                reserved[id][k] # "free" => reserved'[id][k] = reserved[id][k]
           /\ \A o \in Appliers : operations[o] # "absent" => operations'[o] # "absent"
<1>1. CASE \A b \in Appliers : ~ApplyStep(b)
  BY <1>1, RestClaimsNothing DEF Claims
<1>2. ASSUME NEW b \in Appliers, ApplyStep(b)
      PROVE  /\ \A id \in PlanIds, k \in Keys :
                  reserved[id][k] # "free" => reserved'[id][k] = reserved[id][k]
             /\ \A o \in Appliers : operations[o] # "absent" => operations'[o] # "absent"
  <2>1. applier[b] \in Request
    BY <1>2, ApplyStepShape
  <2>2. CASE UNCHANGED Claims
    BY <2>2 DEF Claims
  <2>3. CASE /\ claimed(b) = "free"
             /\ reserved' = [reserved EXCEPT ![applier[b].id][applier[b].key] = b]
             /\ UNCHANGED operations
    BY <2>1, <2>3 DEF claimed, TypeOK, Request
  <2>4. CASE /\ reserved' = reserved
             /\ \E s \in {"created", "running", "ended"} :
                    operations' = [operations EXCEPT ![applier[b].op] = s]
    BY <2>4 DEF TypeOK
  <2> QED BY <1>2, <2>2, <2>3, <2>4, ApplyMoves
<1> QED BY <1>1, <1>2

\* Where a request has an operation, and where one has claimed its own.
WithOperation == {"join", "create", "begin", "calling", "finish", "applied", "replayed"}
BeforeClaim   == {"idle", "lookup", "gates", "inspect", "claim"}

\* A request calls the provider once: what it did or died of comes after.
LaunchedInv == \A a \in launched : applier[a].at \in {"calling", "finish", "applied", "dead"}

LEMMA InitLaunched == Init => LaunchedInv
BY DEF Init, LaunchedInv

LEMMA NextLaunched == TypeOK /\ LaunchedInv /\ [Next]_vars => LaunchedInv'
<1> SUFFICES ASSUME TypeOK, LaunchedInv, [Next]_vars, NEW a \in launched'
             PROVE  applier'[a].at \in {"calling", "finish", "applied", "dead"}
  BY DEF LaunchedInv
<1>1. CASE \A b \in Appliers : ~ApplyStep(b)
  <2>1. a \in launched /\ a \in Appliers
    BY <1>1, RestClaimsNothing DEF Claims, TypeOK
  <2> QED BY <1>1, <2>1, RestClaimsNothing DEF LaunchedInv
<1>2. ASSUME NEW b \in Appliers, ApplyStep(b)
      PROVE  applier'[a].at \in {"calling", "finish", "applied", "dead"}
  <2>1. CASE a # b
    <3>1. a \in launched /\ a \in Appliers
      BY <1>2, <2>1, ApplyMoves DEF Claims, TypeOK
    <3> QED BY <1>2, <2>1, <3>1, ApplyStepShape DEF LaunchedInv
  <2>2. CASE a = b
    BY <1>2, <2>2, ApplyMoves DEF Claims, Moves, Takes, LaunchedInv
  <2> QED BY <2>1, <2>2
<1> QED BY <1>1, <1>2

\* The operation of a request is the one that claimed its key, and it exists by
\* the time it is answered with or begun.
ClaimInv ==
    \A a \in Appliers : applier[a].at \in WithOperation \/ a \in launched
        => /\ applier[a] # Unused
           /\ applier[a].op \in Appliers
           /\ claimed(a) = applier[a].op
           /\ applier[a].at \in {"begin", "calling", "finish", "applied", "replayed"}
                \/ a \in launched
                => operations[applier[a].op] # "absent"

LEMMA InitClaim == Init => ClaimInv
BY DEF Init, ClaimInv, WithOperation, Unused

LEMMA NextClaim == TypeOK /\ LaunchedInv /\ ClaimInv /\ [Next]_vars => ClaimInv'
<1> SUFFICES ASSUME TypeOK, LaunchedInv, ClaimInv, [Next]_vars,
                    NEW a \in Appliers, applier'[a].at \in WithOperation \/ a \in launched'
             PROVE  /\ applier'[a] # Unused
                    /\ applier'[a].op \in Appliers
                    /\ claimed(a)' = applier'[a].op
                    /\ applier'[a].at \in {"begin", "calling", "finish", "applied", "replayed"}
                         \/ a \in launched'
                         => operations'[applier'[a].op] # "absent"
  BY DEF ClaimInv
<1> DEFINE Had == applier[a].at \in WithOperation \/ a \in launched
           Begun == applier[a].at \in {"begin", "calling", "finish", "applied", "replayed"}
                        \/ a \in launched
           Begun1 == applier'[a].at \in {"begin", "calling", "finish", "applied", "replayed"}
                        \/ a \in launched'
           Kept == /\ applier'[a] # Unused
                   /\ applier'[a].op \in Appliers
                   /\ claimed(a)' = applier'[a].op
                   /\ Begun1 => operations'[applier'[a].op] # "absent"
\* A request that had its operation keeps it, and becomes "begun" by creating it
\* or by finding it.
<1>1. ASSUME Had, applier'[a].op = applier[a].op,
             Begun1 => Begun \/ operations'[applier[a].op] # "absent"
      PROVE  Kept
  <2>1. /\ applier[a] # Unused
        /\ applier[a].op \in Appliers
        /\ claimed(a) = applier[a].op
        /\ Begun => operations[applier[a].op] # "absent"
    BY <1>1 DEF ClaimInv
  <2>2. /\ applier'[a] # Unused
        /\ applier'[a].id = applier[a].id
        /\ applier'[a].key = applier[a].key
    BY <2>1, RequestsKeepTheirPlan
  <2>3. applier[a].id \in PlanIds /\ applier[a].key \in Keys
    BY <2>1 DEF TypeOK, Request
  <2>4. claimed(a) # "free"
    BY <2>1, RequestsAssumption
  <2>5. claimed(a)' = claimed(a)
    BY <2>2, <2>3, <2>4, ClaimsStay DEF claimed
  <2>6. ASSUME Begun1 PROVE operations'[applier[a].op] # "absent"
    BY <1>1, <2>1, <2>6, ClaimsStay
  <2> QED BY <1>1, <2>1, <2>2, <2>5, <2>6
<1>2. CASE \A b \in Appliers : ~ApplyStep(b)
  <2>1. launched' = launched
    BY <1>2, RestClaimsNothing DEF Claims
  <2>2. \/ applier'[a] = applier[a]
        \/ applier[a].at = "idle" /\ applier'[a].at = "lookup"
        \/ applier'[a].at = "dead" /\ applier'[a].op = applier[a].op
    BY <1>2, RestClaimsNothing
  <2>3. Had /\ applier'[a].op = applier[a].op
    <3>1. CASE applier[a].at = "idle"
      <4>1. applier[a] = Unused
        BY <3>1 DEF TypeOK, Request, Unused
      <4>2. a \notin launched
        BY <4>1 DEF ClaimInv
      <4> QED BY <2>1, <2>2, <3>1, <4>2 DEF WithOperation
    <3>2. CASE applier[a].at # "idle"
      BY <2>1, <2>2, <3>2 DEF WithOperation
    <3> QED BY <3>1, <3>2
  <2>4. Begun1 => Begun
    BY <2>1, <2>2, <2>3
  <2> HIDE DEF Had, Begun, Begun1, Kept
  <2>5. Kept
    BY <1>1, <2>3, <2>4
  <2> QED BY <2>5 DEF Kept, Begun1
<1>3. ASSUME NEW b \in Appliers, ApplyStep(b), b # a PROVE Kept
  <2>1. applier'[a] = applier[a]
    BY <1>3, ApplyStepShape
  <2>2. a \in launched' => a \in launched
    BY <1>3, ApplyMoves DEF Claims
  <2>3. Had /\ (Begun1 => Begun) /\ applier'[a].op = applier[a].op
    BY <2>1, <2>2
  <2> HIDE DEF Had, Begun, Begun1, Kept
  <2> QED BY <1>1, <2>3
<1>4. ASSUME ApplyStep(a) PROVE Kept
  <2>1. applier[a] \in Request /\ applier[a] # Unused
    BY <1>4, ApplyStepShape DEF Request, Unused
  <2>2. applier[a].id \in PlanIds /\ applier[a].key \in Keys /\ claimed(a) \in Appliers \cup {"free"}
    BY <2>1 DEF Request, TypeOK, claimed
  <2>3. /\ applier'[a] # Unused
        /\ applier'[a].id = applier[a].id
        /\ applier'[a].key = applier[a].key
    BY <2>1, RequestsKeepTheirPlan
  <2>4. applier[a].at # "dead" /\ applier[a].at # "idle"
    BY <1>4, <2>1, ApplyMoves DEF Takes, Moves
  <2>5. ASSUME Takes(a, "lookup", "replayed", claimed(a)),
               claimed(a) # "free", operations[claimed(a)] # "absent", UNCHANGED Claims
        PROVE  Kept
    BY <2>2, <2>3, <2>5 DEF Takes, Claims, claimed
  <2>6. ASSUME Takes(a, "claim", "create", a), UNCHANGED launched,
               reserved' = [reserved EXCEPT ![applier[a].id][applier[a].key] = a]
        PROVE  Kept
    <3>1. claimed(a)' = a
      BY <2>2, <2>3, <2>6 DEF claimed, TypeOK
    <3>2. ~Begun1
      BY <2>6 DEF Takes, LaunchedInv
    <3> QED BY <2>3, <2>6, <3>1, <3>2 DEF Takes
  <2>7. ASSUME Takes(a, "claim", "join", claimed(a)), claimed(a) # "free", UNCHANGED Claims
        PROVE  Kept
    <3>1. claimed(a)' = claimed(a)
      BY <2>3, <2>7 DEF claimed, Claims
    <3>2. ~Begun1
      BY <2>7 DEF Takes, LaunchedInv, Claims
    <3> QED BY <2>2, <2>3, <2>7, <3>1, <3>2 DEF Takes
  <2>8. ASSUME \/ Moves(a, {"lookup"}, {"gates"})
               \/ Moves(a, {"gates"}, {"inspect", "refused"})
               \/ Moves(a, {"inspect"}, {"inspect", "claim", "refused"}),
               UNCHANGED Claims
        PROVE  FALSE
    BY <2>8 DEF Moves, Claims, LaunchedInv, WithOperation
  <2>9. ASSUME NEW s \in {"created", "running", "ended"},
               operations' = [operations EXCEPT ![applier[a].op] = s], Had
        PROVE  operations'[applier[a].op] # "absent"
    <3>1. applier[a].op \in Appliers
      BY <2>9 DEF ClaimInv
    <3> QED BY <2>9, <3>1 DEF TypeOK
  <2>10. ASSUME ~Takes(a, "lookup", "replayed", claimed(a)),
                ~Takes(a, "claim", "create", a),
                ~Takes(a, "claim", "join", claimed(a)),
                ~(\/ Moves(a, {"lookup"}, {"gates"})
                  \/ Moves(a, {"gates"}, {"inspect", "refused"})
                  \/ Moves(a, {"inspect"}, {"inspect", "claim", "refused"}))
         PROVE  Kept
    <3>1. Had /\ applier'[a].op = applier[a].op
      BY <1>4, <2>10, ApplyMoves DEF Moves, WithOperation
    <3>2. ASSUME Begun1 PROVE Begun \/ operations'[applier[a].op] # "absent"
      BY <1>4, <2>9, <2>10, <3>1, <3>2, ApplyMoves DEF Moves, Claims
    <3> HIDE DEF Had, Begun, Begun1, Kept
    <3> QED BY <1>1, <3>1, <3>2
  <2> HIDE DEF Kept
  <2> QED BY <1>4, <2>5, <2>6, <2>7, <2>8, <2>10, ApplyMoves DEF Takes, Moves
<1> QED BY <1>2, <1>3, <1>4

\* A replay answers with the operation that claimed its key, and that operation
\* exists, whatever raced, failed or was restarted, and also when runtimes share
\* the store.
THEOREM ReplaysAreClaimed ==
    Spec => [](\A a \in Appliers : applier[a].at = "replayed"
                  => /\ reserved[applier[a].id][applier[a].key] = applier[a].op
                     /\ operations[applier[a].op] # "absent")
<1>1. TypeOK /\ LaunchedInv /\ ClaimInv /\ [Next]_vars => TypeOK' /\ LaunchedInv' /\ ClaimInv'
  BY NextType, NextLaunched, NextClaim
<1>2. ClaimInv => \A a \in Appliers : applier[a].at = "replayed"
                    => /\ reserved[applier[a].id][applier[a].key] = applier[a].op
                       /\ operations[applier[a].op] # "absent"
  BY DEF ClaimInv, WithOperation, claimed
<1> QED BY InitType, InitLaunched, InitClaim, <1>1, <1>2, PTL DEF Spec

-----------------------------------------------------------------------------
(***************************************************************************)
(* One process on the store                                                *)
(***************************************************************************)
\* Where a request goes on without waiting.
NoWait == {"lookup", "gates", "claim", "join", "create", "begin"}

\* What does not wait has the turn.
TurnInv ==
    /\ \A a \in Appliers : applier[a].at \in NoWait => turn = a
    /\ \A p \in Planners : planner[p].at = "save" => turn = p

LEMMA InitTurn == Init => TurnInv
BY DEF Init, TurnInv, NoWait, Unused

\* A step of a request leaves it waiting with nobody's turn, or with its own.
LEMMA TurnAfterApply ==
    ASSUME SharedStore = FALSE, TypeOK, NEW a \in Appliers, ApplyStep(a) \/ FailApply(a)
    PROVE  \/ UNCHANGED turn /\ applier'[a].at \notin NoWait
           \/ /\ turn \in {a, "nobody"} /\ turn' \in {a, "nobody"}
              /\ applier'[a].at \in NoWait => turn' = a
<1>1. applier[a] \in Request
  BY ApplyStepShape, FailShape
<1>2. ASSUME NEW to, ApplierGoes(a, to)
      PROVE  applier'[a].at = to /\ turn' = IF to \in Waits THEN "nobody" ELSE a
  BY <1>1, <1>2 DEF ApplierGoes, Turn, TypeOK, Request
<1>3. CASE FindReplay(a)
  <2>1. CASE claimed(a) # "free" /\ operations[claimed(a)] # "absent"
    <3>1. applier'[a].at = "replayed"
      <4>1. applier' = [applier EXCEPT ![a].at = "replayed", ![a].op = claimed(a)]
        BY <1>3, <2>1, FindReplayReads DEF claimed
      <4> QED BY <1>1, <4>1 DEF TypeOK, Request
    <3> QED BY <1>3, <2>1, <3>1, FindReplayReads DEF FindReplay, claimed, Turn, Waits, MayRun, NoWait
  <2>2. CASE ~(claimed(a) # "free" /\ operations[claimed(a)] # "absent")
    BY <1>2, <1>3, <2>2, FindReplayReads DEF FindReplay, claimed, Waits, MayRun, NoWait
  <2> QED BY <2>1, <2>2
<1>4. CASE PassGates(a) \/ RefuseAtGates(a) \/ AssertNoDrift(a) \/ JoinOther(a)
             \/ CreateOperation(a) \/ BeginExecution(a) \/ FinishOperation(a) \/ FailApply(a)
  BY <1>2, <1>4 DEF PassGates, RefuseAtGates, AssertNoDrift, JoinOther, getOperation,
      CreateOperation,
    BeginExecution, FinishOperation, FailApply, Waits, MayRun, NoWait
<1>5. CASE Inspect(a) \/ ProviderWrites(a)
  <2>1. applier'[a].at \in {"inspect", "finish"}
    BY <1>1, <1>5 DEF Inspect, ProviderWrites, TypeOK, Request
  <2> QED BY <1>5, <2>1 DEF Inspect, ProviderWrites, NoWait
<1>6. CASE ReserveIdempotency(a)
  <2>1. turn' = a /\ turn \in {a, "nobody"}
    BY <1>6 DEF ReserveIdempotency, Turn, Waits, MayRun
  <2> QED BY <2>1
<1> QED BY <1>3, <1>4, <1>5, <1>6 DEF ApplyStep

LEMMA NextTurn ==
    ASSUME SharedStore = FALSE, TypeOK, TurnInv, [Next]_vars
    PROVE  TurnInv'
<1> DEFINE Who == Appliers \cup Planners
\* Whoever takes a step that is not a wait of its own had the turn or found it free.
<1>1. ASSUME NEW b \in Appliers, ApplyStep(b) \/ FailApply(b) PROVE TurnInv'
  <2>1. planner' = planner /\ \A a \in Appliers \ {b} : applier'[a] = applier[a]
    BY <1>1, ApplyStepShape, FailShape
  <2>2. ASSUME NEW a \in Appliers, applier'[a].at \in NoWait PROVE turn' = a
    <3>1. CASE a = b
      BY <1>1, <2>2, <3>1, TurnAfterApply
    <3>2. CASE a # b
      <4>1. turn = a
        BY <2>1, <2>2, <3>2 DEF TurnInv
      <4>2. turn \notin {b, "nobody"}
        BY <3>2, <4>1, RequestsAssumption
      <4> QED BY <1>1, <4>1, <4>2, TurnAfterApply
    <3> QED BY <3>1, <3>2
  <2>3. ASSUME NEW p \in Planners, planner'[p].at = "save" PROVE turn' = p
    <3>1. turn = p
      BY <2>1, <2>3 DEF TurnInv
    <3>2. turn \notin {b, "nobody"}
      BY <3>1, RequestsAssumption
    <3> QED BY <1>1, <3>1, <3>2, TurnAfterApply
  <2> QED BY <2>2, <2>3 DEF TurnInv
<1>2. ASSUME NEW b \in Appliers, NEW id \in PlanIds, NEW k \in Keys, LoadPlan(b, id, k)
      PROVE  TurnInv'
  <2>1. turn \in {b, "nobody"} /\ turn' = b /\ planner' = planner
    BY <1>2 DEF LoadPlan, MayRun, Turn, Waits
  <2>2. \A a \in Appliers \ {b} : applier'[a] = applier[a]
    BY <1>2 DEF LoadPlan, TypeOK
  <2>3. \A x \in Who \ {b} : turn # x
    BY <2>1, RequestsAssumption
  <2> QED BY <2>1, <2>2, <2>3, RequestsAssumption DEF TurnInv
<1>3. ASSUME NEW q \in Planners, PlanStep(q) PROVE TurnInv'
  <2>1. turn \in {q, "nobody"} /\ applier' = applier
    BY <1>3 DEF PlanStep, PlanBuild, PreserveValidityWindow, SavePlan, MayRun
  <2>2. \A p \in Planners \ {q} : planner'[p] = planner[p]
    BY <1>3 DEF PlanStep, PlanBuild, PreserveValidityWindow, SavePlan, TypeOK
  <2>3. \A x \in Who \ {q} : turn # x
    BY <2>1, RequestsAssumption
  <2>4. planner'[q].at = "save" => turn' = q
    <3>1. PlanBuild(q) \/ SavePlan(q) => planner'[q].at # "save"
      BY DEF PlanBuild, SavePlan, TypeOK, Unused
    <3>2. PreserveValidityWindow(q) => turn' = q
      BY DEF PreserveValidityWindow, Turn, Waits
    <3> QED BY <1>3, <3>1, <3>2 DEF PlanStep
  <2> QED BY <2>1, <2>2, <2>3, <2>4, RequestsAssumption DEF TurnInv
<1>4. ASSUME NEW c \in Configs, Restart(c) PROVE TurnInv'
  <2>1. ASSUME NEW a \in Appliers PROVE applier'[a].at \notin NoWait
    <3>1. CASE applier[a].at \in Over \cup {"idle"}
      BY <1>4, <3>1 DEF Restart, Over, NoWait
    <3>2. CASE applier[a].at \notin Over \cup {"idle"}
      <4>1. applier[a] \in Request
        BY <3>2 DEF TypeOK, Unused
      <4>2. applier'[a] = [applier[a] EXCEPT !.at = "dead"]
        BY <1>4, <3>2 DEF Restart
      <4> QED BY <4>1, <4>2 DEF Request, NoWait
    <3> QED BY <3>1, <3>2
  <2>2. \A p \in Planners : planner'[p].at # "save"
    BY <1>4 DEF Restart, Unused
  <2> QED BY <2>1, <2>2 DEF TurnInv
<1>5. ASSUME UNCHANGED requests PROVE TurnInv'
  BY <1>5 DEF TurnInv, requests
<1> QED BY <1>1, <1>2, <1>3, <1>4, <1>5 DEF Next, Approve, saveApproval, Drift, Tick, vars

-----------------------------------------------------------------------------
\* Why WindowIsKept is kept: the window a planner is about to save is that of the
\* plan it replaces, unless that plan has expired, because nobody writes the plan
\* between its reading it and its writing.
SavingInv ==
    \A p \in Planners :
        /\ planner[p].at = "save"
        /\ plans[planner[p].id] # NoPlan
        /\ ~isPlanExpired(plans[planner[p].id])
        => /\ plans[planner[p].id].createdAt = planner[p].plan.createdAt
           /\ plans[planner[p].id].expiresAt = planner[p].plan.expiresAt

LEMMA InitSaving == Init => SavingInv
BY DEF Init, SavingInv, Unused

\* Only a planner with the turn writes plans.
LEMMA PlansAreSaved ==
    ASSUME TypeOK, [Next]_vars, plans' # plans
    PROVE  \E q \in Planners : SavePlan(q) /\ planner[q] \in Draft
<1>1. \A a \in Appliers : ~ApplyStep(a)
  BY ApplyStepShape
<1>2. \E q \in Planners : SavePlan(q)
  BY <1>1 DEF Next, PlanStep, PlanBuild, PreserveValidityWindow, Approve, saveApproval,
      LoadPlan, FailApply,
    Restart, Drift, Tick, vars, database
<1>3. ASSUME NEW q \in Planners, SavePlan(q) PROVE planner[q] \in Draft
  BY <1>3 DEF SavePlan, TypeOK, Unused
<1> QED BY <1>2, <1>3

LEMMA NextSaving ==
    ASSUME SharedStore = FALSE, TypeOK, TurnInv, SavingInv, [Next]_vars
    PROVE  SavingInv'
<1> SUFFICES ASSUME NEW p \in Planners,
                    planner'[p].at = "save",
                    plans'[planner'[p].id] # NoPlan,
                    ~(plans'[planner'[p].id].expiresAt <= now')
             PROVE  /\ plans'[planner'[p].id].createdAt = planner'[p].plan.createdAt
                    /\ plans'[planner'[p].id].expiresAt = planner'[p].plan.expiresAt
  BY DEF SavingInv, isPlanExpired
<1>1. CASE planner'[p] = planner[p]
  <2>1. plans' = plans
    <3>1. ASSUME NEW q \in Planners, SavePlan(q) PROVE FALSE
      <4>1. turn = p
        BY <1>1 DEF TurnInv
      <4>2. q = p
        BY <3>1, <4>1, RequestsAssumption DEF SavePlan, MayRun
      <4> QED BY <1>1, <3>1, <4>2 DEF SavePlan, TypeOK, Unused
    <3> QED BY <3>1, PlansAreSaved
  <2>2. planner[p] \in Draft
    BY <1>1 DEF TypeOK, Unused
  <2>3. plans[planner[p].id] \in Plan
    BY <1>1, <2>1, <2>2 DEF TypeOK, Draft
  <2>4. ~isPlanExpired(plans[planner[p].id])
    <3>1. plans[planner[p].id].expiresAt \in Nat
      BY <2>3 DEF Plan
    <3>2. ~(plans[planner[p].id].expiresAt <= now')
      BY <1>1, <2>1
    <3> QED BY <3>1, <3>2, ClockGoesOn DEF isPlanExpired
  <2> QED BY <1>1, <2>1, <2>4 DEF SavingInv
<1>2. CASE planner'[p] # planner[p]
  <2>1. PreserveValidityWindow(p)
    <3>1. \A a \in Appliers : ~ApplyStep(a)
      BY <1>2, ApplyStepShape
    <3>2. \A c \in Configs : ~Restart(c)
      BY DEF Restart, Unused
    <3>3. PICK q \in Planners : PlanStep(q)
      BY <1>2, <3>1, <3>2 DEF Next, Approve, saveApproval, LoadPlan, FailApply, Drift, Tick,
          vars, requests
    <3>4. ASSUME PlanBuild(q) \/ SavePlan(q) PROVE FALSE
      BY <1>2, <3>4 DEF PlanBuild, SavePlan, TypeOK, Unused
    <3>5. PreserveValidityWindow(q)
      BY <3>3, <3>4 DEF PlanStep
    <3> QED BY <1>2, <3>5 DEF PreserveValidityWindow, TypeOK
  <2>2. planner[p] \in Draft
    BY <2>1 DEF PreserveValidityWindow, TypeOK, Unused
  <2> DEFINE stored == plans[planner[p].id]
  <2>3. plans' = plans /\ now' = now
    BY <2>1 DEF PreserveValidityWindow, database
  <2>4. stored \in Plan \cup {NoPlan}
    BY <2>2 DEF TypeOK, Draft
  <2>5. planner'[p].id = planner[p].id
    BY <2>1, <2>2 DEF PreserveValidityWindow, TypeOK, Draft
  <2>6. stored # NoPlan /\ ~isPlanExpired(stored)
    BY <2>3, <2>5 DEF isPlanExpired
  <2>7. planner'[p].plan = [planner[p].plan EXCEPT !.createdAt = stored.createdAt,
                                                   !.expiresAt = stored.expiresAt]
    BY <2>1, <2>2, <2>6 DEF PreserveValidityWindow, TypeOK, Draft
  <2> QED BY <2>2, <2>3, <2>5, <2>7 DEF Draft, Plan
<1> QED BY <1>1, <1>2

\* Planning again never moves the window of a plan that is still open (SPEC
\* section 12.3), while one process has the store.
THEOREM WindowIsKeptAlways == ASSUME SharedStore = FALSE PROVE Spec => WindowIsKept
<1>1. TypeOK /\ TurnInv /\ SavingInv /\ [Next]_vars => TypeOK' /\ TurnInv' /\ SavingInv'
  BY NextType, NextTurn, NextSaving
<1>2. TypeOK /\ SavingInv /\ [Next]_vars =>
        [\A id \in PlanIds :
          plans[id] # NoPlan /\ ~isPlanExpired(plans[id])
            => /\ plans'[id] # NoPlan
               /\ plans'[id].createdAt = plans[id].createdAt
               /\ plans'[id].expiresAt = plans[id].expiresAt]_vars
  <2> SUFFICES ASSUME TypeOK, SavingInv, [Next]_vars,
                      NEW id \in PlanIds, plans[id] # NoPlan, ~isPlanExpired(plans[id])
               PROVE  /\ plans'[id] # NoPlan
                      /\ plans'[id].createdAt = plans[id].createdAt
                      /\ plans'[id].expiresAt = plans[id].expiresAt
    OBVIOUS
  <2>1. CASE plans' = plans
    BY <2>1
  <2>2. CASE plans' # plans
    <3>1. PICK q \in Planners : SavePlan(q) /\ planner[q] \in Draft
      BY <2>2, PlansAreSaved
    <3>2. CASE planner[q].id = id
      <4>1. plans'[id] = planner[q].plan
        BY <3>1, <3>2 DEF SavePlan, TypeOK
      <4>2. planner[q].plan # NoPlan
        <5>1. planner[q].plan.stored = TRUE
          BY <3>1 DEF Draft, Plan
        <5> QED BY <5>1 DEF NoPlan
      <4> QED BY <3>1, <3>2, <4>1, <4>2 DEF SavePlan, SavingInv
    <3>3. CASE planner[q].id # id
      BY <3>1, <3>3 DEF SavePlan, TypeOK
    <3> QED BY <3>2, <3>3
  <2> QED BY <2>1, <2>2
<1> QED BY InitType, InitTurn, InitSaving, <1>1, <1>2, PTL DEF Spec, WindowIsKept

-----------------------------------------------------------------------------
\* A request claims the key it came with, and its name appears nowhere before.
OwnerInv ==
    \A id \in PlanIds, k \in Keys, a \in Appliers :
        reserved[id][k] = a
            => /\ applier[a].at \notin BeforeClaim
               /\ applier[a].id = id
               /\ applier[a].key = k

LEMMA InitOwner == Init => OwnerInv
BY RequestsAssumption DEF Init, OwnerInv

LEMMA NextOwner == TypeOK /\ OwnerInv /\ [Next]_vars => OwnerInv'
<1> SUFFICES ASSUME TypeOK, OwnerInv, [Next]_vars,
                    NEW id \in PlanIds, NEW k \in Keys, NEW a \in Appliers,
                    reserved'[id][k] = a
             PROVE  /\ applier'[a].at \notin BeforeClaim
                    /\ applier'[a].id = id
                    /\ applier'[a].key = k
  BY DEF OwnerInv
<1>1. CASE reserved[id][k] = a
  <2>1. applier[a].at \notin BeforeClaim /\ applier[a].id = id /\ applier[a].key = k
    BY <1>1 DEF OwnerInv
  <2>2. applier[a] # Unused
    BY <2>1 DEF BeforeClaim, Unused
  <2>3. applier'[a].at \notin BeforeClaim
    <3>1. CASE \A b \in Appliers : ~ApplyStep(b)
      BY <2>1, <3>1, RestClaimsNothing DEF BeforeClaim
    <3>2. ASSUME NEW b \in Appliers, ApplyStep(b) PROVE applier'[a].at \notin BeforeClaim
      <4>1. CASE a # b
        BY <2>1, <3>2, <4>1, ApplyStepShape
      <4>2. CASE a = b
        BY <2>1, <3>2, <4>2, ApplyMoves DEF Moves, Takes, BeforeClaim
      <4> QED BY <4>1, <4>2
    <3> QED BY <3>1, <3>2
  <2> QED BY <2>1, <2>2, <2>3, RequestsKeepTheirPlan
<1>2. CASE reserved[id][k] # a
  <2>1. PICK b \in Appliers : ApplyStep(b)
    BY <1>2, RestClaimsNothing DEF Claims
  <2>2. /\ Takes(b, "claim", "create", b)
        /\ reserved' = [reserved EXCEPT ![applier[b].id][applier[b].key] = b]
    BY <1>2, <2>1, ApplyMoves DEF Claims
  <2>3. applier[b].id = id /\ applier[b].key = k /\ a = b
    BY <1>2, <2>2 DEF TypeOK
  <2>4. applier'[b].id = applier[b].id /\ applier'[b].key = applier[b].key
    BY <2>1, ApplyStepShape
  <2> QED BY <2>2, <2>3, <2>4 DEF Takes, BeforeClaim
<1> QED BY <1>1, <1>2

\* No two requests launch the same operation, and none that is about to launch one
\* was preceded by another.
AloneInv ==
    \A a \in Appliers, b \in launched :
        /\ applier[a].at \in {"create", "begin"} => applier[a].op # applier[b].op
        /\ a \in launched /\ applier[a].op = applier[b].op => a = b

LEMMA InitAlone == Init => AloneInv
BY DEF Init, AloneInv

LEMMA LaunchedKeepTheirOperation ==
    ASSUME TypeOK, LaunchedInv, [Next]_vars, NEW b \in launched
    PROVE  b \in Appliers /\ applier'[b].op = applier[b].op
<1>1. b \in Appliers /\ applier[b].at \in {"calling", "finish", "applied", "dead"}
  BY DEF TypeOK, LaunchedInv
<1>2. CASE \A c \in Appliers : ~ApplyStep(c)
  BY <1>1, <1>2, RestClaimsNothing
<1>3. ASSUME NEW c \in Appliers, ApplyStep(c) PROVE applier'[b].op = applier[b].op
  <2>1. CASE c = b
    BY <1>1, <1>3, <2>1, ApplyMoves DEF Moves, Takes
  <2>2. CASE c # b
    BY <1>1, <1>3, <2>2, ApplyStepShape
  <2> QED BY <2>1, <2>2
<1> QED BY <1>1, <1>2, <1>3

LEMMA NextAlone ==
    ASSUME TypeOK, TurnInv, LaunchedInv, ClaimInv, OwnerInv, AloneInv, [Next]_vars
    PROVE  AloneInv'
<1>1. launched \subseteq Appliers /\ launched' \subseteq Appliers
  BY NextType DEF TypeOK
\* A request is launched by the step that begins it, which needs the turn.
<1>2. ASSUME NEW c \in launched', c \notin launched
      PROVE  /\ ApplyStep(c) /\ Moves(c, {"begin"}, {"calling"})
             /\ launched' = launched \cup {c}
  <2>1. PICK d \in Appliers : ApplyStep(d)
    BY <1>2, RestClaimsNothing DEF Claims
  <2>2. Moves(d, {"begin"}, {"calling"}) /\ launched' = launched \cup {d}
    BY <1>2, <2>1, ApplyMoves DEF Claims
  <2> QED BY <1>2, <2>1, <2>2
<1>3. ASSUME NEW a \in Appliers, NEW b \in launched', applier'[a].at \in {"create", "begin"}
      PROVE  applier'[a].op # applier'[b].op
  <2>1. CASE \E c \in Appliers \ {a} : ApplyStep(c)
    <3>1. PICK c \in Appliers \ {a} : ApplyStep(c)
      BY <2>1
    <3>2. applier'[a] = applier[a]
      BY <3>1, ApplyStepShape
    <3>3. turn = a
      BY <1>3, <3>2 DEF TurnInv, NoWait
    <3>4. b \in launched
      <4>1. ASSUME b \notin launched PROVE FALSE
        <5>1. b \in Appliers /\ turn = b
          BY <1>1, <1>2, <4>1 DEF Moves, TurnInv, NoWait
        <5>2. a = b
          BY <3>3, <5>1
        <5> QED BY <1>2, <1>3, <4>1, <5>2 DEF Moves
      <4> QED BY <4>1
    <3>5. applier'[b].op = applier[b].op
      BY <3>4, LaunchedKeepTheirOperation
    <3> QED BY <1>3, <3>2, <3>4, <3>5 DEF AloneInv
  <2>2. CASE ApplyStep(a)
    <3>1. b \in launched
      BY <1>2, <1>3, <2>2, ApplyStepShape, ApplyMoves DEF Moves, Claims, Takes
    <3>2. applier'[b].op = applier[b].op
      BY <3>1, LaunchedKeepTheirOperation
    <3>3. CASE Takes(a, "claim", "create", a)
      <4>1. ASSUME applier[b].op = a PROVE FALSE
        <5>1. applier[b] # Unused /\ claimed(b) = a
          BY <3>1, <4>1, <1>1 DEF ClaimInv
        <5>2. applier[b].id \in PlanIds /\ applier[b].key \in Keys
          BY <1>1, <3>1, <5>1 DEF TypeOK, Request
        <5>3. applier[a].at \notin BeforeClaim
          BY <5>1, <5>2 DEF OwnerInv, claimed
        <5> QED BY <3>3, <5>3 DEF Takes, BeforeClaim
      <4> QED BY <3>2, <3>3, <4>1 DEF Takes
    <3>4. CASE Moves(a, {"join"}, {"create"}) /\ operations[applier[a].op] = "absent"
      <4>1. operations[applier[b].op] # "absent"
        BY <1>1, <3>1 DEF ClaimInv
      <4> QED BY <3>2, <3>4, <4>1 DEF Moves
    <3>5. CASE Moves(a, {"create"}, {"begin"})
      BY <3>1, <3>2, <3>5 DEF Moves, AloneInv
    <3> QED BY <1>3, <2>2, <3>3, <3>4, <3>5, ApplyMoves DEF Moves, Takes
  <2>3. CASE \A c \in Appliers : ~ApplyStep(c)
    <3>1. b \in launched
      BY <2>3, RestClaimsNothing DEF Claims
    <3>2. applier'[b].op = applier[b].op
      BY <3>1, LaunchedKeepTheirOperation
    <3>3. applier'[a] = applier[a]
      BY <1>3, <2>3, RestClaimsNothing
    <3> QED BY <1>3, <3>1, <3>2, <3>3 DEF AloneInv
  <2> QED BY <2>1, <2>2, <2>3
<1>4. ASSUME NEW a \in launched', NEW b \in launched', applier'[a].op = applier'[b].op
      PROVE  a = b
  <2>1. CASE a \in launched /\ b \in launched
    BY <1>1, <1>4, <2>1, LaunchedKeepTheirOperation DEF AloneInv
  <2>2. ASSUME NEW c \in launched', c \notin launched, NEW d \in launched
        PROVE  applier'[c].op # applier'[d].op
    BY <1>1, <1>2, <2>2, LaunchedKeepTheirOperation DEF Moves, AloneInv
  <2>3. CASE a \notin launched /\ b \notin launched
    BY <1>2, <2>3
  <2> QED BY <1>4, <2>1, <2>2, <2>3
<1> QED BY <1>1, <1>3, <1>4 DEF AloneInv

\* A plan and an idempotency key stand for one operation, in any number of
\* requests, failures and restarts of one process.
THEOREM KeyNamesOneOperationAlways == ASSUME SharedStore = FALSE PROVE Spec => []KeyNamesOneOperation
<1> DEFINE Inv == TypeOK /\ TurnInv /\ LaunchedInv /\ ClaimInv /\ OwnerInv /\ AloneInv
<1>1. Init => Inv
  BY InitType, InitTurn, InitLaunched, InitClaim, InitOwner, InitAlone
<1>2. Inv /\ [Next]_vars => Inv'
  BY NextType, NextTurn, NextLaunched, NextClaim, NextOwner, NextAlone
<1>3. ASSUME Inv, NEW a \in launched, NEW b \in launched,
             applier[a].id = applier[b].id, applier[a].key = applier[b].key
      PROVE  a = b
  BY <1>3 DEF TypeOK, ClaimInv, AloneInv, claimed
<1>4. ASSUME Inv, NEW a \in Appliers, applier[a].at = "replayed"
      PROVE  /\ reserved[applier[a].id][applier[a].key] = applier[a].op
             /\ operations[applier[a].op] # "absent"
  BY <1>4 DEF ClaimInv, WithOperation, claimed
<1> HIDE DEF Inv
<1>5. Inv => KeyNamesOneOperation
  BY <1>3, <1>4 DEF KeyNamesOneOperation
<1> QED BY <1>1, <1>2, <1>5, PTL DEF Spec
=============================================================================
