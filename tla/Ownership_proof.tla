--------------------------- MODULE Ownership_proof ---------------------------
(***************************************************************************)
(* Theorems about Ownership, for any documents, resources and number of    *)
(* requests in flight.                                                     *)
(***************************************************************************)
EXTENDS Ownership, TLAPS

\* The owner a document acts for is one of the owners.
LEMMA OwnerOfType == \A d \in Documents : OwnerOf[d] \in Owners
BY DEF Owners

\* A plan is well formed whenever the inspection was.
LEMMA PlanType ==
    ASSUME NEW d \in Documents, NEW current \in Projection
    PROVE  resolveOwnership(d, current) \in Plan
BY DEF resolveOwnership, Plan, declared

\* What the provider makes of a change is again the content of a resource.
LEMMA WrittenType ==
    ASSUME TypeOK, NEW plan \in Plan, NEW r \in Resources
    PROVE  [world EXCEPT ![r] = written(plan, r)] \in Projection
<1>1. Declares[plan.document][r] \in [Paths -> Values \cup {"unset"}]
  BY DocumentsAssumption DEF Plan, Projection
<1>2. world[r] \in [Paths -> Values \cup {"unset"}]
  BY DEF TypeOK, Projection
<1>3. actionOf(plan, r) \in {"create", "update", "delete", "noop", "blocked"}
  BY DEF actionOf, intent
<1>4. written(plan, r) \in [Paths -> Values \cup {"unset"}]
  <2>1. CASE actionOf(plan, r) = "create"
    BY <1>1, <2>1 DEF written
  <2>2. CASE actionOf(plan, r) = "update"
    BY <1>1, <1>2, <2>2 DEF written
  <2>3. CASE actionOf(plan, r) = "delete"
    BY <2>3 DEF written
  <2>4. CASE actionOf(plan, r) \notin {"create", "update", "delete"}
    BY <1>2, <2>4 DEF written
  <2> QED BY <2>1, <2>2, <2>3, <2>4
<1> QED BY <1>4 DEF TypeOK, Projection

LEMMA InitType == Init => TypeOK
<1> SUFFICES ASSUME Init PROVE TypeOK
  OBVIOUS
<1>1. /\ world \in Projection /\ owner \in [Field -> Owners \cup {"free"}]
      /\ earned \subseteq Owners \X Field
  <2>1. CASE Empty
    BY <2>1 DEF Empty, Projection
  <2>2. ASSUME NEW d \in Documents, Applied(d)
        PROVE  /\ world \in Projection /\ owner \in [Field -> Owners \cup {"free"}]
               /\ earned \subseteq Owners \X Field
    BY <2>2, OwnerOfType, DocumentsAssumption DEF Applied, declared
  <2> QED BY <2>1, <2>2 DEF Init
<1> QED BY <1>1, LimitsAssumption DEF Init, TypeOK

LEMMA NextType == TypeOK /\ [Next]_vars => TypeOK'
<1> SUFFICES ASSUME TypeOK, [Next]_vars PROVE TypeOK'
  OBVIOUS
<1>1. ASSUME NEW p \in Planners, NEW d \in Documents, InspectForPlan(p, d) PROVE TypeOK'
  BY <1>1 DEF InspectForPlan, TypeOK, Inspection
<1>2. ASSUME NEW p \in Planners, SavePlan(p) PROVE TypeOK'
  <2>1. planner[p] \in Inspection
    BY <1>2 DEF SavePlan, TypeOK
  <2>2. resolveOwnership(planner[p].document, planner[p].world) \in Plan
    BY <2>1, PlanType DEF Inspection
  <2> QED BY <1>2, <2>2 DEF SavePlan, TypeOK
<1>3. ASSUME NEW plan \in plans, Expire(plan) PROVE TypeOK'
  BY <1>3 DEF Expire, TypeOK
<1>4. ASSUME NEW a \in Appliers, NEW plan \in plans, Admit(a, plan) PROVE TypeOK'
  <2>1. exposed' \subseteq Field
    BY <1>4 DEF Admit, TypeOK, unchecked, overlapping, declared
  <2>2. admitted' \in 0..MaxApplies
    BY <1>4, LimitsAssumption DEF Admit, TypeOK
  <2> QED BY <1>4, <2>1, <2>2 DEF Admit, TypeOK, Request, changed
<1>5. ASSUME NEW a \in Appliers, AssertNoDrift(a) PROVE TypeOK'
  BY <1>5 DEF AssertNoDrift, TypeOK, Request
<1>6. ASSUME NEW a \in Appliers, NEW r \in Resources, ChangeLands(a, r) PROVE TypeOK'
  <2>1. applier[a] \in Request
    <3>1. Executes(a, r)
      BY <1>6 DEF ChangeLands
    <3> QED BY <3>1 DEF Executes, TypeOK
  <2>2. world' \in Projection
    BY <1>6, <2>1, WrittenType DEF ChangeLands, Takes, Request
  <2>3. applier' \in [Appliers -> Request \cup {Idle}]
    BY <1>6, <2>1 DEF ChangeLands, TypeOK, Request
  <2>4. earned' \subseteq Owners \X Field
    <3>1. applier[a].plan \in Plan
      BY <2>1 DEF Request
    <3>2. OwnerOf[applier[a].plan.document] \in Owners
      BY <3>1, OwnerOfType DEF Plan
    <3>3. \A e \in earned' \ earned :
            e \in {OwnerOf[applier[a].plan.document]} \X declared(applier[a].plan.document)
      BY <1>6 DEF ChangeLands
    <3>4. declared(applier[a].plan.document) \subseteq Field
      BY DEF declared
    <3> QED BY <3>2, <3>3, <3>4 DEF TypeOK
  <2>5. exposed' \subseteq Field
    BY <1>6 DEF ChangeLands, Takes, TypeOK
  <2> QED BY <1>6, <2>2, <2>3, <2>4, <2>5 DEF ChangeLands, TypeOK
<1>7. ASSUME NEW a \in Appliers, NEW r \in Resources, ChangeFails(a, r) PROVE TypeOK'
  <2>1. applier[a] \in Request
    <3>1. Executes(a, r)
      BY <1>7 DEF ChangeFails
    <3> QED BY <3>1 DEF Executes, TypeOK
  <2>2. world' \in Projection
    <3>1. CASE Takes(a, r)
      BY <2>1, <3>1, WrittenType DEF Takes, Request
    <3>2. CASE UNCHANGED world
      BY <3>2 DEF TypeOK
    <3> QED BY <1>7, <3>1, <3>2 DEF ChangeFails
  <2>3. applier' \in [Appliers -> Request \cup {Idle}]
    BY <1>7, <2>1 DEF ChangeFails, TypeOK, Request
  <2>4. exposed' \subseteq Field
    BY <1>7 DEF ChangeFails, Takes, TypeOK
  <2> QED BY <1>7, <2>2, <2>3, <2>4 DEF ChangeFails, TypeOK
<1>8. ASSUME NEW a \in Appliers, FinishExecution(a) PROVE TypeOK'
  <2>1. applier[a] \in Request
    BY <1>8 DEF FinishExecution, TypeOK
  <2>2. applier' \in [Appliers -> Request \cup {Idle}]
    BY <1>8, <2>1 DEF FinishExecution, TypeOK, Request
  <2> QED BY <1>8, <2>2 DEF FinishExecution, TypeOK
<1>9. ASSUME NEW a \in Appliers, RecordOwnership(a) PROVE TypeOK'
  <2>1. applier[a] \in Request
    BY <1>9 DEF RecordOwnership, TypeOK
  <2>2. OwnerOf[applier[a].plan.document] \in Owners
    BY <2>1, OwnerOfType DEF Request, Plan
  <2> QED BY <1>9, <2>2 DEF RecordOwnership, TypeOK
<1>10. ASSUME NEW a \in Appliers, Abandon(a) PROVE TypeOK'
  BY <1>10 DEF Abandon, TypeOK
<1>11. CASE UNCHANGED vars
  BY <1>11 DEF vars, TypeOK
<1> QED BY <1>1, <1>2, <1>3, <1>4, <1>5, <1>6, <1>7, <1>8, <1>9, <1>10, <1>11 DEF Next

\* Every reachable state of Ownership is well typed.
THEOREM TypeCorrect == Spec => []TypeOK
BY InitType, NextType, PTL DEF Spec

-----------------------------------------------------------------------------
\* Why ClaimsAreEarned is kept: a request that is about to record holds as
\* landed only resources whose declared fields it has earned.
LandedIsEarned ==
    \A a \in Appliers : applier[a] # Idle =>
        \A f \in declared(applier[a].plan.document) :
            f[1] \in applier[a].landed => <<OwnerOf[applier[a].plan.document], f>> \in earned

EarnedInv == LandedIsEarned /\ ClaimsAreEarned

LEMMA InitEarned == Init => EarnedInv
BY DEF Init, Empty, Applied, EarnedInv, LandedIsEarned, ClaimsAreEarned

LEMMA NextEarned == TypeOK /\ EarnedInv /\ [Next]_vars => EarnedInv'
<1> SUFFICES ASSUME TypeOK, EarnedInv, [Next]_vars PROVE EarnedInv'
  OBVIOUS
<1> USE DEF EarnedInv
<1>1. ASSUME NEW p \in Planners, NEW d \in Documents, InspectForPlan(p, d) PROVE EarnedInv'
  BY <1>1 DEF InspectForPlan, LandedIsEarned, ClaimsAreEarned
<1>2. ASSUME NEW p \in Planners, SavePlan(p) PROVE EarnedInv'
  BY <1>2 DEF SavePlan, LandedIsEarned, ClaimsAreEarned
<1>3. ASSUME NEW plan \in plans, Expire(plan) PROVE EarnedInv'
  BY <1>3 DEF Expire, LandedIsEarned, ClaimsAreEarned
<1>4. ASSUME NEW a \in Appliers, NEW plan \in plans, Admit(a, plan) PROVE EarnedInv'
  BY <1>4 DEF Admit, LandedIsEarned, ClaimsAreEarned, TypeOK
<1>5. ASSUME NEW a \in Appliers, AssertNoDrift(a) PROVE EarnedInv'
  <2>1. applier[a] \in Request
    BY <1>5 DEF AssertNoDrift, TypeOK
  <2> QED BY <1>5, <2>1 DEF AssertNoDrift, LandedIsEarned, ClaimsAreEarned, TypeOK, Request
<1>6. ASSUME NEW a \in Appliers, NEW r \in Resources, ChangeLands(a, r) PROVE EarnedInv'
  <2>1. applier[a] \in Request /\ applier[a] # Idle
    BY <1>6 DEF ChangeLands, Executes, TypeOK
  <2>2. earned \subseteq earned'
    BY <1>6 DEF ChangeLands
  <2>3. applier'[a].plan = applier[a].plan /\ applier'[a].landed = applier[a].landed \cup {r}
    BY <1>6, <2>1 DEF ChangeLands, TypeOK, Request
  <2>4. \A f \in declared(applier[a].plan.document) :
          f[1] \in applier'[a].landed => <<OwnerOf[applier[a].plan.document], f>> \in earned'
    BY <1>6, <2>1, <2>2, <2>3 DEF ChangeLands, LandedIsEarned
  <2>5. \A b \in Appliers \ {a} : applier'[b] = applier[b]
    BY <1>6 DEF ChangeLands, TypeOK
  <2>6. LandedIsEarned'
    BY <2>2, <2>3, <2>4, <2>5 DEF LandedIsEarned, declared
  <2>7. ClaimsAreEarned'
    BY <1>6, <2>2 DEF ChangeLands, ClaimsAreEarned
  <2> QED BY <2>6, <2>7
<1>7. ASSUME NEW a \in Appliers, NEW r \in Resources, ChangeFails(a, r) PROVE EarnedInv'
  <2>1. applier[a] \in Request /\ applier[a] # Idle
    BY <1>7 DEF ChangeFails, Executes, TypeOK
  <2> QED BY <1>7, <2>1 DEF ChangeFails, LandedIsEarned, ClaimsAreEarned, TypeOK, Request
<1>8. ASSUME NEW a \in Appliers, FinishExecution(a) PROVE EarnedInv'
  <2>1. applier[a] \in Request
    BY <1>8 DEF FinishExecution, TypeOK
  <2> QED BY <1>8, <2>1 DEF FinishExecution, LandedIsEarned, ClaimsAreEarned, TypeOK, Request
<1>9. ASSUME NEW a \in Appliers, RecordOwnership(a) PROVE EarnedInv'
  <2>1. applier[a] # Idle
    BY <1>9 DEF RecordOwnership
  <2>2. \A f \in claimsToRecord(applier[a]) :
          <<OwnerOf[applier[a].plan.document], f>> \in earned
    BY <2>1 DEF claimsToRecord, LandedIsEarned
  <2>3. ClaimsAreEarned'
    BY <1>9, <2>2 DEF RecordOwnership, ClaimsAreEarned
  <2>4. LandedIsEarned'
    BY <1>9 DEF RecordOwnership, LandedIsEarned, TypeOK
  <2> QED BY <2>3, <2>4
<1>10. ASSUME NEW a \in Appliers, Abandon(a) PROVE EarnedInv'
  BY <1>10 DEF Abandon, LandedIsEarned, ClaimsAreEarned, TypeOK
<1>11. CASE UNCHANGED vars
  BY <1>11 DEF vars, LandedIsEarned, ClaimsAreEarned
<1> QED BY <1>1, <1>2, <1>3, <1>4, <1>5, <1>6, <1>7, <1>8, <1>9, <1>10, <1>11 DEF Next

\* No document is responsible for a field that no landed change of its own
\* declared, whatever failed, was blocked, or was planned on an old record.
THEOREM ClaimsAreEarnedAlways == Spec => []ClaimsAreEarned
<1>1. TypeOK /\ EarnedInv /\ [Next]_vars => TypeOK' /\ EarnedInv'
  BY NextType, NextEarned
<1>2. EarnedInv => ClaimsAreEarned
  BY DEF EarnedInv
<1> QED BY InitType, InitEarned, <1>1, <1>2, PTL DEF Spec

-----------------------------------------------------------------------------
(***************************************************************************)
(* The value of an owned field                                             *)
(***************************************************************************)
asked(d, f) == Declares[d][f[1]][f[2]]

at(w, f) == w[f[1]][f[2]]

\* What follows is said of a world w, a record o and exposed fields e, so that it
\* can be said of the next state as well.

\* A plan gives up fields only of resources it has a change for.
Fits(plan) == \A f \in plan.releases : f[1] \in changed(plan)

\* What a request is going to set is nobody else's, unless it is exposed.
Entitled(q, o, e) ==
    \A f \in declared(q.plan.document) \ e :
        actionOf(q.plan, f[1]) \in {"create", "update"} =>
            o[f] \in {"free", OwnerOf[q.plan.document]}

\* What it has still to do is as it was inspected, and what it has done is as its
\* document says.
Done(q, w, e) ==
    /\ q.at = "inspect" => q.landed = {}
    /\ q.todo \cap q.landed = {}
    /\ q.todo \cup q.landed \subseteq changed(q.plan)
    /\ q.at = "execute" =>
         \A f \in Field \ e : f[1] \in q.todo => at(w, f) = at(q.plan.revision, f)
    /\ \A f \in declared(q.plan.document) \ e :
         f[1] \in q.landed => at(w, f) = asked(q.plan.document, f)

RequestOK(q, w, o, e) == Fits(q.plan) /\ Entitled(q, o, e) /\ Done(q, w, e)

\* No two requests under way have a change for the same resource, unless it is exposed.
Apart ==
    \A a, b \in Appliers : a # b /\ applier[a] # Idle /\ applier[b] # Idle =>
        \A f \in Field \ exposed :
            ~(f[1] \in changed(applier[a].plan) /\ f[1] \in changed(applier[b].plan))

PlaceInv ==
    /\ OwnersValueIsInPlace
    /\ \A plan \in plans : Fits(plan)
    /\ \A a \in Appliers : applier[a] # Idle => RequestOK(applier[a], world, owner, exposed)
    /\ Apart

LEMMA DeclaredField ==
    ASSUME NEW plan, NEW f \in declared(plan.document)
    PROVE  /\ f \in Field /\ f[1] \in Resources /\ f[2] \in Paths /\ f = <<f[1], f[2]>>
           /\ asked(plan.document, f) # "unset"
           /\ present(Declares[plan.document], f[1]) /\ f[1] \in changed(plan)
<1>1. f \in Field /\ f[1] \in Resources /\ f[2] \in Paths /\ f = <<f[1], f[2]>>
  BY DEF declared, Field
<1>2. asked(plan.document, f) # "unset"
  BY DEF declared, asked
<1>3. present(Declares[plan.document], f[1])
  BY <1>1, <1>2 DEF present, asked
<1> QED BY <1>1, <1>2, <1>3 DEF changed

LEMMA InitPlace == Init => PlaceInv
<1> SUFFICES ASSUME Init PROVE PlaceInv
  OBVIOUS
<1>1. OwnersValueIsInPlace
  <2>1. CASE Empty
    BY <2>1 DEF Empty, OwnersValueIsInPlace
  <2>2. ASSUME NEW d \in Documents, Applied(d) PROVE OwnersValueIsInPlace
    BY <2>2 DEF Applied, OwnersValueIsInPlace
  <2> QED BY <2>1, <2>2 DEF Init
<1> QED BY <1>1 DEF Init, PlaceInv, Apart

\* What no other request touches stays as it was for a request.
LEMMA Undisturbed ==
    ASSUME NEW q, NEW w, NEW o, NEW e, NEW w2, NEW o2, NEW e2, e \subseteq e2,
           RequestOK(q, w, o, e),
           \A f \in Field \ e2 : f[1] \in changed(q.plan) =>
              at(w2, f) = at(w, f) /\ o2[f] \in {o[f], "free"}
    PROVE  RequestOK(q, w2, o2, e2)
<1>1. Entitled(q, o2, e2)
  BY DeclaredField DEF RequestOK, Entitled
<1>2. Done(q, w2, e2)
  BY DeclaredField DEF RequestOK, Done
<1> QED BY <1>1, <1>2 DEF RequestOK

\* A step of one request, seen from the others: it touches only resources of its own.
LEMMA OthersKeep ==
    ASSUME PlaceInv, NEW a \in Appliers, applier[a] # Idle, plans' = plans, exposed \subseteq exposed',
           \A b \in Appliers \ {a} : applier'[b] = applier[b],
           \A f \in Field \ exposed' : f[1] \notin changed(applier[a].plan) =>
              at(world', f) = at(world, f) /\ owner'[f] = owner[f],
           \/ applier'[a] = Idle
           \/ /\ applier'[a].plan = applier[a].plan
              /\ RequestOK(applier'[a], world', owner', exposed'),
           OwnersValueIsInPlace'
    PROVE  PlaceInv'
<1>1. ASSUME NEW b \in Appliers, applier'[b] # Idle
      PROVE  RequestOK(applier'[b], world', owner', exposed')
  <2>1. CASE b = a
    BY <1>1, <2>1
  <2>2. CASE b # a
    <3>1. applier'[b] = applier[b] /\ RequestOK(applier[b], world, owner, exposed)
      BY <1>1, <2>2 DEF PlaceInv
    <3>2. ASSUME NEW f \in Field \ exposed', f[1] \in changed(applier[b].plan)
          PROVE  at(world', f) = at(world, f) /\ owner'[f] \in {owner[f], "free"}
      <4>1. f[1] \notin changed(applier[a].plan)
        BY <1>1, <2>2, <3>1, <3>2 DEF PlaceInv, Apart
      <4> QED BY <4>1
    <3> QED BY <3>1, <3>2, Undisturbed
  <2> QED BY <2>1, <2>2
<1>2. Apart'
  BY DEF PlaceInv, Apart
<1>3. \A b \in Appliers : applier'[b] # Idle => RequestOK(applier[b], world, owner, exposed)'
  BY <1>1 DEF RequestOK, Entitled, Done, at
<1> QED BY <1>2, <1>3 DEF PlaceInv

\* A step that touches no request, no field and no record, and plans well.
LEMMA QuietKeeps ==
    ASSUME PlaceInv, UNCHANGED <<world, owner, applier, exposed>>, \A plan \in plans' \ plans : Fits(plan)
    PROVE  PlaceInv'
<1>1. OwnersValueIsInPlace'
  BY DEF PlaceInv, OwnersValueIsInPlace
<1>2. \A b \in Appliers : applier'[b] # Idle => RequestOK(applier[b], world, owner, exposed)'
  BY DEF PlaceInv, RequestOK, Entitled, Done, at
<1>3. Apart'
  BY DEF PlaceInv, Apart
<1> QED BY <1>1, <1>2, <1>3 DEF PlaceInv

LEMMA AdmitKeeps ==
    ASSUME TypeOK, PlaceInv, NEW a \in Appliers, NEW plan \in plans, Admit(a, plan)
    PROVE  PlaceInv'
<1> DEFINE q == [at |-> "inspect", plan |-> plan, todo |-> changed(plan), landed |-> {}]
           d == plan.document
<1>1. /\ UNCHANGED <<world, owner, plans>> /\ applier'[a] = q /\ exposed \subseteq exposed'
      /\ \A b \in Appliers \ {a} : applier'[b] = applier[b]
  BY DEF Admit, TypeOK
<1>2. Entitled(q, owner, exposed')
  <2> SUFFICES ASSUME NEW f \in declared(d) \ exposed', actionOf(plan, f[1]) \in {"create", "update"}
               PROVE  owner[f] \in {"free", OwnerOf[d]}
    BY DEF Entitled
  <2>1. CASE f \in plan.claims
    BY <2>1 DEF Admit, ownershipStillHeld
  <2>2. CASE f \in plan.conflicts
    <3>1. f[2] \in Paths /\ <<f[1], f[2]>> \in plan.conflicts
      BY <2>2, DeclaredField
    <3>2. actionOf(plan, f[1]) = "blocked" \/ intent(plan, f[1]) = "noop"
      BY <3>1 DEF actionOf
    <3> QED BY <3>2 DEF actionOf
  <2>3. CASE f \notin plan.claims /\ f \notin plan.conflicts
    BY <2>3 DEF Admit, unchecked
  <2> QED BY <2>1, <2>2, <2>3
<1>3. Done(q, world, exposed')
  BY DEF Done
<1>4. RequestOK(q, world, owner, exposed')
  BY <1>2, <1>3 DEF RequestOK, PlaceInv
<1>5. ASSUME NEW b \in Appliers, applier'[b] # Idle
      PROVE  RequestOK(applier'[b], world, owner, exposed')
  <2>1. CASE b = a
    BY <1>1, <1>4, <2>1
  <2>2. CASE b # a
    <3>1. applier'[b] = applier[b] /\ RequestOK(applier[b], world, owner, exposed)
      BY <1>1, <1>5, <2>2 DEF PlaceInv
    <3> QED BY <1>1, <3>1, Undisturbed
  <2> QED BY <2>1, <2>2
<1>6. \A b \in Appliers : applier'[b] # Idle => RequestOK(applier[b], world, owner, exposed)'
  BY <1>1, <1>5 DEF RequestOK, Entitled, Done, at
<1>7. Apart'
  <2> SUFFICES ASSUME NEW b \in Appliers, NEW c \in Appliers, b # c,
                      applier'[b] # Idle, applier'[c] # Idle, NEW f \in Field \ exposed',
                      f[1] \in changed(applier'[b].plan), f[1] \in changed(applier'[c].plan)
               PROVE  FALSE
    BY DEF Apart, changed
  <2>1. ASSUME NEW g \in Appliers \ {a}, applier[g] # Idle, f[1] \in changed(applier[g].plan)
        PROVE  f[1] \notin changed(plan)
    BY <2>1 DEF Admit, overlapping
  <2>2. CASE b # a /\ c # a
    BY <1>1, <2>2 DEF PlaceInv, Apart
  <2>3. CASE b = a
    BY <1>1, <2>1, <2>3
  <2>4. CASE c = a
    BY <1>1, <2>1, <2>4
  <2> QED BY <2>2, <2>3, <2>4
<1>8. OwnersValueIsInPlace'
  BY <1>1 DEF PlaceInv, OwnersValueIsInPlace
<1> QED BY <1>1, <1>6, <1>7, <1>8 DEF PlaceInv

\* A request that only moves on keeps to what it has done, as long as it has not
\* more to do than before.
LEMMA MovesOn ==
    ASSUME TypeOK, PlaceInv, NEW a \in Appliers, applier[a] # Idle,
           UNCHANGED <<world, owner, plans, exposed>>,
           \A b \in Appliers \ {a} : applier'[b] = applier[b],
           \/ applier'[a] = Idle
           \/ /\ applier'[a].plan = applier[a].plan
              /\ RequestOK(applier'[a], world, owner, exposed)
    PROVE  PlaceInv'
<1>1. OwnersValueIsInPlace'
  BY DEF PlaceInv, OwnersValueIsInPlace
<1> QED BY <1>1, OthersKeep

LEMMA AssertKeeps ==
    ASSUME TypeOK, PlaceInv, NEW a \in Appliers, AssertNoDrift(a) PROVE PlaceInv'
<1> DEFINE q == applier[a]
<1>1. /\ q \in Request /\ q # Idle /\ q.at = "inspect" /\ RequestOK(q, world, owner, exposed)
      /\ UNCHANGED <<world, owner, plans, exposed>>
      /\ \A b \in Appliers \ {a} : applier'[b] = applier[b]
  BY DEF AssertNoDrift, TypeOK, PlaceInv
<1>2. applier'[a] = IF world = q.plan.revision THEN [q EXCEPT !.at = "execute"] ELSE Idle
  BY DEF AssertNoDrift, TypeOK
<1> HIDE DEF q
<1>3. CASE world = q.plan.revision
  <2>1. /\ applier'[a].at = "execute" /\ applier'[a].plan = q.plan
        /\ applier'[a].landed = q.landed /\ applier'[a].todo = q.todo
    BY <1>1, <1>2, <1>3 DEF Request
  <2>2. RequestOK(applier'[a], world, owner, exposed)
    BY <1>1, <1>3, <2>1 DEF RequestOK, Entitled, Done
  <2> QED BY <1>1, <2>1, <2>2, MovesOn DEF q
<1>4. CASE world # q.plan.revision
  BY <1>1, <1>2, <1>4, MovesOn DEF q
<1> QED BY <1>3, <1>4

LEMMA FinishKeeps ==
    ASSUME TypeOK, PlaceInv, NEW a \in Appliers, FinishExecution(a) \/ Abandon(a) PROVE PlaceInv'
<1> DEFINE q == applier[a]
<1>1. /\ q \in Request /\ q # Idle /\ RequestOK(q, world, owner, exposed)
      /\ UNCHANGED <<world, owner, plans, exposed>>
      /\ \A b \in Appliers \ {a} : applier'[b] = applier[b]
  BY DEF FinishExecution, Abandon, TypeOK, PlaceInv
<1>2. applier'[a] = Idle \/ applier'[a] = [q EXCEPT !.at = "record", !.todo = {}]
  BY DEF FinishExecution, Abandon, TypeOK
<1> HIDE DEF q
<1>3. CASE applier'[a] = [q EXCEPT !.at = "record", !.todo = {}]
  <2>1. /\ applier'[a].at = "record" /\ applier'[a].plan = q.plan
        /\ applier'[a].landed = q.landed /\ applier'[a].todo = {}
    BY <1>1, <1>3 DEF Request
  <2>2. RequestOK(applier'[a], world, owner, exposed)
    BY <1>1, <2>1 DEF RequestOK, Entitled, Done
  <2> QED BY <1>1, <2>1, <2>2, MovesOn DEF q
<1> QED BY <1>1, <1>2, <1>3, MovesOn DEF q

LEMMA RecordKeeps ==
    ASSUME TypeOK, PlaceInv, NEW a \in Appliers, RecordOwnership(a) PROVE PlaceInv'
<1> DEFINE q == applier[a]
           d == q.plan.document
<1>1. /\ q \in Request /\ q # Idle /\ RequestOK(q, world, owner, exposed) /\ d \in Documents
      /\ UNCHANGED <<world, plans, exposed>> /\ applier'[a] = Idle
      /\ \A b \in Appliers \ {a} : applier'[b] = applier[b]
  BY DEF RecordOwnership, TypeOK, PlaceInv, Request, Plan
<1>2. \A f \in Field : owner'[f] = IF f \in claimsToRecord(q) THEN OwnerOf[d]
                                   ELSE IF f \in released(q) THEN "free" ELSE owner[f]
  BY DEF RecordOwnership
<1> HIDE DEF q
<1>3. ASSUME NEW f \in Field \ exposed', owner'[f] # "free"
      PROVE  \E e \in Documents : OwnerOf[e] = owner'[f] /\ f \in declared(e) /\ at(world, f) = asked(e, f)
  <2>1. CASE f \in claimsToRecord(q)
    <3>1. f \in declared(d) /\ at(world, f) = asked(d, f)
      BY <1>1, <1>3, <2>1 DEF claimsToRecord, RequestOK, Done
    <3> QED BY <1>1, <1>2, <2>1, <3>1
  <2>2. CASE f \notin claimsToRecord(q)
    <3>1. owner'[f] = owner[f]
      BY <1>2, <1>3, <2>2
    <3> QED BY <1>1, <1>3, <3>1 DEF PlaceInv, OwnersValueIsInPlace, at, asked
  <2> QED BY <2>1, <2>2
<1>4. OwnersValueIsInPlace'
  BY <1>1, <1>3 DEF OwnersValueIsInPlace, at, asked
<1>5. ASSUME NEW f \in Field \ exposed', f[1] \notin changed(q.plan) PROVE owner'[f] = owner[f]
  <2>1. f \notin claimsToRecord(q)
    BY <1>5, DeclaredField DEF claimsToRecord
  <2>2. f \notin released(q)
    BY <1>1, <1>5 DEF released, RequestOK, Fits
  <2> QED BY <1>2, <2>1, <2>2
<1> QED BY <1>1, <1>4, <1>5, OthersKeep DEF q

\* A change that is made leaves what is declared as declared; what is not declared
\* it leaves alone, but for a deletion and for a resource that is new.
LEMMA WrittenAs ==
    ASSUME TypeOK, PlaceInv, NEW a \in Appliers, NEW r \in Resources, Executes(a, r),
           NEW f \in Field \ exposed, f[1] = r, actionOf(applier[a].plan, r) # "blocked"
    PROVE  LET q == applier[a]
               d == q.plan.document
           IN  /\ f \in declared(d) => written(q.plan, r)[f[2]] = asked(d, f)
               /\ f \notin declared(d) /\ actionOf(q.plan, r) # "delete" =>
                    written(q.plan, r)[f[2]] = at(world, f)
               /\ actionOf(q.plan, r) = "create" => at(world, f) = "unset"
<1> DEFINE q == applier[a]
           d == q.plan.document
           p == f[2]
           desired == Declares[d]
<1>1. /\ q \in Request /\ d \in Documents /\ q.at = "execute" /\ r \in q.todo
      /\ RequestOK(q, world, owner, exposed) /\ p \in Paths /\ f = <<r, p>>
  BY DEF Executes, TypeOK, PlaceInv, Request, Plan, Field
<1>2. /\ desired \in Projection /\ q.plan.revision \in Projection /\ world \in Projection
  BY <1>1, DocumentsAssumption DEF Request, Plan, TypeOK
<1>3. at(world, f) = q.plan.revision[r][p]
  BY <1>1 DEF RequestOK, Done, at
<1>4. f \in declared(d) <=> desired[r][p] # "unset"
  BY <1>1 DEF declared
<1>5. actionOf(q.plan, r) = intent(q.plan, r)
  BY DEF actionOf
<1> HIDE DEF q
<1>6. CASE intent(q.plan, r) = "create"
  <2>1. ~present(q.plan.revision, r)
    BY <1>6 DEF intent
  <2>2. q.plan.revision[r][p] = "unset"
    BY <1>1, <1>2, <2>1 DEF present
  <2>3. written(q.plan, r) = desired[r]
    BY <1>5, <1>6 DEF written
  <2> QED BY <1>1, <1>3, <1>4, <2>2, <2>3 DEF asked, q
<1>7. CASE intent(q.plan, r) = "update"
  <2>1. written(q.plan, r)[p] = IF desired[r][p] = "unset" THEN world[r][p] ELSE desired[r][p]
    BY <1>1, <1>5, <1>7 DEF written
  <2> QED BY <1>1, <1>4, <1>5, <1>7, <2>1 DEF asked, at, q
<1>8. CASE intent(q.plan, r) = "noop"
  <2>1. desired[r] = q.plan.revision[r]
    BY <1>8 DEF intent
  <2>2. written(q.plan, r) = world[r]
    BY <1>5, <1>8 DEF written
  <2> QED BY <1>1, <1>3, <1>5, <1>8, <2>1, <2>2 DEF asked, at, q
<1>9. CASE intent(q.plan, r) = "delete"
  <2>1. ~present(desired, r)
    BY <1>9 DEF intent
  <2>2. desired[r][p] = "unset"
    BY <1>1, <1>2, <2>1 DEF present
  <2> QED BY <1>4, <1>5, <1>9, <2>2 DEF q
<1> QED BY <1>6, <1>7, <1>8, <1>9 DEF intent

\* A change that takes effect leaves what is owned, and not exposed, in place.
LEMMA TakesInPlace ==
    ASSUME TypeOK, PlaceInv, NEW a \in Appliers, NEW r \in Resources, Executes(a, r),
           Takes(a, r), owner' = owner
    PROVE  OwnersValueIsInPlace'
<1> DEFINE q == applier[a]
           d == q.plan.document
<1>1. /\ q \in Request /\ d \in Documents /\ RequestOK(q, world, owner, exposed)
  BY DEF Executes, TypeOK, PlaceInv, Request, Plan
<1>2. /\ world'[r] = written(q.plan, r) /\ exposed \subseteq exposed'
      /\ \A s \in Resources \ {r} : world'[s] = world[s]
  BY DEF Takes, TypeOK, Projection
<1>3. ASSUME NEW f \in Field \ exposed', owner[f] # "free"
      PROVE  \E e \in Documents : OwnerOf[e] = owner[f] /\ f \in declared(e) /\ at(world', f) = asked(e, f)
  <2>1. PICK e \in Documents : OwnerOf[e] = owner[f] /\ f \in declared(e) /\ at(world, f) = asked(e, f)
    BY <1>2, <1>3 DEF PlaceInv, OwnersValueIsInPlace, at, asked
  <2>2. f \in Field \ exposed /\ f[1] \in Resources /\ at(world, f) # "unset"
    BY <1>2, <2>1 DEF Field, declared, asked
  <2>3. CASE f[1] # r
    BY <1>2, <2>1, <2>2, <2>3 DEF at
  <2>4. CASE f[1] = r /\ actionOf(q.plan, r) = "blocked"
    <3>1. written(q.plan, r) = world[r]
      BY <2>4 DEF written
    <3> QED BY <1>2, <2>1, <2>4, <3>1 DEF at
  <2>5. CASE f[1] = r /\ actionOf(q.plan, r) # "blocked"
    <3>1. actionOf(q.plan, r) # "delete"
      BY <1>3, <2>5 DEF Takes
    <3>2. /\ f \in declared(d) => written(q.plan, r)[f[2]] = asked(d, f)
          /\ f \notin declared(d) => written(q.plan, r)[f[2]] = at(world, f)
          /\ actionOf(q.plan, r) # "create"
      BY <2>2, <2>5, <3>1, WrittenAs
    <3>3. CASE f \notin declared(d)
      BY <1>2, <2>1, <2>5, <3>2, <3>3 DEF at
    <3>4. CASE f \in declared(d) /\ actionOf(q.plan, r) = "update"
      <4>1. owner[f] = OwnerOf[d]
        BY <1>1, <1>3, <2>2, <2>5, <3>4 DEF RequestOK, Entitled
      <4>2. at(world', f) = asked(d, f)
        BY <1>2, <2>5, <3>2, <3>4 DEF at
      <4> QED BY <1>1, <3>4, <4>1, <4>2
    <3>5. CASE actionOf(q.plan, r) = "noop"
      <4>1. written(q.plan, r) = world[r]
        BY <3>5 DEF written
      <4> QED BY <1>2, <2>1, <2>5, <4>1 DEF at
    <3> QED BY <2>5, <3>1, <3>2, <3>3, <3>4, <3>5 DEF actionOf, intent
  <2> QED BY <2>3, <2>4, <2>5
<1> QED BY <1>3 DEF OwnersValueIsInPlace, at, asked

LEMMA ChangeKeeps ==
    ASSUME TypeOK, PlaceInv, NEW a \in Appliers, NEW r \in Resources,
           ChangeLands(a, r) \/ ChangeFails(a, r)
    PROVE  PlaceInv'
<1> DEFINE q == applier[a]
           d == q.plan.document
<1>1. /\ Executes(a, r) /\ UNCHANGED <<owner, plans>> /\ exposed \subseteq exposed'
      /\ Takes(a, r) \/ UNCHANGED <<world, exposed>>
      /\ \A b \in Appliers \ {a} : applier'[b] = applier[b]
  BY DEF ChangeLands, ChangeFails, Takes, TypeOK
<1>2. /\ q \in Request /\ q # Idle /\ q.at = "execute" /\ r \in q.todo /\ d \in Documents
      /\ RequestOK(q, world, owner, exposed)
  BY <1>1 DEF Executes, TypeOK, PlaceInv, Request, Plan
<1>3. \A s \in Resources \ {r} : world'[s] = world[s]
  BY <1>1 DEF Takes, TypeOK, Projection
<1>4. OwnersValueIsInPlace'
  <2>1. CASE Takes(a, r)
    BY <1>1, <2>1, TakesInPlace
  <2>2. CASE UNCHANGED <<world, exposed>>
    BY <1>1, <2>2 DEF PlaceInv, OwnersValueIsInPlace
  <2> QED BY <1>1, <2>1, <2>2
<1>5. /\ applier'[a].at = "execute" /\ applier'[a].plan = q.plan
      /\ applier'[a].todo = q.todo \ {r}
      /\ \/ applier'[a].landed = q.landed
         \/ applier'[a].landed = q.landed \cup {r} /\ ChangeLands(a, r)
  BY <1>2 DEF ChangeLands, ChangeFails, TypeOK, Request
<1>6. r \in changed(q.plan) /\ r \notin q.landed
  BY <1>2 DEF RequestOK, Done
<1>7. ASSUME ChangeLands(a, r), NEW f \in declared(d) \ exposed', f[1] = r
      PROVE  at(world', f) = asked(d, f)
  <2>1. /\ actionOf(q.plan, r) # "blocked" /\ world'[r] = written(q.plan, r)
    BY <1>7 DEF ChangeLands, Takes, TypeOK, Projection
  <2>2. f \in Field \ exposed
    BY <1>1, DeclaredField
  <2>3. written(q.plan, r)[f[2]] = asked(d, f)
    BY <1>1, <1>7, <2>1, <2>2, WrittenAs
  <2> QED BY <1>7, <2>1, <2>3 DEF at
<1> HIDE DEF q
<1>8. RequestOK(applier'[a], world', owner', exposed')
  <2>1. Fits(applier'[a].plan) /\ Entitled(applier'[a], owner', exposed')
    BY <1>1, <1>2, <1>5 DEF RequestOK, Entitled
  <2>2. ASSUME NEW f \in Field \ exposed', f[1] \in applier'[a].todo
        PROVE  at(world', f) = at(q.plan.revision, f)
    <3>1. f[1] \in q.todo /\ f[1] # r /\ f[1] \in Resources
      BY <1>5, <2>2 DEF Field
    <3> QED BY <1>1, <1>2, <1>3, <3>1 DEF RequestOK, Done, at
  <2>3. ASSUME NEW f \in declared(d) \ exposed', f[1] \in applier'[a].landed
        PROVE  at(world', f) = asked(d, f)
    <3>1. f[1] \in Resources
      BY DeclaredField
    <3>2. CASE f[1] # r
      <4>1. f[1] \in q.landed
        BY <1>5, <2>3, <3>2
      <4> QED BY <1>1, <1>2, <1>3, <3>1, <3>2, <4>1 DEF RequestOK, Done, at
    <3>3. CASE f[1] = r
      BY <1>5, <1>6, <1>7, <2>3, <3>3
    <3> QED BY <3>2, <3>3
  <2>4. /\ applier'[a].todo \cap applier'[a].landed = {}
        /\ applier'[a].todo \cup applier'[a].landed \subseteq changed(q.plan)
    BY <1>2, <1>5, <1>6 DEF RequestOK, Done
  <2>5. Done(applier'[a], world', exposed')
    BY <1>5, <2>2, <2>3, <2>4 DEF Done
  <2> QED BY <2>1, <2>5 DEF RequestOK
<1>9. ASSUME NEW f \in Field \ exposed', f[1] \notin changed(q.plan) PROVE at(world', f) = at(world, f)
  <2>1. f[1] # r /\ f[1] \in Resources
    BY <1>6, <1>9 DEF Field
  <2> QED BY <1>3, <2>1 DEF at
<1> QED BY <1>1, <1>2, <1>4, <1>5, <1>8, <1>9, OthersKeep DEF q

LEMMA NextPlace == TypeOK /\ PlaceInv /\ [Next]_vars => PlaceInv'
<1> SUFFICES ASSUME TypeOK, PlaceInv, [Next]_vars PROVE PlaceInv'
  OBVIOUS
<1>1. ASSUME NEW p \in Planners, NEW d \in Documents, InspectForPlan(p, d) PROVE PlaceInv'
  BY <1>1, QuietKeeps DEF InspectForPlan
<1>2. ASSUME NEW p \in Planners, SavePlan(p) PROVE PlaceInv'
  <2>1. Fits(resolveOwnership(planner[p].document, planner[p].world))
    BY DEF Fits, resolveOwnership, changed
  <2> QED BY <1>2, <2>1, QuietKeeps DEF SavePlan
<1>3. ASSUME NEW plan \in plans, Expire(plan) PROVE PlaceInv'
  BY <1>3, QuietKeeps DEF Expire
<1>4. ASSUME NEW a \in Appliers, NEW plan \in plans, Admit(a, plan) PROVE PlaceInv'
  BY <1>4, AdmitKeeps
<1>5. ASSUME NEW a \in Appliers, AssertNoDrift(a) PROVE PlaceInv'
  BY <1>5, AssertKeeps
<1>6. ASSUME NEW a \in Appliers, FinishExecution(a) \/ Abandon(a) PROVE PlaceInv'
  BY <1>6, FinishKeeps
<1>7. ASSUME NEW a \in Appliers, NEW r \in Resources, ChangeLands(a, r) \/ ChangeFails(a, r)
      PROVE  PlaceInv'
  BY <1>7, ChangeKeeps
<1>8. ASSUME NEW a \in Appliers, RecordOwnership(a) PROVE PlaceInv'
  BY <1>8, RecordKeeps
<1>9. CASE UNCHANGED vars
  BY <1>9, QuietKeeps DEF vars
<1> QED BY <1>1, <1>2, <1>3, <1>4, <1>5, <1>6, <1>7, <1>8, <1>9 DEF Next

\* Every field the record names an owner of has a value this owner asked for, with
\* any number of planners and applies at once, however stale a plan is when it is
\* applied, whatever failed half-way and whatever went unrecorded - but for the
\* fields at risk from one of three steps that nothing guards: setting what was the
\* document's own at planning and is taken since, two applies that change one
\* resource at once, and deleting a resource that is recorded (resolveOwnership,
\* #assertOwnershipStillHeld, #recordOwnership).
THEOREM OwnersValueIsInPlaceAlways == Spec => []OwnersValueIsInPlace
<1>1. Init /\ [][Next]_vars /\ []TypeOK => []PlaceInv
  BY InitPlace, NextPlace, PTL
<1>2. PlaceInv => OwnersValueIsInPlace
  BY DEF PlaceInv
<1> QED BY <1>1, <1>2, TypeCorrect, PTL DEF Spec
=============================================================================
