--------------------------- MODULE PlanBuild_proof ---------------------------
(***************************************************************************)
(* Theorems about PlanBuild, for any documents, projections, providers and *)
(* policies: whatever cases the families hold.                             *)
(***************************************************************************)
EXTENDS PlanBuild, SequenceTheorems, FiniteSetTheorems, TLAPS

\* Changes as a set of records, for the provers.
Leaves == {a \in UNION {[P -> Scalars] : P \in SUBSET Paths} : IsLeaves(a)}

Change == [intent : Actions \ {"blocked"}, action : Actions,
           before : SUBSET Leaves, after : SUBSET Leaves, fields : SUBSET Paths,
           reversible : BOOLEAN, destructive : BOOLEAN,
           dependencies : SUBSET Keys, estimatedRisk : Levels]

LEMMA LeavesAreLeaves == \A a : IsLeaves(a) <=> a \in Leaves
<1> SUFFICES ASSUME NEW a, IsLeaves(a) PROVE a \in Leaves
  BY DEF Leaves
<1>1. a \in [DOMAIN a -> Scalars]
  BY DEF IsLeaves
<1>2. DOMAIN a \in SUBSET Paths
  BY DEF IsLeaves
<1> QED BY <1>1, <1>2 DEF Leaves

LEMMA ChangeIsChange == \A c \in Change : IsChange(c)
BY LeavesAreLeaves DEF Change, IsChange, Leaves

LEMMA CaseKnown == Init => IsCase(input)
BY CasesAssumption DEF Init

\* What a projection holds under a key is leaves.
LEMMA AttributesType ==
    ASSUME NEW f, IsProjection(f), NEW k PROVE attributes(f, k) \in SUBSET Leaves
BY LeavesAreLeaves DEF attributes, IsProjection, IsResource

-----------------------------------------------------------------------------
(***************************************************************************)
(* The changes the diff computes                                           *)
(***************************************************************************)
\* fieldDiffs reports paths that one side at least has.
LEMMA FieldsType ==
    ASSUME NEW a \in Leaves, NEW b \in Leaves PROVE fieldDiffs(a, b) \in SUBSET Paths
BY DEF Leaves, fieldDiffs, differing

LEMMA IntentType ==
    ASSUME NEW d, NEW c, NEW k PROVE intent(d, c, k) \in Actions \ {"blocked"}
BY DEF intent, Actions

LEMMA ComputedType ==
    ASSUME IsCase(input)
    PROVE  /\ DOMAIN computed = DOMAIN input.desired \cup DOMAIN input.current
           /\ DOMAIN computed \subseteq Keys
           /\ \A k \in DOMAIN computed :
                /\ computed[k] = toPlanChange(input.desired, input.current, options, k)
                /\ computed[k] \in Change
<1> DEFINE D == input.desired
           C == input.current
<1>1. IsProjection(D) /\ IsProjection(C)
  BY DEF IsCase
<1>2. DOMAIN computed = DOMAIN D \cup DOMAIN C
  BY DEF computed, computeChanges, planned
<1>3. DOMAIN D \subseteq Keys /\ DOMAIN C \subseteq Keys
  BY <1>1 DEF IsProjection
<1>4. ASSUME NEW k \in DOMAIN computed
      PROVE  /\ computed[k] = toPlanChange(D, C, options, k)
             /\ computed[k] \in Change
  <2>1. computed[k] = toPlanChange(D, C, options, k)
    BY DEF computed, computeChanges
  <2>2. intent(D, C, k) \in Actions \ {"blocked"}
    BY IntentType
  <2>3. attributes(D, k) \in SUBSET Leaves /\ attributes(C, k) \in SUBSET Leaves
    BY <1>1, AttributesType
  <2>4. fields(D, C, k) \in SUBSET Paths
    <3>1. CASE k \in DOMAIN D \cap DOMAIN C
      <4>1. D[k].attributes \in Leaves /\ C[k].attributes \in Leaves
        BY <1>1, <3>1, LeavesAreLeaves DEF IsProjection, IsResource
      <4> QED BY <3>1, <4>1, FieldsType DEF fields
    <3>2. CASE k \notin DOMAIN D \cap DOMAIN C
      BY <3>2 DEF fields
    <3> QED BY <3>1, <3>2
  <2>5. dependenciesFor(D, C, k) \in SUBSET Keys
    <3>1. planned(D, C) \subseteq Keys
      BY <1>3 DEF planned
    <3> QED BY <1>3, <3>1 DEF dependenciesFor
  <2>6. (IF blocks(k, intent(D, C, k), options) THEN "blocked" ELSE intent(D, C, k)) \in Actions
    BY <2>2 DEF Actions
  <2>7. isReversible(intent(D, C, k)) \in BOOLEAN /\ "low" \in Levels
    BY DEF isReversible, Levels
  <2> QED BY <2>1, <2>2, <2>3, <2>4, <2>5, <2>6, <2>7 DEF toPlanChange, Change
<1> QED BY <1>2, <1>3, <1>4

\* The diff depends on what was asked and on the server, and on nothing later.
LEMMA ComputedStays == input' = input => computed' = computed
BY DEF computed, options

-----------------------------------------------------------------------------
(***************************************************************************)
(* What becomes of a change between the diff and the run                   *)
(***************************************************************************)
\* The part of a change that no provider and no judgement alters.
SameChange(c, d) ==
    /\ c.intent = d.intent
    /\ c.dependencies = d.dependencies
    /\ c.before = d.before
    /\ c.after = d.after

\* Whatever a provider makes of a change is a change.
LEMMA ReworkedType == ASSUME NEW c \in Change PROVE Reworked(c) \subseteq Change
<1>1. /\ [c EXCEPT !.destructive = TRUE] \in Change
      /\ [c EXCEPT !.reversible = ~@] \in Change
      /\ [c EXCEPT !.estimatedRisk = "low"] \in Change
      /\ [c EXCEPT !.fields = {}] \in Change
      /\ [c EXCEPT !.dependencies = {}] \in Change
  BY DEF Change, Levels
<1>2. /\ [c EXCEPT !.action = @] \in Change
      /\ [c EXCEPT !.action = c.intent] \in Change
      /\ [c EXCEPT !.action = "delete"] \in Change
  BY DEF Change, Actions
<1>3. /\ [c EXCEPT !.after = c.before] \in Change
      /\ [c EXCEPT !.before = {}] \in Change
  BY DEF Change
<1> QED BY <1>1, <1>2, <1>3 DEF Reworked

\* The changes of a plan, in an order that has each of them.
AllPlaced ==
    /\ changes \in [Planned -> Change]
    /\ placed \in Seq(Planned)
    /\ Placed = Planned

LEMMA IsSequence ==
    ASSUME NEW S, NEW n \in Nat, NEW s \in [1..n -> S]
    PROVE  s \in Seq(S) /\ Len(s) = n
<1>1. s \in Seq(S)
  BY SeqDef
<1>2. Len(s) \in Nat /\ DOMAIN s = 1..Len(s)
  BY <1>1, LenProperties
<1> QED BY <1>1, <1>2

LEMMA OriginalType ==
    ASSUME AllPlaced
    PROVE  /\ original \in Seq([key : Planned, change : Change])
           /\ Len(original) = Len(placed) /\ DOMAIN original = DOMAIN placed
           /\ \A i \in DOMAIN placed :
                original[i] = [key |-> placed[i], change |-> changes[placed[i]]]
<1>1. /\ DOMAIN original = DOMAIN placed
      /\ \A i \in DOMAIN placed :
            original[i] = [key |-> placed[i], change |-> changes[placed[i]]]
  BY DEF original
<1>2. \A i \in DOMAIN placed : original[i] \in [key : Planned, change : Change]
  BY <1>1 DEF AllPlaced
<1>3. DOMAIN placed = 1..Len(placed) /\ Len(placed) \in Nat
  BY DEF AllPlaced
<1>4. original \in [1..Len(placed) -> [key : Planned, change : Change]]
  BY <1>1, <1>2, <1>3 DEF original
<1> HIDE DEF original
<1>5. original \in Seq([key : Planned, change : Change]) /\ Len(original) = Len(placed)
  BY <1>3, <1>4, IsSequence
<1> QED BY <1>1, <1>5

LEMMA FrontProperties ==
    ASSUME NEW S, NEW s \in Seq(S), s # <<>>
    PROVE  /\ Front(s) \in Seq(S)
           /\ Len(Front(s)) = Len(s) - 1
           /\ \A i \in 1..(Len(s) - 1) : Front(s)[i] = s[i]
<1>1. Len(s) \in Nat /\ Len(s) > 0
  <2>1. Len(s) \in Nat \ {0}
    BY EmptySeq
  <2> QED BY <2>1
<1>2. \A i \in 1..(Len(s) - 1) : s[i] \in S
  BY <1>1, ElementOfSeq
<1> DEFINE n == Len(s) - 1
<1>3. n \in Int /\ n >= 0 /\ 1 \in Int
  BY <1>1
<1>4. n - 1 + 1 = n /\ \A i \in Int : 1 + i - 1 = i
  BY <1>3
<1>5. SubSeq(s, 1, n) \in Seq(S)
  BY <1>2, <1>3, SubSeqProperties
<1>6. Len(SubSeq(s, 1, n)) = n
  <2>1. Len(SubSeq(s, 1, n)) = IF 1 <= n THEN n - 1 + 1 ELSE 0
    BY <1>2, <1>3, SubSeqProperties
  <2> HIDE DEF n
  <2>2. CASE 1 <= n
    BY <1>4, <2>1, <2>2
  <2>3. CASE n = 0
    BY <2>1, <2>3
  <2> QED BY <1>3, <2>2, <2>3
<1>7. \A i \in 1..n : SubSeq(s, 1, n)[i] = s[i]
  BY <1>1, <1>2, <1>3
<1> QED BY <1>5, <1>6, <1>7 DEF Front

\* A list of changes a provider may answer with is one.
LEMMA AnswerType ==
    ASSUME AllPlaced, NEW refined \in Answers, Len(refined) = Len(original)
    PROVE  \A i \in DOMAIN original : refined[i].change \in Change
<1>1. /\ original \in Seq([key : Planned, change : Change])
      /\ DOMAIN original = 1..Len(original) /\ Len(original) \in Nat
      /\ \A j \in DOMAIN original : original[j] \in [key : Planned, change : Change]
  BY OriginalType, LenProperties, ElementOfSeq
<1>2. ASSUME NEW i \in DOMAIN original, NEW c \in Reworked(original[i].change),
             refined = [original EXCEPT ![i].change = c]
      PROVE  \A j \in DOMAIN original : refined[j].change \in Change
  <2>1. original[i] \in [key : Planned, change : Change]
    BY <1>1
  <2>2. c \in Change
    BY <2>1, ReworkedType
  <2>3. ASSUME NEW j \in DOMAIN original PROVE refined[j].change \in Change
    <3>1. original[j] \in [key : Planned, change : Change]
      BY <1>1
    <3>2. CASE j = i
      <4>1. refined[j] = [original[i] EXCEPT !.change = c]
        BY <1>1, <1>2, <3>2
      <4> QED BY <4>1, <2>1, <2>2
    <3>3. CASE j # i
      <4>1. refined[j] = original[j]
        BY <1>1, <1>2, <3>3
      <4> QED BY <4>1, <3>1
    <3> QED BY <3>2, <3>3
  <2> QED BY <2>3
<1>3. ASSUME refined = Reverse(original)
      PROVE  \A j \in DOMAIN original : refined[j].change \in Change
  <2>1. ASSUME NEW j \in DOMAIN original PROVE refined[j].change \in Change
    <3>1. Len(original) - j + 1 \in DOMAIN original
      BY <1>1
    <3>2. refined[j] = original[Len(original) - j + 1]
      BY <1>1, <1>3 DEF Reverse
    <3>3. original[Len(original) - j + 1] \in [key : Planned, change : Change]
      BY <1>1, <3>1
    <3> QED BY <3>2, <3>3
  <2> QED BY <2>1
<1>4. ASSUME refined = Front(original), original # <<>> PROVE FALSE
  <2>1. Len(original) > 0
    BY <1>1, <1>4, EmptySeq
  <2>2. Len(refined) = Len(original) - 1
    BY <1>1, <1>4, FrontProperties
  <2> QED BY <1>1, <2>2
<1>5. \/ \E i \in DOMAIN original : \E c \in Reworked(original[i].change) :
            refined = [original EXCEPT ![i].change = c]
      \/ refined = Reverse(original)
      \/ refined = Front(original) /\ original # <<>>
  <2> DEFINE one == {{[original EXCEPT ![i].change = c] : c \in Reworked(original[i].change)} :
                       i \in DOMAIN original}
  <2>1. \/ refined \in UNION one
        \/ refined = Reverse(original)
        \/ refined = Front(original) /\ original # <<>>
    BY DEF Answers
  <2>2. ASSUME refined \in UNION one
        PROVE  \E i \in DOMAIN original : \E c \in Reworked(original[i].change) :
                  refined = [original EXCEPT ![i].change = c]
    BY <2>2
  <2> QED BY <2>1, <2>2
<1> QED BY <1>2, <1>3, <1>4, <1>5

\* A refinement that passes leaves to each change all but its risk, its fields
\* and its being reversible or destructive.
LEMMA RefinedType ==
    ASSUME AllPlaced, NEW refined \in Answers, assertRefinement(refined), NEW k \in Planned
    PROVE  LET c == refined[CHOOSE i \in DOMAIN placed : placed[i] = k].change
           IN  /\ c \in Change
               /\ SameChange(c, changes[k])
               /\ c.action = changes[k].action
<1> DEFINE i == CHOOSE i \in DOMAIN placed : placed[i] = k
<1>1. i \in DOMAIN placed /\ placed[i] = k
  BY DEF AllPlaced, Placed, Range
<1>2. /\ DOMAIN original = DOMAIN placed
      /\ original[i] = [key |-> k, change |-> changes[k]]
  BY <1>1, OriginalType
<1>3. refined[i].change \in Change
  BY <1>1, <1>2, AnswerType DEF assertRefinement
<1>4. protectedFields(refined[i]) = protectedFields(original[i])
  BY <1>1, <1>2 DEF assertRefinement
<1>5. /\ SameChange(refined[i].change, changes[k])
      /\ refined[i].change.action = changes[k].action
  BY <1>2, <1>4 DEF protectedFields, SameChange
<1> QED BY <1>3, <1>5

\* The judgement blocks changes and sets their risk, and what is owned
\* elsewhere it blocks.
LEMMA JudgedType ==
    ASSUME changes \in [Planned -> Change]
    PROVE  /\ judged \in [Planned -> Change]
           /\ \A k \in Planned :
                /\ SameChange(judged[k], changes[k])
                /\ judged[k].destructive = changes[k].destructive
                /\ judged[k].action \in {changes[k].action, "blocked"}
                /\ ~Effective(changes[k]) => judged[k].action = changes[k].action
                /\ k \in input.conflicts => ~Effective(judged[k])
<1> DEFINE risked == withChangeRisk(changes, input.environment)
           level(k) == riskLevelFromScore(scoreChange(k, changes[k], input.environment))
<1>1. \A k : level(k) \in Levels
  BY DEF riskLevelFromScore, Levels
<1>2. /\ DOMAIN risked = Planned
      /\ \A k \in Planned : risked[k] = [changes[k] EXCEPT !.estimatedRisk = level(k)]
  BY DEF withChangeRisk, Planned
<1> HIDE DEF risked, level
<1>3. ASSUME NEW k \in Planned
      PROVE  /\ risked[k] \in Change
             /\ SameChange(risked[k], changes[k])
             /\ risked[k].destructive = changes[k].destructive
             /\ risked[k].action = changes[k].action
  <2>1. changes[k] \in Change
    OBVIOUS
  <2> QED BY <1>1, <1>2, <2>1 DEF Change, SameChange
<1>4. /\ DOMAIN judged = Planned
      /\ judged = [k \in Planned |-> judged[k]]
      /\ \A k \in Planned :
           judged[k] = IF k \in input.conflicts /\ Effective(risked[k])
                       THEN [risked[k] EXCEPT !.action = "blocked"] ELSE risked[k]
  BY <1>2 DEF judged, blockConflicted, risked
<1>5. ASSUME NEW k \in Planned
      PROVE  /\ judged[k] \in Change
             /\ SameChange(judged[k], changes[k])
             /\ judged[k].destructive = changes[k].destructive
             /\ judged[k].action \in {changes[k].action, "blocked"}
             /\ ~Effective(changes[k]) => judged[k].action = changes[k].action
             /\ k \in input.conflicts => ~Effective(judged[k])
  <2>1. CASE k \in input.conflicts /\ Effective(risked[k])
    <3>1. judged[k] = [risked[k] EXCEPT !.action = "blocked"]
      BY <1>4, <2>1
    <3>2. judged[k] \in Change /\ judged[k].action = "blocked"
      BY <1>3, <3>1 DEF Change, Actions
    <3>3. /\ SameChange(judged[k], risked[k])
          /\ judged[k].destructive = risked[k].destructive
      BY <1>3, <3>1 DEF Change, SameChange
    <3>4. SameChange(judged[k], changes[k]) /\ judged[k].destructive = changes[k].destructive
      BY <1>3, <3>3 DEF SameChange
    <3>5. Effective(changes[k])
      BY <1>3, <2>1 DEF Effective
    <3>6. ~Effective(judged[k])
      BY <3>2 DEF Effective
    <3> QED BY <3>2, <3>4, <3>5, <3>6
  <2>2. CASE ~(k \in input.conflicts /\ Effective(risked[k]))
    BY <1>3, <1>4, <2>2
  <2> QED BY <2>1, <2>2
<1> QED BY <1>4, <1>5

-----------------------------------------------------------------------------
(***************************************************************************)
(* Types and the diff.  That a write finds a declared resource to put      *)
(* rests on the plan being the diff, so the two are proved as one.         *)
(***************************************************************************)
TypeInv ==
    /\ IsCase(input)
    /\ pc \in {"asked", "order", "cycle", "refine", "judge", "refused", "apply",
              "verified", "failed"}
    /\ Planned \subseteq Keys
    /\ changes \in [Planned -> Change]
    /\ placed \in Seq(Planned) /\ stack \in Seq(Planned)
    /\ finished \subseteq Planned
    /\ pc = "asked" => placed = <<>> /\ stack = <<>> /\ finished = {}
    /\ OrderKnown => Placed = Planned
    /\ IsProjection(world)

\* After the diff, and as long as the plan is not refused, the changes are
\* those of the diff.
DiffInv ==
    pc \notin {"asked", "failed"} =>
        /\ Planned = DOMAIN computed
        /\ \A k \in Planned :
             /\ SameChange(changes[k], computed[k])
             /\ changes[k].action \in {computed[k].action, "blocked"}

TypedDiff == TypeInv /\ DiffInv

LEMMA InitTyped == Init => TypedDiff
<1> SUFFICES ASSUME Init PROVE TypedDiff
  OBVIOUS
<1>1. IsCase(input)
  BY CaseKnown
<1>2. Planned = {} /\ changes \in [Planned -> Change]
  BY DEF Init, Planned
<1>3. <<>> \in Seq(Planned)
  BY EmptySeq
<1>4. IsProjection(world)
  BY <1>1 DEF Init, IsCase
<1> QED BY <1>1, <1>2, <1>3, <1>4 DEF Init, TypedDiff, TypeInv, DiffInv, OrderKnown

\* A change to be made that is no delete is of a declared resource.
LEMMA PutIsDeclared ==
    ASSUME TypedDiff, pc = "apply", NEW k \in Planned,
           Effective(changes[k]), changes[k].action # "delete"
    PROVE  k \in DOMAIN input.desired
<1>1. /\ k \in DOMAIN input.desired \cup DOMAIN input.current
      /\ computed[k] = toPlanChange(input.desired, input.current, options, k)
  BY ComputedType DEF TypedDiff, TypeInv, DiffInv
<1>2. changes[k].action = computed[k].action /\ computed[k].action \notin {"blocked", "delete"}
  BY DEF TypedDiff, DiffInv, Effective
<1>3. computed[k].action = intent(input.desired, input.current, k)
  BY <1>1, <1>2 DEF toPlanChange
<1> QED BY <1>1, <1>2, <1>3 DEF intent

\* A failure leaves everything but the answer.
LEMMA FailTyped ==
    ASSUME TypedDiff, pc' = "failed", pc # "asked",
           UNCHANGED <<input, changes, placed, stack, finished, world>>
    PROVE  TypedDiff'
BY DEF TypedDiff, TypeInv, DiffInv, OrderKnown, Planned

\* So does a step of the run that writes nothing.
LEMMA SameTyped ==
    ASSUME TypedDiff, UNCHANGED <<input, pc, changes, placed, stack, finished>>,
           IsProjection(world')
    PROVE  TypedDiff'
<1>1. computed' = computed
  BY ComputedStays
<1> QED BY <1>1 DEF TypedDiff, TypeInv, DiffInv, OrderKnown, Planned, Placed

LEMMA NextTyped == TypedDiff /\ [Next]_vars => TypedDiff'
<1> SUFFICES ASSUME TypedDiff, [Next]_vars PROVE TypedDiff'
  OBVIOUS
<1> USE DEF TypedDiff
<1>0. ASSUME input' = input PROVE computed' = computed
  BY <1>0, ComputedStays
<1>1. ASSUME pc = "asked", pc' = "failed",
             UNCHANGED <<input, changes, placed, stack, finished, world>>
      PROVE  TypedDiff'
  BY <1>1 DEF TypeInv, DiffInv, OrderKnown, Planned
<1>2. CASE RefuseOptions
  BY <1>1, <1>2 DEF RefuseOptions, fail
<1>3. CASE RefuseDocument
  BY <1>1, <1>3 DEF RefuseDocument, Accepted, fail
<1>4. CASE RefuseResources
  BY <1>1, <1>4 DEF RefuseResources, Prepared, Accepted, fail
<1>5. CASE RefuseSize
  BY <1>1, <1>5 DEF RefuseSize, Prepared, Accepted, fail
<1>6. CASE Compute
  <2>1. pc = "asked" /\ pc' = "order" /\ changes' = computed /\ input' = input
    BY <1>6 DEF Compute, Prepared, Accepted
  <2>2. Planned' = DOMAIN computed /\ Planned' \subseteq Keys /\ computed' = computed
    BY <1>0, <2>1, ComputedType DEF Planned, TypeInv
  <2>3. changes' \in [Planned' -> Change]
    <3>1. computed = [k \in DOMAIN computed |-> computed[k]]
      BY DEF computed, computeChanges
    <3> QED BY <2>1, <2>2, <3>1, ComputedType DEF TypeInv
  <2>4. <<>> \in Seq(Planned')
    BY EmptySeq
  <2>5. placed' = <<>> /\ stack' = <<>> /\ finished' = {} /\ world' = world
    BY <1>6, <2>1 DEF Compute, TypeInv
  <2>6. DiffInv'
    BY <2>1, <2>2 DEF DiffInv, SameChange
  <2> QED BY <2>1, <2>2, <2>3, <2>4, <2>5, <2>6 DEF TypeInv, OrderKnown
<1>7. ASSUME NEW k \in Planned, Place(k) PROVE TypedDiff'
  <2>1. placed' \in Seq(Planned)
    BY <1>7, AppendProperties DEF Place, TypeInv
  <2> QED BY <1>0, <1>7, <2>1 DEF Place, TypeInv, DiffInv, OrderKnown, Planned
<1>8. CASE Ordered
  BY <1>0, <1>8 DEF Ordered, TypeInv, DiffInv, OrderKnown, Planned, Placed
<1>9. CASE Stuck
  BY <1>0, <1>9 DEF Stuck, TypeInv, DiffInv, OrderKnown, Planned
<1>10. ASSUME NEW k \in Planned, VisitRoot(k) PROVE TypedDiff'
  <2>1. <<k>> \in Seq(Planned)
    OBVIOUS
  <2> QED BY <1>0, <1>10, <2>1 DEF VisitRoot, TypeInv, DiffInv, OrderKnown, Planned
<1>11. ASSUME NEW k \in Planned, VisitDependency(k) PROVE TypedDiff'
  <2>1. stack' \in Seq(Planned)
    BY <1>11, AppendProperties DEF VisitDependency, TypeInv
  <2> QED BY <1>0, <1>11, <2>1 DEF VisitDependency, TypeInv, DiffInv, OrderKnown, Planned
<1>12. ASSUME NEW k \in Planned, MeetAgain(k) PROVE TypedDiff'
  BY <1>12, FailTyped DEF MeetAgain, fail
<1>13. CASE Leave
  <2>1. stack \in Seq(Planned) /\ stack # <<>>
    BY <1>13 DEF Leave, TypeInv
  <2>2. Len(stack) \in 1..Len(stack)
    <3>1. Len(stack) \in Nat \ {0}
      BY <2>1, EmptySeq
    <3> QED BY <3>1
  <2>3. Last(stack) \in Planned
    BY <2>1, <2>2, ElementOfSeq DEF Last
  <2>4. stack' \in Seq(Planned)
    BY <1>13, <2>1, FrontProperties DEF Leave
  <2> QED BY <1>0, <1>13, <2>3, <2>4 DEF Leave, TypeInv, DiffInv, OrderKnown, Planned
<1>14. CASE NoHook
  BY <1>0, <1>14 DEF NoHook, TypeInv, DiffInv, OrderKnown, Planned, Placed
<1>15. ASSUME NEW refined \in Answers, Refine(refined) PROVE TypedDiff'
  <2>1. AllPlaced /\ assertRefinement(refined)
    BY <1>15 DEF Refine, TypeInv, OrderKnown, AllPlaced
  <2>2. /\ Planned' = Planned
        /\ changes' = [k \in Planned |-> changes'[k]]
        /\ \A k \in Planned :
              changes'[k] = refined[CHOOSE i \in DOMAIN placed : placed[i] = k].change
    BY <1>15 DEF Refine, Planned
  <2>3. \A k \in Planned : /\ changes'[k] \in Change
                           /\ SameChange(changes'[k], changes[k])
                           /\ changes'[k].action = changes[k].action
    <3> TAKE k \in Planned
    <3> DEFINE c == refined[CHOOSE i \in DOMAIN placed : placed[i] = k].change
    <3>1. c \in Change /\ SameChange(c, changes[k]) /\ c.action = changes[k].action
      BY <2>1, RefinedType
    <3>2. changes'[k] = c
      BY <2>2
    <3> HIDE DEF c
    <3> QED BY <3>1, <3>2
  <2>4. DiffInv'
    <3>1. pc = "refine" /\ pc' = "judge" /\ computed' = computed
      BY <1>0, <1>15 DEF Refine
    <3>2. /\ Planned = DOMAIN computed
          /\ \A k \in Planned : /\ SameChange(changes[k], computed[k])
                                /\ changes[k].action \in {computed[k].action, "blocked"}
      BY <3>1 DEF DiffInv
    <3>3. \A k \in Planned : /\ SameChange(changes'[k], computed[k])
                             /\ changes'[k].action \in {computed[k].action, "blocked"}
      BY <2>3, <3>2 DEF SameChange
    <3> QED BY <2>2, <3>1, <3>2, <3>3 DEF DiffInv, SameChange
  <2>5. changes' \in [Planned' -> Change]
    BY <2>2, <2>3
  <2> QED BY <1>15, <2>2, <2>4, <2>5 DEF Refine, TypeInv, OrderKnown, Placed
<1>16. ASSUME NEW refined \in Answers, RejectRefinement(refined) PROVE TypedDiff'
  BY <1>16, FailTyped DEF RejectRefinement, fail
<1>17. CASE Judge
  <2>1. /\ judged \in [Planned -> Change]
        /\ \A k \in Planned : /\ SameChange(judged[k], changes[k])
                              /\ judged[k].action \in {changes[k].action, "blocked"}
    BY JudgedType DEF TypeInv
  <2>2. changes' = judged /\ Planned' = Planned
    BY <1>17, <2>1 DEF Judge, Planned
  <2>3. pc = "judge" /\ pc' \in {"apply", "refused"} /\ input' = input
    BY <1>17 DEF Judge
  <2>4. DiffInv'
    <3>1. ASSUME NEW k \in Planned
          PROVE  /\ SameChange(changes'[k], computed[k])
                 /\ changes'[k].action \in {computed[k].action, "blocked"}
      <4>1. /\ SameChange(changes[k], computed[k])
            /\ changes[k].action \in {computed[k].action, "blocked"}
        BY <2>3 DEF DiffInv
      <4>2. /\ SameChange(judged[k], changes[k])
            /\ judged[k].action \in {changes[k].action, "blocked"}
        BY <2>1
      <4> QED BY <2>2, <4>1, <4>2 DEF SameChange
    <3> QED BY <1>0, <2>2, <2>3, <3>1 DEF DiffInv
  <2>5. changes' \in [Planned' -> Change]
    BY <2>1, <2>2
  <2> QED BY <1>17, <2>2, <2>3, <2>4, <2>5 DEF Judge, TypeInv, OrderKnown, Placed
<1>18. ASSUME NEW k \in Planned, PassOver(k) \/ ProviderFails(k) PROVE TypedDiff'
  BY <1>18, SameTyped DEF PassOver, ProviderFails, Settle, TypeInv
<1>19. ASSUME NEW k \in Planned, Put(k) PROVE TypedDiff'
  <2>1. pc = "apply" /\ Effective(changes[k]) /\ changes[k].action # "delete"
    BY <1>19 DEF Put, Settle, met
  <2>2. k \in DOMAIN input.desired
    BY <2>1, PutIsDeclared
  <2>3. IsProjection(input.desired) /\ IsProjection(world)
    BY DEF TypeInv, IsCase
  <2>4. IsProjection(world')
    BY <1>19, <2>2, <2>3 DEF Put, IsProjection
  <2> QED BY <1>19, <2>4, SameTyped DEF Put, Settle
<1>20. ASSUME NEW k \in Planned, Delete(k) PROVE TypedDiff'
  <2>1. IsProjection(world')
    BY <1>20 DEF Delete, TypeInv, IsProjection
  <2> QED BY <1>20, <2>1, SameTyped DEF Delete, Settle
<1>21. CASE Verify
  BY <1>0, <1>21 DEF Verify, TypeInv, DiffInv, OrderKnown, Planned, Placed
<1>22. CASE UNCHANGED vars
  BY <1>22, SameTyped DEF vars, TypeInv
<1> QED BY <1>2, <1>3, <1>4, <1>5, <1>6, <1>7, <1>8, <1>9, <1>10, <1>11, <1>12, <1>13,
           <1>14, <1>15, <1>16, <1>17, <1>18, <1>19, <1>20, <1>21, <1>22 DEF Next, Ended

LEMMA TypedAlways == Spec => []TypedDiff
BY InitTyped, NextTyped, PTL DEF Spec

\* The plan that is made, whatever is asked and whatever the provider answers,
\* is well formed, and so is the world it is applied to.
THEOREM TypeCorrect == Spec => []TypeOK
<1>1. TypedDiff => TypeOK
  <2> SUFFICES ASSUME TypedDiff PROVE TypeOK
    OBVIOUS
  <2>1. \A k \in Planned : IsChange(changes[k])
    BY ChangeIsChange DEF TypedDiff, TypeInv
  <2>2. placed \in Seq(Keys) /\ stack \in Seq(Keys) /\ finished \subseteq Keys
    BY SeqMonotonic DEF TypedDiff, TypeInv
  <2> QED BY <2>1, <2>2 DEF TypedDiff, TypeInv, TypeOK, Planned
<1> QED BY <1>1, TypedAlways, PTL

-----------------------------------------------------------------------------
(***************************************************************************)
(* The world                                                               *)
(***************************************************************************)
Running == {"apply", "verified"}

\* What a step can do to the world and to a plan that is being run.
LEMMA StepKinds ==
    ASSUME [Next]_vars
    PROVE  \/ pc \notin Running /\ pc' \notin Running /\ UNCHANGED <<input, world>>
           \/ Judge
           \/ pc \in Running /\ pc' \in Running /\ UNCHANGED <<input, changes, world>>
           \/ \E k \in Planned : Put(k) \/ Delete(k)
<1>1. CASE RefuseOptions \/ RefuseDocument \/ RefuseResources \/ RefuseSize \/ Compute
  BY <1>1 DEF RefuseOptions, RefuseDocument, RefuseResources, RefuseSize, Compute, Prepared,
              Accepted, fail, Running
<1>2. ASSUME NEW k \in Planned,
             Place(k) \/ VisitRoot(k) \/ VisitDependency(k) \/ MeetAgain(k)
      PROVE  pc \notin Running /\ pc' \notin Running /\ UNCHANGED <<input, world>>
  BY <1>2 DEF Place, VisitRoot, VisitDependency, MeetAgain, fail, Running
<1>3. CASE Ordered \/ Stuck \/ Leave \/ NoHook
  BY <1>3 DEF Ordered, Stuck, Leave, NoHook, Running
<1>4. ASSUME NEW refined \in Answers, Refine(refined) \/ RejectRefinement(refined)
      PROVE  pc \notin Running /\ pc' \notin Running /\ UNCHANGED <<input, world>>
  BY <1>4 DEF Refine, RejectRefinement, fail, Running
<1>5. ASSUME NEW k \in Planned, PassOver(k) \/ ProviderFails(k)
      PROVE  pc \in Running /\ pc' \in Running /\ UNCHANGED <<input, changes, world>>
  BY <1>5 DEF PassOver, ProviderFails, Settle, Running
<1>6. CASE Verify
  BY <1>6 DEF Verify, Running
<1>7. CASE UNCHANGED vars
  BY <1>7 DEF vars
<1> QED BY <1>1, <1>2, <1>3, <1>4, <1>5, <1>6, <1>7 DEF Next, Ended

\* A write concerns the resource of its change and no other.
LEMMA WriteIsLocal ==
    ASSUME NEW k \in Planned, Put(k) \/ Delete(k), NEW j, j # k
    PROVE  /\ j \in DOMAIN world' <=> j \in DOMAIN world
           /\ j \in DOMAIN world => world'[j] = world[j]
BY DEF Put, Delete

\* Nobody has written before the run, and what is owned elsewhere has no change
\* that would be.
OwnedInv ==
    /\ pc \notin Running => world = input.current
    /\ pc \in Running => \A k \in input.conflicts \cap Planned : ~Effective(changes[k])
    /\ \A k \in input.conflicts : attributes(world, k) = attributes(input.current, k)

LEMMA InitOwned == Init => OwnedInv
BY DEF Init, OwnedInv, Running

LEMMA NextOwned == TypedDiff /\ OwnedInv /\ [Next]_vars => OwnedInv'
<1> SUFFICES ASSUME TypedDiff, OwnedInv, [Next]_vars PROVE OwnedInv'
  OBVIOUS
<1>1. ASSUME pc \notin Running, pc' \notin Running, UNCHANGED <<input, world>>
      PROVE  OwnedInv'
  BY <1>1 DEF OwnedInv
<1>2. CASE Judge
  <2>1. changes' = judged /\ Planned' = Planned /\ UNCHANGED <<input, world>> /\ pc \notin Running
    BY <1>2, JudgedType DEF Judge, Planned, Running, TypedDiff, TypeInv
  <2>2. world' = input'.current
    BY <2>1 DEF OwnedInv
  <2>3. \A k \in input.conflicts \cap Planned : ~Effective(judged[k])
    BY JudgedType DEF TypedDiff, TypeInv
  <2> QED BY <2>1, <2>2, <2>3 DEF OwnedInv
<1>3. ASSUME pc \in Running, pc' \in Running, UNCHANGED <<input, changes, world>>
      PROVE  OwnedInv'
  BY <1>3 DEF OwnedInv, Planned
<1>4. ASSUME NEW k \in Planned, Put(k) \/ Delete(k) PROVE OwnedInv'
  <2>1. pc = "apply" /\ Effective(changes[k]) /\ UNCHANGED <<input, pc, changes>>
    BY <1>4 DEF Put, Delete, Settle, met
  <2>2. k \notin input.conflicts
    BY <2>1 DEF OwnedInv, Running
  <2>3. ASSUME NEW j \in input.conflicts
        PROVE  attributes(world', j) = attributes(input.current, j)
    <3>1. DOMAIN world' \cap {j} = DOMAIN world \cap {j}
      BY <1>4, <2>2, WriteIsLocal
    <3>2. \A i \in DOMAIN world \cap {j} : world'[i] = world[i]
      BY <1>4, <2>2, WriteIsLocal
    <3>3. attributes(world', j) = attributes(world, j)
      BY <3>1, <3>2 DEF attributes
    <3> QED BY <3>3 DEF OwnedInv
  <2> QED BY <2>1, <2>3 DEF OwnedInv, Planned, Running
<1> QED BY <1>1, <1>2, <1>3, <1>4, StepKinds

LEMMA OwnedAlways == Spec => []OwnedInv
<1>1. Init /\ [][Next]_vars /\ []TypedDiff => []OwnedInv
  BY InitOwned, NextOwned, PTL
<1> QED BY <1>1, TypedAlways, PTL DEF Spec

\* No provider turns a plan into another: what is run is the diff, less what is
\* blocked; and no run touches what another document owns.
THEOREM PlanIsTheDiffAlways == Spec => []PlanIsTheDiff
<1>1. TypedDiff /\ OwnedInv => PlanIsTheDiff
  BY DEF TypedDiff, DiffInv, SameChange, OwnedInv, PlanIsTheDiff
<1> QED BY <1>1, TypedAlways, OwnedAlways, PTL

-----------------------------------------------------------------------------
(***************************************************************************)
(* The baseline policy                                                     *)
(***************************************************************************)
Baseline == Has(blockDelete) /\ Has(blockReplace)

\* A plan the two rules let through has nothing to delete or to replace.
LEMMA BaselineDenies ==
    ASSUME IsCase(input), Planned \subseteq Keys, Baseline,
           NEW final \in [Planned -> Change],
           allowed(input.bundle, final, input.environment)
    PROVE  \A k \in Planned : final[k].action \notin {"delete", "replace"}
<1>1. ASSUME NEW rule \in {blockDelete, blockReplace}, NEW k \in Planned,
             Has(rule), final[k].action \in rule.actions \cap {"delete", "replace"}
      PROVE  FALSE
  <2>1. PICK i \in DOMAIN input.bundle : input.bundle[i] = rule
    BY <1>1 DEF Has
  <2>2. /\ rule.effect = "deny" /\ rule.environments = Environments /\ rule.types = Types
        /\ rule.risks = Levels /\ rule.destructive = BOOLEAN /\ rule.anyPath = TRUE
        /\ rule.constrained = FALSE
    BY DEF blockDelete, blockReplace, baselineRule
  <2>3. final[k] \in Change
    OBVIOUS
  <2>4. TypeOf[k] \in Types
    BY KeysAssumption
  <2>5. conditionMatchesChange(rule, k, final[k])
    BY <1>1, <2>2, <2>3, <2>4 DEF conditionMatchesChange, Change
  <2>6. k \in matches(rule, final)
    BY <1>1, <2>5 DEF matches, effectiveChanges, Effective
  <2>7. evaluateRule(rule, final, input.environment)
    BY <2>2, <2>6 DEF evaluateRule, conditionMatchesContext, IsCase
  <2>8. i \in deciding(input.bundle, final, input.environment)
    BY <2>1, <2>7 DEF deciding
  <2> QED BY <2>1, <2>2, <2>8 DEF allowed
<1>2. "delete" \in blockDelete.actions /\ "replace" \in blockReplace.actions
  BY DEF blockDelete, blockReplace, baselineRule
<1> QED BY <1>1, <1>2 DEF Baseline

\* An update the diff wants leaves the immutable fields as they are.
LEMMA UpdateKeepsFixed ==
    ASSUME IsCase(input), NEW k \in DOMAIN input.desired \cap DOMAIN input.current,
           intent(input.desired, input.current, k) \in {"update", "noop"},
           NEW p \in definition(k).immutable,
           p \in DOMAIN input.current[k].attributes \cap DOMAIN input.desired[k].attributes
    PROVE  input.desired[k].attributes[p] = input.current[k].attributes[p]
<1> DEFINE b == input.current[k].attributes
           a == input.desired[k].attributes
<1>1. IsLeaves(a) /\ IsLeaves(b)
  BY DEF IsCase, IsProjection, IsResource
<1>2. SUFFICES ASSUME a[p] # b[p] PROVE FALSE
  OBVIOUS
<1>3. p \in differing(b, a)
  BY <1>2 DEF differing, at
<1>4. \A q \in differing(b, a) : <<p, q>> \notin Inside
  BY <1>1 DEF differing, IsLeaves
<1>5. p \in fieldDiffs(b, a)
  BY <1>3, <1>4 DEF fieldDiffs
<1>6. p \in immutableDiffs(k, b, a) /\ fields(input.desired, input.current, k) # {}
  BY <1>5 DEF immutableDiffs, fields
<1>7. intent(input.desired, input.current, k) = "replace"
  BY <1>6 DEF intent
<1> QED BY <1>7

KeptInv ==
    /\ Baseline /\ pc \in Running =>
         \A k \in Planned : changes[k].action \notin {"delete", "replace"}
    /\ NothingIsDestroyed

LEMMA BaselineStays == input' = input => Baseline' = Baseline
BY DEF Baseline, Has

LEMMA StartIsKept == world = input.current => NothingIsDestroyed
BY DEF NothingIsDestroyed

LEMMA InitKept == Init => KeptInv
BY StartIsKept DEF Init, KeptInv, Running

LEMMA NextKept == TypedDiff /\ OwnedInv /\ KeptInv /\ [Next]_vars => KeptInv'
<1> SUFFICES ASSUME TypedDiff, OwnedInv, KeptInv, [Next]_vars PROVE KeptInv'
  OBVIOUS
<1>1. ASSUME pc' \notin Running, UNCHANGED <<input, world>> PROVE KeptInv'
  BY <1>1, BaselineStays DEF KeptInv, NothingIsDestroyed, Baseline, Has
<1>2. CASE Judge
  <2>1. changes' = judged /\ Planned' = Planned /\ UNCHANGED <<input, world>>
    BY <1>2, JudgedType DEF Judge, Planned, TypedDiff, TypeInv
  <2>2. NothingIsDestroyed'
    BY <2>1 DEF KeptInv, NothingIsDestroyed, Has
  <2>3. ASSUME Baseline, pc' \in Running
        PROVE  \A k \in Planned : judged[k].action \notin {"delete", "replace"}
    <3>1. judgement(judged).executable
      BY <1>2, <2>3 DEF Judge, Running
    <3>2. allowed(input.bundle, judged, input.environment)
      BY <3>1 DEF judgement
    <3>3. judged \in [Planned -> Change]
      BY JudgedType DEF TypedDiff, TypeInv
    <3> QED BY <2>3, <3>2, <3>3, BaselineDenies DEF TypedDiff, TypeInv
  <2> QED BY <2>1, <2>2, <2>3, BaselineStays DEF KeptInv
<1>3. ASSUME pc \in Running, UNCHANGED <<input, changes, world>> PROVE KeptInv'
  BY <1>3, BaselineStays DEF KeptInv, NothingIsDestroyed, Has, Planned
<1>4. ASSUME NEW k \in Planned, Put(k) \/ Delete(k) PROVE KeptInv'
  <2>1. /\ pc = "apply" /\ UNCHANGED <<input, pc, changes>>
        /\ Effective(changes[k])
        /\ Put(k) => changes[k].action # "delete"
        /\ Delete(k) => changes[k].action = "delete"
    BY <1>4 DEF Put, Delete, Settle, met
  <2>2. SUFFICES ASSUME Has(blockDelete), Has(blockReplace), NEW j \in DOMAIN input.current
                 PROVE  /\ j \in DOMAIN world'
                        /\ \A p \in definition(j).immutable :
                             p \in DOMAIN input.current[j].attributes \cap DOMAIN world'[j].attributes
                             => world'[j].attributes[p] = input.current[j].attributes[p]
    BY <2>1, BaselineStays DEF KeptInv, NothingIsDestroyed, Has, Planned
  <2>3. \A i \in Planned : changes[i].action \notin {"delete", "replace"}
    BY <2>1, <2>2 DEF KeptInv, Baseline, Running
  <2>4. Put(k) /\ changes[k].action \notin {"delete", "replace"}
    BY <1>4, <2>1, <2>3
  <2>5. CASE j # k
    BY <1>4, <2>2, <2>5, WriteIsLocal DEF KeptInv, NothingIsDestroyed
  <2>6. CASE j = k
    <3>1. world'[k] = input.desired[k] /\ k \in DOMAIN world'
      BY <2>4 DEF Put
    <3>2. k \in DOMAIN input.desired
      BY <2>1, <2>4, PutIsDeclared
    <3>3. changes[k].action = computed[k].action /\ k \in DOMAIN computed
      BY <2>1 DEF TypedDiff, DiffInv, Effective
    <3>4. computed[k] = toPlanChange(input.desired, input.current, options, k)
      BY <3>3, ComputedType DEF TypedDiff, TypeInv
    <3>5. changes[k].action = intent(input.desired, input.current, k)
      BY <2>1, <3>3, <3>4 DEF toPlanChange, Effective
    <3>6. intent(input.desired, input.current, k) \in {"update", "noop"}
      BY <2>2, <2>4, <2>6, <3>2, <3>5 DEF intent
    <3> QED BY <2>2, <2>6, <3>1, <3>2, <3>6, UpdateKeepsFixed DEF TypedDiff, TypeInv
  <2> QED BY <2>5, <2>6
<1> QED BY <1>1, <1>2, <1>3, <1>4, StepKinds

\* The baseline policy holds against every request, every option and every
\* provider: nothing disappears and no immutable field that is set changes.
THEOREM NothingIsDestroyedAlways == Spec => []NothingIsDestroyed
<1>1. Init /\ [][Next]_vars /\ []TypedDiff /\ []OwnedInv => []KeptInv
  BY InitKept, NextKept, PTL
<1>2. KeptInv => NothingIsDestroyed
  BY DEF KeptInv
<1> QED BY <1>1, <1>2, TypedAlways, OwnedAlways, PTL DEF Spec

-----------------------------------------------------------------------------
(***************************************************************************)
(* The two checks of a document, and the errors a plan can end with        *)
(***************************************************************************)
DocumentCodes ==
    {"DOCUMENT_TOO_LARGE", "DOCUMENT_TOO_DEEP", "UNKNOWN_KIND",
     "SCHEMA_VALIDATION_FAILED", "CONTRACT_PREDICATE_INVALID", "VALIDATION_FAILED"}

LEMMA LeastOfSix ==
    ASSUME NEW found, found \subseteq 1..6, found # {}
    PROVE  \E i \in found : \A j \in found : i <= j
<1>1. ASSUME NEW n \in 1..6, n \in found, \A j \in 1..6 : j < n => j \notin found
      PROVE  \E i \in found : \A j \in found : i <= j
  BY <1>1
<1>2. \A j \in 1..6 : j = 1 \/ j = 2 \/ j = 3 \/ j = 4 \/ j = 5 \/ j = 6
  OBVIOUS
<1>3. \/ 1 \in found
      \/ 1 \notin found /\ 2 \in found
      \/ 1 \notin found /\ 2 \notin found /\ 3 \in found
      \/ 1 \notin found /\ 2 \notin found /\ 3 \notin found /\ 4 \in found
      \/ 1 \notin found /\ 2 \notin found /\ 3 \notin found /\ 4 \notin found /\ 5 \in found
      \/ 1 \notin found /\ 2 \notin found /\ 3 \notin found /\ 4 \notin found /\ 5 \notin found
         /\ 6 \in found
  BY <1>2
<1> QED BY <1>1, <1>2, <1>3

\* The stages of a check find something exactly when one of them does, and
\* then it is what that one finds.
LEMMA FirstOf ==
    ASSUME NEW stages, DOMAIN stages \subseteq 1..6
    PROVE  /\ firstOf(stages) = {} <=> \A i \in DOMAIN stages : stages[i] = {}
           /\ firstOf(stages) # {} => \E i \in DOMAIN stages : firstOf(stages) = stages[i]
<1> DEFINE found == {i \in DOMAIN stages : stages[i] # {}}
<1>1. CASE found = {}
  BY <1>1 DEF firstOf
<1>2. CASE found # {}
  <2> DEFINE first == CHOOSE i \in found : \A j \in found : i <= j
  <2>1. first \in found
    <3>1. \E i \in found : \A j \in found : i <= j
      BY <1>2, LeastOfSix
    <3> QED BY <3>1
  <2>2. firstOf(stages) = stages[first]
    BY <1>2 DEF firstOf
  <2> HIDE DEF first
  <2> QED BY <2>1, <2>2
<1> QED BY <1>1, <1>2

LEMMA PrepareStages ==
    ASSUME NEW d
    PROVE  /\ prepare(d) = {} <=> /\ envelope(d) = {} /\ assertDocumentLimits(d) = {}
                                  /\ kind(d) = {} /\ specResult(d) = {}
                                  /\ validateContract(d) = {} /\ providerResult(d) = {}
           /\ prepare(d) \subseteq DocumentCodes
<1> DEFINE stages == <<envelope(d), assertDocumentLimits(d), kind(d), specResult(d),
                       validateContract(d), providerResult(d)>>
<1>1. /\ DOMAIN stages = 1..6 /\ prepare(d) = firstOf(stages)
      /\ stages[1] = envelope(d) /\ stages[2] = assertDocumentLimits(d)
      /\ stages[3] = kind(d) /\ stages[4] = specResult(d)
      /\ stages[5] = validateContract(d) /\ stages[6] = providerResult(d)
  BY DEF prepare
<1> HIDE DEF stages
<1>2. \A i \in DOMAIN stages : stages[i] \subseteq DocumentCodes
  BY <1>1 DEF envelope, assertDocumentLimits, kind, specResult, validateContract,
              providerResult, unless, DocumentCodes
<1>3. \A i \in 1..6 : i = 1 \/ i = 2 \/ i = 3 \/ i = 4 \/ i = 5 \/ i = 6
  OBVIOUS
<1>4. /\ firstOf(stages) = {} <=> \A i \in DOMAIN stages : stages[i] = {}
      /\ firstOf(stages) # {} => \E i \in DOMAIN stages : firstOf(stages) = stages[i]
  BY <1>1, FirstOf
<1>5. prepare(d) \subseteq DocumentCodes
  BY <1>1, <1>2, <1>4
<1>6. prepare(d) = {} <=> \A i \in 1..6 : stages[i] = {}
  BY <1>1, <1>4
<1> QED BY <1>1, <1>3, <1>5, <1>6

LEMMA ValidateStages ==
    ASSUME NEW d
    PROVE  /\ validate(d) = {} <=> /\ envelope(d) = {} /\ assertDocumentLimits(d) = {}
                                   /\ kind(d) = {} /\ specResult(d) = {}
                                   /\ checkSecretReferences(d) = {}
                                   /\ validateContract(d) = {} /\ providerResult(d) = {}
           /\ prepare(d) = {} => validate(d) \subseteq {"SECRET_NOT_FOUND"}
<1> DEFINE stages == <<envelope(d), assertDocumentLimits(d) \cup kind(d), specResult(d),
                       checkSecretReferences(d), providerResult(d) \cup validateContract(d)>>
<1>1. /\ DOMAIN stages = 1..5 /\ validate(d) = firstOf(stages)
      /\ stages[1] = envelope(d) /\ stages[2] = assertDocumentLimits(d) \cup kind(d)
      /\ stages[3] = specResult(d) /\ stages[4] = checkSecretReferences(d)
      /\ stages[5] = providerResult(d) \cup validateContract(d)
  BY DEF validate
<1> HIDE DEF stages
<1>2. \A i \in 1..5 : i = 1 \/ i = 2 \/ i = 3 \/ i = 4 \/ i = 5
  OBVIOUS
<1>3. /\ firstOf(stages) = {} <=> \A i \in DOMAIN stages : stages[i] = {}
      /\ firstOf(stages) # {} => \E i \in DOMAIN stages : firstOf(stages) = stages[i]
  BY <1>1, FirstOf
<1>4. validate(d) = {} <=> \A i \in 1..5 : stages[i] = {}
  BY <1>1, <1>3
<1>5. ASSUME prepare(d) = {} PROVE validate(d) \subseteq {"SECRET_NOT_FOUND"}
  <2>1. \A i \in 1..5 : stages[i] \subseteq {"SECRET_NOT_FOUND"}
    <3>1. stages[4] \subseteq {"SECRET_NOT_FOUND"}
      BY <1>1 DEF checkSecretReferences, unless
    <3>2. stages[1] = {} /\ stages[2] = {} /\ stages[3] = {} /\ stages[5] = {}
      BY <1>1, <1>5, PrepareStages
    <3> QED BY <1>2, <3>1, <3>2
  <2> QED BY <1>1, <1>3, <2>1
<1> QED BY <1>1, <1>2, <1>4, <1>5

AnswerInv ==
    /\ "error" \in DOMAIN answer
    /\ answer.error # "none" => pc = "failed"
    /\ answer.error \in DocumentCodes => prepare(input.document) # {}
    /\ pc \notin {"asked", "failed"} => prepare(input.document) = {}

LEMMA InitAnswer == Init => AnswerInv
BY DEF Init, AnswerInv, Pending, DocumentCodes

LEMMA OtherCodes ==
    {"DESTRUCTIVE_ACTION_BLOCKED", "TOO_MANY_RESOURCES", "TOO_MANY_CHANGES",
     "DEPENDENCY_CYCLE_DETECTED", "PROVIDER_ERROR", "none"} \cap DocumentCodes = {}
BY DEF DocumentCodes

LEMMA NextAnswer == AnswerInv /\ [Next]_vars => AnswerInv'
<1> SUFFICES ASSUME AnswerInv, [Next]_vars PROVE AnswerInv'
  OBVIOUS
<1>1. ASSUME NEW code, NEW cycle, fail(code, cycle), input' = input,
             code \in DocumentCodes => prepare(input.document) # {}
      PROVE  AnswerInv'
  BY <1>1 DEF fail, AnswerInv
<1>2. CASE RefuseOptions \/ RefuseResources \/ RefuseSize
  BY <1>1, <1>2, OtherCodes DEF RefuseOptions, RefuseResources, RefuseSize
<1>3. CASE RefuseDocument
  <2>1. PICK code \in prepare(input.document) : fail(code, <<>>)
    BY <1>3 DEF RefuseDocument
  <2> QED BY <1>1, <1>3, <2>1 DEF RefuseDocument
<1>4. CASE Compute
  BY <1>4 DEF Compute, Prepared, Accepted, AnswerInv
<1>5. ASSUME NEW k \in Planned, MeetAgain(k) PROVE AnswerInv'
  BY <1>1, <1>5 DEF MeetAgain, DocumentCodes
<1>6. ASSUME NEW refined \in Answers, RejectRefinement(refined) PROVE AnswerInv'
  BY <1>1, <1>6 DEF RejectRefinement, DocumentCodes
<1>7. ASSUME pc \notin {"asked", "failed"}, UNCHANGED <<input, answer>>,
             pc' \notin {"asked", "failed"}
      PROVE  AnswerInv'
  BY <1>7 DEF AnswerInv
<1>8. ASSUME NEW k \in Planned,
             \/ Place(k) \/ VisitRoot(k) \/ VisitDependency(k)
             \/ PassOver(k) \/ Put(k) \/ Delete(k) \/ ProviderFails(k)
      PROVE  AnswerInv'
  BY <1>7, <1>8 DEF Place, VisitRoot, VisitDependency, PassOver, Put, Delete, ProviderFails, Settle
<1>9. CASE Ordered \/ Stuck \/ Leave \/ NoHook
  BY <1>7, <1>9 DEF Ordered, Stuck, Leave, NoHook
<1>10. ASSUME NEW refined \in Answers, Refine(refined) PROVE AnswerInv'
  BY <1>7, <1>10 DEF Refine
<1>11. CASE Judge
  <2>1. answer' = judgement(judged) /\ input' = input /\ pc = "judge" /\ pc' # "asked"
    BY <1>11 DEF Judge
  <2>2. "error" \in DOMAIN judgement(judged) /\ judgement(judged).error = "none"
    BY DEF judgement
  <2> QED BY <2>1, <2>2 DEF AnswerInv, DocumentCodes
<1>12. CASE Verify
  <2>1. /\ pc = "apply" /\ pc' = "verified" /\ input' = input
        /\ answer' = [answer EXCEPT !.verdict = verifyDesiredState(input.desired, world)]
    BY <1>12 DEF Verify
  <2>2. "error" \in DOMAIN answer' /\ answer'.error = answer.error
    BY <2>1 DEF AnswerInv
  <2> QED BY <2>1, <2>2 DEF AnswerInv
<1>13. CASE UNCHANGED vars
  BY <1>13 DEF vars, AnswerInv
<1> QED BY <1>2, <1>3, <1>4, <1>5, <1>6, <1>8, <1>9, <1>10, <1>11, <1>12, <1>13 DEF Next, Ended

LEMMA AnswerAlways == Spec => []AnswerInv
BY InitAnswer, NextAnswer, PTL DEF Spec

\* The two handlers agree on every document: what validate accepts, plan does
\* not refuse for the document, and what plan takes, validate faults for missing
\* secrets at most.
THEOREM ValidateForetellsAlways == Spec => []ValidateForetells
<1>1. AnswerInv => ValidateForetells
  BY PrepareStages, ValidateStages DEF AnswerInv, ValidateForetells, DocumentCodes
<1> QED BY <1>1, AnswerAlways, PTL

-----------------------------------------------------------------------------
(***************************************************************************)
(* The order and the cycle                                                 *)
(***************************************************************************)
\* No key twice, and each after what it depends on.
OrderInv ==
    /\ \A i, j \in DOMAIN placed : placed[i] = placed[j] => i = j
    /\ \A i \in DOMAIN placed :
         changes[placed[i]].dependencies \subseteq {placed[j] : j \in 1..(i - 1)}

\* The calls of visit under way follow the dependencies, and meet no node twice.
StackInv ==
    /\ \A i \in 1..(Len(stack) - 1) : stack[i + 1] \in changes[stack[i]].dependencies
    /\ \A i, j \in DOMAIN stack : stack[i] = stack[j] => i = j

IsCycle(cycle) ==
    /\ Len(cycle) > 1
    /\ cycle[1] = Last(cycle)
    /\ \A i \in 1..(Len(cycle) - 1) : cycle[i + 1] \in changes[cycle[i]].dependencies
    /\ \A i, j \in 1..(Len(cycle) - 1) : cycle[i] = cycle[j] => i = j

CycleInv == answer.error = "DEPENDENCY_CYCLE_DETECTED" => IsCycle(answer.cycle)

SearchInv == OrderInv /\ StackInv /\ CycleInv

LEMMA InitSearch == Init => SearchInv
<1> SUFFICES ASSUME Init PROVE SearchInv
  OBVIOUS
<1>1. placed = <<>> /\ stack = <<>> /\ Len(stack) = 0 /\ answer.error = "none"
  BY DEF Init, Pending
<1> QED BY <1>1 DEF SearchInv, OrderInv, StackInv, CycleInv

\* The stack from the node that is met again, with that node, is a cycle.
LEMMA MetAgainIsCycle ==
    ASSUME TypeInv, StackInv, stack # <<>>, NEW k \in Planned,
           k \in changes[Last(stack)].dependencies \cap Range(stack)
    PROVE  IsCycle(cycleFrom(k))
<1> DEFINE n == Len(stack)
           m == CHOOSE i \in DOMAIN stack : stack[i] = k
           c == SubSeq(stack, m, n)
<1>1. n \in Nat /\ DOMAIN stack = 1..n /\ \A i \in 1..n : stack[i] \in Planned
  BY LenProperties, ElementOfSeq DEF TypeInv
<1>2. m \in 1..n /\ stack[m] = k
  BY <1>1 DEF Range
<1> HIDE DEF m
<1>3. m \in Int /\ n \in Int /\ m <= n /\ \A i \in m..n : stack[i] \in Planned
  BY <1>1, <1>2
<1>4. /\ c \in Seq(Planned) /\ Len(c) = n - m + 1
      /\ \A i \in 1..(n - m + 1) : c[i] = stack[m + i - 1]
  <2> HIDE DEF n
  <2> QED BY <1>3, SubSeqProperties
<1> HIDE DEF c
<1> DEFINE cycle == Append(c, k)
<1>5. /\ Len(cycle) = n - m + 2
      /\ \A i \in 1..(n - m + 1) : cycle[i] = stack[m + i - 1]
      /\ cycle[n - m + 2] = k
  <2>1. /\ Len(cycle) = Len(c) + 1
        /\ \A i \in 1..Len(c) : cycle[i] = c[i]
        /\ cycle[Len(c) + 1] = k
    BY <1>4, AppendProperties
  <2> HIDE DEF cycle, n
  <2> QED BY <1>3, <1>4, <2>1
<1> HIDE DEF cycle
<1>6. cycle[1] = k /\ Last(cycle) = k
  BY <1>2, <1>3, <1>5 DEF Last
<1>7. ASSUME NEW i \in 1..(n - m + 1) PROVE cycle[i + 1] \in changes[cycle[i]].dependencies
  <2>1. CASE i = n - m + 1
    <3>1. cycle[i + 1] = k /\ cycle[i] = stack[n]
      BY <1>3, <1>5, <2>1
    <3> QED BY <3>1 DEF Last
  <2>2. CASE i < n - m + 1
    <3>1. cycle[i] = stack[m + i - 1] /\ cycle[i + 1] = stack[m + i]
      BY <1>3, <1>5, <2>2
    <3>2. m + i - 1 \in 1..(n - 1) /\ m + i - 1 + 1 = m + i
      BY <1>2, <1>3, <2>2
    <3> QED BY <3>1, <3>2 DEF StackInv
  <2> QED BY <1>3, <2>1, <2>2
<1>8. ASSUME NEW i \in 1..(n - m + 1), NEW j \in 1..(n - m + 1), cycle[i] = cycle[j] PROVE i = j
  <2>1. stack[m + i - 1] = stack[m + j - 1]
    BY <1>5, <1>8
  <2>2. m + i - 1 \in 1..n /\ m + j - 1 \in 1..n
    BY <1>2, <1>3
  <2>3. m + i - 1 = m + j - 1
    BY <1>1, <2>1, <2>2 DEF StackInv
  <2> QED BY <1>3, <2>3
<1>9. Len(cycle) > 1 /\ Len(cycle) - 1 = n - m + 1
  BY <1>3, <1>5
<1> QED BY <1>6, <1>7, <1>8, <1>9 DEF IsCycle, cycleFrom, cycle, c, m

LEMMA NextSearch == TypedDiff /\ AnswerInv /\ SearchInv /\ [Next]_vars => SearchInv'
<1> SUFFICES ASSUME TypedDiff, AnswerInv, SearchInv, [Next]_vars PROVE SearchInv'
  OBVIOUS
<1> USE DEF TypedDiff
<1>1. ASSUME NEW code, NEW cycle, fail(code, cycle), UNCHANGED <<changes, placed, stack>>,
             code = "DEPENDENCY_CYCLE_DETECTED" => IsCycle(cycle)
      PROVE  SearchInv'
  <2>1. answer'.error = code /\ answer'.cycle = cycle
    BY <1>1 DEF fail
  <2> QED BY <1>1, <2>1 DEF SearchInv, OrderInv, StackInv, CycleInv, IsCycle
<1>2. ASSUME answer'.error = "none", UNCHANGED <<placed, stack>>,
             pc = "asked" \/ \A k \in Planned : changes'[k].dependencies = changes[k].dependencies
      PROVE  SearchInv'
  <2>1. CycleInv'
    BY <1>2 DEF CycleInv
  <2>2. CASE pc = "asked"
    <3>1. placed' = <<>> /\ stack' = <<>> /\ Len(stack') = 0
      BY <1>2, <2>2 DEF TypeInv
    <3> QED BY <2>1, <3>1 DEF SearchInv, OrderInv, StackInv
  <2>3. CASE pc # "asked"
    <3>1. \A i \in DOMAIN placed : placed[i] \in Planned
      BY LenProperties, ElementOfSeq DEF TypeInv
    <3>2. Len(stack) \in Nat /\ \A i \in 1..Len(stack) : stack[i] \in Planned
      BY LenProperties, ElementOfSeq DEF TypeInv
    <3>3. \A i \in 1..(Len(stack) - 1) : stack[i] \in Planned
      BY <3>2
    <3>4. OrderInv'
      BY <1>2, <2>3, <3>1 DEF SearchInv, OrderInv
    <3>5. StackInv'
      BY <1>2, <2>3, <3>3 DEF SearchInv, StackInv
    <3> QED BY <2>1, <3>4, <3>5 DEF SearchInv
  <2> QED BY <2>2, <2>3
<1>3. ASSUME UNCHANGED <<answer, changes, placed, stack>> PROVE SearchInv'
  BY <1>3 DEF SearchInv, OrderInv, StackInv, CycleInv, IsCycle
<1>20. ASSUME UNCHANGED <<answer, changes>> PROVE CycleInv'
  BY <1>20 DEF SearchInv, CycleInv, IsCycle
<1>21. ASSUME UNCHANGED <<answer, changes, placed>>, StackInv' PROVE SearchInv'
  <2>1. OrderInv'
    BY <1>21 DEF SearchInv, OrderInv
  <2> QED BY <1>20, <1>21, <2>1 DEF SearchInv
<1>4. pc # "failed" => answer.error = "none"
  BY DEF AnswerInv
<1>5. CASE RefuseOptions \/ RefuseResources \/ RefuseSize
  BY <1>1, <1>5 DEF RefuseOptions, RefuseResources, RefuseSize
<1>6. CASE RefuseDocument
  <2>1. PICK code \in prepare(input.document) : fail(code, <<>>)
    BY <1>6 DEF RefuseDocument
  <2>2. code # "DEPENDENCY_CYCLE_DETECTED"
    BY PrepareStages, OtherCodes
  <2> QED BY <1>1, <1>6, <2>1, <2>2 DEF RefuseDocument
<1>7. CASE Compute
  BY <1>2, <1>4, <1>7 DEF Compute, Prepared, Accepted
<1>8. ASSUME NEW k \in Planned, Place(k) PROVE SearchInv'
  <2>1. /\ placed' = Append(placed, k) /\ UNCHANGED <<changes, stack, answer>>
        /\ k \notin Placed /\ changes[k].dependencies \subseteq Placed
    BY <1>8 DEF Place, ready
  <2> DEFINE n == Len(placed)
  <2>2. n \in Nat /\ DOMAIN placed = 1..n
    BY LenProperties DEF TypeInv
  <2>3. /\ DOMAIN placed' = 1..(n + 1)
        /\ \A i \in 1..n : placed'[i] = placed[i]
        /\ placed'[n + 1] = k
    <3>1. placed' \in Seq(Planned) /\ Len(placed') = n + 1
      BY <2>1, AppendProperties DEF TypeInv
    <3> QED BY <2>1, <3>1, AppendProperties, LenProperties DEF TypeInv
  <2>4. Placed = {placed[j] : j \in 1..n}
    BY <2>2 DEF Placed, Range
  <2> HIDE DEF n
  <2>5. ASSUME NEW i \in DOMAIN placed', NEW j \in DOMAIN placed', placed'[i] = placed'[j]
        PROVE  i = j
    <3>1. CASE i \in 1..n /\ j \in 1..n
      BY <2>2, <2>3, <2>5, <3>1 DEF SearchInv, OrderInv
    <3>2. CASE i = n + 1 \/ j = n + 1
      BY <2>1, <2>2, <2>3, <2>4, <2>5, <3>2
    <3> QED BY <2>2, <2>3, <3>1, <3>2
  <2>6. ASSUME NEW i \in DOMAIN placed'
        PROVE  changes'[placed'[i]].dependencies \subseteq {placed'[j] : j \in 1..(i - 1)}
    <3>1. CASE i \in 1..n
      <4>1. changes[placed[i]].dependencies \subseteq {placed[j] : j \in 1..(i - 1)}
        BY <2>2, <3>1 DEF SearchInv, OrderInv
      <4>2. \A j \in 1..(i - 1) : placed'[j] = placed[j]
        BY <2>2, <2>3, <3>1
      <4>3. placed'[i] = placed[i]
        BY <2>3, <3>1
      <4> QED BY <2>1, <4>1, <4>2, <4>3
    <3>2. CASE i = n + 1
      <4>1. \A j \in 1..(i - 1) : placed'[j] = placed[j]
        BY <2>2, <2>3, <3>2
      <4>2. 1..(i - 1) = 1..n
        BY <2>2, <3>2
      <4>3. {placed'[j] : j \in 1..(i - 1)} = Placed
        BY <2>4, <4>1, <4>2
      <4>4. placed'[i] = k /\ changes' = changes
        BY <2>1, <2>3, <3>2
      <4> QED BY <2>1, <4>3, <4>4
    <3> QED BY <2>2, <2>3, <3>1, <3>2
  <2>7. OrderInv'
    BY <2>5, <2>6 DEF OrderInv
  <2>8. StackInv'
    BY <2>1 DEF SearchInv, StackInv
  <2> QED BY <1>20, <2>1, <2>7, <2>8 DEF SearchInv
<1>9. ASSUME NEW k \in Planned, VisitRoot(k) PROVE SearchInv'
  <2>1. stack' = <<k>> /\ UNCHANGED <<changes, placed, answer>>
    BY <1>9 DEF VisitRoot
  <2>2. Len(stack') = 1 /\ DOMAIN stack' = 1..1
    BY <2>1
  <2>3. StackInv'
    BY <2>2 DEF StackInv
  <2> QED BY <1>21, <2>1, <2>3
<1>10. ASSUME NEW k \in Planned, VisitDependency(k) PROVE SearchInv'
  <2>1. /\ stack' = Append(stack, k) /\ UNCHANGED <<changes, placed, answer>>
        /\ k \in changes[stack[Len(stack)]].dependencies /\ k \notin Range(stack)
        /\ stack # <<>>
    BY <1>10 DEF VisitDependency, Last
  <2> DEFINE n == Len(stack)
  <2>2. n \in Nat /\ n > 0 /\ DOMAIN stack = 1..n
    <3>1. n \in Nat \ {0}
      BY <2>1, EmptySeq DEF TypeInv
    <3> QED BY <3>1, LenProperties DEF TypeInv
  <2>3. /\ DOMAIN stack' = 1..(n + 1) /\ Len(stack') = n + 1
        /\ \A i \in 1..n : stack'[i] = stack[i]
        /\ stack'[n + 1] = k
    <3>1. stack' \in Seq(Planned) /\ Len(stack') = n + 1
      BY <2>1, AppendProperties DEF TypeInv
    <3> QED BY <2>1, <3>1, AppendProperties, LenProperties DEF TypeInv
  <2>4. \A i \in 1..n : stack[i] # k
    BY <2>1, <2>2 DEF Range
  <2>5. k \in changes[stack[n]].dependencies
    BY <2>1
  <2> HIDE DEF n
  <2>6. ASSUME NEW i \in 1..(Len(stack') - 1)
        PROVE  stack'[i + 1] \in changes[stack'[i]].dependencies
    <3>1. CASE i = n
      BY <2>2, <2>3, <2>5, <3>1
    <3>2. CASE i < n
      <4>1. i \in 1..(n - 1) /\ i \in 1..n /\ i + 1 \in 1..n
        BY <2>2, <2>3, <3>2
      <4>2. stack[i + 1] \in changes[stack[i]].dependencies
        BY <4>1 DEF SearchInv, StackInv, n
      <4> QED BY <2>3, <4>1, <4>2
    <3> QED BY <2>2, <2>3, <3>1, <3>2
  <2>7. ASSUME NEW i \in DOMAIN stack', NEW j \in DOMAIN stack', stack'[i] = stack'[j]
        PROVE  i = j
    <3>1. CASE i \in 1..n /\ j \in 1..n
      BY <2>2, <2>3, <2>7, <3>1 DEF SearchInv, StackInv
    <3>2. CASE i = n + 1 \/ j = n + 1
      BY <2>2, <2>3, <2>4, <2>7, <3>2
    <3> QED BY <2>2, <2>3, <3>1, <3>2
  <2>8. StackInv'
    BY <2>1, <2>6, <2>7 DEF StackInv
  <2> QED BY <1>21, <2>1, <2>8
<1>11. ASSUME NEW k \in Planned, MeetAgain(k) PROVE SearchInv'
  <2>1. IsCycle(cycleFrom(k))
    BY <1>11, MetAgainIsCycle DEF MeetAgain, SearchInv
  <2> QED BY <1>1, <1>11, <2>1 DEF MeetAgain
<1>12. CASE Leave
  <2>1. stack # <<>> /\ stack' = Front(stack) /\ UNCHANGED <<changes, placed, answer>>
    BY <1>12 DEF Leave
  <2> DEFINE n == Len(stack)
  <2>2. n \in Nat /\ n > 0 /\ DOMAIN stack = 1..n
    <3>1. n \in Nat \ {0}
      BY <2>1, EmptySeq DEF TypeInv
    <3> QED BY <3>1, LenProperties DEF TypeInv
  <2>3. /\ DOMAIN stack' = 1..(n - 1) /\ Len(stack') = n - 1
        /\ \A i \in 1..(n - 1) : stack'[i] = stack[i]
    <3>1. /\ stack' \in Seq(Planned) /\ Len(stack') = n - 1
          /\ \A i \in 1..(n - 1) : stack'[i] = stack[i]
      BY <2>1, FrontProperties DEF TypeInv
    <3> QED BY <3>1, LenProperties
  <2>4. \A i \in 1..(n - 1) : stack[i + 1] \in changes[stack[i]].dependencies
    BY DEF SearchInv, StackInv
  <2> HIDE DEF n
  <2>5. \A i \in 1..(Len(stack') - 1) :
          i \in 1..(n - 1) /\ i + 1 \in 1..(n - 1)
    BY <2>2, <2>3
  <2>6. \A i, j \in DOMAIN stack' : stack'[i] = stack'[j] => i = j
    <3>1. \A i \in 1..(n - 1) : i \in 1..n
      BY <2>2
    <3> QED BY <2>2, <2>3, <3>1 DEF SearchInv, StackInv
  <2>7. StackInv'
    BY <2>1, <2>3, <2>4, <2>5, <2>6 DEF StackInv
  <2> QED BY <1>21, <2>1, <2>7
<1>13. CASE Ordered \/ Stuck \/ NoHook
  BY <1>3, <1>13 DEF Ordered, Stuck, NoHook
<1>14. ASSUME NEW refined \in Answers, Refine(refined) PROVE SearchInv'
  <2>1. AllPlaced /\ assertRefinement(refined) /\ pc # "failed" /\ UNCHANGED <<placed, stack, answer>>
    BY <1>14 DEF Refine, TypeInv, OrderKnown, AllPlaced
  <2>2. ASSUME NEW k \in Planned PROVE changes'[k].dependencies = changes[k].dependencies
    <3> DEFINE c == refined[CHOOSE i \in DOMAIN placed : placed[i] = k].change
    <3>1. SameChange(c, changes[k])
      BY <2>1, RefinedType
    <3>2. changes'[k] = c
      BY <1>14 DEF Refine
    <3> HIDE DEF c
    <3> QED BY <3>1, <3>2 DEF SameChange
  <2> QED BY <1>2, <1>4, <2>1, <2>2
<1>15. ASSUME NEW refined \in Answers, RejectRefinement(refined) PROVE SearchInv'
  BY <1>1, <1>15 DEF RejectRefinement
<1>16. CASE Judge
  <2>1. UNCHANGED <<placed, stack>> /\ changes' = judged /\ answer' = judgement(judged)
    BY <1>16 DEF Judge
  <2>2. answer'.error = "none"
    BY <2>1 DEF judgement
  <2>3. \A k \in Planned : changes'[k].dependencies = changes[k].dependencies
    BY <2>1, JudgedType DEF TypeInv, SameChange
  <2> QED BY <1>2, <2>1, <2>2, <2>3
<1>17. ASSUME NEW k \in Planned, PassOver(k) \/ Put(k) \/ Delete(k) \/ ProviderFails(k)
       PROVE  SearchInv'
  BY <1>3, <1>17 DEF PassOver, Put, Delete, ProviderFails, Settle
<1>18. CASE Verify
  <2>1. /\ UNCHANGED <<changes, placed, stack>> /\ pc # "failed"
        /\ answer' = [answer EXCEPT !.verdict = verifyDesiredState(input.desired, world)]
    BY <1>18 DEF Verify
  <2>2. answer'.error = answer.error
    BY <2>1 DEF AnswerInv
  <2> QED BY <1>2, <1>4, <2>1, <2>2
<1>19. CASE UNCHANGED vars
  BY <1>3, <1>19 DEF vars
<1> QED BY <1>5, <1>6, <1>7, <1>8, <1>9, <1>10, <1>11, <1>12, <1>13, <1>14, <1>15, <1>16,
           <1>17, <1>18, <1>19 DEF Next, Ended

\* Whatever the dependencies, the order of a plan has each change once, after
\* what it depends on; and a refusal for a cycle names one that is there.
THEOREM PlanIsOrderedAlways == Spec => []PlanIsOrdered
<1>1. Init /\ [][Next]_vars /\ []TypedDiff /\ []AnswerInv => []SearchInv
  BY InitSearch, NextSearch, PTL
<1>2. TypedDiff /\ SearchInv => PlanIsOrdered
  BY DEF TypedDiff, TypeInv, SearchInv, OrderInv, CycleInv, IsCycle, PlanIsOrdered
<1> QED BY <1>1, <1>2, TypedAlways, AnswerAlways, PTL DEF Spec

-----------------------------------------------------------------------------
(***************************************************************************)
(* The run                                                                 *)
(***************************************************************************)
\* What the diff found to be as it should be nobody blocks.
NoopInv ==
    pc \notin {"asked", "failed"} =>
        \A k \in Planned : computed[k].intent = "noop" => changes[k].action = "noop"

LEMMA NextNoop == TypedDiff /\ NoopInv /\ [Next]_vars => NoopInv'
<1> SUFFICES ASSUME TypedDiff, NoopInv, [Next]_vars PROVE NoopInv'
  OBVIOUS
<1>1. ASSUME pc' = "failed" \/ pc \notin {"asked", "failed"}, UNCHANGED <<input, changes>>
      PROVE  NoopInv'
  BY <1>1, ComputedStays DEF NoopInv, Planned
<1>2. ASSUME pc \notin {"asked", "failed"}, input' = input, Planned' = Planned,
             \A k \in Planned : changes[k].action = "noop" => changes'[k].action = "noop"
      PROVE  NoopInv'
  BY <1>2, ComputedStays DEF NoopInv
<1>3. CASE RefuseOptions \/ RefuseDocument \/ RefuseResources \/ RefuseSize
  BY <1>1, <1>3 DEF RefuseOptions, RefuseDocument, RefuseResources, RefuseSize, fail
<1>4. CASE Compute
  <2>1. changes' = computed /\ input' = input
    BY <1>4 DEF Compute
  <2>2. ASSUME NEW k \in DOMAIN computed, computed[k].intent = "noop"
        PROVE  computed[k].action = "noop"
    <3>1. computed[k] = toPlanChange(input.desired, input.current, options, k)
      BY ComputedType DEF TypedDiff, TypeInv
    <3> QED BY <2>2, <3>1 DEF toPlanChange, blocks
  <2> QED BY <2>1, <2>2, ComputedStays DEF NoopInv, Planned
<1>5. ASSUME NEW k \in Planned,
             Place(k) \/ VisitRoot(k) \/ VisitDependency(k) \/ MeetAgain(k)
      PROVE  NoopInv'
  BY <1>1, <1>5 DEF Place, VisitRoot, VisitDependency, MeetAgain, fail
<1>6. CASE Ordered \/ Stuck \/ Leave \/ NoHook
  BY <1>1, <1>6 DEF Ordered, Stuck, Leave, NoHook
<1>7. ASSUME NEW refined \in Answers, Refine(refined) PROVE NoopInv'
  <2>1. /\ AllPlaced /\ assertRefinement(refined) /\ pc = "refine" /\ input' = input
        /\ Planned' = Planned
    BY <1>7 DEF Refine, TypedDiff, TypeInv, OrderKnown, AllPlaced, Planned
  <2>2. ASSUME NEW k \in Planned PROVE changes'[k].action = changes[k].action
    <3> DEFINE c == refined[CHOOSE i \in DOMAIN placed : placed[i] = k].change
    <3>1. c.action = changes[k].action
      BY <2>1, RefinedType
    <3>2. changes'[k] = c
      BY <1>7 DEF Refine
    <3> HIDE DEF c
    <3> QED BY <3>1, <3>2
  <2> QED BY <1>2, <2>1, <2>2
<1>8. ASSUME NEW refined \in Answers, RejectRefinement(refined) PROVE NoopInv'
  BY <1>1, <1>8 DEF RejectRefinement, fail
<1>9. CASE Judge
  <2>1. changes' = judged /\ input' = input /\ pc = "judge"
    BY <1>9 DEF Judge
  <2>2. judged \in [Planned -> Change]
    BY JudgedType DEF TypedDiff, TypeInv
  <2>3. \A k \in Planned : changes[k].action = "noop" => judged[k].action = "noop"
    BY JudgedType DEF TypedDiff, TypeInv, Effective
  <2> QED BY <1>2, <2>1, <2>2, <2>3 DEF Planned
<1>10. ASSUME NEW k \in Planned, PassOver(k) \/ Put(k) \/ Delete(k) \/ ProviderFails(k)
       PROVE  NoopInv'
  BY <1>1, <1>10 DEF PassOver, Put, Delete, ProviderFails, Settle
<1>11. CASE Verify
  BY <1>1, <1>11 DEF Verify
<1>12. CASE UNCHANGED vars
  BY <1>12, ComputedStays DEF vars, NoopInv, Planned
<1> QED BY <1>3, <1>4, <1>5, <1>6, <1>7, <1>8, <1>9, <1>10, <1>11, <1>12 DEF Next, Ended

Settlements == {"none", "blocked", "skipped", "unmet", "failed", "succeeded"}

\* A change that was made is in the world, any other left its resource alone.
Written(k) ==
    IF changes[k].action = "delete" THEN k \notin DOMAIN world
    ELSE k \in DOMAIN world /\ world[k] = input.desired[k]

Same(k) ==
    /\ k \in DOMAIN world <=> k \in DOMAIN input.current
    /\ k \in DOMAIN world => world[k] = input.current[k]

\* What one result says.
ResultInv(k) ==
    /\ results[k] \in Settlements
    /\ results[k] = "skipped" => changes[k].action = "noop"
    /\ changes[k].action = "noop" => results[k] \in {"none", "skipped"}
    /\ results[k] = "succeeded" =>
         /\ Effective(changes[k]) /\ Written(k)
         /\ \A d \in changes[k].dependencies : metDependency(d)
    /\ results[k] # "succeeded" => Same(k)

RunInv ==
    /\ pc \notin Running => \A k \in DOMAIN results : results[k] = "none"
    /\ pc \in Running =>
         /\ DOMAIN results = Planned /\ \A k \in Planned : ResultInv(k)
         /\ "verdict" \in DOMAIN answer
    /\ pc = "verified" =>
         /\ \A k \in Planned : results[k] # "none"
         /\ answer.verdict = verifyDesiredState(input.desired, world)

LEMMA InitRun == Init => RunInv
<1> SUFFICES ASSUME Init PROVE RunInv
  OBVIOUS
<1>1. DOMAIN results = {}
  BY DEF Init
<1> QED BY <1>1 DEF Init, RunInv, Running

\* What a step can do to the results.
LEMMA RunKinds ==
    ASSUME [Next]_vars
    PROVE  \/ pc \notin Running /\ pc' \notin Running /\ UNCHANGED results
           \/ Judge \/ Verify
           \/ UNCHANGED vars
           \/ \E k \in Planned : PassOver(k) \/ Put(k) \/ Delete(k) \/ ProviderFails(k)
<1>1. CASE RefuseOptions \/ RefuseDocument \/ RefuseResources \/ RefuseSize \/ Compute
  BY <1>1 DEF RefuseOptions, RefuseDocument, RefuseResources, RefuseSize, Compute, Prepared,
              Accepted, fail, Running
<1>2. ASSUME NEW k \in Planned,
             Place(k) \/ VisitRoot(k) \/ VisitDependency(k) \/ MeetAgain(k)
      PROVE  pc \notin Running /\ pc' \notin Running /\ UNCHANGED results
  BY <1>2 DEF Place, VisitRoot, VisitDependency, MeetAgain, fail, Running
<1>3. CASE Ordered \/ Stuck \/ Leave \/ NoHook
  BY <1>3 DEF Ordered, Stuck, Leave, NoHook, Running
<1>4. ASSUME NEW refined \in Answers, Refine(refined) \/ RejectRefinement(refined)
      PROVE  pc \notin Running /\ pc' \notin Running /\ UNCHANGED results
  BY <1>4 DEF Refine, RejectRefinement, fail, Running
<1> QED BY <1>1, <1>2, <1>3, <1>4 DEF Next, Ended

LEMMA Settles ==
    ASSUME TypedDiff, RunInv, NEW k \in Planned, NEW result, Settle(k, result)
    PROVE  /\ pc = "apply" /\ pc' = "apply" /\ UNCHANGED <<input, changes>>
           /\ results[k] = "none"
           /\ DOMAIN results = Planned /\ DOMAIN results' = Planned
           /\ results'[k] = result /\ \A j \in Planned \ {k} : results'[j] = results[j]
<1>1. /\ pc = "apply" /\ results' = [results EXCEPT ![k] = result]
      /\ UNCHANGED <<input, pc, changes>>
  BY DEF Settle
<1>2. results[k] = "none"
  BY DEF Settle, unsettled
<1>3. DOMAIN results = Planned
  BY <1>1 DEF RunInv, Running
<1> QED BY <1>1, <1>2, <1>3

\* The step does nothing to resource j.
LeftAlone(j) ==
    /\ j \in DOMAIN world' <=> j \in DOMAIN world
    /\ j \in DOMAIN world => world'[j] = world[j]

\* A dependency that was met stays met.
LEMMA MetStays ==
    ASSUME TypedDiff, RunInv, NEW k \in Planned, NEW result, Settle(k, result)
    PROVE  \A d : metDependency(d) => metDependency(d)'
<1>1. /\ UNCHANGED changes /\ results[k] = "none" /\ DOMAIN results = Planned
      /\ \A j \in Planned \ {k} : results'[j] = results[j]
  BY Settles
<1>2. results' = [results EXCEPT ![k] = result]
  BY DEF Settle
<1>3. ASSUME NEW d, metDependency(d) PROVE metDependency(d)'
  <2>1. d # k
    BY <1>1, <1>3 DEF metDependency
  <2>2. CASE d \in Planned
    BY <1>1, <1>3, <2>1, <2>2 DEF metDependency
  <2>3. CASE d \notin Planned
    <3>1. results'[d] = results[d]
      BY <1>1, <1>2, <2>3
    <3> QED BY <1>1, <1>3, <3>1 DEF metDependency
  <2> QED BY <2>2, <2>3
<1> QED BY <1>3

\* One result more, the resources of the others as they were.
LEMMA SettlesKeep ==
    ASSUME TypedDiff, RunInv, NEW k \in Planned, NEW result, Settle(k, result),
           \A j \in Planned \ {k} : LeftAlone(j),
           ResultInv(k)'
    PROVE  RunInv'
<1>1. /\ pc = "apply" /\ pc' = "apply" /\ UNCHANGED <<input, changes>>
      /\ results[k] = "none" /\ DOMAIN results = Planned /\ DOMAIN results' = Planned
      /\ \A j \in Planned \ {k} : results'[j] = results[j]
  BY Settles
<1>2. "apply" \in Running /\ "apply" # "verified" /\ "none" # "succeeded" /\ "none" # "skipped"
  BY DEF Running
<1>3. \A d : metDependency(d) => metDependency(d)'
  BY MetStays
<1>4. ASSUME NEW j \in Planned \ {k} PROVE ResultInv(j)'
  <2>0. LeftAlone(j) /\ input' = input /\ changes' = changes
    BY <1>1
  <2>1. ResultInv(j) /\ results'[j] = results[j]
    BY <1>1, <1>2 DEF RunInv
  <2>2. Written(j) => Written(j)'
    BY <2>0 DEF Written, LeftAlone
  <2>3. Same(j) => Same(j)'
    BY <2>0 DEF Same, LeftAlone
  <2>5. results[j] = "succeeded" => \A d \in changes[j].dependencies : metDependency(d)'
    BY <1>3, <2>1 DEF ResultInv
  <2> QED BY <2>0, <2>1, <2>2, <2>3, <2>5 DEF ResultInv
<1>5. Planned' = Planned /\ answer' = answer
  BY <1>1 DEF Planned, Settle
<1>6. \A j \in Planned : ResultInv(j)'
  BY <1>4
<1>7. "verdict" \in DOMAIN answer
  BY <1>1, <1>2 DEF RunInv
<1> QED BY <1>1, <1>2, <1>5, <1>6, <1>7 DEF RunInv

LEMMA NextRun == TypedDiff /\ OwnedInv /\ RunInv /\ [Next]_vars => RunInv'
<1> SUFFICES ASSUME TypedDiff, OwnedInv, RunInv, [Next]_vars PROVE RunInv'
  OBVIOUS
<1>1. ASSUME pc \notin Running, pc' \notin Running, UNCHANGED results PROVE RunInv'
  BY <1>1 DEF RunInv, Running
<1>2. CASE Judge
  <2>1. /\ changes' = judged /\ Planned' = Planned /\ input' = input /\ world' = input.current
        /\ results' = [k \in Planned |-> "none"] /\ answer' = judgement(judged)
        /\ pc' \in {"apply", "refused"}
    <3>1. pc = "judge" /\ changes' = judged /\ UNCHANGED <<input, world>>
      BY <1>2 DEF Judge
    <3>2. world = input.current
      BY <3>1 DEF OwnedInv, Running
    <3>3. Planned' = Planned
      BY <3>1, JudgedType DEF TypedDiff, TypeInv, Planned
    <3> QED BY <1>2, <3>1, <3>2, <3>3 DEF Judge
  <2>2. "verdict" \in DOMAIN answer'
    BY <2>1 DEF judgement
  <2>3. ASSUME NEW k \in Planned PROVE ResultInv(k)'
    <3>1. results'[k] = "none"
      BY <2>1
    <3>2. Same(k)'
      BY <2>1 DEF Same
    <3> QED BY <3>1, <3>2 DEF ResultInv, Settlements
  <2>4. DOMAIN results' = Planned /\ \A k \in Planned : results'[k] = "none"
    BY <2>1
  <2>5. pc' # "verified"
    BY <2>1
  <2> QED BY <2>1, <2>2, <2>3, <2>4, <2>5 DEF RunInv
<1>3. CASE Verify
  <2>1. /\ pc = "apply" /\ pc' = "verified" /\ unsettled = {}
        /\ UNCHANGED <<input, changes, placed, world, results>>
        /\ answer' = [answer EXCEPT !.verdict = verifyDesiredState(input.desired, world)]
    BY <1>3 DEF Verify
  <2>2. DOMAIN results = Planned /\ "verdict" \in DOMAIN answer /\ \A k \in Planned : ResultInv(k)
    BY <2>1 DEF RunInv, Running
  <2>3. ASSUME NEW k \in Planned PROVE results[k] # "none"
    <3>1. PICK i \in DOMAIN placed : placed[i] = k
      BY <2>1 DEF TypedDiff, TypeInv, OrderKnown, Placed, Range
    <3> QED BY <2>1, <3>1 DEF unsettled
  <2>4. ASSUME NEW k \in Planned PROVE ResultInv(k)'
    BY <2>1, <2>2 DEF ResultInv, Same, Written, metDependency
  <2>5. Planned' = Planned
    BY <2>1 DEF Planned
  <2>6. /\ DOMAIN answer' = DOMAIN answer
        /\ answer'.verdict = verifyDesiredState(input.desired, world)
    BY <2>1, <2>2
  <2>7. verifyDesiredState(input.desired, world)' = verifyDesiredState(input.desired, world)
    BY <2>1
  <2>8. "verified" \in Running
    BY DEF Running
  <2> QED BY <2>1, <2>2, <2>3, <2>4, <2>5, <2>6, <2>7, <2>8 DEF RunInv
<1>4. ASSUME NEW k \in Planned, PassOver(k) PROVE RunInv'
  <2> DEFINE r == CASE changes[k].action = "blocked" -> "blocked"
                    [] changes[k].action = "noop"    -> "skipped"
                    [] OTHER                         -> "unmet"
  <2>1. Settle(k, r) /\ world' = world
    BY <1>4 DEF PassOver
  <2>2. /\ r \in {"blocked", "skipped", "unmet"}
        /\ r = "skipped" <=> changes[k].action = "noop"
    OBVIOUS
  <2> HIDE DEF r
  <2>3. /\ pc = "apply" /\ UNCHANGED <<input, changes>>
        /\ results[k] = "none" /\ results'[k] = r
    BY <2>1, Settles
  <2>4. Same(k)
    BY <2>3 DEF RunInv, ResultInv, Running
  <2>5. Same(k)'
    BY <2>1, <2>3, <2>4 DEF Same
  <2>6. ResultInv(k)'
    BY <2>2, <2>3, <2>5 DEF ResultInv, Settlements
  <2>7. \A j \in Planned \ {k} : LeftAlone(j)
    BY <2>1 DEF LeftAlone
  <2> QED BY <2>1, <2>6, <2>7, SettlesKeep
<1>5. ASSUME NEW k \in Planned, ProviderFails(k) PROVE RunInv'
  <2>1. Settle(k, "failed") /\ world' = world /\ Effective(changes[k])
    BY <1>5 DEF ProviderFails, met
  <2>2. /\ pc = "apply" /\ UNCHANGED <<input, changes>>
        /\ results[k] = "none" /\ results'[k] = "failed"
    BY <2>1, Settles
  <2>3. Same(k)
    BY <2>2 DEF RunInv, ResultInv, Running
  <2>4. Same(k)'
    BY <2>1, <2>2, <2>3 DEF Same
  <2>5. ResultInv(k)'
    BY <2>1, <2>2, <2>4 DEF ResultInv, Settlements, Effective
  <2>6. \A j \in Planned \ {k} : LeftAlone(j)
    BY <2>1 DEF LeftAlone
  <2> QED BY <2>1, <2>5, <2>6, SettlesKeep
<1>6. ASSUME NEW k \in Planned, Put(k) \/ Delete(k) PROVE RunInv'
  <2>1. Settle(k, "succeeded") /\ met(k)
    BY <1>6 DEF Put, Delete
  <2>2. /\ pc = "apply" /\ UNCHANGED <<input, changes>> /\ results'[k] = "succeeded"
    BY <2>1, Settles
  <2>3. Written(k)'
    <3>1. CASE Put(k)
      <4>1. /\ changes'[k].action # "delete" /\ k \in DOMAIN world'
            /\ world'[k] = input'.desired[k]
        BY <2>2, <3>1 DEF Put
      <4> QED BY <4>1 DEF Written
    <3>2. CASE Delete(k)
      <4>1. changes'[k].action = "delete" /\ k \notin DOMAIN world'
        BY <2>2, <3>2 DEF Delete
      <4> QED BY <4>1 DEF Written
    <3> QED BY <1>6, <3>1, <3>2
  <2>4. Effective(changes'[k]) /\ \A d \in changes'[k].dependencies : metDependency(d)'
    <3>1. \A d \in changes[k].dependencies : metDependency(d)'
      BY <2>1, MetStays DEF met
    <3>2. changes' = changes /\ Effective(changes[k])
      BY <2>1, <2>2 DEF met
    <3> QED BY <3>1, <3>2
  <2>5. ResultInv(k)'
    BY <2>2, <2>3, <2>4 DEF ResultInv, Settlements, Effective
  <2>6. \A j \in Planned \ {k} : LeftAlone(j)
    BY <1>6, WriteIsLocal DEF LeftAlone
  <2> QED BY <2>1, <2>5, <2>6, SettlesKeep
<1>7. CASE UNCHANGED vars
  <2>1. UNCHANGED <<input, changes, world, results, answer, pc>>
    BY <1>7 DEF vars
  <2>2. \A k : ResultInv(k) => ResultInv(k)'
    BY <2>1 DEF ResultInv, Same, Written, metDependency
  <2> QED BY <2>1, <2>2 DEF RunInv, Planned
<1> QED BY <1>1, <1>2, <1>3, <1>4, <1>5, <1>6, <1>7, RunKinds

LEMMA RunAlways == Spec => []RunInv
<1>1. Init /\ [][Next]_vars /\ []TypedDiff /\ []OwnedInv => []RunInv
  BY InitRun, NextRun, PTL
<1> QED BY <1>1, TypedAlways, OwnedAlways, PTL DEF Spec

LEMMA NoopAlways == Spec => []NoopInv
<1>1. Init => NoopInv
  BY DEF Init, NoopInv
<1>2. Init /\ [][Next]_vars /\ []TypedDiff => []NoopInv
  BY <1>1, NextNoop, PTL
<1> QED BY <1>2, TypedAlways, PTL DEF Spec

\* What the plan does to a resource, by where the resource is.
LEMMA ActionsOfRun ==
    ASSUME TypedDiff, NoopInv, pc \in Running, NEW k \in Planned
    PROVE  /\ computed[k] = toPlanChange(input.desired, input.current, options, k)
           /\ k \in DOMAIN input.desired \cup DOMAIN input.current
           /\ changes[k].dependencies = dependenciesFor(input.desired, input.current, k)
           /\ Effective(changes[k]) =>
                changes[k].action = intent(input.desired, input.current, k)
           /\ changes[k].action = "noop" <=> intent(input.desired, input.current, k) = "noop"
<1>1. /\ k \in DOMAIN input.desired \cup DOMAIN input.current
      /\ computed[k] = toPlanChange(input.desired, input.current, options, k)
  BY ComputedType DEF TypedDiff, TypeInv, DiffInv, Running
<1>2. /\ computed[k].intent = intent(input.desired, input.current, k)
      /\ computed[k].dependencies = dependenciesFor(input.desired, input.current, k)
      /\ computed[k].action \in {computed[k].intent, "blocked"}
  BY <1>1 DEF toPlanChange
<1>3. /\ SameChange(changes[k], computed[k])
      /\ changes[k].action \in {computed[k].action, "blocked"}
      /\ computed[k].intent = "noop" => changes[k].action = "noop"
  BY DEF TypedDiff, DiffInv, NoopInv, Running
<1> QED BY <1>1, <1>2, <1>3 DEF SameChange, Effective

\* A resource is there when it is declared and its change is one a later change
\* may build on.
LEMMA MetIsThere ==
    ASSUME TypedDiff, NoopInv, RunInv, pc \in Running,
           NEW d \in Planned, d \in DOMAIN input.desired, metDependency(d)
    PROVE  d \in DOMAIN world
<1>1. ResultInv(d)
  BY DEF RunInv
<1>2. CASE results[d] = "succeeded"
  <2>1. Effective(changes[d]) /\ Written(d)
    BY <1>1, <1>2 DEF ResultInv
  <2>2. changes[d].action # "delete"
    BY <2>1, ActionsOfRun DEF intent
  <2> QED BY <2>1, <2>2 DEF Written
<1>3. CASE changes[d].action = "noop" /\ results[d] = "skipped"
  <2>1. Same(d)
    BY <1>1, <1>3 DEF ResultInv
  <2>2. intent(input.desired, input.current, d) = "noop"
    BY <1>3, ActionsOfRun
  <2>3. d \in DOMAIN input.current
    BY <2>2 DEF intent
  <2> QED BY <2>1, <2>3 DEF Same
<1> QED BY <1>2, <1>3 DEF metDependency

\* No resource is written before those it is declared to depend on are in the
\* world, in whatever order the plan came out and whichever changes failed: the
\* run takes a change only when the changes it waits for were made or had
\* nothing to do (dependenciesFor, execute.ts).
THEOREM WritesFindTheirDependenciesAlways == Spec => []WritesFindTheirDependencies
<1>1. TypedDiff /\ NoopInv /\ RunInv => WritesFindTheirDependencies
  <2> SUFFICES ASSUME TypedDiff, NoopInv, RunInv, NEW k \in DOMAIN results,
                      results[k] = "succeeded", changes[k].action # "delete",
                      NEW d \in input.desired[k].dependsOn \cap DOMAIN input.desired
               PROVE  d \in DOMAIN world
    BY DEF WritesFindTheirDependencies
  <2>1. pc \in Running /\ k \in Planned /\ ResultInv(k)
    BY DEF RunInv
  <2>2. Effective(changes[k]) /\ \A j \in changes[k].dependencies : metDependency(j)
    BY <2>1 DEF ResultInv
  <2>3. changes[k].dependencies = dependenciesFor(input.desired, input.current, k)
    BY <2>1, ActionsOfRun
  <2>4. intent(input.desired, input.current, k) # "delete"
    BY <2>1, <2>2, ActionsOfRun
  <2>5. d \in changes[k].dependencies
    BY <2>3, <2>4 DEF dependenciesFor, planned
  <2>6. d \in Planned
    BY <2>1, ComputedType DEF TypedDiff, TypeInv, DiffInv, Running
  <2> QED BY <2>1, <2>2, <2>5, <2>6, MetIsThere
<1> QED BY <1>1, TypedAlways, NoopAlways, RunAlways, PTL

-----------------------------------------------------------------------------
(***************************************************************************)
(* Convergence                                                             *)
(***************************************************************************)
\* The case never changes.
LEMMA InputStays == [Next]_vars => input' = input
<1> SUFFICES ASSUME [Next]_vars PROVE input' = input
  OBVIOUS
<1>1. CASE RefuseOptions \/ RefuseDocument \/ RefuseResources \/ RefuseSize \/ Compute
  BY <1>1 DEF RefuseOptions, RefuseDocument, RefuseResources, RefuseSize, Compute
<1>2. ASSUME NEW k \in Planned,
             Place(k) \/ VisitRoot(k) \/ VisitDependency(k) \/ MeetAgain(k)
      PROVE  input' = input
  BY <1>2 DEF Place, VisitRoot, VisitDependency, MeetAgain
<1>3. CASE Ordered \/ Stuck \/ Leave \/ NoHook \/ Judge \/ Verify
  BY <1>3 DEF Ordered, Stuck, Leave, NoHook, Judge, Verify
<1>4. ASSUME NEW refined \in Answers, Refine(refined) \/ RejectRefinement(refined)
      PROVE  input' = input
  BY <1>4 DEF Refine, RejectRefinement
<1>5. ASSUME NEW k \in Planned, PassOver(k) \/ Put(k) \/ Delete(k) \/ ProviderFails(k)
      PROVE  input' = input
  BY <1>5 DEF PassOver, Put, Delete, ProviderFails, Settle
<1>6. CASE UNCHANGED vars
  BY <1>6 DEF vars
<1> QED BY <1>1, <1>2, <1>3, <1>4, <1>5, <1>6 DEF Next, Ended

CaseInv == \E family \in Families : input \in family

LEMMA CaseAlways == Spec => []CaseInv
<1>1. Init => CaseInv
  BY DEF Init, CaseInv
<1>2. CaseInv /\ [Next]_vars => CaseInv'
  BY InputStays DEF CaseInv
<1> QED BY <1>1, <1>2, PTL DEF Spec

\* Where nothing is reported nothing differs: what hides a difference is one
\* inside it, which nothing hides, as neither side has three paths in a row.
LEMMA NothingHidden ==
    ASSUME NEW a, IsLeaves(a), NEW b, IsLeaves(b), fieldDiffs(a, b) = {}
    PROVE  differing(a, b) = {}
<1> SUFFICES ASSUME NEW p \in differing(a, b) PROVE FALSE
  OBVIOUS
<1>1. PICK q \in differing(a, b) : <<p, q>> \in Inside
  BY DEF fieldDiffs
<1>2. PICK r \in differing(a, b) : <<q, r>> \in Inside
  BY DEF fieldDiffs
<1>3. {p, q, r} \subseteq DOMAIN a \cup DOMAIN b
  BY DEF differing
<1>4. DOMAIN a \subseteq Paths /\ DOMAIN b \subseteq Paths
  BY DEF IsLeaves
<1>5. <<p, r>> \in Inside
  BY <1>1, <1>2, <1>3, <1>4, PathsAssumption
<1>6. ASSUME NEW x \in {p, q, r}, NEW y \in {p, q, r}, <<x, y>> \in Inside
      PROVE  ~({x, y} \subseteq DOMAIN a) /\ ~({x, y} \subseteq DOMAIN b)
  BY <1>6 DEF IsLeaves
<1>7. /\ ~({p, q} \subseteq DOMAIN a) /\ ~({p, q} \subseteq DOMAIN b)
      /\ ~({q, r} \subseteq DOMAIN a) /\ ~({q, r} \subseteq DOMAIN b)
      /\ ~({p, r} \subseteq DOMAIN a) /\ ~({p, r} \subseteq DOMAIN b)
  BY <1>1, <1>2, <1>5, <1>6
<1> QED BY <1>3, <1>7

\* The difference that is reported is one.
LEMMA ReportedDiffers ==
    ASSUME NEW a, IsLeaves(a), NEW b, IsLeaves(b)
    PROVE  fieldDiffs(a, b) = {} <=> \A p \in Paths : at(a, p) = at(b, p)
<1>1. differing(a, b) \subseteq Paths
  BY DEF differing, IsLeaves
<1>2. ASSUME fieldDiffs(a, b) = {}, NEW p \in Paths PROVE at(a, p) = at(b, p)
  <2>1. p \notin differing(a, b)
    BY <1>2, NothingHidden
  <2> QED BY <2>1 DEF differing, at
<1>3. ASSUME \A p \in Paths : at(a, p) = at(b, p) PROVE fieldDiffs(a, b) = {}
  <2>1. differing(a, b) = {}
    BY <1>1, <1>3 DEF differing
  <2> QED BY <2>1 DEF fieldDiffs
<1> QED BY <1>2, <1>3

\* At the end of a run a resource is as the document has it exactly when its
\* change was made or had nothing to do.
LEMMA AgreesWhenDone ==
    ASSUME TypedDiff, NoopInv, RunInv, pc = "verified", NEW k \in Planned
    PROVE  Agrees(k) <=> results[k] \in {"succeeded", "skipped"}
<1> DEFINE D == input.desired
           C == input.current
<1>1. pc \in Running
  BY DEF Running
<1>2. ResultInv(k) /\ results[k] # "none"
  BY <1>1 DEF RunInv
<1>3. /\ k \in DOMAIN D \cup DOMAIN C
      /\ Effective(changes[k]) => changes[k].action = intent(D, C, k)
      /\ changes[k].action = "noop" <=> intent(D, C, k) = "noop"
  BY <1>1, ActionsOfRun
<1>4. ASSUME k \in DOMAIN D, k \in DOMAIN C
      PROVE  /\ fields(D, C, k) = {} <=>
                  \A p \in Paths : at(C[k].attributes, p) = at(D[k].attributes, p)
             /\ intent(D, C, k) = "noop" <=> fields(D, C, k) = {}
             /\ intent(D, C, k) # "delete"
  <2>1. IsLeaves(D[k].attributes) /\ IsLeaves(C[k].attributes)
    BY <1>4 DEF TypedDiff, TypeInv, IsCase, IsProjection, IsResource
  <2>2. fields(D, C, k) = fieldDiffs(C[k].attributes, D[k].attributes)
    BY <1>4 DEF fields
  <2>3. fieldDiffs(C[k].attributes, D[k].attributes) = {} <=>
           \A p \in Paths : at(C[k].attributes, p) = at(D[k].attributes, p)
    BY <2>1, ReportedDiffers
  <2>4. intent(D, C, k) = "noop" <=> fields(D, C, k) = {}
    BY <1>4 DEF intent
  <2>5. intent(D, C, k) # "delete"
    BY <1>4 DEF intent
  <2> QED BY <2>2, <2>3, <2>4, <2>5
<1>5. CASE results[k] = "succeeded"
  <2>1. Written(k) /\ changes[k].action = intent(D, C, k)
    BY <1>2, <1>3, <1>5 DEF ResultInv
  <2>2. CASE k \notin DOMAIN D
    <3>1. intent(D, C, k) = "delete"
      BY <1>3, <2>2 DEF intent
    <3> QED BY <1>5, <2>1, <2>2, <3>1 DEF Written, Agrees
  <2>3. CASE k \in DOMAIN D
    <3>1. intent(D, C, k) # "delete"
      BY <2>3 DEF intent
    <3>2. k \in DOMAIN world /\ world[k] = D[k]
      BY <2>1, <3>1 DEF Written
    <3> QED BY <1>5, <2>3, <3>2 DEF Agrees
  <2> QED BY <2>2, <2>3
<1>6. CASE results[k] = "skipped"
  <2>1. Same(k) /\ intent(D, C, k) = "noop"
    BY <1>2, <1>3, <1>6 DEF ResultInv
  <2>2. k \in DOMAIN D /\ k \in DOMAIN C
    BY <2>1 DEF intent
  <2>3. k \in DOMAIN world /\ world[k] = C[k]
    BY <2>1, <2>2 DEF Same
  <2> QED BY <1>4, <1>6, <2>1, <2>2, <2>3 DEF Agrees
<1>7. CASE results[k] \notin {"succeeded", "skipped"}
  <2>1. Same(k) /\ intent(D, C, k) # "noop"
    BY <1>2, <1>3, <1>7 DEF ResultInv
  <2>2. CASE k \in DOMAIN D /\ k \in DOMAIN C
    <3>1. k \in DOMAIN world /\ world[k] = C[k]
      BY <2>1, <2>2 DEF Same
    <3>2. PICK p \in Paths : at(C[k].attributes, p) # at(D[k].attributes, p)
      BY <1>4, <2>1, <2>2
    <3> QED BY <1>7, <2>2, <3>1, <3>2 DEF Agrees
  <2>3. CASE ~(k \in DOMAIN D /\ k \in DOMAIN C)
    BY <1>3, <1>7, <2>1, <2>3 DEF Same, Agrees
  <2> QED BY <2>2, <2>3
<1> QED BY <1>5, <1>6, <1>7

LEMMA Dividing ==
    ASSUME NEW f \in Nat, NEW t \in Nat \ {0}, f <= t, t < 20000,
           (20000 * f + t) \div (2 * t) >= 10000
    PROVE  f = t
<1> DEFINE a == 20000 * f + t
           b == 2 * t
           d == a \div b
<1>1. a \in Nat /\ b \in Nat \ {0}
  OBVIOUS
<1> HIDE DEF a, b
<1>2. d \in Nat /\ d >= 10000
  BY <1>1 DEF a, b
<1>3. b * d <= a
  BY <1>1
<1> HIDE DEF d
<1>4. b * 10000 <= b * d
  BY <1>1, <1>2
<1>5. b * 10000 <= a
  BY <1>1, <1>2, <1>3, <1>4
<1>6. 20000 * t <= 20000 * f + t
  BY <1>5 DEF a, b
<1> QED BY <1>6

\* With so few leaves that one cannot be rounded away, a document that is found
\* satisfied has every leaf it declares.
LEMMA Satisfied ==
    ASSUME NEW d, NEW o, IsFiniteSet(desiredLeaves(d)),
           Cardinality(desiredLeaves(d)) < 20000,
           verifyDesiredState(d, o) = "satisfied"
    PROVE  matched(d, o) = desiredLeaves(d)
<1> DEFINE M == matched(d, o)
           L == desiredLeaves(d)
           f == Cardinality(M)
           t == Cardinality(L)
<1>1. M \subseteq L
  BY DEF matched
<1>2. IsFiniteSet(M) /\ f <= t /\ (f = t => M = L)
  BY <1>1, FS_Subset
<1>3. f \in Nat /\ t \in Nat
  BY <1>2, FS_CardinalityType
<1>4. statusFor(satisfaction(f, t), f) = "satisfied"
  BY DEF verifyDesiredState
<1> HIDE DEF f, t
<1>5. satisfaction(f, t) >= 10000
  BY <1>4 DEF statusFor
<1>6. CASE t = 0
  BY <1>2, <1>3, <1>6
<1>7. CASE t # 0
  <2>1. (20000 * f + t) \div (2 * t) >= 10000
    BY <1>5, <1>7 DEF satisfaction
  <2>2. t < 20000
    BY DEF t
  <2> QED BY <1>2, <1>3, <1>7, <2>1, <2>2, Dividing
<1> QED BY <1>6, <1>7

\* Where all of them are found, the document is satisfied.
LEMMA AllFound ==
    ASSUME NEW d, NEW o, IsFiniteSet(desiredLeaves(d)), matched(d, o) = desiredLeaves(d)
    PROVE  verifyDesiredState(d, o) = "satisfied"
<1> DEFINE t == Cardinality(desiredLeaves(d))
<1>1. t \in Nat
  BY FS_CardinalityType
<1>2. verifyDesiredState(d, o) = statusFor(satisfaction(t, t), t)
  BY DEF verifyDesiredState
<1> HIDE DEF t
<1>3. satisfaction(t, t) >= 10000
  <2>1. CASE t = 0
    BY <2>1 DEF satisfaction
  <2>2. CASE t # 0
    <3>1. satisfaction(t, t) = (20000 * t + t) \div (2 * t)
      BY <2>2 DEF satisfaction
    <3>2. 20000 * t + t = 10000 * (2 * t) + t /\ 2 * t \in Nat \ {0} /\ 0 <= t /\ t < 2 * t
      BY <1>1, <2>2
    <3>3. (20000 * t + t) \div (2 * t) = 10000
      <4> DEFINE b == 2 * t
                 a == 20000 * t + t
                 q == a \div b
      <4>1. a \in Nat /\ b \in Nat \ {0} /\ a = 10000 * b + t /\ t < b
        BY <1>1, <3>2
      <4> HIDE DEF a, b
      <4>2. q \in Int /\ b * q <= a /\ a < b * q + b
        BY <4>1
      <4> HIDE DEF q
      <4>3. CASE q < 10000
        <5>1. b * q + b <= b * 10000
          <6>1. q + 1 <= 10000
            BY <4>2, <4>3
          <6>2. b * (q + 1) <= b * 10000
            BY <4>1, <4>2, <6>1
          <6> QED BY <4>1, <4>2, <6>2
        <5> QED BY <1>1, <4>1, <4>2, <5>1
      <4>4. CASE q > 10000
        <5>1. b * 10000 + b <= b * q
          <6>1. 10001 <= q
            BY <4>2, <4>4
          <6>2. b * 10001 <= b * q
            BY <4>1, <4>2, <6>1
          <6> QED BY <4>1, <4>2, <6>2
        <5> QED BY <1>1, <4>1, <4>2, <5>1
      <4> QED BY <4>2, <4>3, <4>4 DEF q, a, b
    <3> QED BY <3>1, <3>3
  <2> QED BY <2>1, <2>2
<1> QED BY <1>2, <1>3 DEF statusFor

\* Fewer declared leaves than the share of matching ones has digits for.
FewLeaves ==
    \A family \in Families : \A c \in family :
        /\ IsFiniteSet(desiredLeaves(c.desired))
        /\ Cardinality(desiredLeaves(c.desired)) < 20000

LEMMA VerdictIsRight ==
    ASSUME FewLeaves, CaseInv, TypedDiff, RunInv, pc = "verified"
    PROVE  /\ (\A k \in Planned : Agrees(k)) => answer.verdict = "satisfied"
           /\ answer.verdict = "satisfied" =>
                \A f \in desiredLeaves(input.desired) : f[1] \in DOMAIN world
<1> DEFINE D == input.desired
<1>1. answer.verdict = verifyDesiredState(D, world)
  BY DEF RunInv
<1>2. IsFiniteSet(desiredLeaves(D)) /\ Cardinality(desiredLeaves(D)) < 20000
  BY DEF FewLeaves, CaseInv
<1>3. ASSUME \A k \in Planned : Agrees(k) PROVE answer.verdict = "satisfied"
  <2>1. ASSUME NEW f \in desiredLeaves(D) PROVE f \in matched(D, world)
    <3>1. PICK k \in DOMAIN D : f \in {k} \X DOMAIN D[k].attributes
      BY DEF desiredLeaves
    <3>2. f[1] = k /\ f[2] \in DOMAIN D[k].attributes
      BY <3>1
    <3>3. k \in Planned
      BY ComputedType DEF TypedDiff, TypeInv, DiffInv
    <3>4. f[2] \in Paths
      BY <3>2 DEF TypedDiff, TypeInv, IsCase, IsProjection, IsResource, IsLeaves
    <3>5. /\ k \in DOMAIN world
          /\ at(D[k].attributes, f[2]) = at(world[k].attributes, f[2])
      BY <1>3, <3>3, <3>4 DEF Agrees
    <3> QED BY <3>2, <3>5 DEF matched
  <2>2. matched(D, world) = desiredLeaves(D)
    BY <2>1 DEF matched
  <2> QED BY <1>1, <1>2, <2>2, AllFound
<1>4. ASSUME answer.verdict = "satisfied", NEW f \in desiredLeaves(D)
      PROVE  f[1] \in DOMAIN world
  <2>1. verifyDesiredState(D, world) = "satisfied"
    BY <1>1, <1>4
  <2>2. f \in desiredLeaves(D)
    BY <1>4
  <2>3. matched(D, world) = desiredLeaves(D)
    <3> HIDE DEF D
    <3> QED BY <1>2, <2>1, Satisfied
  <2> QED BY <2>2, <2>3 DEF matched
<1> QED BY <1>3, <1>4

\* Whatever failed, was blocked or was left out, the report of a run can be
\* relied on: exactly the changes it calls made or not needed leave their
\* resources as the document has them, leaf by leaf, and verification says so
\* when all do (fieldDiffs hides no difference from computeChanges; execute.ts
\* writes nothing it does not report).  That what is found satisfied is there
\* rests on there being too few leaves for the share of those found to be rounded
\* up to one (verify.ts, round4).
THEOREM ConvergesAlways ==
    ASSUME FewLeaves
    PROVE  Spec => []Converges
<1>1. TypedDiff /\ NoopInv /\ RunInv /\ CaseInv => Converges
  BY AgreesWhenDone, VerdictIsRight DEF Converges
<1> QED BY <1>1, TypedAlways, NoopAlways, RunAlways, CaseAlways, PTL

-----------------------------------------------------------------------------
(***************************************************************************)
(* What has to be approved                                                 *)
(***************************************************************************)
\* Some numbers have a least one.
LEMMA LeastOfSome ==
    ASSUME NEW ids, ids \subseteq Nat, ids # {}
    PROVE  \E i \in ids : \A j \in ids : i <= j
<1> DEFINE Less == {ss \in Nat \X Nat : ss[1] < ss[2]}
<1>1. OpToRel(<, Nat) = Less
  BY DEF OpToRel
<1>2. IsWellFoundedOn(Less, Nat)
  BY <1>1, NatLessThanWellFounded
<1>3. PICK i \in ids : \A j \in ids : ~(<<j, i>> \in Less)
  BY <1>2, WFMin
<1>4. \A j \in ids : ~(j < i)
  <2>1. \A j \in ids : <<j, i>> \in Nat \X Nat
    OBVIOUS
  <2> QED BY <1>3, <2>1
<1>5. \A j \in ids : i <= j
  BY <1>4
<1> QED BY <1>5

\* Of some positions in a sequence one is the last.
LEMMA GreatestOfSome ==
    ASSUME NEW n \in Nat, NEW ids, ids \subseteq 1..n, ids # {}
    PROVE  \E i \in ids : \A j \in ids : j <= i
<1> DEFINE back == {n - i : i \in ids}
<1>1. back \subseteq Nat /\ back # {}
  <2>1. \A i \in ids : n - i \in Nat
    OBVIOUS
  <2> QED BY <2>1
<1>2. PICK b \in back : \A c \in back : b <= c
  <2> HIDE DEF back
  <2> QED BY <1>1, LeastOfSome
<1>3. PICK i \in ids : b = n - i
  BY <1>2
<1>4. ASSUME NEW j \in ids PROVE j <= i
  <2>1. n - j \in back
    OBVIOUS
  <2>2. n - i <= n - j
    BY <1>2, <1>3, <2>1
  <2> QED BY <2>2
<1> QED BY <1>4

\* Some levels have a highest one.
LEMMA MaxRiskIsHighest ==
    ASSUME NEW levels, levels \subseteq Levels, NEW l \in levels
    PROVE  severity[l] <= severity[maxRisk(levels)]
<1>1. \A m \in Levels : severity[m] \in 0..3
  BY DEF severity, Levels
<1> DEFINE negative == {3 - severity[m] : m \in levels}
<1>2. negative \subseteq Nat /\ negative # {}
  BY <1>1
<1>3. PICK b \in negative : \A c \in negative : b <= c
  <2> HIDE DEF negative
  <2> QED BY <1>2, LeastOfSome
<1>4. PICK h \in levels : b = 3 - severity[h]
  BY <1>3
<1>5. ASSUME NEW m \in levels PROVE severity[m] <= severity[h]
  <2>1. 3 - severity[m] \in negative
    OBVIOUS
  <2>2. 3 - severity[h] <= 3 - severity[m]
    BY <1>3, <1>4, <2>1
  <2>3. severity[m] \in 0..3 /\ severity[h] \in 0..3
    BY <1>1
  <2> QED BY <2>2, <2>3
<1>6. \E x \in levels : \A m \in levels : severity[m] <= severity[x]
  BY <1>5
<1> QED BY <1>6 DEF maxRisk

\* A judged change that will be made bears the risk of its own score: what the
\* score is made of the judgement leaves alone.
LEMMA JudgedRisk ==
    ASSUME changes \in [Planned -> Change], NEW k \in Planned, Effective(judged[k])
    PROVE  judged[k].estimatedRisk =
             riskLevelFromScore(scoreChange(k, judged[k], input.environment))
<1> DEFINE risked == withChangeRisk(changes, input.environment)
           score  == scoreChange(k, changes[k], input.environment)
<1>1. risked[k] = [changes[k] EXCEPT !.estimatedRisk = riskLevelFromScore(score)]
  BY DEF withChangeRisk
<1>2. judged[k] = IF k \in input.conflicts /\ Effective(risked[k])
                  THEN [risked[k] EXCEPT !.action = "blocked"] ELSE risked[k]
  BY DEF judged, blockConflicted, withChangeRisk
<1> HIDE DEF risked
<1>3. judged[k] = risked[k]
  <2>1. changes[k] \in Change
    OBVIOUS
  <2>2. CASE k \in input.conflicts /\ Effective(risked[k])
    <3>1. judged[k].action = "blocked"
      BY <1>1, <1>2, <2>1, <2>2 DEF Change
    <3> QED BY <3>1 DEF Effective
  <2>3. CASE ~(k \in input.conflicts /\ Effective(risked[k]))
    BY <1>2, <2>3
  <2> QED BY <2>2, <2>3
<1> HIDE DEF score
<1>4. /\ judged[k].estimatedRisk = riskLevelFromScore(score)
      /\ judged[k].action = changes[k].action
      /\ judged[k].reversible = changes[k].reversible
      /\ judged[k].fields = changes[k].fields
  <2>1. changes[k] \in Change
    OBVIOUS
  <2> QED BY <1>1, <1>3, <2>1 DEF Change
<1>5. scoreChange(k, judged[k], input.environment) = score
  BY <1>4 DEF score, scoreChange, Effective
<1> QED BY <1>4, <1>5

\* The rule that asks for the approval of what is high or critical, and no other
\* of its policy and id that would stand in its place.
OneOfItsName ==
    \A family \in Families : \A c \in family : \A i \in DOMAIN c.bundle :
        /\ c.bundle[i].policy = requireApprovalForHighRisk.policy
        /\ c.bundle[i].id = requireApprovalForHighRisk.id
        => c.bundle[i] = requireApprovalForHighRisk

\* The rule asks for one of the highest of the risks it found.
LEMMA HighIsAsked ==
    ASSUME IsCase(input), Planned \subseteq Keys, OneOfItsName, CaseInv,
           Has(requireApprovalForHighRisk),
           NEW final \in [Planned -> Change], NEW planLevel,
           NEW k \in effectiveChanges(final),
           final[k].estimatedRisk \in {"high", "critical"}
    PROVE  \E r \in requiredApprovals(input.bundle, final, input.environment, planLevel) :
              severity[final[k].estimatedRisk] <= severity[r.risk]
<1> DEFINE rule == requireApprovalForHighRisk
           B == input.bundle
           E == input.environment
           asking == {i \in deciding(B, final, E) : B[i].effect = "requireApproval"}
           same == {i \in asking : B[i] = rule}
<1>1. /\ rule.effect = "requireApproval" /\ rule.environments = Environments
      /\ rule.types = Types /\ rule.actions = Actions
      /\ rule.risks = {"high", "critical"} /\ rule.destructive = BOOLEAN
      /\ rule.anyPath = TRUE /\ rule.constrained = FALSE
  BY DEF requireApprovalForHighRisk, baselineRule
<1> HIDE DEF rule
<1>2. k \in Planned /\ Effective(final[k]) /\ final[k] \in Change
  BY DEF effectiveChanges
<1>3. k \in matches(rule, final)
  <2>1. TypeOf[k] \in Types
    BY <1>2, KeysAssumption
  <2>2. conditionMatchesChange(rule, k, final[k])
    BY <1>1, <1>2, <2>1 DEF conditionMatchesChange, Change
  <2> QED BY <2>2 DEF matches
<1>4. evaluateRule(rule, final, E)
  BY <1>1, <1>3 DEF evaluateRule, conditionMatchesContext, IsCase
<1>5. PICK i0 \in DOMAIN B : B[i0] = rule
  BY DEF Has, rule
<1>6. i0 \in same
  BY <1>1, <1>4, <1>5 DEF deciding
<1>7. same \subseteq 1..Len(B) /\ Len(B) \in Nat
  <2>1. DOMAIN B = 1..Len(B) /\ Len(B) \in Nat
    BY LenProperties DEF IsCase
  <2> QED BY <2>1 DEF deciding
<1>8. PICK m \in same : \A j \in same : j <= m
  <2> HIDE DEF same
  <2> QED BY <1>6, <1>7, GreatestOfSome
<1>9. m \in asking /\ B[m] = rule
  BY <1>8
<1>10. ASSUME NEW l \in asking, <<B[m].policy, B[m].id>> = <<B[l].policy, B[l].id>>
       PROVE  l <= m
  <2>1. l \in DOMAIN B
    BY DEF deciding
  <2>2. B[l].policy = rule.policy /\ B[l].id = rule.id
    BY <1>9, <1>10
  <2>3. B[l] = rule
    BY <2>1, <2>2 DEF OneOfItsName, CaseInv, rule
  <2>4. l \in same
    BY <2>3
  <2> QED BY <1>8, <2>4
<1> DEFINE r == toApprovalRequirement(rule, final, planLevel)
<1>11. r \in requiredApprovals(B, final, E, planLevel)
  <2>1. m \in {j \in asking : \A l \in asking :
                 <<B[j].policy, B[j].id>> = <<B[l].policy, B[l].id>> => l <= j}
    BY <1>9, <1>10
  <2>2. toApprovalRequirement(B[m], final, planLevel)
          \in requiredApprovals(B, final, E, planLevel)
    BY <2>1 DEF requiredApprovals
  <2> QED BY <1>9, <2>2
<1>12. r.risk = maxRisk({final[j].estimatedRisk : j \in matches(rule, final)})
  BY <1>3 DEF toApprovalRequirement
<1>13. {final[j].estimatedRisk : j \in matches(rule, final)} \subseteq Levels
  <2>1. ASSUME NEW j \in matches(rule, final) PROVE final[j].estimatedRisk \in Levels
    <3>1. j \in Planned
      BY DEF matches, effectiveChanges
    <3>2. final[j] \in Change
      BY <3>1
    <3> QED BY <3>2 DEF Change
  <2> QED BY <2>1
<1>14. severity[final[k].estimatedRisk] <= severity[r.risk]
  <2> DEFINE levels == {final[j].estimatedRisk : j \in matches(rule, final)}
  <2>1. levels \subseteq Levels /\ final[k].estimatedRisk \in levels
    BY <1>3, <1>13
  <2>2. r.risk = maxRisk(levels)
    BY <1>12
  <2> HIDE DEF levels, r
  <2> QED BY <2>1, <2>2, MaxRiskIsHighest
<1> QED BY <1>11, <1>14

AskedInv ==
    /\ pc \in Running => {"verdict", "requirements"} \subseteq DOMAIN answer
    /\ RiskyWritesAreAsked

LEMMA NextAsked ==
    ASSUME OneOfItsName
    PROVE  TypedDiff /\ CaseInv /\ AskedInv /\ [Next]_vars => AskedInv'
<1> SUFFICES ASSUME TypedDiff, CaseInv, AskedInv, [Next]_vars PROVE AskedInv'
  OBVIOUS
<1>1. ASSUME pc' \notin Running PROVE AskedInv'
  BY <1>1 DEF AskedInv, RiskyWritesAreAsked, Running
<1>2. ASSUME pc \in Running, UNCHANGED <<input, changes>>,
             {"verdict", "requirements"} \subseteq DOMAIN answer',
             answer'.requirements = answer.requirements
      PROVE  AskedInv'
  BY <1>2 DEF AskedInv, RiskyWritesAreAsked, Running, Has
<1>3. CASE Judge
  <2>1. /\ changes' = judged /\ input' = input /\ Planned' = Planned
        /\ answer' = judgement(judged)
    <3>1. changes' = judged /\ input' = input /\ answer' = judgement(judged)
      BY <1>3 DEF Judge
    <3> QED BY <3>1, JudgedType DEF TypedDiff, TypeInv, Planned
  <2>2. judged \in [Planned -> Change] /\ changes \in [Planned -> Change]
    BY JudgedType DEF TypedDiff, TypeInv
  <2> DEFINE planLevel == riskLevelFromScore(scorePlan(judged, input.environment))
             asked == requiredApprovals(input.bundle, judged, input.environment, planLevel)
  <2>3. /\ {"verdict", "requirements"} \subseteq DOMAIN answer'
        /\ answer'.requirements = asked
    BY <2>1 DEF judgement
  <2> HIDE DEF planLevel
  <2>4. ASSUME Has(requireApprovalForHighRisk), NEW k \in effectiveChanges(judged),
               riskLevelFromScore(scoreChange(k, judged[k], input.environment))
                 \in {"high", "critical"}
        PROVE  \E r \in asked :
                 severity[riskLevelFromScore(scoreChange(k, judged[k], input.environment))]
                   <= severity[r.risk]
    <3>1. k \in Planned /\ Effective(judged[k])
      BY <2>2 DEF effectiveChanges
    <3>2. judged[k].estimatedRisk =
             riskLevelFromScore(scoreChange(k, judged[k], input.environment))
      BY <2>2, <3>1, JudgedRisk
    <3>3. Planned \subseteq Keys /\ IsCase(input)
      BY DEF TypedDiff, TypeInv
    <3> DEFINE final == judged
    <3>4. /\ final \in [Planned -> Change] /\ k \in effectiveChanges(final)
          /\ final[k].estimatedRisk \in {"high", "critical"}
      BY <2>2, <2>4, <3>2
    <3>5. \E r \in requiredApprovals(input.bundle, final, input.environment, planLevel) :
              severity[final[k].estimatedRisk] <= severity[r.risk]
      <4> HIDE DEF final
      <4> QED BY <2>4, <3>3, <3>4, HighIsAsked
    <3> QED BY <3>2, <3>5
  <2>5. RiskyWritesAreAsked'
    BY <2>1, <2>3, <2>4 DEF RiskyWritesAreAsked, Has
  <2> QED BY <2>3, <2>5 DEF AskedInv
<1>4. CASE Verify
  <2>1. /\ pc = "apply" /\ UNCHANGED <<input, changes>>
        /\ answer' = [answer EXCEPT !.verdict = verifyDesiredState(input.desired, world)]
    BY <1>4 DEF Verify
  <2>2. {"verdict", "requirements"} \subseteq DOMAIN answer /\ pc \in Running
    BY <2>1 DEF AskedInv, Running
  <2>3. DOMAIN answer' = DOMAIN answer /\ answer'.requirements = answer.requirements
    BY <2>1, <2>2
  <2> QED BY <1>2, <2>1, <2>2, <2>3
<1>5. ASSUME NEW k \in Planned, PassOver(k) \/ Put(k) \/ Delete(k) \/ ProviderFails(k)
      PROVE  AskedInv'
  <2>1. pc \in Running /\ UNCHANGED <<input, changes, answer>>
    BY <1>5 DEF PassOver, Put, Delete, ProviderFails, Settle, Running
  <2> QED BY <1>2, <2>1 DEF AskedInv
<1>6. CASE UNCHANGED vars
  BY <1>6 DEF vars, AskedInv, RiskyWritesAreAsked, Has
<1> QED BY <1>1, <1>3, <1>4, <1>5, <1>6, RunKinds

\* Under a policy that has the baseline rule about high risk, and no other rule
\* of that policy with its id, a plan that is run asks for an approval of every
\* write whose own score is high or critical, as severe as the write or more so:
\* no answer of the provider about its risk, and no block of another change,
\* takes it out of what the rule finds (withChangeRisk, evaluateRule,
\* requiredApprovals).
THEOREM RiskyWritesAreAskedAlways ==
    ASSUME OneOfItsName
    PROVE  Spec => []RiskyWritesAreAsked
<1>1. Init => AskedInv
  BY DEF Init, AskedInv, RiskyWritesAreAsked, Running
<1>2. Init /\ [][Next]_vars /\ []TypedDiff /\ []CaseInv => []AskedInv
  BY <1>1, NextAsked, PTL
<1>3. AskedInv => RiskyWritesAreAsked
  BY DEF AskedInv
<1> QED BY <1>2, <1>3, TypedAlways, CaseAlways, PTL DEF Spec

=============================================================================
