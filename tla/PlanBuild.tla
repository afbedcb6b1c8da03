------------------------------ MODULE PlanBuild ------------------------------
(***************************************************************************)
(* The runtime's plan, from the request to the plan it stores, and one     *)
(* run of that plan: the changes are computed, put in an order, shown to   *)
(* the provider, and judged; an executable plan is applied change by       *)
(* change, and the world is then verified.                                 *)
(*                                                                         *)
(* Ordering is one step for each change the loop of topologicalOrder       *)
(* takes, the search for a cycle one step for each call it makes or ends.  *)
(* Retries, cancellation and crashes of the run are Execution's, drift,    *)
(* approvals and expiry PlanLifecycle's, the record of owners Ownership's: *)
(* here nobody else touches the world.                                     *)
(***************************************************************************)
EXTENDS PlanRules, Admission, SequencesExt

CONSTANT Families   \* sets of requests and of the servers they are made to

\* document           the document, before it is known to be sound
\* desired, current   what it asks for, what the provider showed
\* allowDelete ...    the options of the request
\* conflicts          the keys with a field that another document owns
\* contract           what the constraints of the document evaluate to
\* hook               whether the provider has a plan hook ("any": no telling
\*                    what it does)
\* the rest           the configuration of the server
IsCase(c) ==
    /\ IsDocument(c.document)
    /\ IsProjection(c.desired) /\ IsProjection(c.current)
    /\ c.allowDelete \in BOOLEAN /\ c.allowReplace \in BOOLEAN
    /\ c.conflicts \subseteq Keys
    /\ c.contract \subseteq Outcomes
    /\ c.hook \in {"none", "any"}
    /\ c.allowDestructive \in BOOLEAN /\ {c.maxChanges, c.maxResources} \subseteq Nat
    /\ c.environment \in Environments
    /\ c.bundle \in Seq(Rule)

\* The names the code orders by are numbered in the order of compareStrings.
ASSUME OrderAssumption == Keys \subseteq Nat /\ Types \subseteq Nat
ASSUME CasesAssumption == \A family \in Families : \A c \in family : IsCase(c)

VARIABLES
    input,          \* the case; it does not change
    pc,
    changes,        \* key -> change
    placed,         \* the keys of the changes ordered so far
    stack,          \* findCycle: the calls of visit under way
    finished,       \* findCycle: the nodes that are done
    answer,         \* what the plan or its rejection says
    world,          \* key -> resource
    results         \* key -> what became of its change

vars == <<input, pc, changes, placed, stack, finished, answer, world, results>>

options == [allowDelete  |-> input.allowDelete /\ input.allowDestructive,
            allowReplace |-> input.allowReplace /\ input.allowDestructive]

Planned == DOMAIN changes

computed == computeChanges(input.desired, input.current, options)

Pending == [error |-> "none"]

fail(code, cycle) ==
    /\ pc' = "failed"
    /\ answer' = [error |-> code, cycle |-> cycle]

Init ==
    /\ \E family \in Families : input \in family
    /\ pc = "asked"
    /\ changes = <<>>
    /\ placed = <<>>
    /\ stack = <<>>
    /\ finished = {}
    /\ answer = Pending
    /\ world = input.current
    /\ results = <<>>

-----------------------------------------------------------------------------
(***************************************************************************)
(* The changes                                                             *)
(***************************************************************************)
RefuseOptions ==
    /\ pc = "asked"
    /\ input.allowDelete /\ ~input.allowDestructive
    /\ fail("DESTRUCTIVE_ACTION_BLOCKED", <<>>)
    /\ UNCHANGED <<input, changes, placed, stack, finished, world, results>>

Accepted ==
    /\ pc = "asked"
    /\ input.allowDelete => input.allowDestructive

RefuseDocument ==
    /\ Accepted
    /\ \E code \in prepare(input.document) : fail(code, <<>>)
    /\ UNCHANGED <<input, changes, placed, stack, finished, world, results>>

Prepared == Accepted /\ prepare(input.document) = {}

\* #assertResourceLimits
withinLimits ==
    \A projection \in {input.desired, input.current} :
        Cardinality(DOMAIN projection) <= input.maxResources

RefuseResources ==
    /\ Prepared
    /\ ~withinLimits
    /\ fail("TOO_MANY_RESOURCES", <<>>)
    /\ UNCHANGED <<input, changes, placed, stack, finished, world, results>>

RefuseSize ==
    /\ Prepared /\ withinLimits
    /\ Cardinality(DOMAIN computed) > input.maxChanges
    /\ fail("TOO_MANY_CHANGES", <<>>)
    /\ UNCHANGED <<input, changes, placed, stack, finished, world, results>>

Compute ==
    /\ Prepared /\ withinLimits
    /\ Cardinality(DOMAIN computed) <= input.maxChanges
    /\ changes' = computed
    /\ pc' = "order"
    /\ UNCHANGED <<input, placed, stack, finished, answer, world, results>>

-----------------------------------------------------------------------------
(***************************************************************************)
(* topologicalOrder                                                        *)
(***************************************************************************)
ACTION_RANK == [create |-> 0, update |-> 1, replace |-> 2, delete |-> 3, noop |-> 4, blocked |-> 5]

\* compareChanges: j goes before k.
Before(j, k) ==
    LET rank(i) == ACTION_RANK[changes[i].action]
    IN  \/ rank(j) < rank(k)
        \/ rank(j) = rank(k) /\ TypeOf[j] < TypeOf[k]
        \/ rank(j) = rank(k) /\ TypeOf[j] = TypeOf[k] /\ j < k

Placed == Range(placed)

ready_oneDependency ==
    {k \in Planned \ Placed :
        \/ changes[k].dependencies = {}
        \/ changes[k].dependencies \cap Placed # {}}

ready == {k \in Planned \ Placed : changes[k].dependencies \subseteq Placed}

Place(k) ==
    /\ pc = "order"
    /\ k \in ready
    /\ \A j \in ready \ {k} : Before(k, j)
    /\ placed' = Append(placed, k)
    /\ UNCHANGED <<input, pc, changes, stack, finished, answer, world, results>>

Ordered ==
    /\ pc = "order"
    /\ Placed = Planned
    /\ pc' = "refine"
    /\ UNCHANGED <<input, changes, placed, stack, finished, answer, world, results>>

Stuck ==
    /\ pc = "order"
    /\ ready = {}
    /\ Placed # Planned
    /\ pc' = "cycle"
    /\ UNCHANGED <<input, changes, placed, stack, finished, answer, world, results>>

-----------------------------------------------------------------------------
(***************************************************************************)
(* findCycle.  The dependencies of a change are in the order of their ids, *)
(* which are hashes: any order.                                            *)
(***************************************************************************)
cycleFrom(k) == Append(SubSeq(stack, CHOOSE i \in DOMAIN stack : stack[i] = k, Len(stack)), k)

VisitRoot(k) ==
    /\ pc = "cycle"
    /\ stack = <<>>
    /\ k \in Planned \ finished
    /\ \A j \in Planned \ finished : k <= j
    /\ stack' = <<k>>
    /\ UNCHANGED <<input, pc, changes, placed, finished, answer, world, results>>

VisitDependency(k) ==
    /\ pc = "cycle"
    /\ stack # <<>>
    /\ k \in changes[Last(stack)].dependencies \ (finished \cup Range(stack))
    /\ stack' = Append(stack, k)
    /\ UNCHANGED <<input, pc, changes, placed, finished, answer, world, results>>

MeetAgain(k) ==
    /\ pc = "cycle"
    /\ stack # <<>>
    /\ k \in changes[Last(stack)].dependencies \cap Range(stack)
    /\ fail("DEPENDENCY_CYCLE_DETECTED", cycleFrom(k))
    /\ UNCHANGED <<input, changes, placed, stack, finished, world, results>>

Leave ==
    /\ pc = "cycle"
    /\ stack # <<>>
    /\ changes[Last(stack)].dependencies \subseteq finished
    /\ stack' = Front(stack)
    /\ finished' = finished \cup {Last(stack)}
    /\ UNCHANGED <<input, pc, changes, placed, answer, world, results>>

-----------------------------------------------------------------------------
(***************************************************************************)
(* The provider's word on the ordered changes                              *)
(***************************************************************************)
original == [i \in DOMAIN placed |-> [key |-> placed[i], change |-> changes[placed[i]]]]

\* What a provider may make of one change; it should only annotate.
Reworked(change) ==
    {[change EXCEPT !.destructive = TRUE], [change EXCEPT !.reversible = ~@],
     [change EXCEPT !.estimatedRisk = "low"], [change EXCEPT !.fields = {}],
     [change EXCEPT !.action = @], [change EXCEPT !.action = change.intent],
     [change EXCEPT !.action = "delete"],
     [change EXCEPT !.dependencies = {}], [change EXCEPT !.after = change.before],
     [change EXCEPT !.before = {}]}

Answers ==
    (UNION {{[original EXCEPT ![i].change = c] : c \in Reworked(original[i].change)} :
              i \in DOMAIN original})
    \cup {Reverse(original)}
    \cup {Front(o) : o \in {original} \ {<<>>}}

\* The intent of a change is in its id.
protectedFields_actionOnly(c) == <<c.key, c.change.action>>

protectedFields(c) ==
    <<c.key, c.change.intent, c.change.action, c.change.dependencies,
      c.change.before, c.change.after>>

assertRefinement(refined) ==
    /\ Len(refined) = Len(original)
    /\ \A i \in DOMAIN original : protectedFields(refined[i]) = protectedFields(original[i])

NoHook ==
    /\ pc = "refine"
    /\ input.hook = "none"
    /\ pc' = "judge"
    /\ UNCHANGED <<input, changes, placed, stack, finished, answer, world, results>>

Refine(refined) ==
    /\ pc = "refine"
    /\ input.hook = "any"
    /\ assertRefinement(refined)
    /\ changes' = [k \in Planned |->
                     refined[CHOOSE i \in DOMAIN placed : placed[i] = k].change]
    /\ pc' = "judge"
    /\ UNCHANGED <<input, placed, stack, finished, answer, world, results>>

RejectRefinement(refined) ==
    /\ pc = "refine"
    /\ input.hook = "any"
    /\ ~assertRefinement(refined)
    /\ fail("PROVIDER_ERROR", <<>>)
    /\ UNCHANGED <<input, changes, placed, stack, finished, world, results>>

-----------------------------------------------------------------------------
(***************************************************************************)
(* The judgement                                                           *)
(***************************************************************************)
blockConflicted_named(refined) ==
    [k \in DOMAIN refined |->
        IF k \in input.conflicts /\ Effective(refined[k])
        THEN [refined[k] EXCEPT !.action = "conflict"] ELSE refined[k]]

blockConflicted(refined) ==
    [k \in DOMAIN refined |->
        IF k \in input.conflicts /\ Effective(refined[k])
        THEN [refined[k] EXCEPT !.action = "blocked"] ELSE refined[k]]

\* The risks are those of before the blocking; a blocked change has none.
judged == blockConflicted(withChangeRisk(changes, input.environment))

judgement(final) ==
    LET score == scorePlan(final, input.environment)
        level == riskLevelFromScore(score)
        may   == allowed(input.bundle, final, input.environment)
    IN  [error        |-> "none",
         riskScore    |-> score,
         requirements |-> requiredApprovals(input.bundle, final, input.environment, level),
         executable   |-> may /\ contractSatisfied(input.contract),
         verdict      |-> "none"]

Judge ==
    /\ pc = "judge"
    /\ changes' = judged
    /\ answer' = judgement(judged)
    /\ pc' = IF judgement(judged).executable THEN "apply" ELSE "refused"
    /\ results' = [k \in Planned |-> "none"]
    /\ UNCHANGED <<input, placed, stack, finished, world>>

-----------------------------------------------------------------------------
(***************************************************************************)
(* The run: the changes in the order of the plan, each sent once           *)
(***************************************************************************)
unsettled == {i \in DOMAIN placed : results[placed[i]] = "none"}

metDependency_settled(k) == results[k] # "none"

metDependency(k) == \/ results[k] = "succeeded"
                    \/ changes[k].action = "noop" /\ results[k] = "skipped"

Settle(k, result) ==
    /\ pc = "apply"
    /\ \E i \in unsettled : k = placed[i] /\ \A j \in unsettled : i <= j
    /\ results' = [results EXCEPT ![k] = result]
    /\ UNCHANGED <<input, pc, changes, placed, stack, finished, answer>>

met(k) == Effective(changes[k]) /\ \A d \in changes[k].dependencies : metDependency(d)

PassOver(k) ==
    /\ Settle(k, CASE changes[k].action = "blocked" -> "blocked"
                   [] changes[k].action = "noop"    -> "skipped"
                   [] OTHER                         -> "unmet")
    /\ ~met(k)
    /\ UNCHANGED world

Put(k) ==
    /\ Settle(k, "succeeded")
    /\ met(k) /\ changes[k].action # "delete"
    /\ world' = [j \in DOMAIN world \cup {k} |-> IF j = k THEN input.desired[k] ELSE world[j]]

Delete(k) ==
    /\ Settle(k, "succeeded")
    /\ met(k) /\ changes[k].action = "delete"
    /\ world' = [j \in DOMAIN world \ {k} |-> world[j]]

ProviderFails(k) ==
    /\ Settle(k, "failed")
    /\ met(k)
    /\ UNCHANGED world

Verify ==
    /\ pc = "apply"
    /\ unsettled = {}
    /\ pc' = "verified"
    /\ answer' = [answer EXCEPT !.verdict = verifyDesiredState(input.desired, world)]
    /\ UNCHANGED <<input, changes, placed, stack, finished, world, results>>

-----------------------------------------------------------------------------
Ended == pc \in {"failed", "refused", "verified"} /\ UNCHANGED vars

Next ==
    \/ RefuseOptions \/ RefuseDocument \/ RefuseResources \/ RefuseSize \/ Compute
    \/ \E k \in Planned : Place(k)
    \/ Ordered \/ Stuck
    \/ \E k \in Planned : VisitRoot(k) \/ VisitDependency(k) \/ MeetAgain(k)
    \/ Leave
    \/ NoHook
    \/ \E refined \in Answers : Refine(refined) \/ RejectRefinement(refined)
    \/ Judge
    \/ \E k \in Planned : PassOver(k) \/ Put(k) \/ Delete(k) \/ ProviderFails(k)
    \/ Verify
    \/ Ended

Spec == Init /\ [][Next]_vars

-----------------------------------------------------------------------------
(***************************************************************************)
(* Properties                                                              *)
(***************************************************************************)
\* The shape of the state.
TypeOK ==
    /\ IsCase(input)
    /\ pc \in {"asked", "order", "cycle", "refine", "judge", "refused", "apply",
              "verified", "failed"}
    /\ DOMAIN changes \subseteq Keys
    /\ \A k \in DOMAIN changes : IsChange(changes[k])
    /\ placed \in Seq(Keys) /\ stack \in Seq(Keys)
    /\ finished \subseteq Keys
    /\ IsProjection(world)

\* validate finds nothing in a document exactly when plan takes it and its
\* secrets are there: neither handler checks less than the other (validate,
\* #prepare).
ValidateForetells ==
    LET issues == validate(input.document)
    IN  /\ answer.error \in {"DOCUMENT_TOO_LARGE", "DOCUMENT_TOO_DEEP", "UNKNOWN_KIND",
                             "SCHEMA_VALIDATION_FAILED", "CONTRACT_PREDICATE_INVALID",
                             "VALIDATION_FAILED"} => issues # {}
        /\ pc \notin {"asked", "failed"} => issues \subseteq {"SECRET_NOT_FOUND"}

OrderKnown == pc \in {"refine", "judge", "refused", "apply", "verified"}

\* Every change is in the order of the plan once, after everything it depends
\* on, and a plan is refused for a cycle only with one in hand: each resource
\* named depends on the next and none is named twice before the first comes back
\* (topologicalOrder and findCycle; execute.ts takes the changes in this order).
PlanIsOrdered ==
    /\ OrderKnown =>
        /\ Placed = Planned
        /\ \A i, j \in DOMAIN placed : placed[i] = placed[j] => i = j
        /\ \A i \in DOMAIN placed :
             changes[placed[i]].dependencies \subseteq {placed[j] : j \in 1..(i - 1)}
    /\ answer.error = "DEPENDENCY_CYCLE_DETECTED" =>
        LET cycle == answer.cycle
        IN  /\ Len(cycle) > 1
            /\ cycle[1] = Last(cycle)
            /\ \A i \in 1..(Len(cycle) - 1) :
                 cycle[i + 1] \in changes[cycle[i]].dependencies
            /\ \A i, j \in 1..(Len(cycle) - 1) : cycle[i] = cycle[j] => i = j

\* Whatever the provider answered, the plan changes what the diff found, the
\* same way, under the same dependencies, or blocks it; and what another document
\* owns stays as it is (assertRefinement, blockConflicted, execute.ts).
PlanIsTheDiff ==
    /\ pc \in {"judge", "refused", "apply", "verified"} =>
        /\ Planned = DOMAIN computed
        /\ \A k \in Planned :
             /\ changes[k].action \in {computed[k].action, "blocked"}
             /\ changes[k].dependencies = computed[k].dependencies
             /\ changes[k].before = computed[k].before
             /\ changes[k].after = computed[k].after
    /\ \A k \in input.conflicts : attributes(world, k) = attributes(input.current, k)

Has(rule) == \E i \in DOMAIN input.bundle : input.bundle[i] = rule

\* Under the baseline policy no request, no option and no provider makes a
\* resource disappear or an immutable field that is set change
\* (BASELINE_SAFETY_POLICY: "no destructive changes").
NothingIsDestroyed ==
    Has(blockDelete) /\ Has(blockReplace) =>
        \A k \in DOMAIN input.current :
            /\ k \in DOMAIN world
            /\ \A p \in definition(k).immutable :
                 p \in DOMAIN input.current[k].attributes \cap DOMAIN world[k].attributes
                 => world[k].attributes[p] = input.current[k].attributes[p]

\* Under the baseline policy a write whose score is high is approved as such,
\* whatever risk the provider said it had (withChangeRisk, evaluatePolicies).
RiskyWritesAreAsked ==
    pc \in {"apply", "verified"} /\ Has(requireApprovalForHighRisk) =>
        \A k \in effectiveChanges(changes) :
            LET level == riskLevelFromScore(scoreChange(k, changes[k], input.environment))
            IN  level \in {"high", "critical"} =>
                    \E r \in answer.requirements : severity[level] <= severity[r.risk]

\* Nothing is written before what it is declared to depend on is there
\* (dependenciesFor, topologicalOrder, execute.ts).
WritesFindTheirDependencies ==
    \A k \in DOMAIN results :
        results[k] = "succeeded" /\ changes[k].action # "delete" =>
            input.desired[k].dependsOn \cap DOMAIN input.desired \subseteq DOMAIN world

\* Leaf by leaf, is resource k what the document says?
Agrees(k) ==
    /\ k \in DOMAIN input.desired <=> k \in DOMAIN world
    /\ k \in DOMAIN input.desired =>
         \A p \in Paths : at(input.desired[k].attributes, p) = at(world[k].attributes, p)

\* A change that was made, or found not to be needed, leaves the resource as
\* the document has it; one that was not made leaves it different; and when
\* all were, verification says so (fieldDiffs, computeChanges, verify.ts).
Converges ==
    pc = "verified" =>
        /\ \A k \in Planned : Agrees(k) <=> results[k] \in {"succeeded", "skipped"}
        /\ (\A k \in Planned : Agrees(k)) => answer.verdict = "satisfied"
        /\ answer.verdict = "satisfied" =>
             \A f \in desiredLeaves(input.desired) : f[1] \in DOMAIN world

=============================================================================
