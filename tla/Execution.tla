----------------------------- MODULE Execution -----------------------------
(***************************************************************************)
(* One operation, from the moment apply has passed its gates to the moment *)
(* its record is settled: the execution engine (executePlan), the tail of  *)
(* apply that records ownership and verifies, and the two calls that other *)
(* clients may make on the same operation meanwhile, cancel and verify.    *)
(*                                                                         *)
(* Everybody communicates through one row of the operations table, which   *)
(* every writer replaces as a whole (SqliteRuntimeStore.saveOperation).    *)
(*                                                                         *)
(* A step is one call of the store or the stretch that ends in a call of   *)
(* the provider or in a timer.  The shipped server is one Node process     *)
(* over a synchronous SQLite store: its requests interleave only where     *)
(* they wait for the provider or for a timer, and `turn' names the request *)
(* that is between two such waits.  With SharedStore, requests interleave  *)
(* at every store call, as they do when runtimes share the database file   *)
(* or the RuntimeStore is asynchronous.                                    *)
(*                                                                         *)
(* Definitions named original_variant are broken variants of the original, *)
(* each with a plausible bug; nothing uses them.                           *)
(***************************************************************************)
EXTENDS Integers

CONSTANTS
    N,              \* number of changes of the plan
    MaxAttempts,    \* RetryOptions.maxAttempts
    Cancellers,     \* clients that call cancel, once each
    Verifiers,      \* clients that call verify, once each
    SharedStore,    \* do requests interleave at every store call?
    MayFail,        \* may the process crash, or apply reject half-way?
    MayResume       \* may executePlan be given records of an earlier run?

ASSUME NAssumption == N \in Nat
ASSUME AttemptsAssumption == MaxAttempts \in Nat \ {0}
ASSUME ClientsAssumption == Cancellers \cap Verifiers = {}
ASSUME FlagsAssumption == {SharedStore, MayFail, MayResume} \subseteq BOOLEAN
ASSUME NamesAssumption == "apply" \notin Cancellers \cup Verifiers /\ "nobody" \notin Cancellers \cup Verifiers

VARIABLES
    (***********************************************************************)
    (* The immutable plan                                                  *)
    (***********************************************************************)
    action,         \* what each change does; the changes are in plan order
    deps,           \* the changes each change depends on
    (***********************************************************************)
    (* The store, the provider and the processes                           *)
    (***********************************************************************)
    saved,          \* the row of the operations table, or NoRecord
    mem,            \* the OperationRecord that apply holds in memory
    pc,             \* where apply is
    cur,            \* the change executePlan is at
    attempts,       \* attempts made for that change
    verdict,        \* the VerificationResult apply is about to record
    client,         \* where each cancel and verify call is, and what it read
    turn,           \* the request that runs between two waits
    effected,       \* changes that took effect at the provider
    doubt,          \* calls that failed here and may still take effect there
    (***********************************************************************)
    (* History                                                             *)
    (***********************************************************************)
    calls           \* applyChange calls made for each change

plan    == <<action, deps>>
engine  == <<mem, pc, cur, attempts, verdict>>
outside == <<effected, doubt, calls>>
vars    == <<plan, saved, engine, client, turn, outside>>

Change == 1..N
Writes == {i \in Change : action[i] = "write"}
Noops  == {i \in Change : action[i] = "noop"}

Actions       == {"write", "noop", "blocked"}
\* "skipped" carries no error (a noop); "unmet" is a skip with an error.
ChangeResults == {"none", "succeeded", "failed", "skipped", "unmet", "blocked"}
Statuses      == {"created", "running", "partially_completed", "completed", "failed",
                  "verification_failed", "goal_not_satisfied", "cancelled"}
TERMINAL_OPERATION_STATUSES ==
    {"partially_completed", "completed", "failed", "verification_failed",
     "goal_not_satisfied", "cancelled"}
\* "off_goal": the world matches and the success conditions do not hold.
Verdicts      == {"satisfied", "off_goal", "unsatisfied", "verification_failed"}

Operation ==
    [status : Statuses, changes : [Change -> ChangeResults],
     cancellationRequested : BOOLEAN, verification : Verdicts \cup {"null"}]

NoRecord == [status |-> "absent"]

Clients == Cancellers \cup Verifiers
\* A client that is under way holds the row as it read it, and cancel a second copy
\* of it while it requests the cancellation.
Idle    == [at |-> "idle", snap |-> NoRecord, row |-> NoRecord]

\* apply waits at these: for the provider, for a timer, or for good.
Waits == {"calling", "backoff", "record", "verify", "returned", "rejected", "crashed"}
Ended == {"returned", "rejected", "crashed"}

-----------------------------------------------------------------------------
(***************************************************************************)
(* The event loop                                                          *)
(***************************************************************************)
MayRun(who) == turn \in {who, "nobody"}

\* who goes on until it waits, unless requests interleave at every store call.
Continues(who) == turn' = IF SharedStore THEN "nobody" ELSE who
Yields         == turn' = "nobody"

ApplyGoes(to) ==
    /\ pc' = to
    /\ IF to \in Waits THEN Yields ELSE Continues("apply")

-----------------------------------------------------------------------------
(***************************************************************************)
(* The engine's decisions                                                  *)
(***************************************************************************)
dependencySatisfied_anyRecord(changes, d) == changes[d] # "none"
dependencySatisfied_successOnly(changes, d) == changes[d] = "succeeded"

dependencySatisfied(changes, d) ==
    \/ changes[d] = "succeeded"
    \/ action[d] = "noop" /\ changes[d] = "skipped"

unmet(changes, i) == {d \in deps[i] : ~dependencySatisfied(changes, d)}

unattempted_noopSucceeds(changes, i) ==
    CASE action[i] = "blocked"    -> "blocked"
      [] action[i] = "noop"       -> "succeeded"
      [] OTHER -> IF unmet(changes, i) # {} THEN "unmet" ELSE "none"

\* What runChange records without calling the provider; "none" when it calls.
unattempted(changes, i) ==
    CASE action[i] = "blocked"    -> "blocked"
      [] action[i] = "noop"       -> "skipped"
      [] OTHER -> IF unmet(changes, i) # {} THEN "unmet" ELSE "none"

finalStatus_failuresOnly(changes) ==
    IF \E i \in Change : changes[i] = "failed" THEN "failed" ELSE "completed"

finalStatus(changes) ==
    LET has(result) == \E i \in Change : changes[i] = result
        incomplete  == has("failed") \/ has("blocked") \/ has("unmet")
    IN  IF ~incomplete THEN "completed"
        ELSE IF ~has("succeeded") /\ has("failed") THEN "failed"
        ELSE "partially_completed"

\* normalizeError: once the timeout has fired, whatever was thrown counts as a
\* PROVIDER_TIMEOUT, which is retryable.
retryable(error, expired) == expired \/ error = "transient"

mayRetry_oneMore(error, expired) == retryable(error, expired) /\ attempts <= MaxAttempts

mayRetry(error, expired) == retryable(error, expired) /\ attempts < MaxAttempts

alreadySucceeded_never(i) == FALSE

\* A change recorded as succeeded is not executed again.
alreadySucceeded(i) == mem.changes[i] = "succeeded"

\* What a verdict makes of a completed operation.
judgedStatus ==
    [satisfied |-> "completed", off_goal |-> "goal_not_satisfied",
     unsatisfied |-> "verification_failed", verification_failed |-> "verification_failed"]

applyVerification(operation, result) ==
    [operation EXCEPT
        !.verification = result,
        !.status = IF @ = "completed" THEN judgedStatus[result] ELSE @]

\* The status cancel writes back.
cancelledStatus(status) == IF status = "created" THEN "cancelled" ELSE status

-----------------------------------------------------------------------------
(***************************************************************************)
(* The initial states: any plan in topological order, the idempotency key  *)
(* just claimed.  Changes that an earlier run completed are known to have  *)
(* taken effect, and so are those they depend on.                          *)
(***************************************************************************)
EarlierResults ==
    {done \in SUBSET Writes :
        /\ MayResume \/ done = {}
        /\ \A i \in done : deps[i] \subseteq done \cup Noops}

Init ==
    /\ action \in [Change -> Actions]
    /\ deps \in [Change -> SUBSET Change]
    /\ \A i \in Change : \A d \in deps[i] : d < i
    /\ \E done \in EarlierResults :
        /\ mem = [status |-> "created",
                  changes |-> [i \in Change |-> IF i \in done THEN "succeeded" ELSE "none"],
                  cancellationRequested |-> FALSE, verification |-> "null"]
        /\ effected = done
    /\ saved = NoRecord
    /\ pc = "create"
    /\ cur = 1
    /\ attempts = 0
    /\ verdict = "satisfied"
    /\ client = [c \in Clients |-> Idle]
    /\ turn = "nobody"
    /\ doubt = {}
    /\ calls = [i \in Change |-> 0]

-----------------------------------------------------------------------------
(***************************************************************************)
(* apply and executePlan                                                   *)
(***************************************************************************)
\* onProgress, and every other save of apply, replaces the whole row by the
\* record in memory.
Save(operation) == mem' = operation /\ saved' = operation

Create ==
    /\ pc = "create" /\ MayRun("apply")
    /\ Save(mem)
    /\ ApplyGoes("begin")
    /\ UNCHANGED <<plan, cur, attempts, verdict, client, outside>>

Begin ==
    /\ pc = "begin" /\ MayRun("apply")
    /\ Save([mem EXCEPT !.status = "running"])
    /\ ApplyGoes("next")
    /\ UNCHANGED <<plan, cur, attempts, verdict, client, outside>>

PassOver ==
    /\ pc = "next" /\ cur <= N /\ MayRun("apply")
    /\ alreadySucceeded(cur)
    /\ cur' = cur + 1
    /\ ApplyGoes("next")
    /\ UNCHANGED <<plan, saved, mem, attempts, verdict, client, outside>>

\* isCancellationRequested reads the row; a request ends the execution.
PollCancellation ==
    /\ pc = "next" /\ cur <= N /\ MayRun("apply")
    /\ ~alreadySucceeded(cur)
    /\ IF saved.cancellationRequested
       THEN /\ Save([mem EXCEPT !.status = "cancelled"])
            /\ ApplyGoes("record")
       ELSE /\ ApplyGoes("run")
            /\ UNCHANGED <<saved, mem>>
    /\ UNCHANGED <<plan, cur, attempts, verdict, client, outside>>

Settle_sameNoopAgain(result) ==
    /\ Save([mem EXCEPT !.changes[cur] = result])
    /\ cur' = IF result = "skipped" THEN cur ELSE cur + 1
    /\ attempts' = 0
    /\ ApplyGoes("next")

\* The loop goes to the next change with this one recorded and saved.
Settle(result) ==
    /\ Save([mem EXCEPT !.changes[cur] = result])
    /\ cur' = cur + 1
    /\ attempts' = 0
    /\ ApplyGoes("next")

\* Blocked changes, noops, and changes whose dependencies are not satisfied.
SettleUnattempted ==
    /\ pc = "run" /\ MayRun("apply")
    /\ unattempted(mem.changes, cur) # "none"
    /\ Settle(unattempted(mem.changes, cur))
    /\ UNCHANGED <<plan, verdict, client, outside>>

CallProvider ==
    /\ \/ pc = "run" /\ unattempted(mem.changes, cur) = "none"
       \/ pc = "backoff"
    /\ MayRun("apply")
    /\ calls' = [calls EXCEPT ![cur] = @ + 1]
    /\ attempts' = attempts + 1
    /\ ApplyGoes("calling")
    /\ UNCHANGED <<plan, saved, mem, cur, verdict, client, effected, doubt>>

\* Success counts even when the timeout has fired meanwhile.
ProviderSucceeds ==
    /\ pc = "calling" /\ MayRun("apply")
    /\ effected' = effected \cup {cur}
    /\ Settle("succeeded")
    /\ UNCHANGED <<plan, verdict, client, doubt, calls>>

\* An error does not tell whether the change took effect, or still will.
ProviderFails(error, expired) ==
    /\ pc = "calling" /\ MayRun("apply")
    /\ doubt' \in {doubt, doubt \cup {cur}}
    /\ IF mayRetry(error, expired)
       THEN /\ ApplyGoes("backoff")
            /\ UNCHANGED <<saved, mem, cur, attempts>>
       ELSE Settle("failed")
    /\ UNCHANGED <<plan, verdict, client, effected, calls>>

Finish ==
    /\ pc = "next" /\ cur > N /\ MayRun("apply")
    /\ Save([mem EXCEPT !.status = finalStatus(mem.changes)])
    /\ ApplyGoes("record")
    /\ UNCHANGED <<plan, cur, attempts, verdict, client, outside>>

\* recordOwnership inspects the provider again; its failure is a Reject.
RecordOwnership ==
    /\ pc = "record" /\ MayRun("apply")
    /\ ApplyGoes("verify")
    /\ UNCHANGED <<plan, saved, mem, cur, attempts, verdict, client, outside>>

\* runVerification turns every failure into a verdict.
RunVerification ==
    /\ pc = "verify" /\ MayRun("apply")
    /\ verdict' \in Verdicts
    /\ ApplyGoes("judge")
    /\ UNCHANGED <<plan, saved, mem, cur, attempts, client, outside>>

ApplyVerification ==
    /\ pc = "judge" /\ MayRun("apply")
    /\ Save(applyVerification(mem, verdict))
    /\ ApplyGoes("returned")
    /\ UNCHANGED <<plan, cur, attempts, verdict, client, outside>>

\* An exception of the store, the audit log or the second inspection leaves
\* apply; errors of applyChange never do.
Reject ==
    /\ MayFail /\ MayRun("apply")
    /\ pc \notin Ended \cup {"calling", "backoff"}
    /\ ApplyGoes("rejected")
    /\ UNCHANGED <<plan, saved, mem, cur, attempts, verdict, client, outside>>

\* The process dies: no request it served goes on, and none is resumed after
\* the restart.  A provider call in flight may still take effect.
Crash ==
    /\ MayFail
    /\ pc \notin Ended
    /\ pc' = "crashed"
    /\ client' = [c \in Clients |->
                    IF client[c].at = "idle" THEN client[c]
                    ELSE [at |-> "over", snap |-> NoRecord, row |-> NoRecord]]
    /\ doubt' = IF pc = "calling" THEN doubt \cup {cur} ELSE doubt
    /\ Yields
    /\ UNCHANGED <<plan, saved, mem, cur, attempts, verdict, effected, calls>>

\* The provider carries out a call that has failed here.
LateEffect(i) ==
    /\ i \in doubt
    /\ effected' = effected \cup {i}
    /\ doubt' = doubt \ {i}
    /\ UNCHANGED <<plan, saved, engine, client, turn, calls>>

-----------------------------------------------------------------------------
(***************************************************************************)
(* cancel and verify, called by anybody who knows the operation            *)
(***************************************************************************)
ClientGoes(c, to, snap) ==
    client' = [client EXCEPT ![c] = [at |-> to, snap |-> snap, row |-> NoRecord]]

\* cancel reads the row and answers 409 for the statuses it takes for final.
CancelRead(c) ==
    /\ client[c].at = "idle" /\ saved # NoRecord /\ MayRun(c)
    /\ IF saved.status \in {"completed", "failed", "cancelled", "verification_failed"}
       THEN ClientGoes(c, "refused", NoRecord) /\ Yields
       ELSE ClientGoes(c, "request", saved) /\ Continues(c)
    /\ UNCHANGED <<plan, saved, engine, outside>>

\* store.requestCancellation reads the row again ...
RequestReads(c) ==
    /\ client[c].at = "request" /\ MayRun(c)
    /\ client' = [client EXCEPT ![c].at = "requesting", ![c].row = saved]
    /\ Continues(c)
    /\ UNCHANGED <<plan, saved, engine, outside>>

\* ... and saves what it read, with the flag set.
RequestSaves(c) ==
    /\ client[c].at = "requesting" /\ MayRun(c)
    /\ saved' = [client[c].row EXCEPT !.cancellationRequested = TRUE]
    /\ ClientGoes(c, "save", client[c].snap)
    /\ Continues(c)
    /\ UNCHANGED <<plan, engine, outside>>

\* cancel then saves the record that it had read itself, with the flag set.
CancelSave(c) ==
    /\ client[c].at = "save" /\ MayRun(c)
    /\ saved' = [client[c].snap EXCEPT
                    !.cancellationRequested = TRUE,
                    !.status = cancelledStatus(@)]
    /\ ClientGoes(c, "accepted", NoRecord)
    /\ Yields
    /\ UNCHANGED <<plan, engine, outside>>

\* verify reads the row, then waits for the provider's inspection.
VerifyRead(c) ==
    /\ client[c].at = "idle" /\ saved # NoRecord /\ MayRun(c)
    /\ ClientGoes(c, "inspecting", saved)
    /\ Yields
    /\ UNCHANGED <<plan, saved, engine, outside>>

\* It saves the record it read with the verdict in it.
VerifySave(c, result) ==
    /\ client[c].at = "inspecting" /\ MayRun(c)
    /\ saved' = applyVerification(client[c].snap, result)
    /\ ClientGoes(c, "verified", NoRecord)
    /\ Yields
    /\ UNCHANGED <<plan, engine, outside>>

-----------------------------------------------------------------------------
Apply ==
    \/ Create \/ Begin \/ PassOver \/ PollCancellation \/ SettleUnattempted
    \/ CallProvider \/ ProviderSucceeds
    \/ \E error \in {"transient", "final"}, expired \in BOOLEAN : ProviderFails(error, expired)
    \/ Finish \/ RecordOwnership \/ RunVerification \/ ApplyVerification

Cancel(c) == CancelRead(c) \/ RequestReads(c) \/ RequestSaves(c) \/ CancelSave(c)
Verify(c) == VerifyRead(c) \/ \E result \in Verdicts : VerifySave(c, result)

\* Nothing is left to do once apply has ended and no call can be made.
Rest ==
    /\ pc \in Ended
    /\ UNCHANGED vars

Next ==
    \/ Apply \/ Reject \/ Crash
    \/ \E i \in Change : LateEffect(i)
    \/ \E c \in Cancellers : Cancel(c)
    \/ \E c \in Verifiers : Verify(c)
    \/ Rest

Spec == Init /\ [][Next]_vars

(***************************************************************************)
(* The engine is never left behind: Node resumes a request whose wait is   *)
(* over, and a provider call is over at the latest when its timeout aborts *)
(* it.  Likewise a client's call, once begun.  Nobody has to make a call.  *)
(***************************************************************************)
Fairness ==
    /\ WF_vars(Apply)
    /\ \A c \in Cancellers : WF_vars(RequestReads(c) \/ RequestSaves(c) \/ CancelSave(c))
    /\ \A c \in Verifiers : WF_vars(\E result \in Verdicts : VerifySave(c, result))

FairSpec == Spec /\ Fairness

-----------------------------------------------------------------------------
(***************************************************************************)
(* Properties                                                              *)
(***************************************************************************)
\* Well-formed states.  The attempts of a change stay within the limit, although
\* runChange compares them before and after it counts one.
TypeOK ==
    /\ action \in [Change -> Actions]
    /\ deps \in [Change -> SUBSET Change]
    /\ saved \in Operation \cup {NoRecord}
    /\ mem \in Operation
    /\ pc \in {"create", "begin", "next", "run", "judge"} \cup Waits
    /\ cur \in 1..(N + 1)
    /\ attempts \in 0..MaxAttempts
    /\ verdict \in Verdicts
    /\ client \in [Clients ->
          [at : {"idle", "refused", "request", "requesting", "save", "accepted",
                 "inspecting", "verified", "over"},
           snap : Operation \cup {NoRecord}, row : Operation \cup {NoRecord}]]
    /\ turn \in Clients \cup {"apply", "nobody"}
    /\ effected \subseteq Change
    /\ doubt \subseteq Change
    /\ calls \in [Change -> Nat]

\* No change reaches the provider before everything it depends on has taken
\* effect there or was already in place, whatever failed, was retried, was
\* cancelled or was resumed on the way (runChange's `unmet').
DependenciesFirst ==
    \A i \in Change : calls[i] > 0 => deps[i] \subseteq effected \cup Noops

\* A success in the operation's row is a success at the provider, also in a row
\* that a client has overwritten with what it read earlier.
RecordedSuccessIsReal ==
    saved # NoRecord => \A i \in Change : saved.changes[i] = "succeeded" => i \in effected

\* An incomplete end has a root cause: some change failed or was blocked, it is
\* not only that changes were skipped because others were skipped.
IncompleteHasCause ==
    mem.status \in {"failed", "partially_completed"}
        => \E i \in Change : mem.changes[i] \in {"failed", "blocked"}

\* The three statuses that say the execution was complete appear in the row only
\* when every write has taken effect and nothing in the plan was blocked, and
\* "completed" itself never stands beside a verification that was not satisfied
\* (SPEC section 17): whoever verified, and whatever record it started from
\* (finalStatus, #applyVerification and the stale saves of cancel and verify).
CompletedIsEarned ==
    saved # NoRecord =>
        /\ saved.status \in {"completed", "verification_failed", "goal_not_satisfied"}
            => Change = Noops \cup (Writes \cap effected)
        /\ saved.verification \notin {"null", "satisfied"} => saved.status # "completed"

\* A change recorded as succeeded, in this run or an earlier one, is never sent
\* to the provider again.
NeverRepeatsSuccess ==
    [][\A i \in Change : mem.changes[i] = "succeeded" => calls'[i] = calls[i]]_vars

\* Apply and cancel end.  Apply does, since the retries are bounded and no request
\* waits for another; if it does by returning, the row is final from then on,
\* whatever cancel saves over it; and a cancel that was begun is answered, or died
\* with the process.  (A verify that overlaps the end of apply saves the row as it
\* read it, which may leave it "running": the first half is about operations that
\* nobody verifies meanwhile.)
EveryCallEnds ==
    /\ <>[](pc \in Ended /\ (pc = "returned" => saved.status \in TERMINAL_OPERATION_STATUSES))
    /\ \A c \in Cancellers :
        client[c].at \in {"request", "requesting", "save"} ~> client[c].at \in {"accepted", "over"}

(***************************************************************************)
(* The run as the provider's world sees it                                 *)
(***************************************************************************)
\* The outcome is decided by executePlan; a run that ends otherwise is not
\* complete.
runOutcome ==
    IF mem.status \in {"completed", "verification_failed", "goal_not_satisfied"} THEN "complete"
    ELSE IF mem.status \in {"failed", "partially_completed", "cancelled"}
            \/ pc \in {"rejected", "crashed"} THEN "incomplete"
    ELSE "open"

Run == INSTANCE PlanRun WITH done <- effected, outcome <- runOutcome

\* The engine implements the promise.
ImplementsPlanRun == Run!Spec
=============================================================================
