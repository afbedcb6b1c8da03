-------------------------- MODULE Execution_proof --------------------------
(***************************************************************************)
(* What holds of Execution for every number of changes, every retry limit, *)
(* any number of cancelling and verifying clients and either scheduling.   *)
(***************************************************************************)
EXTENDS Execution, TLAPS

(***************************************************************************)
(* Type correctness.  The attempts stay within their limit because they    *)
(* start from zero at every change; a client that is under way has read a  *)
(* row, so there is one.                                                   *)
(***************************************************************************)
Counters ==
    /\ pc \in {"create", "begin", "next", "run"} => attempts = 0
    /\ pc = "backoff" => attempts < MaxAttempts
    /\ pc \in {"run", "calling", "backoff"} => cur <= N

Snapshots ==
    \A c \in Clients :
        /\ client[c].at \in {"request", "requesting", "save", "inspecting"}
             => client[c].snap \in Operation /\ saved \in Operation
        /\ client[c].at = "requesting" => client[c].row \in Operation

TypeInv == TypeOK /\ Counters /\ Snapshots

\* Where a client is, and what it has read.
Seen == [at : {"idle", "refused", "request", "requesting", "save", "accepted",
               "inspecting", "verified", "over"},
         snap : Operation \cup {NoRecord}, row : Operation \cup {NoRecord}]

\* Records of operations stay records of operations when apply writes a field.
LEMMA WriteOperation ==
    ASSUME NEW operation \in Operation
    PROVE  /\ \A status \in Statuses : [operation EXCEPT !.status = status] \in Operation
           /\ \A i \in Change, result \in ChangeResults :
                [operation EXCEPT !.changes[i] = result] \in Operation
           /\ [operation EXCEPT !.cancellationRequested = TRUE] \in Operation
           /\ \A result \in Verdicts : applyVerification(operation, result) \in Operation
  <1>1. \A status \in Statuses : [operation EXCEPT !.status = status] \in Operation
    BY DEF Operation
  <1>2. \A i \in Change, result \in ChangeResults :
          [operation EXCEPT !.changes[i] = result] \in Operation
    BY DEF Operation
  <1>3. [operation EXCEPT !.cancellationRequested = TRUE] \in Operation
    BY DEF Operation
  <1>4. \A result \in Verdicts : applyVerification(operation, result) \in Operation
    <2>1. \A result \in Verdicts : judgedStatus[result] \in Statuses
      BY DEF judgedStatus, Verdicts, Statuses
    <2> QED BY <2>1 DEF Operation, applyVerification
  <1> QED BY <1>1, <1>2, <1>3, <1>4

\* The fields of a record of an operation have their types.
LEMMA OperationFields ==
    ASSUME NEW operation \in Operation
    PROVE  /\ operation.status \in Statuses
           /\ operation.changes \in [Change -> ChangeResults]
           /\ operation.cancellationRequested \in BOOLEAN
           /\ operation.verification \in Verdicts \cup {"null"}
  BY DEF Operation

\* The absent row is not a record of an operation.
LEMMA NoRecordIsNoOperation == NoRecord \notin Operation
  BY DEF NoRecord, Operation, Statuses

\* runChange decides a change without the provider, or leaves it open.
LEMMA UnattemptedType ==
    \A changes, i : unattempted(changes, i) \in ChangeResults
  BY DEF unattempted, ChangeResults

\* The statuses that the engine computes are statuses.
LEMMA FinalStatusType == \A changes : finalStatus(changes) \in Statuses
  BY DEF finalStatus, Statuses

\* The type invariant holds initially.
LEMMA InitTypeInv == Init => TypeInv
  <1> SUFFICES ASSUME Init PROVE TypeInv
    OBVIOUS
  <1> USE NAssumption, AttemptsAssumption
  <1>1. mem \in Operation
    BY DEF Init, Operation, Statuses, ChangeResults, Verdicts
  <1>2. effected \subseteq Change
    BY DEF Init, EarlierResults, Writes
  <1>3. TypeOK
    BY <1>1, <1>2 DEF Init, TypeOK, Idle, Verdicts
  <1>4. Counters
    BY DEF Init, Counters
  <1>5. Snapshots
    BY DEF Init, Snapshots, Idle
  <1> QED BY <1>3, <1>4, <1>5 DEF TypeInv

\* apply replaces the row by a record of an operation and touches no client.
LEMMA SaveTypes ==
    ASSUME TypeInv, NEW operation \in Operation, Save(operation),
           UNCHANGED client
    PROVE  /\ mem' \in Operation
           /\ saved' \in Operation
           /\ Snapshots'
  BY DEF Save, TypeInv, Snapshots

\* Where apply goes, the turn goes to apply or to nobody.
LEMMA ApplyGoesTypes ==
    ASSUME TypeOK, NEW to, ApplyGoes(to)
    PROVE  pc' = to /\ turn' \in Clients \cup {"apply", "nobody"}
  BY DEF ApplyGoes, Yields, Continues

\* Settling a change keeps the types and goes to the next change.
LEMMA SettleTypes ==
    ASSUME TypeInv, cur \in Change, NEW result \in ChangeResults, Settle(result),
           UNCHANGED <<plan, client>>
    PROVE  /\ mem' \in Operation
           /\ saved' \in Operation
           /\ Snapshots'
           /\ Counters'
           /\ pc' = "next"
           /\ cur' \in 1..(N + 1)
           /\ attempts' \in 0..MaxAttempts
           /\ turn' \in Clients \cup {"apply", "nobody"}
  <1> USE NAssumption, AttemptsAssumption
  <1>1. [mem EXCEPT !.changes[cur] = result] \in Operation
    BY WriteOperation DEF TypeInv, TypeOK
  <1>2. mem' \in Operation /\ saved' \in Operation /\ Snapshots'
    BY <1>1, SaveTypes DEF Settle
  <1>3. pc' = "next" /\ turn' \in Clients \cup {"apply", "nobody"}
    BY ApplyGoesTypes DEF Settle, TypeInv
  <1>4. cur' \in 1..(N + 1)
    BY DEF Settle, TypeInv, TypeOK, Change
  <1>5. attempts' = 0
    BY DEF Settle
  <1> QED BY <1>2, <1>3, <1>4, <1>5 DEF Counters

\* A client's step keeps the types when it leaves a record in the row and in what
\* the client remembers.
LEMMA ClientTypes ==
    ASSUME TypeInv, NEW c \in Clients,
           NEW to \in {"refused", "request", "save", "accepted", "inspecting", "verified"},
           NEW snap, ClientGoes(c, to, snap),
           \/ snap \in Operation
           \/ snap = NoRecord /\ to \in {"refused", "accepted", "verified"},
           saved' \in Operation,
           turn' \in Clients \cup {"apply", "nobody"},
           UNCHANGED <<plan, engine, outside>>
    PROVE  TypeInv'
  <1>1. Snapshots'
    BY DEF ClientGoes, Snapshots, TypeInv, TypeOK
  <1>2. Counters'
    BY DEF TypeInv, Counters, engine
  <1>3. client' \in [Clients ->
          [at : {"idle", "refused", "request", "requesting", "save", "accepted",
                 "inspecting", "verified", "over"},
           snap : Operation \cup {NoRecord}, row : Operation \cup {NoRecord}]]
    BY DEF ClientGoes, TypeInv, TypeOK
  <1> QED BY <1>1, <1>2, <1>3 DEF TypeInv, TypeOK, plan, engine, outside

\* Every step keeps the type invariant.
LEMMA NextTypeInv == TypeInv /\ [Next]_vars => TypeInv'
  <1> SUFFICES ASSUME TypeInv, [Next]_vars PROVE TypeInv'
    OBVIOUS
  <1> USE NAssumption, AttemptsAssumption
  <1>a. TypeOK /\ Counters /\ Snapshots
    BY DEF TypeInv
  <1>b. mem \in Operation
    BY <1>a DEF TypeOK
  <1>1. CASE Create
    <2>1. mem' \in Operation /\ saved' \in Operation /\ Snapshots'
      BY <1>1, <1>b, SaveTypes DEF Create
    <2>2. pc' = "begin" /\ turn' \in Clients \cup {"apply", "nobody"}
      BY <1>1, <1>a, ApplyGoesTypes DEF Create
    <2>3. Counters'
      BY <1>1, <1>a, <2>2 DEF Create, Counters
    <2> QED BY <1>1, <1>a, <2>1, <2>2, <2>3 DEF Create, TypeInv, TypeOK, plan, outside
  <1>2. CASE Begin
    <2>0. [mem EXCEPT !.status = "running"] \in Operation
      BY <1>b, WriteOperation DEF Statuses
    <2>1. mem' \in Operation /\ saved' \in Operation /\ Snapshots'
      BY <1>2, <2>0, SaveTypes DEF Begin
    <2>2. pc' = "next" /\ turn' \in Clients \cup {"apply", "nobody"}
      BY <1>2, <1>a, ApplyGoesTypes DEF Begin
    <2>3. Counters'
      BY <1>2, <1>a, <2>2 DEF Begin, Counters
    <2> QED BY <1>2, <1>a, <2>1, <2>2, <2>3 DEF Begin, TypeInv, TypeOK, plan, outside
  <1>3. CASE PassOver
    <2>1. pc' = "next" /\ turn' \in Clients \cup {"apply", "nobody"}
      BY <1>3, <1>a, ApplyGoesTypes DEF PassOver
    <2>2. cur' \in 1..(N + 1)
      BY <1>3, <1>a DEF PassOver, TypeOK
    <2>3. Counters' /\ Snapshots'
      BY <1>3, <1>a, <2>1 DEF PassOver, Counters, Snapshots
    <2> QED BY <1>3, <1>a, <2>1, <2>2, <2>3 DEF PassOver, TypeInv, TypeOK, plan, outside
  <1>4. CASE PollCancellation
    <2>1. CASE saved.cancellationRequested
      <3>0. [mem EXCEPT !.status = "cancelled"] \in Operation
        BY <1>b, WriteOperation DEF Statuses
      <3>1. mem' \in Operation /\ saved' \in Operation /\ Snapshots'
        BY <1>4, <2>1, <3>0, SaveTypes DEF PollCancellation
      <3>2. pc' = "record" /\ turn' \in Clients \cup {"apply", "nobody"}
        BY <1>4, <2>1, <1>a, ApplyGoesTypes DEF PollCancellation
      <3>3. Counters'
        BY <1>4, <1>a, <3>2 DEF PollCancellation, Counters
      <3> QED BY <1>4, <1>a, <3>1, <3>2, <3>3
              DEF PollCancellation, TypeInv, TypeOK, plan, outside, Waits
    <2>2. CASE ~saved.cancellationRequested
      <3>1. pc' = "run" /\ turn' \in Clients \cup {"apply", "nobody"}
        BY <1>4, <2>2, <1>a, ApplyGoesTypes DEF PollCancellation
      <3>2. Counters' /\ Snapshots'
        BY <1>4, <2>2, <1>a, <3>1 DEF PollCancellation, Counters, Snapshots
      <3> QED BY <1>4, <2>2, <1>a, <3>1, <3>2
              DEF PollCancellation, TypeInv, TypeOK, plan, outside
    <2> QED BY <2>1, <2>2
  <1>5. CASE SettleUnattempted
    <2>1. cur \in Change
      BY <1>5, <1>a DEF SettleUnattempted, Counters, TypeOK, Change
    <2>2. /\ mem' \in Operation /\ saved' \in Operation /\ Snapshots' /\ Counters'
          /\ pc' = "next" /\ cur' \in 1..(N + 1) /\ attempts' \in 0..MaxAttempts
          /\ turn' \in Clients \cup {"apply", "nobody"}
      BY <1>5, <2>1, UnattemptedType, SettleTypes DEF SettleUnattempted
    <2> QED BY <1>5, <1>a, <2>2 DEF SettleUnattempted, TypeInv, TypeOK, plan, outside
  <1>6. CASE CallProvider
    <2>1. pc' = "calling" /\ turn' \in Clients \cup {"apply", "nobody"}
      BY <1>6, <1>a, ApplyGoesTypes DEF CallProvider
    <2>2. cur <= N /\ attempts < MaxAttempts
      BY <1>6, <1>a DEF CallProvider, Counters
    <2>3. attempts' \in 0..MaxAttempts
      BY <1>6, <1>a, <2>2 DEF CallProvider, TypeOK
    <2>4. Counters' /\ Snapshots'
      BY <1>6, <1>a, <2>1, <2>2 DEF CallProvider, Counters, Snapshots
    <2>5. calls' \in [Change -> Nat]
      BY <1>6, <1>a, <2>2 DEF CallProvider, TypeOK, Change
    <2> QED BY <1>6, <1>a, <2>1, <2>3, <2>4, <2>5
            DEF CallProvider, TypeInv, TypeOK, plan, Waits
  <1>7. CASE ProviderSucceeds
    <2>1. cur \in Change
      BY <1>7, <1>a DEF ProviderSucceeds, Counters, TypeOK, Change
    <2>2. /\ mem' \in Operation /\ saved' \in Operation /\ Snapshots' /\ Counters'
          /\ pc' = "next" /\ cur' \in 1..(N + 1) /\ attempts' \in 0..MaxAttempts
          /\ turn' \in Clients \cup {"apply", "nobody"}
      BY <1>7, <2>1, SettleTypes DEF ProviderSucceeds, ChangeResults
    <2>3. effected' \subseteq Change
      BY <1>7, <1>a, <2>1 DEF ProviderSucceeds, TypeOK
    <2> QED BY <1>7, <1>a, <2>2, <2>3 DEF ProviderSucceeds, TypeInv, TypeOK, plan
  <1>8. ASSUME NEW error \in {"transient", "final"}, NEW expired \in BOOLEAN,
               ProviderFails(error, expired)
        PROVE  TypeInv'
    <2>1. cur \in Change
      BY <1>8, <1>a DEF ProviderFails, Counters, TypeOK, Change
    <2>2. doubt' \subseteq Change
      BY <1>8, <1>a, <2>1 DEF ProviderFails, TypeOK
    <2>3. CASE mayRetry(error, expired)
      <3>1. pc' = "backoff" /\ turn' \in Clients \cup {"apply", "nobody"}
        BY <1>8, <2>3, <1>a, ApplyGoesTypes DEF ProviderFails
      <3>2. Counters' /\ Snapshots'
        BY <1>8, <2>3, <1>a, <2>1, <3>1
           DEF ProviderFails, Counters, Snapshots, mayRetry, Change
      <3> QED BY <1>8, <2>3, <1>a, <2>2, <3>1, <3>2
              DEF ProviderFails, TypeInv, TypeOK, plan, Waits
    <2>4. CASE ~mayRetry(error, expired)
      <3>1. /\ mem' \in Operation /\ saved' \in Operation /\ Snapshots' /\ Counters'
            /\ pc' = "next" /\ cur' \in 1..(N + 1) /\ attempts' \in 0..MaxAttempts
            /\ turn' \in Clients \cup {"apply", "nobody"}
        BY <1>8, <2>4, <2>1, SettleTypes DEF ProviderFails, ChangeResults
      <3> QED BY <1>8, <1>a, <2>2, <3>1 DEF ProviderFails, TypeInv, TypeOK, plan
    <2> QED BY <2>3, <2>4
  <1>9. CASE Finish
    <2>0. [mem EXCEPT !.status = finalStatus(mem.changes)] \in Operation
      BY <1>b, WriteOperation, FinalStatusType
    <2>1. mem' \in Operation /\ saved' \in Operation /\ Snapshots'
      BY <1>9, <2>0, SaveTypes DEF Finish
    <2>2. pc' = "record" /\ turn' \in Clients \cup {"apply", "nobody"}
      BY <1>9, <1>a, ApplyGoesTypes DEF Finish
    <2>3. Counters'
      BY <1>9, <1>a, <2>2 DEF Finish, Counters
    <2> QED BY <1>9, <1>a, <2>1, <2>2, <2>3 DEF Finish, TypeInv, TypeOK, plan, outside, Waits
  <1>10. CASE RecordOwnership
    <2>1. pc' = "verify" /\ turn' \in Clients \cup {"apply", "nobody"}
      BY <1>10, <1>a, ApplyGoesTypes DEF RecordOwnership
    <2>2. Counters' /\ Snapshots'
      BY <1>10, <1>a, <2>1 DEF RecordOwnership, Counters, Snapshots
    <2> QED BY <1>10, <1>a, <2>1, <2>2 DEF RecordOwnership, TypeInv, TypeOK, plan, outside, Waits
  <1>11. CASE RunVerification
    <2>1. pc' = "judge" /\ turn' \in Clients \cup {"apply", "nobody"}
      BY <1>11, <1>a, ApplyGoesTypes DEF RunVerification
    <2>2. Counters' /\ Snapshots'
      BY <1>11, <1>a, <2>1 DEF RunVerification, Counters, Snapshots
    <2> QED BY <1>11, <1>a, <2>1, <2>2 DEF RunVerification, TypeInv, TypeOK, plan, outside
  <1>12. CASE ApplyVerification
    <2>0. applyVerification(mem, verdict) \in Operation
      BY <1>a, <1>b, WriteOperation DEF TypeOK
    <2>1. mem' \in Operation /\ saved' \in Operation /\ Snapshots'
      BY <1>12, <2>0, SaveTypes DEF ApplyVerification
    <2>2. pc' = "returned" /\ turn' \in Clients \cup {"apply", "nobody"}
      BY <1>12, <1>a, ApplyGoesTypes DEF ApplyVerification
    <2>3. Counters'
      BY <2>2 DEF Counters
    <2> QED BY <1>12, <1>a, <2>1, <2>2, <2>3
            DEF ApplyVerification, TypeInv, TypeOK, plan, outside, Waits
  <1>13. CASE Reject
    <2>1. pc' = "rejected" /\ turn' \in Clients \cup {"apply", "nobody"}
      BY <1>13, <1>a, ApplyGoesTypes DEF Reject
    <2>2. Counters' /\ Snapshots'
      BY <1>13, <1>a, <2>1 DEF Reject, Counters, Snapshots
    <2> QED BY <1>13, <1>a, <2>1, <2>2 DEF Reject, TypeInv, TypeOK, plan, outside, Waits
  <1>14. CASE Crash
    <2>1. doubt' \subseteq Change
      BY <1>14, <1>a DEF Crash, Counters, TypeOK, Change
    <2>2. Counters' /\ Snapshots'
      BY <1>14, <1>a DEF Crash, Counters, Snapshots
    <2>3. client' \in [Clients ->
            [at : {"idle", "refused", "request", "requesting", "save", "accepted",
                   "inspecting", "verified", "over"},
             snap : Operation \cup {NoRecord}, row : Operation \cup {NoRecord}]]
      BY <1>14, <1>a DEF Crash, TypeOK
    <2> QED BY <1>14, <1>a, <2>1, <2>2, <2>3 DEF Crash, TypeInv, TypeOK, plan, Yields, Waits
  <1>15. ASSUME NEW i \in Change, LateEffect(i)
         PROVE  TypeInv'
    <2>1. Counters' /\ Snapshots'
      BY <1>15, <1>a DEF LateEffect, Counters, Snapshots, engine
    <2> QED BY <1>15, <1>a, <2>1 DEF LateEffect, TypeInv, TypeOK, plan, engine
  <1>16. ASSUME NEW c \in Clients, Cancel(c) \/ Verify(c)
         PROVE  TypeInv'
    <2>1. CASE CancelRead(c)
      <3>1. saved \in Operation /\ saved' \in Operation
        BY <2>1, <1>a DEF CancelRead, TypeOK
      <3>2. CASE ClientGoes(c, "refused", NoRecord) /\ Yields
        BY <2>1, <3>1, <3>2, ClientTypes DEF CancelRead, Yields
      <3>3. CASE ClientGoes(c, "request", saved) /\ Continues(c)
        BY <2>1, <3>1, <3>3, ClientTypes DEF CancelRead, Continues
      <3> QED BY <2>1, <3>2, <3>3 DEF CancelRead
    <2>2. CASE RequestReads(c)
      <3>1. client[c].snap \in Operation /\ saved \in Operation /\ client \in [Clients -> Seen]
        BY <2>2, <1>a DEF RequestReads, Snapshots, TypeOK, Seen
      <3>2. client'[c] = [client[c] EXCEPT !.at = "requesting", !.row = saved]
        BY <2>2, <3>1 DEF RequestReads
      <3>3. \A b \in Clients \ {c} : client'[b] = client[b]
        BY <2>2, <3>1 DEF RequestReads
      <3>4. client' \in [Clients -> Seen]
        BY <2>2, <3>1 DEF RequestReads, Seen
      <3>5. Snapshots'
        BY <2>2, <1>a, <3>1, <3>2, <3>3 DEF RequestReads, Snapshots, Seen
      <3>6. Counters'
        BY <2>2, <1>a DEF RequestReads, Counters, engine
      <3> QED BY <2>2, <1>a, <3>4, <3>5, <3>6
              DEF RequestReads, TypeInv, TypeOK, Seen, Continues, plan, engine, outside
    <2>6. CASE RequestSaves(c)
      <3>1. client[c].snap \in Operation /\ client[c].row \in Operation
        BY <2>6, <1>a DEF RequestSaves, Snapshots
      <3>2. saved' \in Operation
        BY <2>6, <3>1, WriteOperation DEF RequestSaves
      <3> QED BY <2>6, <3>1, <3>2, ClientTypes DEF RequestSaves, Continues
    <2>3. CASE CancelSave(c)
      <3>1. client[c].snap \in Operation
        BY <2>3, <1>a DEF CancelSave, Snapshots
      <3>2. saved' \in Operation
        BY <2>3, <3>1 DEF CancelSave, Operation, cancelledStatus, Statuses
      <3> QED BY <2>3, <3>2, ClientTypes DEF CancelSave, Yields
    <2>4. CASE VerifyRead(c)
      <3>1. saved \in Operation /\ saved' \in Operation
        BY <2>4, <1>a DEF VerifyRead, TypeOK
      <3> QED BY <2>4, <3>1, ClientTypes DEF VerifyRead, Yields
    <2>5. ASSUME NEW result \in Verdicts, VerifySave(c, result)
          PROVE  TypeInv'
      <3>1. client[c].snap \in Operation
        BY <2>5, <1>a DEF VerifySave, Snapshots
      <3>2. saved' \in Operation
        BY <2>5, <3>1, WriteOperation DEF VerifySave
      <3> QED BY <2>5, <3>2, ClientTypes DEF VerifySave, Yields
    <2> QED BY <1>16, <2>1, <2>2, <2>3, <2>4, <2>5, <2>6 DEF Cancel, Verify
  <1>17. CASE UNCHANGED vars
    BY <1>17, <1>a
       DEF TypeInv, TypeOK, Counters, Snapshots, vars, plan, engine, outside
  <1> QED
    BY <1>1, <1>2, <1>3, <1>4, <1>5, <1>6, <1>7, <1>8, <1>9, <1>10, <1>11, <1>12,
       <1>13, <1>14, <1>15, <1>16, <1>17
       DEF Next, Apply, Rest, Clients

\* Every state is well typed: the attempts of a change never exceed the limit of
\* RetryOptions, and what the clients save is a record of the operation.
THEOREM TypeCorrect == Spec => []TypeOK
  <1>1. Init => TypeInv
    BY InitTypeInv
  <1>2. TypeInv /\ [Next]_vars => TypeInv'
    BY NextTypeInv
  <1>3. TypeInv => TypeOK
    BY DEF TypeInv
  <1> QED BY <1>1, <1>2, <1>3, PTL DEF Spec

-----------------------------------------------------------------------------
(***************************************************************************)
(* Safety.  Two things hold together.  The records, wherever they are kept *)
(* (in memory, in the row, in what a client has read) are faithful to the  *)
(* world, and stay so because the world only moves forward; therefore even *)
(* a stale save does no harm to what follows.  And the engine has settled  *)
(* everything before `cur', from what it depends on.                       *)
(***************************************************************************)
Complete == {"completed", "verification_failed", "goal_not_satisfied"}

FaithfulTo(operation, act, done) ==
    /\ \A i \in Change : operation.changes[i] = "succeeded" => i \in done
    /\ operation.status \in Complete
        => \A i \in Change : act[i] = "noop" \/ (act[i] = "write" /\ i \in done)
    /\ operation.verification \notin {"null", "satisfied"} => operation.status # "completed"

RecordsFaithful ==
    /\ FaithfulTo(mem, action, effected)
    /\ saved # NoRecord => FaithfulTo(saved, action, effected)
    /\ \A c \in Clients :
        /\ client[c].at \in {"request", "requesting", "save", "inspecting"}
             => FaithfulTo(client[c].snap, action, effected)
        /\ client[c].at = "requesting" => FaithfulTo(client[c].row, action, effected)

Executing == {"create", "begin", "next", "run", "calling", "backoff"}

HasCause(operation) == \E i \in Change : operation.changes[i] \in {"failed", "blocked"}

\* What has been settled agrees with the plan.
SettledByPlan ==
    \A i \in Change :
        /\ mem.changes[i] = "succeeded" => action[i] = "write"
        /\ mem.changes[i] = "skipped" => action[i] = "noop"
        /\ action[i] = "noop" => mem.changes[i] \in {"none", "skipped"}
        /\ i < cur => mem.changes[i] # "none"
        /\ i >= cur => mem.changes[i] \in {"none", "succeeded"}

\* The change that is being tried may be tried.
TriedIsReady ==
    /\ pc \in {"run", "calling", "backoff"} => mem.changes[cur] # "succeeded"
    /\ pc \in {"calling", "backoff"} => unattempted(mem.changes, cur) = "none"

\* A skipped change goes back to one that failed or was blocked.
SkipsHaveCause == \A i \in Change : mem.changes[i] = "unmet" => HasCause(mem)

Unjudged ==
    /\ pc \in Executing => mem.status \in {"created", "running"}
    /\ pc \in Executing \cup {"record", "verify", "judge"} => mem.verification = "null"

PlanOrdered == \A i \in Change : \A d \in deps[i] : d < i

SafeInv ==
    /\ TypeInv
    /\ PlanOrdered
    /\ RecordsFaithful
    /\ SettledByPlan
    /\ TriedIsReady
    /\ SkipsHaveCause
    /\ Unjudged
    /\ IncompleteHasCause
    /\ DependenciesFirst

\* The world only moves forward: a faithful record stays faithful.
LEMMA FaithfulStays ==
    ASSUME NEW operation, FaithfulTo(operation, action, effected),
           action' = action, effected \subseteq effected'
    PROVE  FaithfulTo(operation, action', effected')
  BY DEF FaithfulTo

\* The safety invariant holds initially.
LEMMA InitSafeInv == Init => SafeInv
  <1> SUFFICES ASSUME Init PROVE SafeInv
    OBVIOUS
  <1> USE NAssumption
  <1>1. PICK done \in EarlierResults :
          /\ mem = [status |-> "created",
                    changes |-> [i \in Change |-> IF i \in done THEN "succeeded" ELSE "none"],
                    cancellationRequested |-> FALSE, verification |-> "null"]
          /\ effected = done
    BY DEF Init
  <1>2. TypeInv
    BY InitTypeInv
  <1>3. RecordsFaithful
    BY <1>1 DEF Init, RecordsFaithful, FaithfulTo, Complete, Idle
  <1>4. SettledByPlan
    BY <1>1 DEF Init, SettledByPlan, EarlierResults, Writes, Change
  <1>5. SkipsHaveCause /\ IncompleteHasCause
    BY <1>1 DEF SkipsHaveCause, IncompleteHasCause
  <1>6. PlanOrdered /\ TriedIsReady /\ DependenciesFirst
    BY DEF Init, PlanOrdered, TriedIsReady, DependenciesFirst
  <1>7. Unjudged
    BY <1>1 DEF Init, Unjudged, Executing
  <1> QED BY <1>2, <1>3, <1>4, <1>5, <1>6, <1>7 DEF SafeInv

\* apply saves a faithful record and touches nobody else's.
LEMMA SaveFaithful ==
    ASSUME RecordsFaithful, NEW operation, Save(operation),
           FaithfulTo(operation, action', effected'),
           action' = action, effected \subseteq effected', UNCHANGED client
    PROVE  RecordsFaithful'
  <1>1. FaithfulTo(mem', action', effected') /\ FaithfulTo(saved', action', effected')
    BY DEF Save
  <1>2. ASSUME NEW c \in Clients
        PROVE  /\ client'[c].at \in {"request", "requesting", "save", "inspecting"}
                    => FaithfulTo(client'[c].snap, action', effected')
               /\ client'[c].at = "requesting" => FaithfulTo(client'[c].row, action', effected')
    BY FaithfulStays DEF RecordsFaithful
  <1> QED BY <1>1, <1>2 DEF RecordsFaithful

\* A step that writes no record keeps them faithful.
LEMMA NoSaveFaithful ==
    ASSUME RecordsFaithful, action' = action, effected \subseteq effected',
           UNCHANGED <<mem, saved, client>>
    PROVE  RecordsFaithful'
  <1>1. FaithfulTo(mem', action', effected')
    BY FaithfulStays DEF RecordsFaithful
  <1>2. saved' # NoRecord => FaithfulTo(saved', action', effected')
    BY FaithfulStays DEF RecordsFaithful
  <1>3. ASSUME NEW c \in Clients
        PROVE  /\ client'[c].at \in {"request", "requesting", "save", "inspecting"}
                    => FaithfulTo(client'[c].snap, action', effected')
               /\ client'[c].at = "requesting" => FaithfulTo(client'[c].row, action', effected')
    BY FaithfulStays DEF RecordsFaithful
  <1> QED BY <1>1, <1>2, <1>3 DEF RecordsFaithful

\* Nothing the dependencies of a called change rest on goes away.
LEMMA DependenciesStay ==
    ASSUME DependenciesFirst, UNCHANGED <<plan, calls>>, effected \subseteq effected'
    PROVE  DependenciesFirst'
  BY DEF DependenciesFirst, plan, Noops

\* A change whose dependencies are satisfied has them in the world.
LEMMA ReadyInTheWorld ==
    ASSUME SafeInv, cur \in Change, unattempted(mem.changes, cur) = "none"
    PROVE  action[cur] = "write" /\ deps[cur] \subseteq effected \cup Noops
  <1>1. action[cur] = "write" /\ unmet(mem.changes, cur) = {}
    BY DEF unattempted, SafeInv, TypeInv, TypeOK, Actions
  <1>2. ASSUME NEW d \in deps[cur]
        PROVE  d \in effected \cup Noops
    <2>1. d \in Change /\ dependencySatisfied(mem.changes, d)
      BY <1>1, <1>2 DEF unmet, SafeInv, TypeInv, TypeOK
    <2> QED BY <2>1 DEF dependencySatisfied, SafeInv, RecordsFaithful, FaithfulTo, Noops
  <1> QED BY <1>1, <1>2

\* Settling the current change with a result that fits the plan and the world
\* keeps everything that is said of settled changes.
LEMMA SettleSafe ==
    ASSUME SafeInv, cur \in Change, pc \in {"run", "calling"},
           NEW result \in ChangeResults \ {"none"}, Settle(result),
           UNCHANGED <<plan, client>>, effected \subseteq effected',
           result = "succeeded" => action[cur] = "write" /\ cur \in effected',
           (result = "skipped") <=> (action[cur] = "noop"),
           result = "unmet" => HasCause(mem)
    PROVE  /\ PlanOrdered' /\ RecordsFaithful' /\ SettledByPlan'
           /\ SkipsHaveCause' /\ Unjudged' /\ IncompleteHasCause' /\ TriedIsReady'
  <1> USE NAssumption
  <1> DEFINE settled == [mem EXCEPT !.changes[cur] = result]
  <1>1. /\ mem \in Operation
        /\ Save(settled) /\ pc' = "next" /\ cur' = cur + 1
        /\ action' = action /\ deps' = deps
    BY DEF SafeInv, TypeInv, TypeOK, Settle, ApplyGoes, plan
  <1>2. /\ settled.status = mem.status /\ settled.verification = mem.verification
        /\ \A i \in Change : settled.changes[i] = IF i = cur THEN result ELSE mem.changes[i]
    BY <1>1 DEF Operation
  <1>3. mem' = settled
    BY <1>1 DEF Save
  <1> HIDE DEF settled
  <1>4. /\ mem.status \in {"created", "running"} /\ mem.verification = "null"
        /\ mem.changes[cur] = "none"
    BY DEF SafeInv, Unjudged, Executing, SettledByPlan, TriedIsReady, TypeInv, TypeOK, Change
  <1>5. FaithfulTo(settled, action', effected')
    BY <1>1, <1>2, <1>4 DEF FaithfulTo, SafeInv, RecordsFaithful, Complete
  <1>6. RecordsFaithful'
    BY <1>1, <1>5, SaveFaithful DEF SafeInv
  <1>7. SettledByPlan'
    <2>1. cur \in 1..N /\ cur' = cur + 1 /\ action' = action
      BY <1>1 DEF Change
    <2>2. \A i \in Change : mem'.changes[i] = IF i = cur THEN result ELSE mem.changes[i]
      BY <1>2, <1>3
    <2>3. \A i \in Change :
            /\ mem.changes[i] = "succeeded" => action[i] = "write"
            /\ mem.changes[i] = "skipped" => action[i] = "noop"
            /\ action[i] = "noop" => mem.changes[i] \in {"none", "skipped"}
            /\ i < cur => mem.changes[i] # "none"
            /\ i >= cur => mem.changes[i] \in {"none", "succeeded"}
      BY DEF SafeInv, SettledByPlan
    <2> QED BY <2>1, <2>2, <2>3 DEF SettledByPlan, Change
  <1>8. HasCause(mem) => HasCause(mem')
    BY <1>2, <1>3, <1>4 DEF HasCause
  <1>9. SkipsHaveCause'
    BY <1>2, <1>3, <1>8 DEF SkipsHaveCause, HasCause, SafeInv
  <1>10. Unjudged' /\ IncompleteHasCause'
    BY <1>1, <1>2, <1>3, <1>4 DEF Unjudged, IncompleteHasCause, Executing
  <1>11. PlanOrdered' /\ TriedIsReady'
    BY <1>1 DEF PlanOrdered, TriedIsReady, SafeInv
  <1> QED BY <1>6, <1>7, <1>9, <1>10, <1>11

\* A change skipped for its dependencies has one that failed, was blocked or was
\* itself skipped for such a reason.
LEMMA SkipHasCause ==
    ASSUME SafeInv, cur \in Change, unattempted(mem.changes, cur) = "unmet"
    PROVE  HasCause(mem)
  <1>1. PICK d \in deps[cur] : ~dependencySatisfied(mem.changes, d)
    BY DEF unattempted, unmet
  <1>2. d \in Change /\ d < cur
    BY DEF SafeInv, TypeInv, TypeOK, PlanOrdered
  <1>3. mem.changes \in [Change -> ChangeResults]
    BY OperationFields DEF SafeInv, TypeInv, TypeOK
  <1>4. mem.changes[d] \in {"failed", "blocked", "unmet"}
    BY <1>1, <1>2, <1>3 DEF dependencySatisfied, SettledByPlan, SafeInv, ChangeResults
  <1> QED BY <1>2, <1>4 DEF HasCause, SkipsHaveCause, SafeInv

\* The status with which executePlan ends claims completeness only when it holds.
LEMMA FinishFaithful ==
    ASSUME SafeInv, pc = "next", cur > N
    PROVE  FaithfulTo([mem EXCEPT !.status = finalStatus(mem.changes)], action, effected)
  <1> USE NAssumption
  <1> DEFINE final == [mem EXCEPT !.status = finalStatus(mem.changes)]
  <1>1. /\ mem.changes \in [Change -> ChangeResults]
        /\ mem.verification = "null"
        /\ mem \in Operation
    BY OperationFields DEF SafeInv, TypeInv, TypeOK, Unjudged, Executing
  <1>2. /\ final.changes = mem.changes /\ final.verification = "null"
        /\ final.status = finalStatus(mem.changes)
    BY <1>1 DEF Operation
  <1> HIDE DEF final
  <1>3. ASSUME final.status \in Complete, NEW i \in Change
        PROVE  action[i] = "noop" \/ (action[i] = "write" /\ i \in effected)
    <2>1. finalStatus(mem.changes) \in Complete
      BY <1>2, <1>3
    <2>2. mem.changes[i] \notin {"failed", "blocked", "unmet"}
      BY <2>1, SMTT(30) DEF finalStatus, Complete
    <2>a. i < cur
      BY DEF SafeInv, TypeInv, TypeOK, Change
    <2>3. mem.changes[i] # "none"
      BY <2>a DEF SafeInv, SettledByPlan
    <2>4. mem.changes[i] \in {"succeeded", "skipped"}
      BY <1>1, <2>2, <2>3 DEF ChangeResults
    <2> QED BY <2>4 DEF SafeInv, SettledByPlan, RecordsFaithful, FaithfulTo
  <1>4. \A i \in Change : final.changes[i] = "succeeded" => i \in effected
    BY <1>2 DEF SafeInv, RecordsFaithful, FaithfulTo
  <1>5. FaithfulTo(final, action, effected)
    BY <1>2, <1>3, <1>4 DEF FaithfulTo
  <1> QED BY <1>5 DEF final

\* A failed or partial end has a change that failed or was blocked.
LEMMA FinishHasCause ==
    ASSUME SafeInv, finalStatus(mem.changes) \in {"failed", "partially_completed"}
    PROVE  HasCause(mem)
  <1>1. \E i \in Change : mem.changes[i] \in {"failed", "blocked", "unmet"}
    BY DEF finalStatus
  <1> QED BY <1>1 DEF HasCause, SkipsHaveCause, SafeInv

\* A verdict keeps a record faithful, whatever the record says.
LEMMA VerdictFaithful ==
    ASSUME NEW operation \in Operation, NEW result \in Verdicts,
           FaithfulTo(operation, action, effected)
    PROVE  FaithfulTo(applyVerification(operation, result), action, effected)
  <1> DEFINE judged == applyVerification(operation, result)
  <1>1. /\ judged.changes = operation.changes
        /\ judged.verification = result
        /\ operation.status # "completed" => judged.status = operation.status
        /\ result # "satisfied" => judged.status # "completed"
    BY DEF applyVerification, judgedStatus, Operation, Verdicts
  <1> HIDE DEF judged
  <1>2. judged.status \in Complete => operation.status \in Complete
    BY <1>1 DEF Complete
  <1>3. judged.verification \notin {"null", "satisfied"} => judged.status # "completed"
    BY <1>1
  <1>4. FaithfulTo(judged, action, effected)
    BY <1>1, <1>2, <1>3 DEF FaithfulTo
  <1> QED BY <1>4 DEF judged

\* The end of a request of apply keeps what is said of the engine when it leaves
\* the changes alone.
LEMMA EngineRests ==
    ASSUME SafeInv, TypeInv', UNCHANGED <<plan, cur, calls>>, effected \subseteq effected',
           mem'.changes = mem.changes,
           pc' \notin {"run", "calling", "backoff"}
    PROVE  PlanOrdered' /\ SettledByPlan' /\ TriedIsReady' /\ SkipsHaveCause' /\ DependenciesFirst'
  <1>1. PlanOrdered' /\ TriedIsReady'
    BY DEF SafeInv, PlanOrdered, TriedIsReady, plan
  <1>2. SettledByPlan'
    BY DEF SafeInv, SettledByPlan, plan
  <1>3. SkipsHaveCause'
    BY DEF SafeInv, SkipsHaveCause, HasCause
  <1>4. DependenciesFirst'
    BY DependenciesStay DEF SafeInv
  <1> QED BY <1>1, <1>2, <1>3, <1>4

\* A step that leaves the plan and the engine alone keeps what is said of them.
LEMMA EngineUntouched ==
    ASSUME SafeInv, UNCHANGED <<plan, engine, calls>>, effected \subseteq effected'
    PROVE  /\ PlanOrdered' /\ SettledByPlan' /\ TriedIsReady' /\ SkipsHaveCause'
           /\ Unjudged' /\ IncompleteHasCause' /\ DependenciesFirst'
  <1>1. PlanOrdered' /\ SettledByPlan' /\ SkipsHaveCause' /\ Unjudged' /\ IncompleteHasCause'
    BY DEF SafeInv, PlanOrdered, SettledByPlan, SkipsHaveCause, HasCause,
           Unjudged, IncompleteHasCause, plan, engine
  <1>2. TriedIsReady'
    BY DEF SafeInv, TriedIsReady, unattempted, unmet, dependencySatisfied, plan, engine
  <1>3. DependenciesFirst'
    BY DependenciesStay DEF SafeInv
  <1> QED BY <1>1, <1>2, <1>3

\* What a client saves, it has read or judged: a faithful record, however old.
LEMMA ClientFaithful ==
    ASSUME SafeInv, NEW c \in Clients, Cancel(c) \/ Verify(c)
    PROVE  RecordsFaithful'
  <1>1. UNCHANGED <<plan, engine, outside>>
    BY DEF Cancel, Verify, CancelRead, RequestReads, RequestSaves, CancelSave, VerifyRead, VerifySave
  <1>2. FaithfulTo(mem', action', effected')
    BY <1>1 DEF SafeInv, RecordsFaithful, plan, engine, outside
  <1>3. client \in [Clients -> [at : {"idle", "refused", "request", "requesting", "save",
                                      "accepted", "inspecting", "verified", "over"},
                                snap : Operation \cup {NoRecord},
                                row : Operation \cup {NoRecord}]]
    BY DEF SafeInv, TypeInv, TypeOK
  <1>4. ASSUME NEW to, NEW snap, ClientGoes(c, to, snap), to # "requesting",
               to \in {"request", "save", "inspecting"} => FaithfulTo(snap, action, effected),
               saved' = NoRecord \/ FaithfulTo(saved', action, effected)
        PROVE  RecordsFaithful'
    <2>1. /\ client'[c].at = to /\ client'[c].snap = snap
          /\ \A b \in Clients \ {c} : client'[b] = client[b]
      BY <1>3, <1>4 DEF ClientGoes
    <2>2. ASSUME NEW b \in Clients
          PROVE  /\ client'[b].at \in {"request", "requesting", "save", "inspecting"}
                      => FaithfulTo(client'[b].snap, action, effected)
                 /\ client'[b].at = "requesting" => FaithfulTo(client'[b].row, action, effected)
      <3>1. CASE b = c
        BY <1>4, <2>1, <3>1
      <3>2. CASE b # c
        BY <2>1, <3>2 DEF SafeInv, RecordsFaithful
      <3> QED BY <3>1, <3>2
    <2> QED BY <1>1, <1>2, <1>4, <2>2 DEF RecordsFaithful, plan, outside
  <1>5. CASE CancelRead(c)
    <2>1. saved' = saved /\ FaithfulTo(saved, action, effected)
      BY <1>5 DEF CancelRead, SafeInv, RecordsFaithful
    <2>2. CASE ClientGoes(c, "refused", NoRecord)
      BY <1>4, <2>1, <2>2
    <2>3. CASE ClientGoes(c, "request", saved)
      BY <1>4, <2>1, <2>3
    <2> QED BY <1>5, <2>2, <2>3 DEF CancelRead
  <1>6. CASE RequestReads(c)
    <2>1. /\ client'[c] = [client[c] EXCEPT !.at = "requesting", !.row = saved]
          /\ \A b \in Clients \ {c} : client'[b] = client[b]
          /\ client[c].at = "request" /\ saved' = saved /\ saved \in Operation
      BY <1>3, <1>6 DEF RequestReads, SafeInv, TypeInv, Snapshots
    <2>2. FaithfulTo(saved, action, effected) /\ FaithfulTo(client[c].snap, action, effected)
      BY <2>1, NoRecordIsNoOperation DEF SafeInv, RecordsFaithful
    <2>3. /\ client'[c].row = saved /\ client'[c].snap = client[c].snap
      BY <1>3, <2>1
    <2>4. ASSUME NEW b \in Clients
          PROVE  /\ client'[b].at \in {"request", "requesting", "save", "inspecting"}
                      => FaithfulTo(client'[b].snap, action, effected)
                 /\ client'[b].at = "requesting" => FaithfulTo(client'[b].row, action, effected)
      BY <2>1, <2>2, <2>3 DEF SafeInv, RecordsFaithful
    <2> QED BY <1>1, <1>2, <2>1, <2>2, <2>4 DEF RecordsFaithful, plan, outside
  <1>10. CASE RequestSaves(c)
    <2>1. /\ ClientGoes(c, "save", client[c].snap)
          /\ saved' = [client[c].row EXCEPT !.cancellationRequested = TRUE]
          /\ client[c].row \in Operation
          /\ FaithfulTo(client[c].snap, action, effected)
          /\ FaithfulTo(client[c].row, action, effected)
      BY <1>10 DEF RequestSaves, SafeInv, RecordsFaithful, TypeInv, Snapshots
    <2>2. FaithfulTo(saved', action, effected)
      BY <2>1 DEF FaithfulTo, Operation
    <2> QED BY <1>4, <2>1, <2>2
  <1>7. CASE CancelSave(c)
    <2>1. /\ ClientGoes(c, "accepted", NoRecord)
          /\ saved' = [client[c].snap EXCEPT !.cancellationRequested = TRUE,
                                             !.status = cancelledStatus(@)]
          /\ client[c].snap \in Operation
          /\ FaithfulTo(client[c].snap, action, effected)
      BY <1>7 DEF CancelSave, SafeInv, RecordsFaithful, TypeInv, Snapshots
    <2>2. /\ saved'.changes = client[c].snap.changes
          /\ saved'.verification = client[c].snap.verification
          /\ saved'.status \in {client[c].snap.status, "cancelled"}
      BY <2>1 DEF Operation, cancelledStatus
    <2>3. FaithfulTo(saved', action, effected)
      BY <2>1, <2>2 DEF FaithfulTo, Complete
    <2> QED BY <1>4, <2>1, <2>3
  <1>8. CASE VerifyRead(c)
    <2>1. /\ ClientGoes(c, "inspecting", saved) /\ saved' = saved
          /\ FaithfulTo(saved, action, effected)
      BY <1>8 DEF VerifyRead, SafeInv, RecordsFaithful
    <2> QED BY <1>4, <2>1
  <1>9. ASSUME NEW result \in Verdicts, VerifySave(c, result)
        PROVE  RecordsFaithful'
    <2>1. /\ ClientGoes(c, "verified", NoRecord)
          /\ saved' = applyVerification(client[c].snap, result)
          /\ client[c].snap \in Operation
          /\ FaithfulTo(client[c].snap, action, effected)
      BY <1>9 DEF VerifySave, SafeInv, RecordsFaithful, TypeInv, Snapshots
    <2>2. FaithfulTo(saved', action, effected)
      BY <2>1, VerdictFaithful
    <2> QED BY <1>4, <2>1, <2>2
  <1> QED BY <1>5, <1>6, <1>7, <1>8, <1>9, <1>10 DEF Cancel, Verify

\* Every step keeps the safety invariant.
LEMMA NextSafeInv == SafeInv /\ [Next]_vars => SafeInv'
  <1> SUFFICES ASSUME SafeInv, [Next]_vars PROVE SafeInv'
    OBVIOUS
  <1> USE NAssumption
  <1>a. TypeInv'
    BY NextTypeInv DEF SafeInv
  <1>b. /\ mem \in Operation /\ cur \in 1..(N + 1)
        /\ pc \in {"run", "calling", "backoff"} => cur \in Change
    BY DEF SafeInv, TypeInv, TypeOK, Counters, Change
  <1>c. ASSUME NEW operation, Save(operation),
               FaithfulTo(operation, action', effected'),
               UNCHANGED <<plan, client, cur, outside>>,
               operation.changes = mem.changes,
               pc' \notin {"run", "calling", "backoff"}
        PROVE  /\ RecordsFaithful' /\ PlanOrdered' /\ SettledByPlan'
               /\ TriedIsReady' /\ SkipsHaveCause' /\ DependenciesFirst'
    <2>1. mem'.changes = mem.changes /\ UNCHANGED <<plan, cur, calls, effected>>
      BY <1>c DEF Save, outside
    <2>2. RecordsFaithful'
      BY <1>c, <2>1, SaveFaithful DEF SafeInv, plan
    <2> QED BY <1>a, <1>c, <2>1, <2>2, EngineRests
  <1>1. CASE Create
    <2>1. Save(mem) /\ pc' = "begin" /\ UNCHANGED <<plan, client, cur, outside>>
      BY <1>1 DEF Create, ApplyGoes
    <2>2. FaithfulTo(mem, action', effected')
      BY <2>1 DEF SafeInv, RecordsFaithful, plan, outside
    <2>3. Unjudged' /\ IncompleteHasCause'
      BY <1>1, <2>1 DEF Create, Save, SafeInv, Unjudged, IncompleteHasCause, Executing
    <2> QED BY <1>a, <1>c, <2>1, <2>2, <2>3 DEF SafeInv
  <1>2. CASE Begin
    <2> DEFINE begun == [mem EXCEPT !.status = "running"]
    <2>1. Save(begun) /\ pc' = "next" /\ UNCHANGED <<plan, client, cur, outside>>
      BY <1>2 DEF Begin, ApplyGoes
    <2>2. /\ begun.changes = mem.changes /\ begun.status = "running"
          /\ begun.verification = mem.verification
      BY <1>b DEF Operation
    <2> HIDE DEF begun
    <2>3. FaithfulTo(begun, action', effected')
      BY <2>1, <2>2 DEF FaithfulTo, SafeInv, RecordsFaithful, plan, outside, Complete
    <2>4. Unjudged' /\ IncompleteHasCause'
      BY <1>2, <2>1, <2>2
         DEF Begin, Save, SafeInv, Unjudged, IncompleteHasCause, Executing
    <2> QED BY <1>a, <1>c, <2>1, <2>2, <2>3, <2>4 DEF SafeInv
  <1>3. CASE PassOver
    <2>1. /\ pc = "next" /\ pc' = "next" /\ cur \in Change /\ cur' = cur + 1
          /\ mem.changes[cur] = "succeeded"
          /\ UNCHANGED <<plan, saved, mem, client, outside>>
      BY <1>3, <1>b DEF PassOver, ApplyGoes, alreadySucceeded, Change
    <2>2. RecordsFaithful'
      BY <2>1, NoSaveFaithful DEF SafeInv, plan, outside
    <2>3. SettledByPlan'
      BY <2>1 DEF SafeInv, SettledByPlan, plan, Change
    <2>4. /\ PlanOrdered' /\ TriedIsReady' /\ SkipsHaveCause' /\ Unjudged'
          /\ IncompleteHasCause'
      BY <2>1 DEF SafeInv, PlanOrdered, TriedIsReady, SkipsHaveCause, HasCause, Unjudged,
                  IncompleteHasCause, plan, Executing
    <2>5. DependenciesFirst'
      BY <2>1, DependenciesStay DEF SafeInv, outside
    <2> QED BY <1>a, <2>2, <2>3, <2>4, <2>5 DEF SafeInv
  <1>4. CASE PollCancellation
    <2>1. CASE saved.cancellationRequested
      <3> DEFINE ended == [mem EXCEPT !.status = "cancelled"]
      <3>1. /\ Save(ended) /\ pc = "next" /\ pc' = "record"
            /\ UNCHANGED <<plan, client, cur, outside>>
        BY <1>4, <2>1 DEF PollCancellation, ApplyGoes
      <3>2. /\ ended.changes = mem.changes /\ ended.status = "cancelled"
            /\ ended.verification = mem.verification
        BY <1>b DEF Operation
      <3> HIDE DEF ended
      <3>3. FaithfulTo(ended, action', effected')
        BY <3>1, <3>2 DEF FaithfulTo, SafeInv, RecordsFaithful, plan, outside, Complete
      <3>4. Unjudged' /\ IncompleteHasCause'
        BY <3>1, <3>2 DEF Save, SafeInv, Unjudged, IncompleteHasCause, Executing
      <3> QED BY <1>a, <1>c, <3>1, <3>2, <3>3, <3>4 DEF SafeInv
    <2>2. CASE ~saved.cancellationRequested
      <3>1. /\ pc = "next" /\ pc' = "run" /\ mem.changes[cur] # "succeeded"
            /\ UNCHANGED <<plan, saved, mem, cur, client, outside>>
        BY <1>4, <2>2 DEF PollCancellation, ApplyGoes, alreadySucceeded
      <3>2. RecordsFaithful'
        BY <3>1, NoSaveFaithful DEF SafeInv, plan, outside
      <3>3. /\ PlanOrdered' /\ TriedIsReady' /\ SkipsHaveCause' /\ Unjudged'
            /\ IncompleteHasCause' /\ SettledByPlan'
        BY <3>1 DEF SafeInv, PlanOrdered, TriedIsReady, SkipsHaveCause, HasCause, Unjudged,
                    IncompleteHasCause, SettledByPlan, plan, Executing
      <3>4. DependenciesFirst'
        BY <3>1, DependenciesStay DEF SafeInv, outside
      <3> QED BY <1>a, <3>2, <3>3, <3>4 DEF SafeInv
    <2> QED BY <2>1, <2>2
  <1>5. CASE SettleUnattempted
    <2> DEFINE result == unattempted(mem.changes, cur)
    <2>1. /\ pc = "run" /\ cur \in Change /\ result \in ChangeResults \ {"none"}
          /\ Settle(result) /\ UNCHANGED <<plan, client, outside>>
      BY <1>5, <1>b, UnattemptedType DEF SettleUnattempted
    <2>2. result # "succeeded" /\ ((result = "skipped") <=> (action[cur] = "noop"))
      BY DEF unattempted
    <2>3. result = "unmet" => HasCause(mem)
      BY <2>1, SkipHasCause
    <2> HIDE DEF result
    <2>4. effected \subseteq effected'
      BY <2>1 DEF outside
    <2>5. /\ PlanOrdered' /\ RecordsFaithful' /\ SettledByPlan'
          /\ SkipsHaveCause' /\ Unjudged' /\ IncompleteHasCause' /\ TriedIsReady'
      BY <2>1, <2>2, <2>3, <2>4, SettleSafe
    <2>6. DependenciesFirst'
      BY <2>1, DependenciesStay DEF SafeInv, outside
    <2> QED BY <1>a, <2>5, <2>6 DEF SafeInv
  <1>6. CASE CallProvider
    <2>1. /\ cur \in Change /\ unattempted(mem.changes, cur) = "none"
          /\ mem.changes[cur] # "succeeded" /\ pc \in {"run", "backoff"}
          /\ pc' = "calling" /\ calls' = [calls EXCEPT ![cur] = @ + 1]
          /\ UNCHANGED <<plan, saved, mem, cur, client, effected>>
      BY <1>6, <1>b DEF CallProvider, ApplyGoes, SafeInv, TriedIsReady
    <2>2. RecordsFaithful'
      BY <2>1, NoSaveFaithful DEF SafeInv, plan
    <2>3. /\ PlanOrdered' /\ SkipsHaveCause' /\ Unjudged' /\ IncompleteHasCause' /\ SettledByPlan'
      BY <2>1 DEF SafeInv, PlanOrdered, SkipsHaveCause, HasCause, Unjudged,
                  IncompleteHasCause, SettledByPlan, plan, Executing
    <2>4. TriedIsReady'
      BY <2>1 DEF TriedIsReady, unattempted, unmet, dependencySatisfied, plan
    <2>5. DependenciesFirst'
      <3>1. deps[cur] \subseteq effected \cup Noops
        BY <2>1, ReadyInTheWorld
      <3>2. ASSUME NEW i \in Change, calls'[i] > 0
            PROVE  deps[i] \subseteq effected \cup Noops
        <4>1. CASE i = cur
          BY <3>1, <4>1
        <4>2. CASE i # cur
          BY <2>1, <3>2, <4>2 DEF SafeInv, DependenciesFirst, TypeInv, TypeOK
        <4> QED BY <4>1, <4>2
      <3> QED BY <2>1, <3>2 DEF DependenciesFirst, Noops, plan
    <2> QED BY <1>a, <2>2, <2>3, <2>4, <2>5 DEF SafeInv
  <1>7. CASE ProviderSucceeds
    <2>1. /\ pc = "calling" /\ cur \in Change /\ Settle("succeeded")
          /\ effected' = effected \cup {cur}
          /\ UNCHANGED <<plan, client, calls>>
      BY <1>7, <1>b DEF ProviderSucceeds
    <2>2. action[cur] = "write"
      BY <2>1, ReadyInTheWorld DEF SafeInv, TriedIsReady
    <2>3. "succeeded" \in ChangeResults \ {"none"}
      BY DEF ChangeResults
    <2>4. /\ PlanOrdered' /\ RecordsFaithful' /\ SettledByPlan'
          /\ SkipsHaveCause' /\ Unjudged' /\ IncompleteHasCause' /\ TriedIsReady'
      BY <2>1, <2>2, <2>3, SettleSafe
    <2>5. DependenciesFirst'
      BY <2>1, DependenciesStay DEF SafeInv
    <2> QED BY <1>a, <2>4, <2>5 DEF SafeInv
  <1>8. ASSUME NEW error \in {"transient", "final"}, NEW expired \in BOOLEAN,
               ProviderFails(error, expired)
        PROVE  SafeInv'
    <2>1. /\ pc = "calling" /\ cur \in Change
          /\ UNCHANGED <<plan, client, effected, calls>>
      BY <1>8, <1>b DEF ProviderFails
    <2>2. DependenciesFirst'
      BY <2>1, DependenciesStay DEF SafeInv
    <2>3. CASE mayRetry(error, expired)
      <3>1. pc' = "backoff" /\ UNCHANGED <<saved, mem, cur>>
        BY <1>8, <2>3 DEF ProviderFails, ApplyGoes
      <3>2. RecordsFaithful'
        BY <2>1, <3>1, NoSaveFaithful DEF SafeInv, plan
      <3>3. /\ PlanOrdered' /\ SkipsHaveCause' /\ Unjudged' /\ IncompleteHasCause'
            /\ SettledByPlan'
        BY <2>1, <3>1 DEF SafeInv, PlanOrdered, SkipsHaveCause, HasCause, Unjudged,
                          IncompleteHasCause, SettledByPlan, plan, Executing
      <3>4. TriedIsReady'
        BY <2>1, <3>1 DEF SafeInv, TriedIsReady, unattempted, unmet, dependencySatisfied, plan
      <3> QED BY <1>a, <2>2, <3>2, <3>3, <3>4 DEF SafeInv
    <2>4. CASE ~mayRetry(error, expired)
      <3>1. Settle("failed")
        BY <1>8, <2>4 DEF ProviderFails
      <3>2. action[cur] = "write"
        BY <2>1, ReadyInTheWorld DEF SafeInv, TriedIsReady
      <3>3. "failed" \in ChangeResults \ {"none"}
        BY DEF ChangeResults
      <3>4. /\ PlanOrdered' /\ RecordsFaithful' /\ SettledByPlan'
            /\ SkipsHaveCause' /\ Unjudged' /\ IncompleteHasCause' /\ TriedIsReady'
        BY <2>1, <3>1, <3>2, <3>3, SettleSafe
      <3> QED BY <1>a, <2>2, <3>4 DEF SafeInv
    <2> QED BY <2>3, <2>4
  <1>9. CASE Finish
    <2> DEFINE final == [mem EXCEPT !.status = finalStatus(mem.changes)]
    <2>1. /\ pc = "next" /\ cur > N /\ Save(final) /\ pc' = "record"
          /\ UNCHANGED <<plan, client, cur, outside>>
      BY <1>9 DEF Finish, ApplyGoes
    <2>2. FaithfulTo(final, action', effected')
      BY <2>1, FinishFaithful DEF plan, outside
    <2>3. /\ final.changes = mem.changes /\ final.status = finalStatus(mem.changes)
          /\ final.verification = mem.verification
      BY <1>b DEF Operation
    <2> HIDE DEF final
    <2>4. Unjudged'
      BY <2>1, <2>3 DEF Save, SafeInv, Unjudged, Executing
    <2>5. IncompleteHasCause'
      BY <2>1, <2>3, FinishHasCause DEF Save, IncompleteHasCause, HasCause
    <2> QED BY <1>a, <1>c, <2>1, <2>2, <2>3, <2>4, <2>5 DEF SafeInv
  <1>10. CASE RecordOwnership \/ RunVerification \/ Reject \/ Crash
    <2>1. /\ UNCHANGED <<plan, saved, mem, cur, effected, calls>>
          /\ pc' \in {"verify", "judge", "rejected", "crashed"}
          /\ pc' \in {"verify", "judge"} => pc \in {"record", "verify"}
      BY <1>10 DEF RecordOwnership, RunVerification, Reject, Crash, ApplyGoes, outside
    <2>2. RecordsFaithful'
      <3>1. CASE UNCHANGED client
        BY <2>1, <3>1, NoSaveFaithful DEF SafeInv, plan
      <3>2. CASE Crash
        <4>1. \A c \in Clients : client'[c].at \notin {"request", "requesting", "save", "inspecting"}
          BY <3>2 DEF Crash
        <4> QED BY <2>1, <4>1 DEF SafeInv, RecordsFaithful, plan
      <3> QED BY <1>10, <3>1, <3>2 DEF RecordOwnership, RunVerification, Reject
    <2>3. PlanOrdered' /\ SettledByPlan' /\ TriedIsReady' /\ SkipsHaveCause' /\ DependenciesFirst'
      BY <1>a, <2>1, EngineRests
    <2>4. Unjudged' /\ IncompleteHasCause'
      BY <2>1 DEF SafeInv, Unjudged, IncompleteHasCause, Executing
    <2> QED BY <1>a, <2>2, <2>3, <2>4 DEF SafeInv
  <1>11. CASE ApplyVerification
    <2> DEFINE judged == applyVerification(mem, verdict)
    <2>1. /\ pc = "judge" /\ Save(judged) /\ pc' = "returned"
          /\ UNCHANGED <<plan, client, cur, outside>> /\ verdict \in Verdicts
      BY <1>11 DEF ApplyVerification, ApplyGoes, SafeInv, TypeInv, TypeOK
    <2>2. FaithfulTo(judged, action', effected')
      BY <1>b, <2>1, VerdictFaithful DEF SafeInv, RecordsFaithful, plan, outside
    <2>3. judged.changes = mem.changes
      BY <1>b DEF applyVerification, Operation
    <2>4. judged.status \in {"failed", "partially_completed"} => judged.status = mem.status
      BY <1>b, <2>1 DEF applyVerification, judgedStatus, Operation, Verdicts
    <2> HIDE DEF judged
    <2>5. Unjudged'
      BY <2>1 DEF Unjudged, Executing
    <2>6. IncompleteHasCause'
      BY <2>1, <2>3, <2>4 DEF Save, SafeInv, IncompleteHasCause
    <2> QED BY <1>a, <1>c, <2>1, <2>2, <2>3, <2>5, <2>6 DEF SafeInv
  <1>12. ASSUME NEW i \in Change, LateEffect(i)
         PROVE  SafeInv'
    <2>1. UNCHANGED <<plan, saved, engine, client, calls>> /\ effected \subseteq effected'
      BY <1>12 DEF LateEffect
    <2>2. RecordsFaithful'
      BY <2>1, NoSaveFaithful DEF SafeInv, plan, engine
    <2> QED BY <1>a, <2>1, <2>2, EngineUntouched DEF SafeInv
  <1>13. ASSUME NEW c \in Clients, Cancel(c) \/ Verify(c)
         PROVE  SafeInv'
    <2>1. UNCHANGED <<plan, engine, calls, effected>>
      BY <1>13 DEF Cancel, Verify, CancelRead, RequestReads, RequestSaves, CancelSave, VerifyRead,
                   VerifySave, outside
    <2>2. RecordsFaithful'
      BY <1>13, ClientFaithful DEF SafeInv
    <2> QED BY <1>a, <2>1, <2>2, EngineUntouched DEF SafeInv
  <1>14. CASE UNCHANGED vars
    <2>1. UNCHANGED <<plan, saved, engine, client, calls, effected>>
      BY <1>14 DEF vars, outside
    <2>2. RecordsFaithful'
      BY <2>1, NoSaveFaithful DEF SafeInv, plan, engine
    <2> QED BY <1>a, <2>1, <2>2, EngineUntouched DEF SafeInv
  <1> QED
    BY <1>1, <1>2, <1>3, <1>4, <1>5, <1>6, <1>7, <1>8, <1>9, <1>10, <1>11, <1>12, <1>13, <1>14
       DEF Next, Apply, Rest, Clients

\* The safety invariant holds throughout.
THEOREM Safe == Spec => []SafeInv
  <1> QED BY InitSafeInv, NextSafeInv, PTL DEF Spec

\* No change reaches the provider before what it depends on has taken effect or
\* was in place, for every plan, failure, retry, cancellation and resumption.
THEOREM DependenciesFirstAlways == Spec => []DependenciesFirst
  <1>1. SafeInv => DependenciesFirst
    BY DEF SafeInv
  <1> QED BY <1>1, Safe, PTL

\* A recorded success is one at the provider, in every row that any interleaving
\* of apply, cancel and verify can leave behind.
THEOREM RecordedSuccessIsRealAlways == Spec => []RecordedSuccessIsReal
  <1>1. SafeInv => RecordedSuccessIsReal
    BY DEF SafeInv, RecordsFaithful, FaithfulTo, RecordedSuccessIsReal
  <1> QED BY <1>1, Safe, PTL

\* A row that says the execution was complete speaks of a plan carried out in
\* full, and no row says completed beside a verification that was not satisfied.
THEOREM CompletedIsEarnedAlways == Spec => []CompletedIsEarned
  <1>1. SafeInv => CompletedIsEarned
    BY DEF SafeInv, RecordsFaithful, FaithfulTo, CompletedIsEarned, Complete,
           Noops, Writes
  <1> QED BY <1>1, Safe, PTL

\* An incomplete end always has a change that failed or was blocked.
THEOREM IncompleteHasCauseAlways == Spec => []IncompleteHasCause
  <1>1. SafeInv => IncompleteHasCause
    BY DEF SafeInv
  <1> QED BY <1>1, Safe, PTL

\* A change recorded as succeeded is never sent to the provider again.
THEOREM NeverRepeatsSuccessAlways == Spec => NeverRepeatsSuccess
  <1>1. ASSUME SafeInv, [Next]_vars
        PROVE  \A i \in Change : mem.changes[i] = "succeeded" => calls'[i] = calls[i]
    <2>1. CASE CallProvider
      <3>1. mem.changes[cur] # "succeeded"
        BY <1>1, <2>1 DEF CallProvider, SafeInv, TriedIsReady
      <3>2. calls' = [calls EXCEPT ![cur] = @ + 1] /\ calls \in [Change -> Nat]
        BY <1>1, <2>1 DEF CallProvider, SafeInv, TypeInv, TypeOK
      <3> QED BY <3>1, <3>2
    <2>2. CASE UNCHANGED calls
      BY <2>2
    <2>3. UNCHANGED calls \/ CallProvider
      BY <1>1 DEF Next, vars, outside, Apply, Create, Begin, PassOver, PollCancellation,
         SettleUnattempted, ProviderSucceeds, ProviderFails, Finish, RecordOwnership,
         RunVerification, ApplyVerification, Reject, Crash, LateEffect, Cancel, Verify,
         CancelRead, RequestReads, RequestSaves, CancelSave, VerifyRead, VerifySave, Rest
    <2> QED BY <2>1, <2>2, <2>3
  <1>2. SafeInv /\ [Next]_vars
            => [\A i \in Change : mem.changes[i] = "succeeded" => calls'[i] = calls[i]]_vars
    BY <1>1
  <1> QED BY <1>2, Safe, PTL DEF Spec, NeverRepeatsSuccess

-----------------------------------------------------------------------------
(***************************************************************************)
(* Refinement: the engine, its tail and its clients implement PlanRun.     *)
(* Only the engine moves the abstract run, and while it executes, that run *)
(* is open.                                                                *)
(***************************************************************************)
\* What PlanRun sees.
seen == <<action, deps, effected, doubt, runOutcome>>

\* While the engine executes, the run is open.
LEMMA ExecutingIsOpen ==
    SafeInv /\ pc \in Executing => runOutcome = "open"
  BY DEF runOutcome, SafeInv, Unjudged, Executing

\* The initial states are initial states of PlanRun.
LEMMA InitImplements == Init => Run!Init
  <1> SUFFICES ASSUME Init PROVE Run!Init
    OBVIOUS
  <1>1. effected \in SUBSET {i \in Change : action[i] = "write"}
    BY DEF Init, EarlierResults, Writes
  <1>2. runOutcome = "open"
    BY DEF Init, runOutcome
  <1> QED BY <1>1, <1>2 DEF Init, Run!Init, Actions

\* The change that is being tried is ready in the abstract run.
LEMMA TriedIsReadyInRun ==
    ASSUME SafeInv, pc = "calling"
    PROVE  cur \in Change /\ Run!Ready(cur)
  <1>1. cur \in Change
    BY DEF SafeInv, TypeInv, TypeOK, Counters, Change
  <1>2. action[cur] = "write" /\ deps[cur] \subseteq effected \cup Noops
    BY <1>1, ReadyInTheWorld DEF SafeInv, TriedIsReady
  <1>3. runOutcome = "open"
    BY ExecutingIsOpen DEF Executing
  <1> QED BY <1>1, <1>2, <1>3 DEF Run!Ready, Noops

\* Every step is a step of PlanRun or changes nothing that PlanRun sees.
LEMMA StepImplements ==
    ASSUME SafeInv, SafeInv', [Next]_vars
    PROVE  [Run!Next]_seen
  <1> USE NAssumption
  <1>a. pc' \in Executing => runOutcome' = "open"
    BY DEF runOutcome, SafeInv, Unjudged, Executing
  <1>b. runOutcome' = "complete" => \A i \in Change : action'[i] = "noop" \/ i \in effected'
    BY DEF runOutcome, SafeInv, RecordsFaithful, FaithfulTo, Complete
  <1>c. ASSUME UNCHANGED <<plan, effected, doubt>>, pc \in Executing, pc' \in Executing
        PROVE  UNCHANGED seen
    BY <1>c, <1>a, ExecutingIsOpen DEF seen, plan
  <1>d. ASSUME UNCHANGED <<plan, effected, doubt>>, runOutcome = "open",
               runOutcome' \in {"complete", "incomplete"}
        PROVE  Run!Next
    <2>1. runOutcome' = "complete" => \A i \in Change : action[i] = "noop" \/ i \in effected
      BY <1>d, <1>b DEF plan
    <2>2. Run!Close(runOutcome')
      BY <1>d, <2>1 DEF Run!Close, plan
    <2> QED BY <1>d, <2>2 DEF Run!Next
  <1>1. CASE Create \/ Begin \/ PassOver \/ SettleUnattempted \/ CallProvider
    BY <1>1, <1>c DEF Create, Begin, PassOver, SettleUnattempted, CallProvider, Settle,
                      ApplyGoes, Executing, outside
  <1>2. CASE PollCancellation
    <2>1. /\ UNCHANGED <<plan, effected, doubt>> /\ pc = "next"
          /\ pc' \in {"record", "run"}
          /\ pc' = "record" => mem' = [mem EXCEPT !.status = "cancelled"]
      BY <1>2 DEF PollCancellation, ApplyGoes, Save, outside
    <2>2. CASE pc' = "run"
      BY <2>1, <2>2, <1>c DEF Executing
    <2>3. CASE pc' = "record"
      <3>1. mem'.status = "cancelled"
        BY <2>1, <2>3 DEF SafeInv, TypeInv, TypeOK, Operation
      <3>2. runOutcome' = "incomplete" /\ runOutcome = "open"
        BY <2>1, <3>1, ExecutingIsOpen DEF runOutcome, Executing
      <3> QED BY <1>d, <2>1, <3>2
    <2> QED BY <2>1, <2>2, <2>3
  <1>3. CASE ProviderSucceeds
    <2>1. /\ pc = "calling" /\ pc' = "next" /\ effected' = effected \cup {cur}
          /\ UNCHANGED <<plan, doubt>>
      BY <1>3 DEF ProviderSucceeds, Settle, ApplyGoes
    <2>2. cur \in Change /\ Run!Ready(cur)
      BY <2>1, TriedIsReadyInRun
    <2>3. runOutcome = "open" /\ runOutcome' = "open"
      BY <1>a, <2>1, ExecutingIsOpen DEF Executing
    <2>4. Run!Perform(cur)
      BY <2>1, <2>2, <2>3 DEF Run!Perform, plan
    <2> QED BY <2>2, <2>4 DEF Run!Next
  <1>4. ASSUME NEW error \in {"transient", "final"}, NEW expired \in BOOLEAN,
               ProviderFails(error, expired)
        PROVE  [Run!Next]_seen
    <2>1. /\ pc = "calling" /\ pc' \in {"next", "backoff"}
          /\ UNCHANGED <<plan, effected>> /\ doubt' \in {doubt, doubt \cup {cur}}
      BY <1>4 DEF ProviderFails, Settle, ApplyGoes
    <2>2. cur \in Change /\ Run!Ready(cur)
      BY <2>1, TriedIsReadyInRun
    <2>3. runOutcome = "open" /\ runOutcome' = "open"
      BY <1>a, <2>1, ExecutingIsOpen DEF Executing
    <2>4. CASE doubt' = doubt \cup {cur}
      <3>1. Run!Lose(cur)
        BY <2>1, <2>2, <2>3, <2>4 DEF Run!Lose, plan
      <3> QED BY <2>2, <3>1 DEF Run!Next
    <2>5. CASE doubt' = doubt
      BY <2>1, <2>5, <1>c DEF Executing
    <2> QED BY <2>1, <2>4, <2>5
  <1>5. CASE Finish
    <2>1. /\ UNCHANGED <<plan, effected, doubt>> /\ pc = "next"
          /\ mem' = [mem EXCEPT !.status = finalStatus(mem.changes)]
      BY <1>5 DEF Finish, ApplyGoes, Save, outside
    <2>2. mem'.status = finalStatus(mem.changes)
      BY <2>1 DEF SafeInv, TypeInv, TypeOK, Operation
    <2>3. mem'.status \in {"completed", "failed", "partially_completed"}
      BY <2>2 DEF finalStatus
    <2>4. runOutcome' \in {"complete", "incomplete"} /\ runOutcome = "open"
      BY <2>1, <2>3, ExecutingIsOpen DEF runOutcome, Executing
    <2> QED BY <1>d, <2>1, <2>4
  <1>6. CASE RecordOwnership \/ RunVerification
    <2>1. /\ UNCHANGED <<plan, mem, effected, doubt>>
          /\ pc \in {"record", "verify"} /\ pc' \in {"verify", "judge"}
      BY <1>6 DEF RecordOwnership, RunVerification, ApplyGoes, outside
    <2> QED BY <2>1 DEF seen, plan, runOutcome
  <1>7. CASE ApplyVerification
    <2>1. /\ UNCHANGED <<plan, effected, doubt>> /\ pc = "judge" /\ pc' = "returned"
          /\ mem' = applyVerification(mem, verdict) /\ mem \in Operation /\ verdict \in Verdicts
      BY <1>7 DEF ApplyVerification, ApplyGoes, Save, outside, SafeInv, TypeInv, TypeOK
    <2>2. /\ mem.status # "completed" => mem'.status = mem.status
          /\ mem.status = "completed"
              => mem'.status \in {"completed", "goal_not_satisfied", "verification_failed"}
      BY <2>1 DEF applyVerification, judgedStatus, Operation, Verdicts
    <2>3. runOutcome' = runOutcome
      BY <2>1, <2>2 DEF runOutcome
    <2> QED BY <2>1, <2>3 DEF seen, plan
  <1>8. CASE Reject \/ Crash
    <2>1. /\ UNCHANGED <<plan, mem, effected>> /\ pc \notin Ended
          /\ pc' \in {"rejected", "crashed"}
          /\ doubt' = doubt \/ (pc = "calling" /\ doubt' = doubt \cup {cur})
      BY <1>8 DEF Reject, Crash, ApplyGoes, outside
    <2>2. \/ runOutcome \in {"complete", "incomplete"} /\ runOutcome' = runOutcome
          \/ runOutcome = "open" /\ runOutcome' = "incomplete"
      BY <2>1 DEF runOutcome, Ended
    <2>3. CASE doubt' = doubt
      <3>1. CASE runOutcome' = runOutcome
        BY <2>1, <2>3, <3>1 DEF seen, plan
      <3>2. CASE runOutcome = "open" /\ runOutcome' = "incomplete"
        BY <1>d, <2>1, <2>3, <3>2
      <3> QED BY <2>2, <3>1, <3>2
    <2>4. CASE pc = "calling" /\ doubt' = doubt \cup {cur}
      <3>1. cur \in Change /\ Run!Ready(cur) /\ runOutcome = "open"
        BY <2>4, TriedIsReadyInRun, ExecutingIsOpen DEF Executing
      <3>2. Run!Lose(cur)
        BY <2>1, <2>2, <2>4, <3>1 DEF Run!Lose, plan
      <3> QED BY <3>1, <3>2 DEF Run!Next
    <2> QED BY <2>1, <2>3, <2>4
  <1>9. ASSUME NEW i \in Change, LateEffect(i)
        PROVE  [Run!Next]_seen
    <2>1. runOutcome' = runOutcome
      BY <1>9 DEF LateEffect, engine, runOutcome
    <2>2. Run!Land(i)
      BY <1>9, <2>1 DEF LateEffect, Run!Land, plan
    <2> QED BY <2>2 DEF Run!Next
  <1>10. ASSUME NEW c \in Clients, Cancel(c) \/ Verify(c)
         PROVE  [Run!Next]_seen
    <2>1. UNCHANGED <<plan, engine, outside>>
      BY <1>10 DEF Cancel, Verify, CancelRead, RequestReads, RequestSaves, CancelSave, VerifyRead, VerifySave
    <2> QED BY <2>1 DEF seen, plan, engine, outside, runOutcome
  <1>11. CASE UNCHANGED vars
    BY <1>11 DEF vars, plan, engine, outside, seen, runOutcome
  <1> QED
    BY <1>1, <1>2, <1>3, <1>4, <1>5, <1>6, <1>7, <1>8, <1>9, <1>10, <1>11
       DEF Next, Apply, Rest, Clients

\* The engine implements the promise of PlanRun: changes take effect one at a
\* time after what they depend on, only doubtful ones after the run is closed,
\* and a run closes as complete only when everything is done.
THEOREM Implements == Spec => ImplementsPlanRun
  <1>1. Init => Run!Init
    BY InitImplements
  <1>2. SafeInv /\ SafeInv' /\ [Next]_vars
            => [Run!Next]_<<action, deps, effected, doubt, runOutcome>>
    BY StepImplements DEF seen
  <1> QED BY <1>1, <1>2, Safe, PTL DEF Spec, ImplementsPlanRun, Run!Spec
=============================================================================
