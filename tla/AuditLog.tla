------------------------------ MODULE AuditLog ------------------------------
(***************************************************************************)
(* The audit log: a table of events, each carrying the hash of the one     *)
(* before it, and the processes that append to it.                         *)
(*                                                                         *)
(* A process holds the end of the chain as a promise (#tail): each call of *)
(* record waits for the promise, makes its event follow what came of it,   *)
(* and leaves the event it appended as the next end.  The table belongs to *)
(* all processes and gives each sequence number once.                      *)
(*                                                                         *)
(* A hash is as good as what it was computed over: hashCanonical is taken  *)
(* to be free of collisions.  What the event says is in its call; fields   *)
(* of a row may be edited by hand.                                         *)
(***************************************************************************)
EXTENDS Integers, FiniteSets, SequencesExt

CONSTANTS
    Processes,
    MaxRecords,     \* bound: calls of record, numbered as they are made
    MayEdit         \* may rows be edited by hand?

VARIABLES
    rows,           \* audit_events: sequence -> event
    logger,         \* process -> its AuditLog
    outcome,        \* call -> what record answered
    caller,         \* history: call -> the process that made it
    edited          \* history: the sequences of the rows that were edited

audit == <<rows, logger, outcome, caller, edited>>

Null == [sequence |-> 0, eventHash |-> <<>>]
Down == [state |-> "down", tail |-> Null, queue |-> <<>>]

Init ==
    /\ rows = [n \in {} |-> Null]
    /\ logger = [p \in Processes |-> Down]
    /\ outcome = <<>>
    /\ caller = <<>>
    /\ edited = {}

Up(p) == logger[p].state # "down"

-----------------------------------------------------------------------------
(***************************************************************************)
(* Events and their chain                                                  *)
(***************************************************************************)
computeEventHash(content, sequence, previousEventHash) == <<content, sequence, previousEventHash>>

eventWith(content, sequence, previousEventHash) ==
    [content |-> content, sequence |-> sequence, previousEventHash |-> previousEventHash,
     eventHash |-> computeEventHash(content, sequence, previousEventHash)]

createAuditEvent_zero(call, previous) == eventWith(call, previous.sequence, previous.eventHash)

createAuditEvent_counted(call, previous) ==
    eventWith(call, Cardinality(DOMAIN rows) + 1, previous.eventHash)

createAuditEvent(call, previous) == eventWith(call, previous.sequence + 1, previous.eventHash)

\* store.last
last ==
    IF DOMAIN rows = {} THEN Null
    ELSE rows[CHOOSE n \in DOMAIN rows : \A m \in DOMAIN rows : m <= n]

\* What verifyChain finds wrong with row n, its predecessor in the listing
\* being sound.
brokenLink(n) ==
    \/ n # 1 /\ n - 1 \notin DOMAIN rows
    \/ rows[n].previousEventHash # IF n = 1 THEN <<>> ELSE rows[n - 1].eventHash
    \/ rows[n].eventHash #
         computeEventHash(rows[n].content, rows[n].sequence, rows[n].previousEventHash)

\* verifyChain: the first row it stops at, or none.
brokenAt ==
    {n \in DOMAIN rows : /\ brokenLink(n)
                         /\ \A m \in DOMAIN rows : m < n => ~brokenLink(m)}

-----------------------------------------------------------------------------
(***************************************************************************)
(* A process                                                               *)
(***************************************************************************)
\* The constructor asks for the last event.
Open(p) ==
    /\ ~Up(p)
    /\ logger' = [logger EXCEPT ![p].state = "reading"]
    /\ UNCHANGED <<rows, outcome, caller, edited>>

\* Nobody else handles its promises: a process dies of a rejection that no
\* call is waiting for.  A dead process answers no call.
Crash(p) ==
    /\ Up(p)
    /\ logger' = [logger EXCEPT ![p] = Down]
    /\ UNCHANGED <<rows, outcome, caller, edited>>

\* record, awaited by the caller or not.
Record(p, awaited) ==
    /\ Up(p)
    /\ Len(outcome) < MaxRecords
    /\ outcome' = Append(outcome, "asked")
    /\ logger' = [logger EXCEPT
          ![p].queue = Append(@, [call |-> Len(outcome) + 1, awaited |-> awaited])]
    /\ caller' = Append(caller, p)
    /\ UNCHANGED <<rows, edited>>

next_latest(p) == Len(logger[p].queue)

\* The calls go on in the order in which they found the promise.
next(p) == 1

nextCall(p) == logger[p].queue[next(p)]
others(p)   == RemoveAt(logger[p].queue, next(p))

ReadTail(p) ==
    /\ logger[p].state = "reading"
    /\ logger' = [logger EXCEPT ![p].state = "ready",
                     ![p].tail = [sequence |-> last.sequence, eventHash |-> last.eventHash]]
    /\ UNCHANGED <<rows, outcome, caller, edited>>

afterFailure_stuck(p) ==
    IF nextCall(p).awaited
    THEN [state |-> "rejected", tail |-> Null, queue |-> others(p)] ELSE Down

\* The call fails, the end of the chain is read again; if nobody awaits the
\* call its rejection ends the process.
afterFailure(p) ==
    IF nextCall(p).awaited
    THEN [state |-> "reading", tail |-> Null, queue |-> others(p)] ELSE Down

Fail(p) ==
    /\ logger[p].queue # <<>>
    /\ logger' = [logger EXCEPT ![p] = afterFailure(p)]
    /\ outcome' = [outcome EXCEPT ![nextCall(p).call] = "error"]
    /\ UNCHANGED <<rows, caller, edited>>

\* last fails: so does the call that waits for it, or the process.
ReadTailFails(p) ==
    /\ logger[p].state = "reading"
    /\ IF logger[p].queue = <<>> THEN Crash(p) ELSE Fail(p)

AppendEvent(p) ==
    LET event == createAuditEvent(nextCall(p).call, logger[p].tail)
    IN  /\ logger[p].state = "ready"
        /\ logger[p].queue # <<>>
        /\ event.sequence \notin DOMAIN rows
        /\ rows' = [n \in DOMAIN rows \cup {event.sequence} |->
                      IF n = event.sequence THEN event ELSE rows[n]]
        /\ logger' = [logger EXCEPT ![p] =
              [state |-> "ready", queue |-> others(p),
               tail |-> [sequence |-> event.sequence, eventHash |-> event.eventHash]]]
        /\ outcome' = [outcome EXCEPT ![nextCall(p).call] = "event"]
        /\ UNCHANGED <<caller, edited>>

\* The sequence is taken, or the table cannot be written.
AppendFails(p) ==
    /\ logger[p].state = "ready"
    /\ Fail(p)

\* By hand, outside every process.
Edit(n) ==
    /\ MayEdit
    /\ n \in DOMAIN rows
    /\ rows' = [rows EXCEPT ![n].content = 0]
    /\ edited' = edited \cup {n}
    /\ UNCHANGED <<logger, outcome, caller>>

Steps(p) == ReadTail(p) \/ ReadTailFails(p) \/ AppendEvent(p) \/ AppendFails(p)

Next ==
    \/ \E p \in Processes : Open(p) \/ Crash(p) \/ Steps(p)
    \/ \E p \in Processes, awaited \in BOOLEAN : Record(p, awaited)
    \/ \E n \in DOMAIN rows : Edit(n)

Spec == Init /\ [][Next]_audit

-----------------------------------------------------------------------------
(***************************************************************************)
(* Properties                                                              *)
(***************************************************************************)
Event == {"content", "sequence", "previousEventHash", "eventHash"}

AuditTypeOK ==
    /\ DOMAIN rows \subseteq Nat \ {0}
    /\ \A n \in DOMAIN rows : DOMAIN rows[n] = Event /\ rows[n].sequence = n
    /\ \A p \in Processes :
         /\ logger[p].state \in {"down", "reading", "ready"}
         /\ logger[p].tail.sequence \in Nat
         /\ \A i \in DOMAIN logger[p].queue : logger[p].queue[i].call \in DOMAIN outcome
    /\ outcome \in Seq({"asked", "event", "error"}) /\ Len(outcome) <= MaxRecords
    /\ caller \in Seq(Processes) /\ Len(caller) = Len(outcome)
    /\ edited \subseteq DOMAIN rows

\* verify stops at the first row that was edited and nowhere else: failed
\* appends, crashes, concurrent calls and other processes leave no gap, no
\* fork and no wrong link (AuditLog, createAuditEvent, verifyChain; "detectable
\* and will be detected").
VerifyFindsTheEdit ==
    brokenAt = {n \in edited : \A m \in edited : n <= m}

\* The events of a process are in the order it asked for them, however many of
\* the calls were under way at once and whichever failed ("Serializes appends
\* so that concurrent writers cannot interleave").
CallsKeepOrder ==
    \A m, n \in DOMAIN rows \ edited :
        /\ caller[rows[m].content] = caller[rows[n].content]
        /\ rows[m].content < rows[n].content
        => m < n

Pending(c) ==
    \E p \in Processes : \E i \in DOMAIN logger[p].queue : logger[p].queue[i].call = c

\* Every call of record is answered unless its process dies ("Keep the chain
\* usable even if one append fails").
CallsEnd == \A c \in 1..MaxRecords : Pending(c) ~> ~Pending(c)

=============================================================================
