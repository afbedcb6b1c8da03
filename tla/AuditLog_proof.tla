---------------------------- MODULE AuditLog_proof ----------------------------
(***************************************************************************)
(* That verify finds exactly what was edited, and that the events of a     *)
(* process are in the order it asked for them, for any processes, any      *)
(* number of records, failures, crashes and edits.                         *)
(***************************************************************************)
EXTENDS AuditLog, TLAPS, SequenceTheorems

hashOf(n) == IF n = 0 THEN <<>> ELSE rows[n].eventHash

\* What the event of a row said when it was made.
said(n) == rows[n].eventHash[1]

RowOK(n) ==
    /\ DOMAIN rows[n] = Event
    /\ rows[n].sequence = n
    /\ rows[n].previousEventHash = hashOf(n - 1)
    /\ said(n) \in 1..Len(outcome)
    /\ rows[n].eventHash = <<said(n), n, hashOf(n - 1)>>
    /\ rows[n].content = IF n \in edited THEN 0 ELSE said(n)

\* The table is a chain of h sound rows.
Chain(h) ==
    /\ DOMAIN rows = 1..h
    /\ edited \subseteq 1..h
    /\ \A n \in 1..h : RowOK(n)

Call == [call : Nat, awaited : BOOLEAN]

LoggerOK(p) ==
    /\ DOMAIN logger[p] = {"state", "tail", "queue"}
    /\ logger[p].queue \in Seq(Call)

\* What a process holds for the end of the chain is a row of it, perhaps an old
\* one, or nothing.
TailOK(p, h) ==
    logger[p].state = "ready" =>
        /\ logger[p].tail.sequence \in 0..h
        /\ logger[p].tail.eventHash = hashOf(logger[p].tail.sequence)

\* The calls of a process wait in their order.
QueueOK(p) ==
    \A i \in DOMAIN logger[p].queue :
        /\ logger[p].queue[i].call \in 1..Len(outcome)
        /\ caller[logger[p].queue[i].call] = p
        /\ \A j \in DOMAIN logger[p].queue :
             i < j => logger[p].queue[i].call < logger[p].queue[j].call

\* They wait behind what the process has appended.
QueueBehind(p, h) ==
    \A i \in DOMAIN logger[p].queue, n \in 1..h :
        caller[said(n)] = p => said(n) < logger[p].queue[i].call

InOrder(h) ==
    \A m, n \in 1..h : caller[said(m)] = caller[said(n)] /\ said(m) < said(n) => m < n

Answers == {"asked", "event", "error"}

CallsOK ==
    /\ outcome \in Seq(Answers)
    /\ caller \in Seq(Processes)
    /\ Len(caller) = Len(outcome)

Sound(h) ==
    /\ Chain(h)
    /\ CallsOK
    /\ DOMAIN logger = Processes
    /\ \A p \in Processes : LoggerOK(p) /\ TailOK(p, h) /\ QueueOK(p) /\ QueueBehind(p, h)
    /\ InOrder(h)

AuditInv == \E h \in Nat : Sound(h)

-----------------------------------------------------------------------------
LEMMA InitAudit == Init => AuditInv
<1> SUFFICES ASSUME Init PROVE Sound(0)
  BY DEF AuditInv
<1>1. Chain(0) /\ InOrder(0)
  BY DEF Init, Chain, InOrder
<1>2. CallsOK
  BY DEF Init, CallsOK
<1>3. ASSUME NEW p \in Processes
      PROVE  LoggerOK(p) /\ TailOK(p, 0) /\ QueueOK(p) /\ QueueBehind(p, 0)
  <2>1. logger[p] = Down
    BY DEF Init
  <2>2. Down.queue = <<>> /\ Down.state = "down" /\ DOMAIN Down = {"state", "tail", "queue"}
    BY DEF Down
  <2>3. <<>> \in Seq(Call) /\ DOMAIN <<>> = {}
    BY EmptySeq
  <2> QED BY <2>1, <2>2, <2>3 DEF LoggerOK, TailOK, QueueOK, QueueBehind
<1> QED BY <1>1, <1>2, <1>3 DEF Init, Sound

\* The last row is that of the highest sequence number.
LEMMA LastIsHighest ==
    ASSUME NEW h \in Nat, Chain(h)
    PROVE  last.sequence = h /\ last.eventHash = hashOf(h)
<1>1. CASE h = 0
  BY <1>1 DEF Chain, last, Null, hashOf
<1>2. CASE h # 0
  <2> DEFINE highest(n) == n \in DOMAIN rows /\ \A m \in DOMAIN rows : m <= n
  <2>1. highest(h)
    BY <1>2 DEF Chain
  <2>2. ASSUME NEW n, highest(n) PROVE n = h
    BY <1>2, <2>2 DEF Chain
  <2>3. (CHOOSE n \in DOMAIN rows : \A m \in DOMAIN rows : m <= n) = h
    BY <2>1, <2>2
  <2>4. DOMAIN rows # {} /\ h \in 1..h
    BY <1>2 DEF Chain
  <2>5. last = rows[h]
    BY <2>3, <2>4 DEF last
  <2> QED BY <1>2, <2>4, <2>5 DEF Chain, RowOK, hashOf
<1> QED BY <1>1, <1>2

\* The queue without its first call.
LEMMA OthersFollow ==
    ASSUME NEW p, logger[p].queue \in Seq(Call), logger[p].queue # <<>>
    PROVE  /\ others(p) \in Seq(Call)
           /\ Len(others(p)) = Len(logger[p].queue) - 1
           /\ \A i \in DOMAIN others(p) : /\ i + 1 \in DOMAIN logger[p].queue
                                          /\ others(p)[i] = logger[p].queue[i + 1]
           /\ 1 \in DOMAIN logger[p].queue
           /\ nextCall(p) = logger[p].queue[1] /\ nextCall(p) \in Call
<1> DEFINE q == logger[p].queue
<1>1. Len(q) \in Nat \ {0} /\ DOMAIN q = 1..Len(q)
  BY EmptySeq, LenProperties
<1>2. others(p) = SubSeq(q, 1, 0) \o SubSeq(q, 2, Len(q))
  BY DEF others, next, RemoveAt
<1>3. SubSeq(q, 1, 0) = <<>>
  BY SubSeqEmpty
<1>4. /\ SubSeq(q, 2, Len(q)) \in Seq(Call)
      /\ Len(SubSeq(q, 2, Len(q))) = Len(q) - 1
      /\ \A i \in 1..(Len(q) - 1) : SubSeq(q, 2, Len(q))[i] = q[i + 1]
  BY <1>1
<1>5. others(p) = SubSeq(q, 2, Len(q))
  BY <1>2, <1>3, <1>4, ConcatEmptySeq
<1>6. nextCall(p) = q[1] /\ nextCall(p) \in Call
  BY <1>1 DEF nextCall, next
<1> QED BY <1>1, <1>4, <1>5, <1>6

-----------------------------------------------------------------------------
\* A step that changes one process, and of the table nothing.
LEMMA OneLogger ==
    ASSUME NEW h \in Nat, Sound(h), NEW p \in Processes, NEW l,
           logger' = [logger EXCEPT ![p] = l],
           UNCHANGED <<rows, caller, edited>>,
           outcome' \in Seq(Answers), Len(outcome') = Len(outcome),
           LoggerOK(p)', TailOK(p, h)', QueueOK(p)', QueueBehind(p, h)'
    PROVE  AuditInv'
<1> SUFFICES Sound(h)'
  BY DEF AuditInv
<1>1. Chain(h)' /\ InOrder(h)'
  BY DEF Sound, Chain, InOrder, RowOK, said, hashOf
<1>2. CallsOK'
  BY DEF Sound, CallsOK
<1>3. DOMAIN logger' = Processes
  BY DEF Sound
<1>4. ASSUME NEW q \in Processes
      PROVE  (LoggerOK(q) /\ TailOK(q, h) /\ QueueOK(q) /\ QueueBehind(q, h))'
  <2>1. CASE q = p
    BY <2>1
  <2>2. CASE q # p
    <3>1. logger'[q] = logger[q]
      BY <2>2 DEF Sound
    <3> QED BY <3>1 DEF Sound, LoggerOK, TailOK, QueueOK, QueueBehind, hashOf, said
  <2> QED BY <2>1, <2>2
<1> QED BY <1>1, <1>2, <1>3, <1>4 DEF Sound

\* A process that is down, or that has nothing to say yet.
LEMMA EmptyLogger ==
    ASSUME NEW h \in Nat, Sound(h), NEW p \in Processes,
           logger' = [logger EXCEPT ![p] = Down],
           UNCHANGED <<rows, caller, edited>>,
           outcome' \in Seq(Answers), Len(outcome') = Len(outcome)
    PROVE  AuditInv'
<1>1. logger'[p] = Down
  BY DEF Sound
<1>2. Down.queue = <<>> /\ Down.state = "down" /\ DOMAIN Down = {"state", "tail", "queue"}
  BY DEF Down
<1>3. <<>> \in Seq(Call) /\ DOMAIN <<>> = {}
  BY EmptySeq
<1>4. LoggerOK(p)' /\ TailOK(p, h)' /\ QueueOK(p)' /\ QueueBehind(p, h)'
  BY <1>1, <1>2, <1>3 DEF LoggerOK, TailOK, QueueOK, QueueBehind
<1> QED BY <1>4, OneLogger

LEMMA OpenKeeps ==
    ASSUME NEW h \in Nat, Sound(h), NEW p \in Processes, Open(p)
    PROVE  AuditInv'
<1>1. LoggerOK(p) /\ QueueOK(p) /\ QueueBehind(p, h)
  BY DEF Sound
<1>2. /\ logger'[p] = [logger[p] EXCEPT !.state = "reading"]
      /\ logger' = [logger EXCEPT ![p] = [logger[p] EXCEPT !.state = "reading"]]
      /\ UNCHANGED <<rows, outcome, caller, edited>>
  BY DEF Open, Sound
<1>3. /\ logger'[p].queue = logger[p].queue /\ logger'[p].state = "reading"
      /\ DOMAIN logger'[p] = {"state", "tail", "queue"}
  BY <1>1, <1>2 DEF LoggerOK
<1>4. LoggerOK(p)' /\ TailOK(p, h)' /\ QueueOK(p)' /\ QueueBehind(p, h)'
  BY <1>1, <1>2, <1>3 DEF LoggerOK, TailOK, QueueOK, QueueBehind, said
<1> QED BY <1>2, <1>4, OneLogger DEF Sound, CallsOK

LEMMA ReadTailKeeps ==
    ASSUME NEW h \in Nat, Sound(h), NEW p \in Processes, ReadTail(p)
    PROVE  AuditInv'
<1> DEFINE l == [logger[p] EXCEPT !.state = "ready",
                    !.tail = [sequence |-> last.sequence, eventHash |-> last.eventHash]]
<1>1. LoggerOK(p) /\ QueueOK(p) /\ QueueBehind(p, h)
  BY DEF Sound
<1>2. logger' = [logger EXCEPT ![p] = l] /\ UNCHANGED <<rows, outcome, caller, edited>>
  BY DEF ReadTail
<1>3. logger'[p] = l
  BY <1>2 DEF Sound
<1>4. /\ l.queue = logger[p].queue /\ DOMAIN l = {"state", "tail", "queue"}
      /\ l.tail.sequence = last.sequence /\ l.tail.eventHash = last.eventHash
  BY <1>1 DEF LoggerOK
<1>5. last.sequence = h /\ last.eventHash = hashOf(h)
  BY LastIsHighest DEF Sound
<1>6. TailOK(p, h)'
  <2>1. hashOf(h)' = hashOf(h)
    BY <1>2 DEF hashOf
  <2> QED BY <1>3, <1>4, <1>5, <2>1 DEF TailOK
<1>7. LoggerOK(p)' /\ QueueOK(p)' /\ QueueBehind(p, h)'
  BY <1>1, <1>2, <1>3, <1>4 DEF LoggerOK, QueueOK, QueueBehind, said
<1> HIDE DEF l
<1> QED BY <1>2, <1>6, <1>7, OneLogger DEF Sound, CallsOK

\* What is left of a queue is in order when its first call has been dealt with.
LEMMA RestInOrder ==
    ASSUME NEW h \in Nat, Sound(h), NEW p \in Processes,
           logger[p].queue # <<>>, logger'[p].queue = others(p),
           UNCHANGED caller, Len(outcome') = Len(outcome)
    PROVE  QueueOK(p)'
<1>1. /\ logger[p].queue \in Seq(Call)
      /\ QueueOK(p)
  BY DEF Sound, LoggerOK
<1>2. \A i \in DOMAIN others(p) : /\ i + 1 \in DOMAIN logger[p].queue
                                   /\ others(p)[i] = logger[p].queue[i + 1]
  BY <1>1, OthersFollow
<1>3. DOMAIN others(p) \subseteq Nat
  BY <1>1, OthersFollow, LenProperties
<1> QED BY <1>1, <1>2, <1>3 DEF QueueOK

LEMMA FailKeeps ==
    ASSUME NEW h \in Nat, Sound(h), NEW p \in Processes, Fail(p)
    PROVE  AuditInv'
<1>1. /\ logger[p].queue \in Seq(Call) /\ logger[p].queue # <<>>
      /\ QueueOK(p) /\ QueueBehind(p, h) /\ CallsOK
  BY DEF Fail, Sound, LoggerOK
<1>2. nextCall(p) = logger[p].queue[1] /\ 1 \in DOMAIN logger[p].queue
  BY <1>1, OthersFollow
<1>3. nextCall(p).call \in 1..Len(outcome)
  BY <1>1, <1>2 DEF QueueOK
<1>4. outcome' \in Seq(Answers) /\ Len(outcome') = Len(outcome)
  <2>1. outcome' = [outcome EXCEPT ![nextCall(p).call] = "error"]
    BY DEF Fail
  <2>2. outcome \in Seq(Answers) /\ "error" \in Answers
    BY <1>1 DEF CallsOK, Answers
  <2> QED BY <1>3, <2>1, <2>2, ExceptSeq
<1>5. UNCHANGED <<rows, caller, edited>>
  BY DEF Fail
<1>6. CASE nextCall(p).awaited
  <2> DEFINE l == [state |-> "reading", tail |-> Null, queue |-> others(p)]
  <2>1. logger' = [logger EXCEPT ![p] = l]
    BY <1>6 DEF Fail, afterFailure
  <2>2. logger'[p] = l
    BY <2>1 DEF Sound
  <2>3. QueueOK(p)'
    BY <1>1, <1>4, <1>5, <2>2, RestInOrder
  <2>4. LoggerOK(p)' /\ TailOK(p, h)'
    BY <1>1, <2>2, OthersFollow DEF LoggerOK, TailOK
  <2>5. QueueBehind(p, h)'
    <3>1. \A i \in DOMAIN others(p) : /\ i + 1 \in DOMAIN logger[p].queue
                                       /\ others(p)[i] = logger[p].queue[i + 1]
      BY <1>1, OthersFollow
    <3> QED BY <1>1, <1>5, <2>2, <3>1 DEF QueueBehind, said
  <2> HIDE DEF l
  <2> QED BY <1>4, <1>5, <2>1, <2>3, <2>4, <2>5, OneLogger
<1>7. CASE ~nextCall(p).awaited
  <2>1. logger' = [logger EXCEPT ![p] = Down]
    BY <1>7 DEF Fail, afterFailure
  <2> QED BY <1>4, <1>5, <2>1, EmptyLogger
<1> QED BY <1>6, <1>7

LEMMA CrashKeeps ==
    ASSUME NEW h \in Nat, Sound(h), NEW p \in Processes, Crash(p)
    PROVE  AuditInv'
BY EmptyLogger DEF Crash, Sound, CallsOK

\* A call goes to the end of the queue; calls are numbered as they are made.
LEMMA RecordKeeps ==
    ASSUME NEW h \in Nat, Sound(h), NEW p \in Processes, NEW awaited \in BOOLEAN,
           Record(p, awaited)
    PROVE  AuditInv'
<1> DEFINE c == [call |-> Len(outcome) + 1, awaited |-> awaited]
<1> SUFFICES Sound(h)'
  BY DEF AuditInv
<1>1. CallsOK /\ LoggerOK(p) /\ Len(outcome) \in Nat
  BY LenProperties DEF Sound, CallsOK
<1>2. /\ outcome' \in Seq(Answers) /\ Len(outcome') = Len(outcome) + 1
      /\ caller' \in Seq(Processes) /\ Len(caller') = Len(outcome) + 1
      /\ caller'[Len(outcome) + 1] = p
      /\ \A i \in 1..Len(outcome) : caller'[i] = caller[i]
  <2>1. outcome' = Append(outcome, "asked") /\ caller' = Append(caller, p)
    BY DEF Record
  <2>2. /\ Append(outcome, "asked") \in Seq(Answers)
        /\ Len(Append(outcome, "asked")) = Len(outcome) + 1
    BY <1>1, AppendProperties DEF CallsOK, Answers
  <2>3. /\ Append(caller, p) \in Seq(Processes)
        /\ Len(Append(caller, p)) = Len(caller) + 1
        /\ Append(caller, p)[Len(caller) + 1] = p
        /\ \A i \in 1..Len(caller) : Append(caller, p)[i] = caller[i]
    BY <1>1, AppendProperties DEF CallsOK
  <2> QED BY <1>1, <2>1, <2>2, <2>3 DEF CallsOK
<1>3. UNCHANGED <<rows, edited>>
  BY DEF Record
<1>4. Chain(h)' /\ InOrder(h)'
  <2>1. ASSUME NEW n \in 1..h
        PROVE  /\ RowOK(n)' /\ said(n)' = said(n) /\ said(n) \in 1..Len(outcome)
               /\ caller'[said(n)] = caller[said(n)]
    <3>1. RowOK(n)
      BY DEF Sound, Chain
    <3>2. said(n)' = said(n) /\ hashOf(n - 1)' = hashOf(n - 1)
      BY <1>3 DEF said, hashOf
    <3>3. said(n) \in 1..Len(outcome) /\ said(n) \in 1..Len(outcome')
      BY <1>1, <1>2, <3>1 DEF RowOK
    <3> QED BY <1>2, <1>3, <3>1, <3>2, <3>3 DEF RowOK
  <2>2. Chain(h)'
    BY <1>3, <2>1 DEF Sound, Chain
  <2>3. InOrder(h)'
    BY <2>1 DEF Sound, InOrder
  <2> QED BY <2>2, <2>3
<1>5. /\ DOMAIN logger' = Processes
      /\ logger'[p] = [logger[p] EXCEPT !.queue = Append(logger[p].queue, c)]
      /\ \A q \in Processes \ {p} : logger'[q] = logger[q]
  BY DEF Record, Sound
<1>6. /\ logger'[p].queue = Append(logger[p].queue, c)
      /\ logger'[p].state = logger[p].state /\ logger'[p].tail = logger[p].tail
      /\ DOMAIN logger'[p] = {"state", "tail", "queue"}
  BY <1>1, <1>5 DEF LoggerOK
<1> DEFINE old == logger[p].queue
           new == Append(old, c)
<1>7. /\ new \in Seq(Call)
      /\ DOMAIN new = DOMAIN old \cup {Len(old) + 1} /\ DOMAIN old = 1..Len(old)
      /\ new[Len(old) + 1] = c
      /\ \A i \in DOMAIN old : new[i] = old[i]
  <2>1. c \in Call
    BY <1>1 DEF Call
  <2> QED BY <1>1, <2>1, AppendProperties, LenProperties DEF LoggerOK
<1>8. ASSUME NEW q \in Processes \ {p}
      PROVE  (LoggerOK(q) /\ TailOK(q, h) /\ QueueOK(q) /\ QueueBehind(q, h))'
  <2>1. logger'[q] = logger[q]
    BY <1>5
  <2>2. LoggerOK(q) /\ TailOK(q, h) /\ QueueOK(q) /\ QueueBehind(q, h)
    BY DEF Sound
  <2>3. LoggerOK(q)' /\ TailOK(q, h)'
    BY <1>3, <2>1, <2>2 DEF LoggerOK, TailOK, hashOf
  <2>4. QueueOK(q)'
    BY <1>1, <1>2, <2>1, <2>2 DEF QueueOK
  <2>5. QueueBehind(q, h)'
    <3>1. \A n \in 1..h : said(n) \in 1..Len(outcome)
      BY DEF Sound, Chain, RowOK
    <3>2. \A n \in 1..h : said(n)' = said(n)
      BY <1>3 DEF said
    <3>3. \A n \in 1..h : caller'[said(n)] = caller[said(n)]
      BY <1>2, <3>1
    <3> QED BY <2>1, <2>2, <3>2, <3>3 DEF QueueBehind
  <2> QED BY <2>3, <2>4, <2>5
<1>9. LoggerOK(p)' /\ TailOK(p, h)'
  BY <1>3, <1>6, <1>7 DEF Sound, LoggerOK, TailOK, hashOf
<1>10. QueueOK(p)'
  <2>0. \A i \in DOMAIN old :
          /\ old[i].call \in 1..Len(outcome) /\ caller[old[i].call] = p
          /\ \A j \in DOMAIN old : i < j => old[i].call < old[j].call
    BY DEF Sound, QueueOK
  <2>1. ASSUME NEW i \in DOMAIN old
        PROVE  /\ new[i].call \in 1..Len(outcome) /\ caller'[new[i].call] = p
               /\ \A j \in DOMAIN old : i < j => new[i].call < new[j].call
    <3>1. new[i] = old[i] /\ \A j \in DOMAIN old : new[j] = old[j]
      BY <1>7
    <3> HIDE DEF new, old
    <3>2. old[i].call \in 1..Len(outcome) /\ caller[old[i].call] = p
      BY <2>0
    <3>3. caller'[old[i].call] = p
      BY <1>2, <3>2
    <3> QED BY <2>0, <3>1, <3>2, <3>3
  <2>2. new[Len(old) + 1].call = Len(outcome) + 1
    BY <1>7
  <2>3. \A i \in DOMAIN new : i \in DOMAIN old \/ i = Len(old) + 1
    BY <1>7
  <2>4. Len(old) \in Nat
    BY <1>1, LenProperties DEF LoggerOK
  <2> HIDE DEF new, old
  <2>5. ASSUME NEW i \in DOMAIN new
        PROVE  /\ new[i].call \in 1..Len(outcome') /\ caller'[new[i].call] = p
               /\ \A j \in DOMAIN new : i < j => new[i].call < new[j].call
    BY <1>1, <1>2, <1>7, <2>1, <2>2, <2>3, <2>4
  <2>6. logger'[p].queue = new
    BY <1>6 DEF new, old
  <2> QED BY <2>5, <2>6 DEF QueueOK
<1>11. QueueBehind(p, h)'
  <2>1. ASSUME NEW n \in 1..h
        PROVE  said(n)' = said(n) /\ said(n) \in 1..Len(outcome)
    BY <1>3 DEF Sound, Chain, RowOK, said
  <2>2. ASSUME NEW n \in 1..h, NEW i \in DOMAIN old, caller[said(n)] = p
        PROVE  said(n) < new[i].call
    BY <1>7, <2>2 DEF Sound, QueueBehind
  <2>3. new[Len(old) + 1].call = Len(outcome) + 1
    BY <1>7
  <2>4. \A i \in DOMAIN new : i \in DOMAIN old \/ i = Len(old) + 1
    BY <1>7
  <2>5. logger'[p].queue = new
    BY <1>6
  <2> HIDE DEF new, old
  <2>6. ASSUME NEW i \in DOMAIN new, NEW n \in 1..h, caller'[said(n)'] = p
        PROVE  said(n)' < new[i].call
    <3>1. said(n)' = said(n) /\ said(n) \in 1..Len(outcome) /\ caller[said(n)] = p
      BY <1>2, <2>1, <2>6
    <3>2. CASE i \in DOMAIN old
      BY <2>2, <3>1, <3>2
    <3>3. CASE i = Len(old) + 1
      BY <1>1, <2>3, <3>1, <3>3
    <3> QED BY <2>4, <3>2, <3>3
  <2> QED BY <2>5, <2>6 DEF QueueBehind
<1> QED BY <1>2, <1>4, <1>5, <1>8, <1>9, <1>10, <1>11 DEF Sound, CallsOK

\* The next row of the chain, made from its last.
LEMMA AppendKeeps ==
    ASSUME NEW h \in Nat, Sound(h), NEW p \in Processes, AppendEvent(p)
    PROVE  AuditInv'
<1> DEFINE call  == nextCall(p).call
           event == createAuditEvent(call, logger[p].tail)
           l     == [state |-> "ready", queue |-> others(p),
                     tail |-> [sequence |-> event.sequence, eventHash |-> event.eventHash]]
<1> SUFFICES Sound(h + 1)'
  BY DEF AuditInv
<1>1. /\ logger[p].queue \in Seq(Call) /\ logger[p].queue # <<>> /\ logger[p].state = "ready"
      /\ QueueOK(p) /\ QueueBehind(p, h) /\ TailOK(p, h) /\ CallsOK /\ Chain(h) /\ InOrder(h)
      /\ event.sequence \notin DOMAIN rows
  BY DEF AppendEvent, Sound, LoggerOK
<1>2. nextCall(p) = logger[p].queue[1] /\ 1 \in DOMAIN logger[p].queue
  BY <1>1, OthersFollow
<1>3. call \in 1..Len(outcome) /\ caller[call] = p
  BY <1>1, <1>2 DEF QueueOK
<1>4. /\ event.sequence = h + 1
      /\ event.previousEventHash = hashOf(h)
      /\ event.eventHash = <<call, h + 1, hashOf(h)>>
      /\ event.content = call
      /\ DOMAIN event = Event
  <2>1. event.sequence = logger[p].tail.sequence + 1
    BY DEF createAuditEvent, eventWith
  <2>2. logger[p].tail.sequence = h /\ logger[p].tail.eventHash = hashOf(h)
    BY <1>1, <2>1 DEF TailOK, Chain
  <2> QED BY <2>2 DEF createAuditEvent, eventWith, computeEventHash, Event
<1>5. /\ DOMAIN rows' = 1..(h + 1)
      /\ rows'[h + 1] = event
      /\ \A n \in 1..h : rows'[n] = rows[n]
      /\ UNCHANGED <<caller, edited>>
  <2>1. rows' = [n \in DOMAIN rows \cup {event.sequence} |->
                   IF n = event.sequence THEN event ELSE rows[n]]
    BY DEF AppendEvent
  <2>2. UNCHANGED <<caller, edited>>
    BY DEF AppendEvent
  <2>3. DOMAIN rows \cup {event.sequence} = 1..(h + 1) /\ h + 1 \in 1..(h + 1)
    BY <1>1, <1>4 DEF Chain
  <2>4. \A n \in 1..h : n \in 1..(h + 1) /\ n # h + 1
    OBVIOUS
  <2> HIDE DEF event
  <2>5. rows' = [n \in 1..(h + 1) |-> IF n = h + 1 THEN event ELSE rows[n]]
    BY <1>4, <2>1, <2>3
  <2> QED BY <2>2, <2>3, <2>4, <2>5
<1>6. outcome' \in Seq(Answers) /\ Len(outcome') = Len(outcome)
  <2>1. outcome' = [outcome EXCEPT ![call] = "event"]
    BY DEF AppendEvent
  <2>2. outcome \in Seq(Answers) /\ "event" \in Answers
    BY <1>1 DEF CallsOK, Answers
  <2> QED BY <1>3, <2>1, <2>2, ExceptSeq
<1>7. /\ DOMAIN logger' = Processes
      /\ logger'[p] = l
      /\ \A q \in Processes \ {p} : logger'[q] = logger[q]
  BY DEF AppendEvent, Sound
<1> HIDE DEF event
<1>8. /\ \A n \in 0..h : hashOf(n)' = hashOf(n)
      /\ \A n \in 1..h : said(n)' = said(n)
      /\ hashOf(h + 1)' = event.eventHash /\ said(h + 1)' = call
  BY <1>4, <1>5 DEF hashOf, said
<1>9. Chain(h + 1)'
  <2>1. ASSUME NEW n \in 1..h PROVE RowOK(n)'
    <3>1. RowOK(n) /\ n - 1 \in 0..h
      BY <1>1 DEF Chain
    <3> QED BY <1>5, <1>6, <1>8, <3>1 DEF RowOK
  <2>2. RowOK(h + 1)'
    <3>1. h + 1 \notin edited /\ (h + 1) - 1 = h /\ h \in 0..h
      BY <1>1 DEF Chain
    <3> QED BY <1>3, <1>4, <1>5, <1>6, <1>8, <3>1 DEF RowOK
  <2>3. edited' \subseteq 1..(h + 1)
    BY <1>1, <1>5 DEF Chain
  <2>4. \A n \in 1..(h + 1) : n \in 1..h \/ n = h + 1
    OBVIOUS
  <2> QED BY <1>5, <2>1, <2>2, <2>3, <2>4 DEF Chain
<1>10. \A i \in DOMAIN logger[p].queue : call <= logger[p].queue[i].call
  <2> DEFINE q == logger[p].queue
  <2>1. DOMAIN q = 1..Len(q) /\ Len(q) \in Nat
    BY <1>1, LenProperties
  <2>2. \A i \in DOMAIN q : q[i].call \in 1..Len(outcome) /\ (1 < i => q[1].call < q[i].call)
    BY <1>1, <1>2 DEF QueueOK
  <2>3. call = q[1].call
    BY <1>2
  <2> HIDE DEF q, call
  <2>4. ASSUME NEW i \in DOMAIN q PROVE call <= q[i].call
    <3>1. i = 1 \/ 1 < i
      BY <2>1
    <3> QED BY <1>3, <2>2, <2>3, <3>1
  <2> QED BY <2>4 DEF q
<1>11. ASSUME NEW n \in 1..h, caller[said(n)] = p PROVE said(n) < call
  BY <1>1, <1>2, <1>11 DEF QueueBehind
<1>12. InOrder(h + 1)'
  <2>1. \A n \in 1..(h + 1) : n \in 1..h \/ n = h + 1
    OBVIOUS
  <2>2. \A n \in 1..h : said(n) \in 1..Len(outcome)
    BY <1>1 DEF Chain, RowOK
  <2>3. Len(outcome) \in Nat
    BY <1>1, LenProperties DEF CallsOK
  <2>4. ASSUME NEW m \in 1..(h + 1), NEW n \in 1..(h + 1),
               caller[said(m)'] = caller[said(n)'], said(m)' < said(n)'
        PROVE  m < n
    <3>1. CASE m \in 1..h /\ n \in 1..h
      BY <1>1, <1>8, <2>4, <3>1 DEF InOrder
    <3>2. CASE m \in 1..h /\ n = h + 1
      BY <3>2
    <3>3. CASE m = h + 1
      BY <1>3, <1>8, <1>11, <2>1, <2>2, <2>3, <2>4, <3>3
    <3> QED BY <2>1, <3>1, <3>2, <3>3
  <2> QED BY <1>5, <2>4 DEF InOrder
<1>13. (LoggerOK(p) /\ TailOK(p, h + 1))'
  <2>1. LoggerOK(p)'
    BY <1>1, <1>7, OthersFollow DEF LoggerOK
  <2>2. l.tail.sequence = h + 1 /\ l.tail.eventHash = event.eventHash
    BY <1>4
  <2> HIDE DEF l
  <2>3. logger'[p].tail.sequence = h + 1 /\ logger'[p].tail.eventHash = hashOf(h + 1)'
    BY <1>7, <1>8, <2>2
  <2>4. h + 1 \in 0..(h + 1)
    OBVIOUS
  <2>5. TailOK(p, h + 1)'
    BY <2>3, <2>4 DEF TailOK
  <2> QED BY <2>1, <2>5
<1>14. (QueueOK(p) /\ QueueBehind(p, h + 1))'
  <2>1. logger'[p].queue = others(p)
    BY <1>7
  <2>2. QueueOK(p)'
    BY <1>1, <1>5, <1>6, <2>1, RestInOrder
  <2>3. \A i \in DOMAIN others(p) : /\ i + 1 \in DOMAIN logger[p].queue
                                     /\ others(p)[i] = logger[p].queue[i + 1]
    BY <1>1, OthersFollow
  <2>4. ASSUME NEW i \in DOMAIN others(p) PROVE call < others(p)[i].call
    <3>1. i + 1 \in DOMAIN logger[p].queue /\ others(p)[i] = logger[p].queue[i + 1] /\ 1 < i + 1
      BY <1>1, <2>3, OthersFollow, LenProperties
    <3> QED BY <1>1, <1>2, <3>1 DEF QueueOK
  <2>5. \A n \in 1..(h + 1) : n \in 1..h \/ n = h + 1
    OBVIOUS
  <2>6. ASSUME NEW i \in DOMAIN others(p), NEW n \in 1..(h + 1), caller[said(n)'] = p
        PROVE  said(n)' < others(p)[i].call
    <3>1. CASE n \in 1..h
      BY <1>1, <1>8, <2>3, <2>6, <3>1 DEF QueueBehind
    <3>2. CASE n = h + 1
      BY <1>8, <2>4, <3>2
    <3> QED BY <2>5, <3>1, <3>2
  <2>7. QueueBehind(p, h + 1)'
    BY <1>5, <2>1, <2>6 DEF QueueBehind
  <2> QED BY <2>2, <2>7
<1>15. ASSUME NEW q \in Processes \ {p}
       PROVE  (LoggerOK(q) /\ TailOK(q, h + 1) /\ QueueOK(q) /\ QueueBehind(q, h + 1))'
  <2>1. logger'[q] = logger[q]
    BY <1>7
  <2>2. LoggerOK(q) /\ TailOK(q, h) /\ QueueOK(q) /\ QueueBehind(q, h)
    BY DEF Sound
  <2>3. LoggerOK(q)' /\ QueueOK(q)'
    BY <1>5, <1>6, <2>1, <2>2 DEF LoggerOK, QueueOK
  <2>4. TailOK(q, h + 1)'
    BY <1>8, <2>1, <2>2 DEF TailOK
  <2>5. QueueBehind(q, h + 1)'
    <3>1. \A n \in 1..(h + 1) : n \in 1..h \/ n = h + 1
      OBVIOUS
    <3> QED BY <1>3, <1>5, <1>8, <2>1, <2>2, <3>1 DEF QueueBehind
  <2> QED BY <2>3, <2>4, <2>5
<1>16. CallsOK'
  BY <1>1, <1>5, <1>6 DEF CallsOK
<1> QED BY <1>7, <1>9, <1>12, <1>13, <1>14, <1>15, <1>16 DEF Sound

\* An edit changes what a row says and no hash.
LEMMA EditKeeps ==
    ASSUME NEW h \in Nat, Sound(h), NEW k \in DOMAIN rows, Edit(k)
    PROVE  AuditInv'
<1> SUFFICES Sound(h)'
  BY DEF AuditInv
<1>1. Chain(h) /\ k \in 1..h
  BY DEF Sound, Chain
<1>2. /\ rows' = [rows EXCEPT ![k].content = 0] /\ edited' = edited \cup {k}
      /\ UNCHANGED <<logger, outcome, caller>>
  BY DEF Edit
<1>3. /\ DOMAIN rows' = DOMAIN rows
      /\ \A n \in 1..h \ {k} : rows'[n] = rows[n]
      /\ rows'[k] = [rows[k] EXCEPT !.content = 0]
  BY <1>1, <1>2 DEF Chain
<1>4. /\ DOMAIN rows'[k] = Event /\ rows'[k].content = 0
      /\ rows'[k].sequence = rows[k].sequence /\ rows'[k].eventHash = rows[k].eventHash
      /\ rows'[k].previousEventHash = rows[k].previousEventHash
  BY <1>1, <1>3 DEF Chain, RowOK, Event
<1>5. ASSUME NEW n \in 1..h PROVE said(n)' = said(n) /\ rows'[n].eventHash = rows[n].eventHash
  BY <1>3, <1>4 DEF said
<1>6. \A n \in 0..h : hashOf(n)' = hashOf(n)
  BY <1>5 DEF hashOf
<1>7. ASSUME NEW n \in 1..h PROVE RowOK(n)'
  <2>1. RowOK(n) /\ n - 1 \in 0..h
    BY <1>1 DEF Chain
  <2>2. CASE n = k
    BY <1>2, <1>4, <1>5, <1>6, <2>1, <2>2 DEF RowOK
  <2>3. CASE n # k
    BY <1>2, <1>3, <1>5, <1>6, <2>1, <2>3 DEF RowOK
  <2> QED BY <2>2, <2>3
<1>8. Chain(h)'
  BY <1>1, <1>2, <1>3, <1>7 DEF Chain
<1>9. InOrder(h)'
  BY <1>2, <1>5 DEF Sound, InOrder
<1>10. ASSUME NEW q \in Processes
       PROVE  (LoggerOK(q) /\ TailOK(q, h) /\ QueueOK(q) /\ QueueBehind(q, h))'
  BY <1>2, <1>5, <1>6 DEF Sound, LoggerOK, TailOK, QueueOK, QueueBehind
<1> QED BY <1>2, <1>8, <1>9, <1>10 DEF Sound, CallsOK

LEMMA NextAudit == AuditInv /\ [Next]_audit => AuditInv'
<1> SUFFICES ASSUME AuditInv, [Next]_audit PROVE AuditInv'
  OBVIOUS
<1>1. PICK h \in Nat : Sound(h)
  BY DEF AuditInv
<1>2. ASSUME NEW p \in Processes, Open(p) \/ Crash(p) \/ Steps(p) PROVE AuditInv'
  BY <1>1, <1>2, OpenKeeps, CrashKeeps, ReadTailKeeps, FailKeeps, AppendKeeps
     DEF Steps, ReadTailFails, AppendFails
<1>3. ASSUME NEW p \in Processes, NEW awaited \in BOOLEAN, Record(p, awaited) PROVE AuditInv'
  BY <1>1, <1>3, RecordKeeps
<1>4. ASSUME NEW n \in DOMAIN rows, Edit(n) PROVE AuditInv'
  BY <1>1, <1>4, EditKeeps
<1>5. CASE UNCHANGED audit
  <2>1. Sound(h)'
    BY <1>1, <1>5 DEF audit, Sound, Chain, RowOK, said, hashOf, InOrder, CallsOK, LoggerOK,
       TailOK, QueueOK, QueueBehind
  <2> QED BY <1>1, <2>1 DEF AuditInv
<1> QED BY <1>2, <1>3, <1>4, <1>5 DEF Next

-----------------------------------------------------------------------------
LEMMA AuditInvAlways == Spec => []AuditInv
BY InitAudit, NextAudit, PTL DEF Spec

\* In a sound table a row is in error exactly if it was edited.
LEMMA EditsShow == AuditInv => VerifyFindsTheEdit
<1> SUFFICES ASSUME NEW h \in Nat, Sound(h) PROVE VerifyFindsTheEdit
  BY DEF AuditInv
<1>1. DOMAIN rows = 1..h /\ edited \subseteq 1..h
  BY DEF Sound, Chain
<1>2. ASSUME NEW n \in 1..h PROVE brokenLink(n) <=> n \in edited
  <2>1. RowOK(n) /\ (n # 1 => n - 1 \in 1..h)
    BY DEF Sound, Chain
  <2>2. hashOf(n - 1) = IF n = 1 THEN <<>> ELSE rows[n - 1].eventHash
    BY <2>1 DEF hashOf
  <2>3. brokenLink(n) <=> rows[n].content # said(n)
    BY <1>1, <2>1, <2>2 DEF brokenLink, RowOK, computeEventHash
  <2> QED BY <2>1, <2>3 DEF RowOK
<1>3. {n \in DOMAIN rows : brokenLink(n)} = edited
  BY <1>1, <1>2
<1>4. \A m, n \in 1..h : n <= m <=> ~(m < n)
  OBVIOUS
<1>5. ASSUME NEW n
      PROVE  n \in brokenAt <=> n \in edited /\ \A m \in edited : n <= m
  BY <1>1, <1>2, <1>4 DEF brokenAt
<1> QED BY <1>5 DEF VerifyFindsTheEdit

\* verify finds exactly the first row that was edited, whatever processes,
\* concurrent calls, failed appends and crashes there were (AuditLog.record,
\* verifyChain).
THEOREM VerifyFindsTheEditAlways == Spec => []VerifyFindsTheEdit
BY AuditInvAlways, EditsShow, PTL

\* The events of a process are in the order in which it asked for them
\* (AuditLog.record).
THEOREM CallsKeepOrderAlways == Spec => []CallsKeepOrder
<1>1. AuditInv => CallsKeepOrder
  <2> SUFFICES ASSUME NEW h \in Nat, Sound(h) PROVE CallsKeepOrder
    BY DEF AuditInv
  <2>1. ASSUME NEW n \in DOMAIN rows \ edited PROVE n \in 1..h /\ rows[n].content = said(n)
    BY DEF Sound, Chain, RowOK
  <2> QED BY <2>1 DEF CallsKeepOrder, Sound, InOrder
<1> QED BY <1>1, AuditInvAlways, PTL

-----------------------------------------------------------------------------
(***************************************************************************)
(* The shape of the state                                                  *)
(***************************************************************************)
States == {"down", "reading", "ready"}

ShapeOK(p) == logger[p].state \in States /\ logger[p].tail.sequence \in Nat

Shape == Len(outcome) <= MaxRecords /\ \A p \in Processes : ShapeOK(p)

LEMMA OneShape ==
    ASSUME AuditInv, Shape, NEW p \in Processes, NEW l, logger' = [logger EXCEPT ![p] = l],
           l.state \in States, l.tail.sequence \in Nat,
           outcome' = outcome \/ Len(outcome') = Len(outcome) \/ Len(outcome') <= MaxRecords
    PROVE  Shape'
<1>1. DOMAIN logger = Processes
  BY DEF AuditInv, Sound
<1>2. ASSUME NEW q \in Processes PROVE ShapeOK(q)'
  BY <1>1 DEF Shape, ShapeOK
<1> QED BY <1>2 DEF Shape

LEMMA NextShape ==
    ASSUME MaxRecords \in Nat, AuditInv, Shape, [Next]_audit
    PROVE  Shape'
<1>1. PICK h \in Nat : Sound(h)
  BY DEF AuditInv
<1>2. Down.state \in States /\ Down.tail.sequence \in Nat /\ Null.sequence \in Nat
  BY DEF Down, Null, States
<1>3. ASSUME NEW p \in Processes, Open(p) PROVE Shape'
  <2> DEFINE l == [logger[p] EXCEPT !.state = "reading"]
  <2>1. logger' = [logger EXCEPT ![p] = l] /\ UNCHANGED outcome
    BY <1>3 DEF Open
  <2>2. l.state \in States /\ l.tail = logger[p].tail
    BY <1>1 DEF Sound, LoggerOK, States
  <2> HIDE DEF l
  <2> QED BY <2>1, <2>2, OneShape DEF Shape, ShapeOK
<1>4. ASSUME NEW p \in Processes, Crash(p) PROVE Shape'
  BY <1>2, <1>4, OneShape DEF Crash
<1>5. ASSUME NEW p \in Processes, ReadTail(p) PROVE Shape'
  <2> DEFINE l == [logger[p] EXCEPT !.state = "ready",
                      !.tail = [sequence |-> last.sequence, eventHash |-> last.eventHash]]
  <2>1. logger' = [logger EXCEPT ![p] = l] /\ UNCHANGED outcome
    BY <1>5 DEF ReadTail
  <2>2. l.state \in States /\ l.tail.sequence = last.sequence
    BY <1>1 DEF Sound, LoggerOK, States
  <2>3. last.sequence \in Nat
    BY <1>1, LastIsHighest DEF Sound
  <2> HIDE DEF l
  <2> QED BY <2>1, <2>2, <2>3, OneShape
<1>6. ASSUME NEW p \in Processes, Fail(p) PROVE Shape'
  <2> DEFINE l == afterFailure(p)
  <2>1. logger' = [logger EXCEPT ![p] = l]
    BY <1>6 DEF Fail
  <2>2. l.state \in States /\ l.tail.sequence \in Nat
    BY <1>2 DEF afterFailure, States
  <2>3. Len(outcome') = Len(outcome)
    BY <1>1, <1>6, ExceptSeq DEF Fail, Sound, CallsOK
  <2> HIDE DEF l
  <2> QED BY <2>1, <2>2, <2>3, OneShape
<1>7. ASSUME NEW p \in Processes, AppendEvent(p) PROVE Shape'
  <2> DEFINE event == createAuditEvent(nextCall(p).call, logger[p].tail)
             l     == [state |-> "ready", queue |-> others(p),
                       tail |-> [sequence |-> event.sequence, eventHash |-> event.eventHash]]
  <2>1. logger' = [logger EXCEPT ![p] = l]
    BY <1>7 DEF AppendEvent
  <2>2. l.state \in States /\ l.tail.sequence = event.sequence
    BY DEF States
  <2>3. event.sequence = logger[p].tail.sequence + 1
    BY DEF createAuditEvent, eventWith
  <2>4. l.tail.sequence \in Nat
    BY <2>2, <2>3 DEF Shape, ShapeOK
  <2>5. Len(outcome') = Len(outcome)
    BY <1>1, <1>7, ExceptSeq DEF AppendEvent, Sound, CallsOK
  <2> HIDE DEF l
  <2> QED BY <2>1, <2>2, <2>4, <2>5, OneShape
<1>8. ASSUME NEW p \in Processes, NEW awaited \in BOOLEAN, Record(p, awaited) PROVE Shape'
  <2> DEFINE l == [logger[p] EXCEPT !.queue = Append(@, [call |-> Len(outcome) + 1,
                                                           awaited |-> awaited])]
  <2>1. /\ logger' = [logger EXCEPT ![p] = l] /\ outcome' = Append(outcome, "asked")
        /\ Len(outcome) < MaxRecords
    BY <1>8 DEF Record
  <2>2. l.state = logger[p].state /\ l.tail = logger[p].tail
    BY <1>1 DEF Sound, LoggerOK
  <2>3. Len(outcome') = Len(outcome) + 1 /\ Len(outcome) \in Nat
    BY <1>1, <2>1, AppendProperties, LenProperties DEF Sound, CallsOK, Answers
  <2>4. Len(outcome') <= MaxRecords
    BY <2>1, <2>3
  <2> HIDE DEF l
  <2> QED BY <2>1, <2>2, <2>4, OneShape DEF Shape, ShapeOK
<1>9. ASSUME NEW n \in DOMAIN rows, Edit(n) PROVE Shape'
  BY <1>9 DEF Edit, Shape, ShapeOK
<1>10. CASE UNCHANGED audit
  BY <1>10 DEF audit, Shape, ShapeOK
<1> QED BY <1>3, <1>4, <1>5, <1>6, <1>7, <1>8, <1>9, <1>10
        DEF Next, Steps, ReadTailFails, AppendFails

LEMMA ShapeIsTypeOK == AuditInv /\ Shape => AuditTypeOK
<1> SUFFICES ASSUME NEW h \in Nat, Sound(h), Shape PROVE AuditTypeOK
  BY DEF AuditInv
<1>1. /\ DOMAIN rows = 1..h /\ edited \subseteq DOMAIN rows
      /\ \A n \in DOMAIN rows : DOMAIN rows[n] = Event /\ rows[n].sequence = n
  BY DEF Sound, Chain, RowOK
<1>2. DOMAIN outcome = 1..Len(outcome) /\ CallsOK
  BY LenProperties DEF Sound, CallsOK
<1>3. \A p \in Processes : \A i \in DOMAIN logger[p].queue :
          logger[p].queue[i].call \in DOMAIN outcome
  BY <1>2 DEF Sound, QueueOK
<1> QED BY <1>1, <1>2, <1>3 DEF AuditTypeOK, Shape, ShapeOK, States, CallsOK, Answers

\* Every row has its fields and its number, every call that waits was made, and
\* a logger is in one of its three states (AuditLog).
THEOREM TypeCorrect == ASSUME MaxRecords \in Nat PROVE Spec => []AuditTypeOK
<1>1. Init => Shape
  <2>1. Len(<<>>) = 0 /\ Down.state \in States /\ Down.tail.sequence \in Nat
    BY EmptySeq DEF Down, Null, States
  <2> QED BY <2>1 DEF Init, Shape, ShapeOK
<1> QED BY <1>1, AuditInvAlways, NextShape, ShapeIsTypeOK, PTL DEF Spec

=============================================================================
