----------------------------- MODULE Stores_proof -----------------------------
(***************************************************************************)
(* The stores of a process, and that they leave each other's rules alone.  *)
(*                                                                         *)
(* First the secret file by itself: its state is well typed, and what was  *)
(* set is kept and can be read, through failed reads and writes, crashes   *)
(* and any number of processes, when one process at a time writes and the  *)
(* first write of the file does not fail.  Then what is proved of the      *)
(* audit log and of the secret file holds of them inside the runtime,      *)
(* where they die together.                                                *)
(***************************************************************************)
EXTENDS Stores, TLAPS, SequenceTheorems

Mutation == [call : Nat \ {0}, name : Names, what : {"set", "delete"}]

-----------------------------------------------------------------------------
(***************************************************************************)
(* The shape of the secret store, whoever writes and whatever fails        *)
(***************************************************************************)
SecretsTyped(f) ==
    /\ DOMAIN f.secrets \subseteq Names
    /\ \A n \in DOMAIN f.secrets : f.secrets[n].call \in 1..mutations

\* Calls wait at writers only, and a copy belongs to the first of them.
VaultTyped(p) ==
    /\ DOMAIN vault[p] = {"up", "cachedKey", "queue", "copy"}
    /\ vault[p].up \in BOOLEAN
    /\ vault[p].queue \in Seq(Mutation)
    /\ \A i \in DOMAIN vault[p].queue : vault[p].queue[i].call <= mutations
    /\ vault[p].queue # <<>> => p \in Writers
    /\ vault[p].copy # <<>> =>
         /\ Len(vault[p].copy) = 1 /\ SecretsTyped(vault[p].copy[1])
         /\ vault[p].queue # <<>>

SecretTyped ==
    /\ kind \in KeyKinds
    /\ mutations \in 0..MaxMutations
    /\ kept \in [Names -> 0..mutations]
    /\ SecretsTyped(file)
    /\ DOMAIN vault = Processes
    /\ \A p \in Processes : VaultTyped(p)

LEMMA TypedIsTypeOK == SecretTyped => SecretTypeOK
<1> SUFFICES ASSUME SecretTyped PROVE SecretTypeOK
  OBVIOUS
<1>1. ASSUME NEW p \in Processes
      PROVE  /\ vault[p].up \in BOOLEAN
             /\ Len(vault[p].copy) <= 1
             /\ \A i \in DOMAIN vault[p].queue : vault[p].queue[i].call \in 1..mutations
  <2>1. VaultTyped(p) /\ mutations \in Nat
    BY SecretAssumption DEF SecretTyped
  <2>2. Len(<<>>) = 0
    BY EmptySeq
  <2>3. Len(vault[p].copy) <= 1
    <3>1. Len(vault[p].copy) = 0 \/ Len(vault[p].copy) = 1
      BY <2>1, <2>2, Zenon DEF VaultTyped
    <3> DEFINE l == Len(vault[p].copy)
    <3> HIDE DEF l
    <3>2. l = 0 \/ l = 1
      BY <3>1 DEF l
    <3>3. l <= 1
      BY <3>2
    <3> QED BY <3>3 DEF l
  <2>4. ASSUME NEW i \in DOMAIN vault[p].queue PROVE vault[p].queue[i].call \in 1..mutations
    <3>1. vault[p].queue[i] \in Mutation /\ vault[p].queue[i].call <= mutations
      BY <2>1, ElementOfSeq, LenProperties DEF VaultTyped
    <3> QED BY <2>1, <3>1 DEF Mutation
  <2> QED BY <2>1, <2>3, <2>4 DEF VaultTyped
<1> QED BY <1>1 DEF SecretTyped, SecretsTyped, SecretTypeOK

LEMMA InitTyped == Init => SecretTyped
<1> SUFFICES ASSUME Init PROVE SecretTyped
  OBVIOUS
<1>1. DOMAIN NoFile.secrets = {}
  BY DEF NoFile
<1>2. ASSUME NEW p \in Processes PROVE VaultTyped(p)
  <2>1. vault[p] = Closed
    BY DEF Init
  <2>2. /\ DOMAIN Closed = {"up", "cachedKey", "queue", "copy"}
        /\ Closed.queue = <<>> /\ Closed.copy = <<>> /\ Closed.up = FALSE
    BY DEF Closed
  <2>3. <<>> \in Seq(Mutation) /\ DOMAIN <<>> = {}
    BY EmptySeq
  <2> QED BY <2>1, <2>2, <2>3 DEF VaultTyped
<1> QED BY <1>1, <1>2, SecretAssumption DEF Init, SecretTyped, SecretsTyped

\* A step of one process that leaves the file alone; calls may have been added.
LEMMA OneTyped ==
    ASSUME SecretTyped, NEW p \in Processes, NEW v, vault' = [vault EXCEPT ![p] = v],
           UNCHANGED <<kind, file, kept>>,
           mutations' \in 0..MaxMutations, mutations <= mutations', VaultTyped(p)'
    PROVE  SecretTyped'
<1>1. mutations \in Nat /\ mutations' \in Nat
  BY SecretAssumption DEF SecretTyped
<1>2. SecretsTyped(file)'
  BY <1>1 DEF SecretTyped, SecretsTyped
<1>3. DOMAIN vault' = Processes /\ \A q \in Processes \ {p} : vault'[q] = vault[q]
  BY DEF SecretTyped
<1>4. ASSUME NEW q \in Processes PROVE VaultTyped(q)'
  <2>1. CASE q = p
    BY <2>1
  <2>2. CASE q # p
    <3>1. vault'[q] = vault[q] /\ VaultTyped(q)
      BY <1>3, <2>2 DEF SecretTyped
    <3>2. ASSUME vault[q].copy # <<>> PROVE SecretsTyped(vault[q].copy[1])'
      <4>1. SecretsTyped(vault[q].copy[1])
        BY <3>1, <3>2 DEF VaultTyped
      <4> DEFINE f == vault[q].copy[1]
      <4>2. vault'[q].copy[1] = f
        BY <3>1
      <4>3. /\ DOMAIN f.secrets \subseteq Names
            /\ \A n \in DOMAIN f.secrets : f.secrets[n].call \in 1..mutations
        BY <4>1 DEF SecretsTyped
      <4> HIDE DEF f
      <4>4. \A n \in DOMAIN f.secrets : f.secrets[n].call \in 1..mutations'
        BY <1>1, <4>3
      <4> QED BY <4>2, <4>3, <4>4 DEF SecretsTyped
    <3>3. ASSUME NEW i \in DOMAIN vault[q].queue PROVE vault[q].queue[i].call <= mutations'
      <4>1. vault[q].queue[i] \in Mutation /\ vault[q].queue[i].call <= mutations
        BY <3>1, ElementOfSeq, LenProperties DEF VaultTyped
      <4> QED BY <1>1, <4>1 DEF Mutation
    <3> QED BY <3>1, <3>2, <3>3 DEF VaultTyped
  <2> QED BY <2>1, <2>2
<1>5. kept' \in [Names -> 0..mutations']
  BY <1>1 DEF SecretTyped
<1> QED BY <1>2, <1>3, <1>4, <1>5 DEF SecretTyped

\* The queue, and the copy if there is one, stay or lose their first.
LEMMA QueueTyped ==
    ASSUME SecretTyped, NEW p \in Processes, vault[p].queue # <<>>
    PROVE  /\ p \in Writers
           /\ Head(vault[p].queue) \in Mutation
           /\ Head(vault[p].queue).call \in 1..mutations
           /\ Tail(vault[p].queue) \in Seq(Mutation)
           /\ \A i \in DOMAIN Tail(vault[p].queue) : Tail(vault[p].queue)[i].call <= mutations
<1> DEFINE q == vault[p].queue
<1>1. VaultTyped(p) /\ mutations \in Nat
  BY SecretAssumption DEF SecretTyped
<1>2. q \in Seq(Mutation) /\ q # <<>> /\ p \in Writers
      /\ \A i \in DOMAIN q : q[i].call <= mutations
  BY <1>1 DEF VaultTyped
<1> HIDE DEF q
<1>3. /\ Head(q) \in Mutation /\ Tail(q) \in Seq(Mutation)
      /\ Len(q) \in Nat \ {0} /\ DOMAIN q = 1..Len(q)
      /\ Head(q) = q[1]
      /\ Len(Tail(q)) = Len(q) - 1 /\ DOMAIN Tail(q) = 1..Len(Tail(q))
      /\ \A i \in 1..Len(Tail(q)) : Tail(q)[i] = q[i + 1]
  BY <1>2, HeadTailProperties, LenProperties, EmptySeq
<1>4. Head(q).call \in 1..mutations
  BY <1>1, <1>2, <1>3 DEF Mutation
<1>5. ASSUME NEW i \in DOMAIN Tail(q) PROVE Tail(q)[i].call <= mutations
  <2>1. i + 1 \in DOMAIN q /\ Tail(q)[i] = q[i + 1]
    BY <1>3
  <2> QED BY <1>2, <2>1
<1> QED BY <1>2, <1>3, <1>4, <1>5 DEF q

LEMMA DoneTyped ==
    ASSUME SecretTyped, NEW p \in Processes, vault[p].queue # <<>>, vault' = done(p),
           UNCHANGED <<kind, mutations>>
    PROVE  /\ DOMAIN vault' = Processes /\ VaultTyped(p)'
           /\ \A q \in Processes \ {p} : vault'[q] = vault[q]
           /\ vault' = [vault EXCEPT ![p] = vault'[p]]
<1> DEFINE v == [vault[p] EXCEPT !.queue = Tail(vault[p].queue), !.copy = <<>>]
<1>1. vault' = [vault EXCEPT ![p] = v] /\ DOMAIN vault = Processes
  BY DEF done, SecretTyped
<1>2. vault'[p] = v /\ VaultTyped(p)
  BY <1>1 DEF SecretTyped
<1>3. /\ DOMAIN v = {"up", "cachedKey", "queue", "copy"}
      /\ v.queue = Tail(vault[p].queue) /\ v.copy = <<>> /\ v.up = vault[p].up
  BY <1>2 DEF VaultTyped
<1> HIDE DEF v
<1>4. VaultTyped(p)'
  BY <1>2, <1>3, QueueTyped DEF VaultTyped
<1>5. \A q \in Processes \ {p} : vault'[q] = vault[q]
  BY <1>1
<1> QED BY <1>1, <1>2, <1>4, <1>5

LEMMA PrepareTyped ==
    ASSUME SecretTyped, NEW p \in Processes, Prepare(p)
    PROVE  SecretTyped'
<1> DEFINE m   == Head(vault[p].queue)
           f   == read(m.call)
           key == deriveKey(p, f)
           c   == [salt |-> f.salt, secrets |-> entries(f, m, key)]
           v   == [vault[p] EXCEPT !.copy = <<c>>,
                     !.cachedKey = IF m.what = "set" THEN key ELSE vault[p].cachedKey]
<1>1. /\ vault[p].queue # <<>>
      /\ UNCHANGED <<kind, file, mutations, kept>>
      /\ vault' = [vault EXCEPT ![p] = v]
  BY DEF Prepare, turn
<1>2. vault'[p] = v /\ VaultTyped(p)
  BY <1>1 DEF SecretTyped
<1>3. /\ DOMAIN v = {"up", "cachedKey", "queue", "copy"}
      /\ v.queue = vault[p].queue /\ v.copy = <<c>> /\ v.up = vault[p].up
  BY <1>2 DEF VaultTyped
<1>4. m \in Mutation /\ m.call \in 1..mutations /\ m.name \in Names
  BY <1>1, QueueTyped DEF Mutation
<1>5. SecretsTyped(f)
  BY DEF SecretTyped, SecretsTyped, read, NoFile
<1> HIDE DEF m, f, key
<1>6. c.secrets = entries(f, m, key)
  OBVIOUS
<1>7. SecretsTyped(c)
  <2>1. CASE m.what = "set"
    <3>1. c.secrets = [n \in DOMAIN f.secrets \cup {m.name} |->
                         IF n = m.name THEN encrypt(m.call, key) ELSE f.secrets[n]]
      BY <1>6, <2>1 DEF entries
    <3> HIDE DEF c
    <3>2. DOMAIN c.secrets = DOMAIN f.secrets \cup {m.name}
      BY <3>1
    <3>3. \A n \in DOMAIN c.secrets :
            c.secrets[n] = IF n = m.name THEN encrypt(m.call, key) ELSE f.secrets[n]
      BY <3>1
    <3>4. encrypt(m.call, key).call = m.call
      BY DEF encrypt
    <3>5. \A n \in DOMAIN c.secrets : c.secrets[n].call \in 1..mutations
      BY <1>4, <1>5, <3>2, <3>3, <3>4 DEF SecretsTyped
    <3> QED BY <1>4, <1>5, <3>2, <3>5 DEF SecretsTyped
  <2>2. CASE m.what # "set"
    <3>1. c.secrets = [n \in DOMAIN f.secrets \ {m.name} |-> f.secrets[n]]
      BY <1>6, <2>2 DEF entries
    <3> HIDE DEF c
    <3>2. /\ DOMAIN c.secrets = DOMAIN f.secrets \ {m.name}
          /\ \A n \in DOMAIN c.secrets : c.secrets[n] = f.secrets[n]
      BY <3>1
    <3> QED BY <1>5, <3>2 DEF SecretsTyped
  <2> QED BY <2>1, <2>2
<1> HIDE DEF v, c
<1>8. Len(<<c>>) = 1 /\ <<c>>[1] = c /\ <<c>> # <<>>
  OBVIOUS
<1>9. VaultTyped(p)'
  <2>1. /\ DOMAIN vault'[p] = {"up", "cachedKey", "queue", "copy"}
        /\ vault'[p].up \in BOOLEAN
        /\ vault'[p].queue = vault[p].queue /\ vault'[p].copy = <<c>>
    BY <1>2, <1>3 DEF VaultTyped
  <2>2. vault'[p].copy[1] = c
    BY <1>8, <2>1
  <2>3. SecretsTyped(vault'[p].copy[1])
    BY <1>7, <2>2
  <2>4. SecretsTyped(vault[p].copy[1])'
    BY <1>1, <2>3 DEF SecretsTyped
  <2>5. Len(vault'[p].copy) = 1
    BY <1>8, <2>1
  <2> QED BY <1>1, <1>2, <2>1, <2>4, <2>5 DEF VaultTyped
<1>10. mutations' \in 0..MaxMutations /\ mutations <= mutations'
  BY <1>1, SecretAssumption DEF SecretTyped
<1> QED BY <1>1, <1>9, <1>10, OneTyped

LEMMA RenameTyped ==
    ASSUME SecretTyped, NEW p \in Processes, Rename(p)
    PROVE  SecretTyped'
<1> DEFINE m == Head(vault[p].queue)
<1>1. /\ vault[p].copy # <<>> /\ file' = vault[p].copy[1] /\ vault' = done(p)
      /\ kept' = [kept EXCEPT ![m.name] = IF m.what = "set" THEN m.call ELSE 0]
      /\ UNCHANGED <<kind, mutations>>
  BY DEF Rename
<1>2. vault[p].queue # <<>> /\ SecretsTyped(vault[p].copy[1])
  BY <1>1 DEF SecretTyped, VaultTyped
<1>3. m.call \in 1..mutations /\ m.name \in Names /\ mutations \in Nat
  BY <1>2, QueueTyped, SecretAssumption DEF Mutation, SecretTyped
<1> HIDE DEF m
<1>4. kept' \in [Names -> 0..mutations']
  BY <1>1, <1>3 DEF SecretTyped
<1>5. SecretsTyped(file)'
  BY <1>1, <1>2 DEF SecretsTyped
<1>6. /\ DOMAIN vault' = Processes /\ VaultTyped(p)'
      /\ \A q \in Processes \ {p} : vault'[q] = vault[q]
  BY <1>1, <1>2, DoneTyped
<1>7. ASSUME NEW q \in Processes \ {p} PROVE VaultTyped(q)'
  <2>1. vault'[q] = vault[q] /\ VaultTyped(q)
    BY <1>6 DEF SecretTyped
  <2> QED BY <1>1, <2>1 DEF VaultTyped, SecretsTyped
<1> QED BY <1>1, <1>4, <1>5, <1>6, <1>7 DEF SecretTyped

LEMMA MutateTyped ==
    ASSUME SecretTyped, NEW p \in Writers, p \in Processes, NEW n \in Names,
           NEW what \in {"set", "delete"}, Mutate(p, n, what)
    PROVE  SecretTyped'
<1> DEFINE m == [call |-> mutations + 1, name |-> n, what |-> what]
           q == vault[p].queue
           v == [vault[p] EXCEPT !.queue = Append(q, m)]
<1>1. /\ vault' = [vault EXCEPT ![p] = v] /\ mutations' = mutations + 1
      /\ mutations < MaxMutations /\ UNCHANGED <<kind, file, kept>>
  BY DEF Mutate
<1>2. VaultTyped(p) /\ mutations \in Nat /\ vault'[p] = v
  BY <1>1, SecretAssumption DEF SecretTyped
<1>3. m \in Mutation /\ m.call = mutations + 1
  BY <1>2 DEF Mutation
<1>4. /\ DOMAIN v = {"up", "cachedKey", "queue", "copy"} /\ v.queue = Append(q, m)
      /\ v.copy = vault[p].copy /\ v.up = vault[p].up
  BY <1>2 DEF VaultTyped
<1>5. q \in Seq(Mutation) /\ \A i \in DOMAIN q : q[i].call <= mutations
  BY <1>2 DEF VaultTyped
<1> HIDE DEF v, m, q
<1>6. /\ Append(q, m) \in Seq(Mutation) /\ Append(q, m) # <<>>
      /\ \A i \in DOMAIN Append(q, m) : \/ i \in DOMAIN q /\ Append(q, m)[i] = q[i]
                                       \/ Append(q, m)[i] = m
  BY <1>3, <1>5, AppendProperties, LenProperties, EmptySeq
<1>7. ASSUME NEW i \in DOMAIN Append(q, m) PROVE Append(q, m)[i].call <= mutations'
  <2>1. CASE Append(q, m)[i] = m
    BY <1>1, <1>2, <1>3, <2>1
  <2>2. CASE i \in DOMAIN q /\ Append(q, m)[i] = q[i]
    <3>1. q[i] \in Mutation /\ q[i].call <= mutations
      BY <1>5, <2>2, ElementOfSeq, LenProperties
    <3> QED BY <1>1, <1>2, <2>2, <3>1 DEF Mutation
  <2> QED BY <1>6, <2>1, <2>2
<1>8. ASSUME vault[p].copy # <<>>
      PROVE  Len(vault[p].copy) = 1 /\ SecretsTyped(vault[p].copy[1])'
  <2>1. Len(vault[p].copy) = 1 /\ SecretsTyped(vault[p].copy[1])
    BY <1>2, <1>8 DEF VaultTyped
  <2> DEFINE f == vault[p].copy[1]
  <2>2. /\ DOMAIN f.secrets \subseteq Names
        /\ \A i \in DOMAIN f.secrets : f.secrets[i].call \in 1..mutations
    BY <2>1 DEF SecretsTyped
  <2>3. vault'[p].copy[1] = f
    BY <1>2, <1>4
  <2> HIDE DEF f
  <2>4. \A i \in DOMAIN f.secrets : f.secrets[i].call \in 1..mutations'
    BY <1>1, <1>2, <2>2
  <2>5. /\ DOMAIN (vault'[p].copy[1]).secrets \subseteq Names
        /\ \A i \in DOMAIN (vault'[p].copy[1]).secrets :
             (vault'[p].copy[1]).secrets[i].call \in 1..mutations'
    BY <2>2, <2>3, <2>4
  <2> QED BY <2>1, <2>5 DEF SecretsTyped
<1>9. VaultTyped(p)'
  BY <1>1, <1>2, <1>4, <1>6, <1>7, <1>8 DEF VaultTyped, SecretsTyped
<1>10. mutations' \in 0..MaxMutations /\ mutations <= mutations'
  BY <1>1, <1>2, SecretAssumption
<1> QED BY <1>1, <1>9, <1>10, OneTyped

LEMMA AtRestTyped ==
    ASSUME SecretTyped, NEW p \in Processes, NEW v, vault' = [vault EXCEPT ![p] = v],
           UNCHANGED <<kind, file, mutations, kept>>, v.up \in BOOLEAN,
           DOMAIN v = {"up", "cachedKey", "queue", "copy"},
           \/ v.queue = vault[p].queue /\ v.copy = vault[p].copy
           \/ v.queue = <<>> /\ v.copy = <<>>
    PROVE  SecretTyped'
<1>1. vault'[p] = v /\ VaultTyped(p)
  BY DEF SecretTyped
<1>2. <<>> \in Seq(Mutation) /\ DOMAIN <<>> = {}
  BY EmptySeq
<1>3. VaultTyped(p)'
  BY <1>1, <1>2 DEF VaultTyped, SecretsTyped
<1>4. mutations' \in 0..MaxMutations /\ mutations <= mutations'
  BY SecretAssumption DEF SecretTyped
<1> QED BY <1>3, <1>4, OneTyped

\* A process starts, ends or caches a key.
LEMMA OthersTyped ==
    ASSUME SecretTyped, NEW p \in Processes,
           Start(p) \/ Stop(p) \/ \E n \in Names : Get(p, n)
    PROVE  SecretTyped'
<1>1. VaultTyped(p) /\ UNCHANGED <<kind, file, mutations, kept>>
  BY DEF SecretTyped, Start, Stop, Get
<1>2. CASE Start(p)
  <2> DEFINE v == [vault[p] EXCEPT !.up = TRUE]
  <2>1. vault' = [vault EXCEPT ![p] = v]
    BY <1>2 DEF Start
  <2>2. /\ v.up \in BOOLEAN /\ v.queue = vault[p].queue /\ v.copy = vault[p].copy
        /\ DOMAIN v = {"up", "cachedKey", "queue", "copy"}
    BY <1>1 DEF VaultTyped
  <2> HIDE DEF v
  <2> QED BY <1>1, <2>1, <2>2, AtRestTyped
<1>3. CASE Stop(p)
  <2>1. vault' = [vault EXCEPT ![p] = Closed]
    BY <1>3 DEF Stop
  <2>2. /\ Closed.up \in BOOLEAN /\ Closed.queue = <<>> /\ Closed.copy = <<>>
        /\ DOMAIN Closed = {"up", "cachedKey", "queue", "copy"}
    BY DEF Closed
  <2> QED BY <1>1, <2>1, <2>2, AtRestTyped
<1>4. ASSUME NEW n \in Names, Get(p, n) PROVE SecretTyped'
  <2>1. CASE vault' = vault
    BY <1>1, <2>1 DEF SecretTyped, VaultTyped, SecretsTyped
  <2>2. CASE vault' # vault
    <3> DEFINE v == [vault[p] EXCEPT !.cachedKey = deriveKey(p, file)]
    <3>1. vault' = [vault EXCEPT ![p] = v]
      BY <1>4, <2>2 DEF Get
    <3>2. /\ v.up = vault[p].up /\ v.queue = vault[p].queue /\ v.copy = vault[p].copy
          /\ DOMAIN v = {"up", "cachedKey", "queue", "copy"}
      BY <1>1 DEF VaultTyped
    <3>3. v.up \in BOOLEAN
      BY <1>1, <3>2 DEF VaultTyped
    <3> HIDE DEF v
    <3> QED BY <1>1, <3>1, <3>2, <3>3, AtRestTyped
  <2> QED BY <2>1, <2>2
<1> QED BY <1>2, <1>3, <1>4

LEMMA NextTyped == SecretTyped /\ [Next]_secrets => SecretTyped'
<1> SUFFICES ASSUME SecretTyped, [Next]_secrets PROVE SecretTyped'
  OBVIOUS
<1>1. ASSUME NEW p \in Writers, NEW n \in Names, NEW what \in {"set", "delete"},
             Mutate(p, n, what)
      PROVE  SecretTyped'
  BY <1>1, MutateTyped, SecretAssumption
<1>2. ASSUME NEW p \in Writers, ReadFails(p) \/ WriteFails(p) PROVE SecretTyped'
  <2>1. p \in Processes /\ vault' = done(p) /\ UNCHANGED <<kind, file, mutations, kept>>
    BY <1>2, SecretAssumption DEF ReadFails, WriteFails
  <2>2. vault[p].queue # <<>>
    BY <1>2, <2>1 DEF ReadFails, WriteFails, turn, SecretTyped, VaultTyped
  <2>3. VaultTyped(p)' /\ vault' = [vault EXCEPT ![p] = vault'[p]]
    BY <2>1, <2>2, DoneTyped
  <2>4. mutations' \in 0..MaxMutations /\ mutations <= mutations'
    BY <2>1, SecretAssumption DEF SecretTyped
  <2> QED BY <2>1, <2>3, <2>4, OneTyped
<1>3. ASSUME NEW p \in Writers, Prepare(p) \/ Rename(p) PROVE SecretTyped'
  BY <1>3, PrepareTyped, RenameTyped, SecretAssumption
<1>4. ASSUME NEW p \in Processes,
             Start(p) \/ Stop(p) \/ \E n \in Names : Get(p, n)
      PROVE  SecretTyped'
  BY <1>4, OthersTyped
<1>5. CASE UNCHANGED secrets
  BY <1>5 DEF secrets, SecretTyped, VaultTyped, SecretsTyped
<1> QED BY <1>1, <1>2, <1>3, <1>4, <1>5 DEF Next

-----------------------------------------------------------------------------
(***************************************************************************)
(* What is kept                                                            *)
(***************************************************************************)
\* The file holds what is kept, sealed with its own key; only no file has no salt.
FileOK ==
    /\ file.salt \in Nat /\ (file.salt = 0 => file = NoFile)
    /\ kept \in [Names -> Nat]
    /\ DOMAIN file.secrets \subseteq Names
    /\ \A n \in Names : kept[n] = 0 <=> n \notin DOMAIN file.secrets
    /\ \A n \in DOMAIN file.secrets : file.secrets[n] = encrypt(kept[n], freshKey(file))
    /\ kind = "environment" => DOMAIN file.secrets = {}

\* What the file is to become by the first call in the queue.
revised(p) ==
    LET m == Head(vault[p].queue)
        f == read(m.call)
    IN  [salt |-> f.salt, secrets |-> entries(f, m, freshKey(f))]

\* No key is cached that is not that of the file, or of the file being written.
VaultOK(p) ==
    /\ DOMAIN vault[p] = {"up", "cachedKey", "queue", "copy"}
    /\ vault[p].queue \in Seq(Mutation)
    /\ vault[p].queue # <<>> => p \in Writers /\ kind # "environment"
    /\ \/ /\ vault[p].copy = <<>>
          /\ vault[p].cachedKey \in {NoKey, freshKey(file)}
       \/ /\ vault[p].copy = <<revised(p)>>
          /\ vault[p].queue # <<>>
          /\ vault[p].cachedKey \in {NoKey, freshKey(revised(p))}

SecretInv ==
    /\ FileOK
    /\ mutations \in Nat
    /\ DOMAIN vault = Processes
    /\ \A p \in Processes : VaultOK(p)

-----------------------------------------------------------------------------
LEMMA InitSecrets == Init => SecretInv
<1> SUFFICES ASSUME Init PROVE SecretInv
  OBVIOUS
<1>1. NoFile.salt = 0 /\ DOMAIN NoFile.secrets = {}
  BY DEF NoFile
<1>2. FileOK
  BY <1>1 DEF Init, FileOK
<1>3. ASSUME NEW p \in Processes PROVE VaultOK(p)
  <2>1. vault[p] = Closed
    BY DEF Init
  <2>2. /\ DOMAIN Closed = {"up", "cachedKey", "queue", "copy"}
        /\ Closed.queue = <<>> /\ Closed.copy = <<>> /\ Closed.cachedKey = NoKey
    BY DEF Closed
  <2>3. <<>> \in Seq(Mutation)
    BY EmptySeq
  <2> QED BY <2>1, <2>2, <2>3 DEF VaultOK
<1> QED BY <1>2, <1>3 DEF Init, SecretInv

\* What the file is to become depends on the file and on the first in the queue.
LEMMA RevisedStays ==
    ASSUME NEW p, UNCHANGED <<kind, file>>, Head(vault'[p].queue) = Head(vault[p].queue)
    PROVE  revised(p)' = revised(p)
<1> DEFINE m == Head(vault[p].queue)
           f == read(m.call)
<1>1. m' = m
  OBVIOUS
<1>2. f' = f
  BY <1>1 DEF read
<1>3. freshKey(f)' = freshKey(f)
  BY <1>2 DEF freshKey
<1>4. revised(p) = [salt |-> f.salt, secrets |-> entries(f, m, freshKey(f))]
  BY DEF revised
<1>5. revised(p)' = [salt |-> f.salt, secrets |-> entries(f, m, freshKey(f))]'
  BY DEF revised
<1> HIDE DEF f, m
<1> QED BY <1>1, <1>2, <1>3, <1>4, <1>5 DEF entries

LEMMA SameVault ==
    ASSUME NEW p, UNCHANGED <<kind, file, vault[p]>>, VaultOK(p)
    PROVE  VaultOK(p)'
<1>1. revised(p)' = revised(p) /\ freshKey(file)' = freshKey(file)
  BY DEF revised, read, freshKey, entries
<1>2. freshKey(revised(p))' = freshKey(revised(p))
  BY <1>1 DEF freshKey
<1> QED BY <1>1, <1>2 DEF VaultOK

\* A step of one process that leaves the file alone.
LEMMA OneVault ==
    ASSUME SecretInv, NEW p \in Processes, NEW v, vault' = [vault EXCEPT ![p] = v],
           UNCHANGED <<kind, file, kept>>, mutations' \in Nat, VaultOK(p)'
    PROVE  SecretInv'
<1>1. FileOK'
  BY DEF SecretInv, FileOK, freshKey
<1>2. DOMAIN vault' = Processes
  BY DEF SecretInv
<1>3. ASSUME NEW q \in Processes PROVE VaultOK(q)'
  <2>1. CASE q = p
    BY <2>1
  <2>2. CASE q # p
    <3>1. vault'[q] = vault[q]
      BY <2>2 DEF SecretInv
    <3> QED BY <3>1, SameVault DEF SecretInv
  <2> QED BY <2>1, <2>2
<1> QED BY <1>1, <1>2, <1>3 DEF SecretInv

LEMMA ClosedKeeps ==
    ASSUME SecretInv, NEW p \in Processes, Stop(p)
    PROVE  SecretInv'
<1>1. vault' = [vault EXCEPT ![p] = Closed] /\ UNCHANGED <<kind, file, mutations, kept>>
  BY DEF Stop
<1>2. vault'[p] = Closed
  BY <1>1 DEF SecretInv
<1>3. /\ DOMAIN Closed = {"up", "cachedKey", "queue", "copy"}
      /\ Closed.queue = <<>> /\ Closed.copy = <<>> /\ Closed.cachedKey = NoKey
  BY DEF Closed
<1>4. VaultOK(p)'
  BY <1>2, <1>3, EmptySeq DEF VaultOK
<1> QED BY <1>1, <1>4, OneVault DEF SecretInv

LEMMA StartKeeps ==
    ASSUME SecretInv, NEW p \in Processes, Start(p)
    PROVE  SecretInv'
<1> DEFINE v == [vault[p] EXCEPT !.up = TRUE]
<1>1. vault' = [vault EXCEPT ![p] = v] /\ UNCHANGED <<kind, file, mutations, kept>>
  BY DEF Start
<1>2. vault'[p] = v
  BY <1>1 DEF SecretInv
<1>3. VaultOK(p)
  BY DEF SecretInv
<1>4. /\ DOMAIN v = {"up", "cachedKey", "queue", "copy"}
      /\ v.queue = vault[p].queue /\ v.copy = vault[p].copy /\ v.cachedKey = vault[p].cachedKey
  BY <1>3 DEF VaultOK
<1> HIDE DEF v
<1>5. /\ revised(p)' = revised(p) /\ freshKey(file)' = freshKey(file)
      /\ freshKey(revised(p))' = freshKey(revised(p))
  <2>1. revised(p)' = revised(p)
    BY <1>1, <1>2, <1>4, RevisedStays
  <2> QED BY <1>1, <2>1 DEF freshKey
<1>6. VaultOK(p)'
  BY <1>1, <1>2, <1>3, <1>4, <1>5 DEF VaultOK
<1> QED BY <1>1, <1>6, OneVault DEF SecretInv

\* The key of the file is cached once an entry is decrypted.
LEMMA GetKeeps ==
    ASSUME SecretInv, NEW p \in Processes, NEW n \in Names, Get(p, n)
    PROVE  SecretInv'
<1>1. UNCHANGED <<kind, file, mutations, kept>>
  BY DEF Get
<1>2. VaultOK(p) /\ FileOK
  BY DEF SecretInv
<1>3. CASE kind # "environment" /\ n \in Allowed \cap DOMAIN file.secrets
  <2> DEFINE v == [vault[p] EXCEPT !.cachedKey = deriveKey(p, file)]
  <2>1. vault' = [vault EXCEPT ![p] = v]
    BY <1>3 DEF Get
  <2>2. vault'[p] = v
    BY <2>1 DEF SecretInv
  <2>3. /\ DOMAIN v = {"up", "cachedKey", "queue", "copy"}
        /\ v.queue = vault[p].queue /\ v.copy = vault[p].copy /\ v.cachedKey = deriveKey(p, file)
    BY <1>2 DEF VaultOK
  <2>4. file # NoFile
    BY <1>3 DEF NoFile
  <2>5. freshKey(revised(p)) = freshKey(file)
    BY <2>4 DEF freshKey, revised, read
  <2>6. deriveKey(p, file) = freshKey(file)
    BY <1>2, <2>5 DEF VaultOK, deriveKey
  <2> HIDE DEF v
  <2>7. revised(p)' = revised(p) /\ freshKey(file)' = freshKey(file)
    BY <1>1, <2>2, <2>3 DEF revised, read, freshKey, entries
  <2>8. freshKey(revised(p))' = freshKey(revised(p))
    BY <1>1, <2>7 DEF freshKey
  <2>9. VaultOK(p)'
    BY <1>1, <1>2, <2>2, <2>3, <2>5, <2>6, <2>7, <2>8 DEF VaultOK
  <2> QED BY <1>1, <2>1, <2>9, OneVault DEF SecretInv
<1>4. CASE ~(kind # "environment" /\ n \in Allowed \cap DOMAIN file.secrets)
  <2>1. UNCHANGED vault
    BY <1>4 DEF Get
  <2>2. FileOK'
    BY <1>1, <1>2 DEF FileOK, freshKey
  <2>3. \A q \in Processes : VaultOK(q)'
    BY <1>1, <2>1, SameVault DEF SecretInv
  <2> QED BY <1>1, <2>1, <2>2, <2>3 DEF SecretInv
<1> QED BY <1>3, <1>4

LEMMA MutateKeeps ==
    ASSUME SecretInv, NEW p \in Writers, p \in Processes, NEW n \in Names,
           NEW what \in {"set", "delete"}, Mutate(p, n, what)
    PROVE  SecretInv'
<1> DEFINE m == [call |-> mutations + 1, name |-> n, what |-> what]
           v == [vault[p] EXCEPT !.queue = Append(vault[p].queue, m)]
<1>1. /\ vault' = [vault EXCEPT ![p] = v] /\ mutations' = mutations + 1
      /\ UNCHANGED <<kind, file, kept>>
  BY DEF Mutate
<1>2. vault'[p] = v
  BY <1>1 DEF SecretInv
<1>3. VaultOK(p) /\ m \in Mutation
  BY DEF SecretInv, Mutation
<1>4. /\ DOMAIN v = {"up", "cachedKey", "queue", "copy"}
      /\ v.queue = Append(vault[p].queue, m)
      /\ v.copy = vault[p].copy /\ v.cachedKey = vault[p].cachedKey
  BY <1>3 DEF VaultOK
<1>5. vault[p].queue \in Seq(Mutation)
  BY <1>3 DEF VaultOK
<1> HIDE DEF v, m
<1>6. /\ Append(vault[p].queue, m) \in Seq(Mutation)
      /\ vault[p].queue # <<>> => Head(Append(vault[p].queue, m)) = Head(vault[p].queue)
  BY <1>3, <1>5, AppendProperties, EmptySeq
<1>7. vault[p].queue # <<>> => revised(p)' = revised(p)
  <2>1. vault[p].queue # <<>> => Head(vault'[p].queue) = Head(vault[p].queue)
    BY <1>2, <1>4, <1>6
  <2> QED BY <1>1, <2>1, RevisedStays
<1>8. kind # "environment" /\ freshKey(file)' = freshKey(file)
  BY <1>1 DEF Mutate, readOnly, freshKey
<1>9. vault[p].queue # <<>> => freshKey(revised(p))' = freshKey(revised(p))
  BY <1>1, <1>7 DEF freshKey
<1>10. Append(vault[p].queue, m) # <<>>
  BY <1>3, <1>5, AppendProperties
<1>11. VaultOK(p)'
  BY <1>1, <1>2, <1>3, <1>4, <1>6, <1>7, <1>8, <1>9, <1>10 DEF VaultOK
<1>12. mutations' \in Nat
  BY <1>1 DEF SecretInv
<1> QED BY <1>1, <1>11, <1>12, OneVault

\* The first call of the queue, and what is behind it.
LEMMA Queued ==
    ASSUME SecretInv, NEW p \in Processes, vault[p].queue # <<>>
    PROVE  /\ Head(vault[p].queue) \in Mutation
           /\ Tail(vault[p].queue) \in Seq(Mutation)
BY HeadTailProperties DEF SecretInv, VaultOK

\* The copy is made of the file as it is, under its key.
LEMMA PrepareKeeps ==
    ASSUME SecretInv, NEW p \in Processes, Prepare(p)
    PROVE  SecretInv'
<1> DEFINE m   == Head(vault[p].queue)
           f   == read(m.call)
           key == deriveKey(p, f)
           c   == [salt |-> f.salt, secrets |-> entries(f, m, key)]
           v   == [vault[p] EXCEPT !.copy = <<c>>,
                     !.cachedKey = IF m.what = "set" THEN key ELSE vault[p].cachedKey]
<1>1. /\ vault[p].queue # <<>> /\ vault[p].copy = <<>>
      /\ UNCHANGED <<kind, file, mutations, kept>>
  BY DEF Prepare, turn
<1>2. vault' = [vault EXCEPT ![p] = v]
  BY DEF Prepare
<1>3. vault'[p] = v
  BY <1>2 DEF SecretInv
<1>4. VaultOK(p) /\ FileOK /\ m \in Mutation
  BY <1>1, Queued DEF SecretInv
<1>5. /\ DOMAIN v = {"up", "cachedKey", "queue", "copy"}
      /\ v.queue = vault[p].queue /\ v.copy = <<c>>
      /\ v.cachedKey = IF m.what = "set" THEN key ELSE vault[p].cachedKey
  BY <1>4 DEF VaultOK
<1>6. vault[p].cachedKey \in {NoKey, freshKey(file)}
  BY <1>1, <1>4 DEF VaultOK
<1>7. key = freshKey(f)
  <2>1. CASE file = NoFile
    BY <1>6, <2>1 DEF deriveKey, freshKey, NoFile, NoKey, MasterKey
  <2>2. CASE file # NoFile
    BY <1>6, <2>2 DEF deriveKey, read
  <2> QED BY <2>1, <2>2
<1>8. c = revised(p) /\ freshKey(revised(p)) = freshKey(f)
  BY <1>7 DEF revised, freshKey
<1>9. v.cachedKey \in {NoKey, freshKey(revised(p))}
  <2>1. vault[p].cachedKey \in {NoKey, freshKey(f)}
    <3>1. CASE file = NoFile
      BY <1>6, <3>1 DEF freshKey, NoFile, NoKey, read
    <3>2. CASE file # NoFile
      BY <1>6, <3>2 DEF read
    <3> QED BY <3>1, <3>2
  <2> QED BY <1>5, <1>7, <1>8, <2>1
<1> HIDE DEF v, c
<1>10. revised(p)' = revised(p)
  BY <1>1, <1>3, <1>5 DEF revised, read, freshKey, entries
<1>11. freshKey(revised(p))' = freshKey(revised(p))
  BY <1>1, <1>10 DEF freshKey
<1>12. VaultOK(p)'
  BY <1>1, <1>3, <1>4, <1>5, <1>8, <1>9, <1>10, <1>11 DEF VaultOK
<1> QED BY <1>1, <1>2, <1>12, OneVault DEF SecretInv

\* A call that is dropped leaves its file alone, and the cached key is that file's:
\* a write that was begun is given up only when there is a file.
LEMMA DropKeeps ==
    ASSUME SecretInv, NEW p \in Processes, vault[p].queue # <<>>,
           vault[p].copy = <<>> \/ file # NoFile,
           vault' = done(p), UNCHANGED <<kind, file, mutations, kept>>
    PROVE  SecretInv'
<1> DEFINE v == [vault[p] EXCEPT !.queue = Tail(vault[p].queue), !.copy = <<>>]
<1>1. vault' = [vault EXCEPT ![p] = v]
  BY DEF done
<1>2. vault'[p] = v
  BY <1>1 DEF SecretInv
<1>3. VaultOK(p) /\ Tail(vault[p].queue) \in Seq(Mutation)
  BY Queued DEF SecretInv
<1>4. /\ DOMAIN v = {"up", "cachedKey", "queue", "copy"}
      /\ v.queue = Tail(vault[p].queue) /\ v.copy = <<>> /\ v.cachedKey = vault[p].cachedKey
  BY <1>3 DEF VaultOK
<1>5. vault[p].cachedKey \in {NoKey, freshKey(file)}
  <2>1. CASE vault[p].copy = <<>>
    BY <1>3, <2>1 DEF VaultOK
  <2>2. CASE file # NoFile
    <3>1. freshKey(revised(p)) = freshKey(file)
      BY <2>2 DEF revised, read, freshKey
    <3> QED BY <1>3, <3>1 DEF VaultOK
  <2> QED BY <2>1, <2>2
<1>6. p \in Writers /\ kind # "environment" /\ freshKey(file)' = freshKey(file)
  BY <1>3 DEF VaultOK, freshKey
<1> HIDE DEF v
<1>7. VaultOK(p)'
  BY <1>2, <1>3, <1>4, <1>5, <1>6 DEF VaultOK
<1> QED BY <1>1, <1>7, OneVault DEF SecretInv

\* The copy becomes the file: of its secrets one is another, and none is sealed
\* with another key.
LEMMA RenamedFile ==
    ASSUME SecretInv, NEW p \in Processes, Rename(p)
    PROVE  /\ FileOK'
           /\ freshKey(file) \in {NoKey, freshKey(file)'}
<1> DEFINE m == Head(vault[p].queue)
           f == read(m.call)
<1>1. VaultOK(p) /\ FileOK /\ vault[p].copy # <<>>
  BY DEF SecretInv, Rename
<1>2. vault[p].copy = <<revised(p)>> /\ vault[p].queue # <<>>
  BY <1>1 DEF VaultOK
<1>3. m \in Mutation
  BY <1>2, Queued
<1>4. /\ file' = revised(p) /\ UNCHANGED kind
      /\ kept' = [kept EXCEPT ![m.name] = IF m.what = "set" THEN m.call ELSE 0]
  BY <1>2 DEF Rename
<1>5. /\ f.salt \in Nat \ {0} /\ f.secrets = file.secrets
      /\ DOMAIN file.secrets # {} => freshKey(f) = freshKey(file)
      /\ freshKey(file) \in {NoKey, freshKey(f)}
  <2>1. CASE file = NoFile
    BY <1>3, <2>1 DEF Mutation, read, NoFile, freshKey, NoKey, MasterKey
  <2>2. CASE file # NoFile
    BY <1>1, <2>2 DEF FileOK, read
  <2> QED BY <2>1, <2>2
<1>6. /\ file'.salt = f.salt /\ file'.secrets = entries(f, m, freshKey(f))
      /\ freshKey(file)' = freshKey(f)
  BY <1>4 DEF revised, freshKey
<1>7. m.name \in Names /\ m.call \in Nat \ {0} /\ m.what \in {"set", "delete"}
  BY <1>3 DEF Mutation
<1> HIDE DEF m, f
<1>8. /\ DOMAIN file'.secrets = IF m.what = "set" THEN DOMAIN file.secrets \cup {m.name}
                                ELSE DOMAIN file.secrets \ {m.name}
      /\ \A n \in DOMAIN file'.secrets :
           file'.secrets[n] = IF n = m.name THEN encrypt(m.call, freshKey(f))
                              ELSE file.secrets[n]
  <2>1. CASE m.what = "set"
    BY <1>5, <1>6, <2>1 DEF entries
  <2>2. CASE m.what # "set"
    BY <1>5, <1>6, <2>2 DEF entries
  <2> QED BY <2>1, <2>2
<1>9. /\ kept' \in [Names -> Nat]
      /\ \A n \in Names : kept'[n] = IF n # m.name THEN kept[n]
                                      ELSE IF m.what = "set" THEN m.call ELSE 0
  BY <1>1, <1>4, <1>7 DEF FileOK
<1>10. DOMAIN file'.secrets \subseteq Names
  BY <1>1, <1>7, <1>8 DEF FileOK
<1>11. ASSUME NEW n \in Names PROVE kept'[n] = 0 <=> n \notin DOMAIN file'.secrets
  BY <1>1, <1>7, <1>8, <1>9 DEF FileOK
<1>12. ASSUME NEW n \in DOMAIN file'.secrets
       PROVE  file'.secrets[n] = encrypt(kept'[n], freshKey(f))
  <2>1. CASE n = m.name
    BY <1>7, <1>8, <1>9, <2>1
  <2>2. CASE n # m.name
    <3>1. n \in DOMAIN file.secrets
      BY <1>8, <2>2
    <3> QED BY <1>1, <1>5, <1>8, <1>9, <2>2, <3>1 DEF FileOK
  <2> QED BY <2>1, <2>2
<1>13. file'.salt \in Nat /\ file'.salt # 0
  BY <1>5, <1>6
<1>14. kind' # "environment"
  BY <1>1, <1>2, <1>4 DEF VaultOK
<1>15. FileOK'
  BY <1>6, <1>9, <1>10, <1>11, <1>12, <1>13, <1>14 DEF FileOK
<1> QED BY <1>5, <1>6, <1>15

\* Nobody else had begun to write, and what they cached is no other key.
LEMMA RenameKeeps ==
    ASSUME SecretInv, NEW p \in Processes, \A q \in Writers : q = p, Rename(p)
    PROVE  SecretInv'
<1> DEFINE v == [vault[p] EXCEPT !.queue = Tail(vault[p].queue), !.copy = <<>>]
<1>1. VaultOK(p) /\ FileOK /\ vault[p].copy # <<>>
  BY DEF SecretInv, Rename
<1>2. vault[p].copy = <<revised(p)>> /\ vault[p].queue # <<>> /\ kind # "environment"
  BY <1>1 DEF VaultOK
<1>3. file' = revised(p) /\ UNCHANGED <<kind, mutations>> /\ vault' = [vault EXCEPT ![p] = v]
  <2>1. vault' = [vault EXCEPT ![p] = v]
    BY DEF Rename, done
  <2> QED BY <1>2, <2>1 DEF Rename
<1>4. FileOK' /\ freshKey(file) \in {NoKey, freshKey(file)'}
  BY RenamedFile
<1>5. /\ DOMAIN vault' = Processes /\ vault'[p] = v
      /\ \A q \in Processes \ {p} : vault'[q] = vault[q]
  BY <1>3 DEF SecretInv
<1>6. VaultOK(p)'
  <2>1. Tail(vault[p].queue) \in Seq(Mutation)
    BY <1>2, Queued
  <2>2. /\ DOMAIN v = {"up", "cachedKey", "queue", "copy"}
        /\ v.queue = Tail(vault[p].queue) /\ v.copy = <<>> /\ v.cachedKey = vault[p].cachedKey
    BY <1>1 DEF VaultOK
  <2>3. vault[p].cachedKey \in {NoKey, freshKey(file)'}
    <3>1. freshKey(revised(p)) = freshKey(file)'
      BY <1>3 DEF freshKey
    <3>2. vault[p].cachedKey \in {NoKey, freshKey(revised(p))}
      BY <1>1, <1>2 DEF VaultOK
    <3> QED BY <3>1, <3>2
  <2> HIDE DEF v
  <2>4. /\ DOMAIN vault'[p] = {"up", "cachedKey", "queue", "copy"}
        /\ vault'[p].queue \in Seq(Mutation) /\ vault'[p].copy = <<>>
        /\ vault'[p].cachedKey \in {NoKey, freshKey(file)'}
    BY <1>5, <2>1, <2>2, <2>3
  <2>5. p \in Writers /\ kind' # "environment"
    BY <1>1, <1>2, <1>3 DEF VaultOK
  <2> QED BY <2>4, <2>5 DEF VaultOK
<1>7. ASSUME NEW q \in Processes \ {p} PROVE VaultOK(q)'
  <2>1. VaultOK(q) /\ q \notin Writers
    BY DEF SecretInv
  <2>2. vault[q].queue = <<>> /\ vault[q].copy = <<>> /\ vault[q].cachedKey \in {NoKey, freshKey(file)}
    BY <2>1 DEF VaultOK
  <2> QED BY <1>4, <1>5, <2>1, <2>2 DEF VaultOK
<1> QED BY <1>3, <1>4, <1>5, <1>6, <1>7 DEF SecretInv

-----------------------------------------------------------------------------
\* One process writes, and its write of a file that is not there yet succeeds.
WritesAreSafe == (\A p, q \in Writers : p = q) /\ ~FirstWriteMayFail

LEMMA NextSecrets ==
    ASSUME WritesAreSafe, SecretInv, [Next]_secrets
    PROVE  SecretInv'
<1>1. ASSUME NEW p \in Processes, Start(p) \/ Stop(p) PROVE SecretInv'
  BY <1>1, StartKeeps, ClosedKeeps
<1>2. ASSUME NEW p \in Writers, NEW n \in Names, NEW what \in {"set", "delete"},
             Mutate(p, n, what)
      PROVE  SecretInv'
  BY <1>2, MutateKeeps, SecretAssumption
<1>3. ASSUME NEW p \in Writers, Prepare(p) PROVE SecretInv'
  BY <1>3, PrepareKeeps, SecretAssumption
<1>4. ASSUME NEW p \in Writers, ReadFails(p) PROVE SecretInv'
  BY <1>4, DropKeeps, SecretAssumption DEF ReadFails, turn
<1>5. ASSUME NEW p \in Writers, Rename(p) PROVE SecretInv'
  BY <1>5, RenameKeeps, SecretAssumption DEF WritesAreSafe
<1>6. ASSUME NEW p \in Writers, WriteFails(p) PROVE SecretInv'
  <2>1. vault[p].queue # <<>>
    BY <1>6, SecretAssumption DEF WriteFails, SecretInv, VaultOK
  <2> QED BY <1>6, <2>1, DropKeeps, SecretAssumption DEF WriteFails, WritesAreSafe
<1>7. ASSUME NEW p \in Processes, NEW n \in Names, Get(p, n) PROVE SecretInv'
  BY <1>7, GetKeeps
<1>8. CASE UNCHANGED secrets
  <2>1. FileOK'
    BY <1>8 DEF secrets, SecretInv, FileOK, freshKey
  <2>2. \A q \in Processes : VaultOK(q)'
    BY <1>8, SameVault DEF secrets, SecretInv
  <2> QED BY <1>8, <2>1, <2>2 DEF secrets, SecretInv
<1> QED BY <1>1, <1>2, <1>3, <1>4, <1>5, <1>6, <1>7, <1>8 DEF Next

LEMMA KeptOnFile == SecretInv => KeptIsReadable
<1> SUFFICES ASSUME SecretInv, NEW n \in Names
    PROVE  IF kept[n] = 0 THEN n \notin DOMAIN file.secrets
           ELSE /\ n \in DOMAIN file.secrets
                /\ file.secrets[n] = [call |-> kept[n], key |-> freshKey(file)]
                /\ \A p \in Processes :
                     vault[p].up /\ n \in Allowed => getSecret(p, n) = found(kept[n])
  BY DEF KeptIsReadable
<1>1. FileOK
  BY DEF SecretInv
<1>2. CASE kept[n] = 0
  BY <1>1, <1>2 DEF FileOK
<1>3. CASE kept[n] # 0
  <2>1. n \in DOMAIN file.secrets /\ file.secrets[n] = encrypt(kept[n], freshKey(file))
    BY <1>1, <1>3 DEF FileOK
  <2>2. ASSUME NEW p \in Processes, n \in Allowed
        PROVE  getSecret(p, n) = found(kept[n])
    <3>1. file # NoFile
      BY <2>1 DEF NoFile
    <3>2. freshKey(revised(p)) = freshKey(file)
      BY <3>1 DEF revised, read, freshKey
    <3>3. deriveKey(p, file) = freshKey(file)
      BY <3>2 DEF SecretInv, VaultOK, deriveKey
    <3>4. decrypted(p, n) = found(kept[n])
      BY <2>1, <3>3 DEF decrypted, decrypt, encrypt
    <3>5. kind # "environment"
      BY <1>1, <2>1 DEF FileOK
    <3> QED BY <2>2, <3>4, <3>5 DEF getSecret
  <2> QED BY <1>3, <2>1, <2>2 DEF encrypt
<1> QED BY <1>2, <1>3

\* What was set and not deleted since is in the file and can be read, by the
\* processes that are up and by those that start, whatever fails and crashes
\* (EncryptedFileSecretStore).
THEOREM KeptIsReadableAlways == ASSUME WritesAreSafe PROVE Spec => []KeptIsReadable
BY InitSecrets, NextSecrets, KeptOnFile, PTL DEF Spec


-----------------------------------------------------------------------------
(***************************************************************************)
(* Inside the runtime                                                      *)
(***************************************************************************)
Chain == INSTANCE AuditLog_proof

-----------------------------------------------------------------------------
(***************************************************************************)
(* Log and Chain are one module, instantiated twice.                       *)
(***************************************************************************)
LEMMA SameInit == StoresInit => Chain!Init
BY DEF StoresInit, Log!Init, Chain!Init, Log!Down, Chain!Down, Log!Null, Chain!Null

LEMMA SameOpen == \A p : Log!Open(p) <=> Chain!Open(p)
BY DEF Log!Open, Chain!Open, Log!Up, Chain!Up

LEMMA SameCrash == \A p : Log!Crash(p) <=> Chain!Crash(p)
BY DEF Log!Crash, Chain!Crash, Log!Up, Chain!Up, Log!Down, Chain!Down, Log!Null, Chain!Null

LEMMA SameRecord == \A p, awaited : Log!Record(p, awaited) <=> Chain!Record(p, awaited)
BY DEF Log!Record, Chain!Record, Log!Up, Chain!Up

LEMMA SameEdit == \A n : Log!Edit(n) <=> Chain!Edit(n)
BY DEF Log!Edit, Chain!Edit

LEMMA SameQueue == \A p : Log!nextCall(p) = Chain!nextCall(p) /\ Log!others(p) = Chain!others(p)
BY DEF Log!nextCall, Chain!nextCall, Log!next, Chain!next, Log!others, Chain!others,
   Log!RemoveAt, Chain!RemoveAt

LEMMA SameFail == \A p : Log!Fail(p) <=> Chain!Fail(p)
BY SameQueue DEF Log!Fail, Chain!Fail, Log!afterFailure, Chain!afterFailure,
   Log!Down, Chain!Down, Log!Null, Chain!Null

LEMMA SameReadTail == \A p : Log!ReadTail(p) <=> Chain!ReadTail(p)
<1>1. Log!last = Chain!last
  BY DEF Log!last, Chain!last, Log!Null, Chain!Null
<1> QED BY <1>1 DEF Log!ReadTail, Chain!ReadTail

LEMMA SameAppend == \A p : Log!AppendEvent(p) <=> Chain!AppendEvent(p)
<1>1. \A call, tail : Log!createAuditEvent(call, tail) = Chain!createAuditEvent(call, tail)
  BY DEF Log!createAuditEvent, Chain!createAuditEvent, Log!eventWith, Chain!eventWith,
     Log!computeEventHash, Chain!computeEventHash
<1> QED BY <1>1, SameQueue DEF Log!AppendEvent, Chain!AppendEvent

LEMMA SameSteps == \A p : Log!Steps(p) <=> Chain!Steps(p)
BY SameCrash, SameFail, SameReadTail, SameAppend
   DEF Log!Steps, Chain!Steps, Log!ReadTailFails, Chain!ReadTailFails,
       Log!AppendFails, Chain!AppendFails

-----------------------------------------------------------------------------
\* Every step of the process is a step of its audit log or leaves it alone.
LEMMA StepsOfTheLog == [StoresNext]_vars => [Chain!Next]_(Chain!audit)
<1> SUFFICES ASSUME StoresNext PROVE Chain!Next \/ UNCHANGED audit
  BY DEF vars, audit, Chain!audit
<1>1. ASSUME NEW p \in Processes, Open(p) \/ Crash(p) PROVE Chain!Next
  BY <1>1, SameOpen, SameCrash DEF Open, Crash, Chain!Next
<1>2. ASSUME NEW p \in Processes, LogStep(p) PROVE Chain!Next
  BY <1>2, SameSteps DEF LogStep, Chain!Next
<1>3. ASSUME NEW p \in Processes, SecretStep(p) PROVE UNCHANGED audit
  BY <1>3 DEF SecretStep
<1>4. ASSUME NEW p \in Processes, RecordOperation(p) PROVE Chain!Next
  BY <1>4, SameRecord DEF RecordOperation, Chain!Next
<1>5. ASSUME NEW p \in Processes, NEW n \in Names, Resolve(p, n)
      PROVE  Chain!Next \/ UNCHANGED audit
  BY <1>5, SameRecord DEF Resolve, Chain!Next
<1>6. ASSUME NEW n \in DOMAIN rows, EditRow(n) PROVE Chain!Next
  BY <1>6, SameEdit DEF EditRow, Chain!Next
<1> QED BY <1>1, <1>2, <1>3, <1>4, <1>5, <1>6 DEF StoresNext

\* Inside the runtime, with secrets resolved, set and deleted and processes that
\* die of an unawaited record, the log is the one of AuditLog.
THEOREM StoresKeepALog == StoresSpec => Chain!Spec
BY SameInit, StepsOfTheLog, PTL DEF StoresSpec, Chain!Spec

\* verify finds exactly what was edited (AuditLog, #resolverFor).
THEOREM VerifyFindsTheEditAlways == StoresSpec => []VerifyFindsTheEdit
<1>1. Chain!VerifyFindsTheEdit <=> VerifyFindsTheEdit
  BY DEF VerifyFindsTheEdit, Log!VerifyFindsTheEdit, Chain!VerifyFindsTheEdit, Log!brokenAt,
     Chain!brokenAt, Log!brokenLink, Chain!brokenLink, Log!computeEventHash,
     Chain!computeEventHash
<1>2. Chain!Spec => []Chain!VerifyFindsTheEdit
  BY Chain!VerifyFindsTheEditAlways
<1> QED BY <1>1, <1>2, StoresKeepALog, PTL

\* The events of a process are in the order it asked for them (AuditLog.record,
\* #resolverFor).
THEOREM CallsKeepOrderAlways == StoresSpec => []CallsKeepOrder
<1>1. Chain!CallsKeepOrder <=> CallsKeepOrder
  BY DEF CallsKeepOrder, Log!CallsKeepOrder, Chain!CallsKeepOrder
<1>2. Chain!Spec => []Chain!CallsKeepOrder
  BY Chain!CallsKeepOrderAlways
<1> QED BY <1>1, <1>2, StoresKeepALog, PTL

-----------------------------------------------------------------------------
\* A process has both stores or neither.
Coupled == \A p \in Processes : vault[p].up <=> logger[p].state # "down"

StoresInv == SecretTyped /\ Chain!AuditInv /\ Coupled

\* What is known of a process, in the words of either store.
LEMMA Shapes ==
    ASSUME StoresInv, NEW p \in Processes
    PROVE  /\ DOMAIN vault = Processes /\ VaultTyped(p)
           /\ DOMAIN vault[p] = {"up", "cachedKey", "queue", "copy"}
           /\ DOMAIN logger = Processes
           /\ DOMAIN logger[p] = {"state", "tail", "queue"}
<1>1. PICK h \in Nat : Chain!Sound(h)
  BY DEF StoresInv, Chain!AuditInv
<1> QED BY <1>1 DEF StoresInv, SecretTyped, VaultTyped, Chain!Sound, Chain!LoggerOK

\* A step of the process is a step of the secret store too, or leaves it alone.
\* It is the only one that may use the file.
LEMMA StepsOfTheFile ==
    ASSUME StoresInv, StoresNext
    PROVE  (Next \/ UNCHANGED secrets) /\ Coupled'
<1> DEFINE Kept == (Next \/ UNCHANGED secrets) /\ Coupled'
<1>1. ASSUME NEW p \in Processes, Open(p) PROVE Kept
  <2>1. Next
    BY <1>1 DEF Open, Next
  <2>2. /\ vault' = [vault EXCEPT ![p].up = TRUE]
        /\ logger' = [logger EXCEPT ![p].state = "reading"]
    BY <1>1 DEF Open, Start, Log!Open
  <2>3. vault'[p].up /\ logger'[p].state = "reading"
    BY <2>2, Shapes
  <2>4. \A q \in Processes \ {p} : vault'[q] = vault[q] /\ logger'[q] = logger[q]
    BY <2>2, Shapes
  <2> QED BY <2>1, <2>3, <2>4 DEF StoresInv, Coupled
<1>2. ASSUME NEW p \in Processes, Crash(p) PROVE Kept
  <2>1. Next
    BY <1>2 DEF Crash, Next
  <2>2. vault' = [vault EXCEPT ![p] = Closed] /\ logger' = [logger EXCEPT ![p] = Log!Down]
    BY <1>2 DEF Crash, Stop, Log!Crash
  <2>3. ~vault'[p].up /\ logger'[p].state = "down"
    BY <2>2, Shapes DEF Closed, Log!Down
  <2>4. \A q \in Processes \ {p} : vault'[q] = vault[q] /\ logger'[q] = logger[q]
    BY <2>2, Shapes
  <2> QED BY <2>1, <2>3, <2>4 DEF StoresInv, Coupled
<1>3. ASSUME NEW p \in Processes, LogStep(p) PROVE Kept
  <2>1. logger[p].state # "down" /\ \A q \in Processes \ {p} : logger'[q] = logger[q]
    <3>1. Log!Steps(p)
      BY <1>3 DEF LogStep
    <3>2. logger[p].state \in {"reading", "ready"}
      BY <3>1 DEF Log!Steps, Log!ReadTail, Log!ReadTailFails, Log!AppendEvent, Log!AppendFails
    <3>3. ASSUME Log!ReadTail(p) PROVE \A q \in Processes \ {p} : logger'[q] = logger[q]
      BY <3>3, Shapes DEF Log!ReadTail
    <3>4. ASSUME Log!Fail(p) \/ Log!Crash(p)
          PROVE  \A q \in Processes \ {p} : logger'[q] = logger[q]
      BY <3>4, Shapes DEF Log!Fail, Log!Crash
    <3>5. ASSUME Log!AppendEvent(p) PROVE \A q \in Processes \ {p} : logger'[q] = logger[q]
      BY <3>5, Shapes DEF Log!AppendEvent
    <3> QED BY <3>1, <3>2, <3>3, <3>4, <3>5 DEF Log!Steps, Log!ReadTailFails, Log!AppendFails
  <2>2. vault[p].up /\ UNCHANGED <<kind, file, mutations, kept>>
    BY <1>3, <2>1 DEF StoresInv, Coupled, LogStep
  <2>3. CASE logger'[p].state = "down"
    <3>1. vault' = [vault EXCEPT ![p] = Closed]
      BY <1>3, <2>3 DEF LogStep
    <3>2. Next
      BY <2>2, <3>1 DEF Stop, Next
    <3>3. ~vault'[p].up /\ \A q \in Processes \ {p} : vault'[q] = vault[q]
      BY <3>1, Shapes DEF Closed
    <3> QED BY <2>1, <2>3, <3>2, <3>3 DEF StoresInv, Coupled
  <2>4. CASE logger'[p].state # "down"
    BY <1>3, <2>1, <2>2, <2>4 DEF LogStep, StoresInv, Coupled, secrets
  <2> QED BY <2>3, <2>4
<1>4. ASSUME NEW p \in Processes, SecretStep(p) PROVE Kept
  <2>1. UNCHANGED audit
    BY <1>4 DEF SecretStep
  <2>2. CASE \E n \in Names, what \in {"set", "delete"} : Mutate(p, n, what)
    <3>1. PICK n \in Names, what \in {"set", "delete"} : Mutate(p, n, what)
      BY <2>2
    <3>2. Next
      BY <3>1 DEF Mutate, Next
    <3>3. \A q \in Processes : vault'[q].up = vault[q].up
      BY <3>1, Shapes DEF Mutate
    <3> QED BY <2>1, <3>2, <3>3 DEF StoresInv, Coupled, audit
  <2>3. CASE Prepare(p) \/ ReadFails(p) \/ Rename(p) \/ WriteFails(p)
    <3>1. p \in Writers
      <4>1. vault[p].queue # <<>>
        BY <2>3, Shapes DEF Prepare, ReadFails, Rename, WriteFails, turn, VaultTyped
      <4> QED BY <4>1, Shapes DEF VaultTyped
    <3>2. Next
      BY <2>3, <3>1 DEF Next
    <3>3. ASSUME Prepare(p) PROVE \A q \in Processes : vault'[q].up = vault[q].up
      BY <3>3, Shapes DEF Prepare
    <3>4. ASSUME vault' = done(p) PROVE \A q \in Processes : vault'[q].up = vault[q].up
      BY <3>4, Shapes DEF done
    <3>5. \A q \in Processes : vault'[q].up = vault[q].up
      BY <2>3, <3>3, <3>4 DEF ReadFails, Rename, WriteFails
    <3> QED BY <2>1, <3>2, <3>5 DEF StoresInv, Coupled, audit
  <2> QED BY <1>4, <2>2, <2>3 DEF SecretStep
<1>5. ASSUME NEW p \in Processes, NEW awaited \in BOOLEAN, Log!Record(p, awaited)
      PROVE  \A q \in Processes : logger'[q].state = logger[q].state
  BY <1>5, Shapes DEF Log!Record
<1>6. ASSUME NEW p \in Processes, RecordOperation(p) PROVE Kept
  BY <1>5, <1>6 DEF RecordOperation, StoresInv, Coupled, secrets
<1>7. ASSUME NEW p \in Processes, NEW n \in Names, Resolve(p, n) PROVE Kept
  <2>1. Get(p, n) /\ Next
    BY <1>7 DEF Resolve, Next
  <2>2. \A q \in Processes : vault'[q].up = vault[q].up
    BY <2>1, Shapes DEF Get
  <2>3. \A q \in Processes : logger'[q].state = logger[q].state
    BY <1>5, <1>7 DEF Resolve, audit
  <2> QED BY <2>1, <2>2, <2>3 DEF StoresInv, Coupled
<1>8. ASSUME NEW n \in DOMAIN rows, EditRow(n) PROVE Kept
  BY <1>8 DEF EditRow, Log!Edit, StoresInv, Coupled, secrets
<1> HIDE DEF Kept
<1>9. Kept
  BY <1>1, <1>2, <1>3, <1>4, <1>6, <1>7, <1>8 DEF StoresNext
<1> QED BY <1>9 DEF Kept

LEMMA InitStores == StoresInit => StoresInv
<1> SUFFICES ASSUME StoresInit PROVE StoresInv
  OBVIOUS
<1>1. SecretTyped
  BY InitTyped DEF StoresInit
<1>2. Chain!AuditInv
  BY SameInit, Chain!InitAudit
<1>3. Coupled
  BY DEF StoresInit, Init, Log!Init, Closed, Log!Down, Coupled
<1> QED BY <1>1, <1>2, <1>3 DEF StoresInv

LEMMA NextStores ==
    ASSUME StoresInv, [StoresNext]_vars
    PROVE  StoresInv' /\ [Next]_secrets
<1>1. Chain!AuditInv'
  BY StepsOfTheLog, Chain!NextAudit DEF StoresInv
<1>2. CASE StoresNext
  <2>1. [Next]_secrets /\ Coupled'
    BY <1>2, StepsOfTheFile
  <2> QED BY <1>1, <2>1, NextTyped DEF StoresInv
<1>3. CASE UNCHANGED vars
  <2>1. UNCHANGED secrets /\ Coupled'
    BY <1>3 DEF vars, audit, secrets, StoresInv, Coupled
  <2> QED BY <1>1, <2>1, NextTyped DEF StoresInv
<1> QED BY <1>2, <1>3

\* The secret store of a process that dies of what happens to its log behaves
\* as the secret store by itself (EncryptedFileSecretStore, #resolverFor).
THEOREM StoresKeepAFile == StoresSpec => Spec
<1>1. StoresInit => Init
  BY DEF StoresInit
<1> QED BY <1>1, InitStores, NextStores, PTL DEF StoresSpec, Spec

\* Both stores keep their shape, and a process has both or neither (bootstrap).
THEOREM TypeCorrect == StoresSpec => []TypeOK
<1>1. Chain!AuditTypeOK <=> Log!AuditTypeOK
  BY DEF Chain!AuditTypeOK, Log!AuditTypeOK, Chain!Event, Log!Event
<1>2. Chain!Spec => []Chain!AuditTypeOK
  BY Chain!TypeCorrect, StoresAssumption
<1>3. StoresInv /\ Log!AuditTypeOK => TypeOK
  BY TypedIsTypeOK DEF StoresInv, Coupled, TypeOK, Log!Up
<1> QED BY <1>1, <1>2, <1>3, StoresKeepALog, InitStores, NextStores, PTL DEF StoresSpec

\* Secrets are kept and can be read while the processes that use them die of
\* what happens to the log (EncryptedFileSecretStore, #resolverFor).
THEOREM StoresKeepSecrets == ASSUME WritesAreSafe PROVE StoresSpec => []KeptIsReadable
BY StoresKeepAFile, KeptIsReadableAlways, PTL

=============================================================================
