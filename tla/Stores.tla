------------------------------- MODULE Stores -------------------------------
(***************************************************************************)
(* The two stores of a runtime process: its audit log and its secrets.     *)
(* They start and die together, and meet where a provider is given a       *)
(* secret: the resolver tells the runtime, which records the event without *)
(* waiting for it (#resolverFor), so that a record that fails then ends    *)
(* the process.                                                            *)
(***************************************************************************)
EXTENDS SecretFile

CONSTANTS
    MaxRecords,
    MayEdit,
    MaxCalls        \* bound: calls of both kinds

ASSUME StoresAssumption == MaxRecords \in Nat /\ MaxCalls \in Nat /\ MayEdit \in BOOLEAN

VARIABLES rows, logger, outcome, caller, edited

Log == INSTANCE AuditLog

audit == <<rows, logger, outcome, caller, edited>>
vars  == <<secrets, audit>>

StoresInit == Init /\ Log!Init

\* bootstrap
Open(p) == Start(p) /\ Log!Open(p)

Crash(p) == Stop(p) /\ Log!Crash(p)

MoreCalls == mutations + Len(outcome) < MaxCalls

\* The operations of the runtime record what they do and wait for it.
RecordOperation(p) == MoreCalls /\ Log!Record(p, TRUE) /\ UNCHANGED secrets

LogStep(p) ==
    /\ Log!Steps(p)
    /\ vault' = IF logger'[p].state = "down" THEN [vault EXCEPT ![p] = Closed] ELSE vault
    /\ UNCHANGED <<kind, file, mutations, kept>>

SecretStep(p) ==
    /\ \/ MoreCalls /\ \E n \in Names, what \in {"set", "delete"} : Mutate(p, n, what)
       \/ Prepare(p) \/ ReadFails(p) \/ Rename(p) \/ WriteFails(p)
    /\ UNCHANGED audit

Resolve(p, n) ==
    /\ MoreCalls
    /\ Get(p, n)
    /\ IF getSecret(p, n).error = "none" THEN Log!Record(p, FALSE) ELSE UNCHANGED audit

EditRow(n) == Log!Edit(n) /\ UNCHANGED secrets

StoresNext ==
    \/ \E p \in Processes :
         \/ Open(p) \/ Crash(p) \/ LogStep(p) \/ SecretStep(p)
         \/ RecordOperation(p)
         \/ \E n \in Names : Resolve(p, n)
    \/ \E n \in DOMAIN rows : EditRow(n)

StoresSpec == StoresInit /\ [][StoresNext]_vars

\* A process that is up works off its calls.
FairSpec == StoresSpec /\ \A p \in Processes : WF_vars(LogStep(p))

-----------------------------------------------------------------------------
\* The shape of the state; a process has both stores or neither.
TypeOK ==
    /\ SecretTypeOK
    /\ Log!AuditTypeOK
    /\ \A p \in Processes : vault[p].up <=> Log!Up(p)

\* AuditLog's properties of the table and of the calls.
VerifyFindsTheEdit == Log!VerifyFindsTheEdit
CallsKeepOrder     == Log!CallsKeepOrder
CallsEnd           == Log!CallsEnd

=============================================================================
