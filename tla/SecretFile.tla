----------------------------- MODULE SecretFile -----------------------------
(***************************************************************************)
(* The secret store a deployment chooses: the encrypted file, which is     *)
(* read as a whole, changed in memory and put back as a whole, or the      *)
(* environment, which is only read.                                        *)
(*                                                                         *)
(* With a 32-byte master key secrets are encrypted under that key; with a  *)
(* passphrase under the key stretched from it with the salt of the file.   *)
(* A store keeps the first key it uses.  Calls that change the file are    *)
(* numbered as they are made; the number of the call that set a secret     *)
(* stands for its value and for its version, that of the call which found  *)
(* no file for the salt it made.                                           *)
(***************************************************************************)
EXTENDS Integers, Sequences, FiniteSets

CONSTANTS
    Processes,
    Writers,            \* processes that set and delete secrets
    Names,              \* secretKey of a reference: name or name/key
    Allowed,            \* names the provider declared (requiredSecrets)
    Environment,        \* names whose variable is set
    MaxMutations,       \* bound: calls of setSecret and deleteSecret
    KeyKinds,           \* kinds of master key, of "direct", "passphrase", "environment"
    FirstWriteMayFail   \* may a write fail while there is no file yet?

ASSUME SecretAssumption ==
    /\ Writers \subseteq Processes
    /\ Allowed \subseteq Names
    /\ Environment \subseteq Names
    /\ KeyKinds \subseteq {"direct", "passphrase", "environment"}
    /\ MaxMutations \in Nat
    /\ FirstWriteMayFail \in BOOLEAN

VARIABLES
    kind,           \* the configuration; it does not change
    file,           \* the file, or none
    vault,          \* process -> its EncryptedFileSecretStore
    mutations,      \* calls of setSecret and deleteSecret made
    kept            \* history: name -> the call whose value should be there, or 0

secrets == <<kind, file, vault, mutations, kept>>

NoKey     == 0
MasterKey == -1     \* a key made with a salt is the salt

NoFile == [salt |-> 0, secrets |-> [n \in {} |-> 0]]
Closed == [up |-> FALSE, cachedKey |-> NoKey, queue |-> <<>>, copy |-> <<>>]

\* What the environment holds does not change.
Init ==
    /\ kind \in KeyKinds
    /\ file = NoFile
    /\ vault = [p \in Processes |-> Closed]
    /\ mutations = 0
    /\ kept = [n \in Names |-> 0]

-----------------------------------------------------------------------------
(***************************************************************************)
(* Keys                                                                    *)
(***************************************************************************)
\* What a store without a cached key would use.
freshKey(f) == IF kind = "direct" THEN MasterKey ELSE f.salt

deriveKey(p, f) == IF vault[p].cachedKey # NoKey THEN vault[p].cachedKey ELSE freshKey(f)

denied(code) == [error |-> code, call |-> 0]
found(call)  == [error |-> "none", call |-> call]

\* An entry opens under the key it was sealed with and under no other (GCM).
encrypt(call, key)  == [call |-> call, key |-> key]
decrypt(entry, key) == IF entry.key = key THEN found(entry.call) ELSE denied("SECRET_ACCESS_DENIED")

\* read: a file that is not there is an empty one with a new salt.
read_resalted(salt) == [file EXCEPT !.salt = salt]

read(salt) == IF file = NoFile THEN [NoFile EXCEPT !.salt = salt] ELSE file

-----------------------------------------------------------------------------
(***************************************************************************)
(* A store                                                                 *)
(***************************************************************************)
Start(p) ==
    /\ ~vault[p].up
    /\ vault' = [vault EXCEPT ![p].up = TRUE]
    /\ UNCHANGED <<kind, file, mutations, kept>>

\* A process ends between any two steps, its unfinished write left in a
\* temporary file that nothing reads.
Stop(p) ==
    /\ vault[p].up
    /\ vault' = [vault EXCEPT ![p] = Closed]
    /\ UNCHANGED <<kind, file, mutations, kept>>

\* setSecret and deleteSecret of the environment store only fail.
readOnly == kind = "environment"

Mutate(p, n, what) ==
    /\ vault[p].up /\ p \in Writers
    /\ ~readOnly
    /\ mutations < MaxMutations
    /\ mutations' = mutations + 1
    /\ vault' = [vault EXCEPT
          ![p].queue = Append(@, [call |-> mutations + 1, name |-> n, what |-> what])]
    /\ UNCHANGED <<kind, file, kept>>

entries(f, m, key) ==
    IF m.what = "set"
    THEN [n \in DOMAIN f.secrets \cup {m.name} |->
            IF n = m.name THEN encrypt(m.call, key) ELSE f.secrets[n]]
    ELSE [n \in DOMAIN f.secrets \ {m.name} |-> f.secrets[n]]

\* The first of the queue, the one before it being done.
turn(p) == vault[p].up /\ vault[p].queue # <<>> /\ vault[p].copy = <<>>

\* The file is read and the change made to the copy; deleting needs no key.
Prepare(p) ==
    LET m   == Head(vault[p].queue)
        f   == read(m.call)
        key == deriveKey(p, f)
    IN  /\ turn(p)
        /\ vault' = [vault EXCEPT
              ![p].copy = <<[salt |-> f.salt, secrets |-> entries(f, m, key)]>>,
              ![p].cachedKey = IF m.what = "set" THEN key ELSE @]
        /\ UNCHANGED <<kind, file, mutations, kept>>

done(p) == [vault EXCEPT ![p].queue = Tail(@), ![p].copy = <<>>]

ReadFails(p) ==
    /\ turn(p)
    /\ vault' = done(p)
    /\ UNCHANGED <<kind, file, mutations, kept>>

\* The temporary file takes the place of the file.
Rename(p) ==
    LET m == Head(vault[p].queue)
    IN  /\ vault[p].copy # <<>>
        /\ file' = vault[p].copy[1]
        /\ kept' = [kept EXCEPT ![m.name] = IF m.what = "set" THEN m.call ELSE 0]
        /\ vault' = done(p)
        /\ UNCHANGED <<kind, mutations>>

WriteFails(p) ==
    /\ vault[p].copy # <<>>
    /\ file # NoFile \/ FirstWriteMayFail
    /\ vault' = done(p)
    /\ UNCHANGED <<kind, file, mutations, kept>>

variable(n) == IF n \in Environment THEN found(0) ELSE denied("SECRET_NOT_FOUND")

decrypted(p, n) ==
    IF n \notin DOMAIN file.secrets THEN denied("SECRET_NOT_FOUND")
    ELSE decrypt(file.secrets[n], deriveKey(p, file))

\* A resolver grants the declared names and no others.
getSecret(p, n) ==
    IF n \notin Allowed THEN denied("SECRET_ACCESS_DENIED")
    ELSE IF kind = "environment" THEN variable(n) ELSE decrypted(p, n)

\* The key is derived once there is an entry to decrypt.
Get(p, n) ==
    /\ vault[p].up
    /\ vault' = IF kind # "environment" /\ n \in Allowed \cap DOMAIN file.secrets
                THEN [vault EXCEPT ![p].cachedKey = deriveKey(p, file)] ELSE vault
    /\ UNCHANGED <<kind, file, mutations, kept>>

Next ==
    \/ \E p \in Processes : Start(p) \/ Stop(p)
    \/ \E p \in Writers, n \in Names, what \in {"set", "delete"} : Mutate(p, n, what)
    \/ \E p \in Writers : Prepare(p) \/ ReadFails(p) \/ Rename(p) \/ WriteFails(p)
    \/ \E p \in Processes, n \in Names : Get(p, n)

Spec == Init /\ [][Next]_secrets

-----------------------------------------------------------------------------
(***************************************************************************)
(* Properties                                                              *)
(***************************************************************************)
SecretTypeOK ==
    /\ kind \in KeyKinds
    /\ DOMAIN file.secrets \subseteq Names
    /\ \A n \in DOMAIN file.secrets : file.secrets[n].call \in 1..mutations
    /\ \A p \in Processes :
         /\ vault[p].up \in BOOLEAN
         /\ Len(vault[p].copy) <= 1
         /\ \A i \in DOMAIN vault[p].queue : vault[p].queue[i].call \in 1..mutations
    /\ mutations \in 0..MaxMutations
    /\ kept \in [Names -> 0..mutations]

\* What was set and not deleted since is in the file, and can be decrypted by
\* a process that starts now ("survives a restart, so the key never has to live
\* in the process") and by those that are up, whatever key they keep ("does not
\* lose secrets written concurrently").
KeptIsReadable ==
    \A n \in Names :
        IF kept[n] = 0 THEN n \notin DOMAIN file.secrets
        ELSE /\ n \in DOMAIN file.secrets
             /\ file.secrets[n] = [call |-> kept[n], key |-> freshKey(file)]
             /\ \A p \in Processes :
                  vault[p].up /\ n \in Allowed => getSecret(p, n) = found(kept[n])

=============================================================================
