------------------------------ MODULE Admission ------------------------------
(***************************************************************************)
(* What a document must be before the runtime works with it.  Two handlers *)
(* check it, each in stages of its own: validate, which a client asks to   *)
(* learn what is wrong, and #prepare, with which inspect, plan and apply   *)
(* begin.  Either stops at the first stage that finds something.  No       *)
(* state; a document is what the checks see of it.                         *)
(***************************************************************************)
EXTENDS Integers, Sequences, FiniteSets

CONSTANTS
    Kinds,              \* kinds that some registered provider serves
    StoredSecrets,      \* secrets that the secret store has
    MaxPredicates,      \* CONTRACT_LIMITS: 32 in the code
    MaxExpression,      \* 2048 in the code
    MaxGoal             \* 512 in the code

ASSUME AdmissionAssumption == {MaxPredicates, MaxExpression, MaxGoal} \subseteq Nat

\* No contract is one without a goal and without predicates.  provider tells
\* whether the provider finds nothing wrong.
IsDocument(d) ==
    /\ {d.envelope, d.tooLarge, d.tooDeep, d.spec, d.provider} \subseteq BOOLEAN
    /\ d.goal \in Nat
    /\ \A group \in {d.constraints, d.success} : \A i \in DOMAIN group :
         group[i].length \in Nat /\ group[i].parses \in BOOLEAN

-----------------------------------------------------------------------------
\* A stage that reports the code unless all is well.
unless(holds, code) == IF holds THEN {} ELSE {code}

assertDocumentLimits(d) ==
    IF d.tooLarge THEN {"DOCUMENT_TOO_LARGE"} ELSE unless(~d.tooDeep, "DOCUMENT_TOO_DEEP")

kind(d) == unless(d.kind \in Kinds, "UNKNOWN_KIND")

envelope(d)   == unless(d.envelope, "SCHEMA_VALIDATION_FAILED")
specResult(d) == unless(d.spec, "SCHEMA_VALIDATION_FAILED")

sound(group) ==
    /\ Len(group) <= MaxPredicates
    /\ \A i, j \in DOMAIN group : group[i].id = group[j].id => i = j
    /\ \A i \in DOMAIN group : group[i].length <= MaxExpression /\ group[i].parses

validateContract(d) ==
    unless(d.goal <= MaxGoal /\ sound(d.constraints) /\ sound(d.success),
           "CONTRACT_PREDICATE_INVALID")

checkSecretReferences(d) == unless(d.secrets \subseteq StoredSecrets, "SECRET_NOT_FOUND")

providerResult(d) == unless(d.provider, "VALIDATION_FAILED")

firstOf(stages) ==
    LET found == {i \in DOMAIN stages : stages[i] # {}}
    IN  IF found = {} THEN {} ELSE stages[CHOOSE i \in found : \A j \in found : i <= j]

validate_noContract(d) ==
    firstOf(<<envelope(d), assertDocumentLimits(d) \cup kind(d), specResult(d),
              checkSecretReferences(d), providerResult(d)>>)

\* The codes of the issues; none when the document is valid.
validate(d) ==
    firstOf(<<envelope(d), assertDocumentLimits(d) \cup kind(d), specResult(d),
              checkSecretReferences(d), providerResult(d) \cup validateContract(d)>>)

\* The error #prepare ends with, or none.
prepare(d) ==
    firstOf(<<envelope(d), assertDocumentLimits(d), kind(d), specResult(d),
              validateContract(d), providerResult(d)>>)

=============================================================================
