---------------------------- MODULE MCOwnership ----------------------------
(***************************************************************************)
(* Instances of Ownership for TLC.                                         *)
(***************************************************************************)
EXTENDS Ownership, TLC

\* A projection of the resources "r" and "s" with the paths "x" and "y".
Asks(rx, ry, sx, sy) == [r |-> [x |-> rx, y |-> ry], s |-> [x |-> sx, y |-> sy]]

\* One document in two versions, the second of which changes its mind about a field
\* and gives a resource up, and a rival that asks for the field as the first has it
\* and for another field of the resource.
Rivals         == {"a1", "a2", "b"}
RivalsOwner    == [a1 |-> "A", a2 |-> "A", b |-> "B"]
RivalsDeclares == [a1 |-> Asks("2", "unset", "1", "unset"),
                   a2 |-> Asks("1", "1", "unset", "unset"),
                   b  |-> Asks("2", "unset", "unset", "2")]

\* Requests differ in what they do, not in their names.
AnyApplier == Permutations(Appliers)

\* One document in three versions, which changes its mind about a field and then
\* gives it up, and another document that takes it as it is.
Successors         == {"a1", "a2", "a3", "b"}
SuccessorsOwner    == [a1 |-> "A", a2 |-> "A", a3 |-> "A", b |-> "B"]
SuccessorsDeclares == [a1 |-> [r |-> [x |-> "2", y |-> "1"]],
                       a2 |-> [r |-> [x |-> "1", y |-> "1"]],
                       a3 |-> [r |-> [x |-> "unset", y |-> "1"]],
                       b  |-> [r |-> [x |-> "2", y |-> "unset"]]]
=============================================================================
