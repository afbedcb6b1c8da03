---------------------------- MODULE MCStripeCatalog ---------------------------
(***************************************************************************)
(* Instances of StripeCatalog.  The dashboard made product 1 and archived  *)
(* a price under each lookup key; product 2 and the price in use under     *)
(* "monthly" are document A's.  a1 and a2 are two versions of A, b is      *)
(* another document.  All three are applied under one Idempotency-Key, as  *)
(* by a pipeline that uses the commit's hash.                              *)
(***************************************************************************)
EXTENDS StripeCatalog

Of(product, amount, active, nickname) ==
    [product |-> product, amount |-> amount, active |-> active, nickname |-> nickname]

As(lookupKey, of, owner) ==
    [lookupKey |-> lookupKey, product |-> of.product, amount |-> of.amount,
     active |-> of.active, nickname |-> of.nickname, owner |-> owner]

MCFound ==
    [products |-> <<[name |-> "desk", active |-> TRUE, owner |-> "nobody"],
                    [name |-> "plan", active |-> TRUE, owner |-> "A"]>>,
     prices   |-> <<As("monthly", Of(1, 5, FALSE, "none"), "nobody"),
                    As("monthly", Of(2, 9, TRUE, "none"), "A"),
                    As("legacy", Of(1, 3, FALSE, "none"), "nobody")>>]

MCOwnerOf == [a1 |-> "A", a2 |-> "A", b |-> "B"]
MCKeyOf   == [r \in {"a1", "a2", "b"} |-> "k1"]

MCDeclares ==
    [a1 |-> [products |-> [i \in {2} |-> [name |-> "Plan", active |-> TRUE]],
             prices   |-> [monthly |-> Of(2, 9, TRUE, "m")]],
     a2 |-> [products |-> [i \in {2} |-> [name |-> "plan", active |-> TRUE]],
             prices   |-> [monthly |-> Of(2, 9, FALSE, "none"),
                           legacy  |-> Of(2, 7, FALSE, "l")]],
     b  |-> [products |-> [i \in {3} |-> [name |-> "old", active |-> FALSE]],
             prices   |-> [monthly |-> Of(3, 7, TRUE, "l"), legacy |-> Of(3, 7, TRUE, "l")]]]

=============================================================================
