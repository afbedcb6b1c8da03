-------------------------- MODULE MCPlanLifecycle --------------------------
(***************************************************************************)
(* Instances of PlanLifecycle for TLC.                                     *)
(***************************************************************************)
EXTENDS PlanLifecycle, TLC

CONSTANTS r0, r1, a1, a2, a3, p1, p2, alice, bob, k1, k2

\* One configuration whose policies want the approval of two people.
TwoEyes         == {"strict"}
TwoEyesBundle   == [c \in TwoEyes |-> "b1"]
TwoEyesRequired == [c \in TwoEyes |-> 2]

\* One configuration that wants none.
Open            == {"open"}
OpenBundle      == [c \in Open |-> "b1"]
OpenRequired    == [c \in Open |-> 0]

\* Two bundles, and the first one under an environment where it denies.
Changing         == {"old", "new", "denied"}
ChangingBundle   == [c \in Changing |-> IF c = "new" THEN "b2" ELSE "b1"]
ChangingRequired == [c \in Changing |-> 0]
ChangingDenying  == {"denied"}

\* The requests and the keys of life_keys are interchangeable.
Interchangeable == Permutations({a1, a2, a3}) \cup Permutations({k1, k2})
=============================================================================
