------------------------------ MODULE PlanRun ------------------------------
(***************************************************************************)
(* What running a plan promises about the world, whatever happens to the   *)
(* operation record, the callers or the process: changes take effect one   *)
(* at a time, each only after those it depends on; once the run is closed  *)
(* nothing takes effect except what was already in doubt; and a run closes *)
(* as complete only when every write has taken effect and nothing was      *)
(* blocked.                                                                *)
(***************************************************************************)
CONSTANTS
    Change          \* the changes of the plan

VARIABLES
    action, deps,   \* the plan: "write", "noop" or "blocked", and what precedes what
    done,           \* changes that have taken effect
    doubt,          \* failed calls that may still take effect
    outcome         \* "open", "complete" or "incomplete"

Ready(i) ==
    /\ outcome = "open"
    /\ action[i] = "write"
    /\ \A d \in deps[i] : d \in done \/ action[d] = "noop"

Init ==
    /\ action \in [Change -> {"write", "noop", "blocked"}]
    /\ deps \in [Change -> SUBSET Change]
    /\ done \in SUBSET {i \in Change : action[i] = "write"}
    /\ doubt = {}
    /\ outcome = "open"

Perform(i) ==
    /\ Ready(i)
    /\ done' = done \cup {i}
    /\ UNCHANGED <<action, deps, doubt, outcome>>

Lose(i) ==
    /\ Ready(i)
    /\ doubt' = doubt \cup {i}
    /\ outcome' \in {"open", "incomplete"}
    /\ UNCHANGED <<action, deps, done>>

Land(i) ==
    /\ i \in doubt
    /\ done' = done \cup {i}
    /\ doubt' = doubt \ {i}
    /\ UNCHANGED <<action, deps, outcome>>

Close(how) ==
    /\ outcome = "open"
    /\ how = "complete" => \A i \in Change : action[i] = "noop" \/ i \in done
    /\ outcome' = how
    /\ UNCHANGED <<action, deps, done, doubt>>

Next ==
    \/ \E i \in Change : Perform(i) \/ Lose(i) \/ Land(i)
    \/ \E how \in {"complete", "incomplete"} : Close(how)

Spec == Init /\ [][Next]_<<action, deps, done, doubt, outcome>>
=============================================================================
