--------------------------- MODULE ResultRegister ---------------------------
(***************************************************************************)
(* What the experiment service promises about results, and nothing of how  *)
(* it keeps the promise: each experiment is a register that is written at  *)
(* most once, with one of the outcomes that an uninterrupted run has, and  *)
(* that is never written again after it was erased.                        *)
(***************************************************************************)
CONSTANTS
    Experiments,
    Outcomes,       \* the results of uninterrupted runs
    NoOutcome,      \* nothing published yet
    Erased          \* deleted by retention, quota or account deletion

VARIABLE outcome

Init == outcome = [e \in Experiments |-> NoOutcome]

\* a run publishes its result
Publish(e) ==
    /\ outcome[e] = NoOutcome
    /\ \E o \in Outcomes : outcome' = [outcome EXCEPT ![e] = o]

\* the experiments of a set are deleted, published or not
Erase(S) == outcome' = [e \in Experiments |-> IF e \in S THEN Erased ELSE outcome[e]]

Next ==
    \/ \E e \in Experiments : Publish(e)
    \/ \E S \in SUBSET Experiments : Erase(S)

Spec == Init /\ [][Next]_outcome

=============================================================================
