------------------------ MODULE MCExperimentLifecycle ------------------------
(***************************************************************************)
(* Small instances of ExperimentLifecycle: two experiments of one owner    *)
(* or one alone, one or two matched pairs, signals that stop the run       *)
(* after the first pair and signals that do not.                           *)
(***************************************************************************)
EXTENDS ExperimentLifecycle, TLC

CONSTANTS e1, e2, u1, c1, c2

OneOwner == [e \in {e1, e2} |-> u1]
SoleOwner == [e \in {e1} |-> u1]
StopEarlyOrLate == c1 :> 1 @@ c2 :> 2
StopLate == c1 :> 2
StopAtOnce == c1 :> 1

\* experiments of one owner are interchangeable (sound here: no liveness)
ExperimentSymmetry == Permutations(Experiments)

=============================================================================
