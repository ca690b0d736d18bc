------------------------------- MODULE MCGuided -------------------------------
(***************************************************************************)
(* A guided workflow for TLC: its turns, its stages over Event Packs and   *)
(* scenarios, and the conversations about the result at its end.  The      *)
(* turns and the stages meet in the version of the workflow, which every   *)
(* operation checks; a behaviour exercises one of the parts.               *)
(***************************************************************************)
EXTENDS GuidedTurns, GuidedStages, Interpretations, TLC

CONSTANTS q1, q2, q3, d1, d2, p1, p2, s1, s2, b1, c1, c2, m1, m2, i1, i2,
          v1, v2, t1, r1, r2

VARIABLE part
guidedVars == <<part, turnVars, guideVars, historyVars>>

\* what a server's tables hold when it is alone, and beside another
TableBound == <<3, 1>>
StreamBound == <<1, 0>>

\* decisions are interchangeable, and so are the requests about a result
RequestSymmetry == Permutations(RecoveryIds) \cup Permutations(ClientRequests)

GuidedInit ==
    /\ part \in {"turns", "stages", "history"}
    /\ TurnInit /\ GuideInit /\ HistoryInit
    /\ part = "stages" \/ ~guide.prepared
    /\ running \in {{v1}, Servers} /\ (part = "history" \/ running = Servers)

GuidedNext ==
    \/ part = "turns" /\ TurnNext /\ UNCHANGED <<part, guideVars, historyVars>>
    \/ part = "stages" /\ GuideNext /\ UNCHANGED <<part, turnVars, historyVars>>
       \* the prepared path begins with frozen artifacts, which no one can change
       /\ (guide.prepared => UNCHANGED <<packVars, builds>>)
    \/ part = "history" /\ HistoryNext /\ UNCHANGED <<part, turnVars, guideVars>>

GuidedSpec == GuidedInit /\ [][GuidedNext]_guidedVars

\* Every value of the turns, the stages, the packs, the scenarios and the
\* conversations has its type.
GuidedTypeOK == TurnTypeOK /\ GuideTypeOK /\ HistoryTypeOK

\* A workflow stands on what its turns and its stages have established: no version is
\* billed twice unasked, and what a stage asked for still holds at the later ones.
WorkflowStands == TurnsAccounted /\ StagesStand

\* What was decided stays decided: the outcome of a turn, a frozen pack or
\* scenario, and what the workflow is linked to.
DecisionsStand == [][OutcomesAreFinal /\ FrozenIsImmutable /\ LinksAreKept]_guidedVars
=============================================================================
