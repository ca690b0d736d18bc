----------------------------- MODULE MCOperations -----------------------------
(***************************************************************************)
(* What surrounds the experiments, for TLC: the paid requests that share a *)
(* flight, the registration of the site, the studies with their            *)
(* statistics, the validation ladder and the audit chain.  They share no   *)
(* state, so a behaviour exercises one of them.                            *)
(***************************************************************************)
EXTENDS SingleFlight, SiteRegistration, Studies, PairedStatistics,
        ValidationLadder, AuditChain, TLC

CONSTANTS p1, k1, k2, k3, h1, h2, c1, c2, c3, n1, n2, u1, u2, o1, o2, d1, d2, a1, a2,
          q1, loop, work

\* all keys belong to one account
OneAccount == (k1 :> p1 @@ k2 :> p1 @@ k3 :> p1)

\* what a pair of runs may differ by
SmallDifferences == -1..1

\* callers, hashes and the keys of one account are interchangeable
OperationsSymmetry ==
    Permutations(Callers) \cup Permutations(Hashes) \cup Permutations(Keys)

VARIABLE part
operationVars == <<part, flightVars, siteVars, studyVars, sample, ladderVars, auditVars>>

OperationsInit ==
    /\ part \in {"flights", "site", "studies", "statistics", "ladder", "audit"}
    /\ FlightInit /\ SiteInit /\ StudiesInit /\ LadderInit /\ AuditInit
    /\ nginx.running => part = "site"
    /\ lastId > 0 => part = "audit"
    /\ IF part = "statistics" THEN sample \in Samples ELSE sample = NoSample

OperationsNext ==
    /\ UNCHANGED <<part, sample>>
    /\ \/ /\ part = "flights" /\ FlightNext
          /\ UNCHANGED <<siteVars, studyVars, ladderVars, auditVars>>
       \/ /\ part = "site" /\ SiteNext
          /\ UNCHANGED <<flightVars, studyVars, ladderVars, auditVars>>
       \/ /\ part = "studies" /\ StudiesNext
          /\ UNCHANGED <<flightVars, siteVars, ladderVars, auditVars>>
       \/ /\ part = "ladder" /\ LadderNext
          /\ UNCHANGED <<flightVars, siteVars, studyVars, auditVars>>
       \/ /\ part = "audit" /\ AuditNext
          /\ UNCHANGED <<flightVars, siteVars, studyVars, ladderVars>>

OperationsSpec == OperationsInit /\ [][OperationsNext]_operationVars

\* Every value of the parts has its type.
OperationsTypeOK ==
    /\ FlightTypeOK /\ SiteTypeOK
    /\ StudiesTypeOK /\ StatisticsTypeOK /\ LadderTypeOK /\ AuditTypeOK

\* A study that was answered is stored, and a level that lost its evidence takes the
\* levels above it along (StudyApiService.run, invalidateEvidence).
AnswersStand == [][AnsweredIsStored /\ InvalidationReachesUp]_operationVars

\* Studies run one at a time and are stored whole; no level passes or warns without
\* evidence; and every audit chain verifies, with an event for every pack and draft that
\* is stored (StudyApiService.run, saveStudyRun, updateStatus, appendAuditEvent,
\* enforceRetention).
EvidenceIsKept == StudiesSound /\ ClaimsRestOnEvidence /\ ChainsVerify /\ PacksHaveHistory
=============================================================================
