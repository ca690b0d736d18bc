---------------------------- MODULE GuidedProofs ----------------------------
(***************************************************************************)
(* Proofs about the guided workflow, for any requests, versions, packs,    *)
(* builds and scenarios: its turns are paid, answered and recorded once    *)
(* (GuidedTurns), what a stage established stays true at the later ones    *)
(* (GuidedStages), and the conversations about the result are kept as the  *)
(* client was told (Interpretations).                                      *)
(***************************************************************************)
EXTENDS MCGuided, SumProofs, FunctionTheorems

-----------------------------------------------------------------------------
(* The turns.                                                              *)

OperationRow ==
    [status : Open \cup {"NONE", "SUCCEEDED", "ABANDONED_BY_USER"},
     version : {0} \cup Versions, claimed : BOOLEAN, cached : BOOLEAN, billed : BOOLEAN,
     response : {0} \cup Versions, supersedes : RequestIds \cup {NoRequest},
     authorized : RequestIds \cup {NoRequest}]
RecoveryRow ==
    [turn : RequestIds \cup {NoRequest},
     action : {"NONE", "RETRY_CACHED_COMMIT", "ABANDON_AND_AUTHORIZE_RETRY"},
     new : RequestIds \cup {NoRequest}, response : {-1, 0} \cup Versions]
SectionRow ==
    [turn : RequestIds \cup {NoRequest}, recovery : RecoveryIds \cup {NoRequest},
     step : {"none", "cache", "complete", "unknown", "answer"}]

Live == Open \cup {"SUCCEEDED"}

\* What the rows of the turns say, of the version they were made for too.
RowHolds(r) ==
    /\ operations[r].status = "NONE" => operations[r] = NoOperation
    /\ operations[r].status # "NONE" =>
          /\ operations[r].version \in Versions /\ operations[r].version < MaxVersion
          /\ operations[r].version <= workflow.version
    /\ operations[r].status = "SUCCEEDED" =>
          /\ operations[r].response = operations[r].version + 1
          /\ operations[r].version < workflow.version
    /\ operations[r].status = "ABANDONED_BY_USER" =>
          \E i \in 1 .. Len(abandoned[operations[r].version]) :
              abandoned[operations[r].version][i] = r

\* A version has one turn that was not given up, and the others are on its list.
OneLive ==
    \A r, s \in RequestIds :
        operations[r].status \in Live /\ operations[s].status \in Live
            /\ operations[r].version = operations[s].version => r = s

AbandonedHolds ==
    \A v \in Versions : \A i \in 1 .. Len(abandoned[v]) :
        /\ abandoned[v][i] \in RequestIds
        /\ operations[abandoned[v][i]].status = "ABANDONED_BY_USER"
        /\ operations[abandoned[v][i]].version = v

OutcomesHold == (\A r \in RequestIds : RowHolds(r)) /\ OneLive /\ AbandonedHolds
                  /\ RetriesAreDeclared

\* Nobody is answered before the success, and then with its version.
RepliesHold ==
    \A r \in RequestIds :
        /\ operations[r].status # "SUCCEEDED" => replies[r] = {}
        /\ replies[r] \subseteq {operations[r].response}

\* The model is asked for turns that are claimed.
CallingHolds == \A r \in calling : operations[r].status = "PENDING" /\ operations[r].claimed

ProposalsHold ==
    /\ \A r \in RequestIds : operations[r].status = "SUCCEEDED" <=> proposals[r] # "NONE"
    /\ \A r, s \in RequestIds : proposals[r] = "PENDING" /\ proposals[s] = "PENDING" => r = s
    /\ workflow.status # "ACTIVE" => \A r \in RequestIds : proposals[r] # "PENDING"

\* A decision that was answered was answered with the version of its turn.
RecoveriesHold ==
    \A i \in RecoveryIds :
        recoveries[i].action = "RETRY_CACHED_COMMIT" /\ recoveries[i].response # 0 =>
            /\ recoveries[i].turn \in RequestIds
            /\ operations[recoveries[i].turn].status = "SUCCEEDED"
            /\ recoveries[i].response = operations[recoveries[i].turn].response

\* The handler that holds the event loop.
SectionHolds ==
    section # NoSection =>
        /\ section.turn \in RequestIds /\ section.turn \notin calling
        /\ section.step \in {"cache", "complete", "unknown", "answer"}
        /\ operations[section.turn].status # "NONE"
        /\ section.step = "answer" =>
              /\ section.recovery # NoRequest
              /\ operations[section.turn].status = "SUCCEEDED"
        /\ section.recovery # NoRequest =>
              recoveries[section.recovery] = CachedDecision(section.turn)

TurnInv ==
    /\ TurnTypeOK /\ OutcomesHold /\ RepliesHold /\ CallingHolds
    /\ ProposalsHold /\ RecoveriesHold /\ SectionHolds

TurnStep == TurnInv' /\ OutcomesAreFinal

LEMMA TurnFacts ==
    ASSUME TurnInv
    PROVE  /\ workflow \in [version : Versions, status : {"ACTIVE", "COMPLETED", "ARCHIVED"}]
           /\ operations \in [RequestIds -> OperationRow]
           /\ abandoned \in [Versions -> Seq(RequestIds)]
           /\ recoveries \in [RecoveryIds -> RecoveryRow]
           /\ calling \subseteq RequestIds /\ section \in SectionRow
           /\ proposals \in [RequestIds -> ProposalPlaces]
           /\ replies \in [RequestIds -> SUBSET Versions]
           /\ MaxVersion \in Nat /\ workflow.version \in Nat
           /\ \A v \in Versions : v \in Nat /\ 1 <= v /\ v <= MaxVersion
           /\ \A r \in RequestIds : operations[r] \in OperationRow /\ operations[r].version \in Nat
           /\ NoRequest \notin RequestIds /\ NoRequest \notin RecoveryIds
<1>1. /\ MaxVersion \in Nat /\ NoRequest \notin RequestIds /\ NoRequest \notin RecoveryIds
  BY TurnAssumption
<1>2. \A v \in Versions : v \in Nat /\ 1 <= v /\ v <= MaxVersion
  BY <1>1 DEF Versions
<1>3. \A row \in OperationRow : row.version \in Nat
  BY <1>2 DEF OperationRow
<1>4. /\ workflow \in [version : Versions, status : {"ACTIVE", "COMPLETED", "ARCHIVED"}]
      /\ operations \in [RequestIds -> OperationRow]
      /\ abandoned \in [Versions -> Seq(RequestIds)]
      /\ recoveries \in [RecoveryIds -> RecoveryRow]
      /\ calling \subseteq RequestIds /\ section \in SectionRow
      /\ proposals \in [RequestIds -> ProposalPlaces]
      /\ replies \in [RequestIds -> SUBSET Versions]
  BY DEF TurnInv, TurnTypeOK, OperationRow, RecoveryRow, SectionRow
<1> QED BY <1>1, <1>2, <1>3, <1>4

\* An open turn that stays open at its version disturbs no other one.
LEMMA OpenStaysOpen ==
    ASSUME TurnInv, NEW r \in RequestIds, NEW row \in OperationRow,
           operations[r].status \in Open, row.status \in Open, r \notin calling,
           row.version = operations[r].version, row.supersedes = operations[r].supersedes,
           row.authorized = operations[r].authorized,
           operations' = [operations EXCEPT ![r] = row],
           UNCHANGED <<workflow, abandoned, calling, proposals, replies>>
    PROVE  /\ OutcomesHold' /\ RepliesHold' /\ CallingHolds' /\ ProposalsHold'
           /\ OutcomesAreFinal
           /\ operations' \in [RequestIds -> OperationRow]
           /\ operations'[r] = row
           /\ \A s \in RequestIds : s # r => operations'[s] = operations[s]
<1> USE TurnFacts
<1>1. /\ operations'[r] = row
      /\ \A s \in RequestIds : s # r => operations'[s] = operations[s]
      /\ operations' \in [RequestIds -> OperationRow]
  OBVIOUS
<1>2. /\ row.status \notin {"NONE", "SUCCEEDED", "ABANDONED_BY_USER"} /\ row.status \in Live
      /\ operations[r].status \notin {"NONE", "SUCCEEDED", "ABANDONED_BY_USER"}
      /\ operations[r].status \in Live
  BY DEF Open, Live
<1>3. \A s \in RequestIds :
          /\ operations'[s].version = operations[s].version
          /\ operations'[s].supersedes = operations[s].supersedes
          /\ operations'[s].authorized = operations[s].authorized
          /\ \A status \in {"NONE", "SUCCEEDED", "ABANDONED_BY_USER"} :
                operations'[s].status = status <=> operations[s].status = status
          /\ operations'[s].status \in Live <=> operations[s].status \in Live
  BY <1>1, <1>2
<1>4. \A s \in RequestIds : RowHolds(s)'
  BY <1>1, <1>2 DEF TurnInv, OutcomesHold, RowHolds
<1>5. OneLive'
  BY <1>3 DEF TurnInv, OutcomesHold, OneLive
<1>6. AbandonedHolds'
  BY <1>3 DEF TurnInv, OutcomesHold, AbandonedHolds
<1>7. RetriesAreDeclared'
  <2> SUFFICES ASSUME NEW v \in Versions, NEW s \in RequestIds,
                      operations'[s].version = v, abandoned[v] # <<>>,
                      operations'[s].status # "ABANDONED_BY_USER"
               PROVE  /\ operations'[s].supersedes = LastAbandoned(v)
                      /\ operations'[LastAbandoned(v)].authorized = s
    BY DEF RetriesAreDeclared, AtVersion, LastAbandoned
  <2>1. LastAbandoned(v) \in RequestIds
    BY DEF LastAbandoned, Last
  <2> QED BY <1>3, <2>1 DEF TurnInv, OutcomesHold, RetriesAreDeclared, AtVersion
<1>8. RepliesHold'
  BY <1>1, <1>2 DEF TurnInv, RepliesHold
<1>9. CallingHolds'
  BY <1>1 DEF TurnInv, CallingHolds
<1>10. ProposalsHold'
  BY <1>3 DEF TurnInv, ProposalsHold
<1>11. OutcomesAreFinal
  BY <1>1, <1>2 DEF OutcomesAreFinal
<1> QED BY <1>1, <1>4, <1>5, <1>6, <1>7, <1>8, <1>9, <1>10, <1>11 DEF OutcomesHold

\* A decision is answered with the version of a turn that succeeded.
LEMMA RecoveriesStay ==
    ASSUME TurnInv, UNCHANGED recoveries,
           \A r \in RequestIds : operations[r].status = "SUCCEEDED" => operations'[r] = operations[r]
    PROVE  RecoveriesHold'
BY TurnFacts DEF TurnInv, RecoveriesHold

\* The request that gave up a version last is one of its abandoned turns.
LEMMA LastOnList ==
    ASSUME TurnInv, NEW v \in Versions
    PROVE  /\ abandoned[v] = <<>> => LastAbandoned(v) = NoRequest
           /\ abandoned[v] # <<>> =>
                 /\ LastAbandoned(v) \in RequestIds
                 /\ operations[LastAbandoned(v)].status = "ABANDONED_BY_USER"
                 /\ operations[LastAbandoned(v)].version = v
BY TurnFacts DEF TurnInv, OutcomesHold, AbandonedHolds, LastAbandoned, Last

\* A turn that succeeded has a response, the version after its own.
LEMMA ResponseIsVersion ==
    ASSUME TurnInv, NEW r \in RequestIds, operations[r].status = "SUCCEEDED"
    PROVE  operations[r].response \in Versions
<1> USE TurnFacts
<1>1. RowHolds(r)
  BY DEF TurnInv, OutcomesHold
<1>2. operations[r].response = operations[r].version + 1 /\ operations[r].version \in Nat
  BY <1>1 DEF RowHolds
<1>3. operations[r].response \in {0} \cup Versions
  BY DEF OperationRow
<1> QED BY <1>2, <1>3

LEMMA TurnInit_Inv == TurnInit => TurnInv
<1> SUFFICES ASSUME TurnInit PROVE TurnInv
  OBVIOUS
<1> USE DEF TurnInit
<1>1. MaxVersion \in Nat \ {0} /\ NoRequest \notin RequestIds \cup RecoveryIds
  BY TurnAssumption
<1>2. TurnTypeOK
  BY <1>1 DEF TurnTypeOK, NoOperation, NoRecovery, NoSection, Versions, ProposalPlaces
<1>3. OutcomesHold
  BY <1>1 DEF OutcomesHold, RowHolds, OneLive, AbandonedHolds, RetriesAreDeclared, AtVersion,
              NoOperation, Live, Open, Versions
<1>4. RepliesHold /\ CallingHolds /\ ProposalsHold /\ RecoveriesHold /\ SectionHolds
  BY DEF RepliesHold, CallingHolds, ProposalsHold, RecoveriesHold, SectionHolds, NoOperation,
         NoRecovery
<1> QED BY <1>2, <1>3, <1>4 DEF TurnInv

-----------------------------------------------------------------------------
(* The steps of a turn.                                                    *)

LEMMA ReplayTurnKeeps ==
    ASSUME TurnInv, NEW r \in RequestIds, NEW v \in Versions, ReplayTurn(r, v)
    PROVE  TurnStep
<1> USE TurnFacts
<1>1. /\ operations[r].status = "SUCCEEDED"
      /\ replies' = [replies EXCEPT ![r] = @ \cup {operations[r].response}]
      /\ UNCHANGED <<workflow, operations, abandoned, recoveries, calling, section, proposals>>
  BY DEF ReplayTurn, Reply
<1>2. operations[r].response \in Versions
  BY <1>1, ResponseIsVersion
<1>3. TurnTypeOK'
  BY <1>1, <1>2 DEF TurnInv, TurnTypeOK
<1>4. RepliesHold'
  BY <1>1 DEF TurnInv, RepliesHold
<1> QED BY <1>1, <1>3, <1>4 DEF TurnStep, TurnInv, OutcomesHold, RowHolds, OneLive, AbandonedHolds,
        RetriesAreDeclared, AtVersion, LastAbandoned, CallingHolds, ProposalsHold, RecoveriesHold,
        SectionHolds, OutcomesAreFinal

LEMMA ClaimTurnKeeps ==
    ASSUME TurnInv, NEW r \in RequestIds, NEW v \in Versions, NEW model \in BOOLEAN,
           ClaimTurn(r, v, model)
    PROVE  TurnStep
<1> USE TurnFacts
<1> DEFINE last == LastAbandoned(v)
           row == [NoOperation EXCEPT !.status = "PENDING", !.version = v, !.claimed = TRUE,
                                      !.billed = model, !.supersedes = last]
<1>1. /\ section = NoSection
      /\ operations[r].status = "NONE" /\ v < MaxVersion /\ workflow.version = v
      /\ operations' = [operations EXCEPT ![r] = row]
      /\ UNCHANGED <<workflow, abandoned, recoveries, proposals, replies>>
  BY DEF ClaimTurn, Idle, Current
<1>2. last \in RequestIds \cup {NoRequest}
  BY LastOnList
<1>3. /\ row \in OperationRow /\ row.status = "PENDING" /\ row.version = v /\ row.claimed
      /\ row.supersedes = last
  BY <1>2 DEF OperationRow, NoOperation, Open, Versions
<1> HIDE DEF row
<1>4. /\ operations'[r] = row
      /\ \A s \in RequestIds : s # r => operations'[s] = operations[s]
      /\ operations' \in [RequestIds -> OperationRow]
  BY <1>1, <1>3
<1>5. \A s \in RequestIds : operations[s].version = v => operations[s].status \notin Live
  <2> SUFFICES ASSUME NEW s \in RequestIds, operations[s].version = v,
                      operations[s].status = "SUCCEEDED"
               PROVE  FALSE
    BY DEF ClaimTurn, VersionFree, Live
  <2>1. RowHolds(s)
    BY DEF TurnInv, OutcomesHold
  <2> QED BY <1>1, <2>1 DEF RowHolds
<1>6. \A s \in RequestIds : RowHolds(s)'
  BY <1>1, <1>3, <1>4 DEF RowHolds, TurnInv, OutcomesHold
<1>7. OneLive'
  BY <1>3, <1>4, <1>5 DEF TurnInv, OutcomesHold, OneLive
<1>8. AbandonedHolds'
  BY <1>1, <1>4 DEF TurnInv, OutcomesHold, AbandonedHolds
<1>9. RetriesAreDeclared'
  <2> SUFFICES ASSUME NEW u \in Versions, NEW s \in RequestIds,
                      operations'[s].version = u, abandoned[u] # <<>>,
                      operations'[s].status # "ABANDONED_BY_USER"
               PROVE  /\ operations'[s].supersedes = LastAbandoned(u)
                      /\ operations'[LastAbandoned(u)].authorized = s
    BY <1>1 DEF RetriesAreDeclared, AtVersion, LastAbandoned
  <2>1. /\ LastAbandoned(u) \in RequestIds /\ LastAbandoned(u) # r
        /\ operations'[LastAbandoned(u)] = operations[LastAbandoned(u)]
    BY <1>1, <1>4, LastOnList
  <2>2. CASE s = r
    BY <1>3, <1>4, <2>2, <2>1 DEF ClaimTurn, Authorized
  <2>3. CASE s # r
    BY <1>4, <2>1, <2>3 DEF TurnInv, OutcomesHold, RetriesAreDeclared, AtVersion
  <2> QED BY <2>2, <2>3
<1>10. RepliesHold'
  BY <1>1, <1>3, <1>4 DEF TurnInv, RepliesHold
<1>11. ProposalsHold'
  BY <1>1, <1>3, <1>4 DEF TurnInv, ProposalsHold
<1>12. RecoveriesHold'
  BY <1>1, <1>4, RecoveriesStay
<1>13. OutcomesAreFinal
  BY <1>1, <1>4 DEF OutcomesAreFinal
<1>14. r \notin calling
  BY <1>1 DEF TurnInv, CallingHolds
<1>15. CallingHolds' /\ SectionHolds' /\ calling' \subseteq RequestIds /\ section' \in SectionRow
  <2>1. CASE model
    <3>1. calling' = calling \cup {r} /\ section' = NoSection
      BY <1>1, <2>1 DEF ClaimTurn
    <3>2. CallingHolds'
      BY <1>3, <1>4, <1>14, <3>1 DEF TurnInv, CallingHolds
    <3> QED BY <3>1, <3>2, TurnFacts DEF SectionHolds, SectionRow, NoSection
  <2>2. CASE ~model
    <3>1. calling' = calling /\ section' = [NoSection EXCEPT !.turn = r, !.step = "cache"]
      BY <2>2 DEF ClaimTurn
    <3>2. CallingHolds'
      BY <1>3, <1>4, <1>14, <3>1 DEF TurnInv, CallingHolds
    <3>3. /\ section' \in SectionRow /\ section'.turn = r /\ section'.step = "cache"
          /\ section'.recovery = NoRequest
      BY <3>1 DEF SectionRow, NoSection
    <3>4. SectionHolds'
      BY <1>3, <1>4, <1>14, <3>1, <3>3 DEF SectionHolds
    <3> QED BY <3>1, <3>2, <3>3, <3>4
  <2> QED BY <2>1, <2>2
<1>16. TurnTypeOK'
  BY <1>1, <1>4, <1>15 DEF TurnInv, TurnTypeOK, OperationRow, SectionRow
<1> QED BY <1>6, <1>7, <1>8, <1>9, <1>10, <1>11, <1>12, <1>13, <1>15, <1>16
        DEF TurnStep, TurnInv, OutcomesHold

\* The operations stand: only who calls and who holds the event loop changes.
LEMMA HandlersMove ==
    ASSUME TurnInv, calling' \subseteq calling, section' \in SectionRow, SectionHolds',
           UNCHANGED <<workflow, operations, abandoned, recoveries, proposals, replies>>
    PROVE  TurnStep
<1>1. TurnTypeOK'
  BY TurnFacts DEF TurnInv, TurnTypeOK, SectionRow
<1> QED BY <1>1 DEF TurnStep, TurnInv, OutcomesHold, RowHolds, OneLive, AbandonedHolds,
        RetriesAreDeclared, AtVersion, LastAbandoned, CallingHolds, ProposalsHold, RecoveriesHold,
        RepliesHold, OutcomesAreFinal

LEMMA ModelAnswersKeeps ==
    ASSUME TurnInv, NEW r \in RequestIds, NEW next \in {"cache", "unknown"}, ModelAnswers(r, next)
    PROVE  TurnStep
<1> USE TurnFacts
<1>1. /\ r \in calling /\ calling' = calling \ {r}
      /\ section' = [NoSection EXCEPT !.turn = r, !.step = next]
      /\ UNCHANGED <<workflow, operations, abandoned, recoveries, proposals, replies>>
  BY DEF ModelAnswers
<1>2. /\ section' \in SectionRow /\ section'.turn = r /\ section'.step = next
      /\ section'.recovery = NoRequest
  BY <1>1 DEF SectionRow, NoSection
<1>3. operations'[r].status = "PENDING"
  BY <1>1 DEF TurnInv, CallingHolds
<1>4. SectionHolds'
  BY <1>1, <1>2, <1>3 DEF SectionHolds
<1> QED BY <1>1, <1>2, <1>4, HandlersMove

LEMMA RestartKeeps ==
    ASSUME TurnInv, Restart
    PROVE  TurnStep
BY HandlersMove DEF Restart, SectionRow, NoSection, SectionHolds

\* Who holds the event loop, while the turn's own section runs.
LEMMA InSection ==
    ASSUME TurnInv, section.step \in {"cache", "complete", "unknown", "answer"}
    PROVE  /\ section # NoSection /\ section.turn \in RequestIds /\ section.turn \notin calling
           /\ operations[section.turn].status # "NONE"
           /\ section.step = "answer" =>
                 /\ section.recovery # NoRequest
                 /\ operations[section.turn].status = "SUCCEEDED"
           /\ section.recovery # NoRequest =>
                 /\ section.recovery \in RecoveryIds
                 /\ recoveries[section.recovery] = CachedDecision(section.turn)
BY TurnFacts DEF NoSection, TurnInv, SectionHolds, SectionRow

LEMMA StorageFailsKeeps ==
    ASSUME TurnInv, StorageFails
    PROVE  TurnStep
<1> USE TurnFacts
<1>1. /\ section.step \in {"cache", "complete"}
      /\ section' = [section EXCEPT !.step = "unknown"]
      /\ UNCHANGED <<workflow, operations, abandoned, recoveries, calling, proposals, replies>>
  BY DEF StorageFails
<1>2. /\ section' \in SectionRow /\ section'.turn = section.turn /\ section'.step = "unknown"
      /\ section'.recovery = section.recovery
  BY <1>1 DEF SectionRow
<1>3. SectionHolds'
  BY <1>1, <1>2, InSection DEF SectionHolds, CachedDecision
<1> QED BY <1>1, <1>2, <1>3, HandlersMove

\* The rows that the steps of a turn write.
LEMMA RowChanges ==
    ASSUME NEW row \in OperationRow
    PROVE  /\ LET ready == [row EXCEPT !.status = "RESULT_READY", !.cached = TRUE] IN
                 /\ ready \in OperationRow /\ ready.status = "RESULT_READY"
                 /\ ready.version = row.version /\ ready.supersedes = row.supersedes
                 /\ ready.authorized = row.authorized
           /\ LET unknown == [row EXCEPT !.status = "UNKNOWN", !.claimed = FALSE] IN
                 /\ unknown \in OperationRow /\ unknown.status = "UNKNOWN"
                 /\ unknown.version = row.version /\ unknown.supersedes = row.supersedes
                 /\ unknown.authorized = row.authorized
BY DEF OperationRow, Open

LEMMA CacheProposalKeeps ==
    ASSUME TurnInv, CacheProposal
    PROVE  TurnStep
<1> USE TurnFacts
<1> DEFINE r == section.turn
           row == [operations[r] EXCEPT !.status = "RESULT_READY", !.cached = TRUE]
<1>1. /\ r \in RequestIds /\ r \notin calling /\ operations[r].status # "NONE"
      /\ section.recovery # NoRequest => recoveries[section.recovery] = CachedDecision(r)
  BY InSection DEF CacheProposal
<1>2. CASE Holds(r) /\ operations[r].status = "PENDING"
  <2>1. /\ operations' = [operations EXCEPT ![r].status = "RESULT_READY", ![r].cached = TRUE]
        /\ section' = [section EXCEPT !.step = "complete"]
        /\ UNCHANGED <<workflow, abandoned, recoveries, calling, proposals, replies>>
    BY <1>2 DEF CacheProposal
  <2>2. row \in OperationRow /\ row.status = "RESULT_READY" /\ row.version = operations[r].version
        /\ row.supersedes = operations[r].supersedes /\ row.authorized = operations[r].authorized
    BY <1>1, RowChanges
  <2>3. operations' = [operations EXCEPT ![r] = row]
    BY <1>1, <2>1
  <2> HIDE DEF row
  <2>4. operations[r].status \in Open /\ row.status \in Open
    BY <1>2, <2>2 DEF Open
  <2>5. /\ OutcomesHold' /\ RepliesHold' /\ CallingHolds' /\ ProposalsHold' /\ OutcomesAreFinal
        /\ operations' \in [RequestIds -> OperationRow] /\ operations'[r] = row
        /\ \A s \in RequestIds : s # r => operations'[s] = operations[s]
    BY <1>1, <2>1, <2>2, <2>3, <2>4, OpenStaysOpen
  <2>6. /\ section' \in SectionRow /\ section'.turn = r /\ section'.step = "complete"
        /\ section'.recovery = section.recovery
    BY <2>1 DEF SectionRow
  <2>7. SectionHolds'
    BY <1>1, <2>1, <2>2, <2>5, <2>6 DEF SectionHolds, CachedDecision
  <2>8. RecoveriesHold'
    BY <1>2, <2>5, <2>1, RecoveriesStay
  <2>9. TurnTypeOK'
    BY <2>1, <2>5, <2>6 DEF TurnInv, TurnTypeOK, OperationRow, SectionRow
  <2> QED BY <2>5, <2>7, <2>8, <2>9 DEF TurnStep, TurnInv
<1>3. CASE ~(Holds(r) /\ operations[r].status = "PENDING")
  <2>1. /\ section' = [section EXCEPT !.step = "unknown"]
        /\ UNCHANGED <<workflow, operations, abandoned, recoveries, calling, proposals, replies>>
    BY <1>3 DEF CacheProposal
  <2>2. /\ section' \in SectionRow /\ section'.turn = r /\ section'.step = "unknown"
        /\ section'.recovery = section.recovery
    BY <2>1 DEF SectionRow
  <2>3. SectionHolds'
    BY <1>1, <2>1, <2>2 DEF SectionHolds, CachedDecision
  <2> QED BY <2>1, <2>2, <2>3, HandlersMove
<1> QED BY <1>2, <1>3

LEMMA MarkTurnUnknownKeeps ==
    ASSUME TurnInv, MarkTurnUnknown
    PROVE  TurnStep
<1> USE TurnFacts
<1> DEFINE r == section.turn
           row == [operations[r] EXCEPT !.status = "UNKNOWN", !.claimed = FALSE]
<1>1. r \in RequestIds /\ r \notin calling
  BY InSection DEF MarkTurnUnknown
<1>2. /\ section' = NoSection
      /\ UNCHANGED <<workflow, abandoned, recoveries, calling, proposals, replies>>
  BY DEF MarkTurnUnknown
<1>3. section' \in SectionRow /\ SectionHolds'
  BY <1>2 DEF SectionRow, NoSection, SectionHolds
<1>4. CASE Holds(r)
  <2>1. row \in OperationRow /\ row.status = "UNKNOWN" /\ row.version = operations[r].version
        /\ row.supersedes = operations[r].supersedes /\ row.authorized = operations[r].authorized
    BY <1>1, RowChanges
  <2>2. operations' = [operations EXCEPT ![r] = row]
    BY <1>1, <1>4 DEF MarkTurnUnknown
  <2> HIDE DEF row
  <2>3. operations[r].status \in Open /\ row.status \in Open
    BY <1>4, <2>1 DEF Holds, Open
  <2>4. /\ OutcomesHold' /\ RepliesHold' /\ CallingHolds' /\ ProposalsHold' /\ OutcomesAreFinal
        /\ operations' \in [RequestIds -> OperationRow] /\ operations'[r] = row
        /\ \A s \in RequestIds : s # r => operations'[s] = operations[s]
    BY <1>1, <1>2, <2>1, <2>2, <2>3, OpenStaysOpen, ZenonT(60)
  <2>5. RecoveriesHold'
    BY <2>3, <2>4, <1>2, RecoveriesStay DEF Open
  <2>6. TurnTypeOK'
    BY <1>2, <1>3, <2>4 DEF TurnInv, TurnTypeOK, OperationRow, SectionRow
  <2> QED BY <1>3, <2>4, <2>5, <2>6 DEF TurnStep, TurnInv
<1>5. CASE ~Holds(r)
  BY <1>5, <1>2, <1>3, HandlersMove DEF MarkTurnUnknown
<1> QED BY <1>4, <1>5

\* A turn is committed: the version moves by one, and its proposal is the pending one.
LEMMA CompleteTurnKeeps ==
    ASSUME TurnInv, CompleteTurn
    PROVE  TurnStep
<1> USE TurnFacts
<1> DEFINE r == section.turn  v == operations[r].version
           row == [operations[r] EXCEPT !.status = "SUCCEEDED", !.claimed = FALSE,
                                        !.response = v + 1]
<1>1. /\ r \in RequestIds /\ r \notin calling /\ operations[r].status # "NONE"
      /\ section.recovery # NoRequest => /\ section.recovery \in RecoveryIds
                                         /\ recoveries[section.recovery] = CachedDecision(r)
  BY InSection DEF CompleteTurn
<1>2. UNCHANGED <<abandoned, recoveries, calling>>
  BY DEF CompleteTurn
<1>3. CASE ~(Holds(r) /\ Current(v))
  <2>1. /\ section' = [section EXCEPT !.step = "unknown"]
        /\ UNCHANGED <<workflow, operations, abandoned, recoveries, calling, proposals, replies>>
    BY <1>3 DEF CompleteTurn
  <2>2. /\ section' \in SectionRow /\ section'.turn = r /\ section'.step = "unknown"
        /\ section'.recovery = section.recovery
    BY <2>1 DEF SectionRow
  <2>3. SectionHolds'
    BY <1>1, <2>1, <2>2 DEF SectionHolds, CachedDecision
  <2> QED BY <2>1, <2>2, <2>3, HandlersMove
<1>4. CASE Holds(r) /\ Current(v)
  <2>1. /\ workflow' = [workflow EXCEPT !.version = v + 1]
        /\ proposals' = [Archived("SUPERSEDED") EXCEPT ![r] = "PENDING"]
        /\ operations' = [operations EXCEPT ![r].status = "SUCCEEDED", ![r].claimed = FALSE,
                                            ![r].response = v + 1]
        /\ workflow.version = v /\ workflow.status = "ACTIVE"
        /\ operations[r].status \in {"PENDING", "RESULT_READY"}
    BY <1>4 DEF CompleteTurn, Current, Holds
  <2>2. RowHolds(r)
    BY <1>1 DEF TurnInv, OutcomesHold
  <2>22. /\ section.recovery = NoRequest =>
               /\ replies' = [replies EXCEPT ![r] = @ \cup {v + 1}]
               /\ section' = NoSection
         /\ section.recovery # NoRequest =>
               /\ section' = [section EXCEPT !.step = "answer"]
               /\ replies' = replies
    BY <1>4 DEF CompleteTurn, Reply
  <2>3. v \in Nat /\ v \in Versions /\ v < MaxVersion /\ v + 1 \in Versions /\ v + 1 > v
    BY <1>1, <2>2 DEF RowHolds, Versions
  <2>4. /\ row \in OperationRow /\ row.status = "SUCCEEDED" /\ row.version = v
        /\ row.response = v + 1 /\ row.supersedes = operations[r].supersedes
        /\ row.authorized = operations[r].authorized
    <3> DEFINE w == v + 1  old == operations[r]
    <3>1. row = [old EXCEPT !.status = "SUCCEEDED", !.claimed = FALSE, !.response = w]
      OBVIOUS
    <3>2. old \in OperationRow /\ w \in Versions
      BY <1>1, <2>3
    <3>3. v = old.version /\ w = v + 1 /\ operations[r] = old
      OBVIOUS
    <3> HIDE DEF row, w, v, old, r
    <3>4. /\ row \in OperationRow /\ row.status = "SUCCEEDED"
          /\ row.version = old.version /\ row.response = w
          /\ row.supersedes = old.supersedes /\ row.authorized = old.authorized
      BY ONLY <3>1, <3>2 DEF OperationRow
    <3> QED BY <3>3, <3>4
  <2>5. operations' = [operations EXCEPT ![r] = row]
    BY <1>1, <2>1
  <2>23. v = operations[r].version
    OBVIOUS
  <2> HIDE DEF row, v
  <2> HIDE DEF r
  <2>6. /\ operations'[r] = row
        /\ \A s \in RequestIds : s # r => operations'[s] = operations[s]
        /\ operations' \in [RequestIds -> OperationRow]
    BY <1>1, <2>4, <2>5
  <2>7. workflow'.version = v + 1 /\ workflow'.status = "ACTIVE"
        /\ workflow' \in [version : Versions, status : {"ACTIVE", "COMPLETED", "ARCHIVED"}]
    BY <2>1, <2>3
  <2>8. \A s \in RequestIds : RowHolds(s)'
    <3> SUFFICES ASSUME NEW s \in RequestIds PROVE RowHolds(s)'
      OBVIOUS
    <3>1. CASE s = r
      BY <2>3, <2>4, <2>6, <2>7, <3>1 DEF RowHolds
    <3>2. CASE s # r
      <4>1. RowHolds(s)
        BY DEF TurnInv, OutcomesHold
      <4> QED BY <1>2, <2>1, <2>3, <2>6, <2>7, <3>2, <4>1 DEF RowHolds
    <3> QED BY <3>1, <3>2
  <2>9. OneLive'
    <3>1. operations[r].status \in Live /\ row.status \in Live
      BY <2>1, <2>4 DEF Live, Open
    <3>2. \A s \in RequestIds : /\ operations'[s].version = operations[s].version
                                /\ operations'[s].status \in Live <=> operations[s].status \in Live
      BY <2>4, <2>6, <2>23, <3>1
    <3> QED BY <3>2 DEF TurnInv, OutcomesHold, OneLive
  <2>10. AbandonedHolds'
    BY <1>2, <2>1, <2>6 DEF TurnInv, OutcomesHold, AbandonedHolds
  <2>11. RetriesAreDeclared'
    <3> SUFFICES ASSUME NEW u \in Versions, NEW s \in RequestIds,
                        operations'[s].version = u, abandoned[u] # <<>>,
                        operations'[s].status # "ABANDONED_BY_USER"
                 PROVE  /\ operations'[s].supersedes = LastAbandoned(u)
                        /\ operations'[LastAbandoned(u)].authorized = s
      BY <1>2 DEF RetriesAreDeclared, AtVersion, LastAbandoned
    <3>1. /\ LastAbandoned(u) \in RequestIds
          /\ operations'[LastAbandoned(u)] = operations[LastAbandoned(u)]
      BY <2>1, <2>6, LastOnList
    <3>2. /\ operations[s].version = u /\ operations[s].status # "ABANDONED_BY_USER"
          /\ operations'[s].supersedes = operations[s].supersedes
      BY <2>1, <2>4, <2>6
    <3> QED BY <3>1, <3>2 DEF TurnInv, OutcomesHold, RetriesAreDeclared, AtVersion
  <2>12. replies[r] = {}
    BY <1>1, <2>1 DEF TurnInv, RepliesHold
  <2>13. /\ replies' \in [RequestIds -> SUBSET Versions]
         /\ replies'[r] \subseteq {v + 1}
         /\ \A s \in RequestIds : s # r => replies'[s] = replies[s]
    <3>1. CASE section.recovery = NoRequest
      <4> DEFINE w == v + 1
      <4>1. w \in Versions /\ replies' = [replies EXCEPT ![r] = @ \cup {w}]
        BY <2>3, <2>22, <3>1
      <4> HIDE DEF w
      <4>2. /\ replies' \in [RequestIds -> SUBSET Versions]
            /\ replies'[r] = {w}
            /\ \A s \in RequestIds : s # r => replies'[s] = replies[s]
        BY <1>1, <2>12, <4>1
      <4> QED BY <4>2 DEF w
    <3>2. CASE section.recovery # NoRequest
      BY <2>12, <2>22, <3>2
    <3> QED BY <3>1, <3>2
  <2>14. RepliesHold'
    BY <2>4, <2>6, <2>13 DEF TurnInv, RepliesHold
  <2>15. CallingHolds'
    BY <1>1, <1>2, <2>6 DEF TurnInv, CallingHolds
  <2>16. proposals' \in [RequestIds -> ProposalPlaces] /\ ProposalsHold'
    <3>1. /\ \A s \in RequestIds : s # r => proposals'[s] # "PENDING"
                                           /\ (proposals'[s] # "NONE" <=> proposals[s] # "NONE")
          /\ proposals'[r] = "PENDING"
          /\ proposals' \in [RequestIds -> ProposalPlaces]
      BY <1>1, <2>1 DEF Archived, ProposalPlaces
    <3>2. /\ row.status = "SUCCEEDED" /\ operations'[r] = row
          /\ \A s \in RequestIds : s # r => operations'[s].status = operations[s].status
      BY <2>4, <2>6
    <3> QED BY <2>7, <3>1, <3>2 DEF TurnInv, ProposalsHold
  <2>17. \A s \in RequestIds : operations[s].status = "SUCCEEDED" => operations'[s] = operations[s]
    BY <2>1, <2>6
  <2>18. RecoveriesHold'
    BY <1>2, <2>17, RecoveriesStay
  <2>19. OutcomesAreFinal
    BY <2>1, <2>6 DEF OutcomesAreFinal
  <2>20. section' \in SectionRow /\ SectionHolds'
    <3>1. CASE section.recovery = NoRequest
      BY <2>22, <3>1 DEF SectionRow, NoSection, SectionHolds
    <3>2. CASE section.recovery # NoRequest
      <4>1. section' = [section EXCEPT !.step = "answer"]
        BY <2>22, <3>2
      <4>2. /\ section' \in SectionRow /\ section'.turn = section.turn /\ section'.step = "answer"
            /\ section'.recovery = section.recovery
        BY <4>1 DEF SectionRow
      <4>3. section'.turn = r
        BY <4>2 DEF r
      <4> QED BY <1>1, <1>2, <2>4, <2>6, <3>2, <4>2, <4>3 DEF SectionHolds, CachedDecision
    <3> QED BY <3>1, <3>2
  <2>21. TurnTypeOK'
    BY <1>2, <2>6, <2>7, <2>13, <2>16, <2>20 DEF TurnInv, TurnTypeOK, OperationRow, SectionRow
  <2> QED BY <2>8, <2>9, <2>10, <2>11, <2>14, <2>15, <2>16, <2>18, <2>19, <2>20, <2>21
          DEF TurnStep, TurnInv, OutcomesHold
<1> QED BY <1>3, <1>4

-----------------------------------------------------------------------------
(* The decisions about a turn.                                             *)

\* The turns stand: only the decisions, their answers and the handler change.
LEMMA DecisionsMove ==
    ASSUME TurnInv, NEW r \in RequestIds, operations[r].status = "SUCCEEDED",
           replies' = [replies EXCEPT ![r] = @ \cup {operations[r].response}],
           recoveries' \in [RecoveryIds -> RecoveryRow], RecoveriesHold',
           section' \in SectionRow, SectionHolds',
           UNCHANGED <<workflow, operations, abandoned, calling, proposals>>
    PROVE  TurnStep
<1> USE TurnFacts
<1>1. operations[r].response \in Versions
  BY ResponseIsVersion
<1>2. TurnTypeOK'
  BY <1>1 DEF TurnInv, TurnTypeOK, RecoveryRow, SectionRow
<1>3. RepliesHold'
  BY DEF TurnInv, RepliesHold
<1> QED BY <1>2, <1>3 DEF TurnStep, TurnInv, OutcomesHold, RowHolds, OneLive, AbandonedHolds,
        RetriesAreDeclared, AtVersion, LastAbandoned, CallingHolds, ProposalsHold, OutcomesAreFinal

LEMMA ReplayRecoveryKeeps ==
    ASSUME TurnInv, NEW r \in RequestIds, NEW i \in RecoveryIds, ReplayRecovery(r, i)
    PROVE  TurnStep
<1> USE TurnFacts
<1>1. /\ Bound(i, CachedDecision(r)) /\ recoveries[i].response # 0
      /\ replies' = [replies EXCEPT ![r] = @ \cup {recoveries[i].response}]
      /\ UNCHANGED <<workflow, operations, abandoned, recoveries, calling, section, proposals>>
  BY DEF ReplayRecovery, Reply
<1>2. recoveries[i] # NoRecovery
  BY <1>1 DEF NoRecovery
<1>3. recoveries[i].turn = r /\ recoveries[i].action = "RETRY_CACHED_COMMIT"
  <2> DEFINE old == recoveries[i]
  <2>1. old \in RecoveryRow /\ [old EXCEPT !.response = 0] = CachedDecision(r)
    BY <1>1, <1>2 DEF Bound
  <2> HIDE DEF old
  <2>2. /\ [old EXCEPT !.response = 0].turn = old.turn
        /\ [old EXCEPT !.response = 0].action = old.action
    BY <2>1 DEF RecoveryRow
  <2>3. old.turn = r /\ old.action = "RETRY_CACHED_COMMIT"
    BY <2>1, <2>2 DEF CachedDecision
  <2> QED BY <2>3 DEF old
<1>4. operations[r].status = "SUCCEEDED" /\ recoveries[i].response = operations[r].response
  BY <1>1, <1>3 DEF TurnInv, RecoveriesHold
<1>5. RecoveriesHold' /\ SectionHolds'
  BY <1>1 DEF TurnInv, RecoveriesHold, SectionHolds
<1> QED BY <1>1, <1>4, <1>5, DecisionsMove

\* A decision that is answered with the version of the turn it is about.
LEMMA AnsweredWithTurn ==
    ASSUME TurnInv, NEW r \in RequestIds, NEW i \in RecoveryIds, NEW row \in RecoveryRow,
           operations[r].status = "SUCCEEDED", row.turn = r,
           row.response = operations[r].response,
           recoveries' = [recoveries EXCEPT ![i] = row], UNCHANGED operations
    PROVE  recoveries' \in [RecoveryIds -> RecoveryRow] /\ RecoveriesHold'
<1> USE TurnFacts
<1>1. /\ recoveries' \in [RecoveryIds -> RecoveryRow] /\ recoveries'[i] = row
      /\ \A j \in RecoveryIds : j # i => recoveries'[j] = recoveries[j]
  OBVIOUS
<1> QED BY <1>1 DEF TurnInv, RecoveriesHold

\* The row of a decision that is answered.
LEMMA AnsweredRow ==
    ASSUME NEW r \in RequestIds, NEW response \in Versions
    PROVE  LET row == [CachedDecision(r) EXCEPT !.response = response] IN
           row \in RecoveryRow /\ row.turn = r /\ row.response = response
BY DEF CachedDecision, RecoveryRow

LEMMA RecoverSucceededKeeps ==
    ASSUME TurnInv, NEW r \in RequestIds, NEW i \in RecoveryIds, NEW v \in Versions,
           RecoverSucceeded(r, i, v)
    PROVE  TurnStep
<1> DEFINE row == [CachedDecision(r) EXCEPT !.response = operations[r].response]
<1>1. /\ operations[r].status = "SUCCEEDED"
      /\ recoveries' = [recoveries EXCEPT ![i] = row]
      /\ replies' = [replies EXCEPT ![r] = @ \cup {operations[r].response}]
      /\ UNCHANGED <<workflow, operations, abandoned, calling, section, proposals>>
  BY DEF RecoverSucceeded, Reply
<1>2. row \in RecoveryRow /\ row.turn = r /\ row.response = operations[r].response
  BY <1>1, ResponseIsVersion, AnsweredRow
<1> HIDE DEF row
<1>3. recoveries' \in [RecoveryIds -> RecoveryRow] /\ RecoveriesHold'
  BY <1>1, <1>2, AnsweredWithTurn
<1>4. SectionHolds' /\ section' \in SectionRow
  BY <1>1, TurnFacts DEF RecoverSucceeded, Idle, SectionHolds
<1> QED BY <1>1, <1>3, <1>4, DecisionsMove

LEMMA AnswerRecoveryKeeps ==
    ASSUME TurnInv, AnswerRecovery
    PROVE  TurnStep
<1> DEFINE r == section.turn  i == section.recovery
           row == [CachedDecision(r) EXCEPT !.response = operations[r].response]
<1>1. /\ r \in RequestIds /\ operations[r].status = "SUCCEEDED" /\ i \in RecoveryIds
      /\ recoveries[i] = CachedDecision(r)
  BY InSection DEF AnswerRecovery
<1>2. /\ recoveries' = [recoveries EXCEPT ![i].response = operations[r].response]
      /\ replies' = [replies EXCEPT ![r] = @ \cup {operations[r].response}]
      /\ section' = NoSection
      /\ UNCHANGED <<workflow, operations, abandoned, calling, proposals>>
  BY DEF AnswerRecovery, Reply
<1>3. recoveries' = [recoveries EXCEPT ![i] = row]
  BY <1>1, <1>2
<1> HIDE DEF r, i
<1>4. row \in RecoveryRow /\ row.turn = r /\ row.response = operations[r].response
  BY <1>1, ResponseIsVersion, AnsweredRow
<1> HIDE DEF row
<1>5. recoveries' \in [RecoveryIds -> RecoveryRow] /\ RecoveriesHold'
  BY <1>1, <1>2, <1>3, <1>4, AnsweredWithTurn
<1>6. SectionHolds' /\ section' \in SectionRow
  BY <1>2 DEF SectionHolds, SectionRow, NoSection
<1> QED BY <1>1, <1>2, <1>5, <1>6, DecisionsMove

LEMMA RecoverCachedKeeps ==
    ASSUME TurnInv, NEW r \in RequestIds, NEW i \in RecoveryIds, NEW v \in Versions,
           RecoverCached(r, i, v)
    PROVE  TurnStep
<1> USE TurnFacts
<1> DEFINE row == [operations[r] EXCEPT !.status = "RESULT_READY", !.claimed = TRUE]
<1>1. /\ operations[r].status \in {"UNKNOWN", "RESULT_READY"}
      /\ recoveries' = [recoveries EXCEPT ![i] = CachedDecision(r)]
      /\ operations' = [operations EXCEPT ![r].status = "RESULT_READY", ![r].claimed = TRUE]
      /\ section' = [turn |-> r, recovery |-> i, step |-> "complete"]
      /\ UNCHANGED <<workflow, abandoned, calling, proposals, replies>>
  BY DEF RecoverCached
<1>2. r \notin calling
  BY <1>1 DEF TurnInv, CallingHolds
<1>3. operations' = [operations EXCEPT ![r] = row]
  BY <1>1
<1>4. row \in OperationRow /\ row.status = "RESULT_READY" /\ row.version = operations[r].version
      /\ row.supersedes = operations[r].supersedes /\ row.authorized = operations[r].authorized
  BY ZenonT(60) DEF OperationRow, Open
<1> HIDE DEF row
<1>5. operations[r].status \in Open /\ row.status \in Open
  BY <1>1, <1>4 DEF Open
<1>6. /\ OutcomesHold' /\ RepliesHold' /\ CallingHolds' /\ ProposalsHold' /\ OutcomesAreFinal
      /\ operations' \in [RequestIds -> OperationRow] /\ operations'[r] = row
      /\ \A s \in RequestIds : s # r => operations'[s] = operations[s]
  BY <1>1, <1>2, <1>3, <1>4, <1>5, OpenStaysOpen
<1>7. /\ CachedDecision(r) \in RecoveryRow /\ CachedDecision(r).response = 0
  BY DEF CachedDecision, RecoveryRow
<1>8. /\ recoveries' \in [RecoveryIds -> RecoveryRow] /\ recoveries'[i] = CachedDecision(r)
      /\ \A j \in RecoveryIds : j # i => recoveries'[j] = recoveries[j]
  BY <1>1, <1>7
<1>9. \A s \in RequestIds : operations[s].status = "SUCCEEDED" => operations'[s] = operations[s]
  BY <1>1, <1>6
<1>10. RecoveriesHold'
  BY <1>7, <1>8, <1>9 DEF TurnInv, RecoveriesHold
<1>11. section' \in SectionRow
  BY <1>1 DEF SectionRow
<1>12. SectionHolds'
  BY <1>1, <1>2, <1>4, <1>6, <1>8 DEF SectionHolds
<1>13. TurnTypeOK'
  BY <1>1, <1>6, <1>8, <1>11 DEF TurnInv, TurnTypeOK, OperationRow, RecoveryRow, SectionRow
<1> QED BY <1>6, <1>10, <1>12, <1>13 DEF TurnStep, TurnInv

\* The user gives up a turn, and names the request that may replace it.
LEMMA AbandonTurnKeeps ==
    ASSUME TurnInv, NEW r \in RequestIds, NEW i \in RecoveryIds, NEW v \in Versions,
           NEW new \in RequestIds, AbandonTurn(r, i, v, new)
    PROVE  TurnStep
<1> USE TurnFacts
<1> DEFINE decision == [turn |-> r, action |-> "ABANDON_AND_AUTHORIZE_RETRY", new |-> new,
                        response |-> 0]
           answer == [decision EXCEPT !.response = -1]
           row == [operations[r] EXCEPT !.status = "ABANDONED_BY_USER", !.authorized = new]
<1>1. /\ section = NoSection /\ operations[r].version = v
      /\ recoveries' = [recoveries EXCEPT ![i] = answer]
      /\ UNCHANGED <<workflow, calling, section, proposals, replies>>
  BY DEF AbandonTurn, Idle
<1>2. answer \in RecoveryRow /\ answer.action = "ABANDON_AND_AUTHORIZE_RETRY"
  BY DEF RecoveryRow
<1> HIDE DEF answer
<1>3. /\ recoveries' \in [RecoveryIds -> RecoveryRow] /\ recoveries'[i] = answer
      /\ \A j \in RecoveryIds : j # i => recoveries'[j] = recoveries[j]
  BY <1>1, <1>2
<1>4. section' \in SectionRow /\ SectionHolds'
  BY <1>1 DEF SectionHolds
<1>5. ASSUME operations[r].status = "ABANDONED_BY_USER", UNCHANGED <<operations, abandoned>>
      PROVE  TurnStep
  <2>1. RecoveriesHold'
    BY <1>2, <1>3, <1>5 DEF TurnInv, RecoveriesHold
  <2>2. TurnTypeOK'
    BY <1>1, <1>3, <1>5 DEF TurnInv, TurnTypeOK, RecoveryRow
  <2> QED BY <1>1, <1>4, <1>5, <2>1, <2>2 DEF TurnStep, TurnInv, OutcomesHold, RowHolds, OneLive,
          AbandonedHolds, RetriesAreDeclared, AtVersion, LastAbandoned, CallingHolds,
          ProposalsHold, RepliesHold, OutcomesAreFinal
<1>6. ASSUME operations[r].status = "UNKNOWN",
             operations' = [operations EXCEPT ![r].status = "ABANDONED_BY_USER",
                                              ![r].authorized = new],
             abandoned' = [abandoned EXCEPT ![v] = Append(@, r)]
      PROVE  TurnStep
  <2>1. operations' = [operations EXCEPT ![r] = row]
    BY <1>6
  <2>2. row \in OperationRow /\ row.status = "ABANDONED_BY_USER" /\ row.version = v
    BY <1>1, ZenonT(60) DEF OperationRow
  <2> HIDE DEF row
  <2>3. /\ operations'[r] = row
        /\ \A s \in RequestIds : s # r => operations'[s] = operations[s]
        /\ operations' \in [RequestIds -> OperationRow]
    BY <2>1, <2>2
  <2> DEFINE list == abandoned[v]
  <2>4. /\ abandoned'[v] = Append(list, r)
        /\ \A u \in Versions : u # v => abandoned'[u] = abandoned[u]
        /\ abandoned' \in [Versions -> Seq(RequestIds)]
        /\ Len(abandoned'[v]) = Len(list) + 1 /\ Len(list) \in Nat
        /\ abandoned'[v][Len(list) + 1] = r
        /\ \A k \in 1 .. Len(list) : abandoned'[v][k] = list[k]
    BY <1>6
  <2> HIDE DEF list
  <2>5. \A s \in RequestIds : RowHolds(s)'
    <3> SUFFICES ASSUME NEW s \in RequestIds PROVE RowHolds(s)'
      OBVIOUS
    <3>1. RowHolds(s)
      BY DEF TurnInv, OutcomesHold
    <3>2. CASE s = r
      <4>1. /\ v \in Versions /\ v < MaxVersion /\ v <= workflow.version
        BY <1>1, <1>6, <3>1, <3>2 DEF RowHolds
      <4>2. Len(list) + 1 \in 1 .. Len(abandoned'[v])
        BY <2>4
      <4>3. operations'[s].status = "ABANDONED_BY_USER" /\ operations'[s].version = v
        BY <2>2, <2>3, <3>2
      <4>4. \E k \in 1 .. Len(abandoned'[v]) : abandoned'[v][k] = s
        BY <2>4, <3>2, <4>2
      <4> QED BY <1>1, <4>1, <4>3, <4>4 DEF RowHolds
    <3>3. CASE s # r
      <4>1. operations'[s] = operations[s]
        BY <2>3, <3>3
      <4>2. ASSUME operations[s].status = "ABANDONED_BY_USER"
            PROVE  \E k \in 1 .. Len(abandoned'[operations[s].version]) :
                       abandoned'[operations[s].version][k] = s
        <5> DEFINE u == operations[s].version
        <5>1. PICK k \in 1 .. Len(abandoned[u]) : abandoned[u][k] = s
          BY <3>1, <4>2 DEF RowHolds
        <5>2. u \in Versions
          BY <3>1, <4>2 DEF RowHolds
        <5> HIDE DEF u
        <5>3. k \in 1 .. Len(abandoned'[u]) /\ abandoned'[u][k] = abandoned[u][k]
          <6>1. CASE u = v
            BY <5>1, <6>1, <2>4 DEF list
          <6>2. CASE u # v
            BY <2>4, <5>1, <5>2, <6>2
          <6> QED BY <6>1, <6>2
        <5>4. \E l \in 1 .. Len(abandoned'[u]) : abandoned'[u][l] = s
          BY <5>1, <5>3
        <5> QED BY <5>4 DEF u
      <4> QED BY <1>1, <3>1, <4>1, <4>2 DEF RowHolds
    <3> QED BY <3>2, <3>3
  <2>6. row.status \notin Live /\ operations[r].status \in Live
    BY <1>6, <2>2 DEF Live, Open
  <2>7. OneLive'
    BY <2>3, <2>6 DEF TurnInv, OutcomesHold, OneLive
  <2>8. AbandonedHolds'
    <3> SUFFICES ASSUME NEW u \in Versions, NEW k \in 1 .. Len(abandoned'[u])
                 PROVE  /\ abandoned'[u][k] \in RequestIds
                        /\ operations'[abandoned'[u][k]].status = "ABANDONED_BY_USER"
                        /\ operations'[abandoned'[u][k]].version = u
      BY DEF AbandonedHolds
    <3>1. CASE u = v /\ k = Len(list) + 1
      BY <2>2, <2>3, <2>4, <3>1
    <3>2. CASE ~(u = v /\ k = Len(list) + 1)
      <4>1. k \in 1 .. Len(abandoned[u]) /\ abandoned'[u][k] = abandoned[u][k]
        <5>1. CASE u = v
          <6>1. k \in 1 .. Len(list) /\ abandoned'[u][k] = list[k]
            BY <2>4, <3>2, <5>1
          <6> QED BY <5>1, <6>1 DEF list
        <5>2. CASE u # v
          BY <2>4, <5>2
        <5> QED BY <5>1, <5>2
      <4>2. /\ abandoned[u][k] \in RequestIds /\ abandoned[u][k] # r
            /\ operations[abandoned[u][k]].status = "ABANDONED_BY_USER"
            /\ operations[abandoned[u][k]].version = u
        BY <1>6, <4>1 DEF TurnInv, OutcomesHold, AbandonedHolds
      <4> QED BY <2>3, <4>1, <4>2
    <3> QED BY <3>1, <3>2
  <2>9. RetriesAreDeclared'
    <3> SUFFICES ASSUME NEW u \in Versions, NEW s \in RequestIds,
                        operations'[s].version = u, abandoned'[u] # <<>>,
                        operations'[s].status # "ABANDONED_BY_USER"
                 PROVE  /\ operations'[s].supersedes = LastAbandoned(u)'
                        /\ operations'[LastAbandoned(u)'].authorized = s
      BY DEF RetriesAreDeclared, AtVersion, LastAbandoned
    <3>1. s # r /\ operations'[s] = operations[s]
      BY <2>2, <2>3
    <3>2. u # v
      <4>1. SUFFICES ASSUME u = v PROVE FALSE
        OBVIOUS
      <4>2. operations[s].status # "NONE"
        <5>1. operations[s].version # 0
          BY <3>1, <4>1
        <5>2. NoOperation.version = 0
          BY DEF NoOperation
        <5>3. operations[s] # NoOperation
          BY <5>1, <5>2
        <5> QED BY <5>3 DEF TurnInv, OutcomesHold, RowHolds
      <4>3. operations[s].status \in Live
        BY <3>1, <4>2 DEF OperationRow, Live
      <4> QED BY <1>1, <2>6, <3>1, <4>1, <4>3 DEF TurnInv, OutcomesHold, OneLive
    <3>3. abandoned'[u] = abandoned[u]
      BY <2>4, <3>2
    <3>4. /\ LastAbandoned(u)' = LastAbandoned(u) /\ LastAbandoned(u) \in RequestIds
          /\ LastAbandoned(u) # r
      BY <1>6, <3>3, LastOnList DEF LastAbandoned
    <3>5. operations'[LastAbandoned(u)] = operations[LastAbandoned(u)]
      BY <2>3, <3>4
    <3> QED BY <3>1, <3>3, <3>4, <3>5 DEF TurnInv, OutcomesHold, RetriesAreDeclared, AtVersion
  <2>10. RepliesHold'
    BY <1>1, <1>6, <2>2, <2>3 DEF TurnInv, RepliesHold
  <2>11. CallingHolds'
    BY <1>1, <1>6, <2>3 DEF TurnInv, CallingHolds
  <2>12. ProposalsHold'
    BY <1>6, <2>2, <2>3, <1>1 DEF TurnInv, ProposalsHold
  <2>13. RecoveriesHold'
    <3>1. \A s \in RequestIds : operations[s].status = "SUCCEEDED" => operations'[s] = operations[s]
      BY <1>6, <2>3
    <3>2. recoveries'[i].action # "RETRY_CACHED_COMMIT"
      BY <1>2, <1>3
    <3> QED BY <1>3, <3>1, <3>2 DEF TurnInv, RecoveriesHold
  <2>14. OutcomesAreFinal
    BY <1>6, <2>3 DEF OutcomesAreFinal
  <2>15. TurnTypeOK'
    BY <1>1, <1>3, <1>4, <2>3, <2>4 DEF TurnInv, TurnTypeOK, OperationRow, RecoveryRow, SectionRow
  <2> QED BY <1>4, <2>5, <2>7, <2>8, <2>9, <2>10, <2>11, <2>12, <2>13, <2>14, <2>15
          DEF TurnStep, TurnInv, OutcomesHold
<1> QED BY <1>5, <1>6 DEF AbandonTurn

-----------------------------------------------------------------------------
(* The steps that move the version, and what follows.                      *)

LEMMA MovesKeeps ==
    ASSUME TurnInv, NEW v \in Versions, NEW status \in {"ACTIVE", "COMPLETED", "ARCHIVED"},
           NEW place \in {"PENDING", "APPLIED", "DISMISSED"}, Moves(v, status, place),
           place = "PENDING" => workflow.status = "ACTIVE" /\ status = "ACTIVE"
    PROVE  TurnStep
<1> USE TurnFacts
<1>1. /\ v < MaxVersion /\ workflow.version = v
      /\ workflow' = [version |-> v + 1, status |-> status]
      /\ proposals' = Archived(place)
      /\ UNCHANGED <<operations, abandoned, recoveries, calling, section, replies>>
  BY DEF Moves
<1>2. v \in Nat /\ v + 1 \in Versions /\ v < v + 1
  BY <1>1 DEF Versions
<1>3. /\ workflow' \in [version : Versions, status : {"ACTIVE", "COMPLETED", "ARCHIVED"}]
      /\ workflow'.version = v + 1 /\ workflow'.status = status
  BY <1>1, <1>2
<1>4. /\ \A s \in RequestIds :
            /\ proposals'[s] = IF proposals[s] = "PENDING" THEN place ELSE proposals[s]
            /\ proposals'[s] \in ProposalPlaces
      /\ proposals' \in [RequestIds -> ProposalPlaces]
  BY <1>1 DEF Archived, ProposalPlaces
<1>5. ProposalsHold'
  BY <1>4, <1>1, <1>3 DEF TurnInv, ProposalsHold
<1>6. \A s \in RequestIds : RowHolds(s)'
  BY <1>1, <1>2, <1>3 DEF TurnInv, OutcomesHold, RowHolds
<1>7. TurnTypeOK'
  BY <1>1, <1>3, <1>4 DEF TurnInv, TurnTypeOK
<1> QED BY <1>1, <1>5, <1>6, <1>7 DEF TurnStep, TurnInv, OutcomesHold, OneLive, AbandonedHolds,
        RetriesAreDeclared, AtVersion, LastAbandoned, CallingHolds, RepliesHold, RecoveriesHold,
        SectionHolds, OutcomesAreFinal

LEMMA VersionMoves ==
    ASSUME TurnInv, NEW v \in Versions, NEW last \in BOOLEAN,
           ApplyProposal(v) \/ AdvanceStage(v, last) \/ LinkArtifacts(v) \/ ArchiveWorkflow(v)
    PROVE  TurnStep
BY TurnFacts, MovesKeeps DEF ApplyProposal, AdvanceStage, LinkArtifacts, ArchiveWorkflow

LEMMA TurnNext_Keeps ==
    ASSUME TurnInv, TurnNext
    PROVE  TurnStep
<1>1. CASE SectionStep
  BY <1>1, CacheProposalKeeps, CompleteTurnKeeps, StorageFailsKeeps, MarkTurnUnknownKeeps,
     AnswerRecoveryKeeps DEF SectionStep
<1>2. CASE Restart
  BY <1>2, RestartKeeps
<1>3. ASSUME NEW r \in RequestIds, NEW next \in {"cache", "unknown"}, ModelAnswers(r, next)
      PROVE  TurnStep
  BY <1>3, ModelAnswersKeeps
<1>4. ASSUME NEW r \in RequestIds, NEW v \in Versions, ReplayTurn(r, v)
      PROVE  TurnStep
  BY <1>4, ReplayTurnKeeps
<1>5. ASSUME NEW r \in RequestIds, NEW v \in Versions, NEW model \in BOOLEAN, ClaimTurn(r, v, model)
      PROVE  TurnStep
  BY <1>5, ClaimTurnKeeps
<1>6. ASSUME NEW r \in RequestIds, NEW v \in Versions, NEW i \in RecoveryIds,
             RecoverSucceeded(r, i, v) \/ RecoverCached(r, i, v)
      PROVE  TurnStep
  BY <1>6, RecoverSucceededKeeps, RecoverCachedKeeps
<1>7. ASSUME NEW r \in RequestIds, NEW v \in Versions, NEW i \in RecoveryIds, NEW new \in RequestIds,
             AbandonTurn(r, i, v, new)
      PROVE  TurnStep
  BY <1>7, AbandonTurnKeeps
<1>8. ASSUME NEW r \in RequestIds, NEW i \in RecoveryIds, ReplayRecovery(r, i)
      PROVE  TurnStep
  BY <1>8, ReplayRecoveryKeeps
<1>9. ASSUME NEW v \in Versions, NEW last \in BOOLEAN,
             ApplyProposal(v) \/ AdvanceStage(v, last) \/ LinkArtifacts(v) \/ ArchiveWorkflow(v)
      PROVE  TurnStep
  BY <1>9, VersionMoves
<1> QED BY <1>1, <1>2, <1>3, <1>4, <1>5, <1>6, <1>7, <1>8, <1>9 DEF TurnNext

LEMMA TurnStutter_Keeps ==
    ASSUME TurnInv, UNCHANGED turnVars
    PROVE  TurnStep
BY DEF turnVars, TurnStep, TurnInv, TurnTypeOK, OutcomesHold, RowHolds, OneLive, AbandonedHolds,
       RetriesAreDeclared, AtVersion, LastAbandoned, CallingHolds, ProposalsHold, RepliesHold,
       RecoveriesHold, SectionHolds, OutcomesAreFinal

\* The calls that were paid for at a version: the given up turns, and the one that stands.
LEMMA NoRebillingFromInv == TurnInv => NoSilentRebilling
<1> SUFFICES ASSUME TurnInv, NEW v \in Versions
             PROVE  /\ Cardinality(calling \cap AtVersion(v)) <= 1
                    /\ Cardinality({r \in AtVersion(v) : operations[r].billed}) <= 1 + Len(abandoned[v])
  BY DEF NoSilentRebilling
<1> USE TurnFacts
<1> DEFINE list == abandoned[v]
           given == {list[k] : k \in 1 .. Len(list)}
           standing == {r \in AtVersion(v) : operations[r].status \in Live}
           billed == {r \in AtVersion(v) : operations[r].billed}
<1>1. Len(list) \in Nat
  OBVIOUS
<1>2. IsFiniteSet(1 .. Len(list)) /\ Cardinality(1 .. Len(list)) = Len(list)
  <2> DEFINE n == Len(list)
  <2>1. n \in Int /\ 1 \in Int /\ n >= 0
    BY <1>1
  <2> HIDE DEF n
  <2>2. IsFiniteSet(1 .. n) /\ Cardinality(1 .. n) = IF 1 > n THEN 0 ELSE n - 1 + 1
    BY <2>1, FS_Interval
  <2>3. Cardinality(1 .. n) = n
    BY <2>1, <2>2
  <2> QED BY <2>2, <2>3 DEF n
<1>3. IsFiniteSet(given) /\ Cardinality(given) <= Len(list)
  <2> DEFINE g == [k \in 1 .. Len(list) |-> list[k]]
  <2> HIDE DEF list
  <2>1. g \in [1 .. Len(list) -> given] /\ \A t \in given : \E k \in 1 .. Len(list) : g[k] = t
    OBVIOUS
  <2>2. g \in Surjection(1 .. Len(list), given)
    BY <2>1, Fun_IsSurj
  <2> QED BY <1>2, <2>2, FS_Surjection
<1>4. \E s : standing \subseteq {s}
  <2>1. \A r, s \in standing : r = s
    BY DEF TurnInv, OutcomesHold, OneLive, AtVersion
  <2> HIDE DEF standing
  <2>2. CASE standing = {}
    BY <2>2
  <2>3. CASE standing # {}
    <3>1. PICK s : s \in standing
      BY <2>3
    <3>2. standing \subseteq {s}
      BY <2>1, <3>1
    <3> QED BY <3>2
  <2> QED BY <2>2, <2>3
<1>5. PICK s : standing \subseteq {s}
  BY <1>4
<1>6. calling \cap AtVersion(v) \subseteq standing
  BY DEF TurnInv, CallingHolds, AtVersion, Live, Open
<1>7. billed \subseteq given \cup {s}
  <2> SUFFICES ASSUME NEW r \in AtVersion(v), r \notin standing PROVE r \in given
    BY <1>5
  <2>1. r \in RequestIds /\ operations[r].version = v /\ operations[r].status \notin Live /\ RowHolds(r)
    BY DEF AtVersion, TurnInv, OutcomesHold
  <2>2. operations[r].status # "NONE"
    BY <2>1 DEF NoOperation, RowHolds
  <2>3. operations[r].status = "ABANDONED_BY_USER"
    BY <2>1, <2>2 DEF OperationRow, Live
  <2> QED BY <2>1, <2>3 DEF RowHolds
<1>8. Cardinality(calling \cap AtVersion(v)) <= 1
  <2>1. calling \cap AtVersion(v) \subseteq {s} /\ IsFiniteSet({s}) /\ Cardinality({s}) = 1
    BY <1>5, <1>6, FS_Singleton
  <2> QED BY <2>1, FS_Subset
<1>9. Cardinality(billed) <= 1 + Len(list)
  <2> HIDE DEF given, list, billed
  <2>1. /\ IsFiniteSet(given \cup {s}) /\ Cardinality(given) \in Nat
        /\ Cardinality(given \cup {s}) <= Cardinality(given) + 1
    <3>1. Cardinality(given) \in Nat
      BY <1>3, FS_CardinalityType
    <3>2. /\ IsFiniteSet(given \cup {s})
          /\ Cardinality(given \cup {s}) = IF s \in given THEN Cardinality(given)
                                                        ELSE Cardinality(given) + 1
      BY <1>3, FS_AddElement
    <3> QED BY <3>1, <3>2
  <2>2. /\ IsFiniteSet(billed) /\ Cardinality(billed) <= Cardinality(given \cup {s})
    BY <1>7, <2>1, FS_Subset
  <2>3. Cardinality(billed) \in Nat /\ Cardinality(given \cup {s}) \in Nat
    BY <2>1, <2>2, FS_CardinalityType
  <2> QED BY <1>1, <1>3, <2>1, <2>2, <2>3
<1> QED BY <1>8, <1>9

\* A set whose members are all equal has one at most.
LEMMA AtMostOne ==
    ASSUME NEW S, \A x, y \in S : x = y
    PROVE  Cardinality(S) <= 1
<1>1. \E x : S \subseteq {x}
  OBVIOUS
<1>2. PICK x : S \subseteq {x}
  BY <1>1
<1>3. IsFiniteSet({x}) /\ Cardinality({x}) = 1
  BY FS_Singleton
<1> QED BY <1>2, <1>3, FS_Subset

LEMMA TurnsFromInv == TurnInv => TurnsAccounted
<1> SUFFICES ASSUME TurnInv PROVE TurnsAccounted
  OBVIOUS
<1>1. OneAnswerPerRequest
  BY AtMostOne DEF OneAnswerPerRequest, TurnInv, RepliesHold
<1>2. ProposalsAccounted
  BY AtMostOne DEF TurnInv, ProposalsHold, ProposalsAccounted
<1> QED BY <1>1, <1>2, NoRebillingFromInv DEF TurnsAccounted, TurnInv, OutcomesHold

\* Type: of the turns, the decisions about them and the handler in progress.
THEOREM TurnTypes == TurnSpec => []TurnTypeOK
<1>1. TurnInit => TurnInv
  BY TurnInit_Inv
<1>2. TurnInv /\ [TurnNext]_turnVars => TurnInv'
  BY TurnNext_Keeps, TurnStutter_Keeps DEF TurnStep
<1>3. TurnInv => TurnTypeOK
  BY DEF TurnInv
<1> QED BY <1>1, <1>2, <1>3, PTL DEF TurnSpec

\* No version is billed twice behind the user's back, a request id has one answer,
\* and the retry of a turn that was given up is the one the user declared.
THEOREM TurnsAreAccounted == TurnSpec => []TurnsAccounted
<1>1. TurnInit => TurnInv
  BY TurnInit_Inv
<1>2. TurnInv /\ [TurnNext]_turnVars => TurnInv'
  BY TurnNext_Keeps, TurnStutter_Keeps DEF TurnStep
<1>3. TurnInv => TurnsAccounted
  BY TurnsFromInv
<1> QED BY <1>1, <1>2, <1>3, PTL DEF TurnSpec

-----------------------------------------------------------------------------
(* The stages.                                                             *)

PackRow ==
    [frozen : BOOLEAN, metadata : Metadata, build : BuildIds \cup {NoBuild},
     claims : [Claims -> ClaimStatuses]]
ScenarioRow == [config : Configs, frozen : BOOLEAN]
DraftRow ==
    [metadata : Metadata \cup {Nothing}, method : Methods \cup {Nothing},
     intervention : Interventions \cup {Nothing}, build : BuildIds \cup {Nothing},
     pack : PackIds \cup {Nothing}, scenario : ScenarioIds \cup {Nothing}]
GuideRow == [stage : Stages, prepared : BOOLEAN, applied : BOOLEAN, draft : DraftRow]

PackTypes ==
    /\ packs \in [PackIds -> PackRow \cup {NoPack}]
    /\ scenarios \in [ScenarioIds -> ScenarioRow \cup {NoScenario}]
    /\ extracting \subseteq PackIds

GuideTypes == PackTypes /\ builds \in [BuildIds -> BuildStates] /\ guide \in GuideRow

\* Nobody freezes a pack with an undecided claim, and the required one was accepted.
FrozenPacksAreReviewed ==
    \A p \in PackIds : Frozen(p) =>
        /\ InStatus(p, "AI_PROPOSED") = {}
        /\ packs[p].claims[RequiredClaim] = "HUMAN_APPROVED"

\* The intervention a scenario is compared with was applied before it.
InterventionStands ==
    (Past("SCENARIO_INTERVENTION") /\ ~guide.prepared) => draft.intervention # Nothing

PackInv == PackTypes /\ FrozenPacksAreReviewed /\ FrozenScenariosAreRunnable

GuideInv ==
    /\ GuideTypes /\ FrozenPacksAreReviewed /\ FrozenScenariosAreRunnable
    /\ PackStandsBehindStage /\ ProvenanceStands /\ ScenarioStandsBehindStage
    /\ InterventionStands

LEMMA PlaceFacts ==
    /\ Place("EVENT_GOAL") = 1 /\ Place("SOURCE_METHOD") = 2 /\ Place("SOURCE_REVIEW") = 3
    /\ Place("CLAIM_REVIEW") = 4 /\ Place("PACK_METADATA_REVIEW") = 5
    /\ Place("PACK_FREEZE_REVIEW") = 6 /\ Place("SCENARIO_INTERVENTION") = 7
    /\ Place("SCENARIO_REVIEW") = 8 /\ Place("PREFLIGHT") = 9
    /\ Place("READY_TO_SUBMIT") = 10 /\ Place("COMPLETED") = 11
    /\ DOMAIN StageOrder = 1 .. 11
    /\ \A i \in 1 .. 11 : StageOrder[i] \in Stages /\ Place(StageOrder[i]) = i
    /\ \A stage \in Stages : \E i \in 1 .. 11 : stage = StageOrder[i]
<1>1. DOMAIN StageOrder = 1 .. 11
  BY DEF StageOrder
<1>2. \A i, j \in 1 .. 11 : StageOrder[i] = StageOrder[j] => i = j
  BY DEF StageOrder
<1>3. \A i \in 1 .. 11 : StageOrder[i] \in Stages /\ Place(StageOrder[i]) = i
  BY <1>1, <1>2 DEF Stages, Place
<1>4. \A stage \in Stages : \E i \in 1 .. 11 : stage = StageOrder[i]
  BY <1>1 DEF Stages
<1>5. /\ StageOrder[1] = "EVENT_GOAL" /\ StageOrder[2] = "SOURCE_METHOD"
      /\ StageOrder[3] = "SOURCE_REVIEW" /\ StageOrder[4] = "CLAIM_REVIEW"
      /\ StageOrder[5] = "PACK_METADATA_REVIEW" /\ StageOrder[6] = "PACK_FREEZE_REVIEW"
      /\ StageOrder[7] = "SCENARIO_INTERVENTION" /\ StageOrder[8] = "SCENARIO_REVIEW"
      /\ StageOrder[9] = "PREFLIGHT" /\ StageOrder[10] = "READY_TO_SUBMIT"
      /\ StageOrder[11] = "COMPLETED"
  BY DEF StageOrder
<1> HIDE DEF StageOrder
<1>6. /\ 1 \in 1 .. 11 /\ 2 \in 1 .. 11 /\ 3 \in 1 .. 11 /\ 4 \in 1 .. 11 /\ 5 \in 1 .. 11
      /\ 6 \in 1 .. 11 /\ 7 \in 1 .. 11 /\ 8 \in 1 .. 11 /\ 9 \in 1 .. 11 /\ 10 \in 1 .. 11
      /\ 11 \in 1 .. 11
  OBVIOUS
<1>7. /\ Place(StageOrder[1]) = 1 /\ Place(StageOrder[2]) = 2 /\ Place(StageOrder[3]) = 3
      /\ Place(StageOrder[4]) = 4 /\ Place(StageOrder[5]) = 5 /\ Place(StageOrder[6]) = 6
      /\ Place(StageOrder[7]) = 7 /\ Place(StageOrder[8]) = 8 /\ Place(StageOrder[9]) = 9
      /\ Place(StageOrder[10]) = 10 /\ Place(StageOrder[11]) = 11
  BY <1>3, <1>6
<1> QED BY <1>1, <1>3, <1>4, <1>5, <1>7

\* A stage that is past is one of the lower places.
LEMMA PastFacts ==
    ASSUME GuideInv
    PROVE  /\ Place(guide.stage) \in 1 .. 11
           /\ guide.stage # "COMPLETED" => Place(guide.stage) \in 1 .. 10
           /\ Past("SOURCE_REVIEW") <=> Place(guide.stage) > 3
           /\ Past("PACK_FREEZE_REVIEW") <=> Place(guide.stage) > 6
           /\ Past("SCENARIO_INTERVENTION") <=> Place(guide.stage) > 7
           /\ Past("SCENARIO_REVIEW") <=> Place(guide.stage) > 8
BY PlaceFacts DEF GuideInv, GuideTypes, GuideRow, StageOrder, Past

-----------------------------------------------------------------------------
(* The packs and scenarios, whoever changes them.                          *)

\* A pack never goes away, nor forgets the build it was made from.
OriginsAreKept ==
    \A p \in PackIds : Exists(p) => Exists(p)' /\ packs'[p].build = packs[p].build

PackStep == PackInv' /\ FrozenIsImmutable /\ OriginsAreKept

LEMMA PackFacts ==
    /\ NoPack \notin PackRow /\ NoScenario \notin ScenarioRow
    /\ RequiredClaim \in Claims
    /\ \A row \in PackRow : /\ row.frozen \in BOOLEAN /\ row.claims \in [Claims -> ClaimStatuses]
                            /\ row.build \in BuildIds \cup {NoBuild}
    /\ \A row \in ScenarioRow : row.frozen \in BOOLEAN /\ row.config \in Configs
    /\ \A config \in Configs : config.pack \in PackIds /\ config.intervention \in Interventions
BY PacksAssumption, LibraryAssumption DEF PackRow, ScenarioRow, Configs

\* A draft of a pack is written: the claims, or the decision to freeze it.
LEMMA DraftWritten ==
    ASSUME PackInv, NEW p \in PackIds, ~Frozen(p), NEW row \in PackRow,
           packs' = [packs EXCEPT ![p] = row], UNCHANGED scenarios, extracting' \subseteq PackIds,
           Exists(p) => row.build = packs[p].build,
           row.frozen => /\ \A c \in Claims : row.claims[c] # "AI_PROPOSED"
                         /\ row.claims[RequiredClaim] = "HUMAN_APPROVED"
    PROVE  PackStep
<1> USE PackFacts
<1>1. /\ packs' \in [PackIds -> PackRow \cup {NoPack}] /\ packs'[p] = row
      /\ \A q \in PackIds : q # p => packs'[q] = packs[q]
  BY DEF PackInv, PackTypes
<1>2. PackTypes'
  BY <1>1 DEF PackInv, PackTypes
<1>3. FrozenPacksAreReviewed'
  BY <1>1 DEF FrozenPacksAreReviewed, Frozen, InStatus, PackInv, Exists
<1>4. \A q \in PackIds : Frozen(q) => q # p /\ packs'[q] = packs[q]
  BY <1>1
<1>5. FrozenScenariosAreRunnable'
  <2> SUFFICES ASSUME NEW s \in ScenarioIds, scenarios[s] # NoScenario, scenarios[s].frozen
               PROVE  LET q == scenarios[s].config.pack IN
                      Frozen(q)' /\ InStatus(q, "AI_PROPOSED")' = {}
    BY DEF FrozenScenariosAreRunnable
  <2>1. PICK q \in PackIds : /\ q = scenarios[s].config.pack
                             /\ Frozen(q) /\ InStatus(q, "AI_PROPOSED") = {}
    BY DEF PackInv, PackTypes, FrozenScenariosAreRunnable
  <2>2. Frozen(q)' /\ InStatus(q, "AI_PROPOSED")' = {}
    BY <1>4, <2>1 DEF Frozen, Exists, InStatus
  <2>3. scenarios'[s].config.pack = q
    BY <2>1
  <2> QED BY <2>1, <2>2, <2>3
<1>6. FrozenIsImmutable
  BY <1>4 DEF FrozenIsImmutable
<1>7. OriginsAreKept
  BY <1>1 DEF OriginsAreKept, Exists
<1> QED BY <1>2, <1>3, <1>5, <1>6, <1>7 DEF PackStep, PackInv

\* A scenario is written that is not frozen yet; it is frozen when it validates.
LEMMA ScenarioWritten ==
    ASSUME PackInv, NEW s \in ScenarioIds, ~(scenarios[s] # NoScenario /\ scenarios[s].frozen),
           NEW row \in ScenarioRow \cup {NoScenario},
           scenarios' = [scenarios EXCEPT ![s] = row], UNCHANGED <<packs, extracting>>,
           row # NoScenario /\ row.frozen => Valid(row.config)
    PROVE  PackStep
<1> USE PackFacts
<1>1. /\ scenarios' \in [ScenarioIds -> ScenarioRow \cup {NoScenario}] /\ scenarios'[s] = row
      /\ \A t \in ScenarioIds : t # s => scenarios'[t] = scenarios[t]
  BY DEF PackInv, PackTypes
<1>2. PackTypes'
  BY <1>1 DEF PackInv, PackTypes
<1>3. FrozenPacksAreReviewed'
  BY DEF PackInv, FrozenPacksAreReviewed, Frozen, Exists, InStatus
<1>4. FrozenScenariosAreRunnable'
  <2> SUFFICES ASSUME NEW t \in ScenarioIds, scenarios'[t] # NoScenario, scenarios'[t].frozen
               PROVE  LET q == scenarios'[t].config.pack IN
                      Frozen(q) /\ InStatus(q, "AI_PROPOSED") = {}
    BY DEF FrozenScenariosAreRunnable, Frozen, Exists, InStatus
  <2>1. CASE t = s
    BY <1>1, <2>1 DEF Valid
  <2>2. CASE t # s
    BY <1>1, <2>2 DEF PackInv, FrozenScenariosAreRunnable
  <2> QED BY <2>1, <2>2
<1>5. FrozenIsImmutable
  BY <1>1 DEF FrozenIsImmutable
<1> QED BY <1>2, <1>3, <1>4, <1>5 DEF PackStep, PackInv, OriginsAreKept, Exists

\* Only who extracts claims changes.
LEMMA ExtractorsChange ==
    ASSUME PackInv, UNCHANGED <<packs, scenarios>>, extracting' \subseteq PackIds
    PROVE  PackStep
BY DEF PackStep, PackInv, PackTypes, FrozenPacksAreReviewed, FrozenScenariosAreRunnable, Frozen,
       Exists, InStatus, FrozenIsImmutable, OriginsAreKept

\* The row of a draft with other claims, and the one that is frozen.
LEMMA DraftRows ==
    ASSUME NEW row \in PackRow, NEW claims \in [Claims -> ClaimStatuses]
    PROVE  /\ [row EXCEPT !.claims = claims] \in PackRow
           /\ [row EXCEPT !.claims = claims].frozen = row.frozen
           /\ [row EXCEPT !.claims = claims].claims = claims
           /\ [row EXCEPT !.claims = claims].build = row.build
           /\ [row EXCEPT !.frozen = TRUE] \in PackRow
           /\ [row EXCEPT !.frozen = TRUE].claims = row.claims
           /\ [row EXCEPT !.frozen = TRUE].build = row.build
BY DEF PackRow

LEMMA ProposedClaims ==
    ASSUME NEW found \in Findings
    PROVE  Proposed(found) \in [Claims -> ClaimStatuses]
BY DEF Proposed, ClaimStatuses, Decided, Findings

\* The claims of a draft are replaced.
LEMMA ClaimsWritten ==
    ASSUME PackInv, NEW p \in PackIds, Draft(p), NEW claims \in [Claims -> ClaimStatuses],
           packs' = [packs EXCEPT ![p] = [packs[p] EXCEPT !.claims = claims]],
           UNCHANGED scenarios, extracting' \subseteq PackIds
    PROVE  PackStep
<1> DEFINE row == [packs[p] EXCEPT !.claims = claims]
<1>1. packs[p] \in PackRow /\ packs[p].frozen = FALSE
  BY PackFacts DEF PackInv, PackTypes, Draft, Exists
<1>2. row \in PackRow /\ row.frozen = FALSE /\ row.build = packs[p].build
  BY <1>1, DraftRows
<1>3. ~Frozen(p)
  BY DEF Draft, Frozen
<1> HIDE DEF row
<1>4. packs' = [packs EXCEPT ![p] = row]
  BY DEF row
<1> QED BY <1>2, <1>3, <1>4, DraftWritten

LEMMA CreateEventPackKeeps ==
    ASSUME PackInv, NEW p \in PackIds, NEW m \in Metadata, NEW b \in BuildIds \cup {NoBuild},
           NEW found \in Findings, CreateEventPack(p, m, b, found)
    PROVE  PackStep
<1> DEFINE row == [frozen |-> FALSE, metadata |-> m, build |-> b, claims |-> Proposed(found)]
<1>1. row \in PackRow /\ row.frozen = FALSE
  BY ProposedClaims DEF PackRow
<1>2. /\ ~Frozen(p) /\ ~Exists(p) /\ packs' = [packs EXCEPT ![p] = row]
      /\ UNCHANGED <<scenarios, extracting>>
  BY DEF CreateEventPack, Frozen
<1>3. extracting' \subseteq PackIds
  BY <1>2 DEF PackInv, PackTypes
<1> HIDE DEF row
<1> QED BY <1>1, <1>2, <1>3, DraftWritten

LEMMA SaveExtractedClaimsKeeps ==
    ASSUME PackInv, NEW p \in PackIds, NEW found \in Findings, SaveExtractedClaims(p, found)
    PROVE  PackStep
BY ProposedClaims, ClaimsWritten, ExtractorsChange DEF SaveExtractedClaims, PackInv, PackTypes

LEMMA DraftClaims ==
    ASSUME PackInv, NEW p \in PackIds, Draft(p)
    PROVE  packs[p] \in PackRow /\ packs[p].claims \in [Claims -> ClaimStatuses]
BY PackFacts DEF PackInv, PackTypes, Draft, Exists

LEMMA ReviewClaimKeeps ==
    ASSUME PackInv, NEW p \in PackIds, NEW c \in Claims,
           NEW status \in Decided \cup {"AI_PROPOSED"}, ReviewClaim(p, c, status)
    PROVE  PackStep
<1> DEFINE claims == [packs[p].claims EXCEPT ![c] = status]
<1>1. /\ Draft(p) /\ UNCHANGED <<scenarios, extracting>>
      /\ packs' = [packs EXCEPT ![p].claims[c] = status]
  BY DEF ReviewClaim
<1>2. claims \in [Claims -> ClaimStatuses]
  BY <1>1, DraftClaims DEF ClaimStatuses
<1>3. packs' = [packs EXCEPT ![p] = [packs[p] EXCEPT !.claims = claims]]
  BY <1>1
<1>4. extracting' \subseteq PackIds
  BY <1>1 DEF PackInv, PackTypes
<1> HIDE DEF claims
<1> QED BY <1>1, <1>2, <1>3, <1>4, ClaimsWritten

LEMMA ApproveAllKeeps ==
    ASSUME PackInv, NEW p \in PackIds, NEW eligible \in SUBSET Claims,
           ApproveAllProposedClaims(p, eligible)
    PROVE  PackStep
<1> DEFINE claims == [c \in Claims |-> IF c \in eligible THEN "HUMAN_APPROVED" ELSE packs[p].claims[c]]
<1>1. /\ Draft(p) /\ UNCHANGED <<scenarios, extracting>>
      /\ packs' = [packs EXCEPT ![p].claims =
                      [c \in Claims |-> IF c \in eligible THEN "HUMAN_APPROVED" ELSE @[c]]]
  BY DEF ApproveAllProposedClaims
<1>2. claims \in [Claims -> ClaimStatuses]
  BY <1>1, DraftClaims DEF ClaimStatuses, Decided
<1>3. packs' = [packs EXCEPT ![p] = [packs[p] EXCEPT !.claims = claims]]
  BY <1>1
<1>4. extracting' \subseteq PackIds
  BY <1>1 DEF PackInv, PackTypes
<1> HIDE DEF claims
<1> QED BY <1>1, <1>2, <1>3, <1>4, ClaimsWritten

LEMMA FreezeEventPackKeeps ==
    ASSUME PackInv, NEW p \in PackIds, FreezeEventPack(p)
    PROVE  PackStep
<1> DEFINE row == [packs[p] EXCEPT !.frozen = TRUE]
<1>1. /\ Draft(p) /\ UNCHANGED <<scenarios, extracting>> /\ packs' = [packs EXCEPT ![p] = row]
      /\ InStatus(p, "AI_PROPOSED") = {} /\ packs[p].claims[RequiredClaim] = "HUMAN_APPROVED"
  BY DEF FreezeEventPack
<1>2. row \in PackRow /\ row.claims = packs[p].claims /\ row.build = packs[p].build
  BY <1>1, DraftClaims, DraftRows
<1>3. /\ \A c \in Claims : packs[p].claims[c] # "AI_PROPOSED"
      /\ ~Frozen(p) /\ extracting' \subseteq PackIds
  BY <1>1 DEF InStatus, Draft, Frozen, PackInv, PackTypes
<1> HIDE DEF row
<1> QED BY <1>1, <1>2, <1>3, DraftWritten

LEMMA ScenarioStepKeeps ==
    ASSUME PackInv, NEW s \in ScenarioIds, NEW config \in Configs, NEW frozen \in BOOLEAN,
           NEW clone \in ScenarioIds,
           \/ CreateScenario(s, config, frozen) \/ UpdateScenario(s, config)
           \/ CloneScenario(s, clone) \/ FreezeScenario(s) \/ DeleteScenario(s)
    PROVE  PackStep
<1> USE PackFacts
<1>1. \A t \in ScenarioIds : scenarios[t] # NoScenario => scenarios[t] \in ScenarioRow
  BY DEF PackInv, PackTypes
<1>2. ASSUME NEW t \in ScenarioIds, NEW made \in Configs, NEW mark \in BOOLEAN,
             SaveScenario(t, made, mark), mark => Valid(made),
             ~(scenarios[t] # NoScenario /\ scenarios[t].frozen)
      PROVE  PackStep
  BY <1>2, ScenarioWritten DEF ScenarioRow, SaveScenario
<1>3. CASE CreateScenario(s, config, frozen)
  BY <1>2, <1>3 DEF CreateScenario
<1>4. CASE UpdateScenario(s, config)
  BY <1>2, <1>4 DEF UpdateScenario
<1>5. CASE CloneScenario(s, clone)
  BY <1>1, <1>2, <1>5 DEF CloneScenario
<1>6. CASE FreezeScenario(s)
  BY <1>1, <1>2, <1>6 DEF FreezeScenario
<1>7. CASE DeleteScenario(s)
  BY <1>7, ScenarioWritten DEF DeleteScenario
<1> QED BY <1>3, <1>4, <1>5, <1>6, <1>7

LEMMA PacksNext_Keeps ==
    ASSUME PackInv, PacksNext
    PROVE  PackStep
<1>1. ASSUME NEW p \in PackIds, BeginExtraction(p) \/ ExtractionFails(p)
      PROVE  PackStep
  BY <1>1, ExtractorsChange DEF BeginExtraction, ExtractionFails, PackInv, PackTypes
<1>2. ASSUME NEW p \in PackIds, NEW found \in Findings, SaveExtractedClaims(p, found)
      PROVE  PackStep
  BY <1>2, SaveExtractedClaimsKeeps
<1>3. ASSUME NEW p \in PackIds, NEW c \in Claims, NEW status \in Decided \cup {"AI_PROPOSED"},
             ReviewClaim(p, c, status)
      PROVE  PackStep
  BY <1>3, ReviewClaimKeeps
<1>4. ASSUME NEW p \in PackIds, NEW e \in SUBSET Claims, ApproveAllProposedClaims(p, e)
      PROVE  PackStep
  BY <1>4, ApproveAllKeeps
<1>5. ASSUME NEW p \in PackIds, FreezeEventPack(p)
      PROVE  PackStep
  BY <1>5, FreezeEventPackKeeps
<1>6. ASSUME NEW s \in ScenarioIds, NEW config \in Configs, NEW frozen \in BOOLEAN,
             CreateScenario(s, config, frozen) \/ UpdateScenario(s, config)
      PROVE  PackStep
  BY <1>6, ScenarioStepKeeps
<1>7. ASSUME NEW s \in ScenarioIds, NEW clone \in ScenarioIds,
             CloneScenario(s, clone) \/ FreezeScenario(s) \/ DeleteScenario(s)
      PROVE  PackStep
  <2>1. [pack |-> LibraryPack, intervention |-> LibraryIntervention] \in Configs
    BY LibraryAssumption DEF Configs
  <2> QED BY <1>7, <2>1, ScenarioStepKeeps
<1> QED BY <1>1, <1>2, <1>3, <1>4, <1>5, <1>6, <1>7 DEF PacksNext

-----------------------------------------------------------------------------
(* The workflow over them.                                                 *)

GuideStep == GuideInv' /\ FrozenIsImmutable /\ LinksAreKept

\* What the draft is linked to.
LEMMA DraftFacts ==
    ASSUME GuideInv
    PROVE  /\ PackInv
           /\ guide \in GuideRow /\ guide.stage \in Stages /\ guide.prepared \in BOOLEAN
           /\ draft.metadata \in Metadata \cup {Nothing} /\ draft.method \in Methods \cup {Nothing}
           /\ draft.intervention \in Interventions \cup {Nothing}
           /\ draft.build \in BuildIds \cup {Nothing} /\ draft.pack \in PackIds \cup {Nothing}
           /\ draft.scenario \in ScenarioIds \cup {Nothing}
           /\ Nothing \notin BuildIds \cup PackIds \cup ScenarioIds \cup Metadata \cup Interventions
BY LibraryAssumption DEF GuideInv, GuideTypes, GuideRow, DraftRow, PackInv, draft

\* The packs, the scenarios and the builds move beside a workflow that stands still.
LEMMA WorldMoves ==
    ASSUME GuideInv, PackStep, builds' \in [BuildIds -> BuildStates], UNCHANGED guide
    PROVE  GuideStep
<1> USE DraftFacts
<1>1. /\ draft' = draft
      /\ \A stage : Past(stage)' <=> Past(stage)
  BY DEF draft, Past
<1>2. GuideTypes' /\ FrozenPacksAreReviewed' /\ FrozenScenariosAreRunnable' /\ FrozenIsImmutable
  BY DEF PackStep, PackInv, GuideInv, GuideTypes
<1>3. \A p \in PackIds : Frozen(p) =>
          /\ Frozen(p)' /\ (ClaimsReviewed(p) => ClaimsReviewed(p)')
          /\ packs'[p] = packs[p]
  BY <1>2 DEF FrozenIsImmutable, Frozen, Exists, ClaimsReviewed, ClaimsOf, InStatus
<1>4. PackStandsBehindStage'
  <2> SUFFICES ASSUME Past("PACK_FREEZE_REVIEW"), ~guide.prepared
               PROVE  /\ draft.pack # Nothing /\ Frozen(draft.pack)' /\ ClaimsReviewed(draft.pack)'
                      /\ MetadataMatches'
    BY <1>1 DEF PackStandsBehindStage
  <2>1. PICK p \in PackIds : /\ p = draft.pack /\ Frozen(p) /\ ClaimsReviewed(p)
                             /\ MetadataMatches
    BY DEF GuideInv, PackStandsBehindStage
  <2>2. Frozen(p)' /\ ClaimsReviewed(p)' /\ packs'[p] = packs[p]
    BY <1>3, <2>1
  <2>3. MetadataMatches'
    BY <1>1, <2>1, <2>2 DEF MetadataMatches
  <2> QED BY <1>1, <2>1, <2>2, <2>3
<1>5. ProvenanceStands'
  <2> SUFFICES ASSUME Past("SOURCE_REVIEW"), ~guide.prepared, draft.method # "MANUAL"
               PROVE  /\ draft.build # Nothing /\ draft.pack # Nothing
                      /\ MaterializedFrom(draft.pack, draft.build)'
    BY <1>1 DEF ProvenanceStands
  <2>1. PICK p \in PackIds : /\ p = draft.pack /\ draft.build # Nothing
                             /\ Exists(p) /\ packs[p].build = draft.build
    BY DEF GuideInv, ProvenanceStands, MaterializedFrom
  <2>2. Exists(p)' /\ packs'[p].build = packs[p].build
    BY <2>1 DEF PackStep, OriginsAreKept
  <2>3. MaterializedFrom(draft.pack, draft.build)'
    BY <1>1, <2>1, <2>2 DEF MaterializedFrom, Exists
  <2> QED BY <2>1, <2>3
<1>6. ScenarioStandsBehindStage'
  <2> SUFFICES ASSUME Past("SCENARIO_REVIEW"), ~guide.prepared
               PROVE  /\ draft.scenario # Nothing /\ FrozenScenario'
                      /\ scenarios'[draft.scenario].config =
                             [pack |-> draft.pack, intervention |-> draft.intervention]
    BY <1>1 DEF ScenarioStandsBehindStage
  <2>1. PICK s \in ScenarioIds :
            /\ s = draft.scenario /\ scenarios[s] # NoScenario /\ scenarios[s].frozen
            /\ scenarios[s].config = [pack |-> draft.pack, intervention |-> draft.intervention]
    BY DEF GuideInv, ScenarioStandsBehindStage, FrozenScenario
  <2>2. scenarios'[s] = scenarios[s]
    BY <1>2, <2>1 DEF FrozenIsImmutable
  <2> QED BY <1>1, <2>1, <2>2 DEF FrozenScenario
<1>7. InterventionStands'
  BY <1>1 DEF GuideInv, InterventionStands
<1>8. LinksAreKept
  BY DEF LinksAreKept, draft
<1> QED BY <1>2, <1>4, <1>5, <1>6, <1>7, <1>8 DEF GuideStep, GuideInv

LEMMA WorldSteps ==
    ASSUME GuideInv,
           \/ PacksNext /\ UNCHANGED <<builds, guide>>
           \/ \E b \in BuildIds : BuildStep(b)
           \/ \E p \in PackIds, m \in Metadata, found \in Findings :
                 \/ \E b \in BuildIds : Materialize(b, p, m, found)
                 \/ CreateByHand(p, m, found)
    PROVE  GuideStep
<1> USE DraftFacts
<1>1. builds \in [BuildIds -> BuildStates]
  BY DEF GuideInv, GuideTypes
<1>2. CASE PacksNext /\ UNCHANGED <<builds, guide>>
  BY <1>1, <1>2, PacksNext_Keeps, WorldMoves
<1>3. ASSUME NEW b \in BuildIds, BuildStep(b)
      PROVE  GuideStep
  <2>1. PICK to \in BuildStates : builds' = [builds EXCEPT ![b] = to] /\ UNCHANGED <<packVars, guide>>
    BY <1>3 DEF BuildStep, BuildMoves, BuildStates
  <2>2. builds' \in [BuildIds -> BuildStates]
    BY <1>1, <2>1
  <2>3. UNCHANGED <<packs, scenarios, extracting, guide>>
    BY <2>1 DEF packVars
  <2>4. PackStep
    BY <2>3, ExtractorsChange DEF PackInv, PackTypes
  <2> QED BY <2>2, <2>3, <2>4, WorldMoves
<1>4. ASSUME NEW p \in PackIds, NEW m \in Metadata, NEW found \in Findings, NEW b \in BuildIds,
             Materialize(b, p, m, found)
      PROVE  GuideStep
  BY <1>4, CreateEventPackKeeps, <1>1, WorldMoves DEF Materialize
<1>5. ASSUME NEW p \in PackIds, NEW m \in Metadata, NEW found \in Findings, CreateByHand(p, m, found)
      PROVE  GuideStep
  BY <1>5, CreateEventPackKeeps, <1>1, WorldMoves DEF CreateByHand
<1> QED BY <1>2, <1>3, <1>4, <1>5

\* The workflow changes over packs, scenarios and builds that stand still.
LEMMA WorkflowMoves ==
    ASSUME GuideInv, NEW new \in GuideRow, Changes(new), LinksAreKept,
           PackStandsBehindStage', ProvenanceStands', ScenarioStandsBehindStage', InterventionStands'
    PROVE  GuideStep
<1>1. guide' = new /\ UNCHANGED <<packs, scenarios, extracting, builds>>
  BY DEF Changes, packVars
<1>2. GuideTypes'
  BY <1>1 DEF GuideInv, GuideTypes, PackTypes
<1>3. FrozenPacksAreReviewed' /\ FrozenScenariosAreRunnable' /\ FrozenIsImmutable
  BY <1>1 DEF GuideInv, FrozenPacksAreReviewed, FrozenScenariosAreRunnable, Frozen, Exists,
              InStatus, FrozenIsImmutable
<1> QED BY <1>2, <1>3 DEF GuideStep, GuideInv

WithDraft(new, applied) == [guide EXCEPT !.draft = new, !.applied = applied]

\* What the conditions of the stages read of packs and scenarios.
LEMMA ArtifactsStand ==
    ASSUME UNCHANGED <<packs, scenarios>>
    PROVE  /\ \A p : /\ Frozen(p)' <=> Frozen(p)
                     /\ ClaimsReviewed(p)' <=> ClaimsReviewed(p)
           /\ \A p, b : MaterializedFrom(p, b)' <=> MaterializedFrom(p, b)
BY DEF Frozen, Exists, ClaimsReviewed, ClaimsOf, InStatus, MaterializedFrom

\* A part of the draft changes, before the review that depends on it.
LEMMA DraftChanges ==
    ASSUME GuideInv, NEW applied \in BOOLEAN, NEW new \in DraftRow,
           Place(guide.stage) > 3 => /\ new.method = draft.method
                                     /\ new.build = draft.build /\ new.pack = draft.pack,
           Place(guide.stage) > 6 => new.metadata = draft.metadata,
           Place(guide.stage) > 7 => new.intervention = draft.intervention,
           Place(guide.stage) > 8 => new.scenario = draft.scenario,
           Changes(WithDraft(new, applied)), LinksAreKept
    PROVE  GuideStep
<1> USE DraftFacts, PastFacts
<1> DEFINE after == WithDraft(new, applied)
<1>1. after \in GuideRow /\ after.stage = guide.stage /\ after.prepared = guide.prepared /\ after.draft = new
  BY DEF GuideRow, WithDraft
<1> HIDE DEF after
<1>2. guide' = after /\ UNCHANGED <<packs, scenarios>>
  BY DEF Changes, packVars, after
<1>3. /\ draft' = new /\ guide'.prepared = guide.prepared
      /\ \A stage : Past(stage)' <=> Past(stage)
  BY <1>1, <1>2 DEF draft, Past
<1>4. Place(guide.stage) \in Int
  OBVIOUS
<1>5. PackStandsBehindStage'
  <2> SUFFICES ASSUME Past("PACK_FREEZE_REVIEW"), ~guide.prepared
               PROVE  /\ new.pack # Nothing /\ Frozen(new.pack)' /\ ClaimsReviewed(new.pack)'
                      /\ MetadataMatches'
    BY <1>3 DEF PackStandsBehindStage
  <2>1. /\ draft.pack # Nothing /\ Frozen(draft.pack) /\ ClaimsReviewed(draft.pack)
        /\ MetadataMatches /\ new.metadata = draft.metadata /\ new.pack = draft.pack
    BY DEF GuideInv, PackStandsBehindStage
  <2>2. MetadataMatches'
    BY <1>2, <1>3, <2>1 DEF MetadataMatches
  <2> QED BY <1>2, <2>1, <2>2, ArtifactsStand
<1>6. ProvenanceStands'
  BY <1>3, <1>2, ArtifactsStand DEF ProvenanceStands, GuideInv
<1>7. ScenarioStandsBehindStage'
  <2> SUFFICES ASSUME Past("SCENARIO_REVIEW"), ~guide.prepared
               PROVE  /\ new.scenario # Nothing /\ FrozenScenario'
                      /\ scenarios'[new.scenario].config =
                             [pack |-> new.pack, intervention |-> new.intervention]
    BY <1>3 DEF ScenarioStandsBehindStage
  <2>1. /\ draft.scenario # Nothing /\ FrozenScenario
        /\ scenarios[draft.scenario].config =
               [pack |-> draft.pack, intervention |-> draft.intervention]
        /\ new.intervention = draft.intervention /\ new.pack = draft.pack
        /\ new.scenario = draft.scenario
    BY DEF GuideInv, ScenarioStandsBehindStage
  <2>2. FrozenScenario'
    BY <1>2, <1>3, <2>1 DEF FrozenScenario
  <2> QED BY <1>2, <2>1, <2>2
<1>8. InterventionStands'
  BY <1>3 DEF InterventionStands, GuideInv
<1>9. Changes(after)
  BY DEF after
<1> QED BY <1>1, <1>5, <1>6, <1>7, <1>8, <1>9, WorkflowMoves

\* A value of the draft that is no link.
LEMMA ValueApplied ==
    ASSUME GuideInv, NEW applied \in BOOLEAN, NEW new \in DraftRow,
           new.build = draft.build, new.pack = draft.pack, new.scenario = draft.scenario,
           Place(guide.stage) > 3 => new.method = draft.method,
           Place(guide.stage) > 6 => new.metadata = draft.metadata,
           Place(guide.stage) > 7 => new.intervention = draft.intervention,
           Changes(WithDraft(new, applied))
    PROVE  GuideStep
BY DraftFacts, DraftChanges DEF Changes, WithDraft, GuideRow, LinksAreKept

LEMMA ApplyKeeps ==
    ASSUME GuideInv,
           \/ \E m \in Metadata : ApplyValue("metadata", m)
           \/ \E m \in Methods : ApplyValue("method", m)
           \/ \E i \in Interventions : ApplyValue("intervention", i)
           \/ ApplyRemark
    PROVE  GuideStep
<1> USE DraftFacts
<1>1. draft \in DraftRow
  BY DEF GuideRow, DraftRow, draft
<1>2. guide = [guide EXCEPT !.draft = draft]
  BY DEF GuideRow, draft
<1>3. ASSUME NEW m \in Metadata, ApplyValue("metadata", m)
      PROVE  GuideStep
  <2> DEFINE new == [draft EXCEPT !.metadata = m]
  <2>1. /\ new \in DraftRow /\ new.build = draft.build /\ new.pack = draft.pack
        /\ new.scenario = draft.scenario /\ new.method = draft.method
        /\ new.intervention = draft.intervention
    BY <1>1 DEF DraftRow
  <2>2. Changes(WithDraft(new, guide.prepared))
    BY <1>3 DEF ApplyValue, draft, GuideRow, WithDraft
  <2>3. guide.stage \in {"EVENT_GOAL", "PACK_METADATA_REVIEW"}
    BY <1>3 DEF ApplyValue, Proposes
  <2>4. Place(guide.stage) <= 6 /\ Place(guide.stage) \in Int
    BY <2>3, PlaceFacts
  <2> HIDE DEF new
  <2> QED BY <2>1, <2>2, <2>4, ValueApplied
<1>4. ASSUME NEW m \in Methods, ApplyValue("method", m)
      PROVE  GuideStep
  <2> DEFINE new == [draft EXCEPT !.method = m]
  <2>1. /\ new \in DraftRow /\ new.build = draft.build /\ new.pack = draft.pack
        /\ new.scenario = draft.scenario /\ new.metadata = draft.metadata
        /\ new.intervention = draft.intervention
    BY <1>1 DEF DraftRow
  <2>2. Changes(WithDraft(new, guide.prepared))
    BY <1>4 DEF ApplyValue, draft, GuideRow, WithDraft
  <2>3. guide.stage \in {"SOURCE_METHOD"}
    BY <1>4 DEF ApplyValue, Proposes
  <2>4. Place(guide.stage) <= 3 /\ Place(guide.stage) \in Int
    BY <2>3, PlaceFacts
  <2> HIDE DEF new
  <2> QED BY <2>1, <2>2, <2>4, ValueApplied
<1>5. ASSUME NEW i \in Interventions, ApplyValue("intervention", i)
      PROVE  GuideStep
  <2> DEFINE new == [draft EXCEPT !.intervention = i]
  <2>1. /\ new \in DraftRow /\ new.build = draft.build /\ new.pack = draft.pack
        /\ new.scenario = draft.scenario /\ new.metadata = draft.metadata
        /\ new.method = draft.method
    BY <1>1 DEF DraftRow
  <2>2. Changes(WithDraft(new, guide.prepared))
    BY <1>5 DEF ApplyValue, draft, GuideRow, WithDraft
  <2>3. guide.stage \in {"SCENARIO_INTERVENTION"}
    BY <1>5 DEF ApplyValue, Proposes
  <2>4. Place(guide.stage) <= 7 /\ Place(guide.stage) \in Int
    BY <2>3, PlaceFacts
  <2> HIDE DEF new
  <2> QED BY <2>1, <2>2, <2>4, ValueApplied
<1>6. CASE ApplyRemark
  <2>1. Changes(WithDraft(draft, TRUE))
    BY <1>2, <1>6 DEF ApplyRemark, GuideRow, draft, WithDraft
  <2> QED BY <1>1, <2>1, ValueApplied
<1> QED BY <1>3, <1>4, <1>5, <1>6

LEMMA LinkKeeps ==
    ASSUME GuideInv, NEW b \in BuildIds \cup {Nothing}, NEW p \in PackIds \cup {Nothing},
           NEW s \in ScenarioIds \cup {Nothing}, Link(b, p, s)
    PROVE  GuideStep
<1> DEFINE build == IF b # Nothing THEN b ELSE draft.build
           pack == IF p # Nothing THEN p ELSE draft.pack
           scenario == IF s # Nothing THEN s ELSE draft.scenario
           new == [draft EXCEPT !.build = build, !.pack = pack, !.scenario = scenario]
<1>1. Changes([guide EXCEPT !.draft = new]) /\ NotReplaced(b, p, s) /\ LinkedAtStage(b, p, s)
  BY DEF Link
<1>2. /\ build \in BuildIds \cup {Nothing} /\ pack \in PackIds \cup {Nothing}
      /\ scenario \in ScenarioIds \cup {Nothing} /\ draft \in DraftRow
  BY DraftFacts DEF GuideRow, draft
<1>3. /\ b # Nothing \/ build = draft.build
      /\ p # Nothing \/ pack = draft.pack
      /\ s # Nothing \/ scenario = draft.scenario
      /\ b # Nothing => build = b
      /\ p # Nothing => pack = p
      /\ s # Nothing => scenario = s
  OBVIOUS
<1> HIDE DEF build, pack, scenario
<1>4. /\ new \in DraftRow /\ new.build = build /\ new.pack = pack /\ new.scenario = scenario
      /\ new.metadata = draft.metadata /\ new.method = draft.method
      /\ new.intervention = draft.intervention
  BY ONLY <1>2 DEF DraftRow
<1> HIDE DEF new
<1>5. Changes(WithDraft(new, guide.applied)) /\ guide.applied \in BOOLEAN
  BY <1>1, DraftFacts DEF WithDraft, GuideRow
<1>6. guide'.draft = new
  BY <1>1, DraftFacts DEF Changes, GuideRow
<1>7. LinksAreKept
  BY <1>1, <1>3, <1>4, <1>6 DEF LinksAreKept, NotReplaced
<1>8. /\ Place(guide.stage) \in Int
      /\ b # Nothing \/ p # Nothing => Place(guide.stage) <= 3
      /\ s # Nothing => Place(guide.stage) <= 8
  BY <1>1, PlaceFacts, PastFacts DEF LinkedAtStage
<1>9. /\ Place(guide.stage) > 3 => new.build = draft.build /\ new.pack = draft.pack
      /\ Place(guide.stage) > 8 => new.scenario = draft.scenario
  BY <1>3, <1>4, <1>8
<1> QED BY <1>4, <1>5, <1>7, <1>9, DraftChanges

\* What the review that is left at an advance has established.
LEMMA AdvanceChecks ==
    ASSUME GuideInv, Advance, ~guide.prepared
    PROVE  /\ Place(guide.stage) = 3 /\ draft.method # "MANUAL" =>
                 draft.build # Nothing /\ draft.pack # Nothing /\ MaterializedFrom(draft.pack, draft.build)
           /\ Place(guide.stage) = 6 =>
                 /\ draft.pack # Nothing /\ Frozen(draft.pack) /\ ClaimsReviewed(draft.pack)
                 /\ MetadataMatches
           /\ Place(guide.stage) = 7 => draft.intervention # Nothing
           /\ Place(guide.stage) = 8 =>
                 /\ draft.scenario # Nothing /\ FrozenScenario
                 /\ scenarios[draft.scenario].config =
                        [pack |-> draft.pack, intervention |-> draft.intervention]
<1> USE DraftFacts, PackFacts
<1>1. DraftComplete(guide.stage) /\ ArtifactsComplete(guide.stage)
  BY DEF Advance
<1>2. PICK i \in 1 .. 11 : guide.stage = StageOrder[i] /\ Place(guide.stage) = i
  BY PlaceFacts
<1>3. ASSUME i = 3, draft.method # "MANUAL"
      PROVE  draft.build # Nothing /\ draft.pack # Nothing /\ MaterializedFrom(draft.pack, draft.build)
  <2>1. guide.stage = "SOURCE_REVIEW"
    BY <1>2, <1>3 DEF StageOrder
  <2> QED BY <1>1, <1>3, <2>1 DEF ArtifactsComplete, PackComplete, SourcesReviewed
<1>4. ASSUME i = 6
      PROVE  /\ draft.pack # Nothing /\ Frozen(draft.pack) /\ ClaimsReviewed(draft.pack)
             /\ MetadataMatches
  <2>1. guide.stage = "PACK_FREEZE_REVIEW"
    BY <1>2, <1>4 DEF StageOrder
  <2>2. draft.pack # Nothing /\ Frozen(draft.pack) /\ MetadataMatches
    BY <1>1, <2>1 DEF ArtifactsComplete, PackComplete
  <2>3. draft.pack \in PackIds
    BY <2>2
  <2>4. /\ InStatus(draft.pack, "AI_PROPOSED") = {}
        /\ packs[draft.pack].claims[RequiredClaim] = "HUMAN_APPROVED"
    BY <2>2, <2>3 DEF GuideInv, FrozenPacksAreReviewed
  <2>5. /\ RequiredClaim \in ClaimsOf(draft.pack)
        /\ RequiredClaim \in InStatus(draft.pack, "HUMAN_APPROVED")
    BY <2>4 DEF ClaimsOf, InStatus
  <2> QED BY <2>2, <2>4, <2>5 DEF ClaimsReviewed
<1>5. ASSUME i = 7
      PROVE  draft.intervention # Nothing
  BY <1>2, <1>5, <1>1 DEF StageOrder, DraftComplete
<1>6. ASSUME i = 8
      PROVE  /\ draft.scenario # Nothing /\ FrozenScenario
             /\ scenarios[draft.scenario].config =
                    [pack |-> draft.pack, intervention |-> draft.intervention]
  <2>1. guide.stage = "SCENARIO_REVIEW"
    BY <1>2, <1>6 DEF StageOrder
  <2>2. draft.scenario # Nothing /\ FrozenScenario
    BY <1>1, <2>1 DEF DraftComplete, ArtifactsComplete, ScenarioComplete
  <2>3. draft.intervention # Nothing
    BY <1>2, <1>6, PastFacts DEF GuideInv, InterventionStands
  <2>4. /\ scenarios[draft.scenario].config.pack = draft.pack
        /\ scenarios[draft.scenario].config.intervention = draft.intervention
    BY <1>1, <2>2, <2>3 DEF ArtifactsComplete, ArtifactCoherence
  <2>5. PICK s \in ScenarioIds : s = draft.scenario /\ scenarios[s] \in ScenarioRow
    BY <2>2 DEF FrozenScenario, PackInv, PackTypes
  <2>6. scenarios[s].config \in Configs
    BY <2>5
  <2>7. scenarios[s].config = [pack |-> scenarios[s].config.pack,
                               intervention |-> scenarios[s].config.intervention]
    BY ONLY <2>6 DEF Configs
  <2> QED BY <2>2, <2>4, <2>5, <2>7
<1> QED BY <1>2, <1>3, <1>4, <1>5, <1>6

LEMMA AdvanceKeeps ==
    ASSUME GuideInv, Advance
    PROVE  GuideStep
<1> USE DraftFacts
<1> DEFINE here == Place(guide.stage)
           after == [guide EXCEPT !.stage = StageOrder[here + 1], !.applied = FALSE]
<1>1. Changes(after) /\ guide.stage # "COMPLETED"
  BY DEF Advance
<1>2. here \in 1 .. 10
  BY <1>1, PastFacts
<1>3. StageOrder[here + 1] \in Stages /\ Place(StageOrder[here + 1]) = here + 1
  BY <1>2, PlaceFacts
<1>4. /\ after \in GuideRow /\ after.stage = StageOrder[here + 1]
      /\ after.prepared = guide.prepared /\ after.draft = draft
  BY <1>3 DEF GuideRow, draft
<1> HIDE DEF after
<1>5. guide' = after /\ UNCHANGED <<packs, scenarios>>
  BY <1>1 DEF Changes, packVars
<1>6. draft' = draft /\ guide'.prepared = guide.prepared /\ guide'.stage = StageOrder[here + 1]
  BY <1>4, <1>5 DEF draft
<1>7. /\ Past("SOURCE_REVIEW")' <=> here >= 3
      /\ Past("PACK_FREEZE_REVIEW")' <=> here >= 6
      /\ Past("SCENARIO_INTERVENTION")' <=> here >= 7
      /\ Past("SCENARIO_REVIEW")' <=> here >= 8
  BY <1>2, <1>3, <1>6, PlaceFacts DEF Past
<1>8. LinksAreKept
  BY <1>4, <1>5 DEF LinksAreKept
<1>9. PackStandsBehindStage'
  <2> SUFFICES ASSUME here >= 6, ~guide.prepared
               PROVE  /\ draft.pack # Nothing /\ Frozen(draft.pack)' /\ ClaimsReviewed(draft.pack)'
                      /\ MetadataMatches'
    BY <1>6, <1>7 DEF PackStandsBehindStage
  <2>1. /\ draft.pack # Nothing /\ Frozen(draft.pack) /\ ClaimsReviewed(draft.pack)
        /\ MetadataMatches
    BY AdvanceChecks, <1>2, PastFacts DEF GuideInv, PackStandsBehindStage
  <2>2. MetadataMatches'
    BY <1>5, <1>6, <2>1 DEF MetadataMatches
  <2> QED BY <1>5, <1>6, <2>1, <2>2, ArtifactsStand
<1>10. ProvenanceStands'
  <2> SUFFICES ASSUME here >= 3, ~guide.prepared, draft.method # "MANUAL"
               PROVE  /\ draft.build # Nothing /\ draft.pack # Nothing
                      /\ MaterializedFrom(draft.pack, draft.build)'
    BY <1>6, <1>7 DEF ProvenanceStands
  <2>1. draft.build # Nothing /\ draft.pack # Nothing /\ MaterializedFrom(draft.pack, draft.build)
    BY AdvanceChecks, <1>2, PastFacts DEF GuideInv, ProvenanceStands
  <2> QED BY <1>5, <1>6, <2>1, ArtifactsStand
<1>11. ScenarioStandsBehindStage'
  <2> SUFFICES ASSUME here >= 8, ~guide.prepared
               PROVE  /\ draft.scenario # Nothing /\ FrozenScenario'
                      /\ scenarios'[draft.scenario].config =
                             [pack |-> draft.pack, intervention |-> draft.intervention]
    BY <1>6, <1>7 DEF ScenarioStandsBehindStage
  <2>1. /\ draft.scenario # Nothing /\ FrozenScenario
        /\ scenarios[draft.scenario].config =
               [pack |-> draft.pack, intervention |-> draft.intervention]
    BY AdvanceChecks, <1>2, PastFacts DEF GuideInv, ScenarioStandsBehindStage
  <2>2. FrozenScenario'
    BY <1>5, <1>6, <2>1 DEF FrozenScenario
  <2> QED BY <1>5, <1>6, <2>1, <2>2
<1>12. InterventionStands'
  <2> SUFFICES ASSUME here >= 7, ~guide.prepared
               PROVE  draft.intervention # Nothing
    BY <1>6, <1>7 DEF InterventionStands
  <2>1. CASE here = 7
    BY <2>1, AdvanceChecks
  <2>2. CASE here # 7
    BY <1>2, <2>2, PastFacts DEF GuideInv, InterventionStands
  <2> QED BY <2>1, <2>2
<1>13. Changes(after)
  BY <1>1 DEF after
<1> QED BY <1>4, <1>8, <1>9, <1>10, <1>11, <1>12, <1>13, WorkflowMoves

LEMMA GuideInit_Inv == GuideInit => GuideInv
<1> SUFFICES ASSUME GuideInit PROVE GuideInv
  OBVIOUS
<1> USE LibraryAssumption, PackFacts
<1> DEFINE library == [frozen |-> TRUE, metadata |-> LibraryMetadata, build |-> NoBuild,
                       claims |-> [c \in Claims |-> "HUMAN_APPROVED"]]
           config == [pack |-> LibraryPack, intervention |-> LibraryIntervention]
           planned == [frozen |-> TRUE, config |-> config]
<1>1. /\ library \in PackRow /\ library.frozen
      /\ library.claims = [c \in Claims |-> "HUMAN_APPROVED"]
  BY DEF PackRow, ClaimStatuses, Decided
<1>2. config \in Configs /\ config.pack = LibraryPack
  BY DEF Configs
<1>3. packs = [p \in PackIds |-> IF p = LibraryPack THEN library ELSE NoPack]
  BY DEF GuideInit
<1>4. scenarios = [s \in ScenarioIds |-> IF s = LibraryScenario THEN planned ELSE NoScenario]
  BY DEF GuideInit
<1> HIDE DEF library, config
<1>5. planned \in ScenarioRow /\ planned.frozen /\ planned.config = config
  BY <1>2 DEF ScenarioRow
<1> HIDE DEF planned
<1>6. /\ packs[LibraryPack] = library /\ Frozen(LibraryPack)
      /\ \A p \in PackIds : Frozen(p) => p = LibraryPack
      /\ InStatus(LibraryPack, "AI_PROPOSED") = {}
  BY <1>1, <1>3 DEF Frozen, Exists, InStatus
<1>7. PackTypes
  <2>1. packs \in [PackIds -> PackRow \cup {NoPack}]
    BY <1>1, <1>3
  <2>2. scenarios \in [ScenarioIds -> ScenarioRow \cup {NoScenario}]
    BY <1>4, <1>5
  <2>3. extracting = {}
    BY DEF GuideInit
  <2> QED BY <2>1, <2>2, <2>3 DEF PackTypes
<1>8. FrozenPacksAreReviewed
  BY <1>1, <1>6 DEF FrozenPacksAreReviewed
<1>9. FrozenScenariosAreRunnable
  BY <1>2, <1>4, <1>5, <1>6 DEF FrozenScenariosAreRunnable
<1>10. NoDraft \in DraftRow
  BY DEF NoDraft, DraftRow
<1>11. [NoDraft EXCEPT !.pack = LibraryPack, !.scenario = LibraryScenario] \in DraftRow
  BY <1>10 DEF DraftRow
<1>12. guide \in GuideRow /\ guide.stage = "EVENT_GOAL"
  <2>1. "EVENT_GOAL" \in Stages
    BY DEF Stages, StageOrder
  <2>2. PICK prepared \in BOOLEAN :
            guide = [stage |-> "EVENT_GOAL", prepared |-> prepared, applied |-> FALSE,
                     draft |-> IF prepared
                               THEN [NoDraft EXCEPT !.pack = LibraryPack,
                                                    !.scenario = LibraryScenario]
                               ELSE NoDraft]
    BY DEF GuideInit
  <2> QED BY <1>10, <1>11, <2>1, <2>2 DEF GuideRow
<1>13. builds \in [BuildIds -> BuildStates]
  BY DEF GuideInit, BuildStates
<1>14. Place(guide.stage) = 1
  BY <1>12, PlaceFacts
<1>15. ~Past("SOURCE_REVIEW") /\ ~Past("PACK_FREEZE_REVIEW") /\ ~Past("SCENARIO_INTERVENTION")
       /\ ~Past("SCENARIO_REVIEW")
  BY <1>14, PlaceFacts DEF Past
<1> QED BY <1>7, <1>8, <1>9, <1>12, <1>13, <1>15 DEF GuideInv, GuideTypes, PackStandsBehindStage,
        ProvenanceStands, ScenarioStandsBehindStage, InterventionStands

LEMMA GuideNext_Keeps ==
    ASSUME GuideInv, GuideNext
    PROVE  GuideStep
BY LinkKeeps, AdvanceKeeps, WorldSteps, ApplyKeeps DEF GuideNext

LEMMA GuideStutter_Keeps ==
    ASSUME GuideInv, UNCHANGED guideVars
    PROVE  GuideStep
<1>1. UNCHANGED <<packs, scenarios, extracting, builds, guide>>
  BY DEF guideVars, packVars
<1>2. PackStep
  BY <1>1, ExtractorsChange DEF GuideInv, GuideTypes, PackInv, PackTypes
<1>3. builds' \in [BuildIds -> BuildStates]
  BY <1>1 DEF GuideInv, GuideTypes
<1> QED BY <1>1, <1>2, <1>3, WorldMoves

LEMMA StagesFromInv == GuideInv => GuideTypeOK /\ StagesStand
<1> SUFFICES ASSUME GuideInv PROVE GuideTypeOK /\ StagesStand
  OBVIOUS
<1>1. PacksTypeOK
  <2>1. packs \in [PackIds -> PackRow \cup {NoPack}]
    BY DEF GuideInv, GuideTypes, PackTypes
  <2> DEFINE origins == {packs[p].build : p \in {q \in PackIds : Exists(q)}}
             row == [frozen : BOOLEAN, claims : [Claims -> ClaimStatuses], metadata : Metadata,
                     build : {NoBuild} \cup origins]
  <2>2. \A p \in PackIds : packs[p] \in {NoPack} \cup row
    BY <2>1 DEF Exists, PackRow
  <2>3. packs \in [PackIds -> {NoPack} \cup row]
    <3> HIDE DEF row
    <3> QED BY <2>1, <2>2
  <2> QED BY <2>3 DEF GuideInv, GuideTypes, PackTypes, PacksTypeOK, ScenarioRow
<1> QED BY <1>1 DEF GuideInv, GuideTypes, GuideRow, DraftRow, GuideTypeOK, StagesStand

-----------------------------------------------------------------------------
(* The conversations: what Pruned, Visible and Thread do to the list of    *)
(* exchanges.                                                              *)

\* Every element of a sequence goes with those behind it by the relation R.
InOrder(s, R) == \A i, j \in 1..Len(s) : i < j => <<s[i], s[j]>> \in R

LEMMA InOrderAppend ==
    ASSUME NEW T, NEW s \in Seq(T), NEW x, NEW R
    PROVE  InOrder(Append(s, x), R) <=> InOrder(s, R) /\ \A y \in Range(s) : <<y, x>> \in R
<1> DEFINE n == Len(s)
           a == Append(s, x)
<1>1. /\ n \in Nat /\ Len(a) = n + 1 /\ a[n + 1] = x
      /\ \A i \in 1..n : a[i] = s[i] /\ i \in 1..(n + 1) /\ i < n + 1
      /\ n + 1 \in 1..(n + 1)
      /\ \A i, j \in 1..(n + 1) : i < j => i \in 1..n /\ (j \in 1..n \/ j = n + 1)
  OBVIOUS
<1>2. Range(s) = {s[i] : i \in 1..n}
  BY DEF Range
<1> HIDE DEF a, n
<1>3. ASSUME InOrder(a, R) PROVE InOrder(s, R) /\ \A y \in Range(s) : <<y, x>> \in R
  BY <1>1, <1>3, <1>2 DEF InOrder, n
<1>4. ASSUME InOrder(s, R), \A y \in Range(s) : <<y, x>> \in R PROVE InOrder(a, R)
  BY <1>4, <1>2, <1>1 DEF InOrder, n
<1> QED BY <1>3, <1>4 DEF a

\* What is kept of a sequence is in the order the sequence is in.
LEMMA FilteredInOrder ==
    ASSUME NEW T, NEW kept, NEW R
    PROVE  \A s \in Seq(T) : InOrder(s, R) => InOrder(Filtered(s, kept), R)
<1> DEFINE G == {s \in Seq(T) : InOrder(s, R) => InOrder(Filtered(s, kept), R)}
<1>1. <<>> \in G
  BY FilteredIsEmpty
<1>2. ASSUME NEW s \in Seq(T), NEW x \in T, s \in G, InOrder(Append(s, x), R)
      PROVE  InOrder(Filtered(Append(s, x), kept), R)
  <2> DEFINE f == Filtered(s, kept)
  <2>1. InOrder(s, R) /\ \A y \in Range(s) : <<y, x>> \in R
    BY <1>2, InOrderAppend
  <2>2. f \in Seq(T) /\ Range(f) \subseteq Range(s)
    BY FilteredTyped DEF SiftedIn
  <2>3. Filtered(Append(s, x), kept) = IF x \in kept THEN Append(f, x) ELSE f
    BY FilteredGrows
  <2>4. InOrder(f, R)
    BY <1>2, <2>1
  <2> HIDE DEF f
  <2>5. InOrder(Append(f, x), R)
    BY <2>1, <2>2, <2>4, InOrderAppend
  <2> QED BY <2>3, <2>4, <2>5
<1>3. \A s \in Seq(T), x \in T : s \in G => Append(s, x) \in G
  BY <1>2
<1> HIDE DEF G
<1>4. Seq(T) \subseteq G
  BY <1>1, <1>3, GrowingUp
<1> QED BY <1>4 DEF G

\* When nothing that is dropped stands behind something that is kept, what is kept is
\* the end of the sequence.
LEMMA KeptIsSuffix ==
    ASSUME NEW T, NEW kept
    PROVE  \A s \in Seq(T) :
               InOrder(s, {pair \in T \X T : pair[1] \in kept => pair[2] \in kept}) =>
                   \E p \in Seq(T) : s = p \o Filtered(s, kept)
<1> DEFINE R == {pair \in T \X T : pair[1] \in kept => pair[2] \in kept}
           Ends(s) == \E p \in Seq(T) : s = p \o Filtered(s, kept)
           G == {s \in Seq(T) : InOrder(s, R) => Ends(s)}
<1>1. <<>> \in G
  <2>1. <<>> \in Seq(T) /\ <<>> = <<>> \o <<>>
    OBVIOUS
  <2> QED BY <2>1, FilteredIsEmpty
<1>2. ASSUME NEW s \in Seq(T), NEW x \in T, s \in G, InOrder(Append(s, x), R)
      PROVE  Ends(Append(s, x))
  <2> DEFINE f == Filtered(s, kept)
             a == Append(s, x)
  <2>1. InOrder(s, R) /\ \A y \in Range(s) : <<y, x>> \in R
    BY <1>2, InOrderAppend
  <2>2. f \in Seq(T) /\ Range(f) = Range(s) \cap kept /\ a \in Seq(T)
    BY FilteredTyped DEF SiftedIn
  <2>3. Filtered(a, kept) = IF x \in kept THEN Append(f, x) ELSE f
    BY FilteredGrows
  <2>4. PICK p \in Seq(T) : s = p \o f
    BY <1>2, <2>1
  <2>5. CASE x \in kept
    <3>1. Append(p \o f, x) = p \o Append(f, x)
      <4> HIDE DEF a, R, Ends, G
      <4>1. PICK u \in Seq(T) : u = f
        BY <2>2
      <4>2. Append(p \o u, x) = p \o Append(u, x)
        BY SMTT(30)
      <4> HIDE DEF f
      <4> QED BY <4>1, <4>2
    <3> QED BY <2>3, <2>4, <2>5, <3>1
  <2>6. CASE x \notin kept
    <3>1. \A y \in Range(s) : y \notin kept
      BY <2>1, <2>6
    <3>2. Range(s) \cap kept = {}
      BY <3>1
    <3>3. f = <<>>
      BY <3>2, FilteredNone
    <3>4. a \o <<>> = a
      BY <2>2
    <3>5. a = a \o Filtered(a, kept)
      BY <2>3, <2>6, <3>3, <3>4
    <3> QED BY <2>2, <3>5
  <2> QED BY <2>5, <2>6
<1>3. \A s \in Seq(T), x \in T : s \in G => Append(s, x) \in G
  <2>1. \A s \in Seq(T), x \in T : Append(s, x) \in Seq(T)
    OBVIOUS
  <2> QED BY <1>2, <2>1
<1> HIDE DEF G
<1>4. Seq(T) \subseteq G
  BY <1>1, <1>3, GrowingUp
<1> QED BY <1>4 DEF G

\* A sequence ends with another when it does from the last element backwards.
LEMMA SuffixMeans ==
    ASSUME NEW T, NEW s \in Seq(T), NEW t \in Seq(T)
    PROVE  IsSuffix(s, t) <=>
               /\ Len(s) <= Len(t)
               /\ \A i \in 1..Len(s) : s[(Len(s) - i) + 1] = t[(Len(t) - i) + 1]
<1> DEFINE a == Reverse(s)
           b == Reverse(t)
<1>1. Len(s) \in Nat /\ Len(t) \in Nat
  OBVIOUS
<1>2. /\ a \in Seq(T) /\ Len(a) = Len(s)
      /\ \A i \in 1..Len(s) : a[i] = s[(Len(s) - i) + 1]
  BY DEF Reverse
<1>3. /\ b \in Seq(T) /\ Len(b) = Len(t)
      /\ \A i \in 1..Len(t) : b[i] = t[(Len(t) - i) + 1]
  BY DEF Reverse
<1> HIDE DEF a, b
<1>4. ASSUME Len(s) <= Len(t)
      PROVE  SubSeq(a, 1, Len(a)) = SubSeq(b, 1, Len(a)) <=>
                 \A i \in 1..Len(s) : a[i] = b[i]
  <2> DEFINE u == SubSeq(a, 1, Len(a))
             w == SubSeq(b, 1, Len(a))
  <2>1. u \in Seq(T) /\ Len(u) = Len(s) /\ \A i \in 1..Len(s) : u[i] = a[i]
    BY <1>1, <1>2
  <2>2. w \in Seq(T) /\ Len(w) = Len(s) /\ \A i \in 1..Len(s) : w[i] = b[i]
    BY <1>1, <1>2, <1>3, <1>4
  <2> HIDE DEF u, w
  <2>3. (\A i \in 1..Len(s) : u[i] = w[i]) => u = w
    BY <2>1, <2>2, SeqEqual
  <2>4. u = w <=> \A i \in 1..Len(s) : a[i] = b[i]
    BY <2>1, <2>2, <2>3
  <2> QED BY <2>4 DEF u, w
<1>5. \A i \in 1..Len(s) : Len(s) <= Len(t) => i \in 1..Len(t)
  BY <1>1
<1>6. IsSuffix(s, t) <=> Len(s) <= Len(t) /\ SubSeq(a, 1, Len(a)) = SubSeq(b, 1, Len(a))
  BY <1>2, <1>3 DEF IsSuffix, IsPrefix, a, b
<1> QED BY <1>2, <1>3, <1>4, <1>5, <1>6

\* Putting something in front of a sequence keeps its end.
LEMMA SuffixStays ==
    ASSUME NEW T, NEW s \in Seq(T), NEW t \in Seq(T), NEW p \in Seq(T), IsSuffix(s, t)
    PROVE  IsSuffix(s, p \o t)
<1> DEFINE u == p \o t
<1>1. /\ Len(s) \in Nat /\ Len(t) \in Nat /\ Len(p) \in Nat
      /\ u \in Seq(T) /\ Len(u) = Len(p) + Len(t)
      /\ \A i \in 1..Len(t) : u[Len(p) + i] = t[i]
  BY ConcatProperties
<1> HIDE DEF u
<1>2. /\ Len(s) <= Len(t)
      /\ \A i \in 1..Len(s) : s[(Len(s) - i) + 1] = t[(Len(t) - i) + 1]
  BY SuffixMeans
<1>3. ASSUME NEW i \in 1..Len(s) PROVE s[(Len(s) - i) + 1] = u[(Len(u) - i) + 1]
  <2>1. /\ (Len(t) - i) + 1 \in 1..Len(t)
        /\ (Len(u) - i) + 1 = Len(p) + ((Len(t) - i) + 1)
    BY <1>1, <1>2
  <2>2. u[Len(p) + ((Len(t) - i) + 1)] = t[(Len(t) - i) + 1]
    BY <1>1, <2>1
  <2> QED BY <1>2, <2>1, <2>2
<1>4. Len(s) <= Len(u)
  BY <1>1, <1>2
<1>5. IsSuffix(s, u)
  BY <1>1, <1>3, <1>4, SuffixMeans
<1> QED BY <1>5 DEF u

Later == {pair \in Rows \X Rows : pair[1].day <= pair[2].day}

\* The rows of the table are in the order of their days.
RowsInOrder == InOrder(exchanges, Later) /\ \A row \in Range(exchanges) : row.day <= today

LEMMA RowFacts ==
    /\ RetentionDays \in Nat /\ MaxPerOwner \in Nat /\ 1 <= MaxPerOwner
    /\ \A row \in Rows : row.day \in Nat /\ row.ask \in Asks /\ row.answer \in Answers
                           /\ row.request \in ClientRequests
BY InterpretationAssumption DEF Rows

\* A sequence without elements.
LEMMA NoElements == ASSUME NEW T, NEW s \in Seq(T) PROVE s = <<>> <=> Range(s) = {}
BY RangeOfEmpty, HeadAmong

LEMMA FreshFacts ==
    ASSUME NEW rows \in Seq(Rows)
    PROVE  LET fresh == Filtered(rows, Fresh(rows))
           IN  /\ fresh \in Seq(Rows) /\ Len(fresh) \in Nat
               /\ Range(fresh) = {row \in Range(rows) : row.day + RetentionDays >= today}
               /\ Range(fresh) \subseteq Range(rows)
               /\ InOrder(rows, Later) => InOrder(fresh, Later)
BY FilteredTyped, FilteredInOrder DEF SiftedIn, Fresh

\* Pruning keeps the order, some of the rows, no more than the limit, and the last
\* one when it is of today.
LEMMA PrunedFacts ==
    ASSUME NEW rows \in Seq(Rows)
    PROVE  /\ Pruned(rows) \in Seq(Rows) /\ Len(Pruned(rows)) <= MaxPerOwner
           /\ Range(Pruned(rows)) \subseteq Range(rows)
           /\ InOrder(rows, Later) => InOrder(Pruned(rows), Later)
           /\ Filtered(rows, Fresh(rows)) # <<>> =>
                 Pruned(rows) # <<>>
                   /\ Pruned(rows)[Len(Pruned(rows))] = Last(Filtered(rows, Fresh(rows)))
<1> DEFINE fresh == Filtered(rows, Fresh(rows))
           n == Len(fresh)
           excess == IF n > MaxPerOwner THEN n - MaxPerOwner ELSE 0
           p == SubSeq(fresh, excess + 1, n)
<1>1. /\ fresh \in Seq(Rows) /\ n \in Nat /\ Range(fresh) \subseteq Range(rows)
      /\ InOrder(rows, Later) => InOrder(fresh, Later)
  BY FreshFacts
<1>2. Pruned(rows) = p
  BY DEF Pruned
<1> HIDE DEF fresh
<1>3. /\ excess \in Nat /\ excess <= n /\ n - excess <= MaxPerOwner
      /\ n # 0 => excess < n
  BY <1>1, RowFacts
<1> HIDE DEF excess
<1>4. /\ p \in Seq(Rows) /\ Len(p) = n - excess
      /\ \A i \in 1..(n - excess) : p[i] = fresh[excess + i]
  BY <1>1, <1>3
<1>5. \A i \in 1..(n - excess) : excess + i \in 1..n
  BY <1>1, <1>3
<1> HIDE DEF p, n
<1>6. Range(p) \subseteq Range(fresh)
  BY <1>1, <1>4, <1>5 DEF n, Range
<1>7. ASSUME InOrder(fresh, Later) PROVE InOrder(p, Later)
  <2>1. \A i, j \in 1..(n - excess) : i < j => excess + i < excess + j
    BY <1>1, <1>3
  <2>2. \A i, j \in 1..n : i < j => <<fresh[i], fresh[j]>> \in Later
    BY <1>7 DEF InOrder, n
  <2>3. \A i, j \in 1..(n - excess) : i < j => <<p[i], p[j]>> \in Later
    BY <1>4, <1>5, <2>1, <2>2
  <2> QED BY <1>4, <2>3 DEF InOrder
<1>8. ASSUME fresh # <<>> PROVE p # <<>> /\ p[Len(p)] = Last(fresh)
  <2>1. n # 0
    BY <1>1, <1>8, EmptySeq DEF n
  <2>2. /\ n - excess \in 1..(n - excess) /\ excess + (n - excess) = n /\ n - excess # 0
    BY <1>1, <1>3, <2>1
  <2>3. p[n - excess] = fresh[n]
    BY <1>4, <2>2
  <2>4. Last(fresh) = fresh[n]
    BY DEF Last, n
  <2>5. p # <<>>
    BY <1>4, <2>2
  <2> QED BY <1>4, <2>3, <2>4, <2>5
<1>9. Len(p) <= MaxPerOwner
  BY <1>3, <1>4
<1> QED BY <1>1, <1>2, <1>4, <1>6, <1>7, <1>8, <1>9 DEF fresh

\* A row of today that is added is the last one after the pruning.
LEMMA AddedIsLast ==
    ASSUME NEW rows \in Seq(Rows), NEW row \in Rows, row.day = today
    PROVE  LET kept == Pruned(Append(rows, row))
           IN  kept # <<>> /\ kept[Len(kept)] = row /\ row \in Range(kept)
<1> DEFINE a == Append(rows, row)
           fresh == Filtered(a, Fresh(a))
           kept == Pruned(a)
<1>1. a \in Seq(Rows) /\ a # <<>> /\ Last(a) = row
  BY AppendLast
<1>2. Range(a) = Range(rows) \cup {row}
  BY RangeOfAppend
<1> HIDE DEF a
<1>3. row \in Fresh(a)
  BY RowFacts, <1>2 DEF Fresh
<1>4. fresh # <<>> /\ Last(fresh) = row
  BY <1>1, <1>3, FilteredLast
<1>5. kept \in Seq(Rows) /\ kept # <<>> /\ kept[Len(kept)] = row
  BY <1>1, <1>4, PrunedFacts
<1> HIDE DEF kept
<1>6. Last(kept) \in Range(kept) /\ Last(kept) = kept[Len(kept)]
  BY <1>5, LastSplit
<1> QED BY <1>5, <1>6 DEF kept, a

\* What a reader sees is the end of the table.
LEMMA VisibleFacts ==
    ASSUME exchanges \in Seq(Rows)
    PROVE  /\ Visible \in Seq(Rows)
           /\ Range(Visible) = {row \in Range(exchanges) : row.day + RetentionDays >= today}
           /\ RowsInOrder /\ today \in Nat => \E p \in Seq(Rows) : exchanges = p \o Visible
<1>1. /\ Visible \in Seq(Rows)
      /\ Range(Visible) = {row \in Range(exchanges) : row.day + RetentionDays >= today}
  BY FreshFacts DEF Visible
<1>2. ASSUME RowsInOrder, today \in Nat PROVE \E p \in Seq(Rows) : exchanges = p \o Visible
  <2> DEFINE kept == Fresh(exchanges)
             R == {pair \in Rows \X Rows : pair[1] \in kept => pair[2] \in kept}
             n == Len(exchanges)
  <2>1. \A i \in 1..n : exchanges[i] \in Rows /\ exchanges[i] \in Range(exchanges)
    BY DEF Range
  <2>2. ASSUME NEW i \in 1..n, NEW j \in 1..n, i < j PROVE <<exchanges[i], exchanges[j]>> \in R
    <3> DEFINE one == exchanges[i]
               two == exchanges[j]
    <3>1. <<one, two>> \in Later
      BY <1>2, <2>2 DEF RowsInOrder, InOrder
    <3>2. one \in Rows /\ two \in Rows /\ two \in Range(exchanges)
      BY <2>1
    <3> HIDE DEF one, two
    <3>3. one.day <= two.day
      BY <3>1 DEF Later
    <3>4. one.day \in Nat /\ two.day \in Nat /\ RetentionDays \in Nat
      BY <3>2, RowFacts
    <3>5. one.day + RetentionDays >= today => two.day + RetentionDays >= today
      BY <1>2, <3>3, <3>4
    <3>6. one \in kept => two \in kept
      BY <3>2, <3>5 DEF Fresh
    <3>7. <<one, two>> \in R
      BY <3>2, <3>6
    <3> QED BY <3>7 DEF one, two
  <2>3. InOrder(exchanges, R)
    BY <2>2 DEF InOrder
  <2> HIDE DEF kept
  <2>4. \E p \in Seq(Rows) : exchanges = p \o Filtered(exchanges, kept)
    BY <2>3, KeptIsSuffix
  <2> QED BY <2>4 DEF Visible, kept
<1> QED BY <1>1, <1>2

\* The thread of a conversation, and when there is none.
LEMMA ThreadFacts ==
    ASSUME NEW rows \in Seq(Rows), NEW c
    PROVE  /\ Thread(rows, c) \in Seq(Answers)
           /\ Thread(rows, c) = <<>> <=> \A row \in Range(rows) : row.ask.conversation # c
<1> DEFINE own == Filtered(rows, OfConversation(rows, c))
           thread == [i \in 1..Len(own) |-> own[i].answer]
<1>1. own \in Seq(Rows) /\ Range(own) = Range(rows) \cap OfConversation(rows, c)
  BY FilteredTyped DEF SiftedIn
<1>2. Thread(rows, c) = [i \in DOMAIN own |-> own[i].answer]
  BY DEF Thread
<1> HIDE DEF own
<1>3. DOMAIN own = 1..Len(own) /\ Len(own) \in Nat /\ \A i \in 1..Len(own) : own[i] \in Rows
  BY <1>1
<1>4. \A i \in 1..Len(own) : own[i].answer \in Answers
  BY <1>3, RowFacts
<1>5. thread \in Seq(Answers) /\ Len(thread) = Len(own)
  BY <1>3, <1>4
<1>6. Thread(rows, c) = thread
  BY <1>2, <1>3
<1> HIDE DEF thread
<1>7. thread = <<>> <=> Len(own) = 0
  BY <1>5, EmptySeq
<1>8. own = <<>> <=> Len(own) = 0
  BY <1>1, EmptySeq
<1>9. own = <<>> <=> Range(rows) \cap OfConversation(rows, c) = {}
  BY <1>1, NoElements
<1>10. Range(rows) \cap OfConversation(rows, c) = {} <=>
           \A row \in Range(rows) : row.ask.conversation # c
  BY DEF OfConversation
<1> QED BY <1>5, <1>6, <1>7, <1>8, <1>9, <1>10

\* The thread a reader sees is the end of the whole one.
LEMMA ThreadEnds ==
    ASSUME exchanges \in Seq(Rows), RowsInOrder, today \in Nat, NEW c
    PROVE  \E q \in Seq(Answers) : Thread(exchanges, c) = q \o Thread(Visible, c)
<1>1. PICK p \in Seq(Rows) : exchanges = p \o Visible
  BY VisibleFacts
<1>2. Visible \in Seq(Rows) /\ Range(Visible) \subseteq Range(exchanges)
  BY VisibleFacts
<1> DEFINE all == OfConversation(exchanges, c)
           seen == OfConversation(Visible, c)
           a == Filtered(p, all)
           b == Filtered(Visible, seen)
           m == Len(a)
           n == Len(b)
           q == [i \in 1..m |-> a[i].answer]
           v == [i \in 1..n |-> b[i].answer]
<1>3. Filtered(Visible, all) = b
  BY <1>2, FilteredSame DEF OfConversation
<1>4. Filtered(exchanges, all) = a \o b
  <2> HIDE DEF all, seen, b
  <2>1. Filtered(p \o Visible, all) = a \o Filtered(Visible, all)
    BY <1>2, FilteredConcat
  <2> QED BY <1>1, <1>3, <2>1
<1>5. a \in Seq(Rows) /\ b \in Seq(Rows)
  BY <1>2, FilteredTyped DEF SiftedIn
<1>6. Thread(exchanges, c) = [i \in DOMAIN (a \o b) |-> (a \o b)[i].answer]
  <2> HIDE DEF a, b
  <2> QED BY <1>4 DEF Thread
<1>7. Thread(Visible, c) = [i \in DOMAIN b |-> b[i].answer]
  BY DEF Thread
<1> HIDE DEF a, b
<1>8. /\ m \in Nat /\ n \in Nat /\ DOMAIN b = 1..n
      /\ \A i \in 1..m : a[i] \in Rows
      /\ \A i \in 1..n : b[i] \in Rows
  BY <1>5
<1>9. /\ DOMAIN (a \o b) = 1..(m + n)
      /\ \A i \in 1..m : (a \o b)[i] = a[i]
      /\ \A i \in 1..n : (a \o b)[m + i] = b[i]
      /\ \A i \in 1..(m + n) : i \in 1..m \/ \E j \in 1..n : i = m + j
  <2>1. \A i \in 1..(m + n) : i \in 1..m \/ (i - m \in 1..n /\ i = m + (i - m))
    BY <1>8
  <2>2. /\ DOMAIN (a \o b) = 1..(m + n)
        /\ \A i \in 1..m : (a \o b)[i] = a[i]
        /\ \A i \in 1..n : (a \o b)[m + i] = b[i]
    BY <1>5, <1>8
  <2> QED BY <2>1, <2>2
<1> DEFINE t == [i \in 1..(m + n) |-> (a \o b)[i].answer]
<1>10. \A i \in 1..m : a[i].answer \in Answers
  BY <1>8, RowFacts
<1>11. \A i \in 1..n : b[i].answer \in Answers
  BY <1>8, RowFacts
<1>12. q \in Seq(Answers) /\ Len(q) = m /\ v \in Seq(Answers) /\ Len(v) = n
  BY <1>8, <1>10, <1>11
<1>13. /\ \A i \in 1..m : t[i] = a[i].answer
       /\ \A i \in 1..n : t[m + i] = b[i].answer
       /\ DOMAIN t = 1..(m + n)
  BY <1>8, <1>9
<1>14. /\ \A i \in 1..m : q[i] = a[i].answer
       /\ \A i \in 1..n : v[i] = b[i].answer
  OBVIOUS
<1>15. t \in Seq(Answers) /\ Len(t) = m + n
  <2>1. \A i \in 1..(m + n) : t[i] \in Answers
    <3> HIDE DEF t
    <3> QED BY <1>9, <1>10, <1>11, <1>13
  <2>2. \A i \in 1..(m + n) : (a \o b)[i].answer \in Answers
    BY <2>1
  <2> QED BY <1>8, <2>2
<1> HIDE DEF q, v, t
<1>16. /\ q \o v \in Seq(Answers) /\ Len(q \o v) = m + n
       /\ \A i \in 1..m : (q \o v)[i] = q[i]
       /\ \A i \in 1..n : (q \o v)[m + i] = v[i]
  <2> HIDE DEF m, n
  <2>1. /\ q \o v \in Seq(Answers) /\ Len(q \o v) = m + n
        /\ \A i \in 1..(m + n) : (q \o v)[i] = IF i <= m THEN q[i] ELSE v[i - m]
    BY ONLY <1>12, ConcatProperties
  <2> DEFINE w == q \o v
  <2> HIDE DEF w
  <2>2. \A i \in 1..m : w[i] = q[i]
    BY <1>8, <2>1 DEF w
  <2>3. \A i \in 1..n : m + i \in 1..(m + n) /\ ~(m + i <= m) /\ (m + i) - m = i
    BY <1>8
  <2>4. \A i \in 1..n : w[m + i] = v[i]
    BY <2>1, <2>3 DEF w
  <2> QED BY <2>1, <2>2, <2>4 DEF w
<1>17. \A i \in 1..(m + n) : (q \o v)[i] = t[i]
  <2> DEFINE w == q \o v
  <2>1. /\ \A i \in 1..m : w[i] = t[i]
        /\ \A i \in 1..n : w[m + i] = t[m + i]
    BY <1>13, <1>14, <1>16
  <2>2. ASSUME NEW i \in 1..(m + n) PROVE w[i] = t[i]
    BY <1>9, <2>1
  <2> QED BY <2>2
<1>18. t = q \o v
  BY <1>15, <1>16, <1>17, SeqEqual
<1>19. Thread(exchanges, c) = t /\ Thread(Visible, c) = v
  BY <1>6, <1>7, <1>8, <1>9 DEF t, v
<1> QED BY <1>12, <1>18, <1>19

-----------------------------------------------------------------------------
(* The conversations: the invariant.                                       *)

FlightRow == [key : FlightKeys, ask : Asks \cup {NoRecord}, calling : BOOLEAN]
RecentRow == [ask : Asks \cup {NoRecord}, outcome : Tellings]
KeysOf(kept) == {k \in FlightKeys : kept[k] # NoRecord}
KeptKeys(s) == KeysOf(recent[s])

\* Only the head of a queue may be calling the provider, and a request asks something.
FlightsHold ==
    \A s \in Servers :
        /\ s \notin running => flights[s] = <<>>
        /\ \A i \in 1..Len(flights[s]) :
              /\ flights[s][i].key \in ClientRequests => flights[s][i].ask \in Asks
              /\ flights[s][i].calling => i = 1

\* An answer that is said to be saved is in the table, or was removed on purpose.
Stored(k, ask, n) ==
    \/ n \in retired
    \/ \E row \in Range(exchanges) : row.request = k /\ row.ask = ask /\ row.answer = n
OnRecord(k, ask, n) == ask.conversation \in tombstones \/ Stored(k, ask, n)

RecentHolds ==
    \A s \in Servers :
        /\ IsFiniteSet(KeptKeys(s))
        /\ \A k \in ClientRequests :
              recent[s][k] # NoRecord =>
                  /\ recent[s][k].ask \in Asks
                  /\ recent[s][k].outcome.kind = "answer" /\ recent[s][k].outcome.saved =>
                        OnRecord(k, recent[s][k].ask, recent[s][k].outcome.answer)
        /\ \A c \in Conversations :
              recent[s][c] # NoRecord => recent[s][c].outcome.kind = "deleted"

\* What the provider is asked still fits the thread, when one server writes it.
Fits(ask) ==
    IF ask.prior = <<>> THEN Thread(Visible, ask.conversation) = <<>>
    ELSE IsSuffix(ask.prior, Thread(exchanges, ask.conversation))
CallFits ==
    \A s \in Servers : running = {s} /\ Calls(s) => Fits(Head(flights[s]).ask)

HistoryInv ==
    /\ TablesTypeOK /\ running # {} /\ FlightsHold /\ RecentHolds
    /\ RowsInOrder /\ DeletedStaysDeleted /\ CallFits

HistoryStep == HistoryInv' /\ SavedMeansSaved' /\ DeletedStaysDeleted' /\ ThreadsDoNotFork

\* A stream that is about to enter belongs to a server.
StreamsHold == opened \subseteq Streamed /\ \A w \in opened : w.server \in running

\* What a step keeps when a stream may be told of what was deleted beside it.
HistoryMoves ==
    /\ HistoryInv' /\ StreamsHold' /\ (SavedMeansSaved' \/ ToldPastDeletion)
    /\ DeletedStaysDeleted' /\ ThreadsDoNotFork

LEMMA TablesBounded ==
    ASSUME running # {}, running \subseteq Servers
    PROVE  MaxInTables \in Nat
<1>1. IsFiniteSet(Servers) /\ TableBounds \in [1..Cardinality(Servers) -> Nat]
  BY InterpretationAssumption
<1>2. /\ IsFiniteSet(running) /\ Cardinality(running) <= Cardinality(Servers)
      /\ Cardinality(running) # 0
  BY <1>1, FS_Subset, FS_EmptySet
<1>3. Cardinality(running) \in Nat /\ Cardinality(Servers) \in Nat
  BY <1>1, <1>2, FS_CardinalityType
<1>4. Cardinality(running) \in 1..Cardinality(Servers)
  BY <1>2, <1>3
<1> QED BY <1>1, <1>4 DEF MaxInTables

LEMMA OneMore ==
    ASSUME NEW A, IsFiniteSet(A), NEW k, NEW B, B \subseteq A \cup {k}
    PROVE  IsFiniteSet(B) /\ Cardinality(B) <= Cardinality(A) + 1
             /\ Cardinality(A) \in Nat /\ Cardinality(B) \in Nat
<1>1. /\ IsFiniteSet(A \cup {k}) /\ Cardinality(A \cup {k}) <= Cardinality(A) + 1
      /\ Cardinality(A) \in Nat
  BY FS_AddElement, FS_CardinalityType
<1>2. IsFiniteSet(B) /\ Cardinality(B) <= Cardinality(A \cup {k})
  BY <1>1, FS_Subset
<1>3. Cardinality(B) \in Nat /\ Cardinality(A \cup {k}) \in Nat
  BY <1>1, <1>2, FS_CardinalityType
<1> QED BY <1>1, <1>2, <1>3

LEMMA HistoryFacts ==
    ASSUME HistoryInv
    PROVE  /\ running \subseteq Servers /\ running # {} /\ MaxInTables \in Nat
           /\ exchanges \in Seq(Rows) /\ Len(exchanges) \in Nat /\ Len(exchanges) <= MaxPerOwner
           /\ tombstones \subseteq Conversations /\ retired \subseteq Answers
           /\ resultStands \in BOOLEAN /\ MaxDay \in Nat /\ MaxCalls \in Nat
           /\ today \in Nat /\ today \in 0..MaxDay /\ calls \in Nat /\ calls \in 0..MaxCalls
           /\ flights \in [Servers -> Seq(FlightRow)]
           /\ recent \in [Servers -> [FlightKeys -> RecentRow \cup {NoRecord}]]
           /\ \A s \in Servers : InTables(s) <= MaxInTables /\ InTables(s) \in Nat
           /\ \A s \in Servers : flights[s] \in Seq(FlightRow) /\ Len(flights[s]) \in Nat
           /\ ClientRequests \cap Conversations = {}
           /\ FlightKeys = ClientRequests \cup Conversations
<1>1. /\ running \subseteq Servers /\ running # {}
      /\ exchanges \in Seq(Rows) /\ Len(exchanges) <= MaxPerOwner
      /\ tombstones \subseteq Conversations /\ retired \subseteq Answers
      /\ resultStands \in BOOLEAN /\ today \in 0..MaxDay /\ calls \in 0..MaxCalls
      /\ \A s \in Servers : InTables(s) <= MaxInTables
      /\ flights \in [Servers -> Seq(FlightRow)]
      /\ recent \in [Servers -> [FlightKeys -> RecentRow \cup {NoRecord}]]
  BY DEF HistoryInv, TablesTypeOK, FlightRow, RecentRow
<1>2. MaxInTables \in Nat
  BY <1>1, TablesBounded
<1>3. /\ MaxDay \in Nat /\ MaxCalls \in Nat /\ ClientRequests \cap Conversations = {}
      /\ FlightKeys = ClientRequests \cup Conversations
  BY InterpretationAssumption DEF FlightKeys
<1>4. today \in Nat /\ calls \in Nat /\ Len(exchanges) \in Nat
  BY <1>1, <1>3
<1>5. ASSUME NEW s \in Servers
      PROVE  flights[s] \in Seq(FlightRow) /\ Len(flights[s]) \in Nat /\ InTables(s) \in Nat
  <2>1. flights[s] \in Seq(FlightRow)
    BY <1>1
  <2>2. Len(flights[s]) \in Nat
    BY <2>1
  <2>3. Cardinality(KeptKeys(s)) \in Nat
    BY FS_CardinalityType DEF HistoryInv, RecentHolds
  <2>4. InTables(s) = Len(flights[s]) + Cardinality(KeptKeys(s))
    BY DEF InTables, KeptKeys, KeysOf
  <2> QED BY <2>1, <2>2, <2>3, <2>4
<1> QED BY <1>1, <1>2, <1>3, <1>4, <1>5

\* What the parts of the invariant say of the server processes.
TablesHold ==
    /\ flights \in [Servers -> Seq(FlightRow)]
    /\ recent \in [Servers -> [FlightKeys -> RecentRow \cup {NoRecord}]]
    /\ told \in [key : FlightKeys, outcome : Tellings] \cup {NoRecord}
    /\ \A s \in Servers : InTables(s) <= MaxInTables
    /\ FlightsHold /\ RecentHolds

\* and of the store
StoreHolds ==
    /\ running \subseteq Servers /\ running # {}
    /\ exchanges \in Seq(Rows) /\ Len(exchanges) <= MaxPerOwner
    /\ tombstones \subseteq Conversations /\ retired \subseteq Answers
    /\ resultStands \in BOOLEAN /\ today \in 0..MaxDay /\ calls \in 0..MaxCalls
    /\ RowsInOrder /\ DeletedStaysDeleted

LEMMA HistoryParts == HistoryInv <=> TablesHold /\ StoreHolds /\ CallFits
BY DEF HistoryInv, TablesTypeOK, TablesHold, StoreHolds, FlightRow, RecentRow

LEMMA StoreStays ==
    ASSUME HistoryInv, UNCHANGED <<running, exchanges, tombstones, resultStands, today, calls,
                                   retired>>
    PROVE  /\ StoreHolds' /\ ThreadsDoNotFork /\ MaxInTables' = MaxInTables
           /\ \A k, ask, n : OnRecord(k, ask, n) <=> OnRecord(k, ask, n)'
           /\ \A ask : Fits(ask) <=> Fits(ask)'
<1>1. StoreHolds
  BY HistoryParts
<1>2. StoreHolds'
  BY <1>1 DEF StoreHolds, RowsInOrder, DeletedStaysDeleted
<1>3. ThreadsDoNotFork
  BY DEF ThreadsDoNotFork
<1>4. \A k, ask, n : OnRecord(k, ask, n) <=> OnRecord(k, ask, n)'
  BY DEF OnRecord, Stored
<1>5. Visible' = Visible
  BY DEF Visible, Fresh
<1>6. \A rows, c : Thread(rows, c)' = Thread(rows, c)
  BY DEF Thread, OfConversation
<1>7. \A ask : Fits(ask) <=> Fits(ask)'
  BY <1>5, <1>6 DEF Fits, Thread, OfConversation
<1> QED BY <1>2, <1>3, <1>4, <1>7 DEF MaxInTables

LEMMA HistoryInit_Inv == HistoryInit => HistoryInv
<1> SUFFICES ASSUME HistoryInit PROVE HistoryInv
  OBVIOUS
<1>1. StoreHolds
  <2>1. /\ running \subseteq Servers /\ running # {} /\ exchanges = <<>> /\ tombstones = {}
        /\ resultStands = TRUE /\ today = 0 /\ calls = 0 /\ retired = {}
    BY DEF HistoryInit
  <2>2. exchanges \in Seq(Rows) /\ Len(exchanges) = 0 /\ Range(exchanges) = {}
    BY <2>1, RangeOfEmpty
  <2>3. 0 \in 0..MaxDay /\ 0 \in 0..MaxCalls /\ 0 <= MaxPerOwner
    BY InterpretationAssumption
  <2>4. RowsInOrder /\ DeletedStaysDeleted
    BY <2>1, <2>2 DEF RowsInOrder, InOrder, DeletedStaysDeleted
  <2> QED BY <2>1, <2>2, <2>3, <2>4 DEF StoreHolds
<1>2. /\ flights = [s \in Servers |-> <<>>] /\ told = NoRecord
      /\ recent = [s \in Servers |-> [k \in FlightKeys |-> NoRecord]]
  BY DEF HistoryInit
<1>3. ASSUME NEW s \in Servers
      PROVE  /\ KeptKeys(s) = {} /\ flights[s] = <<>> /\ Len(flights[s]) = 0
             /\ \A k \in FlightKeys : recent[s][k] = NoRecord
  BY <1>2 DEF KeptKeys, KeysOf
<1>4. IsFiniteSet({}) /\ Cardinality({}) = 0
  BY FS_EmptySet
<1>5. MaxInTables \in Nat
  BY <1>1, TablesBounded DEF StoreHolds
<1>6. \A s \in Servers : InTables(s) <= MaxInTables
  <2>1. ASSUME NEW s \in Servers PROVE InTables(s) = 0
    <3>1. InTables(s) = Len(flights[s]) + Cardinality(KeptKeys(s))
      BY DEF InTables, KeptKeys, KeysOf
    <3>2. Cardinality(KeptKeys(s)) = 0
      BY <1>3, <1>4
    <3> QED BY <1>3, <3>1, <3>2
  <2> QED BY <1>5, <2>1
<1>7. FlightsHold
  BY <1>3 DEF FlightsHold
<1>8. RecentHolds
  BY <1>3, <1>4 DEF RecentHolds, FlightKeys
<1>9. flights \in [Servers -> Seq(FlightRow)]
  BY <1>2
<1>10. recent \in [Servers -> [FlightKeys -> RecentRow \cup {NoRecord}]]
  BY <1>2
<1>11. CallFits
  BY <1>3 DEF CallFits, Calls, Asking, Running
<1> QED BY <1>1, <1>2, <1>6, <1>7, <1>8, <1>9, <1>10, <1>11, HistoryParts DEF TablesHold

-----------------------------------------------------------------------------
(* The conversations: the steps.                                           *)

\* A step that changes the tables of one server keeps those of the others.
LEMMA TablesOf ==
    ASSUME HistoryInv, NEW s \in Servers, NEW queue \in Seq(FlightRow),
           NEW kept \in [FlightKeys -> RecentRow \cup {NoRecord}], running' = running,
           flights' = [flights EXCEPT ![s] = queue], recent' = [recent EXCEPT ![s] = kept]
    PROVE  /\ flights' \in [Servers -> Seq(FlightRow)]
           /\ recent' \in [Servers -> [FlightKeys -> RecentRow \cup {NoRecord}]]
           /\ flights'[s] = queue /\ recent'[s] = kept
           /\ KeptKeys(s)' = KeysOf(kept)
           /\ InTables(s)' = Len(queue) + Cardinality(KeysOf(kept))
           /\ \A t \in Servers : t # s =>
                 /\ flights'[t] = flights[t] /\ recent'[t] = recent[t]
                 /\ InTables(t)' = InTables(t)
           /\ MaxInTables' = MaxInTables
<1>1. /\ flights \in [Servers -> Seq(FlightRow)]
      /\ recent \in [Servers -> [FlightKeys -> RecentRow \cup {NoRecord}]]
  BY HistoryFacts
<1>2. /\ flights' \in [Servers -> Seq(FlightRow)]
      /\ recent' \in [Servers -> [FlightKeys -> RecentRow \cup {NoRecord}]]
      /\ flights'[s] = queue /\ recent'[s] = kept
      /\ \A t \in Servers : t # s => flights'[t] = flights[t] /\ recent'[t] = recent[t]
  BY <1>1
<1>3. /\ KeptKeys(s)' = KeysOf(kept)
      /\ InTables(s)' = Len(queue) + Cardinality(KeysOf(kept))
  BY <1>2 DEF KeptKeys, InTables, KeysOf
<1>4. \A t \in Servers : t # s => InTables(t)' = InTables(t)
  BY <1>2 DEF InTables
<1>5. MaxInTables' = MaxInTables
  BY DEF MaxInTables
<1> QED BY <1>2, <1>3, <1>4, <1>5

\* What a server's tables must say after a step.
ServerHolds(s) ==
    /\ InTables(s) <= MaxInTables
    /\ s \notin running => flights[s] = <<>>
    /\ \A i \in 1..Len(flights[s]) :
          /\ flights[s][i].key \in ClientRequests => flights[s][i].ask \in Asks
          /\ flights[s][i].calling => i = 1
    /\ IsFiniteSet(KeptKeys(s))
    /\ \A k \in ClientRequests :
          recent[s][k] # NoRecord =>
              /\ recent[s][k].ask \in Asks
              /\ recent[s][k].outcome.kind = "answer" /\ recent[s][k].outcome.saved =>
                    OnRecord(k, recent[s][k].ask, recent[s][k].outcome.answer)
    /\ \A c \in Conversations : recent[s][c] # NoRecord => recent[s][c].outcome.kind = "deleted"

LEMMA ServersHold ==
    (\A s \in Servers : ServerHolds(s)) <=>
        (\A s \in Servers : InTables(s) <= MaxInTables) /\ FlightsHold /\ RecentHolds
BY DEF ServerHolds, FlightsHold, RecentHolds

LEMMA ServersHoldAfter ==
    ASSUME \A s \in Servers : ServerHolds(s)'
    PROVE  (\A s \in Servers : InTables(s) <= MaxInTables)' /\ FlightsHold' /\ RecentHolds'
BY DEF ServerHolds, FlightsHold, RecentHolds

\* What was on record stays so: a step may remove a row when it says why.
RecordsStay ==
    \A k \in ClientRequests, ask \in Asks, n \in Answers :
        OnRecord(k, ask, n) => OnRecord(k, ask, n)'

LEMMA OtherServers ==
    ASSUME HistoryInv, RecordsStay, NEW t \in Servers, t \in running' <=> t \in running,
           flights'[t] = flights[t], recent'[t] = recent[t], InTables(t)' = InTables(t),
           MaxInTables' = MaxInTables
    PROVE  ServerHolds(t)'
<1>1. ServerHolds(t)
  BY ServersHold DEF HistoryInv, TablesTypeOK
<1>2. KeptKeys(t)' = KeptKeys(t)
  BY DEF KeptKeys
<1>3. ASSUME NEW k \in ClientRequests, recent[t][k] # NoRecord,
             recent[t][k].outcome.kind = "answer", recent[t][k].outcome.saved
      PROVE  OnRecord(k, recent[t][k].ask, recent[t][k].outcome.answer)'
  <2> DEFINE ask == recent[t][k].ask
             n == recent[t][k].outcome.answer
  <2>1. ask \in Asks /\ OnRecord(k, ask, n)
    BY <1>1, <1>3 DEF ServerHolds
  <2>2. n \in Answers
    <3>1. recent[t][k] \in RecentRow
      BY <1>3, HistoryFacts
    <3>2. recent[t][k].outcome \in Tellings
      BY <3>1 DEF RecentRow
    <3> QED BY <1>3, <3>2 DEF Tellings
  <2>3. recent'[t][k].ask = ask /\ recent'[t][k].outcome.answer = n
    OBVIOUS
  <2>4. PICK a, m : a = ask /\ m = n
    OBVIOUS
  <2>5. OnRecord(k, a, m) => OnRecord(k, a, m)'
    BY <2>1, <2>2, <2>4 DEF RecordsStay
  <2>6. OnRecord(k, a, m)'
    BY <2>1, <2>4, <2>5
  <2>7. recent'[t][k].ask = a /\ recent'[t][k].outcome.answer = m
    BY <2>3, <2>4
  <2> HIDE DEF ask, n
  <2> QED BY <2>6, <2>7 DEF OnRecord, Stored
<1>4. \A k \in ClientRequests :
          recent'[t][k] # NoRecord =>
              /\ recent'[t][k].ask \in Asks
              /\ recent'[t][k].outcome.kind = "answer" /\ recent'[t][k].outcome.saved =>
                    OnRecord(k, recent[t][k].ask, recent[t][k].outcome.answer)'
  BY <1>1, <1>3 DEF ServerHolds
<1> QED BY <1>1, <1>2, <1>4 DEF ServerHolds

\* The calls of other servers do not matter where there is one server, and this one
\* does not call.
LEMMA NoCall ==
    ASSUME HistoryInv, NEW s \in running, running' = running, ~Calls(s)'
    PROVE  CallFits'
BY DEF CallFits

LEMMA HeadFacts ==
    ASSUME HistoryInv, NEW s \in Servers, flights[s] # <<>>
    PROVE  /\ Head(flights[s]) = flights[s][1] /\ Head(flights[s]) \in FlightRow
           /\ Len(flights[s]) >= 1 /\ 1 \in 1..Len(flights[s])
           /\ Tail(flights[s]) \in Seq(FlightRow) /\ Len(Tail(flights[s])) = Len(flights[s]) - 1
           /\ \A i \in 1..(Len(flights[s]) - 1) :
                 /\ Tail(flights[s])[i] = flights[s][i + 1] /\ i + 1 \in 1..Len(flights[s])
                 /\ ~Tail(flights[s])[i].calling
                 /\ Tail(flights[s])[i].key \in ClientRequests => Tail(flights[s])[i].ask \in Asks
           /\ Head(flights[s]).key \in ClientRequests => Head(flights[s]).ask \in Asks
<1> DEFINE q == flights[s]
<1>1. q \in Seq(FlightRow) /\ Len(q) \in Nat /\ q # <<>>
  BY HistoryFacts
<1>2. \A i \in 1..Len(q) : (q[i].key \in ClientRequests => q[i].ask \in Asks)
                             /\ (q[i].calling => i = 1)
  BY DEF HistoryInv, FlightsHold
<1> HIDE DEF q
<1>3. Len(q) # 0
  BY <1>1, EmptySeq
<1>4. Len(q) >= 1 /\ 1 \in 1..Len(q) /\ \A i \in 1..(Len(q) - 1) : i + 1 \in 1..Len(q) /\ i + 1 # 1
  BY <1>1, <1>3
<1>5. Head(q) = q[1] /\ q[1] \in FlightRow
  BY <1>1, <1>4
<1>6. Tail(q) \in Seq(FlightRow) /\ Len(Tail(q)) = Len(q) - 1
  BY <1>1
<1>7. \A i \in 1..(Len(q) - 1) : Tail(q)[i] = q[i + 1]
  BY <1>1, <1>6
<1> QED BY <1>2, <1>4, <1>5, <1>6, <1>7 DEF q

\* A request enters: it is told a recent outcome, or it waits at the end.  Only a
\* conversation that is deleted now is told a recent outcome that is not on record.
LEMMA EnterKeeps ==
    ASSUME HistoryInv, NEW s \in running, NEW k \in FlightKeys, NEW ask \in Asks \cup {NoRecord},
           k \in ClientRequests => ask \in Asks, Enter(s, k, ask),
           UNCHANGED <<running, exchanges, tombstones, resultStands, today, recent, calls, retired>>
    PROVE  /\ HistoryInv' /\ DeletedStaysDeleted' /\ ThreadsDoNotFork
           /\ (SavedMeansSaved' \/ told'.key = k)
           /\ ((k \in ClientRequests => ask.conversation \notin tombstones) => SavedMeansSaved')
<1> USE HistoryFacts
<1>1. s \in Servers
  OBVIOUS
<1>2. StoreHolds' /\ ThreadsDoNotFork /\ RecordsStay /\ MaxInTables' = MaxInTables
  BY StoreStays DEF RecordsStay
<1>3. CASE recent[s][k] # NoRecord
  <2>1. /\ flights' = flights /\ recent[s][k].ask = ask
        /\ told' = [key |-> k, outcome |-> recent[s][k].outcome]
    BY <1>3 DEF Enter
  <2>2. recent[s][k] \in RecentRow
    BY <1>1, <1>3
  <2>3. told' \in [key : FlightKeys, outcome : Tellings]
    BY <2>1, <2>2 DEF RecentRow
  <2>4. \A t \in Servers : InTables(t)' = InTables(t)
    BY <2>1 DEF InTables
  <2>5. \A t \in Servers : ServerHolds(t)'
    BY <1>2, <2>1, <2>4, OtherServers
  <2>6. TablesHold'
    BY <2>5, ServersHoldAfter, <2>1, <2>3 DEF TablesHold
  <2>7. CallFits'
    <3>1. CallFits /\ \A a : Fits(a) <=> Fits(a)'
      BY <2>1, StoreStays DEF HistoryInv
    <3>2. ASSUME NEW t \in Servers, running' = {t}, Calls(t)' PROVE Fits(Head(flights[t]).ask)'
      <4>1. Calls(t)
        BY <2>1, <3>2 DEF Calls, Asking, Running
      <4>2. Fits(Head(flights[t]).ask)
        BY <3>1, <3>2, <4>1 DEF CallFits
      <4>3. PICK a : a = Head(flights[t]).ask
        OBVIOUS
      <4>4. Fits(a) /\ Fits(a)'
        BY <3>1, <4>2, <4>3
      <4> QED BY <2>1, <4>3, <4>4 DEF Fits
    <3> QED BY <3>2 DEF CallFits
  <2>8. ASSUME k \in ClientRequests => ask.conversation \notin tombstones
        PROVE  SavedMeansSaved'
    <3>1. ASSUME recent[s][k].outcome.kind = "answer", recent[s][k].outcome.saved
          PROVE  \/ recent[s][k].outcome.answer \in retired
                 \/ \E row \in Range(exchanges) :
                        row.request = k /\ row.answer = recent[s][k].outcome.answer
      <4>1. k \in ClientRequests
        BY <1>1, <1>3, <3>1 DEF HistoryInv, RecentHolds
      <4>2. OnRecord(k, ask, recent[s][k].outcome.answer)
        BY <1>1, <1>3, <2>1, <3>1, <4>1 DEF HistoryInv, RecentHolds
      <4> QED BY <2>8, <4>1, <4>2 DEF OnRecord, Stored
    <3>2. \A row \in Range(exchanges) : \E i \in 1..Len(exchanges) : exchanges[i] = row
      BY DEF Range
    <3>3. DOMAIN exchanges = 1..Len(exchanges)
      OBVIOUS
    <3> DEFINE outcome == recent[s][k].outcome
    <3>4. /\ told'.key = k /\ told'.outcome = outcome
          /\ exchanges' = exchanges /\ retired' = retired
      BY <2>1
    <3>5. ASSUME outcome.kind = "answer", outcome.saved
          PROVE  \/ outcome.answer \in retired
                 \/ \E i \in SavedFor(exchanges, k) : exchanges[i].answer = outcome.answer
      BY <3>1, <3>2, <3>3, <3>5 DEF SavedFor
    <3> HIDE DEF outcome
    <3> QED BY <3>4, <3>5 DEF SavedMeansSaved, SavedFor
  <2>9. HistoryInv'
    BY <1>2, <2>6, <2>7, HistoryParts, PTL
  <2>10. told'.key = k
    BY <2>1
  <2> QED BY <1>2, <2>8, <2>9, <2>10 DEF HistoryInv
<1>4. CASE recent[s][k] = NoRecord
  <2> DEFINE q == flights[s]
             new == [key |-> k, ask |-> ask, calling |-> FALSE]
             queue == Append(q, new)
  <2>1. /\ InTables(s) < MaxInTables /\ told' = NoRecord
        /\ flights' = [flights EXCEPT ![s] = queue]
    BY <1>4 DEF Enter
  <2>2. q \in Seq(FlightRow) /\ Len(q) \in Nat
    BY <1>1
  <2>3. new \in FlightRow /\ new.key = k /\ new.ask = ask /\ ~new.calling
    BY DEF FlightRow
  <2> HIDE DEF new
  <2>4. /\ queue \in Seq(FlightRow) /\ Len(queue) = Len(q) + 1 /\ queue[Len(q) + 1] = new
        /\ \A i \in 1..Len(q) : queue[i] = q[i]
        /\ \A i \in 1..(Len(q) + 1) : i \in 1..Len(q) \/ i = Len(q) + 1
    BY <2>2, <2>3
  <2> DEFINE kept == recent[s]
  <2>5. /\ kept \in [FlightKeys -> RecentRow \cup {NoRecord}]
        /\ recent' = [recent EXCEPT ![s] = kept] /\ running' = running
    BY <1>1
  <2> HIDE DEF queue, q, kept
  <2>6. /\ flights' \in [Servers -> Seq(FlightRow)]
        /\ recent' \in [Servers -> [FlightKeys -> RecentRow \cup {NoRecord}]]
        /\ flights'[s] = queue /\ recent'[s] = kept
        /\ KeptKeys(s)' = KeysOf(kept)
        /\ InTables(s)' = Len(queue) + Cardinality(KeysOf(kept))
        /\ \A t \in Servers : t # s =>
              /\ flights'[t] = flights[t] /\ recent'[t] = recent[t]
              /\ InTables(t)' = InTables(t)
    BY ONLY HistoryInv, <1>1, <2>1, <2>4, <2>5, TablesOf
  <2>7. KeysOf(kept) = KeptKeys(s)
    BY DEF KeptKeys, kept
  <2>8. InTables(s)' <= MaxInTables'
    <3>1. InTables(s) = Len(q) + Cardinality(KeptKeys(s)) /\ InTables(s) \in Nat
      BY <1>1 DEF InTables, KeptKeys, KeysOf, q
    <3>2. Cardinality(KeptKeys(s)) \in Nat
      BY <1>1, FS_CardinalityType DEF HistoryInv, RecentHolds
    <3>3. InTables(s)' = (Len(q) + 1) + Cardinality(KeptKeys(s)) /\ MaxInTables \in Nat
      BY <2>4, <2>6, <2>7
    <3> QED BY <1>2, <2>1, <2>2, <3>1, <3>2, <3>3
  <2>9. ServerHolds(s)'
    <3>1. ServerHolds(s)
      BY <1>1, ServersHold DEF HistoryInv, TablesTypeOK
    <3>2. ASSUME NEW i \in 1..Len(queue)
          PROVE  /\ queue[i].key \in ClientRequests => queue[i].ask \in Asks
                 /\ queue[i].calling => i = 1
      BY <2>4, <3>1, <2>3 DEF ServerHolds, q
    <3>3. \A a, b, n : OnRecord(a, b, n) <=> OnRecord(a, b, n)'
      BY <2>1, StoreStays
    <3>4. \A j \in ClientRequests :
              recent[s][j] # NoRecord =>
                  /\ recent[s][j].ask \in Asks
                  /\ recent[s][j].outcome.kind = "answer" /\ recent[s][j].outcome.saved =>
                        OnRecord(j, recent[s][j].ask, recent[s][j].outcome.answer)'
      BY <3>1 DEF ServerHolds, OnRecord, Stored
    <3>5. IsFiniteSet(KeptKeys(s)')
      BY <2>6, <2>7, <3>1 DEF ServerHolds
    <3> QED BY <2>6, <2>8, <3>1, <3>2, <3>4, <3>5 DEF ServerHolds, kept
  <2>10. \A t \in Servers : ServerHolds(t)'
    BY <1>2, <2>6, <2>9, OtherServers
  <2>11. TablesHold'
    BY <2>10, ServersHoldAfter, <2>1, <2>6 DEF TablesHold
  <2>12. CallFits'
    <3>1. CallFits /\ \A a : Fits(a) <=> Fits(a)'
      BY StoreStays DEF HistoryInv
    <3>2. ASSUME running' = {s}, Calls(s)' PROVE Fits(Head(flights[s]).ask)'
      <4>1. queue # <<>> /\ Head(queue) = queue[1] /\ queue[1].calling
            /\ queue[1].key \in ClientRequests
        BY <2>4, <2>6, <3>2 DEF Calls, Asking, Running
      <4>2. Len(q) # 0
        BY <2>2, <2>3, <2>4, <4>1
      <4>3. queue[1] = q[1] /\ Head(q) = q[1] /\ q # <<>>
        BY <2>2, <4>2, <2>4, EmptySeq
      <4>4. Calls(s)
        BY <4>1, <4>3 DEF Calls, Asking, Running, q
      <4>5. PICK a : a = Head(flights[s]).ask
        OBVIOUS
      <4>6. Fits(a)
        BY <1>1, <3>1, <3>2, <4>4, <4>5 DEF CallFits
      <4>7. Fits(a)'
        BY <3>1, <4>6
      <4>8. Head(flights[s])' = Head(queue) /\ Head(queue).ask = a
        BY <2>6, <4>1, <4>3, <4>5 DEF q
      <4> QED BY <4>7, <4>8 DEF Fits
    <3> QED BY <1>1, <3>2 DEF CallFits
  <2>13. SavedMeansSaved'
    BY <2>1 DEF SavedMeansSaved
  <2>14. HistoryInv'
    BY <1>2, <2>11, <2>12, HistoryParts, PTL
  <2> QED BY <1>2, <2>13, <2>14 DEF HistoryInv
<1> QED BY <1>3, <1>4

\* The head of the queue ends with an outcome that says the truth.
LEMMA LandKeeps ==
    ASSUME HistoryInv, NEW s \in running, flights[s] # <<>>, running' = running,
           NEW k, k = Head(flights[s]).key, NEW ask, ask = Head(flights[s]).ask,
           NEW outcome \in Tellings, Land(s, outcome), RecordsStay,
           k \in Conversations => outcome.kind = "deleted",
           k \in ClientRequests /\ outcome.kind = "answer" /\ outcome.saved =>
               Stored(k, ask, outcome.answer)'
    PROVE  TablesHold' /\ CallFits' /\ SavedMeansSaved'
<1> USE HistoryFacts
<1> DEFINE q == flights[s]
           queue == Tail(q)
           row == [ask |-> ask, outcome |-> outcome]
           kept == [recent[s] EXCEPT ![k] = row]
<1>1. s \in Servers
  OBVIOUS
<1>2. /\ Head(q) = q[1] /\ Head(q) \in FlightRow
      /\ queue \in Seq(FlightRow) /\ Len(queue) = Len(q) - 1 /\ Len(q) \in Nat /\ Len(q) >= 1
      /\ \A i \in 1..(Len(q) - 1) :
            /\ ~queue[i].calling
            /\ queue[i].key \in ClientRequests => queue[i].ask \in Asks
      /\ k \in ClientRequests => ask \in Asks
  BY <1>1, HeadFacts
<1>3. k \in FlightKeys /\ ask \in Asks \cup {NoRecord}
  BY <1>2 DEF FlightRow
<1>4. row \in RecentRow /\ row.ask = ask /\ row.outcome = outcome
  BY <1>3 DEF RecentRow
<1>5. /\ flights' = [flights EXCEPT ![s] = queue]
      /\ recent' = [recent EXCEPT ![s] = kept]
      /\ told' = [key |-> k, outcome |-> outcome]
  BY DEF Land
<1>6. recent[s] \in [FlightKeys -> RecentRow \cup {NoRecord}]
  BY <1>1
<1> HIDE DEF row
<1>7. /\ kept \in [FlightKeys -> RecentRow \cup {NoRecord}] /\ kept[k] = row
      /\ \A j \in FlightKeys : j # k => kept[j] = recent[s][j]
  BY <1>3, <1>4, <1>6
<1> HIDE DEF q, queue, kept
<1>8. /\ flights' \in [Servers -> Seq(FlightRow)]
      /\ recent' \in [Servers -> [FlightKeys -> RecentRow \cup {NoRecord}]]
      /\ flights'[s] = queue /\ recent'[s] = kept
      /\ KeptKeys(s)' = KeysOf(kept)
      /\ InTables(s)' = Len(queue) + Cardinality(KeysOf(kept))
      /\ \A t \in Servers : t # s =>
            /\ flights'[t] = flights[t] /\ recent'[t] = recent[t]
            /\ InTables(t)' = InTables(t)
      /\ MaxInTables' = MaxInTables
  BY ONLY HistoryInv, running' = running, <1>1, <1>2, <1>5, <1>7, TablesOf
<1>9. ServerHolds(s)
  BY <1>1, ServersHold DEF HistoryInv, TablesTypeOK
<1>10. /\ IsFiniteSet(KeysOf(kept)) /\ Cardinality(KeysOf(kept)) <= Cardinality(KeptKeys(s)) + 1
       /\ Cardinality(KeptKeys(s)) \in Nat /\ Cardinality(KeysOf(kept)) \in Nat
  <2>1. KeysOf(kept) \subseteq KeptKeys(s) \cup {k}
    BY <1>7 DEF KeysOf, KeptKeys
  <2>2. IsFiniteSet(KeptKeys(s))
    BY <1>9 DEF ServerHolds
  <2> QED BY <2>1, <2>2, OneMore
<1>11. InTables(s)' <= MaxInTables'
  <2>1. InTables(s) = Len(q) + Cardinality(KeptKeys(s)) /\ InTables(s) <= MaxInTables
        /\ MaxInTables \in Nat
    BY <1>1 DEF InTables, KeptKeys, KeysOf, q
  <2>2. Len(queue) = Len(q) - 1 /\ Len(q) \in Nat
    BY <1>2
  <2>3. InTables(s)' = Len(queue) + Cardinality(KeysOf(kept)) /\ MaxInTables' = MaxInTables
    BY <1>8
  <2> QED BY ONLY <1>10, <2>1, <2>2, <2>3
<1>12. ServerHolds(s)'
  <2>1. \A i \in 1..Len(queue) : /\ queue[i].key \in ClientRequests => queue[i].ask \in Asks
                                 /\ queue[i].calling => i = 1
    BY <1>2
  <2>2. ASSUME NEW j \in ClientRequests, kept[j] # NoRecord
        PROVE  /\ kept[j].ask \in Asks
               /\ kept[j].outcome.kind = "answer" /\ kept[j].outcome.saved =>
                     \E a, n : a = kept[j].ask /\ n = kept[j].outcome.answer /\ OnRecord(j, a, n)'
    <3>1. CASE j = k
      BY <1>2, <1>4, <1>7, <3>1 DEF OnRecord
    <3>2. CASE j # k
      <4>1. kept[j] = recent[s][j] /\ kept[j] \in RecentRow
        BY <1>7, <2>2, <3>2
      <4>2. kept[j].ask \in Asks /\ kept[j].outcome \in Tellings
        BY <1>9, <2>2, <4>1 DEF ServerHolds, RecentRow
      <4>3. ASSUME kept[j].outcome.kind = "answer", kept[j].outcome.saved
            PROVE  \E a, n :
                       a = kept[j].ask /\ n = kept[j].outcome.answer /\ OnRecord(j, a, n)'
        <5>1. kept[j].outcome.answer \in Answers
          BY <4>2, <4>3 DEF Tellings
        <5>2. PICK a, n : a = kept[j].ask /\ n = kept[j].outcome.answer
          OBVIOUS
        <5>3. OnRecord(j, a, n)
          BY <1>9, <2>2, <4>1, <4>3, <5>2 DEF ServerHolds
        <5>4. OnRecord(j, a, n)'
          BY <4>2, <5>1, <5>2, <5>3 DEF RecordsStay
        <5> QED BY <5>2, <5>4
      <4> QED BY <4>2, <4>3
    <3> QED BY <3>1, <3>2
  <2>3. \A c \in Conversations : kept[c] # NoRecord => kept[c].outcome.kind = "deleted"
    BY <1>4, <1>7, <1>9 DEF ServerHolds
  <2>4. s \in running'
    OBVIOUS
  <2>5. \A j \in ClientRequests :
            recent'[s][j] # NoRecord =>
                /\ recent'[s][j].ask \in Asks
                /\ recent'[s][j].outcome.kind = "answer" /\ recent'[s][j].outcome.saved =>
                      OnRecord(j, recent[s][j].ask, recent[s][j].outcome.answer)'
    <3>1. ASSUME NEW j \in ClientRequests, kept[j].outcome.kind = "answer", kept[j].outcome.saved,
                 kept[j] # NoRecord
          PROVE  OnRecord(j, recent[s][j].ask, recent[s][j].outcome.answer)'
      <4>1. PICK a, n : a = kept[j].ask /\ n = kept[j].outcome.answer /\ OnRecord(j, a, n)'
        BY <2>2, <3>1
      <4>2. a = recent'[s][j].ask /\ n = recent'[s][j].outcome.answer
        BY <1>8, <4>1
      <4> QED BY <4>1, <4>2 DEF OnRecord, Stored
    <3> QED BY <1>8, <2>2, <3>1
  <2>6. \A c \in Conversations : recent'[s][c] # NoRecord => recent'[s][c].outcome.kind = "deleted"
    BY <1>8, <2>3
  <2> QED BY <1>8, <1>10, <1>11, <2>1, <2>4, <2>5, <2>6 DEF ServerHolds
<1>13. \A t \in Servers : ServerHolds(t)'
  BY <1>8, <1>12, OtherServers
<1>14. told' \in [key : FlightKeys, outcome : Tellings]
  BY <1>3, <1>5
<1>15. TablesHold'
  BY <1>8, <1>13, <1>14, ServersHoldAfter DEF TablesHold
<1>16. CallFits'
  <2>1. ASSUME Calls(s)' PROVE FALSE
    <3>1. queue # <<>> /\ Head(queue).calling
      BY <1>8, <2>1 DEF Calls, Asking, Running
    <3>2. Len(queue) # 0 /\ Len(queue) \in Nat /\ Head(queue) = queue[1]
      BY <1>2, <3>1, EmptySeq
    <3>3. 1 \in 1..(Len(q) - 1)
      BY <1>2, <3>2
    <3> QED BY <1>2, <3>1, <3>2, <3>3
  <2> QED BY <2>1, NoCall
<1>17. SavedMeansSaved'
  BY <1>3, <1>5 DEF Range, Stored, SavedFor, SavedMeansSaved
<1> QED BY <1>15, <1>16, <1>17

\* The head ends without a change of the store.
LEMMA LandQuietly ==
    ASSUME HistoryInv, NEW s \in running, flights[s] # <<>>,
           NEW k, k = Head(flights[s]).key, NEW ask, ask = Head(flights[s]).ask,
           NEW outcome \in Tellings, Land(s, outcome),
           UNCHANGED <<running, exchanges, tombstones, resultStands, today, calls, retired>>,
           k \in ClientRequests,
           outcome.kind = "answer" /\ outcome.saved => Stored(k, ask, outcome.answer)
    PROVE  HistoryStep
<1>1. StoreHolds' /\ ThreadsDoNotFork /\ RecordsStay
  BY StoreStays DEF RecordsStay
<1>2. outcome.kind = "answer" /\ outcome.saved => Stored(k, ask, outcome.answer)'
  BY DEF Stored
<1>3. k \notin Conversations
  BY HistoryFacts
<1>4. TablesHold' /\ CallFits' /\ SavedMeansSaved'
  BY <1>1, <1>2, <1>3, LandKeeps
<1>5. HistoryInv'
  BY <1>1, <1>4, HistoryParts, PTL
<1> QED BY <1>1, <1>4, <1>5 DEF HistoryStep, HistoryInv

LEMMA AnswerFromStoreKeeps ==
    ASSUME HistoryInv, NEW s \in Servers, AnswerFromStore(s)
    PROVE  HistoryStep
<1> USE HistoryFacts
<1> DEFINE k == Head(flights[s]).key
           ask == Head(flights[s]).ask
<1>1. s \in running /\ flights[s] # <<>> /\ k \in ClientRequests
  BY DEF AnswerFromStore, Waits, Asking, Running
<1>2. UNCHANGED <<running, exchanges, tombstones, resultStands, today, calls, retired>>
  BY DEF AnswerFromStore
<1>3. CASE Land(s, Failed)
  <2>1. Failed \in Tellings /\ Failed.kind = "failed"
    BY DEF Failed, Tellings
  <2> QED BY <1>1, <1>2, <1>3, <2>1, LandQuietly
<1>4. CASE \E i \in SavedFor(Visible, k) :
               Visible[i].ask = ask /\ Land(s, Answer(Visible[i].answer, TRUE))
  <2>1. PICK i \in SavedFor(Visible, k) :
            Visible[i].ask = ask /\ Land(s, Answer(Visible[i].answer, TRUE))
    BY <1>4
  <2> DEFINE row == Visible[i]
             outcome == Answer(row.answer, TRUE)
  <2>2. row \in Range(Visible) /\ row.request = k
    BY DEF SavedFor, Range
  <2>3. row \in Range(exchanges) /\ row \in Rows
    BY VisibleFacts, <2>2 DEF SavedFor
  <2>4. Land(s, outcome) /\ row.ask = ask
    BY <2>1
  <2> HIDE DEF row
  <2>5. outcome \in Tellings /\ outcome.answer = row.answer
    BY <2>3, RowFacts DEF Answer, Tellings
  <2>6. Stored(k, ask, outcome.answer)
    BY <2>2, <2>3, <2>4, <2>5 DEF Stored
  <2> HIDE DEF outcome, k, ask
  <2>7. k = Head(flights[s]).key /\ ask = Head(flights[s]).ask
    BY DEF k, ask
  <2> QED BY <1>1, <1>2, <2>4, <2>5, <2>6, <2>7, LandQuietly
<1>5. Land(s, Failed)
        \/ \E i \in SavedFor(Visible, k) :
               Visible[i].ask = ask /\ Land(s, Answer(Visible[i].answer, TRUE))
  BY DEF AnswerFromStore
<1> QED BY <1>3, <1>4, <1>5

LEMMA ProviderFailsKeeps ==
    ASSUME HistoryInv, NEW s \in Servers, ProviderFails(s)
    PROVE  HistoryStep
<1>1. /\ s \in running /\ flights[s] # <<>> /\ Head(flights[s]).key \in ClientRequests
      /\ Land(s, Failed)
  BY DEF ProviderFails, Calls, Asking, Running
<1>2. UNCHANGED <<running, exchanges, tombstones, resultStands, today, calls, retired>>
  BY DEF ProviderFails
<1>3. Failed \in Tellings /\ Failed.kind = "failed"
  BY DEF Failed, Tellings
<1> QED BY <1>1, <1>2, <1>3, LandQuietly

\* Servers that go on calling call for what they called for.
LEMMA CallsStay ==
    ASSUME HistoryInv, running' = running, \A ask \in Asks : Fits(ask) => Fits(ask)',
           \A t \in Servers : Calls(t)' => Calls(t) /\ Head(flights[t])' = Head(flights[t])
    PROVE  CallFits'
<1>1. ASSUME NEW t \in Servers, running' = {t}, Calls(t)' PROVE Fits(Head(flights[t]).ask)'
  <2>1. Calls(t) /\ Head(flights[t])' = Head(flights[t])
    BY <1>1
  <2>2. Fits(Head(flights[t]).ask)
    BY <1>1, <2>1 DEF HistoryInv, CallFits
  <2>3. Head(flights[t]).ask \in Asks
    BY <2>1, HeadFacts DEF Calls, Asking, Running
  <2>4. PICK a \in Asks : a = Head(flights[t]).ask
    BY <2>3
  <2>5. Fits(a)'
    BY <2>2, <2>4
  <2>6. (Head(flights[t]).ask)' = a
    BY <2>1, <2>4
  <2> QED BY <2>5, <2>6 DEF Fits
<1> QED BY <1>1 DEF CallFits

\* A step that leaves the queues and the outcomes alone.
LEMMA TablesStay ==
    ASSUME HistoryInv, RecordsStay, running' = running, flights' = flights, recent' = recent,
           told' = NoRecord
    PROVE  TablesHold' /\ SavedMeansSaved'
<1>1. \A t \in Servers : InTables(t)' = InTables(t)
  BY DEF InTables
<1>2. MaxInTables' = MaxInTables
  BY DEF MaxInTables
<1>3. \A t \in Servers : ServerHolds(t)'
  BY <1>1, <1>2, OtherServers
<1>4. TablesHold'
  BY <1>3, HistoryFacts, ServersHoldAfter DEF TablesHold
<1> QED BY <1>4 DEF SavedMeansSaved

LEMMA PriorTyped ==
    ASSUME NEW ask \in Asks PROVE ask.prior \in Seq(Answers)
BY InterpretationAssumption DEF Asks, BoundedSeq, SeqOf

LEMMA CallProviderKeeps ==
    ASSUME HistoryInv, NEW s \in Servers, CallProvider(s)
    PROVE  HistoryStep
<1> USE HistoryFacts
<1> DEFINE q == flights[s]
           head == q[1]
           new == [head EXCEPT !.calling = TRUE]
           queue == [q EXCEPT ![1] = new]
           kept == recent[s]
           ask == Head(flights[s]).ask
<1>1. /\ s \in running /\ q # <<>> /\ Head(q).key \in ClientRequests /\ FitsThread(ask)
      /\ told' = NoRecord
      /\ UNCHANGED <<running, exchanges, tombstones, resultStands, today, recent, calls, retired>>
      /\ flights' = [flights EXCEPT ![s][1].calling = TRUE]
  BY DEF CallProvider, Waits, Asking, Running
<1>2. /\ Head(q) = head /\ head \in FlightRow /\ Len(q) >= 1 /\ 1 \in 1..Len(q)
      /\ q \in Seq(FlightRow) /\ Len(q) \in Nat /\ ask \in Asks
  BY <1>1, HeadFacts
<1>3. /\ flights' = [flights EXCEPT ![s] = queue]
      /\ kept \in [FlightKeys -> RecentRow \cup {NoRecord}]
      /\ recent' = [recent EXCEPT ![s] = kept] /\ running' = running
  BY <1>1
<1>4. new \in FlightRow /\ new.key = head.key /\ new.ask = head.ask
  <2> HIDE DEF head
  <2> QED BY <1>2 DEF FlightRow
<1> HIDE DEF new
<1>5. /\ queue \in Seq(FlightRow) /\ Len(queue) = Len(q) /\ queue[1] = new
      /\ \A i \in 1..Len(q) : i # 1 => queue[i] = q[i]
  <2> HIDE DEF q
  <2> QED BY <1>2, <1>4, ExceptSeq
<1> HIDE DEF queue, kept
<1>6. /\ flights' \in [Servers -> Seq(FlightRow)]
      /\ recent' \in [Servers -> [FlightKeys -> RecentRow \cup {NoRecord}]]
      /\ flights'[s] = queue /\ recent'[s] = kept
      /\ KeptKeys(s)' = KeysOf(kept)
      /\ InTables(s)' = Len(queue) + Cardinality(KeysOf(kept))
      /\ \A t \in Servers : t # s =>
            /\ flights'[t] = flights[t] /\ recent'[t] = recent[t]
            /\ InTables(t)' = InTables(t)
      /\ MaxInTables' = MaxInTables
  BY ONLY HistoryInv, s \in Servers, <1>3, <1>5, TablesOf
<1>7. StoreHolds' /\ ThreadsDoNotFork /\ RecordsStay
  BY <1>1, StoreStays DEF RecordsStay
<1>8. ServerHolds(s)
  BY ServersHold DEF HistoryInv, TablesTypeOK
<1>9. ServerHolds(s)'
  <2>1. InTables(s)' = InTables(s)
    BY <1>5, <1>6 DEF InTables, KeysOf, kept, q
  <2>2. \A i \in 1..Len(queue) : /\ queue[i].key \in ClientRequests => queue[i].ask \in Asks
                                 /\ queue[i].calling => i = 1
    BY <1>8, <1>2, <1>4, <1>5 DEF ServerHolds
  <2>3. IsFiniteSet(KeptKeys(s)')
    BY <1>6, <1>8 DEF ServerHolds, KeptKeys, kept
  <2>4. \A j \in ClientRequests :
            recent'[s][j] # NoRecord =>
                /\ recent'[s][j].ask \in Asks
                /\ recent'[s][j].outcome.kind = "answer" /\ recent'[s][j].outcome.saved =>
                      OnRecord(j, recent[s][j].ask, recent[s][j].outcome.answer)'
    BY <1>1, <1>8 DEF ServerHolds, OnRecord, Stored
  <2> QED BY <1>1, <1>6, <1>8, <2>1, <2>2, <2>3, <2>4 DEF ServerHolds
<1>10. \A t \in Servers : ServerHolds(t)'
  BY <1>1, <1>6, <1>7, <1>9, OtherServers
<1>11. TablesHold'
  BY <1>1, <1>6, <1>10, ServersHoldAfter DEF TablesHold
<1>12. Fits(ask)
  <2>1. CASE ask.prior = <<>>
    BY <1>1, <2>1 DEF FitsThread, Fits
  <2>2. CASE ask.prior # <<>>
    <3> DEFINE prior == ask.prior
               seen == Thread(Visible, ask.conversation)
    <3>1. IsSuffix(prior, seen)
      BY <1>1, <2>2 DEF FitsThread
    <3>2. prior \in Seq(Answers)
      BY <1>2, PriorTyped
    <3>3. RowsInOrder
      BY DEF HistoryInv
    <3>4. PICK p \in Seq(Answers) : Thread(exchanges, ask.conversation) = p \o seen
      BY <3>3, ThreadEnds
    <3>5. seen \in Seq(Answers)
      BY VisibleFacts, ThreadFacts
    <3> HIDE DEF prior, seen
    <3>6. IsSuffix(prior, p \o seen)
      BY <3>1, <3>2, <3>5, SuffixStays
    <3> QED BY <2>2, <3>4, <3>6 DEF Fits, prior
  <2> QED BY <2>1, <2>2
<1>13. CallFits'
  <2>1. Head(queue).ask = ask
    BY <1>2, <1>5, <1>4 DEF q
  <2>2. PICK a : a = ask
    OBVIOUS
  <2>3. Fits(a)'
    BY <1>1, StoreStays, <1>12, <2>2
  <2>4. (Head(flights[s]).ask)' = a
    BY <1>6, <2>1, <2>2
  <2>5. Fits(Head(flights[s]).ask)'
    BY <2>3, <2>4 DEF Fits
  <2> QED BY <1>1, <2>5 DEF CallFits
<1>14. SavedMeansSaved'
  BY <1>1 DEF SavedMeansSaved
<1>15. HistoryInv'
  BY <1>7, <1>11, <1>13, HistoryParts, PTL
<1> QED BY <1>7, <1>14, <1>15 DEF HistoryStep, HistoryInv

LEMMA ForgetKeeps ==
    ASSUME HistoryInv, NEW s \in Servers, NEW k \in FlightKeys, Forget(s, k)
    PROVE  HistoryStep
<1> USE HistoryFacts
<1> DEFINE queue == flights[s]
           kept == [recent[s] EXCEPT ![k] = NoRecord]
<1>1. /\ UNCHANGED <<running, exchanges, tombstones, resultStands, today, flights, calls, retired>>
      /\ told' = NoRecord
      /\ flights' = [flights EXCEPT ![s] = queue] /\ queue \in Seq(FlightRow)
      /\ recent' = [recent EXCEPT ![s] = kept] /\ running' = running
  BY DEF Forget
<1>2. /\ kept \in [FlightKeys -> RecentRow \cup {NoRecord}] /\ kept[k] = NoRecord
      /\ \A j \in FlightKeys : j # k => kept[j] = recent[s][j]
  OBVIOUS
<1> HIDE DEF queue, kept
<1>3. /\ flights' \in [Servers -> Seq(FlightRow)]
      /\ recent' \in [Servers -> [FlightKeys -> RecentRow \cup {NoRecord}]]
      /\ flights'[s] = queue /\ recent'[s] = kept
      /\ KeptKeys(s)' = KeysOf(kept)
      /\ InTables(s)' = Len(queue) + Cardinality(KeysOf(kept))
      /\ \A t \in Servers : t # s =>
            /\ flights'[t] = flights[t] /\ recent'[t] = recent[t]
            /\ InTables(t)' = InTables(t)
      /\ MaxInTables' = MaxInTables
  BY ONLY HistoryInv, s \in Servers, <1>1, <1>2, TablesOf
<1>4. StoreHolds' /\ ThreadsDoNotFork /\ RecordsStay
  BY <1>1, StoreStays DEF RecordsStay
<1>5. ServerHolds(s)
  BY ServersHold DEF HistoryInv, TablesTypeOK
<1>6. /\ IsFiniteSet(KeysOf(kept)) /\ Cardinality(KeysOf(kept)) <= Cardinality(KeptKeys(s))
      /\ Cardinality(KeptKeys(s)) \in Nat /\ Cardinality(KeysOf(kept)) \in Nat
  <2>1. KeysOf(kept) \subseteq KeptKeys(s)
    BY <1>2 DEF KeysOf, KeptKeys
  <2>2. IsFiniteSet(KeptKeys(s))
    BY <1>5 DEF ServerHolds
  <2> QED BY <2>1, <2>2, FS_Subset, FS_CardinalityType
<1>7. ServerHolds(s)'
  <2>1. InTables(s)' <= MaxInTables'
    <3>1. InTables(s) = Len(queue) + Cardinality(KeptKeys(s)) /\ InTables(s) <= MaxInTables
          /\ MaxInTables \in Nat /\ Len(queue) \in Nat
      BY <1>5 DEF InTables, KeptKeys, KeysOf, queue, ServerHolds
    <3> QED BY <1>3, <1>6, <3>1
  <2>2. \A j \in ClientRequests :
            recent'[s][j] # NoRecord =>
                /\ recent'[s][j].ask \in Asks
                /\ recent'[s][j].outcome.kind = "answer" /\ recent'[s][j].outcome.saved =>
                      OnRecord(j, recent[s][j].ask, recent[s][j].outcome.answer)'
    <3> SUFFICES ASSUME NEW j \in ClientRequests, recent'[s][j] # NoRecord
                 PROVE  /\ recent'[s][j].ask \in Asks
                        /\ recent'[s][j].outcome.kind = "answer" /\ recent'[s][j].outcome.saved =>
                           OnRecord(j, recent[s][j].ask, recent[s][j].outcome.answer)'
      OBVIOUS
    <3>1. recent'[s][j] = recent[s][j] /\ recent[s][j] # NoRecord
      BY <1>2, <1>3
    <3>2. PICK a, n : a = recent[s][j].ask /\ n = recent[s][j].outcome.answer
      OBVIOUS
    <3>3. OnRecord(j, a, n) <=> OnRecord(j, a, n)'
      BY <1>1, StoreStays
    <3>4. /\ recent[s][j].ask \in Asks
          /\ recent[s][j].outcome.kind = "answer" /\ recent[s][j].outcome.saved =>
                OnRecord(j, a, n)
      BY <1>5, <3>1, <3>2 DEF ServerHolds
    <3>5. (recent[s][j].ask)' = a /\ (recent[s][j].outcome.answer)' = n
      BY <3>1, <3>2
    <3>6. recent'[s][j].outcome.kind = "answer" /\ recent'[s][j].outcome.saved =>
              OnRecord(j, recent[s][j].ask, recent[s][j].outcome.answer)'
      BY <3>1, <3>3, <3>4, <3>5 DEF OnRecord, Stored
    <3> QED BY <3>1, <3>4, <3>6
  <2>3. \A c \in Conversations : recent'[s][c] # NoRecord => recent'[s][c].outcome.kind = "deleted"
    BY <1>2, <1>3, <1>5 DEF ServerHolds
  <2> QED BY <1>1, <1>3, <1>5, <1>6, <2>1, <2>2, <2>3 DEF ServerHolds
<1>8. \A t \in Servers : ServerHolds(t)'
  BY <1>1, <1>3, <1>4, <1>7, OtherServers
<1>9. TablesHold'
  BY <1>1, <1>3, <1>8, ServersHoldAfter DEF TablesHold
<1>10. CallFits'
  BY <1>1, StoreStays, CallsStay DEF Calls, Asking, Running
<1>11. SavedMeansSaved'
  BY <1>1 DEF SavedMeansSaved
<1>12. HistoryInv'
  BY <1>4, <1>9, <1>10, HistoryParts, PTL
<1> QED BY <1>4, <1>11, <1>12 DEF HistoryStep, HistoryInv

LEMMA RestartServerKeeps ==
    ASSUME HistoryInv, NEW s \in Servers, RestartServer(s)
    PROVE  HistoryStep
<1> USE HistoryFacts
<1> DEFINE queue == <<>>
           kept == [k \in FlightKeys |-> NoRecord]
<1>1. /\ UNCHANGED <<running, exchanges, tombstones, resultStands, today, calls, retired>>
      /\ told' = NoRecord
      /\ flights' = [flights EXCEPT ![s] = queue]
      /\ recent' = [recent EXCEPT ![s] = kept] /\ running' = running
  BY DEF RestartServer
<1>2. /\ kept \in [FlightKeys -> RecentRow \cup {NoRecord}]
      /\ \A j \in FlightKeys : kept[j] = NoRecord
      /\ queue \in Seq(FlightRow) /\ Len(queue) = 0
  OBVIOUS
<1> HIDE DEF kept
<1>3. /\ flights' \in [Servers -> Seq(FlightRow)]
      /\ recent' \in [Servers -> [FlightKeys -> RecentRow \cup {NoRecord}]]
      /\ flights'[s] = queue /\ recent'[s] = kept
      /\ KeptKeys(s)' = KeysOf(kept)
      /\ InTables(s)' = Len(queue) + Cardinality(KeysOf(kept))
      /\ \A t \in Servers : t # s =>
            /\ flights'[t] = flights[t] /\ recent'[t] = recent[t]
            /\ InTables(t)' = InTables(t)
      /\ MaxInTables' = MaxInTables
  BY ONLY HistoryInv, s \in Servers, <1>1, <1>2, TablesOf
<1>4. StoreHolds' /\ ThreadsDoNotFork /\ RecordsStay
  BY <1>1, StoreStays DEF RecordsStay
<1>5. KeysOf(kept) = {} /\ IsFiniteSet(KeysOf(kept)) /\ Cardinality(KeysOf(kept)) = 0
  BY <1>2, FS_EmptySet DEF KeysOf
<1>6. ServerHolds(s)'
  <2>1. InTables(s)' <= MaxInTables'
    BY <1>2, <1>3, <1>5
  <2>2. \A j \in FlightKeys : recent'[s][j] = NoRecord
    BY <1>2, <1>3
  <2>3. \A j : j \in ClientRequests \/ j \in Conversations => j \in FlightKeys
    OBVIOUS
  <2>4. flights'[s] = <<>> /\ Len(flights'[s]) = 0 /\ IsFiniteSet(KeptKeys(s)')
    BY <1>2, <1>3, <1>5
  <2>5. \A i \in 1..Len(flights'[s]) : FALSE
    BY <2>4
  <2> QED BY <2>1, <2>2, <2>3, <2>4, <2>5 DEF ServerHolds
<1>7. \A t \in Servers : ServerHolds(t)'
  BY <1>1, <1>3, <1>4, <1>6, OtherServers
<1>8. TablesHold'
  BY <1>1, <1>3, <1>7, ServersHoldAfter DEF TablesHold
<1>9. CallFits'
  <2>1. \A ask : Fits(ask) <=> Fits(ask)'
    BY <1>1, StoreStays
  <2>2. \A t \in Servers : Calls(t)' => Calls(t) /\ Head(flights[t])' = Head(flights[t])
    BY <1>1, <1>3 DEF Calls, Asking, Running
  <2> QED BY <1>1, <2>1, <2>2, CallsStay
<1>10. SavedMeansSaved'
  BY <1>1 DEF SavedMeansSaved
<1>11. HistoryInv'
  BY <1>4, <1>8, <1>9, HistoryParts, PTL
<1> QED BY <1>4, <1>10, <1>11 DEF HistoryStep, HistoryInv

\* The table is written: what it loses is retired or deleted.
Written(rows) ==
    /\ rows \in Seq(Rows) /\ Len(rows) <= MaxPerOwner /\ InOrder(rows, Later)
    /\ \A row \in Range(rows) : row.day <= today /\ row.ask.conversation \notin tombstones

LEMMA StoreWritten ==
    ASSUME HistoryInv, calls < MaxCalls, NEW rows, exchanges' = rows, Written(rows),
           UNCHANGED <<running, tombstones, resultStands, today>>, calls' = calls + 1,
           retired' = retired \cup {row.answer : row \in Range(exchanges) \ Range(exchanges')}
    PROVE  StoreHolds' /\ RecordsStay
<1> USE HistoryFacts
<1>1. retired' \subseteq Answers
  BY RowFacts DEF Range
<1>2. calls' \in 0..MaxCalls
  OBVIOUS
<1>3. RowsInOrder' /\ DeletedStaysDeleted'
  BY DEF Range, Written, RowsInOrder, DeletedStaysDeleted
<1>4. RecordsStay
  BY DEF RecordsStay, OnRecord, Stored
<1> QED BY <1>1, <1>2, <1>3, <1>4 DEF StoreHolds, Written

\* What Pruned leaves of the table can be written.
LEMMA PrunedIsWritten ==
    ASSUME HistoryInv
    PROVE  /\ Written(exchanges) /\ Written(Pruned(exchanges))
           /\ Range(Pruned(exchanges)) \subseteq Range(exchanges)
<1>1. Written(exchanges)
  BY HistoryFacts DEF Range, HistoryInv, RowsInOrder, DeletedStaysDeleted, Written
<1>2. /\ Pruned(exchanges) \in Seq(Rows) /\ Len(Pruned(exchanges)) <= MaxPerOwner
      /\ Range(Pruned(exchanges)) \subseteq Range(exchanges)
      /\ InOrder(Pruned(exchanges), Later)
  BY <1>1, PrunedFacts DEF Written
<1> QED BY <1>1, <1>2 DEF Written

LEMMA AddedIsWritten ==
    ASSUME HistoryInv, NEW row \in Rows, row.day = today, row.ask.conversation \notin tombstones
    PROVE  LET rows == Pruned(Append(Pruned(exchanges), row))
           IN  /\ Written(rows) /\ rows # <<>> /\ rows[Len(rows)] = row /\ row \in Range(rows)
<1> DEFINE kept == Pruned(exchanges)
           a == Append(kept, row)
           rows == Pruned(a)
<1>1. Written(kept)
  BY PrunedIsWritten
<1> HIDE DEF kept
<1>2. kept \in Seq(Rows) /\ InOrder(kept, Later) /\ Range(kept) \subseteq Rows
  BY <1>1 DEF Written, Range
<1>3. a \in Seq(Rows) /\ Range(a) = Range(kept) \cup {row}
  BY <1>2, RangeOfAppend
<1>4. InOrder(a, Later)
  BY <1>1, <1>2, InOrderAppend DEF Written, Later
<1>5. rows # <<>> /\ rows[Len(rows)] = row /\ row \in Range(rows)
  BY <1>2, AddedIsLast
<1> HIDE DEF a
<1>6. /\ rows \in Seq(Rows) /\ Len(rows) <= MaxPerOwner /\ Range(rows) \subseteq Range(a)
      /\ InOrder(rows, Later)
  BY <1>3, <1>4, PrunedFacts
<1>7. row.day <= today
  BY HistoryFacts, RowFacts
<1>8. Written(rows)
  BY <1>1, <1>3, <1>6, <1>7 DEF Written
<1> QED BY <1>5, <1>8 DEF kept, a

\* Where an answer to a request that is called for is kept, it is in its place.
LEMMA ForkFree ==
    ASSUME HistoryInv, NEW s \in running, Calls(s), NEW ask, ask = Head(flights[s]).ask,
           exchanges'[Len(exchanges')].ask = ask
               \/ exchanges'[Len(exchanges')] \in Range(exchanges) \/ exchanges' = <<>>
    PROVE  ThreadsDoNotFork
<1>1. s \in Servers
  BY HistoryFacts
<1>2. running \in {{t} : t \in Servers} => running = {s}
  OBVIOUS
<1>3. running = {s} => Fits(ask)
  BY <1>1 DEF HistoryInv, CallFits
<1> DEFINE new == exchanges'[Len(exchanges')]
<1>4. ASSUME running \in {{t} : t \in Servers}, exchanges' # <<>>, new \notin Range(exchanges)
      PROVE  IF new.ask.prior = <<>> THEN Thread(Visible, new.ask.conversation) = <<>>
             ELSE IsSuffix(new.ask.prior, Thread(exchanges, new.ask.conversation))
  BY <1>2, <1>3, <1>4 DEF Fits
<1> QED BY <1>4 DEF ThreadsDoNotFork

LEMMA ProviderAnswersKeeps ==
    ASSUME HistoryInv, NEW s \in Servers, ProviderAnswers(s)
    PROVE  HistoryStep
<1> USE HistoryFacts
<1> DEFINE k == Head(flights[s]).key
           ask == Head(flights[s]).ask
           n == calls + 1
           kept == Pruned(exchanges)
           row == [request |-> k, ask |-> ask, answer |-> n, day |-> today]
           added == Pruned(Append(kept, row))
<1>1. /\ s \in running /\ flights[s] # <<>> /\ Calls(s) /\ k \in ClientRequests
      /\ calls < MaxCalls /\ calls' = n
      /\ UNCHANGED <<running, tombstones, resultStands, today>> /\ running' = running
      /\ retired' = retired \cup {r.answer : r \in Range(exchanges) \ Range(exchanges')}
  BY DEF ProviderAnswers, Calls, Asking, Running
<1>2. ask \in Asks /\ n \in Answers /\ k \notin Conversations
  BY <1>1, HeadFacts DEF Answers
<1>3. PICK j, a : j = k /\ a = ask
  OBVIOUS
<1>4. ASSUME NEW rows, exchanges' = rows, Written(rows), NEW outcome \in Tellings,
             Land(s, outcome),
             rows # <<>> => rows[Len(rows)].ask = ask \/ rows[Len(rows)] \in Range(exchanges),
             outcome.kind = "answer" /\ outcome.saved =>
                 \E r \in Range(rows) : r.request = k /\ r.ask = ask /\ r.answer = outcome.answer
      PROVE  HistoryStep
  <2>1. StoreHolds' /\ RecordsStay
    BY <1>1, <1>4, StoreWritten
  <2>2. ThreadsDoNotFork
    BY <1>1, <1>4, ForkFree
  <2>3. outcome.kind = "answer" /\ outcome.saved => Stored(j, a, outcome.answer)'
    BY <1>3, <1>4 DEF Stored
  <2>4. j = Head(flights[s]).key /\ a = Head(flights[s]).ask /\ j \notin Conversations
    BY <1>2, <1>3
  <2>5. TablesHold' /\ CallFits' /\ SavedMeansSaved'
    BY ONLY HistoryInv, <1>1, <1>4, <2>1, <2>3, <2>4, LandKeeps
  <2>6. HistoryInv'
    BY <2>1, <2>5, HistoryParts, PTL
  <2> QED BY <2>1, <2>2, <2>5, <2>6 DEF HistoryStep, HistoryInv
<1>5. Failed \in Tellings /\ Failed.kind = "failed"
  BY DEF Failed, Tellings
<1>6. \A m \in Answers, saved \in BOOLEAN :
          /\ Answer(m, saved) \in Tellings /\ Answer(m, saved).answer = m
          /\ Answer(m, saved).saved = saved
  BY DEF Answer, Tellings
<1>7. /\ Written(exchanges) /\ Written(kept) /\ Range(kept) \subseteq Range(exchanges)
      /\ kept \in Seq(Rows)
  BY PrunedIsWritten DEF Written
<1>8. \A rows \in Seq(Rows) : rows # <<>> => rows[Len(rows)] \in Range(rows)
  BY LastSplit
<1>9. CASE exchanges' = exchanges /\ Land(s, Answer(n, FALSE))
  BY <1>8, <1>2, <1>6, <1>9, <1>4, <1>7
<1>10. CASE exchanges' = exchanges /\ Land(s, Failed)
  BY <1>8, <1>10, <1>4, <1>5, <1>7
<1>11. CASE /\ Storable(ask) /\ SavedFor(kept, k) = {} /\ exchanges' = added
            /\ Land(s, Answer(n, TRUE))
  <2>1. /\ row \in Rows /\ row.request = k /\ row.ask = ask /\ row.answer = n /\ row.day = today
    BY <1>1, <1>2 DEF Rows
  <2> HIDE DEF row
  <2>2. row.ask.conversation \notin tombstones
    BY <1>11, <2>1 DEF Storable
  <2>3. Written(added) /\ added[Len(added)] = row /\ row \in Range(added)
    BY <2>1, <2>2, AddedIsWritten
  <2>4. PICK outcome \in Tellings : outcome = Answer(n, TRUE) /\ outcome.answer = n
    BY <1>2, <1>6
  <2>5. Land(s, outcome) /\ exchanges' = added
    BY <1>11, <2>4
  <2> HIDE DEF ask, k, n, added
  <2> QED BY <1>4, <2>1, <2>3, <2>4, <2>5
<1>12. CASE \E i \in SavedFor(kept, k) :
                kept[i].ask = ask /\ exchanges' = kept /\ Land(s, Answer(kept[i].answer, TRUE))
  <2>1. PICK i \in SavedFor(kept, k) :
            kept[i].ask = ask /\ exchanges' = kept /\ Land(s, Answer(kept[i].answer, TRUE))
    BY <1>12
  <2> DEFINE r == kept[i]
  <2>2. r \in Range(kept) /\ r \in Rows /\ r.request = k
    <3>1. i \in DOMAIN kept /\ r.request = k
      BY DEF SavedFor
    <3>2. \A x \in DOMAIN kept : kept[x] \in Rows /\ kept[x] \in Range(kept)
      <4> HIDE DEF kept
      <4> QED BY <1>7 DEF Range
    <3> QED BY <3>1, <3>2
  <2>3. r.answer \in Answers
    BY <2>2, RowFacts
  <2>4. PICK outcome \in Tellings : outcome = Answer(r.answer, TRUE) /\ outcome.answer = r.answer
    BY <1>6, <2>3
  <2>5. Land(s, outcome) /\ r.ask = ask /\ exchanges' = kept
    BY <2>1, <2>4
  <2>6. kept # <<>> => kept[Len(kept)] \in Range(exchanges)
    BY <1>7, <1>8
  <2> HIDE DEF r, kept, ask, k, n
  <2> QED BY <1>4, <1>7, <2>2, <2>4, <2>5, <2>6
<1>13. Save(s, n) \/ (exchanges' = exchanges /\ Land(s, Answer(n, FALSE)))
  BY DEF ProviderAnswers
<1>14. CASE Save(s, n)
  BY <1>10, <1>11, <1>12, <1>14 DEF Save
<1> QED BY <1>9, <1>13, <1>14

LEMMA RunDeleteKeeps ==
    ASSUME HistoryInv, NEW s \in Servers, RunDelete(s)
    PROVE  HistoryStep
<1> USE HistoryFacts
<1> DEFINE others == Range(exchanges) \ OfConversation(exchanges, Head(flights[s]).key)
           rows == Filtered(exchanges, others)
<1>1. PICK c, ask : c \in Conversations /\ c = Head(flights[s]).key /\ ask = Head(flights[s]).ask
  BY DEF RunDelete
<1>2. PICK outcome : outcome = [kind |-> "deleted"]
  OBVIOUS
<1>3. /\ s \in running /\ flights[s] # <<>> /\ Land(s, outcome)
      /\ UNCHANGED <<running, resultStands, today, calls, retired>> /\ running' = running
      /\ exchanges' = rows
      /\ tombstones' = IF exchanges' # exchanges THEN tombstones \cup {c} ELSE tombstones
  BY <1>1, <1>2 DEF RunDelete, Running
<1>4. outcome \in Tellings /\ outcome.kind = "deleted"
  BY <1>2 DEF Tellings
<1>5. /\ rows \in Seq(Rows) /\ Len(rows) <= Len(exchanges) /\ Len(rows) \in Nat
      /\ Range(rows) = {row \in Range(exchanges) : row.ask.conversation # c}
  BY FilteredTyped, <1>1 DEF SiftedIn, OfConversation
<1>6. Written(exchanges)
  BY PrunedIsWritten
<1>7. InOrder(rows, Later)
  BY <1>6, FilteredInOrder DEF Written
<1> HIDE DEF rows
<1>8. StoreHolds'
  <2>1. RowsInOrder'
    BY <1>3, <1>5, <1>6, <1>7 DEF RowsInOrder, Written
  <2>2. DeletedStaysDeleted'
    BY <1>3, <1>5, <1>6 DEF Range, Written, DeletedStaysDeleted
  <2>3. Len(rows) <= MaxPerOwner
    BY <1>5, RowFacts
  <2> QED BY <1>1, <1>3, <1>5, <2>1, <2>2, <2>3 DEF StoreHolds
<1>9. RecordsStay
  <2> SUFFICES ASSUME NEW k \in ClientRequests, NEW b \in Asks, NEW n \in Answers,
                      OnRecord(k, b, n)
               PROVE  OnRecord(k, b, n)'
    BY DEF RecordsStay
  <2>1. CASE b.conversation \in tombstones \/ n \in retired
    BY <1>3, <2>1 DEF OnRecord, Stored
  <2>2. CASE \E row \in Range(exchanges) : row.request = k /\ row.ask = b /\ row.answer = n
    BY <2>2, <1>5, <1>3 DEF OnRecord, Stored
  <2> QED BY <2>1, <2>2 DEF OnRecord, Stored
<1>10. c \notin ClientRequests
  BY <1>1
<1>11. TablesHold' /\ CallFits' /\ SavedMeansSaved'
  BY ONLY HistoryInv, <1>1, <1>3, <1>4, <1>9, <1>10, LandKeeps
<1>12. ThreadsDoNotFork
  BY <1>3 DEF ThreadsDoNotFork
<1>13. HistoryInv'
  BY <1>8, <1>11, HistoryParts, PTL
<1> QED BY <1>8, <1>11, <1>12, <1>13 DEF HistoryStep, HistoryInv

LEMMA NextDayKeeps ==
    ASSUME HistoryInv, NextDay
    PROVE  HistoryStep
<1> USE HistoryFacts
<1>1. /\ today < MaxDay /\ today' = today + 1 /\ told' = NoRecord
      /\ UNCHANGED <<running, exchanges, tombstones, resultStands, flights, recent, calls, retired>>
  BY DEF NextDay
<1>2. StoreHolds /\ CallFits
  BY HistoryParts
<1>3. StoreHolds'
  <2>1. today' \in 0..MaxDay
    BY <1>1
  <2>2. \A row \in Range(exchanges) : row.day <= today + 1
    BY <1>2, RowFacts DEF Range, StoreHolds, RowsInOrder
  <2>3. RowsInOrder'
    BY <1>1, <1>2, <2>2 DEF StoreHolds, RowsInOrder
  <2>4. DeletedStaysDeleted'
    BY <1>1, <1>2 DEF StoreHolds, DeletedStaysDeleted
  <2> QED BY <1>1, <1>2, <2>1, <2>3, <2>4 DEF StoreHolds
<1>4. RecordsStay
  BY <1>1 DEF RecordsStay, OnRecord, Stored
<1>5. TablesHold' /\ SavedMeansSaved'
  BY <1>1, <1>4, TablesStay
<1>6. ASSUME NEW ask \in Asks, Fits(ask) PROVE Fits(ask)'
  <2>1. PICK seen : seen = Visible'
    OBVIOUS
  <2>2. Visible \in Seq(Rows) /\ seen \in Seq(Rows) /\ Range(seen) \subseteq Range(Visible)
    <3>1. /\ Visible \in Seq(Rows)
          /\ Range(Visible) = {row \in Range(exchanges) : row.day + RetentionDays >= today}
      BY VisibleFacts
    <3>2. (exchanges \in Seq(Rows)) =>
              /\ Visible \in Seq(Rows)
              /\ Range(Visible) = {row \in Range(exchanges) : row.day + RetentionDays >= today}
      BY VisibleFacts
    <3>3. ((exchanges \in Seq(Rows)) =>
              /\ Visible \in Seq(Rows)
              /\ Range(Visible) = {row \in Range(exchanges) : row.day + RetentionDays >= today})'
      BY VisibleFacts, PTL
    <3>4. Visible' \in Seq(Rows)
          /\ Range(Visible') = {row \in Range(exchanges) : row.day + RetentionDays >= today'}
      BY <1>1, <3>3
    <3>5. \A row \in Range(exchanges) :
              row.day + RetentionDays >= today' => row.day + RetentionDays >= today
      BY RowFacts, <1>1 DEF Range
    <3> QED BY <2>1, <3>1, <3>4, <3>5
  <2>3. CASE ask.prior = <<>>
    <3>1. \A row \in Range(Visible) : row.ask.conversation # ask.conversation
      BY <1>6, <2>2, <2>3, ThreadFacts DEF Fits
    <3>2. Thread(seen, ask.conversation) = <<>>
      BY <2>2, <3>1, ThreadFacts
    <3>3. Thread(Visible, ask.conversation)' = <<>>
      BY <2>1, <3>2 DEF Thread, OfConversation
    <3> QED BY <2>3, <3>3 DEF Fits
  <2>4. CASE ask.prior # <<>>
    BY <1>6, <2>4, <1>1 DEF Fits, Thread, OfConversation
  <2> QED BY <2>3, <2>4
<1>7. CallFits'
  BY <1>1, <1>6, CallsStay DEF Calls, Asking, Running
<1>8. ThreadsDoNotFork
  BY <1>1 DEF ThreadsDoNotFork
<1>9. HistoryInv'
  BY <1>3, <1>5, <1>7, HistoryParts, PTL
<1> QED BY <1>3, <1>5, <1>8, <1>9 DEF HistoryStep, HistoryInv

LEMMA InvalidateKeeps ==
    ASSUME HistoryInv, Invalidate
    PROVE  HistoryStep
<1> USE HistoryFacts
<1>1. /\ resultStands' = FALSE /\ told' = NoRecord
      /\ UNCHANGED <<running, exchanges, tombstones, today, flights, recent, calls, retired>>
  BY DEF Invalidate
<1>2. StoreHolds /\ CallFits
  BY HistoryParts
<1>3. StoreHolds'
  BY <1>1, <1>2 DEF StoreHolds, RowsInOrder, DeletedStaysDeleted
<1>4. RecordsStay
  BY <1>1 DEF RecordsStay, OnRecord, Stored
<1>5. TablesHold' /\ SavedMeansSaved'
  BY <1>1, <1>4, TablesStay
<1>6. ASSUME NEW ask \in Asks, Fits(ask) PROVE Fits(ask)'
  <2>1. Visible' = Visible
    BY <1>1 DEF Visible, Fresh
  <2> QED BY <1>1, <1>6, <2>1 DEF Fits, Thread, OfConversation
<1>7. CallFits'
  BY <1>1, <1>6, CallsStay DEF Calls, Asking, Running
<1>8. ThreadsDoNotFork
  BY <1>1 DEF ThreadsDoNotFork
<1>9. HistoryInv'
  BY <1>3, <1>5, <1>7, HistoryParts, PTL
<1> QED BY <1>3, <1>5, <1>8, <1>9 DEF HistoryStep, HistoryInv

LEMMA AskableTyped ==
    ASSUME HistoryInv, NEW ask \in Askable
    PROVE  ask \in Asks /\ ask.conversation \notin tombstones
<1>1. PICK c \in Conversations, prior \in BoundedSeq(1..calls, MaxTurns) :
          ask = [conversation |-> c, prior |-> prior] /\ Admitted(ask.conversation)
  BY DEF Askable
<1>2. prior \in BoundedSeq(Answers, MaxTurns)
  BY HistoryFacts DEF Answers, BoundedSeq, SeqOf
<1>3. ask \in Asks
  BY <1>1, <1>2 DEF Asks
<1> QED BY <1>1, <1>3 DEF Admitted

LEMMA StreamsStay ==
    ASSUME StreamsHold, running' = running, opened' \subseteq opened
    PROVE  StreamsHold'
BY DEF StreamsHold

\* A stream opens, or leaves: only the open streams change.
LEMMA StreamsOnlyKeep ==
    ASSUME HistoryInv,
           UNCHANGED <<running, exchanges, tombstones, resultStands, today, flights, recent, calls,
                       retired>>,
           told' = NoRecord
    PROVE  HistoryStep
<1>1. StoreHolds' /\ ThreadsDoNotFork /\ RecordsStay /\ \A ask : Fits(ask) <=> Fits(ask)'
  BY StoreStays DEF RecordsStay
<1>2. TablesHold' /\ SavedMeansSaved'
  BY <1>1, TablesStay
<1>3. CallFits'
  BY <1>1, CallsStay DEF Calls, Asking, Running
<1>4. HistoryInv'
  BY <1>1, <1>2, <1>3, HistoryParts, PTL
<1> QED BY <1>1, <1>2, <1>4 DEF HistoryStep, HistoryInv

LEMMA OpenStreamKeeps ==
    ASSUME HistoryInv, StreamsHold, NEW s \in Servers, NEW r \in ClientRequests, OpenStream(s, r)
    PROVE  HistoryMoves
<1>1. PICK ask \in Askable : opened' = opened \cup {[server |-> s, key |-> r, ask |-> ask]}
  BY DEF OpenStream
<1>2. HistoryStep
  BY StreamsOnlyKeep DEF OpenStream
<1> DEFINE w == [server |-> s, key |-> r, ask |-> ask]
<1>3. w \in Streamed /\ w.server = s
  BY AskableTyped DEF Streamed
<1> HIDE DEF w
<1>4. opened' = opened \cup {w}
  BY <1>1 DEF w
<1>5. StreamsHold'
  BY <1>3, <1>4 DEF StreamsHold, OpenStream
<1> QED BY <1>2, <1>5 DEF HistoryMoves, HistoryStep

\* A stream enters: what it is told may have been deleted since it opened.
LEMMA EnterStreamKeeps ==
    ASSUME HistoryInv, StreamsHold, NEW w \in opened, EnterStream(w)
    PROVE  HistoryMoves
<1> DEFINE s == w.server
           k == w.key
           ask == w.ask
<1>1. s \in running /\ k \in ClientRequests /\ ask \in Asks
  BY DEF StreamsHold, Streamed
<1>2. k \in FlightKeys
  BY <1>1 DEF FlightKeys
<1>3. /\ Enter(s, k, ask) /\ w \notin opened' /\ opened' \subseteq opened
      /\ UNCHANGED <<running, exchanges, tombstones, resultStands, today, recent, calls, retired>>
  BY DEF EnterStream
<1> HIDE DEF s, k, ask
<1>4. /\ HistoryInv' /\ DeletedStaysDeleted' /\ ThreadsDoNotFork
      /\ (SavedMeansSaved' \/ told'.key = k)
      /\ (k \in ClientRequests => ask.conversation \notin tombstones) => SavedMeansSaved'
  BY <1>1, <1>2, <1>3, EnterKeeps
<1>5. SavedMeansSaved' \/ ToldPastDeletion
  BY <1>3, <1>4 DEF ToldPastDeletion, k, ask
<1>6. StreamsHold'
  BY <1>3, StreamsStay
<1> QED BY <1>4, <1>5, <1>6 DEF HistoryMoves

LEMMA HistoryNext_Keeps ==
    ASSUME HistoryInv, StreamsHold, HistoryNext
    PROVE  HistoryMoves
<1> USE HistoryFacts
<1>1. ASSUME HistoryStep, running' = running, opened' \subseteq opened PROVE HistoryMoves
  BY <1>1, StreamsStay DEF HistoryMoves, HistoryStep
<1>2. ASSUME NEW s \in Servers, NEW r \in ClientRequests, AskFor(s, r) PROVE HistoryMoves
  <2>1. s \in running /\ r \in FlightKeys
    BY <1>2 DEF AskFor
  <2>2. PICK ask \in Askable : Enter(s, r, ask)
    BY <1>2 DEF AskFor
  <2>3. ask \in Asks /\ ask.conversation \notin tombstones
    BY AskableTyped
  <2>4. UNCHANGED <<running, exchanges, tombstones, resultStands, today, opened, recent, calls,
                    retired>>
    BY <1>2 DEF AskFor
  <2>5. HistoryInv' /\ DeletedStaysDeleted' /\ ThreadsDoNotFork /\ SavedMeansSaved'
    BY <2>1, <2>2, <2>3, <2>4, EnterKeeps
  <2> QED BY <1>1, <2>4, <2>5 DEF HistoryStep
<1>3. ASSUME NEW s \in Servers, NEW c \in Conversations, AskToDelete(s, c) PROVE HistoryMoves
  BY <1>3, EnterKeeps, <1>1 DEF AskToDelete, HistoryStep
<1>4. ASSUME NEW s \in Servers, NEW r \in ClientRequests, OpenStream(s, r) PROVE HistoryMoves
  BY <1>4, OpenStreamKeeps
<1>5. ASSUME NEW s \in Servers,
             \/ AnswerFromStore(s) \/ CallProvider(s) \/ ProviderFails(s) \/ ProviderAnswers(s)
             \/ RunDelete(s) \/ RestartServer(s)
      PROVE  HistoryMoves
  <2>1. HistoryStep
    BY <1>5, AnswerFromStoreKeeps, CallProviderKeeps, ProviderFailsKeeps, ProviderAnswersKeeps,
       RunDeleteKeeps, RestartServerKeeps
  <2>2. running' = running /\ opened' \subseteq opened
    BY <1>5 DEF AnswerFromStore, CallProvider, ProviderFails, ProviderAnswers, RunDelete,
                RestartServer
  <2> QED BY <1>1, <2>1, <2>2
<1>6. ASSUME NEW s \in Servers, NEW k \in FlightKeys, Forget(s, k) PROVE HistoryMoves
  BY <1>6, ForgetKeeps, <1>1 DEF Forget
<1>7. ASSUME NEW w \in opened, EnterStream(w) \/ LeaveStream(w) PROVE HistoryMoves
  BY StreamsOnlyKeep, <1>1, <1>7, EnterStreamKeeps DEF LeaveStream
<1>8. ASSUME NextDay \/ Invalidate PROVE HistoryMoves
  BY <1>8, NextDayKeeps, InvalidateKeeps, <1>1 DEF NextDay, Invalidate
<1> QED BY <1>2, <1>3, <1>4, <1>5, <1>6, <1>7, <1>8 DEF HistoryNext

LEMMA HistoryStutter_Keeps ==
    ASSUME HistoryInv, StreamsHold, UNCHANGED historyVars
    PROVE  HistoryInv' /\ StreamsHold'
<1>1. UNCHANGED <<running, exchanges, tombstones, resultStands, today, flights, recent, calls,
                  told, retired>>
  BY DEF historyVars
<1>2. TablesHold' <=> TablesHold
  BY <1>1 DEF TablesHold, InTables, MaxInTables, FlightsHold, RecentHolds, KeptKeys, OnRecord,
              Stored
<1>3. StoreHolds' <=> StoreHolds
  BY <1>1 DEF StoreHolds, RowsInOrder, DeletedStaysDeleted
<1>4. CallFits' <=> CallFits
  BY <1>1 DEF CallFits, Calls, Asking, Running, Fits, Visible, Fresh, Thread, OfConversation
<1>5. TablesHold' /\ StoreHolds' /\ CallFits'
  BY <1>2, <1>3, <1>4, HistoryParts
<1>6. HistoryInv'
  BY <1>5, HistoryParts, PTL
<1>7. StreamsHold'
  BY StreamsStay DEF historyVars
<1> QED BY <1>6, <1>7

-----------------------------------------------------------------------------
(* The workflow as a whole.                                                *)

\* What a review established still holds at the later stages, whatever happens to
\* packs, builds and scenarios beside the workflow.
THEOREM StagesHold == GuideSpec => [](GuideTypeOK /\ StagesStand)
<1>1. GuideInit => GuideInv
  BY GuideInit_Inv
<1>2. GuideInv /\ [GuideNext]_guideVars => GuideInv'
  BY GuideNext_Keeps, GuideStutter_Keeps DEF GuideStep
<1>3. GuideInv => GuideTypeOK /\ StagesStand
  BY StagesFromInv
<1> QED BY <1>1, <1>2, <1>3, PTL DEF GuideSpec

GuidedInv == TurnInv /\ GuideInv /\ HistoryInv /\ StreamsHold
GuidedStep == GuidedInv' /\ OutcomesAreFinal /\ FrozenIsImmutable /\ LinksAreKept

LEMMA GuidedInit_Inv == GuidedInit => GuidedInv
<1>1. HistoryInit => StreamsHold
  BY DEF HistoryInit, StreamsHold
<1> QED BY <1>1, TurnInit_Inv, GuideInit_Inv, HistoryInit_Inv DEF GuidedInit, GuidedInv

LEMMA GuidedNext_Keeps ==
    ASSUME GuidedInv, [GuidedNext]_guidedVars
    PROVE  GuidedStep
<1>1. ASSUME TurnNext \/ UNCHANGED turnVars, GuideNext \/ UNCHANGED guideVars,
             HistoryNext \/ UNCHANGED historyVars
      PROVE  GuidedStep
  <2>1. TurnStep
    BY <1>1, TurnNext_Keeps, TurnStutter_Keeps DEF GuidedInv
  <2>2. GuideStep
    BY <1>1, GuideNext_Keeps, GuideStutter_Keeps DEF GuidedInv
  <2>3. HistoryInv' /\ StreamsHold'
    BY <1>1, HistoryNext_Keeps, HistoryStutter_Keeps DEF GuidedInv, HistoryMoves
  <2> QED BY <2>1, <2>2, <2>3 DEF GuidedStep, GuidedInv, TurnStep, GuideStep
<1>2. (TurnNext \/ UNCHANGED turnVars) /\ (GuideNext \/ UNCHANGED guideVars)
        /\ (HistoryNext \/ UNCHANGED historyVars)
  BY DEF GuidedNext, guidedVars
<1> QED BY <1>1, <1>2

\* A workflow stands on what its turns and its stages established: no version is
\* billed twice unasked, and what a stage asked for still holds at the later ones.
THEOREM WorkflowHolds == GuidedSpec => []WorkflowStands
<1>1. GuidedInit => GuidedInv
  BY GuidedInit_Inv
<1>2. GuidedInv /\ [GuidedNext]_guidedVars => GuidedInv'
  BY GuidedNext_Keeps DEF GuidedStep
<1>3. GuidedInv => WorkflowStands
  BY TurnsFromInv, StagesFromInv DEF GuidedInv, WorkflowStands
<1> QED BY <1>1, <1>2, <1>3, PTL DEF GuidedSpec

\* The outcome of a turn, a frozen pack or scenario and a link of the workflow are
\* never changed again, in whatever order answers and decisions arrive.
THEOREM DecisionsHold == GuidedSpec => DecisionsStand
<1>1. GuidedInit => GuidedInv
  BY GuidedInit_Inv
<1>2. GuidedInv /\ [GuidedNext]_guidedVars => GuidedInv'
  BY GuidedNext_Keeps DEF GuidedStep
<1>3. GuidedInv /\ [GuidedNext]_guidedVars =>
          [OutcomesAreFinal /\ FrozenIsImmutable /\ LinksAreKept]_guidedVars
  BY GuidedNext_Keeps DEF GuidedStep
<1> QED BY <1>1, <1>2, <1>3, PTL DEF GuidedSpec, DecisionsStand

\* A client that was told its answer is saved finds it, unless its stream had looked for
\* the conversation before that was deleted; what was deleted stays deleted, and with one
\* server a conversation is one thread: for any servers, streams, conversations, days and
\* limits.
THEOREM HistoryHolds == GuidedSpec => HistoryIsSound
<1>1. GuidedInit => GuidedInv
  BY GuidedInit_Inv
<1>2. GuidedInv /\ [GuidedNext]_guidedVars => GuidedInv'
  BY GuidedNext_Keeps DEF GuidedStep
<1>3. GuidedInv /\ [GuidedNext]_guidedVars =>
          [(SavedMeansSaved' \/ ToldPastDeletion) /\ DeletedStaysDeleted'
              /\ ThreadsDoNotFork]_historyVars
  BY HistoryNext_Keeps DEF GuidedNext, guidedVars, GuidedInv, HistoryMoves
<1> QED BY <1>1, <1>2, <1>3, PTL DEF GuidedSpec, HistoryIsSound

\* Every value of the turns, the stages, the packs, the scenarios and the
\* conversations has its type.
THEOREM GuidedTypes == GuidedSpec => []GuidedTypeOK
<1>1. GuidedInit => GuidedInv
  BY GuidedInit_Inv
<1>2. GuidedInv /\ [GuidedNext]_guidedVars => GuidedInv'
  BY GuidedNext_Keeps DEF GuidedStep
<1>3. GuidedInv => GuidedTypeOK
  BY StagesFromInv DEF GuidedInv, TurnInv, HistoryInv, StreamsHold, HistoryTypeOK, GuidedTypeOK
<1> QED BY <1>1, <1>2, <1>3, PTL DEF GuidedSpec
=============================================================================
