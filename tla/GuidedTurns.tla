------------------------------ MODULE GuidedTurns ------------------------------
(***************************************************************************)
(* The turns of one guided workflow.  A client sends a turn under its own  *)
(* request id for the version it saw.  The handler claims that version     *)
(* before it calls the model, caches the validated proposal, and commits   *)
(* it if the version has not moved.  A failure leaves the turn UNKNOWN: it *)
(* may have been billed, so only a human decision frees the version, by    *)
(* committing the cached proposal or by abandoning the turn and naming the *)
(* one request that may replace it.                                        *)
(*                                                                         *)
(* Handlers share one event loop.  A turn leaves it only while the model   *)
(* answers; what follows the answer runs through, one transaction after    *)
(* the other, unless the process stops between two of them.                *)
(***************************************************************************)
EXTENDS Integers, Sequences, SequencesExt, FiniteSets

CONSTANTS
    RequestIds,   \* clientRequestId
    RecoveryIds,  \* recoveryRequestId
    MaxVersion,   \* bound on the workflow's version
    NoRequest     \* SQL NULL in a column that holds a request id

ASSUME TurnAssumption ==
    /\ MaxVersion \in Nat \ {0}
    /\ NoRequest \notin RequestIds \cup RecoveryIds

VARIABLES
    workflow,    \* the row of guided_workflows
    operations,  \* guided_workflow_turn_operations
    abandoned,   \* for each version, its ABANDONED_BY_USER turns by updated_at
    recoveries,  \* guided_workflow_turn_recoveries
    calling,     \* the turns whose handler awaits the model
    section,     \* the handler that holds the event loop, if any
    proposals,   \* where the proposal of each turn is
    replies      \* the workflow versions each request id was answered with

turnVars == <<workflow, operations, abandoned, recoveries, calling, section, proposals, replies>>

Versions == 1 .. MaxVersion
Open == {"PENDING", "RESULT_READY", "UNKNOWN"}
ProposalPlaces == {"NONE", "PENDING", "APPLIED", "SUPERSEDED", "DISMISSED"}

NoOperation ==
    [status |-> "NONE", version |-> 0, claimed |-> FALSE, cached |-> FALSE, billed |-> FALSE,
     response |-> 0, supersedes |-> NoRequest, authorized |-> NoRequest]

NoRecovery == [turn |-> NoRequest, action |-> "NONE", new |-> NoRequest, response |-> 0]

NoSection == [turn |-> NoRequest, recovery |-> NoRequest, step |-> "none"]

Idle == section = NoSection

TurnInit ==
    /\ workflow = [version |-> 1, status |-> "ACTIVE"]
    /\ operations = [r \in RequestIds |-> NoOperation]
    /\ abandoned = [v \in Versions |-> <<>>]
    /\ recoveries = [i \in RecoveryIds |-> NoRecovery]
    /\ calling = {}
    /\ section = NoSection
    /\ proposals = [r \in RequestIds |-> "NONE"]
    /\ replies = [r \in RequestIds |-> {}]

Reply(r, response) == replies' = [replies EXCEPT ![r] = @ \cup {response}]

Current(v) == workflow.status = "ACTIVE" /\ workflow.version = v

\* _archivePendingProposalInConnection
Archived(place) ==
    [r \in RequestIds |-> IF proposals[r] = "PENDING" THEN place ELSE proposals[r]]

-----------------------------------------------------------------------------
(* A turn.                                                                 *)

\* A request id that already succeeded is answered with its first response.
ReplayTurn(r, v) ==
    /\ Idle
    /\ operations[r].status = "SUCCEEDED"
    /\ operations[r].version = v
    /\ Reply(r, operations[r].response)
    /\ UNCHANGED <<workflow, operations, abandoned, recoveries, calling, section, proposals>>

LastAbandoned(v) == IF abandoned[v] = <<>> THEN NoRequest ELSE Last(abandoned[v])

\* After an abandonment only the request it declared may claim the version.
Authorized(r, v) ==
    LastAbandoned(v) # NoRequest => operations[LastAbandoned(v)].authorized = r

\* mutant: an unknown outcome does not hold the version
VersionFreeOfHandlers(v) ==
    \A r \in RequestIds :
        operations[r].version = v => operations[r].status \notin {"PENDING", "RESULT_READY"}

\* The partial unique index of the operations.
VersionFree(v) ==
    \A r \in RequestIds : operations[r].version = v => operations[r].status \notin Open

\* With a prepared path, or no model, the proposal is made in the handler.
ClaimTurn(r, v, model) ==
    /\ Idle
    /\ operations[r].status = "NONE"
    /\ v < MaxVersion
    /\ Current(v)
    /\ Authorized(r, v)
    /\ VersionFree(v)
    /\ operations' = [operations EXCEPT ![r] =
           [NoOperation EXCEPT
               !.status = "PENDING", !.version = v, !.claimed = TRUE, !.billed = model,
               !.supersedes = LastAbandoned(v)]]
    /\ IF model
       THEN calling' = calling \cup {r} /\ UNCHANGED section
       ELSE section' = [NoSection EXCEPT !.turn = r, !.step = "cache"] /\ UNCHANGED calling
    /\ UNCHANGED <<workflow, abandoned, recoveries, proposals, replies>>

\* The model answers, or fails in one of the ways its gateway tells apart.
ModelAnswers(r, next) ==
    /\ Idle
    /\ r \in calling
    /\ calling' = calling \ {r}
    /\ section' = [NoSection EXCEPT !.turn = r, !.step = next]
    /\ UNCHANGED <<workflow, operations, abandoned, recoveries, proposals, replies>>

Holds(r) == operations[r].claimed /\ operations[r].status \in {"PENDING", "RESULT_READY"}

CacheProposal ==
    LET r == section.turn IN
    /\ section.step = "cache"
    /\ IF Holds(r) /\ operations[r].status = "PENDING"
       THEN /\ operations' = [operations EXCEPT ![r].status = "RESULT_READY", ![r].cached = TRUE]
            /\ section' = [section EXCEPT !.step = "complete"]
       ELSE /\ section' = [section EXCEPT !.step = "unknown"]
            /\ UNCHANGED operations
    /\ UNCHANGED <<workflow, abandoned, recoveries, calling, proposals, replies>>

\* One transaction: the version, the proposal, the messages, the audit event
\* and the operation's outcome.
CompleteTurn ==
    LET r == section.turn  v == operations[r].version IN
    /\ section.step = "complete"
    /\ IF Holds(r) /\ Current(v)
       THEN /\ workflow' = [workflow EXCEPT !.version = v + 1]
            /\ proposals' = [Archived("SUPERSEDED") EXCEPT ![r] = "PENDING"]
            /\ operations' = [operations EXCEPT ![r].status = "SUCCEEDED", ![r].claimed = FALSE,
                                                ![r].response = v + 1]
            /\ IF section.recovery = NoRequest
               THEN Reply(r, v + 1) /\ section' = NoSection
               ELSE section' = [section EXCEPT !.step = "answer"] /\ UNCHANGED replies
       ELSE /\ section' = [section EXCEPT !.step = "unknown"]
            /\ UNCHANGED <<workflow, operations, proposals, replies>>
    /\ UNCHANGED <<abandoned, recoveries, calling>>

\* A transaction of the handler fails and is rolled back.
StorageFails ==
    /\ section.step \in {"cache", "complete"}
    /\ section' = [section EXCEPT !.step = "unknown"]
    /\ UNCHANGED <<workflow, operations, abandoned, recoveries, calling, proposals, replies>>

MarkTurnUnknown ==
    LET r == section.turn IN
    /\ section.step = "unknown"
    /\ operations' = IF Holds(r)
                     THEN [operations EXCEPT ![r].status = "UNKNOWN", ![r].claimed = FALSE]
                     ELSE operations
    /\ section' = NoSection
    /\ UNCHANGED <<workflow, abandoned, recoveries, calling, proposals, replies>>

-----------------------------------------------------------------------------
(* The human's decision about a turn.                                      *)

\* recoveryRequestId names one decision; a different one under it conflicts.
Bound(i, decision) ==
    recoveries[i] = NoRecovery
        \/ [recoveries[i] EXCEPT !.response = 0] = decision

CachedDecision(r) ==
    [turn |-> r, action |-> "RETRY_CACHED_COMMIT", new |-> NoRequest, response |-> 0]

ReplayRecovery(r, i) ==
    /\ Idle
    /\ Bound(i, CachedDecision(r))
    /\ recoveries[i].response # 0
    /\ Reply(r, recoveries[i].response)
    /\ UNCHANGED <<workflow, operations, abandoned, recoveries, calling, section, proposals>>

\* The turn succeeded after all: the decision is answered with its response.
RecoverSucceeded(r, i, v) ==
    /\ Idle
    /\ Bound(i, CachedDecision(r))
    /\ recoveries[i].response = 0
    /\ operations[r].status = "SUCCEEDED"
    /\ operations[r].version = v
    /\ recoveries' = [recoveries EXCEPT ![i] =
                         [CachedDecision(r) EXCEPT !.response = operations[r].response]]
    /\ Reply(r, operations[r].response)
    /\ UNCHANGED <<workflow, operations, abandoned, calling, section, proposals>>

\* Take the right to commit again, without a call of the model.
RecoverCached(r, i, v) ==
    /\ Idle
    /\ Bound(i, CachedDecision(r))
    /\ recoveries[i].response = 0
    /\ operations[r].status \in {"UNKNOWN", "RESULT_READY"}
    /\ operations[r].version = v
    /\ operations[r].cached
    /\ Current(v)
    /\ recoveries' = [recoveries EXCEPT ![i] = CachedDecision(r)]
    /\ operations' = [operations EXCEPT ![r].status = "RESULT_READY", ![r].claimed = TRUE]
    /\ section' = [turn |-> r, recovery |-> i, step |-> "complete"]
    /\ UNCHANGED <<workflow, abandoned, calling, proposals, replies>>

\* completeTurnRecovery, after completeTurn.
AnswerRecovery ==
    LET r == section.turn IN
    /\ section.step = "answer"
    /\ recoveries' = [recoveries EXCEPT ![section.recovery].response = operations[r].response]
    /\ Reply(r, operations[r].response)
    /\ section' = NoSection
    /\ UNCHANGED <<workflow, operations, abandoned, calling, proposals>>

\* The decision is answered with the operation, marked by the response -1.
AbandonTurn(r, i, v, new) ==
    LET decision == [turn |-> r, action |-> "ABANDON_AND_AUTHORIZE_RETRY", new |-> new,
                     response |-> 0] IN
    /\ Idle
    /\ Bound(i, decision)
    /\ recoveries[i].response = 0
    /\ operations[r].version = v
    /\ \/ /\ operations[r].status = "UNKNOWN"
          /\ operations' = [operations EXCEPT ![r].status = "ABANDONED_BY_USER",
                                              ![r].authorized = new]
          /\ abandoned' = [abandoned EXCEPT ![v] = Append(@, r)]
       \/ /\ operations[r].status = "ABANDONED_BY_USER"
          /\ operations[r].authorized = new
          /\ UNCHANGED <<operations, abandoned>>
    /\ recoveries' = [recoveries EXCEPT ![i] = [decision EXCEPT !.response = -1]]
    /\ UNCHANGED <<workflow, calling, section, proposals, replies>>

-----------------------------------------------------------------------------
(* What else moves the version.                                            *)

Moves(v, status, place) ==
    /\ Idle
    /\ v < MaxVersion
    /\ workflow.version = v
    /\ workflow' = [version |-> v + 1, status |-> status]
    /\ proposals' = Archived(place)
    /\ UNCHANGED <<operations, abandoned, recoveries, calling, section, replies>>

ApplyProposal(v) ==
    /\ \E r \in RequestIds : proposals[r] = "PENDING"
    /\ Moves(v, workflow.status, "APPLIED")

\* The last stage completes the workflow.
AdvanceStage(v, last) ==
    /\ workflow.status = "ACTIVE"
    /\ Moves(v, IF last THEN "COMPLETED" ELSE "ACTIVE", "DISMISSED")

LinkArtifacts(v) ==
    /\ workflow.status = "ACTIVE"
    /\ Moves(v, "ACTIVE", "PENDING")

ArchiveWorkflow(v) ==
    /\ workflow.status # "ARCHIVED"
    /\ Moves(v, "ARCHIVED", "DISMISSED")

\* The process stops.  No start of it looks at the open turns.
Restart ==
    /\ calling # {} \/ ~Idle
    /\ calling' = {}
    /\ section' = NoSection
    /\ UNCHANGED <<workflow, operations, abandoned, recoveries, proposals, replies>>

SectionStep == CacheProposal \/ CompleteTurn \/ StorageFails \/ MarkTurnUnknown \/ AnswerRecovery

TurnNext ==
    \/ SectionStep
    \/ Restart
    \/ \E r \in RequestIds :
          \/ \E next \in {"cache", "unknown"} : ModelAnswers(r, next)
          \/ \E v \in Versions :
                \/ ReplayTurn(r, v)
                \/ \E model \in BOOLEAN : ClaimTurn(r, v, model)
                \/ \E i \in RecoveryIds :
                      \/ RecoverSucceeded(r, i, v)
                      \/ RecoverCached(r, i, v)
                      \/ \E new \in RequestIds : AbandonTurn(r, i, v, new)
          \/ \E i \in RecoveryIds : ReplayRecovery(r, i)
    \/ \E v \in Versions :
          \/ ApplyProposal(v)
          \/ \E last \in BOOLEAN : AdvanceStage(v, last)
          \/ LinkArtifacts(v)
          \/ ArchiveWorkflow(v)

TurnSpec == TurnInit /\ [][TurnNext]_turnVars

-----------------------------------------------------------------------------
(* Properties.                                                             *)

\* Types: of the turns, the decisions about them and the handler in progress.
TurnTypeOK ==
    /\ workflow \in [version : Versions, status : {"ACTIVE", "COMPLETED", "ARCHIVED"}]
    /\ operations \in [RequestIds ->
           [status : Open \cup {"NONE", "SUCCEEDED", "ABANDONED_BY_USER"},
            version : {0} \cup Versions, claimed : BOOLEAN, cached : BOOLEAN, billed : BOOLEAN,
            response : {0} \cup Versions, supersedes : RequestIds \cup {NoRequest},
            authorized : RequestIds \cup {NoRequest}]]
    /\ abandoned \in [Versions -> Seq(RequestIds)]
    /\ recoveries \in [RecoveryIds ->
           [turn : RequestIds \cup {NoRequest},
            action : {"NONE", "RETRY_CACHED_COMMIT", "ABANDON_AND_AUTHORIZE_RETRY"},
            new : RequestIds \cup {NoRequest}, response : {-1, 0} \cup Versions]]
    /\ calling \subseteq RequestIds
    /\ section \in [turn : RequestIds \cup {NoRequest}, recovery : RecoveryIds \cup {NoRequest},
                    step : {"none", "cache", "complete", "unknown", "answer"}]
    /\ proposals \in [RequestIds -> ProposalPlaces]
    /\ replies \in [RequestIds -> SUBSET Versions]

AtVersion(v) == {r \in RequestIds : operations[r].version = v}

\* No version is billed twice behind the user's back: at any time one call at
\* most is under way for it, and beyond the first call of a version each was
\* paid for with one turn the user gave up.
NoSilentRebilling ==
    \A v \in Versions :
        /\ Cardinality(calling \cap AtVersion(v)) <= 1
        /\ Cardinality({r \in AtVersion(v) : operations[r].billed}) <= 1 + Len(abandoned[v])

\* However often a request or a decision about it is repeated, and whichever
\* of them commits, a request id is only ever answered with one version.
OneAnswerPerRequest == \A r \in RequestIds : Cardinality(replies[r]) <= 1

\* The proposal of a turn that succeeded is the pending one or in the history,
\* a turn that did not succeed left none, and one proposal at most is pending.
ProposalsAccounted ==
    /\ \A r \in RequestIds : operations[r].status = "SUCCEEDED" <=> proposals[r] # "NONE"
    /\ Cardinality({r \in RequestIds : proposals[r] = "PENDING"}) <= 1
    /\ workflow.status # "ACTIVE" => \A r \in RequestIds : proposals[r] # "PENDING"

\* A turn that stands at a version where others were given up is the retry the
\* last of them declared, and says so.
RetriesAreDeclared ==
    \A v \in Versions, r \in RequestIds :
        (r \in AtVersion(v) /\ abandoned[v] # <<>> /\ operations[r].status # "ABANDONED_BY_USER")
            => /\ operations[r].supersedes = LastAbandoned(v)
               /\ operations[LastAbandoned(v)].authorized = r

\* A turn is paid, answered and recorded once, and what was given up for it is on
\* record, in whatever order answers, repeats and decisions arrive.
TurnsAccounted ==
    NoSilentRebilling /\ OneAnswerPerRequest /\ ProposalsAccounted /\ RetriesAreDeclared

\* Nothing a turn settled on is ever undone: a success keeps its response and
\* an abandoned turn never commits its answer.
OutcomesAreFinal ==
    \A r \in RequestIds :
        operations[r].status \in {"SUCCEEDED", "ABANDONED_BY_USER"}
            => operations'[r] = operations[r]

\* As the plan asks, no turn whose outcome is unknown holds a version for good:
\* one that is open with no handler left is one the user can decide about.
OpenTurnsCanBeDecided ==
    \A r \in RequestIds :
        (operations[r].status \in Open /\ r \notin calling /\ section.turn # r)
            => operations[r].status = "UNKNOWN"
=============================================================================
