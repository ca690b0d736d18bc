---------------------------- MODULE EventPackFactory ----------------------------
(***************************************************************************)
(* One build of the Event Pack Factory.  Sources are pasted, found by a    *)
(* paid search, or read by a paid reader from an approved search result;   *)
(* a person reviews each, and the approved text becomes an Event Pack.     *)
(*                                                                         *)
(* Every mutation names the revision it saw.  The three operations that    *)
(* call a provider claim a row of event_pack_factory_idempotency first, so *)
(* that a repeated clientRequestId finds out what became of it; a request  *)
(* id under another operation is another row.                              *)
(*                                                                         *)
(* Handlers share one event loop.  They leave it while the provider        *)
(* answers; the transactions after the answer run through unless one of    *)
(* them fails or the process stops between two.                            *)
(***************************************************************************)
EXTENDS Integers, FiniteSets

CONSTANTS
    SourceIds,
    Searches, Readings, Materializations,  \* the clientRequestIds of each operation
    MaxEvidence,  \* MAX_ACTIVE_EVIDENCE_SOURCES_PER_BUILD
    MaxRevision,  \* bound on the build's revision
    MaxHandlers,  \* bound on the handlers that serve one request id at a time
    NoSource, NoRow, NoPaper

FactoryRequests == Searches \cup Readings \cup Materializations

\* a handler serves a request; the three absent values are none of the present ones
ASSUME FactoryAssumption ==
    /\ {MaxEvidence, MaxRevision} \subseteq Nat /\ MaxHandlers \in Nat \ {0}
    /\ NoSource \notin SourceIds
    /\ Searches \cap Readings = {}
    /\ (Searches \cup Readings) \cap Materializations = {}
    /\ NoRow \notin FactoryRequests
    /\ NoRow \notin [status : {"PENDING", "SUCCEEDED", "FAILED"}, expected : 0 .. MaxRevision,
                    parent : SourceIds \cup {NoSource}]
    /\ \A paper \in SUBSET (SourceIds \X {1, 2}) : paper # NoPaper

VARIABLES
    build,     \* the row of event_pack_factory_builds
    sources,   \* its sources with their payloads
    entries,   \* event_pack_factory_idempotency
    awaiting,  \* how many handlers of each request await the provider
    running,   \* the handler that holds the event loop, and its next step
    inputs,    \* what each materialization read before its model was asked
    made,      \* the text each materialization's Event Pack was made from
    audited,   \* the materializations with an EVENT_PACK_MATERIALIZED event
    history    \* approvals: text a person approved; calls: provider calls of
               \* each request; recorded: how often its results were recorded

factoryVars == <<build, sources, entries, awaiting, running, inputs, made, audited, history>>

Revisions == 0 .. MaxRevision
Texts == {1, 2}  \* a payload; 0 is none
NotRunning == [request |-> NoRow, step |-> "none"]

\* The loop is free and the build is there: cleanupExpiredBuilds, which every
\* request begins with, is Forget below.
Ready == running = NotRunning /\ build.state = "open"

FactoryInit ==
    /\ build = [state |-> "none", revision |-> 0, ready |-> FALSE]
    /\ sources = [s \in SourceIds |-> NoSource]
    /\ entries = [q \in FactoryRequests |-> NoRow]
    /\ awaiting = [q \in FactoryRequests |-> 0]
    /\ running = NotRunning
    /\ inputs = [q \in Materializations |-> {}]
    /\ made = [q \in Materializations |-> NoPaper]
    /\ audited = {}
    /\ history = [approvals |-> {}, calls |-> [q \in FactoryRequests |-> 0],
                  recorded |-> [q \in FactoryRequests |-> 0]]

CreateBuild ==
    /\ build.state = "none"
    /\ build' = [build EXCEPT !.state = "open"]
    /\ UNCHANGED <<sources, entries, awaiting, running, inputs, made, audited, history>>

-----------------------------------------------------------------------------
(* Sources and their review.                                               *)

Held(shelf) == {s \in SourceIds : shelf[s] # NoSource}
Evidence(shelf) == {s \in Held(shelf) : shelf[s].kind # "SEARCH_RESULT"}
ActiveEvidence(shelf) == {s \in Evidence(shelf) : shelf[s].review # "REJECTED"}

ReviewReady(shelf) ==
    \E s \in Evidence(shelf) : shelf[s].review = "APPROVED" /\ shelf[s].text # 0

\* _advanceBuild, at the end of every transaction on the sources.
AdvanceBuild(shelf) ==
    /\ build.revision < MaxRevision
    /\ sources' = shelf
    /\ build' = [build EXCEPT !.revision = @ + 1, !.ready = ReviewReady(shelf)]

NewSource(kind, text) ==
    [kind |-> kind, review |-> "PENDING", included |-> TRUE, text |-> text]

WithEvidence(s, kind, text) == [sources EXCEPT ![s] = NewSource(kind, text)]

\* The limit counts sources; the one on characters is left out.
WithinEvidenceLimit(shelf) == Cardinality(ActiveEvidence(shelf)) <= MaxEvidence

SourcesOnly == UNCHANGED <<entries, awaiting, running, inputs, made, audited>>

AddPasteSource(s, text) ==
    /\ Ready
    /\ s \notin Held(sources)
    /\ WithinEvidenceLimit(WithEvidence(s, "PASTE", text))
    /\ AdvanceBuild(WithEvidence(s, "PASTE", text))
    /\ SourcesOnly /\ UNCHANGED history

ApproveSource(s) ==
    /\ Ready
    /\ s \in Held(sources)
    /\ sources[s].review # "REJECTED"
    /\ s \in Evidence(sources) => sources[s].text # 0
    /\ AdvanceBuild([sources EXCEPT ![s].review = "APPROVED"])
    /\ history' = [history EXCEPT !.approvals = @ \cup {<<s, sources[s].text>>}]
    /\ SourcesOnly

\* Also permanentlyDeleteSourceText.
RejectSource(s) ==
    /\ Ready
    /\ s \in Held(sources)
    /\ AdvanceBuild([sources EXCEPT ![s] =
           [@ EXCEPT !.review = "REJECTED", !.included = FALSE, !.text = 0]])
    /\ SourcesOnly /\ UNCHANGED history

SetSourceSelection(s, included) ==
    /\ Ready
    /\ s \in Held(sources)
    /\ ~(sources[s].review = "REJECTED" /\ included)
    /\ AdvanceBuild([sources EXCEPT ![s].included = included])
    /\ SourcesOnly /\ UNCHANGED history

\* mutant: the revised text inherits the approval
UpdateSourceRawTextOnly(s, text) ==
    /\ Ready
    /\ s \in ActiveEvidence(sources)
    /\ sources[s].text # 0
    /\ AdvanceBuild([sources EXCEPT ![s].text = text])
    /\ SourcesOnly /\ UNCHANGED history

\* An approval is never inherited by a revised text.
UpdateSourceRawText(s, text) ==
    /\ Ready
    /\ s \in ActiveEvidence(sources)
    /\ sources[s].text # 0
    /\ AdvanceBuild([sources EXCEPT ![s] = [@ EXCEPT !.text = text, !.review = "PENDING"]])
    /\ SourcesOnly /\ UNCHANGED history

\* deleteBuild, and cleanupExpiredBuilds when the retention has run out, take
\* sources, payloads and idempotency rows along; packs and audit events stay.
Forget ==
    /\ Ready
    /\ build' = [state |-> "gone", revision |-> 0, ready |-> FALSE]
    /\ sources' = [s \in SourceIds |-> NoSource]
    /\ entries' = [q \in FactoryRequests |-> NoRow]
    /\ UNCHANGED <<awaiting, running, inputs, made, audited, history>>

-----------------------------------------------------------------------------
(* A search or a reading.                                                  *)

Row(status, expected, parent) == [status |-> status, expected |-> expected, parent |-> parent]

\* claimIdempotency takes a new row, or an old one with the same payload.
SamePayload(q, expected, parent) ==
    entries[q] = NoRow
        \/ (entries[q] # NoRow /\ entries[q] = Row(entries[q].status, expected, parent))

Claimed(q, expected, parent) ==
    IF entries[q] = NoRow THEN Row("PENDING", expected, parent) ELSE entries[q]

Settled(row, status) == IF row.status = "PENDING" THEN [row EXCEPT !.status = status] ELSE row

ApprovedParent(parent) ==
    /\ parent \in Held(sources) \ Evidence(sources)
    /\ sources[parent].review = "APPROVED"

Dispatchable(q, expected, parent) ==
    /\ build.revision = expected
    /\ q \in Readings => ApprovedParent(parent)

\* Only a request that succeeded is not sent to the provider again.
ClaimCall(q, expected, parent) ==
    /\ Ready
    /\ SamePayload(q, expected, parent)
    /\ entries[q] # NoRow => entries[q].status # "SUCCEEDED"
    /\ awaiting[q] < MaxHandlers /\ expected < MaxRevision
    /\ IF Dispatchable(q, expected, parent)
       THEN /\ entries' = [entries EXCEPT ![q] = Claimed(q, expected, parent)]
            /\ awaiting' = [awaiting EXCEPT ![q] = @ + 1]
            /\ history' = [history EXCEPT !.calls[q] = IF @ = 2 THEN 2 ELSE @ + 1]
       ELSE /\ entries' = [entries EXCEPT ![q] = Settled(Claimed(q, expected, parent), "FAILED")]
            /\ UNCHANGED <<awaiting, history>>
    /\ UNCHANGED <<build, sources, running, inputs, made, audited>>

\* The provider, or the model, answers or fails.
ProviderAnswers(q, step) ==
    /\ running = NotRunning
    /\ awaiting[q] > 0
    /\ awaiting' = [awaiting EXCEPT ![q] = @ - 1]
    /\ running' = [request |-> q, step |-> step]
    /\ UNCHANGED <<build, sources, entries, inputs, made, audited, history>>

Runs(step) == running.step = step
Then(step) == running' = [running EXCEPT !.step = step]
Ends == running' = NotRunning

\* mutant: the revision was checked before the call
StillOpen(q) == build.state = "open"

\* The revision the handler named; its row is there as long as the build is.
StillExpected(q) == build.state = "open" /\ build.revision = entries[q].expected

\* recordSearch and addSource: results that were dropped leave no source.
RecordResults(s, text) ==
    LET q == running.request
        found == IF q \in Searches
                 THEN IF s = NoSource THEN sources
                      ELSE [sources EXCEPT ![s] = NewSource("SEARCH_RESULT", 0)]
                 ELSE WithEvidence(s, "READER", text) IN
    /\ Runs("record")
    /\ IF StillExpected(q) /\ WithinEvidenceLimit(found)
       THEN /\ AdvanceBuild(found)
            /\ history' = [history EXCEPT !.recorded[q] = @ + 1]
            /\ Then("complete")
       ELSE Then("fail") /\ UNCHANGED <<build, sources, history>>
    /\ UNCHANGED <<entries, awaiting, inputs, made, audited>>

\* completeIdempotency
CompleteRequest ==
    LET q == running.request IN
    /\ Runs("complete")
    /\ IF entries[q] # NoRow /\ entries[q].status = "PENDING"
       THEN entries' = [entries EXCEPT ![q].status = "SUCCEEDED"] /\ Ends
       ELSE Then("fail") /\ UNCHANGED entries
    /\ UNCHANGED <<build, sources, awaiting, inputs, made, audited, history>>

\* failIdempotency
FailRequest ==
    LET q == running.request IN
    /\ Runs("fail")
    /\ entries' = IF entries[q] = NoRow THEN entries
                  ELSE [entries EXCEPT ![q] = Settled(@, "FAILED")]
    /\ Ends
    /\ UNCHANGED <<build, sources, awaiting, inputs, made, audited, history>>

\* A transaction of the handler fails and is rolled back.
TransactionFails ==
    /\ running.step \in {"record", "create", "audit", "complete"}
    /\ Then("fail")
    /\ UNCHANGED <<build, sources, entries, awaiting, inputs, made, audited, history>>

-----------------------------------------------------------------------------
(* A materialization.                                                      *)

PendingIncluded ==
    \E s \in Evidence(sources) : sources[s].review = "PENDING" /\ sources[s].included

\* approvedEvidenceInputsForMaterialization
ApprovedInputs ==
    {<<s, sources[s].text>> : s \in
        {e \in Evidence(sources) : sources[e].review = "APPROVED" /\ sources[e].included
                                      /\ sources[e].text # 0}}

Materializable(expected) ==
    build.revision = expected /\ ~PendingIncluded /\ ApprovedInputs # {}

\* With the rules the pack is made without leaving the loop.
ClaimMaterialization(q, expected, model) ==
    /\ Ready
    /\ entries[q] = NoRow
    /\ IF Materializable(expected)
       THEN /\ entries' = [entries EXCEPT ![q] = Row("PENDING", expected, NoSource)]
            /\ inputs' = [inputs EXCEPT ![q] = ApprovedInputs]
            /\ IF model
               THEN /\ awaiting' = [awaiting EXCEPT ![q] = 1]
                    /\ history' = [history EXCEPT !.calls[q] = IF @ = 2 THEN 2 ELSE @ + 1]
                    /\ UNCHANGED running
               ELSE /\ running' = [request |-> q, step |-> "create"]
                    /\ UNCHANGED <<awaiting, history>>
       ELSE /\ entries' = [entries EXCEPT ![q] = Row("FAILED", expected, NoSource)]
            /\ UNCHANGED <<awaiting, running, inputs, history>>
    /\ UNCHANGED <<build, sources, made, audited>>

\* createEventPack under the id that the request determines.
CreatePack ==
    LET q == running.request IN
    /\ Runs("create")
    /\ IF made[q] = NoPaper
       THEN made' = [made EXCEPT ![q] = inputs[q]] /\ Then("audit")
       ELSE Then("fail") /\ UNCHANGED made
    /\ UNCHANGED <<build, sources, entries, awaiting, inputs, audited, history>>

\* ensureMaterializationAudit
EnsureAudit ==
    /\ running.step \in {"audit", "audit again"}
    /\ audited' = audited \cup {running.request}
    /\ Then(IF running.step = "audit" THEN "complete" ELSE "recover")
    /\ UNCHANGED <<build, sources, entries, awaiting, inputs, made, history>>

\* A repetition never asks the model again: it finds the pack, or nothing.
RepeatMaterialization(q, expected) ==
    /\ Ready
    /\ entries[q] # NoRow
    /\ SamePayload(q, expected, NoSource)
    /\ entries[q].status \in {"PENDING", "FAILED"}
    /\ made[q] # NoPaper
    /\ running' = [request |-> q, step |-> "audit again"]
    /\ UNCHANGED <<build, sources, entries, awaiting, inputs, made, audited, history>>

\* recoverIdempotency
RecoverRequest ==
    LET q == running.request IN
    /\ Runs("recover")
    /\ entries' = IF entries[q] # NoRow /\ entries[q].status \in {"PENDING", "FAILED"}
               THEN [entries EXCEPT ![q].status = "SUCCEEDED"] ELSE entries
    /\ Ends
    /\ UNCHANGED <<build, sources, awaiting, inputs, made, audited, history>>

\* The repetition's own transaction fails: nothing marks its row.
RepetitionFails ==
    /\ running.step \in {"audit again", "recover"}
    /\ Ends
    /\ UNCHANGED <<build, sources, entries, awaiting, inputs, made, audited, history>>

\* The process stops; handlers are lost, rows stay as they are.
StopProcess ==
    /\ running # NotRunning \/ \E q \in FactoryRequests : awaiting[q] > 0
    /\ awaiting' = [q \in FactoryRequests |-> 0]
    /\ Ends
    /\ UNCHANGED <<build, sources, entries, inputs, made, audited, history>>

-----------------------------------------------------------------------------

ReviewStep ==
    \E s \in SourceIds :
        \/ AddPasteSource(s, 1)
        \/ ApproveSource(s)
        \/ RejectSource(s)
        \/ \E included \in BOOLEAN : SetSourceSelection(s, included)
        \/ \E text \in Texts : UpdateSourceRawText(s, text)

CallStep ==
    \/ \E q \in Searches, e \in Revisions : ClaimCall(q, e, NoSource)
    \/ \E q \in Readings, e \in Revisions, s \in SourceIds : ClaimCall(q, e, s)
    \/ \E q \in Searches \cup Readings, step \in {"record", "fail"} : ProviderAnswers(q, step)
    \/ \E s \in SourceIds \ Held(sources) : RecordResults(s, 1)
    \/ running.request \in Searches /\ RecordResults(NoSource, 0)

HandlerStep == CompleteRequest \/ FailRequest \/ TransactionFails

MaterializationStep ==
    \/ \E q \in Materializations, e \in Revisions :
          \/ \E model \in BOOLEAN : ClaimMaterialization(q, e, model)
          \/ RepeatMaterialization(q, e)
    \/ \E q \in Materializations, step \in {"create", "fail"} : ProviderAnswers(q, step)
    \/ CreatePack \/ EnsureAudit \/ RecoverRequest \/ RepetitionFails

FactoryNext ==
    \/ CreateBuild \/ Forget \/ StopProcess
    \/ ReviewStep \/ CallStep \/ HandlerStep \/ MaterializationStep

FactorySpec == FactoryInit /\ [][FactoryNext]_factoryVars

-----------------------------------------------------------------------------
(* Properties.                                                             *)

\* Types: of a build, its sources and the requests about it.
FactoryTypeOK ==
    /\ build \in [state : {"none", "open", "gone"}, revision : Revisions, ready : BOOLEAN]
    /\ sources \in [SourceIds -> {NoSource} \cup
           [kind : {"PASTE", "SEARCH_RESULT", "READER"}, text : {0} \cup Texts,
            review : {"PENDING", "APPROVED", "REJECTED"}, included : BOOLEAN]]
    /\ entries \in [FactoryRequests -> {NoRow} \cup
           [status : {"PENDING", "SUCCEEDED", "FAILED"}, expected : Revisions,
            parent : SourceIds \cup {NoSource}]]
    /\ awaiting \in [FactoryRequests -> 0 .. MaxHandlers]
    /\ running \in
           [request : FactoryRequests \cup {NoRow},
            step : {"none", "record", "create", "audit", "audit again", "complete", "recover",
                    "fail"}]
    /\ audited \subseteq Materializations

\* An Event Pack is made of text that a person approved as it is, whatever was
\* revised, rejected or deleted since, and never of a search result.
PacksAreOfApprovedText ==
    \A q \in Materializations :
        made[q] # NoPaper => made[q] # {} /\ made[q] \subseteq history.approvals

\* The model is asked once for a materialization, however often the request is
\* repeated, before or after a failure or a restart.
MaterializedOnce == \A q \in Materializations : history.calls[q] <= 1

\* What a search or a reading brought is recorded once, though the request may
\* be sent to the provider again and several handlers may serve it.
RecordedOnce == \A q \in Searches \cup Readings : history.recorded[q] <= 1

\* A materialization that counts as succeeded left its pack and the audit event
\* that a guided workflow takes as the proof of the pack's origin, and no event
\* speaks of a pack that is not there.
SuccessIsBacked ==
    \A q \in Materializations :
        /\ entries[q] # NoRow /\ entries[q].status = "SUCCEEDED" => q \in audited
        /\ q \in audited => made[q] # NoPaper

\* The status of an open build tells whether it has an approved text, and a
\* rejected text is gone and takes part in nothing.
StatusTellsTheTruth ==
    /\ build.ready <=> ReviewReady(sources)
    /\ \A s \in Held(sources) :
          sources[s].review = "REJECTED" => sources[s].text = 0 /\ ~sources[s].included

\* A late or a second handler never takes back the success of a request.
SuccessStays ==
    \A q \in FactoryRequests :
        (entries[q] # NoRow /\ entries[q].status = "SUCCEEDED" /\ build'.state = "open")
            => entries'[q] = entries[q]

\* What is reviewed is what is packed: the status of the build speaks of its
\* approved texts, and those alone enter a pack.
ReviewDecides == PacksAreOfApprovedText /\ StatusTellsTheTruth

\* A request has its effect once, however often it is sent, fails or is recovered,
\* and says so only when the effect is there, for good.
RequestsSettleOnce ==
    [][/\ MaterializedOnce' /\ RecordedOnce' /\ SuccessIsBacked'
       /\ SuccessStays]_factoryVars

\* As the docstring of claimIdempotency and PRODUCT.md say, a request whose
\* outcome is unknown is never sent to the provider again by itself.
NeverSentAgain == \A q \in FactoryRequests : history.calls[q] <= 1
=============================================================================
