----------------------------- MODULE GatewayCalls -----------------------------
(***************************************************************************)
(* One request of a workflow to a model: the request CognitionService       *)
(* builds, the gateway that posts it, tries again, reads the response in    *)
(* the dialect of its provider, asks once for a repair and concludes, the   *)
(* checks of _execute, and what each workflow tells of it.  A question      *)
(* about a result makes two calls, a plan and an answer.                    *)
(*                                                                         *)
(* The provider is external: it answers anything, and knows what it         *)
(* counted.  wire is what went over the network, which the program only     *)
(* knows through the responses.  A post and its response are one step,      *)
(* since nothing of the call changes between them.                          *)
(***************************************************************************)
EXTENDS Integers

CONSTANT PolicyAttempts  \* ModelPolicy.max_transport_attempts

ASSUME GatewayCallsAssumption == PolicyAttempts \in Nat \ {0}

VARIABLES
    asked,    \* the provider, the workflow, and what the cache has for it, or "none"
    call,     \* the local variables of generateStructured and _postWithRetry
    wire,     \* what was sent and received for the call, external
    plan,     \* the planner's call of a question, once it has ended
    receipt,  \* the last progress that a guided turn has recorded
    told      \* what the workflow returned or raised

gatewayVars == <<asked, call, wire, plan, receipt, told>>

-----------------------------------------------------------------------------
(* The providers and what they can send.                                   *)

\* The others of the router read as deepseek's: choices, as of chat completions.
Providers == {"zhipu", "openai", "anthropic", "google", "deepseek"}

ErrorStatuses == {400, 401, 403, 429, 500, 503}

\* The error codes, by the sets that the classifications name.
ProviderCodes == {"none", "credential", "permission", "busy", "overloaded", "quota", "filtered",
                  "other"}

Finishes == {"complete", "length", "filtered", "refused", "failed", "capacity", "network",
             "unknown"}

\* The texts: none, a refusal, those that a check refuses, and the good one.
Texts == {"empty", "refusal", "malformed", "ungrounded", "forbidden", "disclosing", "unsafe",
          "misfit", "good"}

\* The tokens of a response as the provider counted them, with cached input or thoughts.
Counts == {[fresh |-> 1, cached |-> 2, visible |-> 1, thought |-> 0],
           [fresh |-> 1, cached |-> 0, visible |-> 1, thought |-> 2]}
TokensOf(count) == count.fresh + count.cached + count.visible + count.thought

Absent == -1

\* Each dialect's usage: Anthropic counts cached input apart, Google thoughts.
AsReported(provider, count) ==
    [input  |-> IF provider = "anthropic" THEN count.fresh ELSE count.fresh + count.cached,
     cached |-> count.cached,
     output |-> IF provider = "google" THEN count.visible ELSE count.visible + count.thought,
     thought |-> IF provider = "google" THEN count.thought ELSE 0,
     total  |-> IF provider = "anthropic" THEN Absent ELSE TokensOf(count)]

\* What may be wrong with a usage, beside nothing; Anthropic's has no total, and no
\* input that its cached tokens could exceed.
Flaws(provider) == {"none", "missing"} \union
    IF provider = "anthropic" THEN {} ELSE {"noTotal", "wrongTotal", "overCached"}

Flawed(report, flaw) ==
    CASE flaw = "missing"    -> [report EXCEPT !.output = Absent]
      [] flaw = "noTotal"    -> [report EXCEPT !.total = Absent]
      [] flaw = "wrongTotal" -> [report EXCEPT !.total = @ + 1]
      [] flaw = "overCached" -> [report EXCEPT !.cached = report.input + 1]
      [] OTHER               -> report

-----------------------------------------------------------------------------
(* The workflows: what each asks for, and how.                             *)

Workflows == {"connection", "extraction", "guided", "belief", "initial", "question"}
Interpreting(w) == w \in {"initial", "question"}

\* The texts that can come up: a plan and a proposal cite nothing, only a belief
\* has an action, plans and claims have no field that is scanned, and two workflows
\* have a validator that may refuse what the schema admits.
TextsFor(w, plans) ==
    Texts \ UNION {IF w = "guided" \/ plans THEN {"ungrounded"} ELSE {},
                   IF w = "belief" THEN {} ELSE {"forbidden"},
                   IF w \in {"connection", "extraction"} \/ plans THEN {"unsafe"} ELSE {},
                   IF w \in {"extraction", "guided"} THEN {} ELSE {"misfit"}}

\* _policy and _interpretationPolicy: who may post again, who may fall back on rules.
Attempts(w) == IF Interpreting(w) THEN 1 ELSE PolicyAttempts
AllowsFallback(w) == w = "belief"

\* The connection is tested under a nonce; a conversation does not use the cache.
ReadsCache(w) == w \in {"extraction", "belief"}
WritesCache(w) == ReadsCache(w) \/ w = "connection"

\* _buildRequest: only what a user watches is streamed.
Streams(w) == Interpreting(w) \/ w = "belief"

\* The payload of a post: a repair is neither streamed nor thought about, and the
\* chat dialects report the usage of a stream only when they are asked for it.
RestPayload(w, repair) ==
    LET streamed == Streams(w) /\ ~repair IN [stream |-> streamed, usageAsked |-> streamed]
ZhipuPayload(w) == [stream |-> Streams(w), usageAsked |-> FALSE]
ZhipuRepairPayload(w) == [ZhipuPayload(w) EXCEPT !.stream = FALSE]

Payload(provider, w, repair) ==
    CASE provider # "zhipu"          -> RestPayload(w, repair)
      [] provider = "zhipu" /\ repair -> ZhipuRepairPayload(w)
      [] OTHER                        -> ZhipuPayload(w)

\* Who leaves the usage out of a stream unless asked, external.
ReportsUsage(provider, payload) ==
    provider = "deepseek" /\ payload.stream => payload.usageAsked

-----------------------------------------------------------------------------
(* What the gateways make of a response.                                   *)

\* FailureCode, those that a call can end with.
FailureCodes ==
    {"AUTHENTICATION_ERROR", "PERMISSION_ERROR", "RATE_LIMITED", "OVERLOADED", "QUOTA_EXHAUSTED",
     "TIMEOUT", "TRANSPORT_ERROR", "REQUEST_INVALID", "RESPONSE_INVALID", "USAGE_MISSING",
     "CONTENT_FILTERED", "REFUSAL", "SCHEMA_INVALID", "EVIDENCE_ID_UNKNOWN",
     "ACTION_NOT_ALLOWED", "PROMPT_DISCLOSURE_BLOCKED"}

GatewayError(code, retryable) == [code |-> code, retryable |-> retryable]

\* _classifyError of the zhipu gateway: the first rule that applies.
ZhipuVerdict(status, code) ==
    IF code = "credential" \/ status = 401 THEN GatewayError("AUTHENTICATION_ERROR", FALSE)
    ELSE IF code = "permission" \/ status = 403 THEN GatewayError("PERMISSION_ERROR", FALSE)
    ELSE IF code = "busy" THEN GatewayError("RATE_LIMITED", TRUE)
    ELSE IF code = "overloaded" \/ status = 503 THEN GatewayError("OVERLOADED", TRUE)
    ELSE IF code = "quota" THEN GatewayError("QUOTA_EXHAUSTED", FALSE)
    ELSE IF code = "filtered" THEN GatewayError("CONTENT_FILTERED", FALSE)
    ELSE IF status = 429 /\ code \in {"none", "busy", "overloaded"} THEN GatewayError("RATE_LIMITED", TRUE)
    ELSE IF status = 429 THEN GatewayError("RATE_LIMITED", FALSE)
    ELSE IF status >= 500 THEN GatewayError("TRANSPORT_ERROR", TRUE)
    ELSE GatewayError("REQUEST_INVALID", FALSE)

\* _classifyError of the others, where a status outweighs most codes.
RestVerdict(status, code) ==
    IF status = 401 \/ code = "credential" THEN GatewayError("AUTHENTICATION_ERROR", FALSE)
    ELSE IF status = 403 \/ code = "permission" THEN GatewayError("PERMISSION_ERROR", FALSE)
    ELSE IF code = "quota" THEN GatewayError("QUOTA_EXHAUSTED", FALSE)
    ELSE IF status = 429 THEN GatewayError("RATE_LIMITED", TRUE)
    ELSE IF status = 503 \/ code = "overloaded" THEN GatewayError("OVERLOADED", TRUE)
    ELSE IF status >= 500 THEN GatewayError("TRANSPORT_ERROR", TRUE)
    ELSE IF code = "filtered" THEN GatewayError("CONTENT_FILTERED", FALSE)
    ELSE GatewayError("REQUEST_INVALID", FALSE)

Classified(provider, status, code) ==
    IF provider = "zhipu" THEN ZhipuVerdict(status, code) ELSE RestVerdict(status, code)

\* _decodeRawBody: of an error only its status is trusted; a success has to be read.
Undecodable(provider, status) ==
    IF status = 200 THEN GatewayError("RESPONSE_INVALID", FALSE) ELSE Classified(provider, status, "none")

\* The usage of a response, or NoUsage where it is not to be trusted.
NoUsage == -1

ZhipuUsage(report) ==
    IF Absent \in {report.output, report.total} \/ report.total # report.input + report.output
       \/ report.cached > report.input
    THEN NoUsage
    ELSE report.input + report.output

RestUsage(provider, report) ==
    LET prompt == report.input + IF provider = "anthropic" THEN report.cached ELSE 0
        completion == report.output + IF provider = "google" THEN report.thought ELSE 0
    IN  IF report.output = Absent \/ report.cached > prompt
           \/ (provider # "anthropic" /\ report.total \notin {Absent, prompt + completion})
        THEN NoUsage
        ELSE prompt + completion

TrustedUsage(provider, report) ==
    IF provider = "zhipu" THEN ZhipuUsage(report) ELSE RestUsage(provider, report)

Fine == "OK"

\* The text of the blocks or of the message of an answer.
TextVerdict(text) ==
    CASE text = "refusal" -> "REFUSAL"
      [] text = "empty"   -> "RESPONSE_INVALID"
      [] OTHER            -> Fine

ZhipuContent(finish, text) ==
    CASE finish = "complete" -> TextVerdict(text)
      [] finish = "filtered" -> "CONTENT_FILTERED"
      [] finish = "network"  -> "TRANSPORT_ERROR"
      [] OTHER               -> "RESPONSE_INVALID"

\* OpenAI and Google name what went wrong, so that an unknown status passes.
RestContent(provider, finish, text) ==
    CASE finish = "complete" -> TextVerdict(text)
      [] finish = "filtered" -> "CONTENT_FILTERED"
      [] provider = "anthropic" /\ finish = "refused" -> "REFUSAL"
      [] provider = "deepseek" /\ finish = "capacity" -> "OVERLOADED"
      [] provider \in {"openai", "google"} /\ finish \notin {"complete", "filtered", "length", "failed"} ->
            TextVerdict(text)
      [] OTHER -> "RESPONSE_INVALID"

\* _validateContent: the schema, the cited evidence, the action, what is disclosed.
Validated(text) ==
    CASE text = "malformed"  -> "SCHEMA_INVALID"
      [] text = "ungrounded" -> "EVIDENCE_ID_UNKNOWN"
      [] text = "forbidden"  -> "ACTION_NOT_ALLOWED"
      [] text = "disclosing" -> "PROMPT_DISCLOSURE_BLOCKED"
      [] OTHER               -> Fine

AnswerVerdict(provider, finish, text) ==
    LET content == IF provider = "zhipu" THEN ZhipuContent(finish, text)
                                         ELSE RestContent(provider, finish, text)
    IN  IF content = Fine THEN Validated(text) ELSE content

RepairableCodes == {"SCHEMA_INVALID", "EVIDENCE_ID_UNKNOWN", "ACTION_NOT_ALLOWED",
                    "RESPONSE_INVALID"}

-----------------------------------------------------------------------------
(* The call: generateStructured with _postWithRetry.                       *)

provider == asked.provider
planning == asked.workflow = "question" /\ plan.stage = "none"

Unposted ==
    [stage |-> "idle", attempt |-> 0, lost |-> 0, attempts |-> 0, uncertain |-> 0, usage |-> 0,
     code |-> "none", http |-> FALSE, repairUsed |-> FALSE, hit |-> FALSE, data |-> "none"]

FirstPost == [Unposted EXCEPT !.stage = "first", !.attempt = 1]

NewWire == [sent |-> 0, unknown |-> 0, tokens |-> 0, last |-> "none", mended |-> 0]

NotPlanned == [stage |-> "none", call |-> Unposted, wire |-> NewWire]
NotTold == [state |-> "none", attempts |-> 0, uncertain |-> 0, usage |-> 0, code |-> "none"]

\* What the gateway accepts, and so may keep, before _execute looks at it.
Storable == {"good", "unsafe", "misfit"}

AskedRecords == [provider : Providers, workflow : Workflows, stored : Storable \union {"none"}]

GatewayInit ==
    /\ asked \in AskedRecords
    /\ asked.stored # "none" =>
          ReadsCache(asked.workflow) /\ asked.stored \in TextsFor(asked.workflow, FALSE)
    /\ call = Unposted /\ wire = NewWire /\ plan = NotPlanned
    /\ receipt = "none" /\ told = NotTold

\* A guided turn records the dispatch before anything is sent; where that fails
\* the call is not made.
DispatchGuided(recorded) ==
    /\ asked.workflow = "guided" /\ call.stage = "idle" /\ told = NotTold
    /\ IF recorded
       THEN receipt' = "dispatched" /\ call' = FirstPost /\ UNCHANGED told
       ELSE told' = [NotTold EXCEPT !.state = "error"] /\ UNCHANGED <<receipt, call>>
    /\ UNCHANGED <<asked, wire, plan>>

\* The others post at once, unless the cache has the answer.
Begin ==
    /\ asked.workflow # "guided" /\ call.stage = "idle" /\ told = NotTold
    /\ call' = IF asked.stored = "none" THEN FirstPost
               ELSE [Unposted EXCEPT !.stage = "answered", !.hit = TRUE, !.data = asked.stored]
    /\ UNCHANGED <<asked, wire, plan, receipt, told>>

\* The call after its post or the check of its answer has failed: one repair.
Failed(c, code) ==
    IF c.stage = "first" /\ code \in RepairableCodes
    THEN [c EXCEPT !.stage = "repair", !.attempt = 1, !.lost = 0, !.code = code, !.repairUsed = TRUE]
    ELSE [c EXCEPT !.stage = "concluding", !.code = code]

\* What a post adds to the call's totals.
Totalled(c) == [c EXCEPT !.attempts = @ + c.attempt, !.uncertain = @ + c.lost]

\* An attempt fails: the next of the post, or the post fails with it.
AttemptFails(c, verdict) ==
    IF verdict.retryable /\ c.attempt < Attempts(asked.workflow)
    THEN [c EXCEPT !.attempt = @ + 1]
    ELSE Failed(Totalled(c), verdict.code)

Posting == call.stage \in {"first", "repair"}

\* Whose bill is unknown.
Lost(c) == [c EXCEPT !.lost = @ + 1]

\* What the wire shows of a response, in words of its own: whether to send again.
Sent(last, unknown, tokens) ==
    wire' = [wire EXCEPT !.sent = @ + 1, !.unknown = @ + unknown, !.tokens = @ + tokens,
                         !.last = last, !.mended = IF wire.last = "mendable" THEN @ + 1 ELSE @]

\* A timeout or a broken connection, also while the body is read.
PostLost(code) ==
    /\ Posting
    /\ call' = AttemptFails([Lost(call) EXCEPT !.http = FALSE], GatewayError(code, TRUE))
    /\ Sent("again", 1, 0)
    /\ UNCHANGED <<asked, plan, receipt, told>>

\* Whether an error of the provider passes by itself, external.
Passing(status, code) == status \in {429, 500, 503} \/ code \in {"busy", "overloaded"}

\* An error of the provider, with a readable body.
PostRefused(status, code) ==
    /\ Posting
    /\ call' = AttemptFails([call EXCEPT !.http = TRUE], Classified(provider, status, code))
    /\ Sent(IF Passing(status, code) THEN "again" ELSE "final", 0, 0)
    /\ UNCHANGED <<asked, plan, receipt, told>>

\* A body that is no JSON object, or a stream that is not whole.
PostUndecodable(status) ==
    /\ Posting
    /\ call' = AttemptFails([IF status = 200 THEN Lost(call) ELSE call EXCEPT !.http = TRUE],
                              Undecodable(provider, status))
    /\ IF status = 200 THEN Sent("mendable", 1, 0)
                       ELSE Sent(IF Passing(status, "none") THEN "again" ELSE "final", 0, 0)
    /\ UNCHANGED <<asked, plan, receipt, told>>

\* The answer of a provider, with its usage, how it finished and its text.
ProviderAnswers ==
    [count : Counts, flaw : Flaws(provider), finish : Finishes,
     text : TextsFor(asked.workflow, planning)]

\* What a provider means by an answer with a bill: it is one, can be mended, or is its last word.
Meaning(answer) ==
    LET whole == answer.finish = "complete"
                 \/ (provider \in {"openai", "google"}
                     /\ answer.finish \notin {"filtered", "length", "failed"})
        closed == \/ answer.finish = "filtered"
                  \/ whole /\ answer.text \in {"refusal", "disclosing"}
                  \/ <<provider, answer.finish>> \in
                        {<<"anthropic", "refused">>, <<"deepseek", "capacity">>, <<"zhipu", "network">>}
    IN  IF closed THEN "final"
        ELSE IF whole /\ answer.text \in {"good", "unsafe", "misfit"} THEN "answered" ELSE "mendable"

\* The call after a readable 200: its usage is registered before its text is looked at.
AfterAnswer(c, tokens, verdict, text) ==
    IF tokens = NoUsage
    THEN Failed([c EXCEPT !.uncertain = @ + 1], "USAGE_MISSING")
    ELSE LET paid == [c EXCEPT !.usage = @ + tokens]
         IN  IF verdict = Fine THEN [paid EXCEPT !.stage = "answered", !.data = text]
                               ELSE Failed(paid, verdict)

\* A readable 200 ends its post; an accepted answer is put into the cache.
PostAnswered(answer) ==
    LET payload == Payload(provider, asked.workflow, call.stage = "repair")
        report == Flawed(AsReported(provider, answer.count),
                         IF ReportsUsage(provider, payload) THEN answer.flaw ELSE "missing")
        trusted == answer.flaw = "none" \/ (answer.flaw = "noTotal" /\ provider # "zhipu")
    IN  /\ Posting
        /\ call' = AfterAnswer(Totalled([call EXCEPT !.http = FALSE]), TrustedUsage(provider, report),
                               AnswerVerdict(provider, answer.finish, answer.text), answer.text)
        /\ IF trusted THEN Sent(Meaning(answer), 0, TokensOf(answer.count))
                      ELSE Sent("final", 1, 0)
        /\ asked' = IF call'.stage = "answered" /\ WritesCache(asked.workflow)
                    THEN [asked EXCEPT !.stored = answer.text] ELSE asked
        /\ UNCHANGED <<plan, receipt, told>>

\* Nothing valid came: the rule's answer, or the error.
Conclude ==
    /\ call.stage = "concluding"
    /\ call' = IF AllowsFallback(asked.workflow) THEN [call EXCEPT !.stage = "answered", !.data = "rule"]
                                                 ELSE [call EXCEPT !.stage = "raised"]
    /\ UNCHANGED <<asked, wire, plan, receipt, told>>

-----------------------------------------------------------------------------
(* _execute after the gateway, and what the workflows tell.                *)

\* The scan of the texts and the validator of the workflow.
ExecuteRefuses(c) ==
    CASE c.stage = "answered" /\ c.data = "unsafe" -> "PROMPT_DISCLOSURE_BLOCKED"
      [] c.stage = "answered" /\ c.data = "misfit" -> "RESPONSE_INVALID"
      [] OTHER -> Fine

Succeeded(c) == c.stage = "answered" /\ ExecuteRefuses(c) = Fine

\* The call as its error tells it: that of _execute knows nothing of the gateway's.
AsError(c) ==
    IF c.stage = "raised" THEN [c EXCEPT !.usage = 0]
    ELSE [Unposted EXCEPT !.stage = "raised", !.code = ExecuteRefuses(c)]

Executed(c) == IF Succeeded(c) THEN c ELSE AsError(c)

Told(state, c) ==
    [state |-> state, attempts |-> c.attempts, uncertain |-> c.uncertain, usage |-> c.usage,
     code |-> c.code]

Ended == call.stage \in {"answered", "raised"} /\ told = NotTold

\* testConnection, extractEventClaims, generateBeliefDecision: the result or the error.
TellSingle ==
    /\ Ended /\ asked.workflow \in {"connection", "extraction", "belief"}
    /\ LET ended == Executed(call) IN
       told' = Told(IF ended.stage = "raised" THEN "error"
                    ELSE IF ended.data = "rule" THEN "rule" ELSE "answer", ended)
    /\ UNCHANGED <<asked, call, wire, plan, receipt>>

\* proposeGuidedWorkflow: a failed record of a failure changes nothing, a failed
\* record of a success loses the proposal.
TellGuided(recorded) ==
    /\ Ended /\ asked.workflow = "guided"
    /\ LET ended == Executed(call) IN
       IF ended.stage = "raised"
       THEN /\ receipt' = IF recorded THEN "failed" ELSE receipt
            /\ told' = Told("error", ended)
       ELSE /\ receipt' = IF recorded THEN "validated" ELSE receipt
            /\ told' = IF recorded THEN Told("answer", ended) ELSE [NotTold EXCEPT !.state = "error"]
    /\ UNCHANGED <<asked, call, wire, plan>>

\* A plan, or none: the answer is asked for in either case.
PlanEnds ==
    /\ Ended /\ planning
    /\ plan' = [stage |-> Executed(call).stage, call |-> Executed(call), wire |-> wire]
    /\ call' = FirstPost /\ wire' = NewWire
    /\ UNCHANGED <<asked, receipt, told>>

Plus(c, d) ==
    [c EXCEPT !.attempts = @ + d.attempts, !.uncertain = @ + d.uncertain, !.usage = @ + d.usage]

\* interpretExperimentResult with an answer: the plan's cost is added, be it an error's.
TellInterpretation ==
    /\ Ended /\ Interpreting(asked.workflow) /\ ~planning
    /\ Succeeded(call)
    /\ told' = Told("answer", Plus(call, plan.call))
    /\ UNCHANGED <<asked, call, wire, plan, receipt>>

\* Without an answer: the summary of the server, with the cost of the answer's call
\* and of a plan, but not of a plan that failed.
TellSummary ==
    /\ Ended /\ Interpreting(asked.workflow) /\ ~planning
    /\ ~Succeeded(call)
    /\ told' = Told("summary", IF plan.stage = "answered" THEN Plus(AsError(call), plan.call)
                                                          ELSE AsError(call))
    /\ UNCHANGED <<asked, call, wire, plan, receipt>>

GatewayNext ==
    \/ \E recorded \in BOOLEAN : DispatchGuided(recorded) \/ TellGuided(recorded)
    \/ Begin
    \/ \E code \in {"TIMEOUT", "TRANSPORT_ERROR"} : PostLost(code)
    \/ \E status \in ErrorStatuses :
          \/ \E code \in ProviderCodes : PostRefused(status, code)
          \/ PostUndecodable(status)
    \/ PostUndecodable(200)
    \/ \E answer \in ProviderAnswers : PostAnswered(answer)
    \/ Conclude
    \/ TellSingle
    \/ PlanEnds \/ TellInterpretation \/ TellSummary

GatewaySpec == GatewayInit /\ [][GatewayNext]_gatewayVars

-----------------------------------------------------------------------------
GatewayStages == {"idle", "first", "repair", "concluding", "answered", "raised"}

CallRecords ==
    [stage : GatewayStages, attempt : 0 .. PolicyAttempts, lost : Nat, attempts : Nat,
     uncertain : Nat, usage : Nat, code : FailureCodes \union {"none"}, http : BOOLEAN,
     repairUsed : BOOLEAN, hit : BOOLEAN, data : Texts \union {"none", "rule"}]
WireRecords ==
    [sent : Nat, unknown : Nat, tokens : Nat, mended : 0 .. 1,
     last : {"none", "again", "mendable", "answered", "final"}]
PlanRecords == [stage : {"none", "answered", "raised"}, call : CallRecords, wire : WireRecords]
ToldRecords ==
    [state : {"none", "answer", "rule", "summary", "error"}, attempts : Nat, uncertain : Nat,
     usage : Nat, code : FailureCodes \union {"none"}]

\* The type invariant of a model call.
GatewayTypeOK ==
    /\ asked \in AskedRecords
    /\ call \in CallRecords /\ wire \in WireRecords
    /\ plan \in PlanRecords
    /\ receipt \in {"none", "dispatched", "failed", "validated"}
    /\ told \in ToldRecords

\* Through timeouts, retries, errors of every kind and a repair, what the gateway tells of
\* a call is what went over the wire: each request, each that may have been billed
\* without a number, and each token that its provider counted, in whose dialect ever
\* (generateStructured and _postWithRetry of both gateways).
CallTellsWire ==
    call.stage \in {"concluding", "answered", "raised"} =>
        /\ call.attempts = wire.sent
        /\ call.uncertain = wire.unknown
        /\ call.usage = wire.tokens

\* What a workflow gives out as a model's answer was whole, paid with a known or
\* bounded bill and valid, or comes from the cache; rules answer for beliefs alone; an
\* interpretation makes at most four requests; and it tells what its requests cost, but for the
\* two losses of section 4: both calls failed, or _execute refused an answer.
AnswersAreTold ==
    /\ told.state = "answer" => call.data = "good" /\ (call.hit \/ wire.last = "answered")
    /\ told.state = "rule" => asked.workflow = "belief" /\ call.code # "none"
    /\ Interpreting(asked.workflow) => plan.wire.sent + wire.sent <= 4
    /\ told.state \in {"answer", "summary"} =>
          /\ told.attempts <= plan.wire.sent + wire.sent
          /\ told.uncertain <= plan.wire.unknown + wire.unknown
          /\ ~(plan.stage = "raised" /\ ~Succeeded(call)) /\ (call.stage = "answered" => Succeeded(call)) =>
                /\ told.attempts = plan.wire.sent + wire.sent
                /\ told.uncertain = plan.wire.unknown + wire.unknown

\* A guided turn sends nothing before its dispatch is on record, and never claims an
\* answer that did not come (proposeGuidedWorkflow).
ReceiptsAreTrue ==
    asked.workflow = "guided" =>
        /\ wire.sent > 0 => receipt # "none"
        /\ receipt = "validated" => wire.last = "answered"

\* A request is paid for, so another is only sent where the last may have been lost or
\* refused for a moment, or once to mend an answer; never after an answer, a refusal, a
\* filter, or a bill that cannot be told (_postWithRetry, _isRepairable).
SentForAReason ==
    wire'.sent > wire.sent =>
        /\ wire.last \in {"none", "again", "mendable"}
        /\ wire'.mended <= 1

\* What a step of a model call keeps (StructuredProviderRestGateway, ZhipuRestGateway,
\* CognitionService).
GatewayStep == CallTellsWire' /\ AnswersAreTold' /\ ReceiptsAreTrue' /\ SentForAReason

\* The same, of every step.
GatewaySound == [][GatewayStep]_gatewayVars

\* The failure record of a guided turn says whether a response was received.  No run
\* checks it: only an error with an HTTP status counts, an answer that was billed and then
\* refused does not (section 4).
FailuresTellReceipt == receipt = "failed" /\ wire.tokens > 0 => call.http
=============================================================================
