------------------------------ MODULE ModelCalls ------------------------------
(***************************************************************************)
(* Structured model calls: CognitionService._execute with the provider     *)
(* gateway it calls, the budget it reserves from, the immutable decision   *)
(* cache and the telemetry.  The calls of one experiment share a budget;   *)
(* all calls of one user share the cache, and every attempt at a provider  *)
(* is an await at which other calls run.                                   *)
(*                                                                         *)
(* Money is counted in units of which one response costs at most           *)
(* ResponseCost; a budget holds CapUsd of them.  billed is the provider's  *)
(* account of a call, which the program never sees.                        *)
(***************************************************************************)
EXTENDS Integers, FiniteSets, FiniteSetsExt

CONSTANTS
    Requests,              \* the calls of _execute
    DecisionKeys,          \* the keys of the decision cache
    ModelAnswers,          \* the answers that pass the gateway's validation
    MisfitAnswers,         \* those that the workflow's own validator refuses
    MaxTransportAttempts,  \* ModelPolicy.max_transport_attempts
    ResponseCost,          \* the price of the largest response
    CapUsd,                \* ModelCostBudget._capUsd
    MaxEntries,            \* ImmutableDecisionCache._maxEntries
    NoAnswer               \* the data of a call that has none

ASSUME ModelCallsAssumption ==
    /\ IsFiniteSet(Requests) /\ DecisionKeys # {}
    /\ MisfitAnswers \subseteq ModelAnswers
    /\ NoAnswer \notin ModelAnswers
    /\ MaxTransportAttempts \in 1 .. 3
    /\ {ResponseCost, MaxEntries} \subseteq Nat \ {0}
    /\ CapUsd \in Nat

VARIABLES
    calls,       \* the local variables of each call
    decisions,   \* ImmutableDecisionCache._items
    chargedUsd,  \* ModelCostBudget._chargedUsd
    reservedUsd, \* ModelCostBudget._active, one entry per call
    telemetry,   \* CognitionService._telemetry
    billed       \* what the provider bills for a call, external

modelVars == <<calls, decisions, chargedUsd, reservedUsd, telemetry, billed>>

\* The failures one repair is tried for; the others end the call.
Repairable == {"SCHEMA_INVALID", "MODEL_RESPONSE_INVALID"}

\* The program counters of a call; the last two are its outcomes.
Stages == {"new", "lookup", "initial", "repair", "concluding", "answered",
           "validating", "returned", "failed"}

NewCall ==
    [stage |-> "new", key |-> CHOOSE k \in DecisionKeys : TRUE, budgeted |-> FALSE,
     allowFallback |-> FALSE, attempt |-> 0, uncertain |-> 0,
     usage |-> 0, usageMissing |-> FALSE, data |-> NoAnswer, fallback |-> FALSE, hit |-> FALSE]

ModelInit ==
    /\ calls = [c \in Requests |-> NewCall]
    /\ decisions = [k \in {} |-> NoAnswer]
    /\ chargedUsd = 0
    /\ reservedUsd = [c \in Requests |-> 0]
    /\ telemetry = [calls |-> 0, cacheHits |-> 0, fallbacks |-> 0, structuredSuccesses |-> 0]
    /\ billed = [c \in Requests |-> 0]

AllReserved(f) == MapThenSumSet(LAMBDA c : f[c], Requests)

\* Every attempt of the first post and of the repair may be billed.
MaximumBillableResponses == 2 * MaxTransportAttempts
MaximumUsd == MaximumBillableResponses * ResponseCost

-----------------------------------------------------------------------------
(* Telemetry.                                                              *)

RecordResult(fallback, hit) ==
    telemetry' = [telemetry EXCEPT
        !.calls = @ + 1,
        !.cacheHits = IF hit THEN @ + 1 ELSE @,
        !.fallbacks = IF fallback THEN @ + 1 ELSE @,
        !.structuredSuccesses = IF fallback THEN @ ELSE @ + 1]

\* Nothing is recorded of a call that goes on.
RecordNothing == UNCHANGED telemetry

RecordError == telemetry' = [telemetry EXCEPT !.calls = @ + 1]

-----------------------------------------------------------------------------
(* The call: reservation, cache, attempts, repair, settlement, validation. *)

\* What a reservation asks for, before the repair was counted with it.
ReserveInitialOnly == MaxTransportAttempts * ResponseCost

Reservation == MaximumUsd

\* reserve refuses what the budget cannot cover at worst; nothing is sent.
Reserve(c, key, allowFallback) ==
    /\ calls[c].stage = "new"
    /\ IF chargedUsd + AllReserved(reservedUsd) + Reservation > CapUsd
       THEN /\ calls' = [calls EXCEPT ![c].stage = "failed", ![c].budgeted = TRUE]
            /\ RecordError
            /\ UNCHANGED reservedUsd
       ELSE /\ calls' = [calls EXCEPT ![c] = [@ EXCEPT
                            !.stage = "lookup", !.key = key, !.budgeted = TRUE,
                            !.allowFallback = allowFallback]]
            /\ reservedUsd' = [reservedUsd EXCEPT ![c] = Reservation]
            /\ RecordNothing
    /\ UNCHANGED <<decisions, chargedUsd, billed>>

\* extractEventClaims and testConnection have no budget and no fallback.
CallWithoutBudget(c, key) ==
    /\ calls[c].stage = "new"
    /\ calls' = [calls EXCEPT ![c] = [@ EXCEPT !.stage = "lookup", !.key = key]]
    /\ UNCHANGED <<decisions, chargedUsd, reservedUsd, telemetry, billed>>

\* A hit answers without an attempt; otherwise the first attempt is sent.
Lookup(c) ==
    /\ calls[c].stage = "lookup"
    /\ calls' = [calls EXCEPT ![c] =
          IF @.key \in DOMAIN decisions
          THEN [@ EXCEPT !.stage = "answered", !.hit = TRUE, !.data = decisions[calls[c].key]]
          ELSE [@ EXCEPT !.stage = "initial", !.attempt = 1]]
    /\ UNCHANGED <<decisions, chargedUsd, reservedUsd, telemetry, billed>>

\* A call after its post raised code: one repair, and then the fallback or the error.
AfterPost(call, code) ==
    IF call.stage = "initial" /\ code \in Repairable
    THEN [call EXCEPT !.stage = "repair", !.attempt = 1]
    ELSE [call EXCEPT !.stage = "concluding", !.usageMissing = code = "MODEL_USAGE_MISSING"]

\* A call after a retryable failure of one attempt.
Retried(call, code) ==
    IF call.attempt < MaxTransportAttempts
    THEN [call EXCEPT !.attempt = @ + 1]
    ELSE AfterPost(call, code)

Bill(c, amount) == billed' = [billed EXCEPT ![c] = @ + amount]

Sending(c) == calls[c].stage \in {"initial", "repair"}

\* The attempts that may have been billed are counted, whatever follows.
Uncertain(call) == [call EXCEPT !.uncertain = @ + 1]

\* A timeout or a broken connection: the provider may have billed the attempt.
AttemptLost(c, amount) ==
    /\ Sending(c)
    /\ calls' = [calls EXCEPT ![c] = Retried(Uncertain(@), "MODEL_TIMEOUT")]
    /\ Bill(c, amount)
    /\ UNCHANGED <<decisions, chargedUsd, reservedUsd, telemetry>>

\* An HTTP error, which no provider bills; rate limits and overloads are retried.
AttemptRejected(c, retryable) ==
    /\ Sending(c)
    /\ calls' = [calls EXCEPT ![c] =
          IF retryable THEN Retried(@, "REJECTED") ELSE AfterPost(@, "REJECTED")]
    /\ UNCHANGED <<decisions, chargedUsd, reservedUsd, telemetry, billed>>

\* HTTP 200 with a body that cannot be read, or without usable usage.
AttemptUnaccounted(c, code, amount) ==
    /\ Sending(c)
    /\ calls' = [calls EXCEPT ![c] = AfterPost(Uncertain(@), code)]
    /\ Bill(c, amount)
    /\ UNCHANGED <<decisions, chargedUsd, reservedUsd, telemetry>>

\* HTTP 200 with usage, but a refusal or content that fails the schema.
ResponseRefused(c, code, amount) ==
    /\ Sending(c)
    /\ calls' = [calls EXCEPT ![c] = AfterPost([calls[c] EXCEPT !.usage = @ + amount], code)]
    /\ Bill(c, amount)
    /\ UNCHANGED <<decisions, chargedUsd, reservedUsd, telemetry>>

\* put: a key is written once, by the first answer, while there is room.
Conflicts(key, answer) == key \in DOMAIN decisions /\ decisions[key] # answer
CacheFull(key) == key \notin DOMAIN decisions /\ Cardinality(DOMAIN decisions) >= MaxEntries

\* A put that keeps the first answer and lets the second caller go on with its own.
PutWithoutConflict(key, answer) ==
    /\ ~CacheFull(key)
    /\ decisions' = [k \in DOMAIN decisions \union {key} |->
                        IF k \in DOMAIN decisions THEN decisions[k] ELSE answer]

Put(key, answer) ==
    /\ ~Conflicts(key, answer)
    /\ ~CacheFull(key)
    /\ decisions' = [k \in DOMAIN decisions \union {key} |->
                        IF k = key THEN answer ELSE decisions[k]]

\* A valid answer is cached and returned by the gateway.
ResponseAccepted(c, answer, amount) ==
    /\ Sending(c)
    /\ Put(calls[c].key, answer)
    /\ calls' = [calls EXCEPT ![c] =
          [calls[c] EXCEPT !.stage = "answered", !.data = answer, !.usage = @ + amount]]
    /\ Bill(c, amount)
    /\ UNCHANGED <<chargedUsd, reservedUsd, telemetry>>

\* Closing the reservation of a call with what it is charged.
ChargeAndRelease(c, amount) ==
    /\ chargedUsd' = chargedUsd + amount
    /\ reservedUsd' = [reservedUsd EXCEPT ![c] = 0]

\* failClosed that releases the reservation and charges nothing.
ReleaseOnFailure(c) ==
    /\ reservedUsd' = [reservedUsd EXCEPT ![c] = 0]
    /\ UNCHANGED chargedUsd

\* A failure that no handler settles, its reservation left active.
LeaveActive(c) == UNCHANGED <<chargedUsd, reservedUsd>>

\* failClosed: without a trusted usage the whole reservation is charged.
FailClosed(c) == ChargeAndRelease(c, reservedUsd[c])

\* A valid answer the cache refuses fails its call after it was billed.
ResponseNotCached(c, answer, amount) ==
    /\ Sending(c)
    /\ Conflicts(calls[c].key, answer) \/ CacheFull(calls[c].key)
    /\ calls' = [calls EXCEPT ![c].stage = "failed", ![c].usage = @ + amount]
    /\ Bill(c, amount)
    /\ FailClosed(c)
    /\ RecordError
    /\ UNCHANGED decisions

\* No valid answer, and rules are not allowed to take its place.
GatewayRaises(c) ==
    /\ calls[c].stage = "concluding"
    /\ ~calls[c].allowFallback
    /\ calls' = [calls EXCEPT ![c].stage = "failed"]
    /\ FailClosed(c)
    /\ RecordError
    /\ UNCHANGED <<decisions, billed>>

\* buildRuleFallback; the cache keeps no fallback.
RuleFallback(c) ==
    /\ calls[c].stage = "concluding"
    /\ calls[c].allowFallback
    /\ calls' = [calls EXCEPT ![c].stage = "answered", ![c].fallback = TRUE]
    /\ UNCHANGED <<decisions, chargedUsd, reservedUsd, telemetry, billed>>

\* The charge of a settled call: its usage and a share for each uncertain attempt.
Charge(call) == call.usage + call.uncertain * ResponseCost

ChargeUsageOnly(call) == call.usage

SettledCharge(call) == Charge(call)

\* settle trusts the usage unless it is missing or exceeds the reservation.
Trusted(c) ==
    LET call == calls[c] IN
    /\ ~call.usageMissing
    /\ call.hit \/ call.usage > 0
    /\ call.uncertain <= MaximumBillableResponses
    /\ SettledCharge(call) <= reservedUsd[c]

SettleTrusted(c) ==
    /\ calls[c].stage = "answered"
    /\ calls[c].budgeted => Trusted(c)
    /\ calls' = [calls EXCEPT ![c].stage = "validating"]
    /\ IF calls[c].budgeted THEN ChargeAndRelease(c, SettledCharge(calls[c]))
                            ELSE UNCHANGED <<chargedUsd, reservedUsd>>
    /\ UNCHANGED <<decisions, telemetry, billed>>

\* The whole reservation is charged and the call fails, a fallback with it.
SettleUntrusted(c) ==
    /\ calls[c].stage = "answered"
    /\ calls[c].budgeted
    /\ ~Trusted(c)
    /\ calls' = [calls EXCEPT ![c].stage = "failed"]
    /\ ChargeAndRelease(c, reservedUsd[c])
    /\ RecordError
    /\ UNCHANGED <<decisions, billed>>

\* The workflow's own validator refuses an answer that is cached by now.
ValidatorRefuses(c) ==
    /\ calls[c].stage = "validating"
    /\ calls[c].data \in MisfitAnswers
    /\ calls' = [calls EXCEPT ![c].stage = "failed"]
    /\ RecordError
    /\ UNCHANGED <<decisions, chargedUsd, reservedUsd, billed>>

Return(c) ==
    /\ calls[c].stage = "validating"
    /\ calls[c].data \notin MisfitAnswers
    /\ calls' = [calls EXCEPT ![c].stage = "returned"]
    /\ RecordResult(calls[c].fallback, calls[c].hit)
    /\ UNCHANGED <<decisions, chargedUsd, reservedUsd, billed>>

-----------------------------------------------------------------------------
\* What one response may be billed; an attempt whose bill is unknown is billed the
\* most, which is the worst case for every property below.
ResponseCosts == 1 .. ResponseCost
UnknownCosts == {ResponseCost}

\* What happens to a call once it has begun.
Proceed(c) ==
    \/ Lookup(c)
    \/ \E amount \in UnknownCosts : AttemptLost(c, amount)
    \/ \E retryable \in BOOLEAN : AttemptRejected(c, retryable)
    \/ \E amount \in UnknownCosts, code \in {"MODEL_RESPONSE_INVALID", "MODEL_USAGE_MISSING"} :
          AttemptUnaccounted(c, code, amount)
    \/ \E amount \in ResponseCosts, code \in {"SCHEMA_INVALID", "REFUSAL"} :
          ResponseRefused(c, code, amount)
    \/ \E amount \in ResponseCosts, answer \in ModelAnswers :
          \/ ResponseAccepted(c, answer, amount)
          \/ ResponseNotCached(c, answer, amount)
    \/ GatewayRaises(c)
    \/ RuleFallback(c)
    \/ SettleTrusted(c)
    \/ SettleUntrusted(c)
    \/ ValidatorRefuses(c)
    \/ Return(c)

ModelNext ==
    \E c \in Requests :
        \/ \E key \in DecisionKeys :
              \/ \E allowFallback \in BOOLEAN : Reserve(c, key, allowFallback)
              \/ CallWithoutBudget(c, key)
        \/ Proceed(c)

ModelSpec ==
    /\ ModelInit
    /\ [][ModelNext]_modelVars
    /\ \A c \in Requests : WF_modelVars(Proceed(c))

-----------------------------------------------------------------------------
\* The type invariant of the calls, the budget, the cache and the telemetry.
ModelTypeOK ==
    /\ calls \in [Requests ->
          [stage : Stages, key : DecisionKeys, budgeted : BOOLEAN, allowFallback : BOOLEAN,
           attempt : 0 .. MaxTransportAttempts, uncertain : 0 .. MaximumBillableResponses,
           usage : 0 .. 2 * ResponseCost, usageMissing : BOOLEAN,
           data : ModelAnswers \union {NoAnswer}, fallback : BOOLEAN, hit : BOOLEAN]]
    /\ DOMAIN decisions \subseteq DecisionKeys
    /\ \A k \in DOMAIN decisions : decisions[k] \in ModelAnswers
    /\ chargedUsd \in Nat
    /\ reservedUsd \in [Requests -> {0, Reservation}]
    /\ DOMAIN telemetry = {"calls", "cacheHits", "fallbacks", "structuredSuccesses"}
    /\ \A n \in DOMAIN telemetry : telemetry[n] \in Nat
    /\ billed \in [Requests -> Nat]

\* The cap is a hard one: however lost attempts, retries, repairs and
\* concurrent calls fall together, what the provider bills for the calls of a
\* budget is covered by what is charged or still reserved, and both stay within
\* the cap.
BillsWithinCap ==
    LET budgeted == {c \in Requests : calls[c].budgeted} IN
    /\ MapThenSumSet(LAMBDA c : billed[c], budgeted) <= chargedUsd + AllReserved(reservedUsd)
    /\ chargedUsd + AllReserved(reservedUsd) <= CapUsd

\* A replay reads the cache: every answer of a model that was returned is the
\* one its key holds, so two calls never return different answers for one key,
\* and a rule's answer is never kept as a model's.
AnswersReplay ==
    \A c \in Requests :
        calls[c].stage = "returned" /\ ~calls[c].fallback =>
            /\ calls[c].key \in DOMAIN decisions
            /\ decisions[calls[c].key] = calls[c].data

\* The rate of structured successes that the release gate reads counts every
\* call once, whichever of its many exits it took.
EveryCallCounted ==
    LET Ended(P(_)) == Cardinality({c \in Requests : P(calls[c])}) IN
    /\ telemetry.calls = Ended(LAMBDA call : call.stage \in {"returned", "failed"})
    /\ telemetry.structuredSuccesses =
          Ended(LAMBDA call : call.stage = "returned" /\ ~call.fallback)
    /\ telemetry.fallbacks = Ended(LAMBDA call : call.stage = "returned" /\ call.fallback)

\* Money, replay and telemetry tell of the same calls.
CallsAccounted == BillsWithinCap /\ AnswersReplay /\ EveryCallCounted

\* A provider that loses, delays or garbles every attempt cannot hold a call
\* for ever, and no reservation outlives its call.
CallsEnd ==
    \A c \in Requests : calls[c].stage # "new" ~>
        /\ calls[c].stage \in {"returned", "failed"}
        /\ reservedUsd[c] = 0
=============================================================================
