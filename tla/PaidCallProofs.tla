--------------------------- MODULE PaidCallProofs ---------------------------
(***************************************************************************)
(* Proofs about the calls to a model provider, which cost money: those of  *)
(* an experiment's cognition (ModelCalls), any one of them with its        *)
(* gateway (GatewayCalls), the stream of an answer (ProviderStream), and   *)
(* the command that pays for a prepared path (PreparedPath); and what they *)
(* and the kernel keep side by side.  The calls of the result              *)
(* interpretation are in OperationsProofs.                                 *)
(*                                                                         *)
(* ModelCalls, for any calls, keys, accounts, budgets and capacities of    *)
(* the cache: no answer is used that the cache cannot replay, no budget is *)
(* overrun, and the totals the run reports are those of its calls.         *)
(*                                                                         *)
(* GatewayCalls, for any number of attempts: what a call tells of its      *)
(* requests, bills and tokens is what went over the wire, and every        *)
(* request was sent for a reason.                                          *)
(*                                                                         *)
(* PreparedPath, for any repetitions and crashes: until a start declares a *)
(* live run dead, nothing that is there is paid for again.                 *)
(*                                                                         *)
(* ProviderStream, for any cuts and limits: the whole answer or none.      *)
(***************************************************************************)
EXTENDS MCAccounting, KernelProofs, SumProofs

-----------------------------------------------------------------------------
(* The calls of an experiment's cognition.                                  *)

\* The responses that may have been billed to a call by now.
Slots(one) ==
    CASE one.stage \in {"new", "lookup"} -> 0
      [] one.stage = "initial" -> one.attempt - 1
      [] one.stage = "repair" -> MaxTransportAttempts + (one.attempt - 1)
      [] OTHER -> MaximumBillableResponses

CallType ==
    [stage : Stages, key : DecisionKeys, budgeted : BOOLEAN, allowFallback : BOOLEAN,
     attempt : 0 .. MaxTransportAttempts, uncertain : 0 .. MaximumBillableResponses,
     usage : 0 .. 2 * ResponseCost, usageMissing : BOOLEAN,
     data : ModelAnswers \union {NoAnswer}, fallback : BOOLEAN, hit : BOOLEAN]

OpenStages == {"lookup", "initial", "repair", "concluding", "answered"}
ClosedStages == {"validating", "returned", "failed"}

\* A call, apart from what is kept of it elsewhere: how much of its posts is used up
\* and what that may have cost.
CallHolds(one, bill) ==
    /\ one \in CallType /\ bill \in Nat
    /\ one.stage = "new" => one = NewCall /\ bill = 0
    /\ one.stage = "lookup" => one.uncertain = 0 /\ one.usage = 0 /\ bill = 0
    /\ one.stage \in {"initial", "repair"} => one.attempt >= 1
    /\ one.stage = "initial" => one.usage = 0
    /\ one.stage = "repair" => one.usage <= ResponseCost
    /\ one.uncertain <= Slots(one)
    /\ bill <= Charge(one) /\ Charge(one) <= Slots(one) * ResponseCost

\* What a call has set aside.
Holding(one) == IF one.budgeted /\ one.stage \in OpenStages THEN Reservation ELSE 0

\* A model's answer is in the cache.
CanReplay(one, table) ==
    one.stage \in {"answered", "validating", "returned"} /\ ~one.fallback =>
        one.key \in DOMAIN table /\ table[one.key] = one.data

CallsStand ==
    /\ calls \in [Requests -> CallType] /\ billed \in [Requests -> Nat]
    /\ reservedUsd \in [Requests -> {0, Reservation}]
    /\ \A c \in Requests : /\ CallHolds(calls[c], billed[c])
                           /\ reservedUsd[c] = Holding(calls[c])
                           /\ CanReplay(calls[c], decisions)

CacheStands == DOMAIN decisions \subseteq DecisionKeys
               /\ \A k \in DOMAIN decisions : decisions[k] \in ModelAnswers

\* What was billed to a call of the budget that holds no reservation any more.
OwedBy(one, bill) == IF one.budgeted /\ one.stage \in ClosedStages THEN bill ELSE 0
Owed == [c \in Requests |-> OwedBy(calls[c], billed[c])]

MoneyStands ==
    /\ chargedUsd \in Nat
    /\ SumOf(Owed, Requests) <= chargedUsd
    /\ chargedUsd + SumOf(reservedUsd, Requests) <= CapUsd

EndedCalls == {c \in Requests : calls[c].stage \in {"returned", "failed"}}
Successes == {c \in Requests : calls[c].stage = "returned" /\ ~calls[c].fallback}
Fallbacks == {c \in Requests : calls[c].stage = "returned" /\ calls[c].fallback}

TelemetryStands ==
    /\ DOMAIN telemetry = {"calls", "cacheHits", "fallbacks", "structuredSuccesses"}
    /\ \A n \in DOMAIN telemetry : telemetry[n] \in Nat
    /\ telemetry.calls = Cardinality(EndedCalls)
    /\ telemetry.structuredSuccesses = Cardinality(Successes)
    /\ telemetry.fallbacks = Cardinality(Fallbacks)

CallInv == CallsStand /\ CacheStands /\ MoneyStands /\ TelemetryStands

-----------------------------------------------------------------------------
LEMMA CostFacts ==
    /\ ResponseCost \in Nat /\ ResponseCost >= 1 /\ CapUsd \in Nat
    /\ MaxTransportAttempts \in 1 .. 3
    /\ MaximumBillableResponses = 2 * MaxTransportAttempts
    /\ MaximumBillableResponses \in 2 .. 6
    /\ Reservation = MaximumBillableResponses * ResponseCost /\ Reservation \in Nat
    /\ ResponseCosts \subseteq 1 .. ResponseCost /\ UnknownCosts \subseteq 1 .. ResponseCost
  BY ModelCallsAssumption DEF Reservation, MaximumBillableResponses, MaximumUsd, ResponseCosts,
     UnknownCosts

\* One response more is its cost more, and fewer responses cost no more.
LEMMA CostOfMore ==
    ASSUME NEW m \in 0 .. 6, NEW n \in 0 .. 7
    PROVE  /\ m * ResponseCost \in Nat
           /\ (m + 1) * ResponseCost = m * ResponseCost + ResponseCost
           /\ m <= n => m * ResponseCost <= n * ResponseCost
BY CostFacts

\* A call whose present attempt is used up: one slot more than it has before.
AttemptSpent(one, bill) ==
    /\ one \in CallType /\ bill \in Nat
    /\ one.stage \in {"initial", "repair"} /\ one.attempt >= 1
    /\ one.stage = "initial" => one.usage <= ResponseCost
    /\ one.uncertain <= Slots(one) + 1
    /\ bill <= Charge(one) /\ Charge(one) <= (Slots(one) + 1) * ResponseCost

LEMMA SendingFacts ==
    ASSUME NEW one, NEW bill, CallHolds(one, bill), one.stage \in {"initial", "repair"}
    PROVE  /\ one \in CallType /\ bill \in Nat /\ one.attempt \in 1 .. MaxTransportAttempts
           /\ one.uncertain \in 0 .. 6 /\ one.usage \in Nat /\ Slots(one) \in 0 .. 5
           /\ Slots(one) + 1 <= MaximumBillableResponses
           /\ one.uncertain <= Slots(one) /\ bill <= Charge(one)
           /\ Charge(one) <= Slots(one) * ResponseCost
           /\ one.stage = "initial" => one.usage = 0 /\ Slots(one) = one.attempt - 1
           /\ one.stage = "repair" => /\ one.usage <= ResponseCost
                                       /\ Slots(one) = MaxTransportAttempts + (one.attempt - 1)
BY CostFacts DEF CallHolds, CallType, Slots

\* An attempt that was lost or cannot be accounted may have been billed once.
LEMMA LostIsSpent ==
    ASSUME NEW one, NEW bill, CallHolds(one, bill), one.stage \in {"initial", "repair"},
           NEW amount \in 1 .. ResponseCost
    PROVE  /\ AttemptSpent(Uncertain(one), bill + amount)
           /\ Uncertain(one).stage = "initial" => Uncertain(one).usage = 0
           /\ Uncertain(one).stage = "repair" => Uncertain(one).usage <= ResponseCost
           /\ Uncertain(one).budgeted = one.budgeted
<1> DEFINE u == one.uncertain
           n == Slots(one)
           k == Uncertain(one)
<1>1. /\ one \in CallType /\ bill \in Nat /\ u \in 0 .. 6 /\ one.usage \in Nat /\ n \in 0 .. 5
      /\ u <= n /\ n + 1 <= MaximumBillableResponses
      /\ bill <= one.usage + u * ResponseCost /\ one.usage + u * ResponseCost <= n * ResponseCost
      /\ one.stage = "initial" => one.usage = 0
      /\ one.stage = "repair" => one.usage <= ResponseCost
      /\ one.attempt >= 1
  BY SendingFacts DEF Charge
<1>2. /\ k \in CallType /\ k.stage = one.stage /\ k.attempt = one.attempt
      /\ k.usage = one.usage /\ k.uncertain = u + 1 /\ k.budgeted = one.budgeted
  <2> DEFINE v == u + 1
  <2>1. v \in 0 .. MaximumBillableResponses
    <3> DEFINE top == MaximumBillableResponses
    <3>1. top \in 2 .. 6 /\ n \in 0 .. 5 /\ u \in 0 .. 6 /\ u <= n /\ n + 1 <= top
      BY <1>1, CostFacts
    <3> HIDE DEF top, n, u
    <3>2. v \in 0 .. top
      BY <3>1
    <3> QED BY <3>2 DEF top
  <2>2. k = [one EXCEPT !.uncertain = v]
    BY DEF Uncertain
  <2> HIDE DEF v, k
  <2>3. /\ k \in CallType /\ k.stage = one.stage /\ k.attempt = one.attempt
        /\ k.usage = one.usage /\ k.uncertain = v /\ k.budgeted = one.budgeted
    BY <1>1, <2>1, <2>2 DEF CallType
  <2> QED BY <2>3 DEF v
<1>3. Slots(k) = n
  BY <1>2 DEF Slots
<1> HIDE DEF k, n, u
<1>4. (u + 1) * ResponseCost = u * ResponseCost + ResponseCost /\ u * ResponseCost \in Nat
  BY <1>1, CostOfMore
<1>5. (n + 1) * ResponseCost = n * ResponseCost + ResponseCost /\ n * ResponseCost \in Nat
  BY <1>1, CostOfMore
<1>6. Charge(k) = one.usage + u * ResponseCost + ResponseCost
  BY <1>1, <1>2, <1>4, CostFacts DEF Charge
<1>7. bill + amount <= Charge(k) /\ Charge(k) <= (n + 1) * ResponseCost
  BY <1>1, <1>4, <1>5, <1>6, CostFacts
<1> QED BY <1>1, <1>2, <1>3, <1>7, CostFacts DEF AttemptSpent, k, n, u

\* A response with a usage is billed that much.
LEMMA BilledIsSpent ==
    ASSUME NEW one, NEW bill, CallHolds(one, bill), one.stage \in {"initial", "repair"},
           NEW amount \in 1 .. ResponseCost
    PROVE  /\ AttemptSpent([one EXCEPT !.usage = @ + amount], bill + amount)
           /\ [one EXCEPT !.usage = @ + amount].budgeted = one.budgeted
<1> DEFINE u == one.uncertain
           n == Slots(one)
           k == [one EXCEPT !.usage = @ + amount]
<1>1. /\ one \in CallType /\ bill \in Nat /\ u \in 0 .. 6 /\ one.usage \in Nat /\ n \in 0 .. 5
      /\ u <= n /\ n + 1 <= MaximumBillableResponses
      /\ bill <= one.usage + u * ResponseCost /\ one.usage + u * ResponseCost <= n * ResponseCost
      /\ one.stage = "initial" => one.usage = 0
      /\ one.stage = "repair" => one.usage <= ResponseCost
      /\ one.attempt >= 1
  BY SendingFacts DEF Charge
<1>2. /\ k \in CallType /\ k.stage = one.stage /\ k.attempt = one.attempt
      /\ k.usage = one.usage + amount /\ k.uncertain = u /\ k.budgeted = one.budgeted
  BY <1>1, CostFacts DEF CallType
<1>3. Slots(k) = n
  BY <1>2 DEF Slots
<1> HIDE DEF k, n, u
<1>4. u * ResponseCost \in Nat
  BY <1>1, CostOfMore
<1>5. (n + 1) * ResponseCost = n * ResponseCost + ResponseCost /\ n * ResponseCost \in Nat
  BY <1>1, CostOfMore
<1>6. Charge(k) = one.usage + amount + u * ResponseCost
  BY <1>1, <1>2, <1>4, CostFacts DEF Charge
<1>7. bill + amount <= Charge(k) /\ Charge(k) <= (n + 1) * ResponseCost
  BY <1>1, <1>4, <1>5, <1>6, CostFacts
<1>8. AttemptSpent(k, bill + amount)
  BY <1>1, <1>2, <1>3, <1>7, CostFacts DEF AttemptSpent, n, u
<1> QED BY <1>2, <1>8 DEF k

LEMMA RejectedIsSpent ==
    ASSUME NEW one, NEW bill, CallHolds(one, bill), one.stage \in {"initial", "repair"}
    PROVE  /\ AttemptSpent(one, bill)
           /\ one.stage = "initial" => one.usage = 0
           /\ one.stage = "repair" => one.usage <= ResponseCost
<1> DEFINE n == Slots(one)
           u == one.uncertain
<1>1. n \in 0 .. 5 /\ u \in 0 .. 6 /\ one.usage \in Nat
  BY SendingFacts
<1>2. (n + 1) * ResponseCost = n * ResponseCost + ResponseCost /\ n * ResponseCost \in Nat
  <2> HIDE DEF n
  <2> QED BY <1>1, CostOfMore
<1>3. Charge(one) \in Int
  <2>1. u * ResponseCost \in Nat
    <3> HIDE DEF u
    <3> QED BY <1>1, CostOfMore
  <2> QED BY <1>1, <2>1 DEF Charge
<1>4. Charge(one) <= (n + 1) * ResponseCost
  BY SendingFacts, <1>2, <1>3, CostFacts
<1>5. /\ one \in CallType /\ bill \in Nat /\ one.attempt \in 1 .. MaxTransportAttempts
      /\ u <= n /\ bill <= Charge(one)
      /\ one.stage = "initial" => one.usage = 0
      /\ one.stage = "repair" => one.usage <= ResponseCost
  BY SendingFacts
<1>6. one.attempt >= 1 /\ u <= n + 1
  <2> HIDE DEF u, n
  <2> QED BY <1>1, <1>5, CostFacts
<1>7. one.stage = "initial" => one.usage <= ResponseCost
  BY <1>5, CostFacts
<1> QED BY <1>4, <1>5, <1>6, <1>7 DEF AttemptSpent

\* What becomes of a call when its attempt is used up.
LEMMA AfterPostHolds ==
    ASSUME NEW one, NEW bill, AttemptSpent(one, bill), NEW code
    PROVE  /\ CallHolds(AfterPost(one, code), bill)
           /\ AfterPost(one, code).stage \in {"repair", "concluding"}
           /\ AfterPost(one, code).budgeted = one.budgeted
<1> DEFINE k == AfterPost(one, code)
           n == Slots(one)
           m == Slots(k)
<1>1. /\ one \in CallType /\ bill \in Nat /\ one.attempt \in 1 .. MaxTransportAttempts
      /\ one.usage \in Nat /\ one.uncertain \in 0 .. MaximumBillableResponses
      /\ one.stage \in {"initial", "repair"}
      /\ one.stage = "initial" => one.usage <= ResponseCost
      /\ one.uncertain <= n + 1 /\ bill <= Charge(one)
      /\ Charge(one) <= (n + 1) * ResponseCost
  BY CostFacts DEF AttemptSpent, CallType
<1>2. /\ n = IF one.stage = "initial" THEN one.attempt - 1
             ELSE MaxTransportAttempts + (one.attempt - 1)
  BY <1>1 DEF Slots
<1>3. /\ k \in CallType /\ k.budgeted = one.budgeted /\ k.usage = one.usage
      /\ k.uncertain = one.uncertain /\ Charge(k) = Charge(one)
      /\ \/ k.stage = "repair" /\ k.attempt = 1 /\ one.stage = "initial"
         \/ k.stage = "concluding"
  <2> DEFINE missing == code = "MODEL_USAGE_MISSING"
             ka == [one EXCEPT !.stage = "repair", !.attempt = 1]
             kb == [one EXCEPT !.stage = "concluding", !.usageMissing = missing]
  <2>1. missing \in BOOLEAN
    OBVIOUS
  <2>2. k = IF one.stage = "initial" /\ code \in Repairable THEN ka ELSE kb
    BY DEF AfterPost
  <2>3. /\ ka \in CallType /\ ka.budgeted = one.budgeted /\ ka.usage = one.usage
        /\ ka.uncertain = one.uncertain /\ ka.stage = "repair" /\ ka.attempt = 1
    <3>1. 1 \in 0 .. MaxTransportAttempts
      BY CostFacts
    <3>2. "repair" \in Stages
      BY DEF Stages
    <3> QED BY <1>1, <3>1, <3>2 DEF CallType
  <2>4. /\ kb \in CallType /\ kb.budgeted = one.budgeted /\ kb.usage = one.usage
        /\ kb.uncertain = one.uncertain /\ kb.stage = "concluding"
    BY <1>1, <2>1 DEF Stages, CallType
  <2> HIDE DEF ka, kb, k
  <2> QED BY <2>2, <2>3, <2>4 DEF Charge
<1>4. m = IF k.stage = "repair" THEN MaxTransportAttempts ELSE MaximumBillableResponses
  BY <1>3, CostFacts DEF Slots
<1>5. n + 1 \in 0 .. 6 /\ m \in 0 .. 6 /\ n + 1 <= m
  BY <1>1, <1>2, <1>3, <1>4, CostFacts
<1>6. (n + 1) * ResponseCost <= m * ResponseCost /\ (n + 1) * ResponseCost \in Nat
      /\ m * ResponseCost \in Nat
  BY <1>5, CostOfMore
<1>7. Charge(one) \in Int
  BY <1>1, CostFacts DEF Charge
<1>8. Charge(k) <= m * ResponseCost /\ k.uncertain <= m
  <2> HIDE DEF k, n, m
  <2> QED BY <1>1, <1>3, <1>5, <1>6, <1>7, CostFacts
<1> HIDE DEF k
<1> QED BY <1>1, <1>3, <1>8 DEF CallHolds, k

LEMMA RetriedHolds ==
    ASSUME NEW one, NEW bill, AttemptSpent(one, bill), NEW code,
           one.stage = "initial" => one.usage = 0,
           one.stage = "repair" => one.usage <= ResponseCost
    PROVE  /\ CallHolds(Retried(one, code), bill)
           /\ Retried(one, code).stage \in {"initial", "repair", "concluding"}
           /\ Retried(one, code).budgeted = one.budgeted
BY AfterPostHolds, CostFacts DEF Retried, AttemptSpent, CallType, Charge, Slots, CallHolds

-----------------------------------------------------------------------------
\* A step is about one call: its locals, its bill and its reservation change together.
Changes(c, k, b) ==
    /\ calls' = [calls EXCEPT ![c] = k]
    /\ billed' = [billed EXCEPT ![c] = b]
    /\ reservedUsd' = [reservedUsd EXCEPT ![c] = Holding(k)]

\* The cache only ever gains entries.
CacheGrows ==
    \A key \in DOMAIN decisions : key \in DOMAIN decisions' /\ decisions'[key] = decisions[key]

LEMMA OneCallStands ==
    ASSUME CallsStand, NEW c \in Requests, NEW k, NEW b, Changes(c, k, b),
           CallHolds(k, b), CanReplay(k, decisions'), CacheGrows
    PROVE  CallsStand'
BY DEF CallHolds, Holding, CallsStand, Changes, CacheGrows, CanReplay

\* The charge covers what is owed from now on, and the reservation covers the charge.
LEMMA OneCallPays ==
    ASSUME CallsStand, MoneyStands, NEW c \in Requests, NEW k, NEW b, Changes(c, k, b),
           CallHolds(k, b), NEW x \in Nat, chargedUsd' = chargedUsd + x,
           OwedBy(k, b) <= OwedBy(calls[c], billed[c]) + x,
           \/ x + Holding(k) <= reservedUsd[c]
           \/ /\ x = 0 /\ reservedUsd[c] = 0
              /\ chargedUsd + SumOf(reservedUsd, Requests) + Holding(k) <= CapUsd
    PROVE  MoneyStands'
<1> DEFINE o1 == Owed[c]
           o2 == OwedBy(k, b)
           s1 == SumOf(Owed, Requests)
           s2 == SumOf(Owed', Requests)
           r1 == SumOf(reservedUsd, Requests)
           r2 == SumOf(reservedUsd', Requests)
           h1 == reservedUsd[c]
           h2 == Holding(k)
<1>1. IsFiniteSet(Requests)
  BY ModelCallsAssumption
<1>2. \A d \in Requests : Owed[d] \in Nat /\ Owed'[d] \in Nat
  BY DEF CallsStand, Changes, CallHolds, Owed, OwedBy
<1>3. \A d \in Requests \ {c} : Owed[d] = Owed'[d] /\ reservedUsd[d] = reservedUsd'[d]
  BY DEF CallsStand, Changes, Owed
<1>4. Owed'[c] = o2 /\ reservedUsd'[c] = h2 /\ o1 = OwedBy(calls[c], billed[c])
  BY DEF CallsStand, Changes, Owed
<1>5. \A d \in Requests : reservedUsd[d] \in Nat /\ reservedUsd'[d] \in Nat
  BY CostFacts, <1>3, <1>4 DEF Holding, CallsStand
<1>6. s2 = s1 + (o2 - o1)
  <2> DEFINE before == Owed
             after == Owed'
  <2>1. /\ \A d \in Requests : before[d] \in Int /\ after[d] \in Int
        /\ \A d \in Requests \ {c} : before[d] = after[d]
    BY <1>2, <1>3
  <2> HIDE DEF before, after
  <2>2. SumOf(after, Requests) = SumOf(before, Requests) + (after[c] - before[c])
    BY <1>1, <2>1, SumChange
  <2> QED BY <1>4, <2>2 DEF before, after
<1>7. r2 = r1 + (h2 - h1)
  BY <1>1, <1>3, <1>4, <1>5, SumChange
<1>8. s1 \in Int /\ r1 \in Int
  BY <1>1, <1>2, <1>5, SumIsInt
<1>9. o1 \in Nat /\ o2 \in Nat /\ h1 \in Nat /\ h2 \in Nat
  BY <1>2, <1>4, <1>5
<1>10. /\ chargedUsd \in Nat /\ s1 <= chargedUsd /\ chargedUsd + r1 <= CapUsd
       /\ o2 <= o1 + x /\ \/ x + h2 <= h1
                          \/ x = 0 /\ h1 = 0 /\ chargedUsd + r1 + h2 <= CapUsd
  BY <1>4 DEF MoneyStands
<1>11. CapUsd \in Nat
  BY CostFacts
<1> HIDE DEF o1, o2, s1, s2, r1, r2, h1, h2
<1>12. /\ chargedUsd' \in Nat /\ s2 <= chargedUsd' /\ chargedUsd' + r2 <= CapUsd
  BY <1>6, <1>7, <1>8, <1>9, <1>10, <1>11
<1> QED BY <1>12 DEF MoneyStands, s2, r2

-----------------------------------------------------------------------------
\* The three counts of telemetry, at a call that goes on, fails or returns.
LEMMA NoneEnds ==
    ASSUME CallsStand, TelemetryStands, NEW c \in Requests, NEW k, NEW b, Changes(c, k, b),
           UNCHANGED telemetry,
           calls[c].stage \notin {"returned", "failed"}, k.stage \notin {"returned", "failed"}
    PROVE  TelemetryStands'
BY DEF CallsStand, Changes, EndedCalls, Successes, Fallbacks, TelemetryStands

LEMMA FiniteCalls ==
    IsFiniteSet(EndedCalls) /\ IsFiniteSet(Successes) /\ IsFiniteSet(Fallbacks)
BY ModelCallsAssumption, FS_Subset DEF EndedCalls, Successes, Fallbacks

LEMMA OneFails ==
    ASSUME CallsStand, TelemetryStands, NEW c \in Requests, NEW k, NEW b, Changes(c, k, b),
           RecordError, calls[c].stage \notin {"returned", "failed"}, k.stage = "failed"
    PROVE  TelemetryStands'
<1>1. /\ EndedCalls' = EndedCalls \union {c} /\ c \notin EndedCalls
      /\ Successes' = Successes /\ Fallbacks' = Fallbacks
  BY DEF CallsStand, Changes, EndedCalls, Successes, Fallbacks
<1>2. Cardinality(EndedCalls') = Cardinality(EndedCalls) + 1
  BY <1>1, FiniteCalls, FS_AddElement
<1>3. /\ DOMAIN telemetry' = DOMAIN telemetry /\ telemetry'.calls = telemetry.calls + 1
      /\ \A n \in DOMAIN telemetry : n # "calls" => telemetry'[n] = telemetry[n]
  BY DEF RecordError, TelemetryStands
<1>4. telemetry'.structuredSuccesses = telemetry.structuredSuccesses
      /\ telemetry'.fallbacks = telemetry.fallbacks
  BY <1>3 DEF TelemetryStands
<1>5. \A n \in DOMAIN telemetry' : telemetry'[n] \in Nat
  BY <1>3 DEF TelemetryStands
<1> QED BY <1>1, <1>2, <1>3, <1>4, <1>5 DEF TelemetryStands

LEMMA OneReturns ==
    ASSUME CallsStand, TelemetryStands, NEW c \in Requests, NEW k, NEW b, Changes(c, k, b),
           k \in CallType, NEW hit \in BOOLEAN, RecordResult(k.fallback, hit),
           calls[c].stage \notin {"returned", "failed"}, k.stage = "returned"
    PROVE  TelemetryStands'
<1>1. k.fallback \in BOOLEAN /\ calls[c] \in CallType
  BY DEF CallType, CallsStand
<1>2. EndedCalls' = EndedCalls \union {c} /\ c \notin EndedCalls
  BY DEF CallsStand, Changes, EndedCalls
<1>3. Cardinality(EndedCalls') = Cardinality(EndedCalls) + 1
  BY <1>2, FiniteCalls, FS_AddElement
<1>4. /\ DOMAIN telemetry' = {"calls", "cacheHits", "fallbacks", "structuredSuccesses"}
      /\ telemetry'.calls = telemetry.calls + 1
      /\ telemetry'.cacheHits = IF hit THEN telemetry.cacheHits + 1 ELSE telemetry.cacheHits
      /\ telemetry'.fallbacks = IF k.fallback THEN telemetry.fallbacks + 1
                                              ELSE telemetry.fallbacks
      /\ telemetry'.structuredSuccesses = IF k.fallback THEN telemetry.structuredSuccesses
                                          ELSE telemetry.structuredSuccesses + 1
  BY DEF RecordResult, TelemetryStands
<1>5. \A n \in DOMAIN telemetry' : telemetry'[n] \in Nat
  BY <1>4 DEF TelemetryStands
<1>6. CASE k.fallback
  <2>1. Fallbacks' = Fallbacks \union {c} /\ c \notin Fallbacks /\ Successes' = Successes
    BY <1>6 DEF CallsStand, Changes, Successes, Fallbacks
  <2>2. Cardinality(Fallbacks') = Cardinality(Fallbacks) + 1
    BY <2>1, FiniteCalls, FS_AddElement
  <2> QED BY <1>3, <1>4, <1>5, <1>6, <2>1, <2>2 DEF TelemetryStands
<1>7. CASE ~k.fallback
  <2>1. Successes' = Successes \union {c} /\ c \notin Successes /\ Fallbacks' = Fallbacks
    BY <1>7 DEF CallsStand, Changes, Successes, Fallbacks
  <2>2. Cardinality(Successes') = Cardinality(Successes) + 1
    BY <2>1, FiniteCalls, FS_AddElement
  <2> QED BY <1>3, <1>4, <1>5, <1>7, <2>1, <2>2 DEF TelemetryStands
<1> QED BY <1>6, <1>7

-----------------------------------------------------------------------------
(* The steps of a call. *)

\* Between its reservation and its settlement a call keeps what it has set aside.
LEMMA OpenStep ==
    ASSUME CallInv, NEW c \in Requests, NEW k, NEW b,
           calls[c].stage \in OpenStages, k.stage \in OpenStages,
           k.budgeted = calls[c].budgeted, CallHolds(k, b),
           calls' = [calls EXCEPT ![c] = k], billed' = [billed EXCEPT ![c] = b],
           UNCHANGED <<chargedUsd, reservedUsd, telemetry>>,
           CacheGrows, CacheStands', CanReplay(k, decisions')
    PROVE  CallInv'
<1>1. Changes(c, k, b)
  BY DEF Holding, CallInv, CallsStand, Changes
<1>2. CallsStand'
  BY <1>1, OneCallStands DEF CallInv
<1>3. MoneyStands'
  BY CostFacts, <1>1, OneCallPays DEF OwedBy, OpenStages, ClosedStages, CallInv, MoneyStands, Holding,
     CallsStand
<1>4. TelemetryStands'
  BY <1>1, NoneEnds DEF CallInv, OpenStages
<1> QED BY <1>2, <1>3, <1>4 DEF CallInv

\* A call that fails is charged all it has set aside, which covers all its bills.
LEMMA FailStep ==
    ASSUME CallInv, NEW c \in Requests, NEW k, NEW b,
           calls[c].stage \in OpenStages, k.stage = "failed",
           k.budgeted = calls[c].budgeted, CallHolds(k, b),
           calls' = [calls EXCEPT ![c] = k], billed' = [billed EXCEPT ![c] = b],
           FailClosed(c), RecordError, UNCHANGED decisions
    PROVE  CallInv'
<1>1. Changes(c, k, b)
  BY DEF Changes, Holding, OpenStages, FailClosed, ChargeAndRelease
<1>2. CallsStand'
  BY <1>1, OneCallStands DEF CacheGrows, CanReplay, CallInv
<1>3. MoneyStands'
  <2>1. /\ chargedUsd' = chargedUsd + reservedUsd[c]
        /\ OwedBy(calls[c], billed[c]) = 0 /\ Holding(k) = 0
    BY DEF OwedBy, OpenStages, ClosedStages, Holding, FailClosed, ChargeAndRelease
  <2>2. OwedBy(k, b) <= reservedUsd[c]
    BY CostFacts DEF CallHolds, Slots, CallType, Charge, CallInv, CallsStand, OwedBy, Holding,
       ClosedStages
  <2>3. reservedUsd[c] \in Nat /\ CallsStand /\ MoneyStands
    BY CostFacts DEF CallInv, CallsStand
  <2>4. reservedUsd[c] + Holding(k) <= reservedUsd[c]
    BY <2>1, <2>3
  <2>5. OwedBy(k, b) <= OwedBy(calls[c], billed[c]) + reservedUsd[c]
    BY <2>1, <2>2, <2>3
  <2> QED BY <1>1, <2>1, <2>3, <2>4, <2>5, OneCallPays
<1>4. TelemetryStands'
  BY <1>1, OneFails DEF CallInv, OpenStages
<1> QED BY <1>2, <1>3, <1>4 DEF CallInv, CacheStands

LEMMA NewFacts ==
    ASSUME CallInv, NEW c \in Requests, calls[c].stage = "new"
    PROVE  /\ calls[c] = NewCall /\ billed[c] = 0 /\ reservedUsd[c] = 0 /\ NewCall \in CallType
  BY DEF CallInv, CallsStand, CallHolds, Holding, OpenStages

\* The worst that a call's posts can have cost is what it reserves.
LEMMA SettledHolds ==
    ASSUME NEW one, NEW bill, CallHolds(one, bill), NEW k,
           k \in CallType, k.stage \notin {"new", "lookup", "initial", "repair"},
           k.uncertain = one.uncertain, k.usage = one.usage
    PROVE  CallHolds(k, bill)
BY CostFacts, CostOfMore DEF Slots, CallHolds, CallType, Stages, Charge

LEMMA ReserveStep ==
    ASSUME CallInv, NEW c \in Requests, NEW key \in DecisionKeys, NEW allowFallback \in BOOLEAN,
           Reserve(c, key, allowFallback)
    PROVE  CallInv'
<1>1. /\ calls[c] = NewCall /\ billed[c] = 0 /\ reservedUsd[c] = 0 /\ NewCall \in CallType
      /\ calls[c].stage = "new" /\ CallsStand /\ MoneyStands /\ TelemetryStands /\ CacheStands
  BY NewFacts DEF Reserve, CallInv
<1>2. /\ NewCall.usage = 0 /\ NewCall.uncertain = 0
  BY DEF NewCall
<1>3. CASE chargedUsd + AllReserved(reservedUsd) + Reservation > CapUsd
  <2> DEFINE k == [calls[c] EXCEPT !.stage = "failed", !.budgeted = TRUE]
  <2>1. /\ calls' = [calls EXCEPT ![c] = k] /\ RecordError
        /\ UNCHANGED <<reservedUsd, decisions, chargedUsd, billed>>
    BY <1>3 DEF Reserve, CallInv, CallsStand
  <2>2. /\ k \in CallType /\ k.stage = "failed" /\ k.budgeted = TRUE
        /\ k.uncertain = 0 /\ k.usage = 0
    BY <1>1, <1>2 DEF CallType, Stages
  <2> HIDE DEF k
  <2>3. CallHolds(k, 0)
    BY <1>1, <1>2, <2>2, SettledHolds DEF CallsStand
  <2>4. Changes(c, k, 0)
    BY <1>1, <2>1, <2>2 DEF Changes, Holding, OpenStages, CallsStand
  <2>5. CallsStand'
    BY <2>1, <2>2, <1>1, <2>3, <2>4, OneCallStands DEF CacheGrows, CanReplay
  <2>6. MoneyStands'
    BY <1>1, <2>1, <2>2, <2>3, <2>4, OneCallPays DEF MoneyStands, OwedBy, Holding, OpenStages
  <2>7. TelemetryStands'
    BY <1>1, <2>1, <2>2, <2>4, OneFails
  <2> QED BY <1>1, <2>1, <2>5, <2>6, <2>7 DEF CallInv, CacheStands
<1>4. CASE ~(chargedUsd + AllReserved(reservedUsd) + Reservation > CapUsd)
  <2> DEFINE k == [calls[c] EXCEPT !.stage = "lookup", !.key = key, !.budgeted = TRUE,
                                   !.allowFallback = allowFallback]
  <2>1. /\ calls' = [calls EXCEPT ![c] = k] /\ UNCHANGED telemetry
        /\ reservedUsd' = [reservedUsd EXCEPT ![c] = Reservation]
        /\ UNCHANGED <<decisions, chargedUsd, billed>>
    BY <1>4 DEF Reserve, RecordNothing
  <2>2. /\ k \in CallType /\ k.stage = "lookup" /\ k.budgeted = TRUE
        /\ k.uncertain = 0 /\ k.usage = 0
    BY <1>1, <1>2 DEF CallType, Stages
  <2> HIDE DEF k
  <2>3. CallHolds(k, 0)
    BY <2>2, CostFacts DEF CallHolds, Charge, Slots
  <2>4. Changes(c, k, 0) /\ Holding(k) = Reservation
    BY <1>1, <2>1, <2>2 DEF Changes, Holding, OpenStages, CallsStand
  <2>5. CallsStand'
    BY <2>1, <2>2, <1>1, <2>3, <2>4, OneCallStands DEF CacheGrows, CanReplay
  <2>6. MoneyStands'
    <3>1. /\ chargedUsd' = chargedUsd + 0 /\ 0 \in Nat
          /\ OwedBy(k, 0) <= OwedBy(calls[c], billed[c]) + 0
      BY <1>1, <2>1, <2>2 DEF MoneyStands, OwedBy, ClosedStages
    <3>2. chargedUsd + SumOf(reservedUsd, Requests) + Holding(k) <= CapUsd
      <4>1. AllReserved(reservedUsd) = SumOf(reservedUsd, Requests)
        BY DEF AllReserved, SumOf
      <4>2. SumOf(reservedUsd, Requests) \in Int /\ chargedUsd \in Nat
        BY <1>1, CostFacts, ModelCallsAssumption, SumIsInt DEF CallsStand, MoneyStands
      <4> QED BY <1>4, <2>4, <4>1, <4>2, CostFacts
    <3> QED BY <1>1, <2>3, <2>4, <3>1, <3>2, OneCallPays
  <2>7. TelemetryStands'
    BY <1>1, <2>1, <2>2, <2>4, NoneEnds
  <2> QED BY <1>1, <2>1, <2>5, <2>6, <2>7 DEF CallInv, CacheStands
<1> QED BY <1>3, <1>4

LEMMA CallWithoutBudgetStep ==
    ASSUME CallInv, NEW c \in Requests, NEW key \in DecisionKeys, CallWithoutBudget(c, key)
    PROVE  CallInv'
<1>1. /\ calls[c] = NewCall /\ billed[c] = 0 /\ reservedUsd[c] = 0 /\ NewCall \in CallType
      /\ calls[c].stage = "new" /\ CallsStand /\ MoneyStands /\ TelemetryStands /\ CacheStands
  BY NewFacts DEF CallWithoutBudget, CallInv
<1>2. /\ NewCall.usage = 0 /\ NewCall.uncertain = 0 /\ NewCall.budgeted = FALSE
  BY DEF NewCall
<1> DEFINE k == [calls[c] EXCEPT !.stage = "lookup", !.key = key]
<1>3. /\ calls' = [calls EXCEPT ![c] = k]
      /\ UNCHANGED <<decisions, chargedUsd, reservedUsd, telemetry, billed>>
  BY DEF CallWithoutBudget
<1>4. /\ k \in CallType /\ k.stage = "lookup" /\ k.budgeted = FALSE
      /\ k.uncertain = 0 /\ k.usage = 0
  BY <1>1, <1>2 DEF CallType, Stages
<1> HIDE DEF k
<1>5. CallHolds(k, 0)
  BY <1>4, CostFacts DEF CallHolds, Charge, Slots
<1>6. Changes(c, k, 0) /\ Holding(k) = 0
  BY <1>1, <1>3, <1>4 DEF Changes, Holding, CallsStand
<1>7. CallsStand'
  BY <1>3, <1>4, <1>1, <1>5, <1>6, OneCallStands DEF CacheGrows, CanReplay
<1>8. MoneyStands'
  BY <1>1, <1>3, <1>4, <1>6, <1>5, OneCallPays DEF MoneyStands, OwedBy
<1>9. TelemetryStands'
  BY <1>1, <1>3, <1>4, <1>6, NoneEnds
<1> QED BY <1>1, <1>3, <1>7, <1>8, <1>9 DEF CallInv, CacheStands

LEMMA LookupStep ==
    ASSUME CallInv, NEW c \in Requests, Lookup(c)
    PROVE  CallInv'
<1> DEFINE one == calls[c]
<1>1. /\ one.stage = "lookup" /\ CallHolds(one, billed[c]) /\ one \in CallType
      /\ one.uncertain = 0 /\ one.usage = 0 /\ billed[c] = 0 /\ calls \in [Requests -> CallType]
      /\ billed \in [Requests -> Nat] /\ CacheStands
  BY DEF Lookup, CallInv, CallsStand, CallHolds
<1>2. /\ UNCHANGED <<decisions, chargedUsd, reservedUsd, telemetry>>
      /\ billed' = [billed EXCEPT ![c] = 0] /\ CacheGrows /\ CacheStands'
  BY <1>1 DEF Lookup, CacheGrows, CacheStands
<1>3. CASE one.key \in DOMAIN decisions
  <2> DEFINE k == [one EXCEPT !.stage = "answered", !.hit = TRUE, !.data = decisions[one.key]]
  <2>1. calls' = [calls EXCEPT ![c] = k]
    BY <1>3 DEF Lookup
  <2>2. decisions[one.key] \in ModelAnswers
    BY <1>1, <1>3 DEF CacheStands
  <2>3. /\ k \in CallType /\ k.stage = "answered" /\ k.budgeted = one.budgeted
        /\ k.uncertain = 0 /\ k.usage = 0 /\ k.key = one.key /\ k.data = decisions[one.key]
    BY <1>1, <2>2 DEF CallType, Stages
  <2> HIDE DEF k
  <2>4. CallHolds(k, 0)
    BY <1>1, <2>3, SettledHolds
  <2>5. CanReplay(k, decisions')
    BY <1>2, <1>3, <2>3 DEF CanReplay
  <2>6. /\ calls[c].stage \in OpenStages /\ k.stage \in OpenStages
        /\ UNCHANGED <<chargedUsd, reservedUsd, telemetry>>
        /\ k.budgeted = calls[c].budgeted
    BY <1>1, <1>2, <2>3 DEF OpenStages
  <2> HIDE DEF one
  <2> QED BY ONLY <1>2, <2>1, <2>4, <2>5, <2>6, CallInv, c \in Requests, OpenStep
<1>4. CASE one.key \notin DOMAIN decisions
  <2> DEFINE k == [one EXCEPT !.stage = "initial", !.attempt = 1]
  <2>1. calls' = [calls EXCEPT ![c] = k]
    BY <1>4 DEF Lookup
  <2>2. 1 \in 0 .. MaxTransportAttempts
    BY CostFacts
  <2>3. /\ k \in CallType /\ k.stage = "initial" /\ k.budgeted = one.budgeted
        /\ k.uncertain = 0 /\ k.usage = 0 /\ k.attempt = 1
    BY <1>1, <2>2 DEF CallType, Stages
  <2> HIDE DEF k
  <2>4. CallHolds(k, 0)
    BY <2>3, CostFacts DEF CallHolds, Charge, Slots
  <2>5. CanReplay(k, decisions')
    BY <2>3 DEF CanReplay
  <2>6. /\ calls[c].stage \in OpenStages /\ k.stage \in OpenStages
        /\ UNCHANGED <<chargedUsd, reservedUsd, telemetry>>
        /\ k.budgeted = calls[c].budgeted
    BY <1>1, <1>2, <2>3 DEF OpenStages
  <2> HIDE DEF one
  <2> QED BY ONLY <1>2, <2>1, <2>4, <2>5, <2>6, CallInv, c \in Requests, OpenStep
<1> QED BY <1>3, <1>4

\* An attempt at a provider whose call goes on: nothing but the call and its bill changes.
LEMMA SendingStep ==
    ASSUME CallInv, NEW c \in Requests, NEW k, NEW b, Sending(c),
           calls' = [calls EXCEPT ![c] = k], billed' = [billed EXCEPT ![c] = b],
           UNCHANGED <<decisions, chargedUsd, reservedUsd, telemetry>>,
           CallHolds(k, b), k.stage \in {"initial", "repair", "concluding"},
           k.budgeted = calls[c].budgeted
    PROVE  CallInv'
<1>1. calls[c].stage \in OpenStages /\ k.stage \in OpenStages
  BY DEF Sending, OpenStages
<1>2. CacheGrows /\ CanReplay(k, decisions') /\ CacheStands'
  BY DEF CacheGrows, CanReplay, CallInv, CacheStands
<1> QED BY <1>1, <1>2, OpenStep

LEMMA SendingCall ==
    ASSUME CallInv, NEW c \in Requests, Sending(c)
    PROVE  /\ CallHolds(calls[c], billed[c]) /\ calls[c].stage \in {"initial", "repair"}
           /\ calls[c] \in CallType /\ billed[c] \in Nat
           /\ calls \in [Requests -> CallType] /\ billed \in [Requests -> Nat]
           /\ calls[c].stage \in OpenStages
  BY DEF Sending, CallInv, CallsStand, OpenStages

LEMMA AttemptLostStep ==
    ASSUME CallInv, NEW c \in Requests, NEW amount \in UnknownCosts, AttemptLost(c, amount)
    PROVE  CallInv'
<1> DEFINE one == calls[c]
           spent == Uncertain(one)
           k == Retried(spent, "MODEL_TIMEOUT")
           b == billed[c] + amount
<1>1. Sending(c) /\ amount \in 1 .. ResponseCost
  BY CostFacts DEF AttemptLost
<1>2. /\ calls' = [calls EXCEPT ![c] = k] /\ billed' = [billed EXCEPT ![c] = b]
      /\ UNCHANGED <<decisions, chargedUsd, reservedUsd, telemetry>>
  BY DEF AttemptLost, Bill
<1>3. /\ AttemptSpent(spent, b)
      /\ spent.stage = "initial" => spent.usage = 0
      /\ spent.stage = "repair" => spent.usage <= ResponseCost
      /\ spent.budgeted = one.budgeted
  BY <1>1, SendingCall, LostIsSpent
<1>4. /\ CallHolds(k, b) /\ k.stage \in {"initial", "repair", "concluding"}
      /\ k.budgeted = one.budgeted
  <2> HIDE DEF spent
  <2> QED BY <1>3, RetriedHolds
<1> HIDE DEF k, b
<1> QED BY <1>1, <1>2, <1>4, SendingStep

LEMMA AttemptRejectedStep ==
    ASSUME CallInv, NEW c \in Requests, NEW retryable \in BOOLEAN, AttemptRejected(c, retryable)
    PROVE  CallInv'
<1> DEFINE one == calls[c]
           k == IF retryable THEN Retried(one, "REJECTED") ELSE AfterPost(one, "REJECTED")
           b == billed[c]
<1>1. Sending(c)
  BY DEF AttemptRejected
<1>2. /\ calls' = [calls EXCEPT ![c] = k] /\ billed' = [billed EXCEPT ![c] = b]
      /\ UNCHANGED <<decisions, chargedUsd, reservedUsd, telemetry>>
  BY <1>1, SendingCall DEF AttemptRejected
<1>3. /\ AttemptSpent(one, b)
      /\ one.stage = "initial" => one.usage = 0
      /\ one.stage = "repair" => one.usage <= ResponseCost
  BY <1>1, SendingCall, RejectedIsSpent
<1>4. /\ CallHolds(k, b) /\ k.stage \in {"initial", "repair", "concluding"}
      /\ k.budgeted = one.budgeted
  BY <1>3, RetriedHolds, AfterPostHolds
<1> HIDE DEF k, b
<1> QED BY <1>1, <1>2, <1>4, SendingStep

LEMMA AttemptUnaccountedStep ==
    ASSUME CallInv, NEW c \in Requests, NEW amount \in UnknownCosts, NEW code,
           AttemptUnaccounted(c, code, amount)
    PROVE  CallInv'
<1> DEFINE one == calls[c]
           spent == Uncertain(one)
           k == AfterPost(spent, code)
           b == billed[c] + amount
<1>1. Sending(c) /\ amount \in 1 .. ResponseCost
  BY CostFacts DEF AttemptUnaccounted
<1>2. /\ calls' = [calls EXCEPT ![c] = k] /\ billed' = [billed EXCEPT ![c] = b]
      /\ UNCHANGED <<decisions, chargedUsd, reservedUsd, telemetry>>
  BY DEF AttemptUnaccounted, Bill
<1>3. AttemptSpent(spent, b) /\ spent.budgeted = one.budgeted
  BY <1>1, SendingCall, LostIsSpent
<1>4. /\ CallHolds(k, b) /\ k.stage \in {"initial", "repair", "concluding"}
      /\ k.budgeted = one.budgeted
  <2> HIDE DEF spent
  <2> QED BY <1>3, AfterPostHolds
<1> HIDE DEF k, b
<1> QED BY <1>1, <1>2, <1>4, SendingStep

LEMMA ResponseRefusedStep ==
    ASSUME CallInv, NEW c \in Requests, NEW amount \in ResponseCosts, NEW code,
           ResponseRefused(c, code, amount)
    PROVE  CallInv'
<1> DEFINE one == calls[c]
           spent == [one EXCEPT !.usage = @ + amount]
           k == AfterPost(spent, code)
           b == billed[c] + amount
<1>1. Sending(c) /\ amount \in 1 .. ResponseCost
  BY CostFacts DEF ResponseRefused
<1>2. /\ calls' = [calls EXCEPT ![c] = k] /\ billed' = [billed EXCEPT ![c] = b]
      /\ UNCHANGED <<decisions, chargedUsd, reservedUsd, telemetry>>
  BY DEF ResponseRefused, Bill
<1>3. AttemptSpent(spent, b) /\ spent.budgeted = one.budgeted
  BY <1>1, SendingCall, BilledIsSpent
<1>4. /\ CallHolds(k, b) /\ k.stage \in {"initial", "repair", "concluding"}
      /\ k.budgeted = one.budgeted
  <2> HIDE DEF spent
  <2> QED BY <1>3, AfterPostHolds
<1> HIDE DEF k, b
<1> QED BY <1>1, <1>2, <1>4, SendingStep

\* What is left of a call when its last attempt was answered.
LEMMA SpentHolds ==
    ASSUME NEW one, NEW bill, AttemptSpent(one, bill), NEW k,
           k \in CallType, k.stage \notin {"new", "lookup", "initial", "repair"},
           k.uncertain = one.uncertain, k.usage = one.usage
    PROVE  CallHolds(k, bill)
<1> DEFINE n == Slots(one) + 1
<1>1. Slots(k) = MaximumBillableResponses
  BY DEF Slots, CallType, Stages
<1>2. n \in 0 .. 6 /\ n <= MaximumBillableResponses /\ one.usage \in Nat
      /\ one.uncertain \in 0 .. 6
  <2>1. /\ one.usage \in Nat /\ one.uncertain \in Nat
        /\ one.attempt \in 1 .. MaxTransportAttempts
        /\ one.stage \in {"initial", "repair"} /\ one.uncertain <= n
    BY DEF AttemptSpent, CallType
  <2>2. CASE one.stage = "initial"
    BY <2>2, <2>1, CostFacts DEF Slots
  <2>3. CASE one.stage = "repair"
    BY <2>3, <2>1, CostFacts DEF Slots
  <2> QED BY <2>1, <2>2, <2>3
<1>3. n * ResponseCost <= MaximumBillableResponses * ResponseCost /\ n * ResponseCost \in Nat
      /\ MaximumBillableResponses * ResponseCost \in Nat
  BY CostFacts, <1>2, CostOfMore
<1>4. Charge(k) = Charge(one) /\ Charge(one) \in Int
  BY CostFacts DEF Charge, AttemptSpent, CallType
<1>5. bill <= Charge(k) /\ Charge(k) <= MaximumBillableResponses * ResponseCost
  BY <1>3, <1>4 DEF AttemptSpent
<1>6. k.uncertain <= Slots(k)
  BY CostFacts, <1>1, <1>2 DEF AttemptSpent, CallType
<1>7. bill \in Nat
  BY DEF AttemptSpent
<1> QED BY <1>1, <1>5, <1>6, <1>7 DEF CallHolds

LEMMA ResponseAcceptedStep ==
    ASSUME CallInv, NEW c \in Requests, NEW amount \in ResponseCosts, NEW answer \in ModelAnswers,
           ResponseAccepted(c, answer, amount)
    PROVE  CallInv'
<1> DEFINE one == calls[c]
           spent == [one EXCEPT !.usage = @ + amount]
           k == [one EXCEPT !.stage = "answered", !.data = answer, !.usage = @ + amount]
           b == billed[c] + amount
<1>1. Sending(c) /\ amount \in 1 .. ResponseCost /\ Put(one.key, answer)
  BY CostFacts DEF ResponseAccepted
<1>2. /\ calls' = [calls EXCEPT ![c] = k] /\ billed' = [billed EXCEPT ![c] = b]
      /\ UNCHANGED <<chargedUsd, reservedUsd, telemetry>>
  BY DEF ResponseAccepted, Bill
<1>3. AttemptSpent(spent, b)
  BY <1>1, SendingCall, BilledIsSpent
<1>4. /\ k \in CallType /\ k.stage = "answered" /\ k.budgeted = one.budgeted
      /\ k.uncertain = spent.uncertain /\ k.usage = spent.usage /\ k.data = answer
      /\ k.key = one.key
  BY <1>1, <1>3, SendingCall DEF AttemptSpent, CallType, Stages
<1>5. CallHolds(k, b)
  <2> HIDE DEF spent, k, b
  <2> QED BY <1>3, <1>4, SpentHolds
<1>6. /\ DOMAIN decisions' = DOMAIN decisions \union {one.key} /\ decisions'[one.key] = answer
      /\ \A key \in DOMAIN decisions : key # one.key => decisions'[key] = decisions[key]
      /\ one.key \in DOMAIN decisions => decisions[one.key] = answer
  BY <1>1 DEF Put, Conflicts
<1>7. CacheGrows
  BY <1>6 DEF CacheGrows
<1>8. CacheStands'
  BY <1>1, SendingCall, <1>6 DEF CallType, CallInv, CacheStands
<1>9. CanReplay(k, decisions')
  <2> HIDE DEF k, one
  <2> QED BY <1>4, <1>6 DEF CanReplay
<1>10. one.stage \in OpenStages /\ k.stage \in OpenStages
  BY <1>1, <1>4, SendingCall DEF OpenStages
<1> HIDE DEF k, b
<1> QED BY <1>2, <1>4, <1>5, <1>7, <1>8, <1>9, <1>10, OpenStep

LEMMA ResponseNotCachedStep ==
    ASSUME CallInv, NEW c \in Requests, NEW amount \in ResponseCosts, NEW answer \in ModelAnswers,
           ResponseNotCached(c, answer, amount)
    PROVE  CallInv'
<1> DEFINE one == calls[c]
           spent == [one EXCEPT !.usage = @ + amount]
           k == [spent EXCEPT !.stage = "failed"]
           b == billed[c] + amount
<1>1. Sending(c) /\ amount \in 1 .. ResponseCost
  BY CostFacts DEF ResponseNotCached
<1>2. AttemptSpent(spent, b)
  BY <1>1, SendingCall, BilledIsSpent
<1>3. /\ calls' = [calls EXCEPT ![c] = k] /\ billed' = [billed EXCEPT ![c] = b]
      /\ FailClosed(c) /\ RecordError /\ UNCHANGED decisions
  BY <1>1, SendingCall DEF ResponseNotCached, Bill, CallType
<1>4. /\ k \in CallType /\ k.stage = "failed" /\ k.budgeted = one.budgeted
      /\ k.uncertain = spent.uncertain /\ k.usage = spent.usage
  BY <1>1, <1>2, SendingCall DEF AttemptSpent, CallType, Stages
<1>5. CallHolds(k, b)
  <2> HIDE DEF spent, k, b
  <2> QED BY <1>2, <1>4, SpentHolds
<1>6. one.stage \in OpenStages
  BY <1>1, SendingCall
<1> HIDE DEF k, b
<1> QED BY <1>3, <1>4, <1>5, <1>6, FailStep

\* A call that is settled in full, without another response.
LEMMA FailedUnanswered ==
    ASSUME CallInv, NEW c \in Requests, calls[c].stage \in {"concluding", "answered"},
           calls' = [calls EXCEPT ![c].stage = "failed"],
           FailClosed(c), RecordError, UNCHANGED <<decisions, billed>>
    PROVE  CallInv'
<1> DEFINE one == calls[c]
           k == [one EXCEPT !.stage = "failed"]
           b == billed[c]
<1>1. /\ one \in CallType /\ CallHolds(one, b) /\ billed' = [billed EXCEPT ![c] = b]
      /\ one.stage \in OpenStages
  BY DEF CallInv, CallsStand, OpenStages
<1>2. calls' = [calls EXCEPT ![c] = k]
  OBVIOUS
<1>3. /\ k \in CallType /\ k.stage = "failed" /\ k.budgeted = one.budgeted
      /\ k.uncertain = one.uncertain /\ k.usage = one.usage
  BY <1>1 DEF CallType, Stages
<1> HIDE DEF k, b
<1>4. CallHolds(k, b)
  BY <1>1, <1>3, SettledHolds
<1> QED BY <1>1, <1>2, <1>3, <1>4, FailStep

LEMMA GatewayRaisesStep ==
    ASSUME CallInv, NEW c \in Requests, GatewayRaises(c) PROVE CallInv'
  BY FailedUnanswered DEF GatewayRaises

LEMMA SettleUntrustedStep ==
    ASSUME CallInv, NEW c \in Requests, SettleUntrusted(c) PROVE CallInv'
  BY FailedUnanswered DEF SettleUntrusted, FailClosed

LEMMA RuleFallbackStep ==
    ASSUME CallInv, NEW c \in Requests, RuleFallback(c)
    PROVE  CallInv'
<1> DEFINE one == calls[c]
           k == [one EXCEPT !.stage = "answered", !.fallback = TRUE]
           b == billed[c]
<1>1. /\ one \in CallType /\ CallHolds(one, b) /\ billed' = [billed EXCEPT ![c] = b]
      /\ one.stage \in OpenStages
  BY DEF CallInv, CallsStand, OpenStages, RuleFallback
<1>2. calls' = [calls EXCEPT ![c] = k]
  BY DEF RuleFallback, CallInv, CallsStand
<1>3. /\ k \in CallType /\ k.stage = "answered" /\ k.budgeted = one.budgeted
      /\ k.uncertain = one.uncertain /\ k.usage = one.usage /\ k.fallback = TRUE
  BY <1>1 DEF CallType, Stages
<1> HIDE DEF k, b
<1>4. CallHolds(k, b)
  BY <1>1, <1>3, SettledHolds
<1>5. /\ CacheGrows /\ CanReplay(k, decisions') /\ CacheStands' /\ k.stage \in OpenStages
      /\ UNCHANGED <<chargedUsd, reservedUsd, telemetry>>
  BY <1>3 DEF CacheGrows, CanReplay, CallInv, CacheStands, RuleFallback, OpenStages
<1> QED BY <1>1, <1>2, <1>3, <1>4, <1>5, OpenStep

\* A settled call holds nothing, and its charge covers its bills.
LEMMA SettleTrustedStep ==
    ASSUME CallInv, NEW c \in Requests, SettleTrusted(c)
    PROVE  CallInv'
<1> DEFINE one == calls[c]
           k == [one EXCEPT !.stage = "validating"]
           b == billed[c]
           x == IF one.budgeted THEN Charge(one) ELSE 0
<1>1. /\ one \in CallType /\ CallHolds(one, b) /\ billed' = [billed EXCEPT ![c] = b]
      /\ one.stage = "answered" /\ CanReplay(one, decisions)
      /\ reservedUsd[c] = Holding(one) /\ CallsStand /\ MoneyStands /\ TelemetryStands
      /\ reservedUsd \in [Requests -> {0, Reservation}]
      /\ calls' = [calls EXCEPT ![c] = k] /\ UNCHANGED <<decisions, telemetry>>
  BY DEF CallInv, CallsStand, SettleTrusted
<1>2. /\ k \in CallType /\ k.stage = "validating" /\ k.budgeted = one.budgeted
      /\ k.uncertain = one.uncertain /\ k.usage = one.usage /\ k.data = one.data
      /\ k.fallback = one.fallback /\ k.key = one.key
  BY <1>1 DEF CallType, Stages
<1> HIDE DEF k
<1>3. CallHolds(k, b) /\ Charge(k) = Charge(one)
  BY <1>1, <1>2, SettledHolds DEF Charge
<1>4. Holding(k) = 0
  BY <1>2 DEF Holding, OpenStages
<1>5. /\ chargedUsd' = chargedUsd + x /\ reservedUsd' = [reservedUsd EXCEPT ![c] = 0]
      /\ x <= reservedUsd[c] /\ x \in Nat
  BY <1>1, CostFacts DEF CallHolds, CallType, Charge, SettleTrusted, Trusted, ChargeAndRelease,
     SettledCharge, Holding, MoneyStands
<1>6. Changes(c, k, b)
  BY <1>1, <1>4, <1>5 DEF Changes
<1>7. CallsStand'
  BY <1>1, <1>2, <1>3, <1>6, OneCallStands DEF CacheGrows, CanReplay
<1>8. MoneyStands'
  <2>1. b \in Nat /\ b <= Charge(one) /\ Charge(one) \in Int
    BY <1>1, CostFacts DEF CallHolds, CallType, Charge
  <2>2. OwedBy(k, b) <= OwedBy(one, b) + x
    BY <1>1, <1>2, <2>1 DEF OwedBy, ClosedStages
  <2>3. x + Holding(k) <= reservedUsd[c]
    BY <1>4, <1>5
  <2> HIDE DEF x
  <2> QED BY <1>1, <1>3, <1>5, <1>6, <2>2, <2>3, OneCallPays
<1>9. TelemetryStands'
  BY <1>1, <1>2, <1>6, NoneEnds
<1> QED BY <1>1, <1>7, <1>8, <1>9 DEF CallInv, CacheStands

\* A call that was settled ends.
LEMMA LastStep ==
    ASSUME CallInv, NEW c \in Requests, calls[c].stage = "validating",
           NEW k, k = [calls[c] EXCEPT !.stage = k.stage], k.stage \in {"returned", "failed"},
           calls' = [calls EXCEPT ![c] = k],
           UNCHANGED <<decisions, chargedUsd, reservedUsd, billed>>
    PROVE  CallsStand' /\ CacheStands' /\ MoneyStands' /\ Changes(c, k, billed[c])
           /\ k \in CallType
<1> DEFINE one == calls[c]
           b == billed[c]
<1>1. /\ one \in CallType /\ CallHolds(one, b) /\ billed' = [billed EXCEPT ![c] = b]
      /\ one.stage = "validating" /\ CanReplay(one, decisions)
      /\ reservedUsd[c] = Holding(one) /\ CallsStand /\ MoneyStands /\ CacheStands
      /\ reservedUsd \in [Requests -> {0, Reservation}]
  BY DEF CallInv, CallsStand
<1>2. /\ k \in CallType /\ k.budgeted = one.budgeted
      /\ k.uncertain = one.uncertain /\ k.usage = one.usage /\ k.data = one.data
      /\ k.fallback = one.fallback /\ k.key = one.key
  BY <1>1 DEF CallType, Stages
<1>3. CallHolds(k, b)
  <2> HIDE DEF b, one
  <2> QED BY <1>1, <1>2, SettledHolds
<1>4. Holding(k) = 0 /\ reservedUsd[c] = 0
  BY <1>1, <1>2 DEF Holding, OpenStages
<1>5. Changes(c, k, b)
  BY <1>1, <1>4 DEF Changes
<1>6. CallsStand'
  BY <1>1, <1>2, <1>3, <1>5, OneCallStands DEF CacheGrows, CanReplay
<1>7. MoneyStands'
  BY <1>1, <1>2, <1>4, <1>3, <1>5, OneCallPays DEF CallHolds, OwedBy, ClosedStages, MoneyStands
<1> QED BY <1>1, <1>2, <1>5, <1>6, <1>7 DEF CacheStands

LEMMA ValidatorRefusesStep ==
    ASSUME CallInv, NEW c \in Requests, ValidatorRefuses(c)
    PROVE  CallInv'
<1> DEFINE k == [calls[c] EXCEPT !.stage = "failed"]
<1>1. calls[c] \in CallType /\ calls[c].stage = "validating"
  BY DEF ValidatorRefuses, CallInv, CallsStand
<1>2. k = [calls[c] EXCEPT !.stage = k.stage] /\ k.stage = "failed"
  BY <1>1 DEF CallType
<1>3. /\ calls' = [calls EXCEPT ![c] = k] /\ RecordError
      /\ UNCHANGED <<decisions, chargedUsd, reservedUsd, billed>>
  BY DEF ValidatorRefuses
<1> HIDE DEF k
<1>4. CallsStand' /\ CacheStands' /\ MoneyStands' /\ Changes(c, k, billed[c])
  BY <1>1, <1>2, <1>3, LastStep
<1>5. TelemetryStands'
  BY <1>1, <1>2, <1>3, <1>4, OneFails DEF CallInv
<1> QED BY <1>4, <1>5 DEF CallInv

LEMMA ReturnStep ==
    ASSUME CallInv, NEW c \in Requests, Return(c)
    PROVE  CallInv'
<1> DEFINE k == [calls[c] EXCEPT !.stage = "returned"]
<1>1. calls[c] \in CallType /\ calls[c].stage = "validating"
  BY DEF Return, CallInv, CallsStand
<1>2. k = [calls[c] EXCEPT !.stage = k.stage] /\ k.stage = "returned"
      /\ k.fallback = calls[c].fallback
  BY <1>1 DEF CallType
<1>3. /\ calls' = [calls EXCEPT ![c] = k] /\ RecordResult(calls[c].fallback, calls[c].hit)
      /\ UNCHANGED <<decisions, chargedUsd, reservedUsd, billed>>
  BY DEF Return
<1>4. calls[c].hit \in BOOLEAN
  BY <1>1 DEF CallType
<1> HIDE DEF k
<1>5. CallsStand' /\ CacheStands' /\ MoneyStands' /\ Changes(c, k, billed[c]) /\ k \in CallType
  BY <1>1, <1>2, <1>3, LastStep
<1>6. RecordResult(k.fallback, calls[c].hit)
  BY <1>2, <1>3
<1>7. TelemetryStands'
  BY <1>1, <1>2, <1>4, <1>5, <1>6, OneReturns DEF CallInv
<1> QED BY <1>5, <1>7 DEF CallInv

-----------------------------------------------------------------------------
(* The inductive invariant, and what follows from it. *)

LEMMA CallInvInit == ModelInit => CallInv
<1> SUFFICES ASSUME ModelInit PROVE CallInv
  OBVIOUS
<1>1. (CHOOSE k \in DecisionKeys : TRUE) \in DecisionKeys
  BY ModelCallsAssumption
<1>2. NewCall \in CallType /\ NewCall.stage = "new" /\ NewCall.uncertain = 0
      /\ NewCall.usage = 0 /\ NewCall.budgeted = FALSE
  BY <1>1, CostFacts DEF NewCall, CallType, Stages
<1>3. CallHolds(NewCall, 0)
  BY <1>2, CostFacts DEF CallHolds, Charge, Slots
<1>4. /\ calls = [c \in Requests |-> NewCall] /\ billed = [c \in Requests |-> 0]
      /\ reservedUsd = [c \in Requests |-> 0] /\ chargedUsd = 0
      /\ telemetry = [calls |-> 0, cacheHits |-> 0, fallbacks |-> 0, structuredSuccesses |-> 0]
      /\ DOMAIN decisions = {}
  BY DEF ModelInit
<1>5. CallsStand
  BY <1>2, <1>3, <1>4 DEF CallsStand, Holding, CanReplay
<1>6. CacheStands
  BY <1>4 DEF CacheStands
<1>7. MoneyStands
  <2>1. \A f : (\A c \in Requests : f[c] = 0) => SumOf(f, Requests) = 0
    <3> TAKE f
    <3> HAVE \A c \in Requests : f[c] = 0
    <3>1. SumOf(f, {}) = SumOf(f, Requests)
      BY ModelCallsAssumption, SumPart
    <3> QED BY <3>1, SumEmpty
  <2>2. \A c \in Requests : Owed[c] = 0 /\ reservedUsd[c] = 0
    BY <1>2, <1>4 DEF Owed, OwedBy
  <2>3. SumOf(Owed, Requests) = 0 /\ SumOf(reservedUsd, Requests) = 0
    BY <2>1, <2>2
  <2> QED BY <1>4, <2>3, CostFacts DEF MoneyStands
<1>8. TelemetryStands
  <2>1. EndedCalls = {} /\ Successes = {} /\ Fallbacks = {}
    BY <1>2, <1>4 DEF EndedCalls, Successes, Fallbacks
  <2>2. Cardinality({}) = 0
    BY FS_EmptySet
  <2> QED BY <1>4, <2>1, <2>2 DEF TelemetryStands
<1> QED BY <1>5, <1>6, <1>7, <1>8 DEF CallInv

LEMMA CallInvNext == CallInv /\ [ModelNext]_modelVars => CallInv'
<1> SUFFICES ASSUME CallInv, [ModelNext]_modelVars PROVE CallInv'
  OBVIOUS
<1>1. ASSUME NEW c \in Requests, NEW key \in DecisionKeys, NEW allowFallback \in BOOLEAN,
             Reserve(c, key, allowFallback)
      PROVE  CallInv'
  BY <1>1, ReserveStep
<1>2. ASSUME NEW c \in Requests, NEW key \in DecisionKeys, CallWithoutBudget(c, key)
      PROVE  CallInv'
  BY <1>2, CallWithoutBudgetStep
<1>3. ASSUME NEW c \in Requests, Proceed(c) PROVE CallInv'
  <2>1. CASE Lookup(c)
    BY <2>1, LookupStep
  <2>2. CASE \E amount \in UnknownCosts : AttemptLost(c, amount)
    BY <2>2, AttemptLostStep
  <2>3. CASE \E retryable \in BOOLEAN : AttemptRejected(c, retryable)
    BY <2>3, AttemptRejectedStep
  <2>4. CASE \E amount \in UnknownCosts, code \in {"MODEL_RESPONSE_INVALID", "MODEL_USAGE_MISSING"} :
               AttemptUnaccounted(c, code, amount)
    BY <2>4, AttemptUnaccountedStep
  <2>5. CASE \E amount \in ResponseCosts, code \in {"SCHEMA_INVALID", "REFUSAL"} :
               ResponseRefused(c, code, amount)
    BY <2>5, ResponseRefusedStep
  <2>6. CASE \E amount \in ResponseCosts, answer \in ModelAnswers :
               ResponseAccepted(c, answer, amount) \/ ResponseNotCached(c, answer, amount)
    BY <2>6, ResponseAcceptedStep, ResponseNotCachedStep
  <2>7. CASE GatewayRaises(c)
    BY <2>7, GatewayRaisesStep
  <2>8. CASE RuleFallback(c)
    BY <2>8, RuleFallbackStep
  <2>9. CASE SettleTrusted(c)
    BY <2>9, SettleTrustedStep
  <2>10. CASE SettleUntrusted(c)
    BY <2>10, SettleUntrustedStep
  <2>11. CASE ValidatorRefuses(c)
    BY <2>11, ValidatorRefusesStep
  <2>12. CASE Return(c)
    BY <2>12, ReturnStep
  <2> QED BY <1>3, <2>1, <2>2, <2>3, <2>4, <2>5, <2>6, <2>7, <2>8, <2>9, <2>10, <2>11, <2>12
             DEF Proceed
<1>4. CASE UNCHANGED modelVars
  BY <1>4 DEF CallInv, CallsStand, CacheStands, modelVars, MoneyStands, Owed, TelemetryStands,
     EndedCalls, Successes, Fallbacks
<1> QED BY <1>1, <1>2, <1>3, <1>4 DEF ModelNext

LEMMA CallInvTypes == CallInv => ModelTypeOK
BY DEF CallInv, CallsStand, CacheStands, MoneyStands, TelemetryStands, ModelTypeOK, CallType

LEMMA CallInvBills == CallInv => BillsWithinCap
<1> SUFFICES ASSUME CallInv PROVE BillsWithinCap
  OBVIOUS
<1> DEFINE P == {c \in Requests : calls[c].budgeted}
           kept == [c \in Requests |-> IF c \in P THEN billed[c] ELSE 0]
           covered == [c \in Requests |-> Owed[c] + reservedUsd[c]]
<1>1. IsFiniteSet(Requests) /\ P \in SUBSET Requests
  BY ModelCallsAssumption
<1>2. \A c \in Requests : billed[c] \in Nat /\ reservedUsd[c] \in Nat /\ Owed[c] \in Nat
  BY CostFacts DEF CallInv, CallsStand, Owed, OwedBy
<1>3. ASSUME NEW c \in Requests PROVE kept[c] <= covered[c]
  <2>1. /\ CallHolds(calls[c], billed[c]) /\ reservedUsd[c] = Holding(calls[c])
        /\ Owed[c] = OwedBy(calls[c], billed[c]) /\ calls[c].stage \in Stages
    BY DEF CallInv, CallsStand, Owed, CallType
  <2>2. CASE ~calls[c].budgeted
    BY <1>2, <2>2
  <2>3. CASE calls[c].budgeted /\ calls[c].stage \in ClosedStages
    BY <1>2, <2>1, <2>3 DEF OwedBy
  <2>4. CASE calls[c].budgeted /\ calls[c].stage \in OpenStages
    <3>1. billed[c] <= Reservation
      <4> DEFINE k == [calls[c] EXCEPT !.stage = "failed"]
      <4>1. calls[c] \in CallType
        BY <2>1 DEF CallHolds
      <4>2. /\ k \in CallType /\ k.stage = "failed" /\ k.uncertain = calls[c].uncertain
            /\ k.usage = calls[c].usage
        BY <4>1 DEF CallType, Stages
      <4> HIDE DEF k
      <4>3. CallHolds(k, billed[c])
        BY <2>1, <4>2, SettledHolds
      <4>4. billed[c] <= Charge(k) /\ Charge(k) <= MaximumBillableResponses * ResponseCost
        BY <4>2, <4>3 DEF CallHolds, Slots
      <4>5. Charge(k) \in Int
        BY <4>2, CostFacts DEF Charge, CallType
      <4> QED BY <1>2, <4>4, <4>5, CostFacts
    <3>2. reservedUsd[c] = Reservation
      BY <2>1, <2>4 DEF Holding
    <3> QED BY <1>2, <2>4, <3>1, <3>2
  <2>5. CASE calls[c].budgeted /\ calls[c].stage = "new"
    BY <2>1, <2>5 DEF CallHolds, NewCall
  <2> QED BY <2>1, <2>2, <2>3, <2>4, <2>5 DEF Stages, OpenStages, ClosedStages
<1>4. SumOf(billed, P) = SumOf(kept, Requests)
  BY <1>2, <1>1, SumPart
<1>5. SumOf(kept, Requests) <= SumOf(covered, Requests)
  BY <1>2, <1>3, <1>1, SumMonotone
<1>6. SumOf(covered, Requests) = SumOf(Owed, Requests) + SumOf(reservedUsd, Requests)
  BY <1>2, <1>1, SumPlus
<1>7. /\ SumOf(kept, Requests) \in Int /\ SumOf(covered, Requests) \in Int
      /\ SumOf(Owed, Requests) \in Int /\ SumOf(reservedUsd, Requests) \in Int
  BY <1>2, <1>1, SumIsInt
<1>8. /\ chargedUsd \in Nat /\ SumOf(Owed, Requests) <= chargedUsd
      /\ chargedUsd + SumOf(reservedUsd, Requests) <= CapUsd
  BY DEF CallInv, MoneyStands
<1>9. /\ AllReserved(reservedUsd) = SumOf(reservedUsd, Requests)
      /\ MapThenSumSet(LAMBDA c : billed[c], P) = SumOf(billed, P)
  BY DEF AllReserved, SumOf
<1>10. SumOf(billed, P) <= chargedUsd + SumOf(reservedUsd, Requests)
  BY <1>4, <1>5, <1>6, <1>7, <1>8
<1> QED BY <1>8, <1>9, <1>10 DEF BillsWithinCap

LEMMA CallInvAnswers == CallInv => AnswersReplay
  BY DEF CallInv, CallsStand, CanReplay, AnswersReplay

LEMMA CallInvCounts == CallInv => EveryCallCounted
BY DEF CallInv, TelemetryStands, EndedCalls, Successes, Fallbacks, EveryCallCounted

LEMMA CallInvHolds == ModelSpec => []CallInv
  BY CallInvInit, CallInvNext, PTL DEF ModelSpec

\* Every value of the calls, the budget, the cache and the telemetry has its type.
THEOREM CallTypes == ModelSpec => []ModelTypeOK
  BY CallInvHolds, CallInvTypes, PTL

\* Whatever attempts are lost, retried or repaired and however concurrent calls
\* interleave (CognitionService._execute, ModelCostBudget), the bills stay
\* covered by what is charged or reserved and within the cap, returned answers
\* are the cached ones, and every call is counted once.
THEOREM CallsAgree == ModelSpec => []CallsAccounted
<1>1. CallInv => CallsAccounted
  BY CallInvBills, CallInvAnswers, CallInvCounts DEF CallsAccounted
<1> QED BY <1>1, CallInvHolds, PTL

-----------------------------------------------------------------------------
(* One model request and its gateway.                                      *)

\* A call that has not begun is new; one that posts owes its total the running post.
CallAgrees ==
    /\ call.stage = "idle" => call = Unposted /\ wire = NewWire
    /\ Posting =>
          /\ call.attempt >= 1
          /\ call.attempts + (call.attempt - 1) = wire.sent
          /\ call.uncertain + call.lost = wire.unknown
          /\ call.usage = wire.tokens
    /\ CallTellsWire

\* A first post goes on only after what passes by itself; the repair follows an answer.
PostsHaveReason ==
    /\ call.stage = "first" => wire.last \in {"none", "again"} /\ wire.mended = 0
    /\ call.stage = "repair" =>
          /\ wire.last \in {"again", "mendable"}
          /\ wire.last = "mendable" => wire.mended = 0

\* What an ended call has to give.
AnswersHold ==
    /\ call.stage = "concluding" => call.code # "none"
    /\ call.stage = "answered" =>
          \/ call.data \in Storable /\ (call.hit \/ wire.last = "answered")
          \/ call.data = "rule" /\ asked.workflow = "belief" /\ call.code # "none"
    /\ call.hit \/ (call.stage = "idle" /\ asked.stored # "none") => ReadsCache(asked.workflow)
    /\ planning /\ call.stage = "answered" => call.data = "good"

\* The calls of an interpretation post once, and mend once.
InterpretationsAreShort ==
    Interpreting(asked.workflow) =>
        /\ call.attempt <= 1 /\ call.attempts <= 2
        /\ call.stage = "first" => call.attempts = 0
        /\ call.stage = "repair" => call.attempts <= 1
        /\ plan.wire.sent <= 2

PlanHolds ==
    /\ plan.stage # "none" => asked.workflow = "question" /\ call.stage # "idle"
    /\ plan.call.attempts = plan.wire.sent /\ plan.call.uncertain = plan.wire.unknown
    /\ plan.stage = "none" => plan = NotPlanned

ToldHolds ==
    /\ told # NotTold => call.stage \in {"idle", "answered", "raised"} /\ told.state # "none"
    /\ told # NotTold /\ call.stage = "idle" => told.state = "error"
    /\ told.state = "answer" => Succeeded(call) /\ call.data # "rule"
    /\ told.state = "rule" => call.stage = "answered" /\ call.data = "rule"
    /\ told.state \in {"answer", "summary"} =>
          /\ told.attempts <= plan.wire.sent + wire.sent
          /\ told.uncertain <= plan.wire.unknown + wire.unknown
          /\ ~(plan.stage = "raised" /\ ~Succeeded(call)) /\ (call.stage = "answered" => Succeeded(call)) =>
                /\ told.attempts = plan.wire.sent + wire.sent
                /\ told.uncertain = plan.wire.unknown + wire.unknown

ReceiptHolds ==
    asked.workflow = "guided" =>
        /\ call.stage # "idle" => receipt # "none"
        /\ receipt = "validated" => told # NotTold /\ wire.last = "answered"

GatewayInv ==
    /\ GatewayTypeOK /\ CallAgrees /\ PostsHaveReason /\ AnswersHold
    /\ InterpretationsAreShort /\ PlanHolds /\ ToldHolds /\ ReceiptHolds

\* The payloads ask for the usage wherever a provider has to be asked.
LEMMA UsageIsAskedFor ==
    ASSUME NEW p \in Providers, NEW w, NEW repair \in BOOLEAN
    PROVE  ReportsUsage(p, Payload(p, w, repair))
BY DEF Payload, RestPayload, ReportsUsage

\* Each dialect's usage is the tokens its provider counted, or is not trusted.
LEMMA UsagesAgree ==
    ASSUME NEW p \in Providers, NEW count \in Counts, NEW flaw \in Flaws(p),
           NEW usage, usage = TrustedUsage(p, Flawed(AsReported(p, count), flaw))
    PROVE  /\ TokensOf(count) \in Nat
           /\ flaw = "none" \/ (flaw = "noTotal" /\ p # "zhipu") => usage = TokensOf(count)
           /\ ~(flaw = "none" \/ (flaw = "noTotal" /\ p # "zhipu")) => usage = NoUsage
<1> DEFINE report == AsReported(p, count)
           input == report.input
           flawed == Flawed(report, flaw)
<1>1. count.fresh = 1 /\ count.cached \in {0, 2} /\ count.visible = 1 /\ count.thought \in {0, 2}
  BY DEF Counts
<1>2. TokensOf(count) \in Nat /\ TokensOf(count) = count.fresh + count.cached + count.visible + count.thought
  BY <1>1 DEF TokensOf
<1>3. flaw \in {"none", "missing", "noTotal", "wrongTotal", "overCached"}
      /\ (p = "anthropic" => flaw \in {"none", "missing"})
  BY DEF Flaws
<1>4. /\ flaw = "none" => flawed = report
      /\ flaw = "missing" => flawed = [report EXCEPT !.output = Absent]
      /\ flaw = "noTotal" => flawed = [report EXCEPT !.total = Absent]
      /\ flaw = "wrongTotal" => flawed = [report EXCEPT !.total = report.total + 1]
      /\ flaw = "overCached" => flawed = [report EXCEPT !.cached = input + 1]
  BY <1>3 DEF Flawed
<1>5. CASE p = "zhipu"
  BY <1>5, <1>1, <1>2, <1>3, <1>4 DEF AsReported, TrustedUsage, ZhipuUsage, NoUsage, Absent
<1>6. CASE p = "anthropic"
  BY <1>6, <1>1, <1>2, <1>3, <1>4 DEF AsReported, TrustedUsage, RestUsage, NoUsage, Absent
<1>7. CASE p = "google"
  BY <1>7, <1>1, <1>2, <1>3, <1>4 DEF AsReported, TrustedUsage, RestUsage, NoUsage, Absent
<1>8. CASE p \in {"openai", "deepseek"}
  BY <1>8, <1>1, <1>2, <1>3, <1>4 DEF AsReported, TrustedUsage, RestUsage, NoUsage, Absent
<1> QED BY <1>5, <1>6, <1>7, <1>8 DEF Providers

\* A retry follows only what passes by itself, and no error of a provider is mended.
LEMMA ErrorsAreClassified ==
    ASSUME NEW p \in Providers, NEW status \in ErrorStatuses, NEW code \in ProviderCodes,
           NEW verdict, verdict = Classified(p, status, code)
    PROVE  /\ verdict.code \in FailureCodes \ RepairableCodes
           /\ verdict.retryable \in BOOLEAN
           /\ verdict.retryable => Passing(status, code)
<1> DEFINE Stays(c) == verdict = GatewayError(c, FALSE)
           Passes(c) == verdict = GatewayError(c, TRUE)
<1>1. /\ status \in {400, 401, 403, 429, 500, 503}
      /\ status >= 500 <=> status \in {500, 503}
  BY DEF ErrorStatuses
<1>2. ASSUME NEW c \in FailureCodes \ RepairableCodes, Stays(c)
      PROVE  verdict.code \in FailureCodes \ RepairableCodes /\ verdict.retryable = FALSE
  BY <1>2 DEF GatewayError
<1>3. ASSUME NEW c \in FailureCodes \ RepairableCodes, Passes(c)
      PROVE  verdict.code \in FailureCodes \ RepairableCodes /\ verdict.retryable = TRUE
  BY <1>3 DEF GatewayError
<1>4. /\ {"AUTHENTICATION_ERROR", "PERMISSION_ERROR", "QUOTA_EXHAUSTED", "CONTENT_FILTERED",
          "REQUEST_INVALID", "RATE_LIMITED"} \subseteq FailureCodes \ RepairableCodes
      /\ {"RATE_LIMITED", "OVERLOADED", "TRANSPORT_ERROR"} \subseteq FailureCodes \ RepairableCodes
  BY DEF FailureCodes, RepairableCodes
<1>5. \/ \E c \in {"AUTHENTICATION_ERROR", "PERMISSION_ERROR", "QUOTA_EXHAUSTED",
                   "CONTENT_FILTERED", "REQUEST_INVALID", "RATE_LIMITED"} : Stays(c)
      \/ (\E c \in {"RATE_LIMITED", "OVERLOADED", "TRANSPORT_ERROR"} : Passes(c))
            /\ Passing(status, code)
  <2>1. CASE p = "zhipu"
    <3>1. verdict = ZhipuVerdict(status, code)
      BY <2>1 DEF Classified
    <3>2. CASE code = "credential" \/ status = 401
      BY <3>1, <3>2 DEF ZhipuVerdict
    <3>3. CASE ~(code = "credential" \/ status = 401) /\ (code = "permission" \/ status = 403)
      BY <3>1, <3>3 DEF ZhipuVerdict
    <3> DEFINE rest == /\ ~(code = "credential" \/ status = 401)
                       /\ ~(code = "permission" \/ status = 403)
    <3>4. CASE rest /\ code = "busy"
      BY <3>1, <3>4 DEF ZhipuVerdict, Passing
    <3>5. CASE rest /\ code # "busy" /\ (code = "overloaded" \/ status = 503)
      BY <3>1, <3>5 DEF ZhipuVerdict, Passing
    <3> DEFINE later == rest /\ code # "busy" /\ ~(code = "overloaded" \/ status = 503)
    <3>6. CASE later /\ code \in {"quota", "filtered"}
      BY <3>1, <3>6 DEF ZhipuVerdict
    <3>7. CASE later /\ code \notin {"quota", "filtered"} /\ status = 429
      <4>0. /\ code # "credential" /\ code # "permission" /\ code # "busy" /\ code # "overloaded"
            /\ code # "quota" /\ code # "filtered" /\ status = 429
            /\ status # 401 /\ status # 403 /\ status # 503
        BY <3>7
      <4>1. CASE code \in {"none", "busy", "overloaded"}
        BY <3>1, <4>0, <4>1, <3>7 DEF ZhipuVerdict, Passing
      <4>2. CASE code \notin {"none", "busy", "overloaded"}
        BY <3>1, <4>0, <4>2 DEF ZhipuVerdict
      <4> QED BY <4>1, <4>2
    <3>8. CASE later /\ code \notin {"quota", "filtered"} /\ status # 429 /\ status >= 500
      <4>1. verdict = GatewayError("TRANSPORT_ERROR", TRUE)
        BY <3>1, <3>8 DEF ZhipuVerdict
      <4>2. status \in {500, 503}
        BY <3>8, <1>1
      <4>3. Passing(status, code)
        BY <4>2 DEF Passing
      <4> QED BY <4>1, <4>3
    <3>9. CASE later /\ code \notin {"quota", "filtered"} /\ status # 429 /\ ~(status >= 500)
      BY <3>1, <3>9 DEF ZhipuVerdict
    <3> QED BY <3>2, <3>3, <3>4, <3>5, <3>6, <3>7, <3>8, <3>9
  <2>2. CASE p # "zhipu"
    <3>1. verdict = RestVerdict(status, code)
      BY <2>2 DEF Classified
    <3>2. CASE status = 401 \/ code = "credential"
      BY <3>1, <3>2 DEF RestVerdict
    <3>3. CASE ~(status = 401 \/ code = "credential") /\ (status = 403 \/ code = "permission")
      BY <3>1, <3>3 DEF RestVerdict
    <3> DEFINE rest == /\ ~(status = 401 \/ code = "credential")
                       /\ ~(status = 403 \/ code = "permission")
    <3>4. CASE rest /\ code = "quota"
      BY <3>1, <3>4 DEF RestVerdict
    <3>5. CASE rest /\ code # "quota" /\ status = 429
      BY <3>1, <3>5 DEF RestVerdict, Passing
    <3> DEFINE later == rest /\ code # "quota" /\ status # 429
    <3>6. CASE later /\ (status = 503 \/ code = "overloaded")
      BY <3>1, <3>6 DEF RestVerdict, Passing
    <3>7. CASE later /\ ~(status = 503 \/ code = "overloaded") /\ status >= 500
      <4>1. verdict = GatewayError("TRANSPORT_ERROR", TRUE)
        BY <3>1, <3>7 DEF RestVerdict
      <4>2. status \in {500, 503}
        BY <3>7, <1>1
      <4>3. Passing(status, code)
        BY <4>2 DEF Passing
      <4> QED BY <4>1, <4>3
    <3>8. CASE later /\ ~(status = 503 \/ code = "overloaded") /\ ~(status >= 500)
      BY <3>1, <3>8 DEF RestVerdict
    <3> QED BY <3>2, <3>3, <3>4, <3>5, <3>6, <3>7, <3>8
  <2> QED BY <2>1, <2>2
<1> HIDE DEF Stays, Passes
<1> QED BY <1>2, <1>3, <1>4, <1>5

\* An accepted answer is one, and a repair is asked for where an answer can be mended.
LEMMA VerdictsAgree ==
    ASSUME provider \in Providers, NEW answer, answer.finish \in Finishes, answer.text \in Texts,
           NEW verdict, verdict = AnswerVerdict(provider, answer.finish, answer.text)
    PROVE  /\ verdict \in FailureCodes \cup {Fine}
           /\ verdict = Fine => /\ Meaning(answer) = "answered"
                                /\ answer.text \in {"good", "unsafe", "misfit"}
           /\ verdict # Fine /\ verdict \in RepairableCodes => Meaning(answer) = "mendable"
<1> DEFINE finish == answer.finish
           text == answer.text
           whole == finish = "complete"
                    \/ (provider \in {"openai", "google"} /\ finish \notin {"filtered", "length", "failed"})
           closed == \/ finish = "filtered"
                     \/ whole /\ text \in {"refusal", "disclosing"}
                     \/ provider = "anthropic" /\ finish = "refused"
                     \/ provider = "deepseek" /\ finish = "capacity"
                     \/ provider = "zhipu" /\ finish = "network"
           content == IF provider = "zhipu" THEN ZhipuContent(finish, text)
                                            ELSE RestContent(provider, finish, text)
<1>1. Meaning(answer) = IF closed THEN "final"
                              ELSE IF whole /\ text \in {"good", "unsafe", "misfit"}
                                   THEN "answered" ELSE "mendable"
  BY DEF Meaning
<1>2. verdict = IF content = Fine THEN Validated(text) ELSE content
  BY DEF AnswerVerdict
<1>3. /\ TextVerdict(text) \in {"REFUSAL", "RESPONSE_INVALID", Fine}
      /\ (TextVerdict(text) = "REFUSAL") <=> (text = "refusal")
      /\ (TextVerdict(text) = "RESPONSE_INVALID") <=> (text = "empty")
  BY DEF TextVerdict, Fine
<1>4. /\ Validated(text) \in RepairableCodes \cup {"PROMPT_DISCLOSURE_BLOCKED", Fine}
      /\ Validated(text) = "PROMPT_DISCLOSURE_BLOCKED" <=> text = "disclosing"
      /\ Validated(text) = Fine => text \notin {"malformed", "ungrounded", "forbidden", "disclosing"}
  BY DEF Validated, Fine, RepairableCodes
<1>5. /\ content \in {"REFUSAL", "RESPONSE_INVALID", "CONTENT_FILTERED", "TRANSPORT_ERROR",
                      "OVERLOADED", Fine}
      /\ content = Fine => whole /\ ~(finish = "filtered") /\ TextVerdict(text) = Fine
      /\ content = "RESPONSE_INVALID" => ~closed \/ text = "disclosing"
      /\ content = "RESPONSE_INVALID" => ~(whole /\ text \in {"good", "unsafe", "misfit", "disclosing"})
  BY <1>3 DEF ZhipuContent, Finishes, Fine, RestContent, Providers
<1>6. text \in Texts
  OBVIOUS
<1> HIDE DEF content
<1>7. CASE content = Fine
  <2>1. verdict = Validated(text)
    BY <1>2, <1>7
  <2>2. text \notin {"refusal", "empty"}
    BY <1>3, <1>5, <1>7 DEF Fine
  <2>3. verdict \in FailureCodes \cup {Fine}
    BY <1>4, <2>1 DEF RepairableCodes, FailureCodes, Fine
  <2>4. whole /\ finish # "filtered" /\ (closed <=> (text = "disclosing" \/ (closed /\ text # "disclosing")))
    BY <1>5, <1>7
  <2>5. closed => text = "disclosing"
    BY <1>7, <2>2, <2>4 DEF content, ZhipuContent, Fine, RestContent, Providers
  <2>6. verdict = Fine => text \in {"good", "unsafe", "misfit"} /\ ~closed
    BY <1>4, <1>6, <2>1, <2>2, <2>5 DEF Texts
  <2>7. verdict # Fine /\ verdict \in RepairableCodes => text \notin {"disclosing", "good", "unsafe", "misfit"}
    BY <1>4, <2>1 DEF Validated, RepairableCodes
  <2> QED BY <1>1, <2>3, <2>4, <2>5, <2>6, <2>7
<1>8. CASE content # Fine
  <2>1. verdict = content /\ verdict \in FailureCodes \cup {Fine}
    BY <1>2, <1>5, <1>8 DEF FailureCodes, Fine
  <2>2. verdict \in RepairableCodes => verdict = "RESPONSE_INVALID"
    BY <1>5, <2>1, <1>8 DEF RepairableCodes, Fine
  <2>3. verdict = "RESPONSE_INVALID" => ~closed /\ ~(whole /\ text \in {"good", "unsafe", "misfit"})
    BY <1>3, <2>1 DEF content, ZhipuContent, Finishes, RestContent, Providers
  <2> QED BY <1>1, <1>8, <2>1, <2>2, <2>3
<1> QED BY <1>7, <1>8

\* A request and its response, as the wire has them.
LEMMA WireAfter ==
    ASSUME wire \in WireRecords, NEW last \in {"again", "mendable", "answered", "final"},
           NEW unknown \in Nat, NEW tokens \in Nat, Sent(last, unknown, tokens),
           wire.last = "mendable" => wire.mended = 0
    PROVE  /\ wire' \in WireRecords
           /\ wire'.sent = wire.sent + 1 /\ wire'.unknown = wire.unknown + unknown
           /\ wire'.tokens = wire.tokens + tokens /\ wire'.last = last
           /\ wire.last # "mendable" => wire'.mended = wire.mended
<1> DEFINE mended == IF wire.last = "mendable" THEN wire.mended + 1 ELSE wire.mended
<1>1. wire' = [wire EXCEPT !.sent = wire.sent + 1, !.unknown = wire.unknown + unknown,
                           !.tokens = wire.tokens + tokens, !.last = last, !.mended = mended]
  BY DEF Sent
<1>2. /\ wire.sent \in Nat /\ wire.unknown \in Nat /\ wire.tokens \in Nat /\ wire.mended \in 0 .. 1
      /\ wire = [f \in {"sent", "unknown", "tokens", "mended", "last"} |-> wire[f]]
  BY DEF WireRecords
<1>3. mended \in 0 .. 1 /\ (wire.last # "mendable" => mended = wire.mended)
  BY <1>2
<1> HIDE DEF mended
<1>4. /\ wire'.sent = wire.sent + 1 /\ wire'.unknown = wire.unknown + unknown
      /\ wire'.tokens = wire.tokens + tokens /\ wire'.last = last /\ wire'.mended = mended
      /\ wire' = [f \in {"sent", "unknown", "tokens", "mended", "last"} |-> wire'[f]]
  BY <1>1, <1>2
<1>5. wire.sent + 1 \in Nat /\ wire.unknown + unknown \in Nat /\ wire.tokens + tokens \in Nat
  BY <1>2
<1>6. wire' \in WireRecords
  BY <1>3, <1>4, <1>5 DEF WireRecords
<1> QED BY <1>3, <1>4, <1>6

\* The numbers of a call are numbers.
LEMMA CallNumbers ==
    ASSUME NEW c \in CallRecords
    PROVE  /\ c.attempt \in Nat /\ c.attempts \in Nat /\ c.lost \in Nat
           /\ c.uncertain \in Nat /\ c.usage \in Nat
BY GatewayCallsAssumption DEF CallRecords

\* A post that is tried again.
LEMMA RetryKeepsInv ==
    ASSUME GatewayInv, Posting, NEW unknown \in 0 .. 1, Sent("again", unknown, 0),
           call' \in CallRecords,
           call.attempt < Attempts(asked.workflow),
           call'.attempt = call.attempt + 1, call'.lost = call.lost + unknown,
           call'.stage = call.stage, call'.attempts = call.attempts,
           call'.uncertain = call.uncertain, call'.usage = call.usage, call'.hit = call.hit,
           UNCHANGED <<asked, plan, receipt, told>>
    PROVE  GatewayInv'
<1>0. call.stage \in {"first", "repair"} /\ unknown \in Nat
  BY DEF Posting
<1>1. /\ wire \in WireRecords /\ call \in CallRecords
      /\ call.stage \in {"first", "repair"}
      /\ wire.last = "mendable" => wire.mended = 0
  BY <1>0 DEF GatewayInv, GatewayTypeOK, PostsHaveReason
<1>2. /\ wire' \in WireRecords
      /\ wire'.sent = wire.sent + 1 /\ wire'.unknown = wire.unknown + unknown
      /\ wire'.tokens = wire.tokens + 0 /\ wire'.last = "again"
      /\ wire.last # "mendable" => wire'.mended = wire.mended
  BY <1>0, <1>1, WireAfter
<1>3. /\ call.attempt \in Nat /\ call.attempts \in Nat /\ call.lost \in Nat
      /\ call.uncertain \in Nat /\ call.usage \in Nat
      /\ wire.sent \in Nat /\ wire.unknown \in Nat /\ wire.tokens \in Nat /\ PolicyAttempts \in Nat
  BY <1>1, CallNumbers, GatewayCallsAssumption DEF WireRecords
<1>4. GatewayTypeOK'
  BY <1>2 DEF GatewayInv, GatewayTypeOK
<1>5. CallAgrees'
  BY <1>1, <1>2, <1>3 DEF GatewayInv, CallAgrees, Posting, CallTellsWire
<1>6. PostsHaveReason'
  BY <1>1, <1>2 DEF GatewayInv, PostsHaveReason
<1>7. AnswersHold'
  BY <1>1 DEF GatewayInv, AnswersHold, planning
<1>8. ~Interpreting(asked.workflow)
  BY <1>3 DEF Attempts, GatewayInv, CallAgrees
<1>9. InterpretationsAreShort'
  BY <1>8 DEF InterpretationsAreShort
<1>10. PlanHolds'
  BY DEF GatewayInv, PlanHolds
<1>11. told = NotTold
  BY <1>1 DEF GatewayInv, ToldHolds
<1>12. ToldHolds'
  BY <1>11 DEF ToldHolds, NotTold
<1>13. ReceiptHolds'
  BY <1>1, <1>11 DEF GatewayInv, ReceiptHolds
<1> QED BY <1>4, <1>5, <1>6, <1>7, <1>9, <1>10, <1>12, <1>13 DEF GatewayInv

\* A post that has ended: the repair follows, or the end of the call.
LEMMA EndOfPostKeepsInv ==
    ASSUME GatewayInv, Posting, NEW unknown \in 0 .. 1, NEW tokens \in Nat,
           NEW last \in {"again", "mendable", "answered", "final"},
           Sent(last, unknown, tokens), call' \in CallRecords,
           call'.attempts = call.attempts + call.attempt,
           call'.uncertain = call.uncertain + call.lost + unknown,
           call'.usage = call.usage + tokens, call'.hit = call.hit,
           \/ /\ call.stage = "first" /\ call'.stage = "repair" /\ last = "mendable"
              /\ call'.attempt = 1 /\ call'.lost = 0
           \/ /\ call'.stage = "concluding" /\ call'.code # "none" /\ call'.attempt = call.attempt
           \/ /\ call'.stage = "answered" /\ call'.attempt = call.attempt
              /\ last = "answered" /\ call'.data \in Storable
              /\ ((asked.workflow = "question" /\ plan.stage = "none") => call'.data = "good"),
           asked'.workflow = asked.workflow,
           asked' \in AskedRecords,
           UNCHANGED <<plan, receipt, told>>
    PROVE  GatewayInv'
<1>0. call.stage \in {"first", "repair"} /\ unknown \in Nat
  BY DEF Posting
<1>1. /\ wire \in WireRecords /\ call \in CallRecords
      /\ call.stage \in {"first", "repair"}
      /\ wire.last = "mendable" => wire.mended = 0
  BY <1>0 DEF GatewayInv, GatewayTypeOK, PostsHaveReason
<1>2. /\ wire' \in WireRecords
      /\ wire'.sent = wire.sent + 1 /\ wire'.unknown = wire.unknown + unknown
      /\ wire'.tokens = wire.tokens + tokens /\ wire'.last = last
      /\ wire.last # "mendable" => wire'.mended = wire.mended
  BY <1>0, <1>1, WireAfter
<1>3. /\ call.attempt \in Nat /\ call.attempts \in Nat /\ call.lost \in Nat
      /\ call.uncertain \in Nat /\ call.usage \in Nat
      /\ wire.sent \in Nat /\ wire.unknown \in Nat /\ wire.tokens \in Nat
  BY <1>1, CallNumbers, GatewayCallsAssumption DEF WireRecords
<1>4. /\ call'.stage \in {"repair", "concluding", "answered"}
      /\ call'.stage = "repair" => call.stage = "first" /\ last = "mendable" /\ call'.attempt = 1
                                   /\ call'.lost = 0
      /\ call'.stage = "concluding" => call'.code # "none" /\ call'.attempt = call.attempt
      /\ call'.stage = "answered" =>
            /\ call'.attempt = call.attempt
            /\ last = "answered" /\ call'.data \in Storable
            /\ ((asked.workflow = "question" /\ plan.stage = "none") => call'.data = "good")
  OBVIOUS
<1>5. /\ call.attempt >= 1 /\ call.attempts + (call.attempt - 1) = wire.sent
      /\ call.uncertain + call.lost = wire.unknown /\ call.usage = wire.tokens
      /\ call.stage = "first" => wire.last \in {"none", "again"} /\ wire.mended = 0
      /\ call.hit => ReadsCache(asked.workflow)
  BY DEF GatewayInv, CallAgrees, PostsHaveReason, AnswersHold
<1>6. call'.attempts = wire'.sent /\ call'.uncertain = wire'.unknown /\ call'.usage = wire'.tokens
  BY <1>2, <1>3, <1>5
<1>7. GatewayTypeOK'
  BY <1>2 DEF GatewayInv, GatewayTypeOK
<1>8. CallAgrees'
  BY <1>2, <1>3, <1>4, <1>6 DEF CallAgrees, Posting, CallTellsWire
<1>9. PostsHaveReason'
  BY <1>2, <1>4, <1>5 DEF PostsHaveReason
<1>10. AnswersHold'
  BY <1>2, <1>4, <1>5 DEF AnswersHold, planning
<1>11. InterpretationsAreShort'
  BY <1>1, <1>3, <1>4 DEF InterpretationsAreShort, GatewayInv
<1>12. PlanHolds'
  BY <1>4 DEF GatewayInv, PlanHolds
<1>13. told = NotTold
  BY <1>1 DEF GatewayInv, ToldHolds
<1>14. ToldHolds'
  BY <1>13 DEF ToldHolds, NotTold
<1>15. ReceiptHolds'
  BY <1>1, <1>13 DEF GatewayInv, ReceiptHolds
<1> QED BY <1>7, <1>8, <1>9, <1>10, <1>11, <1>12, <1>14, <1>15 DEF GatewayInv

\* The fields of a call after a failure.
LEMMA FailedFields ==
    ASSUME NEW c \in CallRecords, NEW code \in FailureCodes, NEW d, d = Failed(c, code)
    PROVE  /\ d \in CallRecords
           /\ d.attempts = c.attempts /\ d.uncertain = c.uncertain /\ d.usage = c.usage
           /\ d.hit = c.hit /\ d.data = c.data /\ d.code = code
           /\ \/ c.stage = "first" /\ code \in RepairableCodes /\ d.stage = "repair"
                 /\ d.attempt = 1 /\ d.lost = 0
              \/ d.stage = "concluding" /\ d.attempt = c.attempt
<1> DEFINE Fields == {"stage", "attempt", "lost", "attempts", "uncertain", "usage", "code", "http",
                      "repairUsed", "hit", "data"}
<1>1. c = [f \in Fields |-> c[f]]
  BY DEF CallRecords
<1>2. 1 \in 0 .. PolicyAttempts
  BY GatewayCallsAssumption
<1>3. CASE c.stage = "first" /\ code \in RepairableCodes
  BY <1>3, <1>1, <1>2 DEF Failed, GatewayStages, CallRecords
<1>4. CASE ~(c.stage = "first" /\ code \in RepairableCodes)
  BY <1>4, <1>1 DEF Failed, CallRecords, GatewayStages
<1> QED BY <1>3, <1>4

LEMMA TotalledFields ==
    ASSUME NEW c \in CallRecords, NEW d, d = Totalled(c)
    PROVE  /\ d \in CallRecords
           /\ d.attempts = c.attempts + c.attempt /\ d.uncertain = c.uncertain + c.lost
           /\ d.usage = c.usage /\ d.hit = c.hit /\ d.stage = c.stage /\ d.attempt = c.attempt
<1> DEFINE Fields == {"stage", "attempt", "lost", "attempts", "uncertain", "usage", "code", "http",
                      "repairUsed", "hit", "data"}
<1>1. c = [f \in Fields |-> c[f]]
  BY DEF CallRecords
<1>2. d = [c EXCEPT !.attempts = c.attempts + c.attempt, !.uncertain = c.uncertain + c.lost]
  BY DEF Totalled
<1>3. /\ d.attempts = c.attempts + c.attempt /\ d.uncertain = c.uncertain + c.lost
      /\ d.usage = c.usage /\ d.hit = c.hit /\ d.stage = c.stage /\ d.attempt = c.attempt
      /\ d.lost = c.lost /\ d.code = c.code /\ d.http = c.http /\ d.repairUsed = c.repairUsed
      /\ d.data = c.data /\ d = [f \in Fields |-> d[f]]
  BY <1>1, <1>2
<1>4. d.attempts \in Nat /\ d.uncertain \in Nat
  BY <1>3, CallNumbers
<1>5. d \in CallRecords
  BY <1>3, <1>4 DEF CallRecords
<1> QED BY <1>3, <1>5

\* A call with another field of its own.
LEMMA WithHttp ==
    ASSUME NEW c \in CallRecords, NEW b \in BOOLEAN, NEW d, d = [c EXCEPT !.http = b]
    PROVE  /\ d \in CallRecords
           /\ d.attempts = c.attempts /\ d.uncertain = c.uncertain /\ d.usage = c.usage
           /\ d.hit = c.hit /\ d.stage = c.stage /\ d.attempt = c.attempt /\ d.lost = c.lost
BY DEF CallRecords

LEMMA LostFields ==
    ASSUME NEW c \in CallRecords, NEW d, d = Lost(c)
    PROVE  /\ d \in CallRecords
           /\ d.attempts = c.attempts /\ d.uncertain = c.uncertain /\ d.usage = c.usage
           /\ d.hit = c.hit /\ d.stage = c.stage /\ d.attempt = c.attempt /\ d.lost = c.lost + 1
BY CallNumbers DEF CallRecords, Lost

\* An attempt that failed is tried again, or ends its post; what passes by itself is
\* never mended.
LEMMA FailingAttemptKeepsInv ==
    ASSUME GatewayInv, Posting, NEW unknown \in 0 .. 1,
           NEW c \in CallRecords, NEW verdict, verdict.code \in FailureCodes,
           verdict.retryable \in BOOLEAN,
           c.attempts = call.attempts, c.uncertain = call.uncertain, c.usage = call.usage,
           c.hit = call.hit, c.stage = call.stage, c.attempt = call.attempt,
           c.lost = call.lost + unknown,
           call' = AttemptFails(c, verdict),
           NEW last \in {"again", "mendable", "final"}, Sent(last, unknown, 0),
           verdict.retryable => last = "again",
           verdict.code \in RepairableCodes => last = "mendable",
           UNCHANGED <<asked, plan, receipt, told>>
    PROVE  GatewayInv'
<1>1. CASE verdict.retryable /\ c.attempt < Attempts(asked.workflow)
  BY <1>1, CallNumbers, GatewayCallsAssumption, RetryKeepsInv DEF AttemptFails, CallRecords, Attempts
<1>2. CASE ~(verdict.retryable /\ c.attempt < Attempts(asked.workflow))
  <2> DEFINE d == Totalled(c)
  <2>1. call' = Failed(d, verdict.code)
    BY <1>2 DEF AttemptFails
  <2>2. /\ d \in CallRecords
        /\ d.attempts = c.attempts + c.attempt /\ d.uncertain = c.uncertain + c.lost
        /\ d.usage = c.usage /\ d.hit = c.hit /\ d.stage = c.stage /\ d.attempt = c.attempt
    BY TotalledFields
  <2> HIDE DEF d
  <2>3. /\ call' \in CallRecords
        /\ call'.attempts = d.attempts /\ call'.uncertain = d.uncertain /\ call'.usage = d.usage
        /\ call'.hit = d.hit /\ call'.code = verdict.code
        /\ \/ d.stage = "first" /\ verdict.code \in RepairableCodes /\ call'.stage = "repair"
              /\ call'.attempt = 1 /\ call'.lost = 0
           \/ call'.stage = "concluding" /\ call'.attempt = d.attempt
    BY <2>1, <2>2, FailedFields
  <2>4. /\ call.attempt \in Nat /\ call.attempts \in Nat /\ call.lost \in Nat
        /\ call.uncertain \in Nat /\ call.usage \in Nat
    BY CallNumbers DEF GatewayInv, GatewayTypeOK
  <2>5. /\ call'.attempts = call.attempts + call.attempt
        /\ call'.uncertain = call.uncertain + call.lost + unknown
        /\ call'.usage = call.usage + 0 /\ call'.hit = call.hit
    BY <2>2, <2>3, <2>4
  <2>6. verdict.code # "none"
    BY DEF FailureCodes
  <2>7. \/ /\ call.stage = "first" /\ call'.stage = "repair" /\ last = "mendable"
           /\ call'.attempt = 1 /\ call'.lost = 0
        \/ /\ call'.stage = "concluding" /\ call'.code # "none" /\ call'.attempt = call.attempt
    BY <2>2, <2>3, <2>6
  <2>8. asked'.workflow = asked.workflow /\ asked' \in AskedRecords
    BY DEF GatewayInv, GatewayTypeOK
  <2> QED BY <2>3, <2>5, <2>7, <2>8, EndOfPostKeepsInv
<1> QED BY <1>1, <1>2

LEMMA PostLostKeepsInv ==
    ASSUME GatewayInv, NEW code \in {"TIMEOUT", "TRANSPORT_ERROR"}, PostLost(code)
    PROVE  GatewayInv'
<1> DEFINE b == Lost(call)
           c == [b EXCEPT !.http = FALSE]
           verdict == GatewayError(code, TRUE)
<1>1. /\ Posting /\ call' = AttemptFails(c, verdict) /\ Sent("again", 1, 0)
      /\ UNCHANGED <<asked, plan, receipt, told>>
  BY DEF PostLost
<1>2. /\ b \in CallRecords
      /\ b.attempts = call.attempts /\ b.uncertain = call.uncertain /\ b.usage = call.usage
      /\ b.hit = call.hit /\ b.stage = call.stage /\ b.attempt = call.attempt
      /\ b.lost = call.lost + 1
  BY LostFields DEF GatewayInv, GatewayTypeOK
<1> HIDE DEF b
<1>3. /\ c \in CallRecords
      /\ c.attempts = b.attempts /\ c.uncertain = b.uncertain /\ c.usage = b.usage
      /\ c.hit = b.hit /\ c.stage = b.stage /\ c.attempt = b.attempt /\ c.lost = b.lost
  BY <1>2, WithHttp
<1> HIDE DEF c
<1>4. /\ verdict.code \in FailureCodes /\ verdict.retryable = TRUE
      /\ verdict.code \notin RepairableCodes
  BY DEF GatewayError, FailureCodes, RepairableCodes
<1>5. 1 \in 0 .. 1
  OBVIOUS
<1> HIDE DEF verdict
<1> QED BY <1>1, <1>2, <1>3, <1>4, <1>5, FailingAttemptKeepsInv

LEMMA PostRefusedKeepsInv ==
    ASSUME GatewayInv, NEW status \in ErrorStatuses, NEW code \in ProviderCodes,
           PostRefused(status, code)
    PROVE  GatewayInv'
<1> DEFINE c == [call EXCEPT !.http = TRUE]
           verdict == Classified(provider, status, code)
           last == IF Passing(status, code) THEN "again" ELSE "final"
<1>1. /\ Posting /\ call' = AttemptFails(c, verdict) /\ Sent(last, 0, 0)
      /\ UNCHANGED <<asked, plan, receipt, told>>
  BY DEF PostRefused
<1>2. /\ c \in CallRecords
      /\ c.attempts = call.attempts /\ c.uncertain = call.uncertain /\ c.usage = call.usage
      /\ c.hit = call.hit /\ c.stage = call.stage /\ c.attempt = call.attempt
      /\ c.lost = call.lost
  BY WithHttp DEF GatewayInv, GatewayTypeOK
<1>3. c.lost = call.lost + 0 /\ 0 \in 0 .. 1
  BY <1>2, CallNumbers DEF GatewayInv, GatewayTypeOK
<1> HIDE DEF c
<1>4. provider \in Providers
  BY DEF provider, GatewayInv, GatewayTypeOK, AskedRecords
<1>5. /\ verdict.code \in FailureCodes \ RepairableCodes /\ verdict.retryable \in BOOLEAN
      /\ verdict.retryable => Passing(status, code)
  BY <1>4, ErrorsAreClassified
<1>6. last \in {"again", "mendable", "final"} /\ (verdict.retryable => last = "again")
  BY <1>5
<1> HIDE DEF verdict, last
<1> QED BY <1>1, <1>2, <1>3, <1>5, <1>6, FailingAttemptKeepsInv

LEMMA PostUndecodableKeepsInv ==
    ASSUME GatewayInv, NEW status \in ErrorStatuses \cup {200}, PostUndecodable(status)
    PROVE  GatewayInv'
<1> DEFINE b == IF status = 200 THEN Lost(call) ELSE call
           c == [b EXCEPT !.http = TRUE]
           u == IF status = 200 THEN 1 ELSE 0
           verdict == Undecodable(provider, status)
           last == IF status = 200 THEN "mendable"
                   ELSE IF Passing(status, "none") THEN "again" ELSE "final"
<1>1. /\ Posting /\ call' = AttemptFails(c, verdict) /\ UNCHANGED <<asked, plan, receipt, told>>
  BY DEF PostUndecodable
<1>2. Sent(last, u, 0)
  BY DEF PostUndecodable
<1>3. /\ b \in CallRecords
      /\ b.attempts = call.attempts /\ b.uncertain = call.uncertain /\ b.usage = call.usage
      /\ b.hit = call.hit /\ b.stage = call.stage /\ b.attempt = call.attempt
      /\ b.lost = call.lost + u
  BY LostFields, CallNumbers DEF GatewayInv, GatewayTypeOK
<1>4. u \in 0 .. 1
  OBVIOUS
<1> HIDE DEF b
<1>5. /\ c \in CallRecords
      /\ c.attempts = b.attempts /\ c.uncertain = b.uncertain /\ c.usage = b.usage
      /\ c.hit = b.hit /\ c.stage = b.stage /\ c.attempt = b.attempt /\ c.lost = b.lost
  <2>1. c = [b EXCEPT !.http = TRUE] /\ b \in CallRecords
    BY <1>3
  <2> HIDE DEF c
  <2>2. \A d : d = [b EXCEPT !.http = TRUE] =>
          /\ d \in CallRecords
          /\ d.attempts = b.attempts /\ d.uncertain = b.uncertain /\ d.usage = b.usage
          /\ d.hit = b.hit /\ d.stage = b.stage /\ d.attempt = b.attempt /\ d.lost = b.lost
    BY <2>1, WithHttp
  <2> QED BY ONLY <2>1, <2>2
<1> HIDE DEF c, u
<1>6. /\ verdict.code \in FailureCodes /\ verdict.retryable \in BOOLEAN
      /\ last \in {"again", "mendable", "final"}
      /\ verdict.retryable => last = "again"
      /\ verdict.code \in RepairableCodes => last = "mendable"
  <2>1. CASE status = 200
    BY <2>1 DEF Undecodable, GatewayError, FailureCodes
  <2>2. CASE status # 200
    BY <2>2, ErrorsAreClassified DEF Undecodable, provider, GatewayInv, GatewayTypeOK, AskedRecords,
       ProviderCodes
  <2> QED BY <2>1, <2>2
<1> HIDE DEF verdict, last
<1> QED BY <1>1, <1>2, <1>3, <1>4, <1>5, <1>6, FailingAttemptKeepsInv

LEMMA PostAnsweredKeepsInv ==
    ASSUME GatewayInv, NEW answer \in ProviderAnswers, PostAnswered(answer)
    PROVE  GatewayInv'
<1> DEFINE p == provider
           payload == Payload(p, asked.workflow, call.stage = "repair")
           report == Flawed(AsReported(p, answer.count), answer.flaw)
           trusted == answer.flaw = "none" \/ (answer.flaw = "noTotal" /\ p # "zhipu")
           tokens == TrustedUsage(p, report)
           counted == TokensOf(answer.count)
           verdict == AnswerVerdict(p, answer.finish, answer.text)
           b == [call EXCEPT !.http = FALSE]
           c == Totalled(b)
<1>1. /\ answer.count \in Counts /\ answer.flaw \in Flaws(p) /\ answer.finish \in Finishes
      /\ answer.text \in TextsFor(asked.workflow, planning)
  BY DEF ProviderAnswers
<1>2. p \in Providers /\ call \in CallRecords
  BY DEF provider, GatewayInv, GatewayTypeOK, AskedRecords
<1>3. ReportsUsage(p, payload)
  BY <1>2, UsageIsAskedFor
<1>4. /\ Posting /\ UNCHANGED <<plan, receipt, told>>
      /\ call' = AfterAnswer(c, tokens, verdict, answer.text)
      /\ asked' = IF call'.stage = "answered" /\ WritesCache(asked.workflow)
                  THEN [asked EXCEPT !.stored = answer.text] ELSE asked
  BY <1>3 DEF PostAnswered
<1>5. /\ trusted => Sent(Meaning(answer), 0, counted)
      /\ ~trusted => Sent("final", 1, 0)
  BY DEF PostAnswered
<1>6. counted \in Nat /\ (trusted => tokens = counted) /\ (~trusted => tokens = NoUsage)
  BY <1>1, <1>2, UsagesAgree
<1>7. answer.text \in Texts
  BY <1>1 DEF TextsFor
<1>8. /\ verdict \in FailureCodes \cup {Fine}
      /\ verdict = Fine => Meaning(answer) = "answered"
                           /\ answer.text \in {"good", "unsafe", "misfit"}
      /\ verdict # Fine /\ verdict \in RepairableCodes => Meaning(answer) = "mendable"
  BY <1>1, <1>2, <1>7, VerdictsAgree
<1>9. /\ b \in CallRecords
      /\ b.attempts = call.attempts /\ b.uncertain = call.uncertain /\ b.usage = call.usage
      /\ b.hit = call.hit /\ b.stage = call.stage /\ b.attempt = call.attempt /\ b.lost = call.lost
  BY <1>2, WithHttp
<1> HIDE DEF b, p, payload, report, verdict, tokens, counted, trusted
<1>10. /\ c \in CallRecords
       /\ c.attempts = b.attempts + b.attempt /\ c.uncertain = b.uncertain + b.lost
       /\ c.usage = b.usage /\ c.hit = b.hit /\ c.stage = b.stage /\ c.attempt = b.attempt
  BY <1>9, TotalledFields
<1> HIDE DEF c
<1>11. asked'.workflow = asked.workflow
  BY <1>4 DEF GatewayInv, GatewayTypeOK, AskedRecords
<1>12. Meaning(answer) \in {"answered", "mendable", "final"}
  BY DEF Meaning
<1> DEFINE Fields == {"stage", "attempt", "lost", "attempts", "uncertain", "usage", "code", "http",
                      "repairUsed", "hit", "data"}
<1>13. /\ call.attempt \in Nat /\ call.attempts \in Nat /\ call.lost \in Nat
       /\ call.uncertain \in Nat /\ call.usage \in Nat
  BY <1>2, CallNumbers
<1>14. c = [f \in Fields |-> c[f]]
  BY <1>10 DEF CallRecords
<1>15. counted # NoUsage
  BY <1>6 DEF NoUsage
<1>16. CASE ~trusted
  <2> DEFINE e == [c EXCEPT !.uncertain = c.uncertain + 1]
  <2>1. call' = Failed(e, "USAGE_MISSING")
    BY <1>4, <1>6, <1>16 DEF AfterAnswer
  <2>2. /\ e.attempts = c.attempts /\ e.uncertain = c.uncertain + 1
        /\ e.usage = c.usage /\ e.hit = c.hit /\ e.stage = c.stage /\ e.attempt = c.attempt
        /\ e.lost = c.lost /\ e.code = c.code /\ e.http = c.http /\ e.repairUsed = c.repairUsed
        /\ e.data = c.data /\ e = [f \in Fields |-> e[f]]
    BY <1>14
  <2>3. e.uncertain \in Nat
    <3>1. c.uncertain \in Nat
      BY <1>10, CallNumbers
    <3> QED BY <2>2, <3>1
  <2> HIDE DEF e
  <2>4. e \in CallRecords
    BY <2>2, <2>3, <1>10 DEF CallRecords
  <2>5. "USAGE_MISSING" \in FailureCodes /\ "USAGE_MISSING" \notin RepairableCodes
    BY DEF FailureCodes, RepairableCodes
  <2>6. /\ call' \in CallRecords
        /\ call'.attempts = e.attempts /\ call'.uncertain = e.uncertain /\ call'.usage = e.usage
        /\ call'.hit = e.hit /\ call'.code = "USAGE_MISSING"
        /\ call'.stage = "concluding" /\ call'.attempt = e.attempt
    BY <2>1, <2>4, <2>5, FailedFields
  <2>7. /\ call'.attempts = call.attempts + call.attempt
        /\ call'.uncertain = call.uncertain + call.lost + 1
        /\ call'.usage = call.usage + 0 /\ call'.hit = call.hit /\ call'.attempt = call.attempt
    BY <2>2, <2>6, <1>9, <1>10, <1>13
  <2>8. asked' = asked
    BY <2>6, <1>4
  <2>9. asked' \in AskedRecords
    BY <2>8 DEF GatewayInv, GatewayTypeOK
  <2>10. Sent("final", 1, 0) /\ 1 \in 0 .. 1 /\ 0 \in Nat
    BY <1>5, <1>16
  <2> QED BY <2>6, <2>7, <2>9, <2>10, <1>4, <1>11, EndOfPostKeepsInv
<1>17. CASE trusted
  <2> DEFINE e == [c EXCEPT !.usage = c.usage + tokens]
             last == Meaning(answer)
  <2>1. tokens = counted /\ tokens # NoUsage /\ tokens \in Nat
    BY <1>6, <1>15, <1>17
  <2>2. call' = IF verdict = Fine THEN [e EXCEPT !.stage = "answered", !.data = answer.text]
                                  ELSE Failed(e, verdict)
    BY <1>4, <2>1 DEF AfterAnswer
  <2>3. /\ e.attempts = c.attempts /\ e.uncertain = c.uncertain
        /\ e.usage = c.usage + tokens /\ e.hit = c.hit /\ e.stage = c.stage /\ e.attempt = c.attempt
        /\ e.lost = c.lost /\ e.code = c.code /\ e.http = c.http /\ e.repairUsed = c.repairUsed
        /\ e.data = c.data /\ e = [f \in Fields |-> e[f]]
    BY <1>14
  <2>4. e.usage \in Nat
    <3>1. c.usage \in Nat
      BY <1>10, CallNumbers
    <3> QED BY <2>1, <2>3, <3>1
  <2> HIDE DEF e
  <2>5. e \in CallRecords
    BY <2>3, <2>4, <1>10 DEF CallRecords
  <2>6. Sent(last, 0, tokens) /\ 0 \in 0 .. 1 /\ last \in {"again", "mendable", "answered", "final"}
    BY <1>5, <1>17, <2>1, <1>12
  <2> HIDE DEF last
  <2>7. /\ e.attempts = call.attempts + call.attempt
        /\ e.uncertain = call.uncertain + call.lost + 0
        /\ e.usage = call.usage + tokens /\ e.hit = call.hit /\ e.attempt = call.attempt
        /\ e.stage = call.stage
    BY <2>3, <1>9, <1>10, <1>13
  <2>8. CASE verdict = Fine
    <3>1. call' = [e EXCEPT !.stage = "answered", !.data = answer.text]
      BY <2>2, <2>8
    <3>2. /\ call'.attempts = e.attempts /\ call'.uncertain = e.uncertain
          /\ call'.usage = e.usage /\ call'.hit = e.hit /\ call'.stage = "answered"
          /\ call'.attempt = e.attempt /\ call'.lost = e.lost /\ call'.code = e.code
          /\ call'.http = e.http /\ call'.repairUsed = e.repairUsed
          /\ call'.data = answer.text /\ call' = [f \in Fields |-> call'[f]]
      BY <3>1, <2>3
    <3>3. "answered" \in GatewayStages
      BY DEF GatewayStages
    <3>4. call' \in CallRecords
      BY <3>2, <3>3, <2>5, <1>7 DEF CallRecords
    <3>5. call'.data \in Storable
      BY <3>2, <2>8, <1>8 DEF Storable
    <3>6. (asked.workflow = "question" /\ plan.stage = "none") => call'.data = "good"
      BY <1>1, <3>2, <2>8, <1>8 DEF planning, TextsFor
    <3>7. last = "answered"
      BY <1>8, <2>8 DEF last
    <3>8. asked' \in AskedRecords
      BY <1>4, <3>2, <3>5 DEF GatewayInv, GatewayTypeOK, AskedRecords
    <3> QED BY <3>2, <3>4, <3>5, <3>6, <3>7, <3>8, <2>1, <2>6, <2>7, <1>4, <1>11, EndOfPostKeepsInv
  <2>9. CASE verdict # Fine
    <3>1. call' = Failed(e, verdict) /\ verdict \in FailureCodes
      BY <2>2, <2>9, <1>8
    <3>2. /\ call' \in CallRecords
          /\ call'.attempts = e.attempts /\ call'.uncertain = e.uncertain /\ call'.usage = e.usage
          /\ call'.hit = e.hit /\ call'.code = verdict
          /\ \/ e.stage = "first" /\ verdict \in RepairableCodes /\ call'.stage = "repair"
                /\ call'.attempt = 1 /\ call'.lost = 0
             \/ call'.stage = "concluding" /\ call'.attempt = e.attempt
      BY <3>1, <2>5, FailedFields
    <3>3. verdict \in RepairableCodes => last = "mendable"
      BY <1>8, <2>9 DEF last
    <3>4. verdict # "none"
      BY <3>1 DEF FailureCodes
    <3>5. asked' = asked
      BY <3>2, <1>4
    <3>6. asked' \in AskedRecords
      BY <3>5 DEF GatewayInv, GatewayTypeOK
    <3>7. \/ /\ call.stage = "first" /\ call'.stage = "repair" /\ last = "mendable"
             /\ call'.attempt = 1 /\ call'.lost = 0
          \/ /\ call'.stage = "concluding" /\ call'.code # "none" /\ call'.attempt = call.attempt
      BY <3>2, <3>3, <3>4, <2>7
    <3> QED BY <3>2, <3>6, <3>7, <2>1, <2>6, <2>7, <1>4, <1>11, EndOfPostKeepsInv
  <2> QED BY <2>8, <2>9
<1> QED BY <1>16, <1>17

\* A new call, and a new wire.
LEMMA NewRecords ==
    /\ Unposted \in CallRecords /\ FirstPost \in CallRecords /\ NewWire \in WireRecords
    /\ Unposted.stage = "idle" /\ Unposted.attempts = 0 /\ Unposted.uncertain = 0
    /\ Unposted.attempt = 0 /\ Unposted.hit = FALSE
    /\ FirstPost.stage = "first" /\ FirstPost.attempt = 1 /\ FirstPost.attempts = 0
    /\ FirstPost.uncertain = 0 /\ FirstPost.usage = 0 /\ FirstPost.lost = 0
    /\ FirstPost.hit = FALSE
    /\ NewWire.sent = 0 /\ NewWire.unknown = 0 /\ NewWire.tokens = 0 /\ NewWire.last = "none"
    /\ NewWire.mended = 0
<1>1. 0 \in 0 .. PolicyAttempts /\ 1 \in 0 .. PolicyAttempts
  BY GatewayCallsAssumption
<1>2. Unposted \in CallRecords
  BY <1>1 DEF Unposted, CallRecords, GatewayStages
<1> DEFINE Fields == {"stage", "attempt", "lost", "attempts", "uncertain", "usage", "code", "http",
                      "repairUsed", "hit", "data"}
<1>3. /\ Unposted = [f \in Fields |-> Unposted[f]]
      /\ Unposted.stage = "idle" /\ Unposted.attempts = 0 /\ Unposted.uncertain = 0
      /\ Unposted.attempt = 0 /\ Unposted.hit = FALSE /\ Unposted.usage = 0 /\ Unposted.lost = 0
      /\ Unposted.code = "none" /\ Unposted.http = FALSE /\ Unposted.repairUsed = FALSE
      /\ Unposted.data = "none"
  BY DEF Unposted
<1>4. /\ FirstPost \in CallRecords
      /\ FirstPost.stage = "first" /\ FirstPost.attempt = 1 /\ FirstPost.attempts = 0
      /\ FirstPost.uncertain = 0 /\ FirstPost.usage = 0 /\ FirstPost.lost = 0
      /\ FirstPost.hit = FALSE
  <2>1. FirstPost = [Unposted EXCEPT !.stage = "first", !.attempt = 1]
    BY DEF FirstPost
  <2>2. /\ FirstPost = [f \in Fields |-> FirstPost[f]]
        /\ FirstPost.stage = "first" /\ FirstPost.attempt = 1 /\ FirstPost.attempts = 0
        /\ FirstPost.uncertain = 0 /\ FirstPost.usage = 0 /\ FirstPost.lost = 0
        /\ FirstPost.hit = FALSE /\ FirstPost.code = "none" /\ FirstPost.http = FALSE
        /\ FirstPost.repairUsed = FALSE /\ FirstPost.data = "none"
    BY <1>3, <2>1
  <2>3. FirstPost.stage \in GatewayStages
    BY <2>2 DEF GatewayStages
  <2>4. /\ FirstPost.attempt \in 0 .. PolicyAttempts /\ FirstPost.lost \in Nat
        /\ FirstPost.attempts \in Nat /\ FirstPost.uncertain \in Nat /\ FirstPost.usage \in Nat
    BY <1>1, <2>2
  <2>5. FirstPost \in CallRecords
    BY <2>2, <2>3, <2>4 DEF CallRecords
  <2> QED BY <2>2, <2>5
<1>5. NewWire \in WireRecords
  BY DEF NewWire, WireRecords
<1> QED BY <1>2, <1>3, <1>4, <1>5 DEF NewWire

LEMMA ToldNothing ==
    /\ NotTold.state = "none"
    /\ NotTold \in ToldRecords
BY DEF NotTold, ToldRecords

\* What is told of a call.
LEMMA ToldFields ==
    ASSUME NEW state \in {"answer", "rule", "summary", "error"}, NEW c,
           c.attempts \in Nat, c.uncertain \in Nat, c.usage \in Nat,
           c.code \in FailureCodes \union {"none"}, NEW t, t = Told(state, c)
    PROVE  /\ t.state = state /\ t.attempts = c.attempts /\ t.uncertain = c.uncertain
           /\ t # NotTold
           /\ t \in ToldRecords
BY ToldNothing DEF Told, ToldRecords

LEMMA GatewayInitHolds == GatewayInit => GatewayInv
<1> SUFFICES ASSUME GatewayInit PROVE GatewayInv
  OBVIOUS
<1>1. /\ asked \in AskedRecords /\ call = Unposted /\ wire = NewWire /\ plan = NotPlanned
      /\ receipt = "none" /\ told = NotTold
      /\ asked.stored # "none" => ReadsCache(asked.workflow)
  BY DEF GatewayInit
<1>2. /\ plan.stage = "none" /\ plan.call = Unposted /\ plan.wire = NewWire
      /\ plan \in PlanRecords
  BY <1>1, NewRecords DEF NotPlanned, PlanRecords
<1>3. GatewayTypeOK
  BY <1>1, <1>2, NewRecords, ToldNothing DEF GatewayTypeOK
<1>4. CallAgrees
  BY <1>1, NewRecords DEF CallAgrees, Posting, CallTellsWire
<1>5. PostsHaveReason /\ AnswersHold
  BY <1>1, NewRecords DEF PostsHaveReason, AnswersHold
<1>6. InterpretationsAreShort
  BY <1>1, <1>2, NewRecords DEF InterpretationsAreShort
<1>7. PlanHolds
  BY <1>1, <1>2, NewRecords DEF PlanHolds
<1>8. ToldHolds
  BY <1>1, ToldNothing DEF ToldHolds
<1>9. ReceiptHolds
  BY <1>1, NewRecords DEF ReceiptHolds
<1> QED BY <1>3, <1>4, <1>5, <1>6, <1>7, <1>8, <1>9 DEF GatewayInv

\* A call that begins to post.
LEMMA FirstPostKeepsInv ==
    ASSUME GatewayInv, call.stage = "idle", told = NotTold, UNCHANGED <<asked, wire, plan, told>>,
           call' = FirstPost, receipt' \in {"none", "dispatched", "failed", "validated"},
           asked.workflow = "guided" => receipt' = "dispatched"
    PROVE  GatewayInv'
<1>1. wire = NewWire /\ plan.stage = "none" /\ plan = NotPlanned
  BY DEF GatewayInv, CallAgrees, PlanHolds
<1>2. plan.wire = NewWire /\ plan.call = Unposted
  BY <1>1 DEF NotPlanned
<1>3. GatewayTypeOK'
  BY NewRecords DEF GatewayInv, GatewayTypeOK
<1>4. CallAgrees'
  BY <1>1, NewRecords DEF CallAgrees, Posting, CallTellsWire
<1>5. PostsHaveReason' /\ AnswersHold'
  BY <1>1, NewRecords DEF PostsHaveReason, AnswersHold
<1>6. InterpretationsAreShort'
  BY <1>2, NewRecords DEF InterpretationsAreShort
<1>7. PlanHolds'
  BY <1>1, <1>2, NewRecords DEF PlanHolds
<1>8. ToldHolds'
  BY ToldNothing DEF ToldHolds
<1>9. ReceiptHolds'
  BY DEF ReceiptHolds
<1> QED BY <1>3, <1>4, <1>5, <1>6, <1>7, <1>8, <1>9 DEF GatewayInv

LEMMA DispatchKeepsInv ==
    ASSUME GatewayInv, NEW recorded \in BOOLEAN, DispatchGuided(recorded)
    PROVE  GatewayInv'
<1>1. /\ asked.workflow = "guided" /\ call.stage = "idle" /\ told = NotTold
      /\ UNCHANGED <<asked, wire, plan>>
  BY DEF DispatchGuided
<1>2. CASE recorded
  BY <1>2, <1>1, FirstPostKeepsInv DEF DispatchGuided
<1>3. CASE ~recorded
  <2>1. told' = [NotTold EXCEPT !.state = "error"] /\ receipt' = receipt /\ call' = call
    BY <1>3 DEF DispatchGuided
  <2>2. /\ told'.state = "error"
        /\ told' \in ToldRecords
    BY <2>1 DEF NotTold, ToldRecords
  <2>3. GatewayTypeOK'
    BY <1>1, <2>1, <2>2 DEF GatewayInv, GatewayTypeOK
  <2>4. CallAgrees'
    BY <1>1, <2>1 DEF GatewayInv, CallAgrees, Posting, CallTellsWire
  <2>5. PostsHaveReason' /\ AnswersHold'
    BY <1>1, <2>1 DEF GatewayInv, PostsHaveReason, AnswersHold, planning
  <2>6. InterpretationsAreShort' /\ PlanHolds'
    BY <1>1, <2>1 DEF GatewayInv, InterpretationsAreShort, PlanHolds
  <2>7. ToldHolds'
    BY <1>1, <2>1, <2>2 DEF ToldHolds
  <2>8. ReceiptHolds'
    BY <1>1, <2>1 DEF GatewayInv, ReceiptHolds
  <2> QED BY <2>3, <2>4, <2>5, <2>6, <2>7, <2>8 DEF GatewayInv
<1> QED BY <1>2, <1>3

LEMMA BeginKeepsInv ==
    ASSUME GatewayInv, Begin
    PROVE  GatewayInv'
<1>1. /\ asked.workflow # "guided" /\ call.stage = "idle" /\ told = NotTold
      /\ UNCHANGED <<asked, wire, plan, receipt, told>>
  BY DEF Begin
<1>2. CASE asked.stored = "none"
  BY <1>2, <1>1, FirstPostKeepsInv DEF Begin, GatewayInv, GatewayTypeOK
<1>3. CASE asked.stored # "none"
  <2>1. call' = [Unposted EXCEPT !.stage = "answered", !.hit = TRUE, !.data = asked.stored]
    BY <1>3 DEF Begin
  <2>2. asked.stored \in Storable /\ asked.stored \in Texts /\ ReadsCache(asked.workflow)
    BY <1>1, <1>3 DEF GatewayInv, GatewayTypeOK, AskedRecords, AnswersHold, Storable, Texts
  <2>3. call' = [stage |-> "answered", attempt |-> 0, lost |-> 0, attempts |-> 0, uncertain |-> 0,
                 usage |-> 0, code |-> "none", http |-> FALSE, repairUsed |-> FALSE,
                 hit |-> TRUE, data |-> asked.stored]
    BY <2>1 DEF Unposted
  <2>4. 0 \in 0 .. PolicyAttempts /\ "answered" \in GatewayStages
    BY GatewayCallsAssumption DEF GatewayStages
  <2>5. call' \in CallRecords
    BY <2>2, <2>3, <2>4 DEF CallRecords
  <2>6. GatewayTypeOK'
    BY <1>1, <2>5 DEF GatewayInv, GatewayTypeOK
  <2>7. wire = NewWire /\ plan = NotPlanned /\ plan.stage = "none"
    BY <1>1 DEF GatewayInv, CallAgrees, PlanHolds
  <2>8. CallAgrees'
    BY <1>1, <2>3, <2>7, NewRecords DEF CallAgrees, Posting, CallTellsWire
  <2>9. PostsHaveReason'
    BY <2>3 DEF PostsHaveReason
  <2>10. asked.workflow # "question" /\ ~Interpreting(asked.workflow)
    BY <2>2 DEF ReadsCache, Interpreting
  <2>11. AnswersHold'
    BY <1>1, <2>2, <2>3, <2>10 DEF AnswersHold, planning
  <2>12. InterpretationsAreShort'
    BY <1>1, <2>10 DEF InterpretationsAreShort
  <2>13. PlanHolds'
    BY <1>1, <2>7, NewRecords DEF PlanHolds, NotPlanned
  <2>14. ToldHolds'
    BY <1>1, ToldNothing DEF ToldHolds
  <2>15. ReceiptHolds'
    BY <1>1 DEF ReceiptHolds
  <2> QED BY <2>6, <2>8, <2>9, <2>11, <2>12, <2>13, <2>14, <2>15 DEF GatewayInv
<1> QED BY <1>2, <1>3

LEMMA ConcludeKeepsInv ==
    ASSUME GatewayInv, Conclude
    PROVE  GatewayInv'
<1>1. call.stage = "concluding" /\ UNCHANGED <<asked, wire, plan, receipt, told>>
  BY DEF Conclude
<1>2. call \in CallRecords
  BY DEF GatewayInv, GatewayTypeOK
<1> DEFINE Fields == {"stage", "attempt", "lost", "attempts", "uncertain", "usage", "code", "http",
                      "repairUsed", "hit", "data"}
<1>3. call = [f \in Fields |-> call[f]]
  BY <1>2 DEF CallRecords
<1>4. \/ /\ asked.workflow = "belief"
         /\ call' = [call EXCEPT !.stage = "answered", !.data = "rule"]
      \/ call' = [call EXCEPT !.stage = "raised"]
  BY DEF Conclude, AllowsFallback
<1>5. /\ call'.attempt = call.attempt /\ call'.lost = call.lost /\ call'.attempts = call.attempts
      /\ call'.uncertain = call.uncertain /\ call'.usage = call.usage /\ call'.code = call.code
      /\ call'.http = call.http /\ call'.repairUsed = call.repairUsed /\ call'.hit = call.hit
      /\ \/ call'.stage = "answered" /\ call'.data = "rule" /\ asked.workflow = "belief"
         \/ call'.stage = "raised" /\ call'.data = call.data
      /\ call' = [f \in Fields |-> call'[f]]
  BY <1>3, <1>4
<1>6. call'.stage \in GatewayStages /\ call'.data \in Texts \union {"none", "rule"}
  BY <1>2, <1>5 DEF GatewayStages, CallRecords
<1>7. call' \in CallRecords
  BY <1>2, <1>5, <1>6 DEF CallRecords
<1>8. GatewayTypeOK'
  BY <1>1, <1>7 DEF GatewayInv, GatewayTypeOK
<1>9. CallAgrees'
  BY <1>1, <1>5 DEF GatewayInv, CallAgrees, Posting, CallTellsWire
<1>10. PostsHaveReason'
  BY <1>5 DEF PostsHaveReason
<1>11. AnswersHold'
  BY <1>1, <1>5 DEF GatewayInv, AnswersHold, planning
<1>12. InterpretationsAreShort'
  BY <1>1, <1>5 DEF GatewayInv, InterpretationsAreShort
<1>13. PlanHolds'
  BY <1>1, <1>5 DEF GatewayInv, PlanHolds
<1>14. told = NotTold
  BY <1>1 DEF GatewayInv, ToldHolds
<1>15. ToldHolds'
  BY <1>1, <1>14, ToldNothing DEF ToldHolds
<1>16. ReceiptHolds'
  BY <1>1 DEF GatewayInv, ReceiptHolds
<1> QED BY <1>8, <1>9, <1>10, <1>11, <1>12, <1>13, <1>15, <1>16 DEF GatewayInv

\* The error of a call: what a post told, or what a check of _execute found.
LEMMA ErrorCalls ==
    ASSUME NEW c \in CallRecords, c.stage \in {"answered", "raised"}, ~Succeeded(c),
           NEW e, e = AsError(c)
    PROVE  /\ e \in CallRecords /\ e.stage = "raised"
           /\ e.attempts \in {c.attempts, 0} /\ e.uncertain \in {c.uncertain, 0}
           /\ c.stage = "raised" => e.attempts = c.attempts /\ e.uncertain = c.uncertain
<1> DEFINE Fields == {"stage", "attempt", "lost", "attempts", "uncertain", "usage", "code", "http",
                      "repairUsed", "hit", "data"}
<1>1. CASE c.stage = "raised"
  BY <1>1 DEF AsError, CallRecords
<1>2. CASE c.stage = "answered"
  <2> DEFINE code == ExecuteRefuses(c)
  <2>1. code # Fine
    BY <1>2 DEF Succeeded
  <2>2. code \in {"PROMPT_DISCLOSURE_BLOCKED", "RESPONSE_INVALID", Fine}
    BY DEF ExecuteRefuses
  <2>3. code \in FailureCodes \union {"none"}
    BY <2>1, <2>2 DEF FailureCodes
  <2>4. e = [Unposted EXCEPT !.stage = "raised", !.code = code]
    BY <1>2 DEF AsError
  <2> HIDE DEF code
  <2>5. Unposted = [f \in Fields |-> Unposted[f]]
    BY DEF Unposted
  <2>6. /\ e.stage = "raised" /\ e.attempt = Unposted.attempt /\ e.lost = Unposted.lost
        /\ e.attempts = Unposted.attempts
        /\ e.uncertain = Unposted.uncertain /\ e.usage = Unposted.usage /\ e.code = code
        /\ e.http = Unposted.http /\ e.repairUsed = Unposted.repairUsed /\ e.hit = Unposted.hit
        /\ e.data = Unposted.data /\ e = [f \in Fields |-> e[f]]
    BY <2>4, <2>5
  <2>7. "raised" \in GatewayStages
    BY DEF GatewayStages
  <2>8. e \in CallRecords
    BY <2>3, <2>6, <2>7, NewRecords DEF CallRecords
  <2> QED BY <1>2, <2>6, <2>8, NewRecords
<1> QED BY <1>1, <1>2

\* A workflow tells what became of its call.
LEMMA TellingKeepsInv ==
    ASSUME GatewayInv, Ended, UNCHANGED <<asked, call, wire, plan>>,
           told' \in ToldRecords, told'.state # "none",
           told'.state = "answer" => Succeeded(call) /\ call.data # "rule",
           told'.state = "rule" => call.stage = "answered" /\ call.data = "rule",
           told'.state \in {"answer", "summary"} =>
              /\ told'.attempts <= plan.wire.sent + wire.sent
              /\ told'.uncertain <= plan.wire.unknown + wire.unknown
              /\ ~(plan.stage = "raised" /\ ~Succeeded(call)) /\ (call.stage = "answered" => Succeeded(call))
                    => /\ told'.attempts = plan.wire.sent + wire.sent
                       /\ told'.uncertain = plan.wire.unknown + wire.unknown,
           receipt' \in {"none", "dispatched", "failed", "validated"},
           asked.workflow = "guided" =>
              /\ receipt' # "none"
              /\ receipt' = "validated" => wire.last = "answered"
    PROVE  GatewayInv'
<1>1. call.stage \in {"answered", "raised"} /\ told' # NotTold
  BY ToldNothing DEF Ended
<1>2. GatewayTypeOK'
  BY DEF GatewayInv, GatewayTypeOK
<1>3. CallAgrees'
  BY DEF GatewayInv, CallAgrees, Posting, CallTellsWire
<1>4. PostsHaveReason' /\ AnswersHold'
  BY DEF GatewayInv, PostsHaveReason, AnswersHold, planning
<1>5. InterpretationsAreShort' /\ PlanHolds'
  BY DEF GatewayInv, InterpretationsAreShort, PlanHolds
<1>6. ToldHolds'
  BY <1>1 DEF ToldHolds
<1>7. ReceiptHolds'
  BY <1>1 DEF ReceiptHolds
<1> QED BY <1>2, <1>3, <1>4, <1>5, <1>6, <1>7 DEF GatewayInv

\* The numbers of the call and of the plan when the call has ended.
LEMMA EndedFacts ==
    ASSUME GatewayInv, Ended
    PROVE  /\ call \in CallRecords /\ call.stage \in {"answered", "raised"} /\ told = NotTold
           /\ call.attempts = wire.sent /\ call.uncertain = wire.unknown
           /\ wire.sent \in Nat /\ wire.unknown \in Nat
           /\ plan.call \in CallRecords /\ plan.stage \in {"none", "answered", "raised"}
           /\ plan.call.attempts = plan.wire.sent /\ plan.call.uncertain = plan.wire.unknown
           /\ plan.wire.sent \in Nat /\ plan.wire.unknown \in Nat
           /\ plan.stage = "none" => plan.wire.sent = 0 /\ plan.wire.unknown = 0
           /\ plan.stage # "none" => asked.workflow = "question"
BY NewRecords DEF Ended, GatewayInv, GatewayTypeOK, CallAgrees, CallTellsWire, PlanRecords,
   WireRecords, PlanHolds, NotPlanned

LEMMA TellSingleKeepsInv ==
    ASSUME GatewayInv, TellSingle
    PROVE  GatewayInv'
<1> DEFINE e == Executed(call)
           state == IF e.stage = "raised" THEN "error" ELSE IF e.data = "rule" THEN "rule" ELSE "answer"
<1>1. /\ Ended /\ asked.workflow \in {"connection", "extraction", "belief"}
      /\ told' = Told(state, e) /\ UNCHANGED <<asked, call, wire, plan, receipt>>
  BY DEF TellSingle
<1>2. /\ e \in CallRecords /\ (Succeeded(call) => e = call /\ e.stage = "answered")
      /\ (~Succeeded(call) => e.stage = "raised")
  BY <1>1, EndedFacts, ErrorCalls DEF Executed, Succeeded
<1> HIDE DEF e
<1>3. /\ e.attempts \in Nat /\ e.uncertain \in Nat /\ e.usage \in Nat
      /\ e.code \in FailureCodes \union {"none"}
  BY <1>2 DEF CallRecords
<1>4. state \in {"answer", "rule", "summary", "error"}
  OBVIOUS
<1>5. /\ state \in {"answer", "rule"} => Succeeded(call) /\ e = call
      /\ state = "answer" => call.data # "rule"
      /\ state = "rule" => call.data = "rule"
      /\ state # "summary"
  BY <1>2
<1> HIDE DEF state
<1>6. /\ told'.state = state /\ told'.attempts = e.attempts /\ told'.uncertain = e.uncertain
      /\ told' \in ToldRecords
  BY <1>1, <1>3, <1>4, ToldFields
<1>7. plan.stage = "none"
  BY <1>1, EndedFacts
<1>8. told'.state = "rule" => call.stage = "answered" /\ call.data = "rule"
  BY <1>5, <1>6 DEF Succeeded
<1>9. told'.state \in {"answer", "summary"} =>
         /\ told'.attempts = plan.wire.sent + wire.sent
         /\ told'.uncertain = plan.wire.unknown + wire.unknown
  BY <1>1, <1>5, <1>6, <1>7, EndedFacts
<1>10. told'.state \in {"answer", "summary"} =>
         /\ told'.attempts <= plan.wire.sent + wire.sent
         /\ told'.uncertain <= plan.wire.unknown + wire.unknown
  BY <1>9, <1>1, EndedFacts
<1>11. receipt' \in {"none", "dispatched", "failed", "validated"} /\ asked.workflow # "guided"
  BY <1>1 DEF GatewayInv, GatewayTypeOK
<1> QED BY <1>1, <1>4, <1>5, <1>6, <1>8, <1>9, <1>10, <1>11, TellingKeepsInv

LEMMA TellGuidedKeepsInv ==
    ASSUME GatewayInv, NEW recorded \in BOOLEAN, TellGuided(recorded)
    PROVE  GatewayInv'
<1> DEFINE e == Executed(call)
<1>1. /\ Ended /\ asked.workflow = "guided" /\ UNCHANGED <<asked, call, wire, plan>>
      /\ e.stage = "raised" => /\ receipt' = IF recorded THEN "failed" ELSE receipt
                               /\ told' = Told("error", e)
      /\ e.stage # "raised" => /\ receipt' = IF recorded THEN "validated" ELSE receipt
                               /\ told' = IF recorded THEN Told("answer", e)
                                          ELSE [NotTold EXCEPT !.state = "error"]
  BY DEF TellGuided
<1>2. /\ e \in CallRecords /\ (Succeeded(call) => e = call /\ e.stage = "answered")
      /\ (~Succeeded(call) => e.stage = "raised")
  BY <1>1, EndedFacts, ErrorCalls DEF Executed, Succeeded
<1> HIDE DEF e
<1>3. /\ e.attempts \in Nat /\ e.uncertain \in Nat /\ e.usage \in Nat
      /\ e.code \in FailureCodes \union {"none"}
  BY <1>2 DEF CallRecords
<1>4. /\ receipt \in {"none", "dispatched", "failed", "validated"} /\ receipt \notin {"none", "validated"}
  BY <1>1, EndedFacts DEF GatewayInv, GatewayTypeOK, ReceiptHolds
<1>5. receipt' \in {"none", "dispatched", "failed", "validated"} /\ receipt' # "none"
  BY <1>1, <1>4
<1>6. plan.stage = "none"
  BY <1>1, EndedFacts
<1>7. Succeeded(call) => call.data # "rule" /\ wire.last = "answered"
  BY <1>1 DEF Succeeded, Storable, ReadsCache, GatewayInv, AnswersHold
<1>8. \/ /\ Succeeded(call) /\ told' = Told("answer", e)
      \/ /\ receipt' # "validated"
         /\ told' \in {Told("error", e), [NotTold EXCEPT !.state = "error"]}
  BY <1>1, <1>2, <1>4
<1>9. CASE Succeeded(call) /\ told' = Told("answer", e)
  BY <1>3, <1>9, ToldFields, <1>1, <1>2, <1>6, EndedFacts, <1>5, <1>7, TellingKeepsInv
<1>10. CASE receipt' # "validated" /\ told' \in {Told("error", e), [NotTold EXCEPT !.state = "error"]}
  BY <1>3, ToldFields, <1>10, <1>1, <1>5, TellingKeepsInv DEF NotTold, ToldRecords
<1> QED BY <1>8, <1>9, <1>10

LEMMA PlanEndsKeepsInv ==
    ASSUME GatewayInv, PlanEnds
    PROVE  GatewayInv'
<1> DEFINE e == Executed(call)
<1>1. /\ Ended /\ asked.workflow = "question" /\ plan.stage = "none"
      /\ plan' = [stage |-> e.stage, call |-> e, wire |-> wire]
      /\ call' = FirstPost /\ wire' = NewWire /\ UNCHANGED <<asked, receipt, told>>
  BY DEF PlanEnds, planning
<1>2. call.stage = "answered" => Succeeded(call)
  BY <1>1 DEF GatewayInv, AnswersHold, planning, Succeeded, ExecuteRefuses
<1>3. /\ e \in CallRecords /\ e.stage \in {"answered", "raised"}
      /\ e.attempts = call.attempts /\ e.uncertain = call.uncertain
  BY <1>1, <1>2, EndedFacts, ErrorCalls DEF Executed
<1> HIDE DEF e
<1>4. plan'.stage \in {"answered", "raised"} /\ plan'.call = e /\ plan'.wire = wire
  BY <1>1, <1>3
<1>5. wire \in WireRecords
  BY DEF GatewayInv, GatewayTypeOK
<1>6. plan' \in PlanRecords
  BY <1>1, <1>3, <1>5 DEF PlanRecords
<1>7. GatewayTypeOK'
  BY <1>1, <1>6, NewRecords DEF GatewayInv, GatewayTypeOK
<1>8. CallAgrees'
  BY <1>1, NewRecords DEF CallAgrees, Posting, CallTellsWire
<1>9. PostsHaveReason' /\ AnswersHold'
  BY <1>1, NewRecords DEF PostsHaveReason, AnswersHold
<1>10. InterpretationsAreShort'
  BY <1>1, EndedFacts, <1>4, NewRecords DEF GatewayInv, InterpretationsAreShort, Interpreting
<1>11. PlanHolds'
  BY <1>1, <1>3, <1>4, EndedFacts, NewRecords DEF PlanHolds
<1>12. told = NotTold
  BY <1>1, EndedFacts
<1>13. ToldHolds'
  BY <1>1, <1>12, ToldNothing DEF ToldHolds
<1>14. ReceiptHolds'
  BY <1>1 DEF ReceiptHolds
<1> QED BY <1>7, <1>8, <1>9, <1>10, <1>11, <1>13, <1>14 DEF GatewayInv

\* Two calls together.
LEMMA PlusFields ==
    ASSUME NEW c \in CallRecords, NEW d \in CallRecords, NEW e, e = Plus(c, d)
    PROVE  /\ e.attempts = c.attempts + d.attempts /\ e.uncertain = c.uncertain + d.uncertain
           /\ e.attempts \in Nat /\ e.uncertain \in Nat /\ e.usage \in Nat
           /\ e.code \in FailureCodes \union {"none"}
BY CallNumbers DEF CallRecords, Plus

LEMMA TellInterpretationKeepsInv ==
    ASSUME GatewayInv, TellInterpretation
    PROVE  GatewayInv'
<1> DEFINE e == Plus(call, plan.call)
<1>1. /\ Ended /\ Interpreting(asked.workflow) /\ Succeeded(call) /\ told' = Told("answer", e)
      /\ UNCHANGED <<asked, call, wire, plan, receipt>>
  BY DEF TellInterpretation
<1>2. /\ e.attempts = call.attempts + plan.call.attempts
      /\ e.uncertain = call.uncertain + plan.call.uncertain
      /\ e.attempts \in Nat /\ e.uncertain \in Nat /\ e.usage \in Nat
      /\ e.code \in FailureCodes \union {"none"}
  BY <1>1, EndedFacts, PlusFields
<1> HIDE DEF e
<1>3. /\ told'.state = "answer" /\ told'.attempts = e.attempts /\ told'.uncertain = e.uncertain
      /\ told' \in ToldRecords
  BY <1>1, <1>2, ToldFields
<1>4. /\ told'.attempts = plan.wire.sent + wire.sent
      /\ told'.uncertain = plan.wire.unknown + wire.unknown
      /\ told'.attempts <= plan.wire.sent + wire.sent
      /\ told'.uncertain <= plan.wire.unknown + wire.unknown
  BY <1>1, <1>2, <1>3, EndedFacts
<1>5. asked.workflow \notin {"belief", "guided"}
  BY <1>1 DEF Interpreting
<1>6. call.data # "rule"
  BY <1>1, <1>5 DEF Succeeded, GatewayInv, AnswersHold, Storable
<1>7. receipt' \in {"none", "dispatched", "failed", "validated"}
  BY <1>1 DEF GatewayInv, GatewayTypeOK
<1> QED BY <1>1, <1>3, <1>4, <1>5, <1>6, <1>7, TellingKeepsInv

LEMMA TellSummaryKeepsInv ==
    ASSUME GatewayInv, TellSummary
    PROVE  GatewayInv'
<1> DEFINE a == AsError(call)
           e == IF plan.stage = "answered" THEN Plus(a, plan.call) ELSE a
<1>1. /\ Ended /\ Interpreting(asked.workflow) /\ ~Succeeded(call) /\ told' = Told("summary", e)
      /\ UNCHANGED <<asked, call, wire, plan, receipt>>
  BY DEF TellSummary
<1>2. /\ a \in CallRecords
      /\ a.attempts \in {call.attempts, 0} /\ a.uncertain \in {call.uncertain, 0}
      /\ call.stage = "raised" => a.attempts = call.attempts /\ a.uncertain = call.uncertain
  BY <1>1, EndedFacts, ErrorCalls
<1> HIDE DEF a
<1>3. /\ e.attempts = a.attempts + (IF plan.stage = "answered" THEN plan.call.attempts ELSE 0)
      /\ e.uncertain = a.uncertain + (IF plan.stage = "answered" THEN plan.call.uncertain ELSE 0)
      /\ e.attempts \in Nat /\ e.uncertain \in Nat /\ e.usage \in Nat
      /\ e.code \in FailureCodes \union {"none"}
  <2>1. CASE plan.stage = "answered"
    BY <1>1, <1>2, <2>1, EndedFacts, PlusFields
  <2>2. CASE plan.stage # "answered"
    BY <1>2, CallNumbers, <2>2 DEF CallRecords
  <2> QED BY <2>1, <2>2
<1> HIDE DEF e
<1>4. /\ told'.state = "summary" /\ told'.attempts = e.attempts /\ told'.uncertain = e.uncertain
      /\ told' \in ToldRecords
  BY <1>1, <1>3, ToldFields
<1>5. /\ told'.attempts <= plan.wire.sent + wire.sent
      /\ told'.uncertain <= plan.wire.unknown + wire.unknown
  BY <1>1, <1>2, <1>3, <1>4, EndedFacts
<1>6. ~(plan.stage = "raised" /\ ~Succeeded(call)) /\ (call.stage = "answered" => Succeeded(call))
         => /\ told'.attempts = plan.wire.sent + wire.sent
            /\ told'.uncertain = plan.wire.unknown + wire.unknown
  BY <1>1, EndedFacts, <1>2, <1>3, <1>4
<1>7. asked.workflow # "guided"
  BY <1>1 DEF Interpreting
<1>8. receipt' \in {"none", "dispatched", "failed", "validated"}
  BY <1>1 DEF GatewayInv, GatewayTypeOK
<1> QED BY <1>1, <1>4, <1>5, <1>6, <1>7, <1>8, TellingKeepsInv

LEMMA GatewayStutters == GatewayInv /\ UNCHANGED gatewayVars => GatewayInv'
<1> SUFFICES ASSUME GatewayInv, UNCHANGED gatewayVars PROVE GatewayInv'
  OBVIOUS
<1> USE DEF GatewayInv, gatewayVars
<1>1. GatewayTypeOK'
  BY DEF GatewayTypeOK
<1>2. CallAgrees' /\ PostsHaveReason'
  BY DEF CallAgrees, Posting, CallTellsWire, PostsHaveReason
<1>3. AnswersHold' /\ InterpretationsAreShort' /\ PlanHolds'
  BY DEF AnswersHold, planning, InterpretationsAreShort, PlanHolds
<1>4. ToldHolds'
  BY DEF ToldHolds
<1>5. ReceiptHolds'
  BY DEF ReceiptHolds
<1> QED BY <1>1, <1>2, <1>3, <1>4, <1>5

LEMMA GatewayStepKeepsInv == GatewayInv /\ [GatewayNext]_gatewayVars => GatewayInv'
<1> SUFFICES ASSUME GatewayInv, [GatewayNext]_gatewayVars PROVE GatewayInv'
  OBVIOUS
<1>1. CASE UNCHANGED gatewayVars
  BY <1>1, GatewayStutters
<1>2. CASE GatewayNext
  <2>1. CASE \E recorded \in BOOLEAN : DispatchGuided(recorded) \/ TellGuided(recorded)
    BY <2>1, DispatchKeepsInv, TellGuidedKeepsInv
  <2>2. CASE Begin
    BY <2>2, BeginKeepsInv
  <2>3. CASE \E code \in {"TIMEOUT", "TRANSPORT_ERROR"} : PostLost(code)
    BY <2>3, PostLostKeepsInv
  <2>4. CASE \E status \in ErrorStatuses : \E code \in ProviderCodes : PostRefused(status, code)
    BY <2>4, PostRefusedKeepsInv
  <2>5. CASE \E status \in ErrorStatuses \cup {200} : PostUndecodable(status)
    BY <2>5, PostUndecodableKeepsInv
  <2>6. CASE \E answer \in ProviderAnswers : PostAnswered(answer)
    BY <2>6, PostAnsweredKeepsInv
  <2>7. CASE Conclude
    BY <2>7, ConcludeKeepsInv
  <2>8. CASE TellSingle
    BY <2>8, TellSingleKeepsInv
  <2>9. CASE PlanEnds \/ TellInterpretation \/ TellSummary
    BY <2>9, PlanEndsKeepsInv, TellInterpretationKeepsInv, TellSummaryKeepsInv
  <2> QED BY <1>2, <2>1, <2>2, <2>3, <2>4, <2>5, <2>6, <2>7, <2>8, <2>9 DEF GatewayNext
<1> QED BY <1>1, <1>2

\* What a state of the invariant tells is true.
LEMMA GatewayTells == GatewayInv => CallTellsWire /\ AnswersAreTold /\ ReceiptsAreTrue
<1> SUFFICES ASSUME GatewayInv PROVE CallTellsWire /\ AnswersAreTold /\ ReceiptsAreTrue
  OBVIOUS
<1>1. CallTellsWire
  BY DEF GatewayInv, CallAgrees
<1>2. /\ call.attempt \in Nat /\ call.attempts \in Nat /\ wire.sent \in Nat
      /\ plan.wire.sent \in Nat /\ call.stage \in GatewayStages
  BY CallNumbers DEF GatewayInv, GatewayTypeOK, PlanRecords, CallRecords, WireRecords
<1>3. told.state = "answer" => call.data = "good" /\ (call.hit \/ wire.last = "answered")
  BY DEF GatewayInv, ToldHolds, Succeeded, ExecuteRefuses, Fine, AnswersHold, Storable
<1>4. told.state = "rule" => asked.workflow = "belief" /\ call.code # "none"
  BY DEF GatewayInv, ToldHolds, AnswersHold, Storable
<1>5. Interpreting(asked.workflow) => plan.wire.sent + wire.sent <= 4
  BY <1>2, NewRecords, <1>1 DEF GatewayInv, InterpretationsAreShort, CallAgrees, Posting,
     CallTellsWire, GatewayStages
<1>6. AnswersAreTold
  BY <1>3, <1>4, <1>5 DEF AnswersAreTold, GatewayInv, ToldHolds
<1>7. ReceiptsAreTrue
  BY NewRecords DEF GatewayInv, CallAgrees, ReceiptsAreTrue, ReceiptHolds
<1> QED BY <1>1, <1>6, <1>7

\* Only a post sends, and it has a reason.
LEMMA PostsForAReason == GatewayInv /\ GatewayNext /\ GatewayInv' => SentForAReason
<1> SUFFICES ASSUME GatewayInv, GatewayNext, GatewayInv', wire'.sent > wire.sent
             PROVE  wire.last \in {"none", "again", "mendable"} /\ wire'.mended <= 1
  BY DEF SentForAReason
<1>1. wire \in WireRecords /\ wire' \in WireRecords
  BY DEF GatewayInv, GatewayTypeOK
<1>2. wire.sent \in Nat /\ wire'.mended <= 1
  BY <1>1 DEF WireRecords
<1>3. wire' # wire
  BY <1>2
<1>4. wire' # NewWire
  BY <1>2, NewRecords
<1>5. Posting
  BY <1>3, <1>4 DEF GatewayNext, DispatchGuided, TellGuided, Begin, PostLost, PostRefused,
        PostUndecodable, PostAnswered, Conclude, TellSingle, PlanEnds, TellInterpretation, TellSummary
<1>6. wire.last \in {"none", "again", "mendable"}
  BY <1>5 DEF Posting, GatewayInv, PostsHaveReason
<1> QED BY <1>2, <1>6

LEMMA GatewayInvHolds == GatewaySpec => []GatewayInv
BY GatewayInitHolds, GatewayStepKeepsInv, PTL DEF GatewaySpec

\* Every variable of a model request has its type (generateStructured, _postWithRetry).
THEOREM GatewayTypes == GatewaySpec => []GatewayTypeOK
<1>1. GatewayInv => GatewayTypeOK
  BY DEF GatewayInv
<1> QED BY <1>1, GatewayInvHolds, PTL

\* Whatever a provider answers, in whichever dialect and through any retries: the requests,
\* unknown bills and tokens that are told are those of the wire, an answer given out was valid
\* and paid for, and a request is sent only where the last one gave a reason.
THEOREM GatewayTellsTrue == GatewaySpec => GatewaySound
<1>1. GatewayInv /\ GatewayInv' /\ [GatewayNext]_gatewayVars => [GatewayStep]_gatewayVars
  <2> SUFFICES ASSUME GatewayInv, GatewayInv', GatewayNext PROVE GatewayStep
    OBVIOUS
  <2>1. (GatewayInv => CallTellsWire /\ AnswersAreTold /\ ReceiptsAreTrue)'
    BY GatewayTells, PTL
  <2>2. SentForAReason
    BY PostsForAReason
  <2> QED BY <2>1, <2>2 DEF GatewayStep
<1> QED BY <1>1, GatewayInvHolds, PTL DEF GatewaySpec, GatewaySound


-----------------------------------------------------------------------------
(* The prepared path.  Keys are tried in their order, and one is left for   *)
(* the next when nothing can come of it any more: so behind a key that can  *)
(* be used there is no other, and before it none.                           *)

RowAt(k) == prepared[k].status

WorkersStand ==
    /\ \A w, v \in workers : w[2] = v[2] => w = v
    /\ \A w \in workers : RowAt(w[2]) \in Running

KeysInOrder ==
    /\ \A k \in RowKeys : RowAt(k) # "absent" => \A j \in 1..(k - 1) : RowAt(j) \in Unusable
    /\ \A j \in 1..(command.key - 1) : RowAt(j) \in Unusable
    /\ command.pc \in {"interpret", "answer", "grant"} =>
          RowAt(command.key) \in {"COMPLETED", "INVALIDATED"}

\* The inductive invariant of the prepared path; what it says of workers and keys it says
\* until a start has declared a live run dead.
PathInv ==
    /\ PreparedTypeOK
    /\ command.pc \in {"start", "polling", "interpret", "answer", "grant"} => command.key \in RowKeys
    /\ command.pc = "grant" => exchanges[command.key] # "none"
    /\ GrantedIsInterpreted
    /\ ~misjudged => WorkersStand /\ KeysInOrder

LEMMA OneWorker == PathInv => OneWorkerPerRow
<1> SUFFICES ASSUME PathInv, ~misjudged, NEW k \in RowKeys
             PROVE  /\ Cardinality({w \in workers : w[2] = k}) <= 1
                    /\ {w \in workers : w[2] = k} # {} => prepared[k].status \in Running
  BY DEF OneWorkerPerRow
<1> DEFINE W == {w \in workers : w[2] = k}
<1>1. WorkersStand
  BY DEF PathInv
<1>2. W # {} => prepared[k].status \in Running
  BY <1>1 DEF WorkersStand, RowAt
<1>3. CASE W = {}
  BY <1>2, <1>3, FS_EmptySet
<1>4. CASE W # {}
  <2>1. PICK v : v \in W
    BY <1>4
  <2>2. W = {v}
    BY <1>1, <2>1 DEF WorkersStand
  <2>3. Cardinality({v}) = 1
    BY FS_Singleton
  <2> QED BY <1>2, <2>2, <2>3
<1> QED BY <1>3, <1>4

\* The rows after a start of a process.
LEMMA AfterInitialize ==
    ASSUME PreparedTypeOK, NEW k \in RowKeys, prepared' = Initialized
    PROVE  /\ prepared' \in [RowKeys -> [status : RowStatuses, of : Routes \union {NoRoute}]]
           /\ RowAt(k) \notin Running => RowAt(k)' = RowAt(k)
           /\ RowAt(k)' # "absent" => RowAt(k) # "absent"
BY DEF PreparedTypeOK, RowStatuses, Initialized, RowAt, Running

\* What a start of a process keeps, whatever the command does next.
LEMMA StartsKeep ==
    ASSUME PathInv, NEW survivors \in SUBSET workers, Initialize(survivors)
    PROVE  /\ prepared' \in [RowKeys -> [status : RowStatuses, of : Routes \union {NoRoute}]]
           /\ workers' \subseteq (0 .. MaxCommands) \X RowKeys /\ misjudged' \in BOOLEAN
           /\ ~misjudged' =>
                 /\ ~misjudged /\ WorkersStand'
                 /\ \A k \in RowKeys : RowAt(k)' # "absent" =>
                        \A j \in 1..(k - 1) : RowAt(j)' \in Unusable
                 /\ \A k \in RowKeys : RowAt(k) \in Unusable \cup {"COMPLETED", "INVALIDATED"}
                        => RowAt(k)' = RowAt(k)
<1>1. PreparedTypeOK
  BY DEF PathInv
<1>2. RowKeys # {}
  BY PreparedAssumption DEF RowKeys
<1>3. prepared' \in [RowKeys -> [status : RowStatuses, of : Routes \union {NoRoute}]]
  BY <1>1, <1>2, AfterInitialize DEF Initialize
<1>4. workers' \subseteq (0 .. MaxCommands) \X RowKeys /\ misjudged' \in BOOLEAN
  BY <1>1 DEF PreparedTypeOK, Initialize
<1>5. ASSUME ~misjudged'
      PROVE  ~misjudged /\ WorkersStand'
  BY <1>5 DEF Initialize, WorkersStand
<1>6. ASSUME ~misjudged', NEW k \in RowKeys, RowAt(k) \in Unusable \cup {"COMPLETED", "INVALIDATED"}
      PROVE  RowAt(k)' = RowAt(k)
  BY <1>1, <1>6, AfterInitialize DEF Initialize, Unusable, Running
<1>7. ASSUME ~misjudged', NEW k \in RowKeys, RowAt(k)' # "absent", NEW j \in 1..(k - 1)
      PROVE  RowAt(j)' \in Unusable
  BY <1>1, <1>7, AfterInitialize, PreparedAssumption, <1>5, <1>6 DEF Initialize, RowKeys, PathInv,
     KeysInOrder
<1> QED BY <1>3, <1>4, <1>5, <1>6, <1>7

\* Beside a key that can still be used nothing is complete.
LEMMA NothingElse ==
    ASSUME PathInv, ~misjudged, NEW k \in RowKeys, RowAt(k) \notin Unusable \cup {"absent"},
           NEW j \in RowKeys, j # k
    PROVE  RowAt(j) # "COMPLETED"
BY PreparedAssumption DEF PathInv, RowKeys, KeysInOrder, Unusable

\* A step that pays nothing and starts no run of the command spends nothing.
LEMMA NothingSpent ==
    ASSUME paid' = paid, \A w \in workers' \ workers : w[1] # command.id
    PROVE  PreparedOnce
BY DEF PreparedOnce

LEMMA BeginKeeps == PathInv /\ BeginPrepare => PathInv' /\ PreparedOnce
BY NothingSpent, PreparedAssumption, StartsKeep DEF PathInv, BeginPrepare, Initialize, PreparedTypeOK,
   stores, GrantedIsInterpreted, KeysInOrder

LEMMA ResetKeeps == PathInv /\ Reset => PathInv' /\ PreparedOnce
<1> SUFFICES ASSUME PathInv, Reset PROVE PathInv' /\ PreparedOnce
  OBVIOUS
<1>1. PreparedTypeOK /\ Initialize(workers) /\ GrantedIsInterpreted /\ command.pc = "idle"
  BY DEF PathInv, Reset, At
<1>2. PreparedOnce
  BY NothingSpent DEF Reset, Initialize
<1>3. command' = command
  BY DEF Reset
<1>4. PreparedTypeOK'
  BY <1>1, PreparedAssumption, StartsKeep DEF PreparedTypeOK, Reset
<1>5. GrantedIsInterpreted'
  BY <1>1 DEF GrantedIsInterpreted, Reset
<1>6. ~misjudged' => WorkersStand' /\ KeysInOrder'
  BY <1>1, StartsKeep, <1>3, PreparedAssumption DEF PreparedTypeOK, RowKeys, PathInv, KeysInOrder
<1> QED BY <1>1, <1>2, <1>3, <1>4, <1>5, <1>6 DEF PathInv

LEMMA RestartKeeps == PathInv /\ ServerRestarts => PathInv' /\ PreparedOnce
<1> SUFFICES ASSUME PathInv, ServerRestarts PROVE PathInv' /\ PreparedOnce
  OBVIOUS
<1> DEFINE survivors == {w \in workers : w[1] # 0}
<1>1. PreparedTypeOK /\ Initialize(survivors) /\ GrantedIsInterpreted
  BY DEF PathInv, ServerRestarts
<1>2. survivors \in SUBSET workers
  OBVIOUS
<1> HIDE DEF survivors
<1>3. PreparedOnce
  BY <1>2, NothingSpent DEF ServerRestarts, Initialize, survivors
<1>4. command' = command /\ exchanges' = exchanges
  BY DEF ServerRestarts, stores
<1>5. PreparedTypeOK'
  BY <1>1, PreparedAssumption, <1>2, StartsKeep DEF PreparedTypeOK, ServerRestarts, stores
<1>6. GrantedIsInterpreted'
  BY <1>1 DEF GrantedIsInterpreted, ServerRestarts, stores
<1>7. ~misjudged' => WorkersStand' /\ KeysInOrder'
  <2> SUFFICES ASSUME ~misjudged' PROVE WorkersStand' /\ KeysInOrder'
    OBVIOUS
  <2>1. ~misjudged /\ WorkersStand'
    BY <1>1, <1>2, StartsKeep
  <2>2. \A k \in RowKeys : RowAt(k) \in Unusable \cup {"COMPLETED", "INVALIDATED"}
                        => RowAt(k)' = RowAt(k)
    BY <1>1, <1>2, StartsKeep
  <2>3. command.key \in 1..KeyCount + 1
    BY <1>1 DEF PreparedTypeOK
  <2>4. \A j \in 1..(command'.key - 1) : RowAt(j)' \in Unusable
    BY <1>4, <2>3, PreparedAssumption, <2>1, <2>2 DEF RowKeys, PathInv, KeysInOrder
  <2>5. command'.pc \in {"interpret", "answer", "grant"}
        => RowAt(command.key)' \in {"COMPLETED", "INVALIDATED"}
    BY <1>4, <2>1, <2>2 DEF PathInv, KeysInOrder
  <2> QED BY <1>1, <1>2, <1>4, <2>1, <2>4, <2>5, StartsKeep DEF KeysInOrder, RowAt
<1> QED BY <1>3, <1>4, <1>5, <1>6, <1>7 DEF PathInv

PathStages == {"idle", "pack", "scenario", "key", "start", "polling", "interpret", "answer", "grant"}
Command == [id : 0 .. MaxCommands, of : Routes \union {NoRoute}, key : 1 .. KeyCount + 1, pc : PathStages]

LEMMA CommandTyped == PreparedTypeOK => command \in Command
BY DEF PreparedTypeOK, Command, PathStages

LEMMA CommandMoves ==
    ASSUME PreparedTypeOK, NEW pc \in PathStages, Goto(pc)
    PROVE  /\ command'.pc = pc /\ command'.key = command.key /\ command'.id = command.id
           /\ command'.of = command.of
           /\ command' \in Command
BY CommandTyped DEF Goto, Command

\* The step of a command that goes on with the same key and leaves rows and workers alone.
LEMMA GoingOn ==
    ASSUME PathInv, NEW pc \in PathStages, Goto(pc),
           UNCHANGED <<route, granted, workflow, prepared, workers, restarts, misjudged>>,
           eventPack' \in {"none", "draft", "frozen"}, scenario' \in Routes \union {NoRoute},
           paid' \in Nat, exchanges' \in [RowKeys -> {"none", "good", "other", "gone"}],
           \A k \in RowKeys : exchanges[k] # "none" => exchanges'[k] # "none",
           pc \in {"start", "polling", "interpret", "answer", "grant"} => command.key \in RowKeys,
           pc = "grant" => exchanges'[command.key] # "none",
           ~misjudged /\ pc \in {"interpret", "answer", "grant"} =>
                 RowAt(command.key) \in {"COMPLETED", "INVALIDATED"}
    PROVE  PathInv'
BY CommandMoves, PreparedAssumption DEF PathInv, PreparedTypeOK, Command, PathStages, RowKeys,
   GrantedIsInterpreted, WorkersStand, RowAt, KeysInOrder

LEMMA CrashKeeps == PathInv /\ CommandCrashes => PathInv' /\ PreparedOnce
<1> SUFFICES ASSUME PathInv, CommandCrashes PROVE PathInv' /\ PreparedOnce
  OBVIOUS
<1>1. PreparedTypeOK /\ GrantedIsInterpreted
  BY DEF PathInv
<1>2. command'.pc = "idle" /\ command'.key = command.key /\ command' \in Command
  BY <1>1, CommandMoves DEF CommandCrashes, GiveUp, PathStages
<1>3. workers' \subseteq workers
  BY DEF CommandCrashes
<1>4. PreparedOnce
  BY <1>3, NothingSpent DEF CommandCrashes
<1>5. PreparedTypeOK'
  BY <1>1, <1>2, <1>3 DEF PreparedTypeOK, Command, PathStages, CommandCrashes, stores
<1>6. GrantedIsInterpreted'
  BY <1>1 DEF GrantedIsInterpreted, CommandCrashes, stores
<1>7. ~misjudged' => WorkersStand' /\ KeysInOrder'
  BY <1>3, <1>2 DEF CommandCrashes, PathInv, WorkersStand, RowAt, KeysInOrder
<1> QED BY <1>2, <1>4, <1>5, <1>6, <1>7 DEF PathInv

LEMMA PackKeeps == PathInv /\ PrepareEventPack => PathInv' /\ PreparedOnce
BY CommandTyped, NothingSpent, GoingOn DEF PathInv, PrepareEventPack, At, Goto, Command, PathStages,
   PreparedTypeOK

LEMMA ScenarioKeeps == PathInv /\ SaveScenario => PathInv' /\ PreparedOnce
BY CommandTyped, NothingSpent, GoingOn DEF PathInv, SaveScenario, Command, PathStages, PreparedTypeOK

LEMMA InterpretKeeps == PathInv /\ Interpret => PathInv' /\ PreparedOnce
<1> SUFFICES ASSUME PathInv, Interpret PROVE PathInv' /\ PreparedOnce
  OBVIOUS
<1>1. PreparedTypeOK /\ command \in Command /\ command.pc = "interpret"
  BY CommandTyped DEF PathInv, Interpret, At
<1>2. command.key \in RowKeys
  BY <1>1 DEF PathInv
<1>3. ~misjudged => RowAt(command.key) \in {"COMPLETED", "INVALIDATED"}
  BY <1>1 DEF PathInv, KeysInOrder
<1>4. /\ UNCHANGED <<route, granted, workflow, prepared, workers, restarts, misjudged>>
      /\ UNCHANGED <<eventPack, scenario, exchanges>>
  BY DEF Interpret, stores
<1>5. /\ eventPack' \in {"none", "draft", "frozen"} /\ scenario' \in Routes \union {NoRoute}
      /\ exchanges' \in [RowKeys -> {"none", "good", "other", "gone"}]
      /\ \A k \in RowKeys : exchanges[k] # "none" => exchanges'[k] # "none"
      /\ paid \in Nat /\ paid + 1 \in Nat
  BY <1>1, <1>4 DEF PreparedTypeOK
<1>6. CASE Reused
  BY <1>4, <1>6, <1>2, <1>3, <1>5, GoingOn, NothingSpent DEF Interpret, Reused, PathStages
<1>7. CASE ~Reused /\ exchanges[command.key] = "other"
  BY <1>7, <1>2, <1>3, <1>4, <1>5, GoingOn, NothingSpent DEF Interpret, GiveUp, PathStages
<1>8. CASE ~Reused /\ exchanges[command.key] # "other"
  <2>1. Goto("answer") /\ paid' = paid + 1
    BY <1>8 DEF Interpret
  <2>2. PathInv'
    BY <1>2, <1>3, <1>4, <1>5, <2>1, GoingOn DEF PathStages
  <2>3. ASSUME ~misjudged, NEW k \in RowKeys, exchanges[k] = "good"
        PROVE  RowAt(k) # "COMPLETED"
    BY <1>8, <2>3, <1>2, <1>3, NothingElse DEF Reused, Unusable
  <2>4. PreparedOnce
    BY <2>3 DEF PreparedOnce, RowAt
  <2> QED BY <2>2, <2>4
<1> QED BY <1>6, <1>7, <1>8

LEMMA InterpretedKeeps == PathInv /\ Interpreted => PathInv' /\ PreparedOnce
BY NothingSpent, GoingOn DEF PathInv, Interpreted, At, PreparedTypeOK, KeysInOrder, GiveUp, PathStages

LEMMA GrantKeeps == PathInv /\ Grant => PathInv' /\ PreparedOnce
<1> SUFFICES ASSUME PathInv, Grant PROVE PathInv' /\ PreparedOnce
  OBVIOUS
<1>1. PreparedTypeOK /\ GrantedIsInterpreted /\ command.pc = "grant"
  BY DEF PathInv, Grant, At
<1>2. command.key \in RowKeys /\ exchanges[command.key] # "none"
  BY <1>1 DEF PathInv
<1>3. PreparedOnce
  BY NothingSpent DEF Grant
<1>4. command'.pc = "idle" /\ command'.key = command.key /\ command' \in Command
  BY <1>1, CommandMoves DEF Grant, GiveUp, PathStages
<1>5. granted' \in 0..KeyCount
  BY <1>2, PreparedAssumption DEF Grant, RowKeys
<1>6. PreparedTypeOK'
  BY <1>1, <1>4, <1>5 DEF PreparedTypeOK, Command, PathStages, Grant
<1>7. GrantedIsInterpreted'
  BY <1>1, <1>2 DEF GrantedIsInterpreted, Grant
<1>8. ASSUME ~misjudged PROVE WorkersStand' /\ KeysInOrder'
  BY <1>8, <1>4 DEF PathInv, Grant, WorkersStand, RowAt, KeysInOrder
<1> QED BY <1>3, <1>4, <1>6, <1>7, <1>8 DEF PathInv, Grant

LEMMA PollKeeps == PathInv /\ PollRun => PathInv' /\ PreparedOnce
<1> SUFFICES ASSUME PathInv, PollRun PROVE PathInv' /\ PreparedOnce
  OBVIOUS
<1>1. PreparedTypeOK /\ GrantedIsInterpreted /\ command \in Command /\ command.pc = "polling"
  BY CommandTyped DEF PathInv, PollRun, At
<1>2. command.key \in RowKeys
  BY <1>1 DEF PathInv
<1>3. PreparedOnce
  BY NothingSpent DEF PollRun, stores
<1>4. /\ UNCHANGED <<route, granted, workflow, prepared, workers, restarts, misjudged>>
      /\ UNCHANGED <<eventPack, scenario, exchanges, paid>>
  BY DEF PollRun, stores
<1>5. /\ eventPack' \in {"none", "draft", "frozen"} /\ scenario' \in Routes \union {NoRoute}
      /\ exchanges' \in [RowKeys -> {"none", "good", "other", "gone"}]
      /\ \A k \in RowKeys : exchanges[k] # "none" => exchanges'[k] # "none"
      /\ paid' \in Nat
  BY <1>1, <1>4 DEF PreparedTypeOK
<1>6. CASE RowAt(command.key) = "COMPLETED"
  BY <1>6, <1>2, <1>3, <1>4, <1>5, GoingOn DEF PollRun, RowAt, TryNext, Unusable, PathStages
<1>7. CASE RowAt(command.key) \in Unusable
  <2>1. command' = [command EXCEPT !.pc = "key", !.key = @ + 1]
    BY <1>7 DEF PollRun, RowAt, TryNext, Unusable
  <2>2. command.key \in 1..KeyCount /\ command.key + 1 \in 1..KeyCount + 1
    BY <1>2, PreparedAssumption DEF RowKeys
  <2>3. command'.pc = "key" /\ command'.key = command.key + 1 /\ command' \in Command
    BY <1>1, <2>1, <2>2 DEF Command, PathStages
  <2>4. PreparedTypeOK'
    BY <1>1, <1>4, <1>5, <2>3 DEF PreparedTypeOK, Command, PathStages
  <2>5. GrantedIsInterpreted'
    BY <1>1, <1>4 DEF GrantedIsInterpreted
  <2>6. ASSUME ~misjudged PROVE WorkersStand' /\ KeysInOrder'
    BY <2>6, <1>4, <2>2, <2>3, <1>7 DEF PathInv, WorkersStand, RowAt, KeysInOrder
  <2> QED BY <1>3, <1>4, <2>3, <2>4, <2>5, <2>6 DEF PathInv
<1>8. CASE RowAt(command.key) \notin Unusable \cup {"COMPLETED"}
  BY <1>8, <1>3, <1>4, <1>5, GoingOn DEF PollRun, RowAt, TryNext, Unusable, GiveUp, PathStages
<1> QED BY <1>6, <1>7, <1>8

\* One row is written over.
LEMMA RowWritten ==
    ASSUME PreparedTypeOK, NEW k \in RowKeys, NEW status \in RowStatuses,
           prepared' = [prepared EXCEPT ![k].status = status]
    PROVE  /\ prepared' \in [RowKeys -> [status : RowStatuses, of : Routes \union {NoRoute}]]
           /\ \A j \in RowKeys : RowAt(j)' = IF j = k THEN status ELSE RowAt(j)
BY DEF PreparedTypeOK, RowAt

\* A row that could still be used, or holds a result, gets another status: the keys stay in
\* their order.
LEMMA OrderStays ==
    ASSUME PathInv, ~misjudged, NEW k \in RowKeys, NEW status \in RowStatuses,
           prepared' = [prepared EXCEPT ![k].status = status],
           RowAt(k) \notin Unusable \cup {"absent"},
           RowAt(k) \in {"COMPLETED", "INVALIDATED"} => status \in {"COMPLETED", "INVALIDATED"},
           command'.key = command.key,
           command'.pc \in {"interpret", "answer", "grant"} =>
               command'.pc = command.pc
    PROVE  KeysInOrder'
BY CommandTyped, RowWritten, PreparedAssumption DEF PathInv, RowKeys, KeysInOrder, Command, RowAt

LEMMA RunEndKeeps ==
    ASSUME PathInv, NEW w \in workers, RunEnds(w)
    PROVE  PathInv' /\ PreparedOnce
<1>1. PreparedTypeOK /\ GrantedIsInterpreted /\ w[2] \in RowKeys
  BY DEF PathInv, PreparedTypeOK
<1>2. PICK status \in {"COMPLETED", "FAILED_RETRYABLE", "FAILED_FINAL", "CANCELLED"} :
        prepared' = [prepared EXCEPT ![w[2]].status = status]
  BY DEF RunEnds
<1>3. status \in RowStatuses
  BY DEF RowStatuses
<1>4. workers' = workers \ {w} /\ command' = command
  BY DEF RunEnds
<1>5. PreparedOnce
  BY <1>4, NothingSpent DEF RunEnds
<1>6. /\ prepared' \in [RowKeys -> [status : RowStatuses, of : Routes \union {NoRoute}]]
      /\ \A j \in RowKeys : RowAt(j)' = IF j = w[2] THEN status ELSE RowAt(j)
  BY <1>1, <1>2, <1>3, RowWritten
<1>7. PreparedTypeOK' /\ GrantedIsInterpreted'
  BY <1>1, <1>4, <1>6 DEF PreparedTypeOK, GrantedIsInterpreted, RunEnds, stores
<1>8. ASSUME ~misjudged PROVE WorkersStand' /\ KeysInOrder'
  <2>1. WorkersStand
    BY <1>8 DEF PathInv
  <2>2. RowAt(w[2]) \in Running
    BY <2>1 DEF WorkersStand
  <2>3. KeysInOrder'
    BY <1>1, <1>2, <1>3, <1>4, <1>8, <2>2, OrderStays DEF Running, Unusable
  <2>4. ASSUME NEW v \in workers' PROVE RowAt(v[2])' \in Running
    BY <1>1, <1>4, <2>1, <1>6 DEF WorkersStand, PreparedTypeOK
  <2> QED BY <1>4, <2>1, <2>3, <2>4 DEF WorkersStand, RowAt
<1> QED BY <1>4, <1>5, <1>7, <1>8 DEF PathInv, RunEnds, stores

\* A worker starts on a row that can be started: there is none on it, and nothing beside it
\* is complete.
LEMMA WorkerStarts ==
    ASSUME PathInv, NEW k \in RowKeys, NEW process \in 0..MaxCommands,
           RowAt(k) \in Startable,
           prepared' = [prepared EXCEPT ![k].status = "ACTIVE"],
           workers' = workers \union {<<process, k>>},
           paid' = paid, misjudged' = misjudged
    PROVE  /\ prepared' \in [RowKeys -> [status : RowStatuses, of : Routes \union {NoRoute}]]
           /\ workers' \subseteq (0 .. MaxCommands) \X RowKeys
           /\ ~misjudged => WorkersStand'
           /\ PreparedOnce
<1>1. PreparedTypeOK /\ "ACTIVE" \in RowStatuses
  BY DEF PathInv, RowStatuses
<1>2. /\ prepared' \in [RowKeys -> [status : RowStatuses, of : Routes \union {NoRoute}]]
      /\ \A j \in RowKeys : RowAt(j)' = IF j = k THEN "ACTIVE" ELSE RowAt(j)
  BY <1>1, RowWritten
<1>3. workers' \subseteq (0 .. MaxCommands) \X RowKeys
  BY <1>1 DEF PreparedTypeOK
<1>4. ASSUME ~misjudged PROVE WorkersStand'
  BY <1>4, <1>3, <1>2 DEF PathInv, WorkersStand, Startable, Running, RowAt
<1>5. PreparedOnce
  BY NothingElse DEF PreparedOnce, RowAt, Startable, Unusable
<1> QED BY <1>2, <1>3, <1>4, <1>5

LEMMA UserStartKeeps ==
    ASSUME PathInv, NEW k \in RowKeys, UserStarts(k)
    PROVE  PathInv' /\ PreparedOnce
<1>1. PreparedTypeOK /\ GrantedIsInterpreted /\ "ACTIVE" \in RowStatuses
  BY DEF PathInv, RowStatuses
<1>2. 0 \in 0..MaxCommands
  BY PreparedAssumption
<1>3. /\ prepared' \in [RowKeys -> [status : RowStatuses, of : Routes \union {NoRoute}]]
      /\ workers' \subseteq (0 .. MaxCommands) \X RowKeys
      /\ ~misjudged => WorkersStand'
      /\ PreparedOnce
  BY <1>2, WorkerStarts DEF UserStarts, RowAt
<1>4. PreparedTypeOK' /\ GrantedIsInterpreted'
  BY <1>1, <1>3 DEF PreparedTypeOK, GrantedIsInterpreted, UserStarts, stores
<1>5. ~misjudged => KeysInOrder'
  BY <1>1, OrderStays DEF UserStarts, RowAt, Startable, Unusable
<1> QED BY <1>3, <1>4, <1>5 DEF PathInv, UserStarts, stores

LEMMA UserChangeKeeps ==
    ASSUME PathInv, NEW k \in RowKeys, UserChanges(k)
    PROVE  PathInv' /\ PreparedOnce
<1>1. PreparedTypeOK /\ GrantedIsInterpreted
  BY DEF PathInv
<1>2. PICK status \in {"CANCELLED", "CANCEL_REQUESTED", "INVALIDATED"} :
        /\ prepared' = [prepared EXCEPT ![k].status = status]
        /\ RowAt(k) \in {"READY", "ACTIVE", "FAILED_RETRYABLE", "COMPLETED"}
        /\ RowAt(k) = "COMPLETED" => status = "INVALIDATED"
        /\ RowAt(k) = "ACTIVE" => status = "CANCEL_REQUESTED"
  BY DEF UserChanges, RowAt
<1>3. status \in RowStatuses
  BY DEF RowStatuses
<1>4. /\ prepared' \in [RowKeys -> [status : RowStatuses, of : Routes \union {NoRoute}]]
      /\ \A j \in RowKeys : RowAt(j)' = IF j = k THEN status ELSE RowAt(j)
  BY <1>1, <1>2, <1>3, RowWritten
<1>5. PreparedTypeOK' /\ GrantedIsInterpreted'
  BY <1>1, <1>4 DEF PreparedTypeOK, GrantedIsInterpreted, UserChanges, stores
<1>6. ASSUME ~misjudged PROVE WorkersStand' /\ KeysInOrder'
  <2>1. WorkersStand /\ workers' = workers
    BY <1>6 DEF PathInv, UserChanges
  <2>2. KeysInOrder'
    BY <1>2, <1>3, <1>6, OrderStays DEF UserChanges, Unusable
  <2>3. ASSUME NEW v \in workers PROVE RowAt(v[2])' \in Running
    BY <1>1, <2>1, <1>2, <1>4 DEF WorkersStand, PreparedTypeOK, Running
  <2> QED BY <2>1, <2>2, <2>3 DEF WorkersStand, RowAt
<1>7. PreparedOnce
  BY NothingSpent DEF UserChanges
<1> QED BY <1>5, <1>6, <1>7 DEF PathInv, UserChanges, stores

LEMMA StartRunKeeps == PathInv /\ StartRun => PathInv' /\ PreparedOnce
<1> SUFFICES ASSUME PathInv, StartRun PROVE PathInv' /\ PreparedOnce
  OBVIOUS
<1> DEFINE k == command.key
<1>1. PreparedTypeOK /\ GrantedIsInterpreted /\ command \in Command /\ command.pc = "start"
  BY CommandTyped DEF PathInv, StartRun, At
<1>2. k \in RowKeys /\ "ACTIVE" \in RowStatuses
  BY <1>1 DEF PathInv, RowStatuses
<1>3. /\ UNCHANGED <<route, granted, workflow, restarts, misjudged>>
      /\ UNCHANGED <<eventPack, scenario, exchanges, paid>>
  BY DEF StartRun, stores
<1>4. /\ eventPack' \in {"none", "draft", "frozen"} /\ scenario' \in Routes \union {NoRoute}
      /\ exchanges' \in [RowKeys -> {"none", "good", "other", "gone"}]
      /\ \A j \in RowKeys : exchanges[j] # "none" => exchanges'[j] # "none"
      /\ paid' \in Nat
  BY <1>1, <1>3 DEF PreparedTypeOK
<1>5. CASE RowAt(k) = "COMPLETED"
  BY <1>5, <1>2, <1>3, <1>4, GoingOn, NothingSpent DEF StartRun, RowAt, Startable, PathStages
<1>6. CASE RowAt(k) \in Startable
  <2>1. /\ prepared' = [prepared EXCEPT ![k].status = "ACTIVE"]
        /\ workers' = workers \union {<<command.id, k>>}
        /\ Goto("polling")
    BY <1>6 DEF StartRun, RowAt, Startable
  <2>2. command.id \in 0..MaxCommands
    BY <1>1 DEF Command
  <2>3. /\ prepared' \in [RowKeys -> [status : RowStatuses, of : Routes \union {NoRoute}]]
        /\ workers' \subseteq (0 .. MaxCommands) \X RowKeys
        /\ ~misjudged => WorkersStand'
        /\ PreparedOnce
    BY <1>2, <1>3, <1>6, <2>1, <2>2, WorkerStarts
  <2>4. command'.pc = "polling" /\ command'.key = k /\ command' \in Command
    BY <1>1, <2>1, CommandMoves DEF PathStages
  <2>5. PreparedTypeOK' /\ GrantedIsInterpreted'
    BY <1>1, <1>3, <2>3, <2>4 DEF PreparedTypeOK, GrantedIsInterpreted, Command, PathStages
  <2>6. ~misjudged => KeysInOrder'
    BY <1>6, <1>2, <2>1, <2>4, OrderStays DEF Startable, Unusable
  <2> QED BY <1>2, <1>3, <2>3, <2>4, <2>5, <2>6 DEF PathInv
<1>7. CASE RowAt(k) \notin Startable \union {"COMPLETED"}
  BY <1>7, <1>2, <1>3, <1>4, GoingOn, NothingSpent DEF StartRun, RowAt, PathStages
<1> QED BY <1>5, <1>6, <1>7

LEMMA UseKeyKeeps == PathInv /\ UseKey => PathInv' /\ PreparedOnce
<1> SUFFICES ASSUME PathInv, UseKey PROVE PathInv' /\ PreparedOnce
  OBVIOUS
<1> DEFINE k == command.key
<1>1. PreparedTypeOK /\ GrantedIsInterpreted /\ command \in Command /\ command.pc = "key"
  BY CommandTyped DEF PathInv, UseKey, At
<1>2. k \in 1..KeyCount + 1 /\ (k <= KeyCount => k \in RowKeys)
  BY <1>1, PreparedAssumption DEF Command, RowKeys
<1>3. /\ UNCHANGED <<route, granted, workflow, workers, restarts, misjudged>>
      /\ UNCHANGED <<eventPack, scenario, exchanges, paid>>
  BY DEF UseKey, stores
<1>4. /\ eventPack' \in {"none", "draft", "frozen"} /\ scenario' \in Routes \union {NoRoute}
      /\ exchanges' \in [RowKeys -> {"none", "good", "other", "gone"}]
      /\ \A j \in RowKeys : exchanges[j] # "none" => exchanges'[j] # "none"
      /\ paid' \in Nat
  BY <1>1, <1>3 DEF PreparedTypeOK
<1>5. PreparedOnce
  BY <1>3, NothingSpent
<1>6. CASE Goto("idle") /\ prepared' = prepared
  BY <1>3, <1>4, <1>5, <1>6, GoingOn DEF PathStages
<1>7. CASE k \in RowKeys /\ Goto("start") /\ prepared' = prepared
  BY <1>3, <1>4, <1>5, <1>7, GoingOn DEF PathStages
<1>8. CASE /\ k \in RowKeys /\ RowAt(k) = "absent" /\ Goto("start")
           /\ prepared' = [prepared EXCEPT ![k] = [status |-> "READY", of |-> command.of]]
  <2>1. command'.pc = "start" /\ command'.key = k /\ command' \in Command
    BY <1>1, <1>8, CommandMoves DEF PathStages
  <2>2. /\ prepared' \in [RowKeys -> [status : RowStatuses, of : Routes \union {NoRoute}]]
        /\ \A j \in RowKeys : RowAt(j)' = IF j = k THEN "READY" ELSE RowAt(j)
    BY <1>1, <1>8 DEF PreparedTypeOK, Command, RowStatuses, RowAt
  <2>3. PreparedTypeOK' /\ GrantedIsInterpreted'
    BY <1>1, <1>3, <2>1, <2>2 DEF PreparedTypeOK, GrantedIsInterpreted, Command, PathStages
  <2>4. ASSUME ~misjudged PROVE WorkersStand' /\ KeysInOrder'
    <3>1. WorkersStand /\ KeysInOrder
      BY <2>4 DEF PathInv
    <3>2. WorkersStand'
      BY <1>1, <1>8, <3>1, <2>2, <1>3 DEF WorkersStand, PreparedTypeOK, Running, RowAt
    <3>3. \A j \in 1..(k - 1) : j \in RowKeys /\ j # k /\ RowAt(j) \in Unusable
      BY <1>2, <3>1, PreparedAssumption DEF KeysInOrder, RowKeys
    <3>4. \A j \in 1..(k - 1) : RowAt(j)' \in Unusable
      BY <2>2, <3>3
    <3>5. ASSUME NEW i \in RowKeys, RowAt(i)' # "absent", NEW j \in 1..(i - 1)
          PROVE  RowAt(j)' \in Unusable
      BY <3>4, <3>5, <2>2, PreparedAssumption, <3>1, <1>8 DEF RowKeys, KeysInOrder, Unusable
    <3> QED BY <2>1, <3>2, <3>4, <3>5 DEF KeysInOrder, RowAt
  <2> QED BY <1>3, <1>5, <1>8, <2>1, <2>3, <2>4 DEF PathInv
<1>9. \/ Goto("idle") /\ prepared' = prepared
      \/ k \in RowKeys /\ Goto("start") /\ prepared' = prepared
      \/ /\ k \in RowKeys /\ RowAt(k) = "absent" /\ Goto("start")
         /\ prepared' = [prepared EXCEPT ![k] = [status |-> "READY", of |-> command.of]]
  BY <1>2, PreparedAssumption DEF UseKey, GiveUp, RowAt
<1> QED BY <1>6, <1>7, <1>8, <1>9

\* A step beside the command, its rows and its workers.
LEMMA BesideThePath ==
    ASSUME PathInv, UNCHANGED <<prepared, command, workers, restarts, misjudged, paid, eventPack,
                                scenario, granted>>,
           route' \in Routes, workflow' \in 0..KeyCount,
           exchanges' \in [RowKeys -> {"none", "good", "other", "gone"}],
           \A k \in RowKeys : exchanges[k] # "none" => exchanges'[k] # "none",
           workflow' \in {0} \cup {granted, workflow}
    PROVE  PathInv' /\ PreparedOnce
BY NothingSpent, PreparedAssumption DEF PathInv, PreparedTypeOK, RowKeys, GrantedIsInterpreted,
   WorkersStand, RowAt, KeysInOrder

LEMMA OthersKeep ==
    ASSUME PathInv, \/ OpenWorkflow \/ ChangeRoute \/ \E k \in RowKeys : UserConverses(k)
    PROVE  PathInv' /\ PreparedOnce
BY BesideThePath DEF PathInv, OpenWorkflow, PreparedTypeOK, ChangeRoute, UserConverses

LEMMA PathInitially == PreparedInit => PathInv
<1> SUFFICES ASSUME PreparedInit PROVE PathInv
  OBVIOUS
<1>1. /\ command = [id |-> 0, pc |-> "idle", key |-> 1, of |-> NoRoute] /\ command.key = 1
      /\ command.pc = "idle" /\ workers = {} /\ granted = 0 /\ workflow = 0
      /\ \A k \in RowKeys : RowAt(k) = "absent"
  BY DEF PreparedInit, RowAt
<1>2. 0 \in 0..MaxCommands /\ 1 \in 1..KeyCount + 1 /\ 0 \in 0..MaxRestarts /\ 0 \in 0..KeyCount
  BY PreparedAssumption
<1>3. PreparedTypeOK
  <2>1. prepared \in [RowKeys -> [status : RowStatuses, of : Routes \union {NoRoute}]]
    BY DEF PreparedInit, RowStatuses
  <2>2. command \in Command
    BY <1>1, <1>2 DEF Command, PathStages
  <2> QED BY <1>2, <2>1, <2>2 DEF PreparedTypeOK, PreparedInit, Command, PathStages
<1> QED BY <1>1, <1>3 DEF PathInv, GrantedIsInterpreted, WorkersStand, KeysInOrder

LEMMA PathNext == PathInv /\ [PreparedNext]_preparedVars => PathInv' /\ [PreparedOnce]_preparedVars
<1> SUFFICES ASSUME PathInv, [PreparedNext]_preparedVars PROVE PathInv' /\ [PreparedOnce]_preparedVars
  OBVIOUS
<1>1. CASE UNCHANGED preparedVars
  BY <1>1 DEF preparedVars, PathInv, PreparedTypeOK, GrantedIsInterpreted, WorkersStand, RowAt,
     KeysInOrder
<1>2. CASE PreparedNext
  BY <1>2, BeginKeeps, PackKeeps, ScenarioKeeps, UseKeyKeeps, StartRunKeeps, PollKeeps,
     InterpretKeeps, InterpretedKeeps, GrantKeeps, CrashKeeps, ResetKeeps, RestartKeeps,
     OthersKeep, RunEndKeeps, UserStartKeeps, UserChangeKeeps DEF PreparedNext
<1> QED BY <1>1, <1>2

\* The prepared path keeps its types: its rows, its keys, the conversations and the command.
THEOREM PathTypes == PreparedSpec => []PreparedTypeOK
<1>1. PathInv => PreparedTypeOK
  BY DEF PathInv
<1>2. PathInv /\ [PreparedNext]_preparedVars => PathInv'
  BY PathNext
<1> QED BY PathInitially, <1>1, <1>2, PTL DEF PreparedSpec

\* Whatever is repeated, killed or done beside it by the server and its user, a preparation
\* starts no second worker on an experiment, grants nothing that was not interpreted and pays
\* for nothing that is already there (prepared_guided_path_cli.py).
THEOREM PathIsSound == PreparedSpec => [][PathStep]_preparedVars
<1>1. PathInv => OneWorkerPerRow /\ GrantedIsInterpreted
  BY OneWorker DEF PathInv
<1>2. PathInv' => OneWorkerPerRow' /\ GrantedIsInterpreted'
  BY <1>1, PTL
<1>3. PathInv /\ [PreparedNext]_preparedVars => [PathStep]_preparedVars
  BY <1>2, PathNext DEF PathStep
<1>4. PathInv /\ [PreparedNext]_preparedVars => PathInv'
  BY PathNext
<1> QED BY PathInitially, <1>3, <1>4, PTL DEF PreparedSpec


-----------------------------------------------------------------------------
(* Recursions over numbers.                                                *)

Recursing(f, n, x, g) == f = [i \in 0..n |-> IF i = 0 THEN x ELSE g[<<i, f[i - 1]>>]]

\* A recursion from 0 to n computes something, of the type its steps keep.
LEMMA RecursionExists ==
    ASSUME NEW S, NEW n \in Nat, NEW x \in S, NEW g,
           \A i \in 1..n, y \in S : g[<<i, y>>] \in S
    PROVE  \E f : Recursing(f, n, x, g) /\ \A i \in 0..n : f[i] \in S
<1> DEFINE G == {m \in Nat : m <= n =>
                    \E f : Recursing(f, m, x, g) /\ \A i \in 0..m : f[i] \in S}
<1>1. 0 \in G
  <2> DEFINE f == [i \in 0..0 |-> x]
  <2>1. f = [i \in 0..0 |-> IF i = 0 THEN x ELSE g[<<i, f[i - 1]>>]] /\ \A i \in 0..0 : f[i] \in S
    OBVIOUS
  <2> HIDE DEF f
  <2> QED BY <2>1 DEF Recursing
<1>2. ASSUME NEW m \in Nat, m \in G PROVE m + 1 \in G
  <2> SUFFICES ASSUME m + 1 <= n
               PROVE  \E f : Recursing(f, m + 1, x, g) /\ \A i \in 0..(m + 1) : f[i] \in S
    OBVIOUS
  <2>1. PICK f : Recursing(f, m, x, g) /\ \A i \in 0..m : f[i] \in S
    BY <1>2
  <2> DEFINE new == g[<<m + 1, f[m]>>]
             h == [i \in 0..(m + 1) |-> IF i = m + 1 THEN new ELSE f[i]]
  <2>2. \A i \in 0..m : i \in 0..(m + 1) /\ i # m + 1 /\ h[i] = f[i]
    OBVIOUS
  <2>3. h[m + 1] = new /\ m + 1 # 0 /\ (m + 1) - 1 = m /\ m \in 0..m /\ m + 1 \in 1..n
    OBVIOUS
  <2>4. new \in S
    BY <2>1, <2>3
  <2>5. h = [i \in 0..(m + 1) |-> h[i]]
    OBVIOUS
  <2> HIDE DEF h, new
  <2>6. ASSUME NEW i \in 0..(m + 1)
        PROVE  h[i] = (IF i = 0 THEN x ELSE g[<<i, h[i - 1]>>]) /\ h[i] \in S
    <3>1. CASE i = m + 1
      BY <2>2, <2>3, <3>1, <2>4 DEF new
    <3>2. CASE i # m + 1
      <4>1. i \in 0..m /\ h[i] = f[i] /\ (i # 0 => i - 1 \in 0..m)
        BY <2>2, <3>2
      <4>2. i # 0 => h[i - 1] = f[i - 1]
        BY <2>2, <4>1
      <4>3. f[i] = IF i = 0 THEN x ELSE g[<<i, f[i - 1]>>]
        BY <2>1, <4>1 DEF Recursing
      <4> QED BY <2>1, <4>1, <4>2, <4>3
    <3> QED BY <3>1, <3>2
  <2>7. Recursing(h, m + 1, x, g)
    BY <2>5, <2>6 DEF Recursing
  <2> QED BY <2>6, <2>7
<1> HIDE DEF G
<1>3. Nat \subseteq G
  BY <1>1, <1>2, CountingUp
<1> QED BY <1>3 DEF G

-----------------------------------------------------------------------------
(* What the provider writes.                                               *)

LEMMA StreamFields ==
    ASSUME NEW s \in StreamRecords
    PROVE  /\ s.dialect \in Dialects /\ s.events \in Transcripts(s.dialect)
           /\ s.delimiter \in Delimiters /\ s.split \in BOOLEAN
BY DEF StreamRecords

\* What a dialect sends besides, and what ends an answer in it.
KindsOf(d) ==
    {"text", "reasoning", "comment", "error"} \cup
    (CASE d = "chat"      -> {"finish", "usage", "done"}
       [] d = "openai"    -> {"whole", "completed", "completedBare"}
       [] d = "anthropic" -> {"start", "finish", "stop"}
       [] d = "google"    -> {"completed", "completedBare"}
       [] OTHER           -> {"finish"})
Enders(d) ==
    CASE d = "chat" -> {"done"}
      [] d \in {"openai", "google"} -> {"completed", "completedBare"}
      [] d = "anthropic" -> {"stop"}
      [] OTHER -> {"finish"}

Carries(t, kind) == \E i \in 1..Len(t) : t[i] = kind

\* An answer ends where its dialect says, after its text and its usage.
Orderly(d, t) ==
    /\ t \in Seq(KindsOf(d)) /\ Len(t) \in Nat \ {0}
    /\ \A i, j \in 1..Len(t) : t[i] = "text" /\ t[j] \in Enders(d) \cup {"whole"} => i < j
    /\ d # "chat" => \A j \in 1..Len(t) : t[j] \in Enders(d) => j = Len(t)
    /\ d = "chat" => \A j \in 1..Len(t) : t[j] = "done" /\ t[Len(t)] = "done" => j = Len(t)
    /\ Carries(t, "error") \/ \E j \in 1..Len(t) : t[j] \in Enders(d)
    /\ Carries(t, "error") \/ d # "chat" \/ (Carries(t, "finish") /\ Carries(t, "usage"))
    /\ Carries(t, "error") \/ d # "anthropic" \/ Carries(t, "finish")

\* The same of what closes it, without text.
Closing(d, c) ==
    /\ c \in Seq(KindsOf(d) \ {"text", "error"}) /\ Len(c) \in Nat \ {0}
    /\ d # "chat" => \A j \in 1..Len(c) : c[j] \in Enders(d) => j = Len(c)
    /\ d = "chat" => \A j \in 1..Len(c) : c[j] = "done" /\ c[Len(c)] = "done" => j = Len(c)
    /\ \E j \in 1..Len(c) : c[j] \in Enders(d)
    /\ d = "chat" => Carries(c, "finish") /\ Carries(c, "usage")
    /\ d = "anthropic" => Carries(c, "finish")

LEMMA ClosingsClose == ASSUME NEW d \in Dialects, NEW c \in Closings(d) PROVE Closing(d, c)
<1>1. CASE d = "chat"
  <2>1. CASE c = <<"finish", "usage", "done">>
    BY <2>1, <1>1 DEF Closing, KindsOf, Enders, Carries
  <2>2. CASE c = <<"finish", "done", "usage">>
    BY <2>2, <1>1 DEF Closing, KindsOf, Enders, Carries
  <2> QED BY <1>1, <2>1, <2>2 DEF Closings
<1>2. CASE d = "openai"
  <2>1. CASE c = <<"whole", "completed">>
    BY <2>1, <1>2 DEF Closing, KindsOf, Enders
  <2>2. CASE c = <<"completedBare">>
    BY <2>2, <1>2 DEF Closing, KindsOf, Enders
  <2> QED BY <1>2, <2>1, <2>2 DEF Closings
<1>3. CASE d = "anthropic"
  <2>1. c = <<"finish", "stop">>
    BY <1>3 DEF Closings
  <2>2. c \in Seq({"finish", "stop"}) /\ Len(c) = 2 /\ c[1] = "finish" /\ c[2] = "stop"
    BY <2>1
  <2> QED BY <1>3, <2>2 DEF Closing, KindsOf, Enders, Carries
<1>4. CASE d = "google"
  <2>1. c = <<"completed">> \/ c = <<"completedBare">>
    BY <1>4 DEF Closings
  <2> DEFINE S == {"completed", "completedBare"}
  <2>2. c \in Seq(S) /\ Len(c) = 1 /\ c[1] \in S
    <3>1. CASE c = <<"completed">>
      BY <3>1
    <3>2. CASE c = <<"completedBare">>
      BY <3>2
    <3> QED BY <2>1, <3>1, <3>2
  <2> QED BY <1>4, <2>2 DEF Closing, KindsOf, Enders
<1>5. CASE d = "legacyGoogle"
  <2>1. c = <<"finish">>
    BY <1>5 DEF Closings
  <2>2. c \in Seq({"finish"}) /\ Len(c) = 1 /\ c[1] = "finish"
    BY <2>1
  <2> QED BY <1>5, <2>2 DEF Closing, KindsOf, Enders
<1> QED BY <1>1, <1>2, <1>3, <1>4, <1>5 DEF Dialects

LEMMA OpeningTypes ==
    ASSUME NEW o \in Openings
    PROVE  o \in Seq({"text", "reasoning", "comment"}) /\ Len(o) \in Nat \ {0}
<1>1. CASE o = <<"text", "text">>
  BY <1>1
<1>2. CASE o = <<"reasoning", "text">>
  BY <1>2
<1>3. CASE o = <<"comment", "text", "text", "text">>
  BY <1>3
<1> QED BY <1>1, <1>2, <1>3 DEF Openings

LEMMA TranscriptOrder ==
    ASSUME NEW d \in Dialects, NEW t \in Transcripts(d)
    PROVE  Orderly(d, t) /\ (d = "anthropic" => t[1] = "start")
<1>1. ASSUME NEW o \in Openings, NEW c \in Closings(d) PROVE Orderly(d, o \o c)
  <2> DEFINE m == Len(o)
             n == Len(c)
             w == o \o c
  <2>1. /\ o \in Seq({"text", "reasoning", "comment"}) /\ m \in Nat \ {0}
        /\ c \in Seq(KindsOf(d) \ {"text", "error"}) /\ n \in Nat \ {0}
    BY OpeningTypes, ClosingsClose DEF Closing
  <2>2. {"text", "reasoning", "comment"} \subseteq KindsOf(d)
    BY DEF KindsOf
  <2>3. o \in Seq(KindsOf(d)) /\ c \in Seq(KindsOf(d))
    BY <2>1, <2>2
  <2>4. /\ w \in Seq(KindsOf(d)) /\ Len(w) = m + n
        /\ \A i \in 1..m : w[i] = o[i]
        /\ \A i \in 1..n : w[m + i] = c[i]
    BY <2>1, <2>3
  <2>5. /\ \A i \in 1..m : o[i] \in {"text", "reasoning", "comment"}
        /\ \A i \in 1..n : c[i] \in KindsOf(d) \ {"text", "error"}
    BY <2>1, ElementOfSeq
  <2> HIDE DEF m, n, w
  <2>6. \A i \in 1..(m + n) : i \in 1..m \/ \E j \in 1..n : i = m + j
    BY <2>1
  <2>7. Enders(d) \cap {"text", "reasoning", "comment"} = {}
    BY DEF Enders
  <2>8. \A i \in 1..n : m + i \in 1..(m + n) /\ (m + i = m + n => i = n)
    BY <2>1
  <2>9. Closing(d, c) /\ Len(c) = n /\ n \in 1..n
    BY <2>1, ClosingsClose DEF n
  <2>10. ASSUME NEW i \in 1..(m + n), NEW j \in 1..(m + n), w[i] = "text",
                w[j] \in Enders(d) \cup {"whole"}
         PROVE  i < j
    <3>1. i \in 1..m
      BY <2>4, <2>5, <2>6, <2>10
    <3>2. j \notin 1..m
      BY <2>4, <2>5, <2>7, <2>10
    <3> QED BY <2>1, <3>1, <3>2
  <2>11. ASSUME d # "chat", NEW j \in 1..(m + n), w[j] \in Enders(d) PROVE j = m + n
    BY <2>4, <2>5, <2>6, <2>7, <2>11, <2>9 DEF Closing
  <2>12. ASSUME d = "chat", NEW j \in 1..(m + n), w[j] = "done", w[m + n] = "done"
         PROVE  j = m + n
    <3>1. PICK q \in 1..n : j = m + q
      BY <2>4, <2>5, <2>6, <2>12
    <3>2. w[m + n] = c[n]
      BY <2>4, <2>9
    <3> QED BY <2>4, <2>9, <2>12, <3>1, <3>2 DEF Closing
  <2>13. /\ \E j \in 1..(m + n) : w[j] \in Enders(d)
         /\ d = "chat" => Carries(w, "finish") /\ Carries(w, "usage")
         /\ d = "anthropic" => Carries(w, "finish")
    BY <2>4, <2>8, <2>9 DEF Carries, Closing
  <2>14. Len(w) \in Nat \ {0}
    BY <2>1, <2>4
  <2> QED BY <2>4, <2>10, <2>11, <2>12, <2>13, <2>14 DEF Orderly, w
<1>2. Orderly(d, <<"text", "error">>)
  BY DEF KindsOf, Enders, Carries, Orderly
<1>3. ASSUME d = "openai" PROVE Orderly(d, <<"whole", "completedBare">>)
  BY <1>3 DEF KindsOf, Enders, Orderly
<1>4. \A a \in Answers(d) \cup {<<"text", "error">>} : Orderly(d, a)
  <2>1. ASSUME NEW a \in Answers(d)
        PROVE  \/ \E o \in Openings, c \in Closings(d) : a = o \o c
               \/ d = "openai" /\ a = <<"whole", "completedBare">>
    BY DEF Answers
  <2> QED BY <1>1, <1>2, <1>3, <2>1
<1>5. ASSUME d = "anthropic", NEW a \in Answers(d) \cup {<<"text", "error">>}
      PROVE  Orderly(d, <<"start">> \o a) /\ (<<"start">> \o a)[1] = "start"
  <2> DEFINE n == Len(a)
             w == <<"start">> \o a
             K == KindsOf(d)
  <2>1. a \in Seq(K) /\ n \in Nat \ {0} /\ Orderly(d, a)
    BY <1>4 DEF Orderly
  <2>2. "start" \in K /\ Enders(d) = {"stop"}
    BY <1>5 DEF KindsOf, Enders
  <2>3. <<"start">> \in Seq(K) /\ Len(<<"start">>) = 1 /\ <<"start">>[1] = "start"
    BY <2>2
  <2> HIDE DEF K
  <2>4. /\ w \in Seq(K) /\ Len(w) = 1 + n /\ w[1] = "start"
        /\ \A i \in 1..n : w[1 + i] = a[i]
    BY <2>1, <2>3
  <2> HIDE DEF n, w
  <2>5. \A i \in 1..(1 + n) : i = 1 \/ \E j \in 1..n : i = 1 + j
    BY <2>1
  <2>6. \A i \in 1..n : 1 + i \in 1..(1 + n)
    BY <2>1
  <2>7. Len(a) = n /\ n \in 1..n
    BY <2>1 DEF n
  <2>8. \A kind : Carries(a, kind) => Carries(w, kind)
    BY <2>4, <2>6, <2>7 DEF Carries
  <2>9. ASSUME NEW i \in 1..(1 + n), NEW j \in 1..(1 + n), w[i] = "text",
               w[j] \in {"stop", "whole"}
        PROVE  i < j
    <3>1. PICK p \in 1..n : i = 1 + p
      BY <2>4, <2>5, <2>9
    <3>2. PICK q \in 1..n : j = 1 + q
      BY <2>4, <2>5, <2>9
    <3>3. a[p] = "text" /\ a[q] \in Enders(d) \cup {"whole"} /\ p \in 1..Len(a) /\ q \in 1..Len(a)
      BY <2>2, <2>4, <2>7, <2>9, <3>1, <3>2
    <3>4. p < q
      BY ONLY <2>1, <3>3 DEF Orderly
    <3> QED BY <2>1, <3>1, <3>2, <3>4
  <2>10. ASSUME NEW j \in 1..(1 + n), w[j] = "stop" PROVE j = 1 + n
    <3>1. PICK q \in 1..n : j = 1 + q
      BY <2>4, <2>5, <2>10
    <3>2. a[q] \in Enders(d) /\ q \in 1..Len(a) /\ d # "chat"
      BY <1>5, <2>2, <2>4, <2>7, <2>10, <3>1
    <3>3. q = Len(a)
      BY ONLY <2>1, <3>2 DEF Orderly
    <3> QED BY <2>7, <3>1, <3>3
  <2>11. Carries(w, "error") \/ (Carries(w, "finish") /\ \E j \in 1..(1 + n) : w[j] = "stop")
    BY <1>5, <2>1, <2>2, <2>4, <2>6, <2>7, <2>8 DEF Orderly
  <2>12. Len(w) \in Nat \ {0}
    BY <2>1, <2>4
  <2> QED BY <1>5, <2>2, <2>4, <2>9, <2>10, <2>11, <2>12 DEF Orderly, w, K
<1>6. \/ d # "anthropic" /\ t \in Answers(d) \cup {<<"text", "error">>}
      \/ d = "anthropic" /\ \E a \in Answers(d) \cup {<<"text", "error">>} : t = <<"start">> \o a
  BY DEF Transcripts
<1> QED BY <1>4, <1>5, <1>6

-----------------------------------------------------------------------------
(* One sequence after the other.                                           *)

\* What is joined of the first parts.
Joining(f, parts) ==
    /\ f[0] = <<>>
    /\ \A n \in 1..Len(parts) : f[n] = f[n - 1] \o parts[n]
    /\ Joined(parts) = f[Len(parts)]
UpTo(parts) == CHOOSE f : Joining(f, parts)

LEMMA JoiningExists ==
    ASSUME NEW T, NEW parts \in Seq(Seq(T)) PROVE Joining(UpTo(parts), parts)
<1> DEFINE N == Len(parts)
           g == [w \in (1..N) \X Seq(T) |-> w[2] \o parts[w[1]]]
           body(f) == [n \in 0..N |-> IF n = 0 THEN <<>> ELSE f[n - 1] \o parts[n]]
<1>1. N \in Nat /\ \A n \in 1..N : parts[n] \in Seq(T) /\ n - 1 \in 0..N /\ n # 0
  BY ElementOfSeq
<1>2. \A n \in 1..N, y \in Seq(T) : g[<<n, y>>] = y \o parts[n] /\ g[<<n, y>>] \in Seq(T)
  <2> SUFFICES ASSUME NEW n \in 1..N, NEW y \in Seq(T)
               PROVE  g[<<n, y>>] = y \o parts[n] /\ g[<<n, y>>] \in Seq(T)
    OBVIOUS
  <2>1. g[<<n, y>>] = y \o parts[n]
    OBVIOUS
  <2>2. parts[n] \in Seq(T)
    BY <1>1
  <2> HIDE DEF g
  <2> QED BY <2>1, <2>2
<1>3. <<>> \in Seq(T)
  OBVIOUS
<1>4. Joined(parts) = (CHOOSE f : f = body(f))[N]
  BY DEF Joined
<1> HIDE DEF g, N
<1>5. PICK f : Recursing(f, N, <<>>, g) /\ \A n \in 0..N : f[n] \in Seq(T)
  BY <1>1, <1>2, <1>3, RecursionExists
<1>6. f = body(f)
  <2>1. \A n \in 1..N : g[<<n, f[n - 1]>>] = f[n - 1] \o parts[n]
    BY <1>1, <1>2, <1>5
  <2>2. \A n \in 0..N : n = 0 \/ n \in 1..N
    BY <1>1
  <2> QED BY <1>1, <1>5, <2>1, <2>2 DEF Recursing
<1> DEFINE h == CHOOSE u : u = body(u)
<1>7. h = body(h)
  BY <1>6
<1>8. Joined(parts) = h[N]
  BY <1>4
<1> HIDE DEF h
<1>9. h[0] = <<>> /\ \A n \in 1..N : h[n] = h[n - 1] \o parts[n]
  <2>1. 0 \in 0..N /\ \A n \in 1..N : n \in 0..N
    BY <1>1
  <2>2. \A n \in 0..N : h[n] = IF n = 0 THEN <<>> ELSE h[n - 1] \o parts[n]
    BY ONLY <1>7
  <2> QED BY <1>1, <2>1, <2>2
<1> QED BY <1>8, <1>9 DEF Joining, UpTo, N

\* Where the parts stand in what is joined of them.
Place(parts, n) == Len(UpTo(parts)[n])

LEMMA JoinedFacts ==
    ASSUME NEW T, NEW parts \in Seq(Seq(T))
    PROVE  /\ Joined(parts) \in Seq(T) /\ Len(Joined(parts)) = Place(parts, Len(parts))
           /\ Place(parts, 0) = 0 /\ \A n \in 0..Len(parts) : Place(parts, n) \in Nat
           /\ \A n \in 1..Len(parts) :
                 /\ Place(parts, n) = Place(parts, n - 1) + Len(parts[n])
                 /\ Place(parts, n) <= Len(Joined(parts))
                 /\ \A i \in 1..Len(parts[n]) :
                       Joined(parts)[Place(parts, n - 1) + i] = parts[n][i]
<1> DEFINE f == UpTo(parts)
           N == Len(parts)
           at == [n \in 0..N |-> Place(parts, n)]
           J == Joined(parts)
<1>1. N \in Nat /\ \A n \in 1..N : parts[n] \in Seq(T) /\ Len(parts[n]) \in Nat
  BY ElementOfSeq
<1>2. f[0] = <<>> /\ (\A n \in 1..N : f[n] = f[n - 1] \o parts[n]) /\ J = f[N]
  BY JoiningExists DEF Joining
<1>3. /\ \A n \in 1..N : n - 1 \in 0..N /\ n \in 0..N
      /\ 0 \in 0..N /\ N \in 0..N
      /\ \A n \in Nat : n + 1 <= N => n <= N /\ n + 1 \in 1..N /\ (n + 1) - 1 = n
      /\ \A n \in 0..N : n \in Nat /\ n <= N
  BY <1>1
<1>4. \A n \in 0..N : at[n] = Len(f[n]) /\ at[n] = Place(parts, n)
  BY DEF Place
<1> HIDE DEF f, N, at, J
<1>5. \A n \in 0..N : f[n] \in Seq(T)
  <2> DEFINE G == {n \in Nat : n <= N => f[n] \in Seq(T)}
  <2>1. 0 \in G
    <3>1. <<>> \in Seq(T)
      OBVIOUS
    <3> QED BY <1>2, <3>1
  <2>2. ASSUME NEW n \in Nat, n \in G PROVE n + 1 \in G
    <3>1. ASSUME n + 1 <= N PROVE f[n + 1] \in Seq(T)
      <4>1. f[n] \in Seq(T) /\ parts[n + 1] \in Seq(T) /\ f[n + 1] = f[n] \o parts[n + 1]
        BY <1>1, <1>2, <1>3, <2>2, <3>1
      <4> QED BY <4>1
    <3> QED BY <3>1
  <2> HIDE DEF G
  <2>3. Nat \subseteq G
    BY <2>1, <2>2, CountingUp
  <2> QED BY <1>3, <2>3 DEF G
<1>6. \A n \in 0..N : at[n] \in Nat
  BY <1>4, <1>5
<1>7. ASSUME NEW n \in 1..N
      PROVE  /\ at[n] = at[n - 1] + Len(parts[n])
             /\ \A i \in 1..Len(parts[n]) : f[n][at[n - 1] + i] = parts[n][i]
             /\ \A i \in 1..at[n - 1] : f[n][i] = f[n - 1][i]
  <2> DEFINE p == f[n - 1]
             q == parts[n]
  <2>1. p \in Seq(T) /\ q \in Seq(T) /\ f[n] = p \o q /\ at[n - 1] = Len(p) /\ at[n] = Len(f[n])
    BY <1>1, <1>2, <1>3, <1>4, <1>5
  <2> HIDE DEF p, q
  <2>2. /\ Len(p \o q) = Len(p) + Len(q)
        /\ \A i \in 1..Len(q) : (p \o q)[Len(p) + i] = q[i]
        /\ \A i \in 1..Len(p) : (p \o q)[i] = p[i]
    BY <2>1
  <2> QED BY <2>1, <2>2 DEF p, q
\* the parts behind change nothing
<1>8. \A n \in 0..N : at[n] <= at[N] /\ \A i \in 1..at[n] : f[N][i] = f[n][i]
  <2> DEFINE G == {m \in Nat : m <= N => \A n \in 0..m :
                      at[n] <= at[m] /\ \A i \in 1..at[n] : f[m][i] = f[n][i]}
  <2>1. 0 \in G
    BY <1>3, <1>6
  <2>2. ASSUME NEW m \in Nat, m \in G PROVE m + 1 \in G
    <3> SUFFICES ASSUME m + 1 <= N, NEW n \in 0..(m + 1)
                 PROVE  at[n] <= at[m + 1] /\ \A i \in 1..at[n] : f[m + 1][i] = f[n][i]
      OBVIOUS
    <3>1. CASE n = m + 1
      BY <1>3, <1>6, <3>1
    <3>2. CASE n # m + 1
      <4>1. n \in 0..m /\ m \in 0..N /\ n \in 0..N /\ m + 1 \in 1..N /\ (m + 1) - 1 = m
        BY <1>3, <3>2
      <4>2. at[n] <= at[m] /\ \A i \in 1..at[n] : f[m][i] = f[n][i]
        BY <1>3, <2>2, <4>1
      <4>3. at[m + 1] = at[m] + Len(parts[m + 1]) /\ \A i \in 1..at[m] : f[m + 1][i] = f[m][i]
        BY <1>7, <4>1
      <4>4. at[n] \in Nat /\ at[m] \in Nat /\ Len(parts[m + 1]) \in Nat
        BY <1>1, <1>6, <4>1
      <4> HIDE DEF G
      <4>5. at[n] <= at[m + 1] /\ \A i \in 1..at[n] : i \in 1..at[m]
        BY <4>2, <4>3, <4>4
      <4> QED BY <4>2, <4>3, <4>5
    <3> QED BY <3>1, <3>2
  <2> HIDE DEF G
  <2>3. Nat \subseteq G
    BY <2>1, <2>2, CountingUp
  <2> QED BY <1>1, <1>3, <2>3 DEF G
<1>9. Len(J) = at[N] /\ J \in Seq(T) /\ at[0] = 0
  BY <1>2, <1>3, <1>4, <1>5
<1>10. ASSUME NEW n \in 1..N, NEW i \in 1..Len(parts[n]) PROVE J[at[n - 1] + i] = parts[n][i]
  <2>1. at[n - 1] \in Nat /\ Len(parts[n]) \in Nat /\ at[n] = at[n - 1] + Len(parts[n])
    BY <1>1, <1>3, <1>6, <1>7
  <2>2. at[n - 1] + i \in 1..at[n]
    BY <2>1
  <2>3. f[N][at[n - 1] + i] = f[n][at[n - 1] + i]
    BY <1>3, <1>8, <2>2
  <2> QED BY <1>2, <1>7, <2>3
<1>11. ASSUME NEW n \in 1..N
       PROVE  /\ Place(parts, n) = Place(parts, n - 1) + Len(parts[n])
              /\ Place(parts, n) <= Len(J)
              /\ \A i \in 1..Len(parts[n]) : J[Place(parts, n - 1) + i] = parts[n][i]
  <2>1. at[n] = Place(parts, n) /\ at[n - 1] = Place(parts, n - 1)
    BY <1>3, <1>4
  <2> QED BY <1>3, <1>7, <1>8, <1>9, <1>10, <2>1
<1>12. /\ Len(J) = Place(parts, N) /\ Place(parts, 0) = 0
       /\ \A n \in 0..N : Place(parts, n) \in Nat
  BY <1>3, <1>4, <1>6, <1>9
<1> QED BY <1>9, <1>11, <1>12 DEF N, J

-----------------------------------------------------------------------------
(* The lines of the events, and the bytes of the lines.                    *)

Plain == Byte \ {CR, LF}

LEMMA WrittenTypes == ASSUME NEW s, NEW i \in Nat \ {0} PROVE Written(s, i) \in Seq(Seq(Plain))
<1> DEFINE a == <<i, 1>>
           b == <<i, 2>>
<1>1. a \in Plain /\ b \in Plain /\ Colon \in Plain
  BY DEF Byte, Colon, Plain, CR, LF
<1> HIDE DEF a, b
<1>2. /\ <<>> \in Seq(Plain) /\ <<a>> \in Seq(Plain) /\ <<b>> \in Seq(Plain)
      /\ <<a, b>> \in Seq(Plain) /\ <<Colon>> \in Seq(Plain)
  BY <1>1
<1>3. /\ <<<<Colon>>>> \in Seq(Seq(Plain)) /\ <<<<a>>, <<b>>, <<>>>> \in Seq(Seq(Plain))
      /\ <<<<a, b>>, <<>>>> \in Seq(Seq(Plain))
  BY <1>2
<1>4. \/ Written(s, i) = <<<<Colon>>>> \/ Written(s, i) = <<<<a>>, <<b>>, <<>>>>
      \/ Written(s, i) = <<<<a, b>>, <<>>>>
  BY DEF Written, a, b
<1> QED BY <1>3, <1>4

EventLines(s) == [i \in 1..Len(s.events) |-> Written(s, i)]
EndedLines(s) == [n \in 1..Len(Lines(s)) |-> Lines(s)[n] \o s.delimiter]

\* How many lines the first k events have, and how many bytes the first m lines.
LinesBefore(s, k) == Place(EventLines(s), k)
Off(s, m) == Place(EndedLines(s), m)

LEMMA LineFacts ==
    ASSUME NEW s \in StreamRecords
    PROVE  LET K == Len(s.events) IN
           /\ K \in Nat \ {0} /\ Lines(s) \in Seq(Seq(Plain))
           /\ Len(Lines(s)) = LinesBefore(s, K) /\ LinesBefore(s, 0) = 0
           /\ \A k \in 0..K : LinesBefore(s, k) \in Nat
           /\ \A k \in 1..K :
                 /\ LinesBefore(s, k) = LinesBefore(s, k - 1) + Len(Written(s, k))
                 /\ LinesBefore(s, k) <= Len(Lines(s))
                 /\ \A j \in 1..Len(Written(s, k)) :
                       Lines(s)[LinesBefore(s, k - 1) + j] = Written(s, k)[j]
<1> DEFINE K == Len(s.events)
           parts == EventLines(s)
<1>1. K \in Nat \ {0}
  BY StreamFields, TranscriptOrder DEF Orderly
<1>2. \A i \in 1..K : Written(s, i) \in Seq(Seq(Plain))
  BY <1>1, WrittenTypes
<1>3. parts \in Seq(Seq(Seq(Plain))) /\ Len(parts) = K /\ \A i \in 1..K : parts[i] = Written(s, i)
  BY <1>1, <1>2 DEF EventLines
<1>4. Lines(s) = Joined(parts)
  BY DEF Lines, EventLines
<1> HIDE DEF K, parts
<1>5. /\ Joined(parts) \in Seq(Seq(Plain)) /\ Len(Joined(parts)) = Place(parts, K)
      /\ Place(parts, 0) = 0 /\ \A n \in 0..K : Place(parts, n) \in Nat
      /\ \A n \in 1..K :
            /\ Place(parts, n) = Place(parts, n - 1) + Len(parts[n])
            /\ Place(parts, n) <= Len(Joined(parts))
            /\ \A i \in 1..Len(parts[n]) : Joined(parts)[Place(parts, n - 1) + i] = parts[n][i]
  BY <1>3, JoinedFacts
<1>6. \A k : Place(parts, k) = LinesBefore(s, k)
  BY DEF LinesBefore, parts
<1> QED BY <1>1, <1>3, <1>4, <1>5, <1>6 DEF K

LEMMA DelimiterTypes ==
    ASSUME NEW s \in StreamRecords
    PROVE  /\ s.delimiter \in Seq(Byte) /\ Len(s.delimiter) \in {1, 2}
           /\ \/ s.delimiter[1] = LF /\ Len(s.delimiter) = 1
              \/ s.delimiter[1] = CR /\ Len(s.delimiter) = 1
              \/ s.delimiter[1] = CR /\ Len(s.delimiter) = 2 /\ s.delimiter[2] = LF
<1> DEFINE d == s.delimiter
<1>0. CR \in Byte /\ LF \in Byte
  BY DEF CR, LF, Byte
<1>1. d = <<LF>> \/ d = <<CR>> \/ d = <<CR, LF>>
  BY StreamFields DEF Delimiters
<1> HIDE DEF d
<1>2. CASE d = <<LF>>
  BY <1>0, <1>2 DEF d
<1>3. CASE d = <<CR>>
  BY <1>0, <1>3 DEF d
<1>4. CASE d = <<CR, LF>>
  BY <1>0, <1>4 DEF d
<1> QED BY <1>1, <1>2, <1>3, <1>4

LEMMA ByteFacts ==
    ASSUME NEW s \in StreamRecords
    PROVE  LET M == Len(Lines(s))
               D == Len(s.delimiter) IN
           /\ M \in Nat /\ Bytes(s) \in Seq(Byte) /\ Len(Bytes(s)) = Off(s, M) /\ Off(s, 0) = 0
           /\ \A m \in 0..M : Off(s, m) \in Nat
           /\ \A m \in 1..M :
                 /\ Lines(s)[m] \in Seq(Plain) /\ Len(Lines(s)[m]) \in Nat
                 /\ Off(s, m) = Off(s, m - 1) + (Len(Lines(s)[m]) + D)
                 /\ Off(s, m) <= Len(Bytes(s))
                 /\ \A c \in 1..Len(Lines(s)[m]) : Bytes(s)[Off(s, m - 1) + c] = Lines(s)[m][c]
                 /\ \A c \in 1..D :
                       Bytes(s)[Off(s, m - 1) + (Len(Lines(s)[m]) + c)] = s.delimiter[c]
<1> DEFINE M == Len(Lines(s))
           D == Len(s.delimiter)
           parts == EndedLines(s)
           L == Lines(s)
           d == s.delimiter
<1>1. M \in Nat /\ D \in Nat /\ d \in Seq(Byte) /\ L \in Seq(Seq(Plain)) /\ M = Len(L) /\ D = Len(d)
  BY LineFacts, DelimiterTypes
<1> HIDE DEF M, L, D, d
<1>2. \A m \in 1..M : L[m] \in Seq(Plain) /\ Len(L[m]) \in Nat
  BY <1>1, ElementOfSeq
<1>3. ASSUME NEW m \in 1..M
      PROVE  /\ L[m] \o d \in Seq(Byte) /\ Len(L[m] \o d) = Len(L[m]) + D
             /\ \A c \in 1..Len(L[m]) : c \in 1..Len(L[m] \o d) /\ (L[m] \o d)[c] = L[m][c]
             /\ \A c \in 1..D : /\ Len(L[m]) + c \in 1..Len(L[m] \o d)
                                /\ (L[m] \o d)[Len(L[m]) + c] = d[c]
  BY <1>2, <1>1 DEF Plain
<1>4. parts \in Seq(Seq(Byte)) /\ Len(parts) = M /\ \A i \in 1..M : parts[i] = L[i] \o d
  <2>1. parts = [n \in 1..M |-> L[n] \o d]
    BY DEF EndedLines, M, L, d
  <2>2. \A n \in 1..M : L[n] \o d \in Seq(Byte)
    BY <1>3
  <2> DEFINE g == [n \in 1..M |-> L[n] \o d]
  <2>3. DOMAIN g = 1..M /\ \A n \in 1..M : g[n] = L[n] \o d
    OBVIOUS
  <2>4. g \in Seq(Seq(Byte)) /\ Len(g) = M
    BY <2>2, <1>1
  <2> HIDE DEF g
  <2>5. parts = g
    BY <2>1 DEF g
  <2> QED BY <2>3, <2>4, <2>5
<1>5. Bytes(s) = Joined(parts)
  BY DEF Bytes, EndedLines
<1> HIDE DEF parts
<1>6. /\ Joined(parts) \in Seq(Byte) /\ Len(Joined(parts)) = Place(parts, M)
      /\ Place(parts, 0) = 0 /\ \A n \in 0..M : Place(parts, n) \in Nat
      /\ \A n \in 1..M :
            /\ Place(parts, n) = Place(parts, n - 1) + Len(parts[n])
            /\ Place(parts, n) <= Len(Joined(parts))
            /\ \A i \in 1..Len(parts[n]) : Joined(parts)[Place(parts, n - 1) + i] = parts[n][i]
  BY <1>4, JoinedFacts
<1>7. \A k : Place(parts, k) = Off(s, k)
  BY DEF Off, parts
<1>8. ASSUME NEW m \in 1..M
      PROVE  /\ Off(s, m) = Off(s, m - 1) + (Len(L[m]) + D) /\ Off(s, m) <= Len(Bytes(s))
             /\ \A c \in 1..Len(L[m]) : Bytes(s)[Off(s, m - 1) + c] = L[m][c]
             /\ \A c \in 1..D : Bytes(s)[Off(s, m - 1) + (Len(L[m]) + c)] = d[c]
  <2>1. parts[m] = L[m] \o d /\ Len(parts[m]) = Len(L[m]) + D
    BY <1>3, <1>4
  <2>2. /\ \A c \in 1..Len(L[m]) : c \in 1..Len(parts[m]) /\ parts[m][c] = L[m][c]
        /\ \A c \in 1..D : Len(L[m]) + c \in 1..Len(parts[m]) /\ parts[m][Len(L[m]) + c] = d[c]
    BY <1>3, <2>1
  <2>3. Off(s, m) = Off(s, m - 1) + (Len(L[m]) + D) /\ Off(s, m) <= Len(Bytes(s))
    BY <1>5, <1>6, <1>7, <2>1
  <2>4. \A i \in 1..Len(parts[m]) : Bytes(s)[Off(s, m - 1) + i] = parts[m][i]
    BY <1>5, <1>6, <1>7
  <2> QED BY <2>2, <2>3, <2>4
<1> QED BY <1>1, <1>2, <1>5, <1>6, <1>7, <1>8 DEF M, L, D, d

-----------------------------------------------------------------------------
(* The text of an answer.                                                  *)

CountTo(k) == [i \in 1..k |-> i]
TextPlaces(s) == {i \in 1..Len(s.events) : CarriesText(s, i)}
TextsOf(s, k) == Filtered(CountTo(k), TextPlaces(s))

LEMMA CountingTypes == ASSUME NEW k \in Nat PROVE CountTo(k) \in Seq(Nat)
BY DEF CountTo

LEMMA TextsType == ASSUME NEW s, NEW k \in Nat PROVE TextsOf(s, k) \in Seq(Nat)
BY CountingTypes, FilteredTyped DEF TextsOf, SiftedIn

LEMMA TextsGrow ==
    ASSUME NEW s \in StreamRecords, NEW k \in Nat, k + 1 <= Len(s.events)
    PROVE  TextsOf(s, k + 1) =
               IF CarriesText(s, k + 1) THEN Append(TextsOf(s, k), k + 1) ELSE TextsOf(s, k)
<1> DEFINE c == CountTo(k)
           n == k + 1
           kept == TextPlaces(s)
<1>1. Len(s.events) \in Nat
  BY LineFacts
<1>2. c \in Seq(Nat) /\ Len(c) = k /\ n \in Nat /\ \A i \in 1..k : c[i] = i
  BY CountingTypes DEF CountTo
<1>3. CountTo(n) \in Seq(Nat) /\ Len(CountTo(n)) = n /\ \A i \in 1..n : CountTo(n)[i] = i
  BY CountingTypes DEF CountTo
<1>4. n \in kept <=> CarriesText(s, n)
  BY <1>1 DEF TextPlaces
<1> HIDE DEF c
<1>5. /\ Append(c, n) \in Seq(Nat) /\ Len(Append(c, n)) = n
      /\ \A i \in 1..n : Append(c, n)[i] = i
  BY <1>2
<1> HIDE DEF n, kept
<1>6. CountTo(n) = Append(c, n)
  BY <1>3, <1>5, SeqEqual
<1>7. Filtered(Append(c, n), kept) =
         IF n \in kept THEN Append(Filtered(c, kept), n) ELSE Filtered(c, kept)
  BY <1>2, FilteredGrows
<1>8. TextsOf(s, n) = Filtered(Append(c, n), kept) /\ TextsOf(s, k) = Filtered(c, kept)
  BY <1>6 DEF TextsOf, c, kept
<1>9. TextsOf(s, n) = IF CarriesText(s, n) THEN Append(TextsOf(s, k), n) ELSE TextsOf(s, k)
  BY <1>4, <1>7, <1>8
<1> QED BY <1>9 DEF n

\* The text only grows, and where none follows it is whole.
LEMMA TextsRest ==
    ASSUME NEW s \in StreamRecords, NEW k \in 0..Len(s.events)
    PROVE  /\ Len(TextsOf(s, k)) <= Len(TextsOf(s, Len(s.events)))
           /\ (\A i \in (k + 1)..Len(s.events) : ~CarriesText(s, i))
                  => TextsOf(s, Len(s.events)) = TextsOf(s, k)
<1> DEFINE K == Len(s.events)
           Bare == \A i \in (k + 1)..K : ~CarriesText(s, i)
           G == {n \in Nat : k + n <= K =>
                    /\ Len(TextsOf(s, k)) <= Len(TextsOf(s, k + n))
                    /\ Bare => TextsOf(s, k + n) = TextsOf(s, k)}
<1>1. K \in Nat /\ k \in Nat /\ k <= K
  BY LineFacts
<1>2. TextsOf(s, k) \in Seq(Nat) /\ Len(TextsOf(s, k)) \in Nat
  BY <1>1, TextsType
<1>3. 0 \in G
  <2>1. k + 0 = k
    BY <1>1
  <2> QED BY <1>2, <2>1
<1>4. ASSUME NEW n \in Nat, n \in G PROVE n + 1 \in G
  <2> SUFFICES ASSUME k + (n + 1) <= K
               PROVE  /\ Len(TextsOf(s, k)) <= Len(TextsOf(s, k + (n + 1)))
                      /\ Bare => TextsOf(s, k + (n + 1)) = TextsOf(s, k)
    OBVIOUS
  <2> DEFINE m == k + n
  <2>1. m \in Nat /\ k + (n + 1) = m + 1 /\ m + 1 <= K /\ m <= K /\ m + 1 \in (k + 1)..K
    BY <1>1
  <2>2. Len(TextsOf(s, k)) <= Len(TextsOf(s, m)) /\ (Bare => TextsOf(s, m) = TextsOf(s, k))
    BY <1>4, <2>1
  <2> HIDE DEF m, G, Bare
  <2>3. TextsOf(s, m + 1) = IF CarriesText(s, m + 1) THEN Append(TextsOf(s, m), m + 1) ELSE TextsOf(s, m)
    BY <2>1, TextsGrow
  <2>4. TextsOf(s, m) \in Seq(Nat) /\ Len(TextsOf(s, m)) \in Nat
    BY <2>1, TextsType
  <2>5. Len(Append(TextsOf(s, m), m + 1)) = Len(TextsOf(s, m)) + 1
    BY <2>4
  <2>6. Bare => ~CarriesText(s, m + 1)
    BY <2>1 DEF Bare
  <2>7. Len(TextsOf(s, k)) <= Len(TextsOf(s, m + 1))
    <3> DEFINE a == Len(TextsOf(s, k))
               b == Len(TextsOf(s, m))
               c == Len(TextsOf(s, m + 1))
    <3>1. c = b \/ c = b + 1
      BY <2>3, <2>5
    <3>2. a \in Nat /\ b \in Nat /\ a <= b
      BY <1>2, <2>2, <2>4
    <3> HIDE DEF a, b, c
    <3>3. a <= c
      BY <3>1, <3>2
    <3> QED BY <3>3 DEF a, c
  <2> QED BY <2>1, <2>2, <2>3, <2>6, <2>7
<1> HIDE DEF G, Bare
<1>5. Nat \subseteq G
  BY <1>3, <1>4, CountingUp
<1>6. K - k \in Nat /\ k + (K - k) = K /\ K <= K
  BY <1>1
<1>7. K - k \in G
  BY <1>5, <1>6
<1>8. /\ Len(TextsOf(s, k)) <= Len(TextsOf(s, K))
      /\ Bare => TextsOf(s, K) = TextsOf(s, k)
  BY <1>6, <1>7 DEF G
<1> QED BY <1>8 DEF Bare

LEMMA AnswerIs ==
    ASSUME NEW s \in StreamRecords
    PROVE  /\ Answer(s) = IF TextsOf(s, Len(s.events)) = <<>> /\ s.events[1] = "whole" THEN <<1>>
                          ELSE TextsOf(s, Len(s.events))
           /\ Answer(s) \in Seq(Nat) /\ Len(Answer(s)) \in Nat
BY LineFacts, TextsType DEF Answer, TextsOf, CountTo, TextPlaces

-----------------------------------------------------------------------------
(* The reader keeps its type.                                              *)

GoodReaders == {r \in Readers : Len(r.content) <= MaxContentCharacters}

LEMMA AppendTypes ==
    ASSUME NEW r \in GoodReaders, NEW text \in Seq(Nat)
    PROVE  AppendContent(r, text) \in GoodReaders
<1>1. MaxContentCharacters \in Nat /\ r \in Readers /\ r.content \in Seq(Nat)
  BY ProviderStreamAssumption DEF GoodReaders, Readers
<1>2. Len(r.content \o text) = Len(r.content) + Len(text) /\ r.content \o text \in Seq(Nat)
  BY <1>1
<1> DEFINE new == r.content \o text
<1> HIDE DEF new
<1>3. CASE text = <<>>
  BY <1>3 DEF AppendContent
<1>4. CASE text # <<>> /\ Len(r.content) + Len(text) > MaxContentCharacters
  BY <1>1, <1>4 DEF AppendContent, Fail, GoodReaders, Readers
<1>5. CASE text # <<>> /\ ~(Len(r.content) + Len(text) > MaxContentCharacters)
  <2>1. AppendContent(r, text) = [r EXCEPT !.content = new]
    BY <1>5 DEF AppendContent, new
  <2>2. new \in Seq(Nat) /\ Len(new) <= MaxContentCharacters
    BY <1>1, <1>2, <1>5 DEF new
  <2> QED BY <1>1, <2>1, <2>2 DEF GoodReaders, Readers
<1> QED BY <1>3, <1>4, <1>5

LEMMA DispatchTypes ==
    ASSUME stream \in StreamRecords, NEW r \in GoodReaders, NEW kind, NEW i \in Nat
    PROVE  Dispatch(r, kind, i) \in GoodReaders
<1> DEFINE x == <<i>>
           answer == Answer(stream)
           added == AppendContent(r, x)
           one == <<answer>>
           none == <<<<>>>>
           both == r.inputUsage \cup {"output"}
<1>1. x \in Seq(Nat) /\ answer \in Seq(Nat)
  BY AnswerIs
<1>2. added \in GoodReaders /\ AppendContent(r, answer) \in GoodReaders
  BY <1>1, AppendTypes
<1>3. one \in Seq(Seq(Nat)) /\ none \in Seq(Seq(Nat)) /\ AllUsage \in SUBSET AllUsage
  BY <1>1
<1>4. {"input"} \in SUBSET AllUsage /\ both \in SUBSET AllUsage
  BY DEF AllUsage, GoodReaders, Readers
<1> HIDE DEF x, answer, one, none, added, both
<1>5. AcceptChat(r, kind, i) \in GoodReaders
  BY <1>2, <1>3 DEF AcceptChat, GoodReaders, Readers, x, added
<1>6. AcceptOpenAi(r, kind, i) \in GoodReaders
  BY <1>2, <1>3 DEF AcceptOpenAi, GoodReaders, Readers, x, added, answer, one, none
<1>7. AcceptAnthropic(r, kind, i) \in GoodReaders
  BY <1>2, <1>3, <1>4 DEF AcceptAnthropic, GoodReaders, Readers, x, added, both
<1>8. AcceptLegacyGoogle(r, kind, i) \in GoodReaders
  BY <1>2, <1>3 DEF AcceptLegacyGoogle, GoodReaders, Readers, x, added
<1>9. AcceptGoogle(r, kind, i) \in GoodReaders
  BY <1>2, <1>3 DEF AcceptGoogle, GoodReaders, Readers, x, added, answer, one, none
<1> QED BY <1>5, <1>6, <1>7, <1>8, <1>9 DEF Dispatch

LEMMA AcceptTypes ==
    ASSUME stream \in StreamRecords, NEW r \in GoodReaders, NEW data \in Seq(Byte), data # <<>>
    PROVE  AcceptEvent(r, data) \in GoodReaders
<1> DEFINE i == data[1][1]
           done == [r EXCEPT !.done = TRUE]
<1>1. Len(data) \in Nat /\ Len(data) # 0
  BY EmptySeq
<1>2. data[1] \in Byte
  BY <1>1, ElementOfSeq
<1>3. i \in Nat
  BY <1>2 DEF Byte
<1> HIDE DEF i
<1>4. done \in GoodReaders
  BY DEF GoodReaders, Readers
<1>5. Fail(r) \in GoodReaders
  BY DEF GoodReaders, Readers, Fail
<1>6. \A kind : Dispatch(r, kind, i) \in GoodReaders
  BY <1>3, DispatchTypes
<1> QED BY <1>4, <1>5, <1>6 DEF AcceptEvent, i

LEMMA EndEventTypes ==
    ASSUME stream \in StreamRecords, NEW r \in GoodReaders PROVE EndEvent(r) \in GoodReaders
<1> DEFINE taken == AcceptEvent(r, r.dataLines)
<1>1. r.dataLines \in Seq(Byte) /\ <<>> \in Seq(Byte)
  BY DEF GoodReaders, Readers
<1>2. r.dataLines # <<>> => taken \in GoodReaders
  BY <1>1, AcceptTypes
<1> HIDE DEF taken
<1>3. EndEvent(r) = IF r.dataLines = <<>> THEN r ELSE [taken EXCEPT !.dataLines = <<>>]
  BY DEF EndEvent, taken
<1> QED BY <1>1, <1>2, <1>3 DEF GoodReaders, Readers

LEMMA TakeLineTypes ==
    ASSUME stream \in StreamRecords, NEW r \in GoodReaders, NEW line \in Seq(Byte)
    PROVE  TakeLine(r, line) \in GoodReaders
<1> DEFINE more == r.dataLines \o line
<1>1. more \in Seq(Byte)
  BY DEF GoodReaders, Readers
<1> HIDE DEF more
<1>2. [r EXCEPT !.dataLines = more] \in GoodReaders
  BY <1>1 DEF GoodReaders, Readers
<1> QED BY <1>2, EndEventTypes DEF TakeLine, more

-----------------------------------------------------------------------------
(* What the reader holds after the first k events.                         *)

Seen(k, kind) == \E i \in 1..k : stream.events[i] = kind
Concluded(k) == stream.dialect # "chat" /\ \E i \in 1..k : stream.events[i] \in Enders(stream.dialect)
WithBody == {"openai", "google"}

Gathered(k) ==
    IF TextsOf(stream, k) = <<>> /\ Seen(k, "whole") THEN Answer(stream) ELSE TextsOf(stream, k)

HasRead(k, r) ==
    /\ r.content = Gathered(k)
    /\ r.done <=> Seen(k, "done")
    /\ r.finishReason <=> Seen(k, "finish")
    /\ r.terminal <=> Concluded(k)
    /\ stream.dialect \in WithBody =>
          (r.terminal => r.finalBody = <<Answer(stream)>> \/ r.finalBody = <<<<>>>>)
    /\ stream.dialect \notin WithBody => r.finalBody = <<>>
    /\ (stream.dialect # "anthropic" /\ r.terminal) => r.usage = AllUsage
    /\ (stream.dialect = "chat" /\ Seen(k, "usage")) => r.usage = AllUsage
    /\ (stream.dialect = "anthropic" /\ k >= 1) => r.inputUsage = {"input"}
    /\ (stream.dialect = "anthropic" /\ Seen(k, "finish")) => r.usage = AllUsage

\* Why a reader may fail.
Excused == ~Answered(stream) \/ Len(Answer(stream)) > MaxContentCharacters

Whole(i) == <<<<i, 1>>, <<i, 2>>>>

LEMMA SeenStep ==
    ASSUME NEW k \in Nat
    PROVE  /\ \A kind : Seen(k + 1, kind) <=> Seen(k, kind) \/ stream.events[k + 1] = kind
           /\ Concluded(k + 1) <=> \/ Concluded(k)
                               \/ /\ stream.dialect # "chat"
                                  /\ stream.events[k + 1] \in Enders(stream.dialect)
BY DEF Seen, Concluded

\* An event of text adds to what is gathered, a whole text replaces nothing.
LEMMA GatheredStep ==
    ASSUME stream \in StreamRecords, NEW k \in Nat, k + 1 <= Len(stream.events)
    PROVE  /\ Gathered(k) \in Seq(Nat)
           /\ CarriesText(stream, k + 1) =>
                 Gathered(k + 1) = Gathered(k) \o <<k + 1>>
           /\ stream.events[k + 1] = "whole" =>
                 Gathered(k + 1) = IF Gathered(k) = <<>> THEN Answer(stream) ELSE Gathered(k)
           /\ (~CarriesText(stream, k + 1) /\ stream.events[k + 1] # "whole") =>
                 Gathered(k + 1) = Gathered(k)
           /\ Len(Gathered(k + 1)) <= Len(Answer(stream))
<1> DEFINE K == Len(stream.events)
           n == k + 1
           p == TextsOf(stream, k)
           q == TextsOf(stream, n)
           all == TextsOf(stream, K)
           answer == Answer(stream)
           kind == stream.events[n]
<1>1. K \in Nat /\ n \in Nat /\ n <= K /\ n \in 1..K /\ n \in 0..K
  BY LineFacts
<1>2. /\ p \in Seq(Nat) /\ q \in Seq(Nat) /\ all \in Seq(Nat)
      /\ answer \in Seq(Nat)
      /\ answer = IF all = <<>> /\ stream.events[1] = "whole" THEN <<1>> ELSE all
  BY <1>1, TextsType, AnswerIs
<1>3. q = IF CarriesText(stream, n) THEN Append(p, n) ELSE p
  BY <1>1, TextsGrow
<1>4. Len(q) <= Len(all)
  BY <1>1, TextsRest
<1>5. \A x : Seen(n, x) <=> Seen(k, x) \/ kind = x
  BY SeenStep
<1>6. CarriesText(stream, n) => kind # "whole" /\ ~Seen(k, "whole")
  <2> SUFFICES ASSUME CarriesText(stream, n) PROVE kind # "whole" /\ ~Seen(k, "whole")
    OBVIOUS
  <2>1. Orderly(stream.dialect, stream.events)
    BY StreamFields, TranscriptOrder
  <2>2. kind = "text" \/ (kind = "finish" /\ stream.dialect = "legacyGoogle")
    BY DEF CarriesText
  <2>3. kind # "whole"
    BY <2>2
  <2>4. CASE kind = "text"
    BY <1>1, <2>1, <2>4, <2>3 DEF Orderly, Seen
  <2>5. CASE stream.dialect = "legacyGoogle"
    BY <1>1, <2>1, <2>5, ElementOfSeq, <2>3 DEF Orderly, KindsOf, Seen
  <2> QED BY <2>2, <2>4, <2>5
<1>7. Gathered(k) = (IF p = <<>> /\ Seen(k, "whole") THEN answer ELSE p)
      /\ Gathered(n) = (IF q = <<>> /\ Seen(n, "whole") THEN answer ELSE q)
  BY DEF Gathered
<1> HIDE DEF p, q, all, answer, kind, K, n
<1>8. Append(p, n) = p \o <<n>> /\ Append(p, n) # <<>> /\ Append(p, n) \in Seq(Nat)
  <2>1. n \in Nat /\ p \in Seq(Nat)
    BY <1>1, <1>2
  <2>2. Append(p, n) # <<>> /\ Append(p, n) \in Seq(Nat)
    BY <2>1, AppendLast
  <2>3. Append(p, n) = p \o <<n>>
    BY ONLY <2>1
  <2> QED BY <2>2, <2>3
<1>9. CASE CarriesText(stream, n)
  <2>1. Gathered(k) = p /\ q = Append(p, n) /\ Gathered(n) = q
    BY <1>3, <1>6, <1>7, <1>8, <1>9
  <2>2. Len(Append(p, n)) # 0 /\ Len(Append(p, n)) = Len(p) + 1 /\ Len(p) \in Nat
    BY <1>2
  <2>3. all # <<>>
    BY <1>2, <1>4, <2>1, <2>2, EmptySeq
  <2> QED BY <1>2, <1>4, <1>6, <1>8, <1>9, <2>1, <2>3 DEF n, kind, answer
<1>10. CASE ~CarriesText(stream, n)
  <2>1. q = p
    BY <1>3, <1>10
  <2>2. Len(Gathered(n)) <= Len(answer)
    BY <1>7, <1>2, EmptySeq, <1>4
  <2>3. Gathered(k) \in Seq(Nat)
    BY <1>2, <1>7
  <2>4. kind = "whole" => Gathered(n) = IF Gathered(k) = <<>> THEN answer ELSE Gathered(k)
    BY <1>5, <1>7, <2>1
  <2>5. kind # "whole" => Gathered(n) = Gathered(k)
    BY <1>5, <1>7, <2>1
  <2> QED BY <1>10, <2>2, <2>3, <2>4, <2>5 DEF n, kind, answer
<1> QED BY <1>9, <1>10

\* One more event: it is taken as sent, or the reader fails for a reason.
LEMMA EventStep ==
    ASSUME stream \in StreamRecords, NEW k \in Nat, k + 1 <= Len(stream.events),
           NEW r \in GoodReaders, ~r.failed, HasRead(k, r), stream.events[k + 1] # "comment"
    PROVE  /\ AcceptEvent(r, Whole(k + 1)).failed => Excused
           /\ ~AcceptEvent(r, Whole(k + 1)).failed => HasRead(k + 1, AcceptEvent(r, Whole(k + 1)))
<1> DEFINE n == k + 1
           K == Len(stream.events)
           d == stream.dialect
           kind == stream.events[n]
           r2 == AcceptEvent(r, Whole(n))
           answer == Answer(stream)
           text == Gathered(n)
<1>1. K \in Nat /\ n \in 1..K /\ n \in Nat /\ k < K
  BY LineFacts
<1>2. Orderly(d, stream.events) /\ d \in Dialects /\ (d = "anthropic" => stream.events[1] = "start")
  BY StreamFields, TranscriptOrder
<1>3. \A i \in 1..K : stream.events[i] \in KindsOf(d)
  BY <1>2, ElementOfSeq DEF Orderly
<1>4. kind \in KindsOf(d) /\ kind # "comment"
  BY <1>1, <1>3
<1>5. /\ \A x : Seen(n, x) <=> Seen(k, x) \/ kind = x
      /\ Concluded(n) <=> Concluded(k) \/ (d # "chat" /\ kind \in Enders(d))
  BY SeenStep
<1>6. /\ Gathered(k) \in Seq(Nat)
      /\ CarriesText(stream, n) => text = Gathered(k) \o <<n>>
      /\ kind = "whole" => text = IF Gathered(k) = <<>> THEN answer ELSE Gathered(k)
      /\ (~CarriesText(stream, n) /\ kind # "whole") => text = Gathered(k)
      /\ Len(text) <= Len(answer)
  BY <1>1, GatheredStep
<1>7. CarriesText(stream, n) <=> kind = "text" \/ (kind = "finish" /\ d = "legacyGoogle")
  BY DEF CarriesText
<1>8. r2 = IF kind = "done" THEN [r EXCEPT !.done = TRUE]
           ELSE IF r.done \/ kind = "error" THEN Fail(r) ELSE Dispatch(r, kind, n)
  BY DEF Whole, AcceptEvent
<1>9. r \in Readers /\ answer \in Seq(Nat) /\ Len(answer) \in Nat /\ MaxContentCharacters \in Nat
  BY AnswerIs, ProviderStreamAssumption DEF GoodReaders
<1>10. Answered(stream) => (\A i \in 1..K : stream.events[i] # "error")
                           /\ (d = "chat" => stream.events[K] = "done")
  BY DEF Answered, Last
<1>11. Len(answer) > MaxContentCharacters => Excused
  BY DEF Excused
<1>12. r.content = Gathered(k) /\ r.content \in Seq(Nat)
  BY <1>6 DEF HasRead
<1> HIDE DEF n, K, d, kind, r2, answer, text
\* the text that an event carries
<1> DEFINE a == AppendContent(r, <<n>>)
           b == AppendContent(r, answer)
<1>13. ASSUME CarriesText(stream, n)
       PROVE  \/ a = Fail(r) /\ Excused
              \/ a = [r EXCEPT !.content = text]
  <2>1. <<n>> # <<>> /\ Len(<<n>>) = 1
    OBVIOUS
  <2>2. text = r.content \o <<n>> /\ Len(r.content \o <<n>>) = Len(r.content) + 1
        /\ Len(r.content) \in Nat
    BY <1>1, <1>6, <1>12, <1>13
  <2>3. CASE Len(r.content) + 1 > MaxContentCharacters
    BY <1>6, <1>9, <2>2, <2>3, <1>11, <2>1 DEF AppendContent
  <2>4. CASE ~(Len(r.content) + 1 > MaxContentCharacters)
    BY <2>1, <2>2, <2>4 DEF AppendContent
  <2> QED BY <2>3, <2>4
<1>14. ASSUME r.content = <<>>
       PROVE  \/ b = Fail(r) /\ Excused
              \/ answer = <<>> /\ b = r
              \/ b = [r EXCEPT !.content = answer]
  BY <1>9, <1>11, <1>14 DEF AppendContent
<1> HIDE DEF a, b
<1>15. CASE kind = "done"
  <2>1. d = "chat"
    BY <1>2, <1>4, <1>15 DEF KindsOf, Dialects
  <2>2. r2 = [r EXCEPT !.done = TRUE] /\ text = Gathered(k)
    BY <1>6, <1>7, <1>8, <1>15
  <2>3. ~r2.failed
    BY <1>9, <2>2 DEF Readers
  <2>4. HasRead(n, r2)
    BY <1>5, <1>9, <1>15, <2>1, <2>2 DEF HasRead, Readers, d, text, WithBody
  <2> QED BY <2>3, <2>4 DEF r2, n
<1>16. CASE kind # "done" /\ (r.done \/ kind = "error")
  <2>1. ~Answered(stream)
    <3>1. CASE kind = "error"
      BY <1>1, <1>10, <3>1 DEF kind
    <3>2. CASE r.done
      BY <3>2, <1>1, <1>2, <1>3, <1>10 DEF HasRead, Seen, KindsOf, Dialects, Orderly, K
    <3> QED BY <1>16, <3>1, <3>2
  <2>2. r2.failed
    BY <1>8, <1>9, <1>16 DEF Fail, Readers
  <2> QED BY <2>1, <2>2 DEF Excused, r2, n
<1>17. CASE kind # "done" /\ ~r.done /\ kind # "error"
  <2>1. r2 = Dispatch(r, kind, n)
    BY <1>8, <1>17
  <2>2. CASE d = "chat"
    <3>1. kind \in {"text", "reasoning", "finish", "usage"}
      BY <1>4, <1>17, <2>2 DEF KindsOf
    <3>2. r2 = AcceptChat(r, kind, n)
      BY <2>1, <2>2 DEF Dispatch, d
    <3>3. CASE kind = "text"
      <4>1. r2 = a
        BY <3>2, <3>3 DEF AcceptChat, a
      <4> QED BY <1>5, <1>7, <1>9, <1>13, <2>2, <3>3, <4>1 DEF HasRead, Readers, Fail, r2, n, d, text, WithBody
    <3>4. CASE kind = "finish"
      <4>1. r2 = [r EXCEPT !.finishReason = TRUE]
        BY <3>2, <3>4 DEF AcceptChat
      <4> QED BY <1>5, <1>6, <1>7, <1>9, <2>2, <3>4, <4>1 DEF HasRead, Readers, r2, n, d, text, WithBody
    <3>5. CASE kind = "usage"
      <4>1. r2 = [r EXCEPT !.usage = AllUsage]
        BY <3>2, <3>5 DEF AcceptChat
      <4> QED BY <1>5, <1>6, <1>7, <1>9, <2>2, <3>5, <4>1 DEF HasRead, Readers, r2, n, d, text, WithBody
    <3>6. CASE kind = "reasoning"
      <4>1. r2 = r
        BY <3>2, <3>6 DEF AcceptChat
      <4> QED BY <1>5, <1>6, <1>7, <1>9, <2>2, <3>6, <4>1 DEF HasRead, Readers, r2, n, d, text, WithBody
    <3> QED BY <3>1, <3>3, <3>4, <3>5, <3>6
  <2>3. CASE d = "openai"
    <3>1. kind \in {"text", "reasoning", "whole", "completed", "completedBare"}
          /\ Enders(d) = {"completed", "completedBare"}
      BY <1>4, <1>17, <2>3 DEF KindsOf, Enders
    <3>2. r2 = AcceptOpenAi(r, kind, n)
      BY <2>1, <2>3 DEF Dispatch, d
    <3>3. CASE kind = "text"
      <4>1. r2 = a
        BY <3>2, <3>3 DEF AcceptOpenAi, a
      <4> QED BY <1>5, <1>7, <1>9, <1>13, <2>3, <3>1, <3>3, <4>1 DEF HasRead, Readers, Fail, r2, n, d, text, WithBody
    <3>4. CASE kind = "whole" /\ r.content = <<>>
      <4>1. r2 = b /\ text = answer
        BY <1>6, <1>12, <3>2, <3>4 DEF AcceptOpenAi, b, answer
      <4> QED BY <1>5, <1>9, <1>14, <2>3, <3>1, <3>4, <4>1 DEF HasRead, Readers, Fail, r2, n, d, text, WithBody
    <3>5. CASE kind = "completed"
      <4> DEFINE one == <<answer>>
      <4>1. r2 = [r EXCEPT !.terminal = TRUE, !.finalBody = one, !.usage = AllUsage]
        BY <3>2, <3>5 DEF AcceptOpenAi, answer
      <4> HIDE DEF one
      <4>2. r2.finalBody = <<Answer(stream)>>
        BY <1>9, <4>1 DEF one, answer, Readers
      <4> QED BY <1>5, <1>6, <1>7, <1>9, <2>3, <3>1, <3>5, <4>1, <4>2 DEF HasRead, Readers, r2, n, d, text, WithBody
    <3>6. CASE kind = "completedBare"
      <4> DEFINE none == <<<<>>>>
      <4>1. r2 = [r EXCEPT !.terminal = TRUE, !.finalBody = none, !.usage = AllUsage]
        BY <3>2, <3>6 DEF AcceptOpenAi
      <4> HIDE DEF none
      <4>2. r2.finalBody = <<<<>>>>
        BY <1>9, <4>1 DEF none, Readers
      <4> QED BY <1>5, <1>6, <1>7, <1>9, <2>3, <3>1, <3>6, <4>1, <4>2 DEF HasRead, Readers, r2, n, d, text, WithBody
    <3>7. CASE kind = "reasoning" \/ (kind = "whole" /\ r.content # <<>>)
      <4>1. r2 = r /\ text = Gathered(k)
        BY <1>6, <1>7, <1>12, <3>2, <3>7 DEF AcceptOpenAi
      <4> QED BY <1>5, <1>9, <2>3, <3>1, <3>7, <4>1 DEF HasRead, Readers, r2, n, d, text, WithBody
    <3> QED BY <3>1, <3>3, <3>4, <3>5, <3>6, <3>7
  <2>4. CASE d = "anthropic"
    <3>1. kind \in {"text", "reasoning", "start", "finish", "stop"} /\ Enders(d) = {"stop"}
      BY <1>4, <1>17, <2>4 DEF KindsOf, Enders
    <3>2. r2 = AcceptAnthropic(r, kind, n)
      BY <2>1, <2>4 DEF Dispatch, d
    <3>3. kind # "start" => k >= 1
      BY <1>2, <2>4 DEF kind, n
    <3>4. CASE kind = "text"
      <4>1. r2 = a
        BY <3>2, <3>4 DEF AcceptAnthropic, a
      <4> QED BY <1>5, <1>7, <1>9, <1>13, <2>4, <3>1, <3>3, <3>4, <4>1 DEF HasRead, Readers, Fail, r2, n, d, text, WithBody
    <3>5. CASE kind = "start"
      <4>1. r2 = [r EXCEPT !.inputUsage = {"input"}]
        BY <3>2, <3>5 DEF AcceptAnthropic
      <4> QED BY <1>5, <1>6, <1>7, <1>9, <2>4, <3>1, <3>5, <4>1 DEF HasRead, Readers, r2, n, d, text, WithBody
    <3>6. CASE kind = "finish"
      <4>1. r.inputUsage \cup {"output"} = AllUsage
        BY <2>4, <3>3, <3>6 DEF HasRead, AllUsage, d
      <4>2. r2 = [r EXCEPT !.finishReason = TRUE, !.usage = AllUsage]
        BY <3>2, <3>6, <4>1 DEF AcceptAnthropic
      <4> QED BY <1>5, <1>6, <1>7, <1>9, <2>4, <3>1, <3>3, <3>6, <4>2 DEF HasRead, Readers, r2, n, d, text, WithBody
    <3>7. CASE kind = "stop"
      <4>1. r2 = [r EXCEPT !.terminal = TRUE]
        BY <3>2, <3>7 DEF AcceptAnthropic
      <4> QED BY <1>5, <1>6, <1>7, <1>9, <2>4, <3>1, <3>3, <3>7, <4>1 DEF HasRead, Readers, r2, n, d, text, WithBody
    <3>8. CASE kind = "reasoning"
      <4>1. r2 = r
        BY <3>2, <3>8 DEF AcceptAnthropic
      <4> QED BY <1>5, <1>6, <1>7, <1>9, <2>4, <3>1, <3>3, <3>8, <4>1 DEF HasRead, Readers, r2, n, d, text, WithBody
    <3> QED BY <3>1, <3>4, <3>5, <3>6, <3>7, <3>8
  <2>5. CASE d = "google"
    <3>1. kind \in {"text", "reasoning", "completed", "completedBare"}
          /\ Enders(d) = {"completed", "completedBare"}
      BY <1>4, <1>17, <2>5 DEF KindsOf, Enders
    <3>2. r2 = AcceptGoogle(r, kind, n)
      BY <2>1, <2>5 DEF Dispatch, d
    <3>3. CASE kind = "text"
      <4>1. r2 = a
        BY <3>2, <3>3 DEF AcceptGoogle, a
      <4> QED BY <1>5, <1>7, <1>9, <1>13, <2>5, <3>1, <3>3, <4>1 DEF HasRead, Readers, Fail, r2, n, d, text, WithBody
    <3>5. CASE kind = "completed"
      <4> DEFINE one == <<answer>>
      <4>1. r2 = [r EXCEPT !.terminal = TRUE, !.finalBody = one, !.usage = AllUsage]
        BY <3>2, <3>5 DEF AcceptGoogle, answer
      <4> HIDE DEF one
      <4>2. r2.finalBody = <<Answer(stream)>>
        BY <1>9, <4>1 DEF one, answer, Readers
      <4> QED BY <1>5, <1>6, <1>7, <1>9, <2>5, <3>1, <3>5, <4>1, <4>2 DEF HasRead, Readers, r2, n, d, text, WithBody
    <3>6. CASE kind = "completedBare"
      <4> DEFINE none == <<<<>>>>
      <4>1. r2 = [r EXCEPT !.terminal = TRUE, !.finalBody = none, !.usage = AllUsage]
        BY <3>2, <3>6 DEF AcceptGoogle
      <4> HIDE DEF none
      <4>2. r2.finalBody = <<<<>>>>
        BY <1>9, <4>1 DEF none, Readers
      <4> QED BY <1>5, <1>6, <1>7, <1>9, <2>5, <3>1, <3>6, <4>1, <4>2 DEF HasRead, Readers, r2, n, d, text, WithBody
    <3>7. CASE kind = "reasoning"
      <4>1. r2 = r
        BY <3>2, <3>7 DEF AcceptGoogle
      <4> QED BY <1>5, <1>6, <1>7, <1>9, <2>5, <3>1, <3>7, <4>1 DEF HasRead, Readers, r2, n, d, text, WithBody
    <3> QED BY <3>1, <3>3, <3>5, <3>6, <3>7
  <2>6. CASE d = "legacyGoogle"
    <3>1. kind \in {"text", "reasoning", "finish"} /\ Enders(d) = {"finish"}
      BY <1>4, <1>17, <2>6 DEF KindsOf, Enders
    <3>2. r2 = AcceptLegacyGoogle(r, kind, n)
      BY <2>1, <2>6 DEF Dispatch, d
    <3>3. CASE kind = "text"
      <4>1. r2 = a
        BY <3>2, <3>3 DEF AcceptLegacyGoogle, a
      <4> QED BY <1>5, <1>7, <1>9, <1>13, <2>6, <3>1, <3>3, <4>1 DEF HasRead, Readers, Fail, r2, n, d, text, WithBody
    <3>4. CASE kind = "finish"
      <4>1. r2 = [a EXCEPT !.finishReason = TRUE, !.terminal = TRUE, !.usage = AllUsage]
        BY <3>2, <3>4 DEF AcceptLegacyGoogle, a
      <4> QED BY <1>5, <1>7, <1>9, <1>13, <2>6, <3>1, <3>4, <4>1 DEF HasRead, Readers, Fail, r2, n, d, text, WithBody
    <3>5. CASE kind = "reasoning"
      <4>1. r2 = r
        BY <3>2, <3>5 DEF AcceptLegacyGoogle
      <4> QED BY <1>5, <1>6, <1>7, <1>9, <2>6, <3>1, <3>5, <4>1 DEF HasRead, Readers, r2, n, d, text, WithBody
    <3> QED BY <3>1, <3>3, <3>4, <3>5
  <2> QED BY <1>2, <2>2, <2>3, <2>4, <2>5, <2>6 DEF Dialects
<1> QED BY <1>15, <1>16, <1>17

-----------------------------------------------------------------------------
(* What the reader holds after the first m lines.                          *)

\* The first j lines of an event.
Begun(i, j) ==
    IF j = 0 THEN <<>> ELSE IF j = 1 /\ Len(Written(stream, i)) = 3 THEN <<<<i, 1>>>> ELSE Whole(i)

ReaderAt(m, r) ==
    /\ r \in GoodReaders
    /\ \E k \in 0..Len(stream.events), j \in 0..2 :
          /\ m = LinesBefore(stream, k) + j
          /\ j > 0 => k < Len(stream.events) /\ j < Len(Written(stream, k + 1))
          /\ r.failed => Excused
          /\ ~r.failed => HasRead(k, r) /\ r.dataLines = Begun(k + 1, j)

LEMMA WrittenCases ==
    ASSUME NEW i \in Nat \ {0}
    PROVE  LET w == Written(stream, i) IN
           \/ /\ stream.events[i] = "comment" /\ Len(w) = 1 /\ w[1] = <<Colon>>
           \/ /\ stream.events[i] # "comment" /\ Len(w) = 3
              /\ w[1] = <<<<i, 1>>>> /\ w[2] = <<<<i, 2>>>> /\ w[3] = <<>>
           \/ /\ stream.events[i] # "comment" /\ Len(w) = 2
              /\ w[1] = <<<<i, 1>>, <<i, 2>>>> /\ w[2] = <<>>
BY DEF Written

\* Nothing but its data lines changes while an event is gathered.
LEMMA HeldApart ==
    ASSUME NEW k, NEW r \in GoodReaders, NEW data, HasRead(k, r)
    PROVE  /\ HasRead(k, [r EXCEPT !.dataLines = data])
           /\ [r EXCEPT !.dataLines = data].failed = r.failed
           /\ [r EXCEPT !.dataLines = data].dataLines = data
BY DEF HasRead, GoodReaders, Readers

LEMMA CommentHeld ==
    ASSUME stream \in StreamRecords, NEW k \in Nat, k + 1 <= Len(stream.events), NEW r \in GoodReaders,
           HasRead(k, r), stream.events[k + 1] = "comment"
    PROVE  HasRead(k + 1, r)
<1> DEFINE n == k + 1
<1>1. /\ \A x : Seen(n, x) <=> Seen(k, x) \/ x = "comment"
      /\ Concluded(n) <=> Concluded(k) \/ (stream.dialect # "chat" /\ "comment" \in Enders(stream.dialect))
  BY SeenStep
<1>2. "comment" \notin Enders(stream.dialect)
  BY DEF Enders
<1>3. Gathered(n) = Gathered(k)
  BY GatheredStep DEF CarriesText
<1>4. n \in Nat /\ r.usage \in SUBSET AllUsage
  BY DEF GoodReaders, Readers
<1>5. stream.dialect = "anthropic" => r.inputUsage = {"input"}
  BY StreamFields, TranscriptOrder DEF HasRead
<1> HIDE DEF n
<1>6. HasRead(n, r)
  BY <1>1, <1>2, <1>3, <1>5 DEF HasRead
<1> QED BY <1>6 DEF n

\* The blank line after the data of an event.
LEMMA EndWhole ==
    ASSUME stream \in StreamRecords, NEW k \in Nat, k + 1 <= Len(stream.events), NEW r \in GoodReaders,
           ~r.failed, HasRead(k, r), stream.events[k + 1] # "comment", r.dataLines = Whole(k + 1)
    PROVE  /\ EndEvent(r).failed => Excused
           /\ ~EndEvent(r).failed => HasRead(k + 1, EndEvent(r)) /\ EndEvent(r).dataLines = <<>>
<1> DEFINE taken == AcceptEvent(r, Whole(k + 1))
           none == <<>>
<1>1. Whole(k + 1) # <<>>
  BY DEF Whole
<1>2. EndEvent(r) = [taken EXCEPT !.dataLines = none]
  BY <1>1 DEF EndEvent
<1>3. (taken.failed => Excused) /\ (~taken.failed => HasRead(k + 1, taken))
  BY EventStep
<1>4. taken \in GoodReaders
  BY <1>1, AcceptTypes DEF GoodReaders, Readers
<1> HIDE DEF taken, none
<1>5. /\ ~taken.failed => HasRead(k + 1, [taken EXCEPT !.dataLines = none])
      /\ [taken EXCEPT !.dataLines = none].failed = taken.failed
      /\ [taken EXCEPT !.dataLines = none].dataLines = none
  BY <1>4, <1>3, HeldApart DEF GoodReaders, Readers
<1> QED BY <1>2, <1>3, <1>5 DEF none

\* One more line.
LEMMA AtStep ==
    ASSUME stream \in StreamRecords, NEW m \in Nat, m < Len(Lines(stream)), NEW r, ReaderAt(m, r)
    PROVE  ReaderAt(m + 1, TakeLine(r, Lines(stream)[m + 1]))
<1> DEFINE K == Len(stream.events)
           M == Len(Lines(stream))
           line == Lines(stream)[m + 1]
           new == TakeLine(r, line)
<1>1. PICK k \in 0..K, j \in 0..2 :
         /\ m = LinesBefore(stream, k) + j
         /\ j > 0 => k < K /\ j < Len(Written(stream, k + 1))
         /\ r.failed => Excused
         /\ ~r.failed => HasRead(k, r) /\ r.dataLines = Begun(k + 1, j)
  BY DEF ReaderAt
<1> DEFINE w == Written(stream, k + 1)
           n == k + 1
           size == Len(w)
<1>2. K \in Nat /\ k \in Nat /\ LinesBefore(stream, K) = M /\ M \in Nat /\ LinesBefore(stream, k) \in Nat
  BY LineFacts
<1>3. k < K
  BY <1>1, <1>2
<1>4. n \in 1..K /\ n - 1 = k /\ n \in Nat \ {0}
  BY <1>2, <1>3
<1>5. /\ LinesBefore(stream, n) = LinesBefore(stream, k) + size
      /\ \A q \in 1..size : Lines(stream)[LinesBefore(stream, k) + q] = w[q]
  BY <1>4, LineFacts
<1>6. \/ /\ stream.events[n] = "comment" /\ size = 1 /\ w[1] = <<Colon>>
      \/ /\ stream.events[n] # "comment" /\ size = 3
         /\ w[1] = <<<<n, 1>>>> /\ w[2] = <<<<n, 2>>>> /\ w[3] = <<>>
      \/ /\ stream.events[n] # "comment" /\ size = 2
         /\ w[1] = <<<<n, 1>>, <<n, 2>>>> /\ w[2] = <<>>
  BY <1>4, WrittenCases
<1>7. j + 1 \in 1..size /\ m + 1 = LinesBefore(stream, k) + (j + 1)
  BY <1>1, <1>2, <1>6
<1>8. line = w[j + 1]
  BY <1>5, <1>7
<1>9. r \in GoodReaders /\ line \in Seq(Byte)
  <2>1. m + 1 \in 1..M
    BY <1>2
  <2>2. line \in Seq(Plain)
    BY <2>1, LineFacts, ElementOfSeq
  <2> QED BY <2>2 DEF ReaderAt, Plain
<1>10. new \in GoodReaders
  BY <1>9, TakeLineTypes
<1>16. \A q : Begun(n, q) = IF q = 0 THEN <<>>
                           ELSE IF q = 1 /\ size = 3 THEN <<<<n, 1>>>> ELSE Whole(n)
  BY DEF Begun
<1>17. /\ m = LinesBefore(stream, k) + j /\ (j > 0 => j < size)
       /\ r.failed => Excused
       /\ ~r.failed => HasRead(k, r) /\ r.dataLines = Begun(n, j)
  BY <1>1
<1>18. size \in 1..3 /\ j \in 0..2
  BY <1>6
<1> HIDE DEF size, w, line, n, K, M
\* where the line is left
<1> HIDE DEF new
<1> DEFINE Open == j + 1 < size /\ ~new.failed => HasRead(k, new) /\ new.dataLines = Begun(n, j + 1)
           Shut == j + 1 = size /\ ~new.failed => HasRead(n, new) /\ new.dataLines = <<>>
<1>11. (new.failed => Excused) /\ Open /\ Shut => ReaderAt(m + 1, new)
  <2> SUFFICES ASSUME new.failed => Excused, Open, Shut PROVE ReaderAt(m + 1, new)
    OBVIOUS
  <2>1. CASE j + 1 < size
    <3>1. j + 1 \in 0..2 /\ k < K /\ k \in 0..K /\ n = k + 1
      BY <1>2, <1>3, <1>18, <2>1 DEF n
    <3>2. ~new.failed => HasRead(k, new) /\ new.dataLines = Begun(k + 1, j + 1)
      BY <2>1, <3>1
    <3>3. j + 1 < Len(Written(stream, k + 1))
      BY <2>1 DEF size, w, n
    <3> HIDE DEF Open, Shut
    <3> QED BY <1>7, <1>10, <3>1, <3>2, <3>3 DEF ReaderAt, K
  <2>2. CASE j + 1 = size
    <3>1. m + 1 = LinesBefore(stream, n) + 0 /\ n \in 0..K /\ 0 \in 0..2 /\ ~(0 > 0)
      BY <1>5, <1>7, <2>2, <1>4
    <3>2. ~new.failed => HasRead(n, new) /\ new.dataLines = Begun(n + 1, 0)
      BY <2>2 DEF Begun
    <3> HIDE DEF Open, Shut
    <3> QED BY <1>10, <3>1, <3>2 DEF ReaderAt, K
  <2> QED BY <1>7, <1>18, <2>1, <2>2
<1> HIDE DEF Open, Shut
<1> DEFINE more == r.dataLines \o line
           longer == [r EXCEPT !.dataLines = more]
<1>12. CASE r.failed
  BY <1>12, <1>11, <1>17 DEF TakeLine, new, Open, Shut, line
<1>13. CASE ~r.failed /\ stream.events[n] = "comment"
  <2>1. j = 0 /\ line = <<Colon>> /\ size = 1
    BY <1>17, <1>18, <1>6, <1>7, <1>8, <1>13
  <2>2. new = r
    BY <1>13, <2>1 DEF TakeLine, new
  <2>3. HasRead(k, r) /\ r.dataLines = <<>>
    BY <1>17, <1>13, <1>16, <2>1
  <2>4. HasRead(n, r)
    BY <1>2, <1>4, <1>9, <1>13, <2>3, CommentHeld DEF n, K
  <2>5. Open /\ Shut
    BY <2>1, <2>2, <2>3, <2>4 DEF Open, Shut
  <2> QED BY <1>11, <1>13, <2>2, <2>5 DEF new, line
<1>14. CASE ~r.failed /\ stream.events[n] # "comment" /\ j + 1 = size
  <2>1. line = <<>> /\ r.dataLines = Whole(n) /\ HasRead(k, r)
    BY <1>17, <1>18, <1>6, <1>8, <1>14, <1>16
  <2>2. new = EndEvent(r)
    BY <1>14, <2>1 DEF TakeLine, new
    <2>3. (new.failed => Excused) /\ (~new.failed => HasRead(n, new) /\ new.dataLines = <<>>)
    BY <1>2, <1>4, <1>9, <1>14, <2>1, <2>2, EndWhole DEF n, K
  <2>4. Open /\ Shut
    BY <1>14, <1>18, <2>3 DEF Open, Shut
  <2> QED BY <1>11, <2>3, <2>4 DEF new, line
<1>15. CASE ~r.failed /\ stream.events[n] # "comment" /\ j + 1 < size
  <2>1. HasRead(k, r) /\ line # <<>> /\ line[1] # Colon /\ more = Begun(n, j + 1)
    <3>1. CASE size = 3 /\ j = 0
      <4>1. line = <<<<n, 1>>>> /\ r.dataLines = <<>> /\ HasRead(k, r)
        BY <1>17, <1>18, <1>6, <1>8, <1>15, <1>16, <3>1
      <4>2. <<>> \o <<<<n, 1>>>> = <<<<n, 1>>>>
        OBVIOUS
      <4>3. <<n, 1>> # Colon /\ <<<<n, 1>>>> # <<>> /\ <<<<n, 1>>>>[1] = <<n, 1>>
        BY <1>4 DEF Colon
      <4>4. Begun(n, j + 1) = <<<<n, 1>>>>
        BY <1>16, <3>1
      <4> QED BY <4>1, <4>2, <4>3, <4>4
    <3>2. CASE size = 3 /\ j = 1
      <4>1. line = <<<<n, 2>>>> /\ r.dataLines = <<<<n, 1>>>> /\ HasRead(k, r)
        BY <1>17, <1>18, <1>6, <1>8, <1>15, <1>16, <3>2
      <4> DEFINE a == <<n, 1>>
                 b == <<n, 2>>
      <4>2. Whole(n) = <<a, b>> /\ b # Colon
        BY <1>4 DEF Whole, Colon
      <4>3. line = <<b>> /\ r.dataLines = <<a>>
        BY <4>1
      <4> HIDE DEF a, b
      <4>4. <<a>> \o <<b>> = <<a, b>>
        <5> DEFINE S == {a, b}
                   p == <<a>> \o <<b>>
                   q == <<a, b>>
        <5>1. <<a>> \in Seq(S) /\ <<b>> \in Seq(S)
          OBVIOUS
        <5>2. p \in Seq(S) /\ Len(p) = 2 /\ p[1] = a /\ p[2] = b
          BY <5>1
        <5>3. q \in Seq(S) /\ Len(q) = 2 /\ q[1] = a /\ q[2] = b
          OBVIOUS
        <5> HIDE DEF p, q
        <5>4. \A i \in 1..2 : p[i] = q[i]
          BY <5>2, <5>3
        <5>5. p = q
          BY <5>2, <5>3, <5>4, SeqEqual
        <5> QED BY <5>5 DEF p, q
      <4>5. <<b>> # <<>> /\ <<b>>[1] = b
        OBVIOUS
      <4>6. Begun(n, j + 1) = Whole(n)
        BY <1>16, <3>2
      <4> QED BY <4>1, <4>2, <4>3, <4>4, <4>5, <4>6
    <3>3. CASE size = 2 /\ j = 0
      <4> DEFINE both == Whole(n)
      <4>1. line = both /\ r.dataLines = <<>> /\ HasRead(k, r)
        BY <1>17, <1>18, <1>6, <1>8, <1>15, <1>16, <3>3 DEF Whole
      <4>2. both \in Seq(Byte) /\ both # <<>> /\ both[1] = <<n, 1>> /\ <<n, 1>> # Colon
        BY <1>4 DEF Whole, Byte, Colon
      <4> HIDE DEF both
      <4>3. <<>> \o both = both
        BY <4>2
      <4>4. Begun(n, j + 1) = Whole(n)
        BY <1>16, <3>3
      <4> QED BY <4>1, <4>2, <4>3, <4>4 DEF both
    <3> QED BY <1>17, <1>18, <1>6, <1>15, <3>1, <3>2, <3>3
  <2>2. new = longer
    BY <1>15, <2>1 DEF TakeLine, new
  <2>3. HasRead(k, longer) /\ longer.failed = r.failed /\ longer.dataLines = more
    <3> HIDE DEF more
    <3>1. HasRead(k, r) /\ r \in GoodReaders
      BY <1>9, <2>1
    <3> QED BY ONLY <3>1, HeldApart
  <2>4. Open /\ Shut
    BY <1>15, <1>18, <2>1, <2>2, <2>3 DEF Open, Shut
  <2>5. ~new.failed
    BY <1>15, <2>2, <2>3
  <2> QED BY <1>11, <2>4, <2>5 DEF new, line
<1> QED BY <1>6, <1>7, <1>12, <1>13, <1>14, <1>15

-----------------------------------------------------------------------------
(* The end of the bytes.                                                   *)

\* A reader that is left in the middle of an event.
Loose(r) ==
    /\ r \in GoodReaders
    /\ \/ r.failed
       \/ \E k \in 0..Len(stream.events) :
             /\ HasRead(k, r)
             /\ \/ r.dataLines = <<>>
                \/ /\ k < Len(stream.events) /\ stream.events[k + 1] # "comment"
                   /\ r.dataLines = <<<<k + 1, 1>>>> \/ r.dataLines = Whole(k + 1)

LEMMA AtIsLoose == ASSUME stream \in StreamRecords, NEW m, NEW r, ReaderAt(m, r) PROVE Loose(r)
<1> DEFINE K == Len(stream.events)
<1>1. PICK k \in 0..K, j \in 0..2 :
         /\ j > 0 => k < K /\ j < Len(Written(stream, k + 1))
         /\ ~r.failed => HasRead(k, r) /\ r.dataLines = Begun(k + 1, j)
  BY DEF ReaderAt
<1>2. r \in GoodReaders
  BY DEF ReaderAt
<1>3. CASE r.failed
  BY <1>2, <1>3 DEF Loose
<1>4. CASE ~r.failed /\ j = 0
  BY <1>1, <1>2, <1>4 DEF Loose, Begun
<1>5. CASE ~r.failed /\ j > 0
  <2>1. k + 1 \in Nat \ {0} /\ k < K /\ j < Len(Written(stream, k + 1))
    BY <1>1, <1>5, LineFacts
  <2>2. stream.events[k + 1] # "comment"
    BY <2>1, WrittenCases, <1>5
  <2>3. HasRead(k, r) /\ (r.dataLines = <<<<k + 1, 1>>>> \/ r.dataLines = Whole(k + 1))
    BY <1>1, <1>5 DEF Begun
  <2> QED BY <1>2, <2>1, <2>2, <2>3 DEF Loose
<1> QED BY <1>3, <1>4, <1>5

\* What it has of an event is that event, or nothing that is taken for one.
LEMMA LooseEnds ==
    ASSUME stream \in StreamRecords, NEW r, Loose(r), ~r.failed
    PROVE  \/ EndEvent(r).failed
           \/ /\ EndEvent(r).dataLines = <<>>
              /\ \E k \in 0..Len(stream.events) : HasRead(k, EndEvent(r))
<1> DEFINE K == Len(stream.events)
<1>1. PICK k \in 0..K :
         /\ HasRead(k, r)
         /\ \/ r.dataLines = <<>>
            \/ /\ k < K /\ stream.events[k + 1] # "comment"
               /\ r.dataLines = <<<<k + 1, 1>>>> \/ r.dataLines = Whole(k + 1)
  BY DEF Loose
<1>2. r \in GoodReaders /\ K \in Nat /\ k \in Nat
  BY LineFacts DEF Loose
<1>3. CASE r.dataLines = <<>>
  BY <1>1, <1>3 DEF EndEvent
<1>4. CASE r.dataLines # <<>> /\ r.dataLines = Whole(k + 1)
  BY <1>1, <1>2, <1>4, EndWhole
<1>5. CASE r.dataLines = <<<<k + 1, 1>>>>
  BY <1>5, <1>2 DEF EndEvent, AcceptEvent, Fail, GoodReaders, Readers
<1> QED BY <1>1, <1>3, <1>4, <1>5

\* After the last line the reader has every event.
LEMMA AtEnd ==
    ASSUME stream \in StreamRecords, NEW r, ReaderAt(Len(Lines(stream)), r)
    PROVE  /\ r.failed => Excused
           /\ ~r.failed => HasRead(Len(stream.events), r) /\ r.dataLines = <<>>
<1> DEFINE K == Len(stream.events)
           M == Len(Lines(stream))
<1>1. PICK k \in 0..K, j \in 0..2 :
         /\ M = LinesBefore(stream, k) + j
         /\ j > 0 => k < K /\ j < Len(Written(stream, k + 1))
         /\ r.failed => Excused
         /\ ~r.failed => HasRead(k, r) /\ r.dataLines = Begun(k + 1, j)
  BY DEF ReaderAt
<1>2. K \in Nat /\ k \in Nat /\ LinesBefore(stream, K) = M /\ LinesBefore(stream, k) \in Nat
  BY LineFacts
<1>3. ASSUME k < K PROVE FALSE
  <2> DEFINE size == Len(Written(stream, k + 1))
  <2>1. k + 1 \in 1..K /\ k + 1 \in Nat \ {0} /\ (k + 1) - 1 = k
    BY <1>2, <1>3
  <2>2. size = 1 \/ size = 2 \/ size = 3
    BY <2>1, WrittenCases
  <2>3. LinesBefore(stream, k + 1) = LinesBefore(stream, k) + size /\ LinesBefore(stream, k + 1) <= M
    BY <2>1, LineFacts
  <2>4. j > 0 => j < size
    BY <1>1
  <2> HIDE DEF size, M
  <2> QED BY <1>1, <1>2, <2>2, <2>3, <2>4
<1>4. k = K /\ j = 0
  BY <1>1, <1>2, <1>3
<1> QED BY <1>1, <1>4 DEF Begun

-----------------------------------------------------------------------------
(* A complete answer is the whole answer.                                  *)

LEMMA GatheredWhole ==
    ASSUME stream \in StreamRecords PROVE Gathered(Len(stream.events)) = Answer(stream)
BY LineFacts, AnswerIs DEF Seen, Gathered

LEMMA CompleteIsWhole ==
    ASSUME stream \in StreamRecords, NEW k \in 0..Len(stream.events), NEW r \in GoodReaders,
           HasRead(k, r), RequireComplete(r)
    PROVE  BuildBody(r) = Answer(stream) /\ (Answered(stream) => UsageOf(r) = AllUsage)
<1> DEFINE K == Len(stream.events)
           d == stream.dialect
           answer == Answer(stream)
<1>1. K \in Nat /\ k \in 1..K \cup {0} /\ \A i \in 1..k : i \in 1..K
  BY LineFacts
<1>2. Orderly(d, stream.events) /\ d \in Dialects
  BY StreamFields, TranscriptOrder
<1>3. \A i \in 1..K : stream.events[i] \in KindsOf(d)
  BY <1>2, ElementOfSeq DEF Orderly
<1>4. AllUsage # {}
  BY DEF AllUsage
<1>5. Answered(stream) => ~Carries(stream.events, "error") /\ (d = "chat" => stream.events[K] = "done")
  BY DEF Answered, Last, Carries
\* it has all the text
<1>6. /\ r.content = answer
      /\ d = "chat" /\ Answered(stream) => k = K
  <2>1. CASE d = "chat"
    <3>1. PICK i \in 1..k : stream.events[i] = "done"
      BY <2>1 DEF HasRead, RequireComplete, Seen, d
    <3>2. i \in 1..K /\ Enders(d) = {"done"} /\ "whole" \notin KindsOf(d)
      BY <1>1, <2>1 DEF Enders, KindsOf
    <3>3. ASSUME NEW q \in (k + 1)..K, CarriesText(stream, q) PROVE FALSE
      BY <1>1, <2>1, <3>3, <1>2, <3>1, <3>2 DEF CarriesText, d, Orderly, K
    <3>4. TextsOf(stream, K) = TextsOf(stream, k)
      BY <3>3, TextsRest
    <3>5. ~Seen(k, "whole") /\ stream.events[1] # "whole"
      BY <1>1, <1>3, <3>2 DEF Seen
    <3>6. answer = TextsOf(stream, K) /\ Gathered(k) = TextsOf(stream, k)
      BY <3>5, AnswerIs DEF Gathered
    <3>7. Answered(stream) => i = K
      BY <1>2, <1>5, <2>1, <3>1, <3>2 DEF Orderly, K
    <3> QED BY <1>1, <3>4, <3>6, <3>7 DEF HasRead
  <2>2. CASE d # "chat"
    BY <2>2, <1>1, <1>2, GatheredWhole DEF RequireComplete, d, HasRead, Concluded, Orderly
  <2> QED BY <2>1, <2>2
<1>7. BuildBody(r) = answer
  BY <1>6 DEF answer, BuildBody, RequireComplete, WithBody, d, HasRead
<1>8. ASSUME Answered(stream) PROVE r.usage = AllUsage
  BY <1>2, <1>5, <1>6, <1>8 DEF Orderly, Carries, Seen, HasRead, RequireComplete
<1> QED BY <1>4, <1>7, <1>8 DEF UsageOf

\* A provider that answers sends all that completes its answer.
LEMMA AnsweredIsComplete ==
    ASSUME stream \in StreamRecords, NEW r \in GoodReaders, HasRead(Len(stream.events), r),
           Answered(stream)
    PROVE  RequireComplete(r)
<1> DEFINE K == Len(stream.events)
           d == stream.dialect
<1>1. Orderly(d, stream.events) /\ d \in Dialects /\ ~Carries(stream.events, "error")
  BY StreamFields, TranscriptOrder DEF Answered, Carries
<1>2. \E i \in 1..K : stream.events[i] \in Enders(d)
  BY <1>1 DEF Orderly
<1>3. Carries(stream.events, "finish") => r.finishReason
  BY DEF Carries, HasRead, Seen
<1>4. CASE d = "chat"
  BY <1>2, <1>4, <1>1, <1>3 DEF Seen, Enders, Orderly, RequireComplete, HasRead
<1>5. CASE d # "chat"
  <2>1. Concluded(K)
    BY <1>2, <1>5 DEF Concluded
  <2>2. r.terminal
    BY <2>1 DEF HasRead
  <2>3. d \in WithBody => r.finalBody # <<>>
    <3>1. <<Answer(stream)>> # <<>> /\ <<<<>>>> # <<>>
      OBVIOUS
    <3> QED BY <2>2, <3>1 DEF HasRead
  <2>4. d \in {"anthropic", "legacyGoogle"} => r.finishReason
    BY <1>1, <1>3, <1>2 DEF Orderly, Enders, Carries
  <2> QED BY <1>1, <1>5, <2>2, <2>3, <2>4 DEF RequireComplete, WithBody, Dialects
<1> QED BY <1>4, <1>5

-----------------------------------------------------------------------------
(* The line reader.                                                        *)

\* Where the end of line m begins.
End(m) == Off(stream, m - 1) + (Len(Lines(stream)[m]) + 1)

LEMMA Layout ==
    ASSUME stream \in StreamRecords, NEW m \in Nat, m < Len(Lines(stream))
    PROVE  LET B == Bytes(stream)
               D == stream.delimiter IN
           /\ Off(stream, m) \in Nat /\ Off(stream, m + 1) \in Nat /\ End(m + 1) \in Nat
           /\ Off(stream, m) < End(m + 1)
           /\ Off(stream, m + 1) = End(m + 1) + (Len(D) - 1)
           /\ Off(stream, m + 1) <= Len(B)
           /\ \A p \in (Off(stream, m) + 1)..(End(m + 1) - 1) : B[p] # CR /\ B[p] # LF
           /\ B[End(m + 1)] = D[1]
           /\ Len(D) = 2 => B[End(m + 1) + 1] = LF
<1> DEFINE M == Len(Lines(stream))
           B == Bytes(stream)
           D == stream.delimiter
           size == Len(D)
           o == Off(stream, m)
           n == m + 1
           line == Lines(stream)[n]
           l == Len(line)
<1>1. M \in Nat /\ n \in 1..M /\ n - 1 = m /\ m \in 0..M /\ n \in 0..M
  BY ByteFacts DEF M
<1> HIDE DEF n
<1>2. /\ o \in Nat /\ Off(stream, n) \in Nat
      /\ line \in Seq(Plain) /\ l \in Nat /\ Off(stream, n) = o + (l + size)
      /\ Off(stream, n) <= Len(B)
      /\ \A c \in 1..l : B[o + c] = line[c]
      /\ \A c \in 1..size : B[o + (l + c)] = D[c]
  BY <1>1, ByteFacts
<1>3. /\ size = 1 \/ size = 2
      /\ size = 2 => D[2] = LF
  BY DelimiterTypes
<1>4. End(n) = o + (l + 1) /\ n = m + 1
  BY <1>1 DEF End, n
<1>5. \A c \in 1..l : line[c] # CR /\ line[c] # LF
  BY <1>2, ElementOfSeq DEF Plain
<1> HIDE DEF M, B, D, size, o, line, l
<1>6. ASSUME NEW p \in (o + 1)..(End(n) - 1) PROVE B[p] # CR /\ B[p] # LF
  <2>1. p - o \in 1..l /\ o + (p - o) = p
    BY <1>2, <1>4
  <2> QED BY <1>2, <1>5, <2>1
<1>7. B[End(n)] = D[1] /\ (size = 2 => B[End(n) + 1] = LF)
  BY <1>3, <1>2, <1>4
<1>8. End(n) \in Nat /\ o < End(n) /\ Off(stream, n) = End(n) + (size - 1)
  BY <1>2, <1>3, <1>4
<1> QED BY <1>2, <1>6, <1>7, <1>8 DEF B, D, size, o, n

LEMMA Window ==
    ASSUME NEW T, NEW s \in Seq(T), NEW o \in Nat, NEW t \in o..Len(s)
    PROVE  LET b == SubSeq(s, o + 1, t) IN
           /\ b \in Seq(T) /\ Len(b) = t - o /\ \A i \in 1..(t - o) : b[i] = s[o + i]
BY SubSeqProperties

LEMMA WindowOfWindow ==
    ASSUME NEW T, NEW s \in Seq(T), NEW o \in Nat, NEW t \in o..Len(s),
           NEW p \in Nat, NEW q \in p..(t - o)
    PROVE  SubSeq(SubSeq(s, o + 1, t), p + 1, q) = SubSeq(s, (o + p) + 1, o + q)
<1> DEFINE b == SubSeq(s, o + 1, t)
           x == SubSeq(b, p + 1, q)
           y == SubSeq(s, (o + p) + 1, o + q)
<1>1. b \in Seq(T) /\ Len(b) = t - o /\ \A i \in 1..(t - o) : b[i] = s[o + i]
  BY Window
<1>2. q \in p..Len(b) /\ o + p \in Nat /\ o + q \in (o + p)..Len(s) /\ Len(s) \in Nat
  BY <1>1
<1> HIDE DEF b
<1>3. x \in Seq(T) /\ Len(x) = q - p /\ \A i \in 1..(q - p) : x[i] = b[p + i]
  BY <1>2, <1>1, Window
<1>4. /\ y \in Seq(T) /\ Len(y) = (o + q) - (o + p)
      /\ \A i \in 1..((o + q) - (o + p)) : y[i] = s[(o + p) + i]
  BY <1>2, Window
<1> HIDE DEF x, y
<1>5. (o + q) - (o + p) = q - p /\ \A i \in 1..(q - p) : p + i \in 1..(t - o)
  OBVIOUS
<1>6. \A i \in 1..(q - p) : s[o + (p + i)] = s[(o + p) + i]
  OBVIOUS
<1>7. \A i \in 1..Len(x) : x[i] = y[i]
  BY <1>1, <1>3, <1>4, <1>5, <1>6
<1>8. x = y
  BY <1>3, <1>4, <1>5, <1>7, SeqEqual
<1> QED BY <1>8 DEF x, y, b

\* Bytes that go on where the others ended.
LEMMA WindowGrows ==
    ASSUME NEW T, NEW s \in Seq(T), NEW o \in Nat, NEW t \in o..Len(s), NEW u \in t..Len(s)
    PROVE  SubSeq(s, o + 1, t) \o SubSeq(s, t + 1, u) = SubSeq(s, o + 1, u)
<1> DEFINE a == SubSeq(s, o + 1, t)
           b == SubSeq(s, t + 1, u)
           c == SubSeq(s, o + 1, u)
           x == a \o b
<1>0. Len(s) \in Nat /\ t \in Nat /\ u \in o..Len(s)
  OBVIOUS
<1>1. a \in Seq(T) /\ Len(a) = t - o /\ \A i \in 1..(t - o) : a[i] = s[o + i]
  BY Window
<1>2. b \in Seq(T) /\ Len(b) = u - t /\ \A i \in 1..(u - t) : b[i] = s[t + i]
  BY <1>0, Window
<1>3. c \in Seq(T) /\ Len(c) = u - o /\ \A i \in 1..(u - o) : c[i] = s[o + i]
  BY <1>0, Window
<1> HIDE DEF a, b, c
<1>4. /\ x \in Seq(T) /\ Len(x) = Len(a) + Len(b)
      /\ \A i \in 1..Len(a) : x[i] = a[i]
      /\ \A i \in 1..Len(b) : x[Len(a) + i] = b[i]
  <2>1. a \in Seq(T) /\ b \in Seq(T)
    BY <1>1, <1>2
  <2> QED BY ONLY <2>1
<1> HIDE DEF x
<1>5. Len(x) = u - o
  BY <1>1, <1>2, <1>4
<1>6. ASSUME NEW i \in 1..(u - o) PROVE x[i] = c[i]
  <2>1. CASE i \in 1..(t - o)
    BY <1>1, <1>3, <1>4, <2>1
  <2>2. CASE i \notin 1..(t - o)
    <3> DEFINE j == i - (t - o)
    <3>1. j \in 1..(u - t) /\ (t - o) + j = i /\ t + j = o + i
      BY <2>2
    <3> HIDE DEF j
    <3>2. x[i] = b[j]
      BY <1>1, <1>2, <1>4, <3>1
    <3>3. b[j] = s[o + i]
      BY <1>2, <3>1
    <3> QED BY <1>3, <3>2, <3>3
  <2> QED BY <2>1, <2>2
<1>7. x = c
  BY <1>3, <1>4, <1>5, <1>6, SeqEqual
<1> QED BY <1>7 DEF x, a, b, c

LEMMA LineBytes ==
    ASSUME stream \in StreamRecords, NEW m \in Nat, m < Len(Lines(stream))
    PROVE  SubSeq(Bytes(stream), Off(stream, m) + 1, End(m + 1) - 1) = Lines(stream)[m + 1]
<1> DEFINE M == Len(Lines(stream))
           B == Bytes(stream)
           o == Off(stream, m)
           n == m + 1
           line == Lines(stream)[n]
           l == Len(line)
           t == End(n) - 1
           x == SubSeq(B, o + 1, t)
<1>1. M \in Nat /\ n \in 1..M /\ n - 1 = m /\ m \in 0..M
  BY ByteFacts DEF M
<1> HIDE DEF n
<1>2. o = Off(stream, n - 1) /\ o \in Nat
  BY <1>1, ByteFacts
<1> HIDE DEF o
<1>3. /\ line \in Seq(Plain) /\ l \in Nat /\ B \in Seq(Byte)
      /\ Off(stream, n) = o + (l + Len(stream.delimiter)) /\ Off(stream, n) <= Len(B)
      /\ \A c \in 1..l : B[o + c] = line[c]
  BY <1>1, <1>2, ByteFacts
<1>4. t = o + l /\ Len(stream.delimiter) \in {1, 2} /\ Len(B) \in Nat
  BY <1>2, <1>3, DelimiterTypes DEF End
<1> HIDE DEF M, B, line, l, t
<1>5. t \in o..Len(B) /\ t - o = l
  BY <1>4, <1>3, <1>2
<1>6. x \in Seq(Byte) /\ Len(x) = l /\ \A i \in 1..l : x[i] = B[o + i]
  <2>1. B \in Seq(Byte) /\ o \in Nat /\ t \in o..Len(B)
    BY <1>2, <1>3, <1>5
  <2>2. x \in Seq(Byte) /\ Len(x) = t - o /\ \A i \in 1..(t - o) : x[i] = B[o + i]
    BY ONLY <2>1, Window
  <2> HIDE DEF x
  <2> QED BY <1>5, <2>2
<1> HIDE DEF x
<1>7. line \in Seq(Byte) /\ Len(line) = l
  BY <1>3 DEF Plain, l
<1>8. \A i \in 1..Len(x) : x[i] = line[i]
  BY <1>3, <1>6
<1>9. x = line
  BY <1>6, <1>7, <1>8, SeqEqual
<1> QED BY <1>9 DEF x, B, o, t, line, n

LEMMA ScannedFacts ==
    ASSUME stream \in StreamRecords, NEW r \in GoodReaders, NEW b \in Seq(Byte)
    PROVE  \E f : /\ f[0] = [reader |-> r, next |-> 1]
                  /\ \A i \in 1..Len(b) :
                        f[i] = IF i \notin LineEnds(b) THEN f[i - 1]
                               ELSE [reader |-> TakeLine(f[i - 1].reader,
                                                         SubSeq(b, f[i - 1].next, i - 1)),
                                     next |-> After(b, i)]
                  /\ Scanned(r, b) = f[Len(b)]
<1> DEFINE L == Len(b)
           S == [reader : GoodReaders, next : Nat \ {0}]
           x == [reader |-> r, next |-> 1]
           step(i, y) == IF i \notin LineEnds(b) THEN y
                         ELSE [reader |-> TakeLine(y.reader, SubSeq(b, y.next, i - 1)),
                               next |-> After(b, i)]
           g == [w \in (1..L) \X S |-> step(w[1], w[2])]
           body(f) == [i \in 0..L |-> IF i = 0 THEN x ELSE step(i, f[i - 1])]
<1>1. L \in Nat /\ x \in S
  OBVIOUS
<1>2. \A i \in 1..L, y \in S : g[<<i, y>>] = step(i, y) /\ g[<<i, y>>] \in S
  <2> SUFFICES ASSUME NEW i \in 1..L, NEW y \in S
               PROVE  g[<<i, y>>] = step(i, y) /\ g[<<i, y>>] \in S
    OBVIOUS
  <2>1. g[<<i, y>>] = step(i, y)
    OBVIOUS
  <2> DEFINE line == SubSeq(b, y.next, i - 1)
             new == TakeLine(y.reader, line)
             next == After(b, i)
  <2>2. y.reader \in GoodReaders /\ y.next \in Nat \ {0} /\ i \in Nat \ {0} /\ i - 1 <= L
    BY <1>1
  <2>3. line \in Seq(Byte)
    BY <2>2
  <2>4. new \in GoodReaders
    BY <2>2, <2>3, TakeLineTypes
  <2>5. next \in Nat \ {0}
    BY <2>2 DEF After
  <2> HIDE DEF new, next
  <2>6. [reader |-> new, next |-> next] \in S
    BY <2>4, <2>5
  <2>7. step(i, y) \in S
    BY <2>6 DEF new, next
  <2> QED BY <2>1, <2>7
<1>3. Scanned(r, b) = (CHOOSE f : f = body(f))[L]
  BY DEF Scanned
<1> HIDE DEF g, S, x, L, step
<1>4. PICK f : Recursing(f, L, x, g) /\ \A i \in 0..L : f[i] \in S
  BY <1>1, <1>2, RecursionExists
<1>5. f = body(f)
  <2>1. \A i \in 1..L : i - 1 \in 0..L /\ i # 0
    BY <1>1
  <2>2. \A i \in 1..L : g[<<i, f[i - 1]>>] = step(i, f[i - 1])
    BY <1>2, <1>4, <2>1
  <2>3. \A i \in 0..L : i = 0 \/ i \in 1..L
    BY <1>1
  <2> QED BY <1>1, <1>4, <2>2, <2>3 DEF Recursing
<1> DEFINE h == CHOOSE u : u = body(u)
<1>6. h = body(h)
  BY <1>5
<1>7. Scanned(r, b) = h[L]
  BY <1>3
<1> HIDE DEF h
<1>8. h[0] = x /\ \A i \in 1..L : h[i] = step(i, h[i - 1])
  BY <1>1, <1>6
<1> QED BY <1>7, <1>8 DEF x, L, step

\* The lines that end within the first t bytes: a CR at their end may be half of an end.
Reached(k, t) ==
    /\ k \in 0..Len(Lines(stream)) /\ Off(stream, k) <= t
    /\ k < Len(Lines(stream)) => \/ t < End(k + 1)
                                 \/ stream.delimiter[1] = CR /\ t = End(k + 1)

\* Whatever bytes come next, the lines that end in them are taken, one after the other.
Unscanned(m, r, b, t) ==
    /\ m \in 0..Len(Lines(stream)) /\ ReaderAt(m, r) /\ b = SubSeq(Bytes(stream), Off(stream, m) + 1, t)
    /\ t \in Nat /\ Off(stream, m) <= t /\ t <= Len(Bytes(stream))
    /\ Off(stream, m) = t \/ m < Len(Lines(stream))

LeftBy(scanned, k, b, t) ==
    /\ Reached(k, t) /\ ReaderAt(k, scanned.reader)
    /\ SubSeq(b, scanned.next, Len(b)) = SubSeq(Bytes(stream), Off(stream, k) + 1, t)

LEMMA ScanKeeps ==
    ASSUME stream \in StreamRecords, NEW m, NEW r, NEW b, NEW t, Unscanned(m, r, b, t)
    PROVE  \E k \in Nat : LeftBy(Scanned(r, b), k, b, t)
<1> DEFINE M == Len(Lines(stream))
           B == Bytes(stream)
           D == Len(stream.delimiter)
           H == stream.delimiter[1] = CR
           o == Off(stream, m)
           L == t - o
           size == Len(B)
           off(k) == Off(stream, k)
<1>0. /\ m \in 0..M /\ ReaderAt(m, r) /\ b = SubSeq(B, o + 1, t)
      /\ t \in Nat /\ o <= t /\ t <= size /\ (o = t \/ m < M)
  BY DEF Unscanned
<1>1. /\ M \in Nat /\ B \in Seq(Byte) /\ Len(B) = size /\ size = off(M) /\ size \in Nat
      /\ o \in Nat /\ \A k \in 0..M : off(k) \in Nat
  <2>1. M \in Nat /\ B \in Seq(Byte) /\ size = off(M) /\ \A k \in 0..M : off(k) \in Nat
    BY ByteFacts
  <2>2. o \in Nat
    BY <1>0, <2>1
  <2>3. size \in Nat /\ Len(B) = size
    BY <2>1
  <2> QED BY <2>1, <2>2, <2>3
<1>2. /\ D = 1 \/ D = 2
      /\ D = 2 => H
      /\ ~H => stream.delimiter[1] = LF
      /\ CR # LF
  <2>1. CR # LF
    BY DEF CR, LF
  <2> QED BY <2>1, DelimiterTypes
<1>3. \A k \in Nat : k < M =>
         /\ off(k) \in Nat /\ off(k + 1) \in Nat /\ End(k + 1) \in Nat
         /\ off(k) < End(k + 1)
         /\ off(k + 1) = End(k + 1) + (D - 1) /\ off(k + 1) <= size
         /\ \A p \in (off(k) + 1)..(End(k + 1) - 1) : B[p] # CR /\ B[p] # LF
         /\ B[End(k + 1)] = IF H THEN CR ELSE LF
         /\ D = 2 => B[End(k + 1) + 1] = LF
  BY <1>2, Layout
<1>4. /\ b \in Seq(Byte) /\ Len(b) = L /\ L \in Nat
      /\ \A i \in 1..L : b[i] = B[o + i]
  <2>1. t \in o..size /\ L \in Nat
    BY <1>0, <1>1
  <2> QED BY <1>0, <1>1, <2>1, Window
<1>5. r \in GoodReaders
  BY <1>0 DEF ReaderAt
<1>15. /\ M \in Nat /\ o \in Nat /\ L \in Nat /\ size \in Nat /\ t \in Nat /\ m \in Nat
       /\ D \in Nat /\ L = t - o /\ o + L = t
  <2>1. D \in Nat /\ L \in Nat /\ M \in Nat /\ o \in Nat /\ size \in Nat
    BY <1>1, <1>2, <1>4
  <2>2. t \in Nat /\ m \in Nat
    BY <1>0, <1>1
  <2>3. o + (t - o) = t
    BY ONLY <2>1, <2>2
  <2> QED BY <2>1, <2>2, <2>3
<1> HIDE DEF size
<1>6. PICK f : /\ f[0] = [reader |-> r, next |-> 1]
               /\ \A i \in 1..L :
                     f[i] = IF i \notin LineEnds(b) THEN f[i - 1]
                            ELSE [reader |-> TakeLine(f[i - 1].reader,
                                                      SubSeq(b, f[i - 1].next, i - 1)),
                                  next |-> After(b, i)]
               /\ Scanned(r, b) = f[L]
  BY <1>4, <1>5, ScannedFacts
<1>7. m \in Nat /\ m <= M /\ (o = t \/ m < M) /\ t <= size
  BY <1>0, <1>1
<1> HIDE DEF M, B, D, H, o, L
<1> DEFINE Got(i, k) ==
             /\ k \in m..M /\ o <= off(k)
             /\ ReaderAt(k, f[i].reader) /\ f[i].next = (off(k) - o) + 1
             /\ k > m => /\ o < off(k) - (D - 1) /\ off(k) - (D - 1) <= o + i
                         /\ H => off(k) - (D - 1) < t
             /\ k < M => o + i < End(k + 1) \/ (H /\ i = L /\ o + i = End(k + 1))
           G == {i \in Nat : i <= L => \E k \in m..M : Got(i, k)}
<1>8. 0 \in G
  <2>1. m < M => o + 0 < End(m + 1)
    BY <1>1, <1>3, <1>7 DEF o
  <2>2. ReaderAt(m, f[0].reader) /\ f[0].next = (off(m) - o) + 1 /\ o <= off(m)
    BY <1>0, <1>1, <1>6 DEF o
  <2>3. Got(0, m) /\ m \in m..M
    BY <1>1, <1>7, <2>1, <2>2
  <2> QED BY <2>3
<1>9. ASSUME NEW i \in Nat, i \in G PROVE i + 1 \in G
  <2> SUFFICES ASSUME i + 1 <= L PROVE \E k \in m..M : Got(i + 1, k)
    OBVIOUS
  <2>1. i <= L /\ i < L /\ i # L /\ i + 1 \in 1..L /\ (i + 1) - 1 = i
    BY <1>15, <1>4
  <2>2. PICK k \in m..M : Got(i, k)
    BY <1>15, <1>9, <2>1
  <2> DEFINE n == i + 1
             q == o + n
             a == off(k)
             e == End(k + 1)
  <2>3. q \in Nat /\ q <= t /\ q = (o + i) + 1 /\ k \in Nat /\ k <= M /\ k \in 0..M /\ a \in Nat
    BY <1>15, <1>1, <2>1
  <2>4. b[n] = B[q] /\ n \in 1..L
    BY <1>15, <1>4, <2>1
  <2>5. f[n] = IF n \notin LineEnds(b) THEN f[i]
               ELSE [reader |-> TakeLine(f[i].reader, SubSeq(b, f[i].next, i)),
                     next |-> After(b, n)]
    BY <1>15, <1>6, <2>1
  <2>6. n \in LineEnds(b) <=> \/ B[q] = CR /\ n < L
                              \/ B[q] = LF /\ ~(n > 1 /\ b[n - 1] = CR)
    BY <1>15, <1>4, <2>4 DEF LineEnds
  <2>7. n > 1 => b[n - 1] = B[o + i]
    BY <1>15, <2>1, <1>4
  <2>8. /\ o <= a /\ ReaderAt(k, f[i].reader) /\ f[i].next = (a - o) + 1
        /\ k > m => /\ o < a - (D - 1) /\ a - (D - 1) <= o + i
                    /\ H => a - (D - 1) < t
        /\ k < M => o + i < e
    BY <1>15, <2>1, <2>2
  <2>9. k < M => /\ e \in Nat /\ a < e /\ off(k + 1) \in Nat /\ off(k + 1) = e + (D - 1)
                 /\ off(k + 1) <= size
                 /\ \A p \in (a + 1)..(e - 1) : B[p] # CR /\ B[p] # LF
                 /\ B[e] = (IF H THEN CR ELSE LF) /\ (D = 2 => B[e + 1] = LF)
    BY <1>15, <1>3, <2>3
  <2>10. k > m => /\ B[a - (D - 1)] = IF H THEN CR ELSE LF
                  /\ D = 2 => B[a] = LF
    <3> SUFFICES ASSUME k > m PROVE /\ B[a - (D - 1)] = IF H THEN CR ELSE LF
                                    /\ D = 2 => B[a] = LF
      OBVIOUS
    <3> DEFINE j == k - 1
    <3>1. j \in Nat /\ j < M /\ j + 1 = k
      BY <1>15, <1>7, <2>3
    <3> HIDE DEF j
    <3>2. /\ End(k) \in Nat /\ a = End(k) + (D - 1)
          /\ B[End(k)] = IF H THEN CR ELSE LF
          /\ D = 2 => B[End(k) + 1] = LF
      BY <1>15, <1>3, <3>1
    <3>3. a - (D - 1) = End(k) /\ (D = 2 => End(k) + 1 = a)
      BY <1>15, <1>2, <3>2
    <3> QED BY <3>2, <3>3
  <2>11. k = M => a = size
    BY <1>15, <1>1
  <2> HIDE DEF n, q, a, e, G
  <2>16. /\ o + n = q /\ e = End(k + 1) /\ o + i <= o + n
         /\ k \in m..M /\ k > m => a - (D - 1) <= o + n
    BY <1>15, <2>3, <2>8 DEF q, n, e
\* the rest of an end
  <2>12. CASE q <= a
    <3>1. k > m
      BY <1>15, <2>3, <2>12 DEF a, o, q, n
    <3>2. D = 2 /\ q = a /\ o + i = a - (D - 1)
      BY <1>0, <1>15, <1>1, <1>2, <2>3, <2>8, <2>12, <3>1
    <3>3. B[q] = LF /\ B[o + i] = CR
      BY <1>15, <1>2, <2>10, <3>1, <3>2
    <3>4. n > 1
      BY <1>15, <1>1, <2>8, <3>1, <3>2 DEF n
    <3>5. n \notin LineEnds(b)
      BY <1>15, <1>2, <2>6, <2>7, <3>3, <3>4
    <3>6. k < M => q < e
      BY <1>15, <2>3, <2>9, <2>12
    <3>7. f[n] = f[i]
      BY <1>15, <2>5, <3>5
    <3>8. Got(n, k)
      BY <2>16, <2>8, <3>6, <3>7 DEF a
    <3> QED BY <3>8 DEF n
  <2>13. ASSUME q > a PROVE k < M
    BY <1>15, <1>7, <2>3, <2>11, <2>13
\* a byte of the line
  <2>14. CASE q > a /\ q < e
    BY <1>15, <2>3, <2>9, <2>13, <2>14, <2>6, <2>5, <2>16, <2>8 DEF a, n
\* the end of the line
  <2>15. CASE q > a /\ ~(q < e)
    <3>1. k < M /\ q = e
      BY <2>13, <2>15, <2>8, <2>9, <1>15, <2>3
    <3>2. B[q] = IF H THEN CR ELSE LF
      BY <1>15, <2>9, <3>1
    <3>3. CASE H /\ n = L
      BY <1>15, <1>2, <1>4, <2>6, <3>2, <3>3, <2>5, <2>16, <2>8, <3>1 DEF a, n
    <3>4. CASE ~(H /\ n = L)
      <4>1. n \in LineEnds(b)
        <5>1. CASE H
          BY <1>15, <1>4, <2>4, <3>4, <5>1, <2>6, <3>2
        <5>2. CASE ~H
          <6>1. ASSUME n > 1 PROVE B[o + i] # CR
            <7>1. CASE o + i > a
              BY <1>15, <2>3, <2>9, <3>1, <7>1
            <7>2. CASE ~(o + i > a)
              <8>1. o + i = a /\ i > 0
                BY <1>15, <1>1, <2>3, <2>15, <6>1, <7>2 DEF n
              <8>2. k > m
                <9>1. CASE k = m
                  BY <9>1, <1>15, <1>1, <8>1 DEF a, o
                <9> QED BY <1>15, <2>3, <9>1
              <8>3. a - (D - 1) = a
                BY <1>15, <1>2, <2>3, <5>2
              <8> QED BY <1>15, <1>2, <2>10, <5>2, <8>1, <8>2, <8>3
            <7> QED BY <7>1, <7>2
          <6> QED BY <1>15, <2>6, <2>7, <3>2, <5>2, <6>1
        <5> QED BY <5>1, <5>2
      <4> DEFINE line == SubSeq(b, f[i].next, i)
                 taken == TakeLine(f[i].reader, line)
                 next == After(b, n)
      <4>2. line = Lines(stream)[k + 1]
        <5> DEFINE p == a - o
        <5>1. p \in Nat /\ i \in p..(t - o) /\ o + p = a /\ o + i = e - 1
              /\ f[i].next = p + 1 /\ t \in o..size
          BY <2>3, <2>8, <2>15, <3>1, <1>7, <2>1, <1>15
        <5> HIDE DEF p
        <5>2. line = SubSeq(B, (o + p) + 1, o + i)
          <6>1. line = SubSeq(SubSeq(B, o + 1, t), p + 1, i)
            BY <1>0, <5>1 DEF B, o
          <6> HIDE DEF line
          <6>2. B \in Seq(Byte) /\ o \in Nat /\ t \in o..Len(B) /\ p \in Nat /\ i \in p..(t - o)
            BY <1>1, <5>1
          <6> QED BY ONLY <6>1, <6>2, WindowOfWindow
        <5> HIDE DEF line
        <5>3. SubSeq(B, a + 1, e - 1) = Lines(stream)[k + 1]
          BY <1>15, <2>3, <3>1, LineBytes DEF B, a, e, M
        <5> QED BY <5>1, <5>2, <5>3
      <4>3. ReaderAt(k + 1, taken)
        BY <1>15, <2>3, <2>8, <3>1, <4>2, AtStep DEF M
      <4>4. next = (off(k + 1) - o) + 1
        <5>1. off(k + 1) = q + (D - 1) /\ off(k + 1) \in Nat /\ off(k + 1) <= size
          BY <1>15, <2>9, <3>1
        <5>2. n < L => b[n + 1] = B[q + 1]
          <6>1. n < L => n + 1 \in 1..L
            BY ONLY <1>15, <2>4
          <6>2. o + (n + 1) = q + 1
            BY ONLY <1>15, <2>4 DEF q
          <6> QED BY <1>4, <6>1, <6>2
        <5>3. CASE ~H
          <6>1. b[n] # CR
            BY <1>15, <1>2, <2>4, <3>2, <5>3
          <6>2. next = n + 1 /\ D = 1
            BY <1>15, <1>2, <5>3, <6>1 DEF After
          <6> HIDE DEF next
          <6> QED BY <1>15, <1>1, <2>4, <5>1, <6>2 DEF q
        <5>4. CASE H /\ D = 2
          <6>1. n < L
            BY ONLY <1>15, <2>4, <3>4, <5>4
          <6>4. b[n] = CR /\ b[n + 1] = LF
            BY <2>4, <2>9, <3>1, <3>2, <5>2, <5>4, <6>1
          <6>2. next = n + 2
            BY <1>4, <6>1, <6>4 DEF After
          <6> HIDE DEF next
          <6> QED BY <1>15, <1>1, <2>4, <5>1, <5>4, <6>2 DEF q
        <5>5. CASE H /\ D = 1
          <6>1. n < L => B[q + 1] # LF
            <7> SUFFICES ASSUME n < L PROVE B[q + 1] # LF
              OBVIOUS
            <7>1. q + 1 <= size
              BY ONLY <1>15, <1>7, <2>4, n < L DEF q
            <7>2. off(k + 1) = q
              BY <1>15, <2>3, <5>1, <5>5
            <7> DEFINE j == k + 1
            <7>3. j \in Nat /\ j < M
              BY <1>15, <1>1, <2>3, <3>1, <7>1, <7>2
            <7> HIDE DEF j
            <7>4. /\ End(j + 1) \in Nat /\ q < End(j + 1)
                  /\ \A p \in (q + 1)..(End(j + 1) - 1) : B[p] # LF
                  /\ B[End(j + 1)] = CR
              BY <1>15, <1>3, <5>5, <7>2, <7>3 DEF j
            <7>5. q + 1 \in (q + 1)..(End(j + 1) - 1) \/ q + 1 = End(j + 1)
              BY <1>15, <2>3, <7>4
            <7> QED BY <1>15, <1>2, <7>4, <7>5
          <6>2. Len(b) = L
            BY <1>15, <1>4
          <6>3. next = n + 1
            BY <5>2, <6>1, <6>2 DEF After
          <6> HIDE DEF next
          <6> QED BY <1>15, <1>1, <2>4, <5>1, <5>5, <6>3 DEF q
        <5> QED BY <1>15, <1>2, <5>3, <5>4, <5>5
      <4>5. f[n].reader = taken /\ f[n].next = next
        BY <1>15, <2>5, <4>1 DEF taken, next
      <4> DEFINE j == k + 1
      <4> HIDE DEF next, taken, line
      <4>6. j \in m..M /\ j > m /\ j \in Nat /\ j <= M
        BY <1>15, <1>1, <1>7, <2>3, <3>1
      <4>7. /\ off(j) - (D - 1) = q /\ o < q /\ o <= off(j) /\ q = o + n
            /\ H => q < t
        <5>1. off(j) = q + (D - 1) /\ D - 1 \in Nat /\ D \in Nat
          BY <1>15, <1>2, <2>9, <3>1
        <5>2. H => n < L
          BY <1>15, <1>4, <2>4, <3>4
        <5>3. q = o + n /\ o < q
          BY <1>15, <1>1, <2>4 DEF q
        <5> HIDE DEF j
        <5> DEFINE u == off(j)
        <5>4. u = q + (D - 1) /\ q \in Nat
          BY <2>3, <5>1
        <5> HIDE DEF u
        <5>5. u - (D - 1) = q /\ o <= u
          BY ONLY <1>15, <1>2, <5>3, <5>4
        <5>6. H => q < t
          BY ONLY <1>15, <2>4, <5>2, <5>3
        <5> QED BY <5>3, <5>5, <5>6 DEF u
      <4>8. j < M => o + n < End(j + 1)
        BY <1>15, <2>9, <3>1, <1>3, <4>6, <1>2, <2>3, <4>7
      <4>9. Got(n, j)
        BY <4>3, <4>4, <4>5, <1>15, <2>4, <4>7, <4>6, <4>8
      <4> HIDE DEF j
      <4> QED BY <4>6, <4>9 DEF n
    <3> QED BY <3>3, <3>4
  <2> QED BY <1>15, <2>3, <2>12, <2>14, <2>15
<1> HIDE DEF G
<1>10. Nat \subseteq G
  BY <1>15, <1>8, <1>9, CountingUp
<1>11. PICK k \in m..M : Got(L, k)
  BY <1>15, <1>10 DEF G
<1>12. /\ k \in Nat /\ k <= M /\ off(k) \in Nat /\ o <= off(k) /\ off(k) <= t /\ o + L = t
  <2>1. k \in Nat /\ k <= M /\ off(k) \in Nat
    BY <1>15, <1>1, <1>7
  <2>2. o + L = t
    BY <1>15, <1>1 DEF L
  <2>3. CASE k = m
    BY <1>15, <2>1, <2>2, <2>3, <1>11 DEF o
  <2>4. CASE k > m
    BY <1>11, <2>1, <2>4, <1>15, <1>2, <2>2
  <2> QED BY <1>0, <1>15, <1>7, <1>11, <2>1, <2>2, <2>3, <2>4
<1>13. Reached(k, t)
  BY <1>15, <1>11, <1>12, <1>1 DEF Reached, M, H
<1>14. SubSeq(b, Scanned(r, b).next, Len(b)) = SubSeq(B, off(k) + 1, t)
  <2> DEFINE p == off(k) - o
  <2>1. Scanned(r, b).next = p + 1 /\ Len(b) = L
    BY <1>4, <1>6, <1>11
  <2>2. p \in Nat /\ L \in p..(t - o) /\ o + p = off(k) /\ o + L = t /\ t \in o..size
    BY <1>12, <1>15, <1>7
  <2>3. b = SubSeq(B, o + 1, t)
    BY <1>0 DEF B, o
  <2> HIDE DEF p
  <2>4. SubSeq(SubSeq(B, o + 1, t), p + 1, L) = SubSeq(B, (o + p) + 1, o + L)
    BY <1>15, <1>1, <2>2, WindowOfWindow
  <2> QED BY <1>15, <2>1, <2>2, <2>3, <2>4
<1>16. ReaderAt(k, Scanned(r, b).reader)
  BY <1>6, <1>11
<1> QED BY <1>12, <1>13, <1>14, <1>16 DEF B, LeftBy

-----------------------------------------------------------------------------
(* The whole stream.                                                       *)

\* No line begins where the bytes end.
LEMMA LastLineOnly ==
    ASSUME stream \in StreamRecords, NEW m \in Nat, m <= Len(Lines(stream))
    PROVE  Off(stream, m) = Len(Bytes(stream)) <=> m = Len(Lines(stream))
<1> DEFINE M == Len(Lines(stream))
           size == Len(Bytes(stream))
           o == Off(stream, m)
           e == End(m + 1)
           D == Len(stream.delimiter)
<1>1. M \in Nat /\ size = Off(stream, M)
  BY ByteFacts
<1>2. CASE m = M
  BY <1>1, <1>2
<1>3. CASE m # M
  <2>1. m < M
    BY <1>1, <1>3
  <2>2. /\ o \in Nat /\ e \in Nat /\ o < e /\ Off(stream, m + 1) = e + (D - 1)
        /\ Off(stream, m + 1) <= size
    BY <2>1, Layout
  <2>3. D = 1 \/ D = 2
    BY DelimiterTypes
  <2> DEFINE u == Off(stream, m + 1)
  <2>4. u = e + (D - 1) /\ u <= size /\ size \in Nat
    BY <2>2, ByteFacts
  <2> HIDE DEF o, e, D, size, u
  <2>5. o # size
    BY ONLY <2>2, <2>3, <2>4
  <2> QED BY <1>3, <2>5 DEF o, size, M
<1> QED BY <1>2, <1>3

\* What the last line is, when the bytes end in it.
LEMMA LastLineIs ==
    ASSUME stream \in StreamRecords, NEW m \in Nat, m < Len(Lines(stream)),
           NEW t \in Nat, Off(stream, m) < t, t <= Len(Bytes(stream)), Reached(m, t),
           pending = SubSeq(Bytes(stream), Off(stream, m) + 1, t)
    PROVE  /\ pending # <<>>
           /\ t = Len(Bytes(stream)) => LastLine = Lines(stream)[m + 1]
                                        /\ m + 1 = Len(Lines(stream))
           /\ \/ LastLine = Lines(stream)[m + 1]
              \/ /\ LastLine \in Seq(Byte) /\ Len(LastLine) \in Nat \ {0}
                 /\ Len(LastLine) < Len(Lines(stream)[m + 1])
                 /\ \A i \in 1..Len(LastLine) : LastLine[i] = Lines(stream)[m + 1][i]
<1> DEFINE M == Len(Lines(stream))
           B == Bytes(stream)
           size == Len(B)
           o == Off(stream, m)
           e == End(m + 1)
           D == Len(stream.delimiter)
           L == t - o
           line == Lines(stream)[m + 1]
           l == Len(line)
           u == Off(stream, m + 1)
<1>1. /\ M \in Nat /\ B \in Seq(Byte) /\ m < M /\ size \in Nat /\ t <= size
      /\ o < t
  <2>1. M \in Nat /\ B \in Seq(Byte)
    BY ByteFacts
  <2>2. size \in Nat
    BY <2>1
  <2> QED BY ONLY <2>1, <2>2, m < M, t <= size, o < t
<1>2. /\ o \in Nat /\ e \in Nat /\ o < e /\ u = e + (D - 1) /\ u <= size /\ u \in Nat
      /\ \A p \in (o + 1)..(e - 1) : B[p] # CR
      /\ B[e] = stream.delimiter[1]
  BY <1>1, Layout
<1>3. D = 1 \/ D = 2
  BY DelimiterTypes
<1>4. m + 1 \in 1..M /\ (m + 1) - 1 = m
  BY <1>1
<1>5. l \in Nat /\ e = o + (l + 1)
  BY <1>4, ByteFacts DEF End
<1>6. SubSeq(B, o + 1, e - 1) = line /\ \A c \in 1..l : B[o + c] = line[c]
  <2>1. \A c \in 1..Len(Lines(stream)[m + 1]) :
           Bytes(stream)[Off(stream, (m + 1) - 1) + c] = Lines(stream)[m + 1][c]
    BY <1>4, ByteFacts
  <2> QED BY <1>1, <1>4, <2>1, LineBytes
<1>7. t < e \/ (t = e /\ stream.delimiter[1] = CR)
  BY <1>1 DEF Reached
<1>8. pending = SubSeq(B, o + 1, t)
  OBVIOUS
<1>9. m + 1 <= M /\ (u = size => m + 1 = M)
  BY <1>1, LastLineOnly
<1> HIDE DEF M, B, size, o, e, D, L, line, l, u
<1>10. t \in o..size /\ L \in Nat /\ L >= 1 /\ o + L = t /\ L = t - o
  BY <1>1, <1>2 DEF L
<1>11. pending \in Seq(Byte) /\ Len(pending) = L /\ \A i \in 1..L : pending[i] = B[o + i]
  <2>1. B \in Seq(Byte) /\ o \in Nat /\ t \in o..Len(B)
    BY <1>1, <1>2, <1>10 DEF size
  <2> DEFINE b == SubSeq(B, o + 1, t)
  <2>2. b \in Seq(Byte) /\ Len(b) = t - o /\ \A i \in 1..(t - o) : b[i] = B[o + i]
    BY ONLY <2>1, Window
  <2>3. pending = b
    BY <1>8
  <2> HIDE DEF b
  <2> QED BY <1>10, <2>2, <2>3
<1>12. pending # <<>>
  <2>1. Len(pending) # 0
    BY <1>10, <1>11
  <2> QED BY <1>11, <2>1, EmptySeq
<1>13. Last(pending) = B[t]
  BY <1>10, <1>11 DEF Last
<1>14. CASE t < e
  <2>1. B[t] # CR
    BY <1>1, <1>2, <1>14
  <2>2. LastLine = pending
    BY <1>13, <2>1 DEF LastLine
  <2>3. t # size
    BY ONLY <1>1, <1>2, <1>3, <1>14, t \in Nat
  <2>4. CASE t = e - 1
    BY <1>6, <1>8, <1>12, <2>2, <2>3, <2>4 DEF line, B, size
  <2>5. CASE t # e - 1
    <3>1. L < l /\ L \in Nat \ {0} /\ \A i \in 1..L : i \in 1..l
      BY ONLY <1>2, <1>5, <1>10, <1>14, <2>5, t \in Nat
    <3>2. \A i \in 1..L : pending[i] = line[i]
      BY <1>6, <1>11, <3>1
    <3> QED BY <1>11, <1>12, <2>2, <2>3, <3>1, <3>2 DEF line, B, size, l
  <2> QED BY <2>4, <2>5
<1>15. CASE t = e /\ stream.delimiter[1] = CR
  <2> DEFINE q == L - 1
  <2>1. LastLine = Front(pending)
    BY <1>2, <1>13, <1>15 DEF LastLine
  <2>2. Front(pending) = SubSeq(SubSeq(B, o + 1, t), 0 + 1, q)
    <3>1. Front(pending) = SubSeq(pending, 0 + 1, q)
      BY <1>11 DEF Front
    <3> QED BY <1>8, <3>1
  <2>3. q \in 0..(t - o) /\ o + 0 = o /\ o + q = e - 1 /\ 0 \in Nat
    BY ONLY <1>2, <1>10, <1>15
  <2> HIDE DEF q
  <2>4. SubSeq(SubSeq(B, o + 1, t), 0 + 1, q) = SubSeq(B, (o + 0) + 1, o + q)
    BY <1>1, <1>2, <1>10, <2>3, WindowOfWindow DEF size
  <2>5. LastLine = line
    BY <1>6, <2>1, <2>2, <2>3, <2>4
  <2>6. t = size => u = size
    BY ONLY <1>1, <1>2, <1>3, <1>15, t \in Nat
  <2> QED BY <1>9, <1>12, <2>5, <2>6 DEF line, size, B, M
<1> QED BY <1>7, <1>14, <1>15

\* Half of the data of an event is data of it.
LEMMA PartIsLoose ==
    ASSUME stream \in StreamRecords, NEW m \in Nat, m < Len(Lines(stream)), NEW r, ReaderAt(m, r),
           NEW piece \in Seq(Byte), Len(piece) \in Nat \ {0},
           Len(piece) < Len(Lines(stream)[m + 1]),
           \A i \in 1..Len(piece) : piece[i] = Lines(stream)[m + 1][i]
    PROVE  Loose(TakeLine(r, piece))
<1> DEFINE K == Len(stream.events)
           M == Len(Lines(stream))
           line == Lines(stream)[m + 1]
           L == Len(piece)
<1>1. PICK k \in 0..K, j \in 0..2 :
         /\ m = LinesBefore(stream, k) + j
         /\ j > 0 => k < K /\ j < Len(Written(stream, k + 1))
         /\ ~r.failed => HasRead(k, r) /\ r.dataLines = Begun(k + 1, j)
  BY DEF ReaderAt
<1> DEFINE w == Written(stream, k + 1)
           n == k + 1
           size == Len(w)
<1>2. K \in Nat /\ k \in Nat /\ LinesBefore(stream, K) = M /\ M \in Nat /\ LinesBefore(stream, k) \in Nat
  BY LineFacts
<1>3. k < K
  BY <1>1, <1>2
<1>4. n \in 1..K /\ n - 1 = k /\ n \in Nat \ {0}
  BY <1>2, <1>3
<1>5. \A q \in 1..size : Lines(stream)[LinesBefore(stream, k) + q] = w[q]
  BY <1>4, LineFacts
<1>6. \/ stream.events[n] = "comment" /\ size = 1 /\ w[1] = <<Colon>>
      \/ /\ stream.events[n] # "comment" /\ size = 3
         /\ w[1] = <<<<n, 1>>>> /\ w[2] = <<<<n, 2>>>> /\ w[3] = <<>>
      \/ /\ stream.events[n] # "comment" /\ size = 2
         /\ w[1] = <<<<n, 1>>, <<n, 2>>>> /\ w[2] = <<>>
  BY <1>4, WrittenCases
<1>7. j + 1 \in 1..size /\ m + 1 = LinesBefore(stream, k) + (j + 1)
  <2>1. (size = 1 \/ size = 2 \/ size = 3) /\ (j > 0 => j < size) /\ m = LinesBefore(stream, k) + j
    BY <1>1, <1>6
  <2> HIDE DEF size
  <2> QED BY <1>2, <2>1
<1>8. line = w[j + 1]
  BY <1>5, <1>7
<1>9. r \in GoodReaders
  BY DEF ReaderAt
<1>10. L \in Nat \ {0} /\ L < Len(line) /\ \A i \in 1..L : piece[i] = line[i]
  OBVIOUS
<1> DEFINE a == <<n, 1>>
           b == <<n, 2>>
<1>11. stream.events[n] # "comment" /\ line = <<a, b>> /\ j = 0
  <2>1. /\ Len(<<Colon>>) = 1 /\ Len(<<a>>) = 1 /\ Len(<<b>>) = 1 /\ Len(<<>>) = 0
    OBVIOUS
  <2> HIDE DEF a, b, line, w, size, L
  <2>2. line \in {<<Colon>>, <<a>>, <<b>>, <<>>} => Len(line) \in {0, 1}
    BY <2>1
  <2>3. line \notin {<<Colon>>, <<a>>, <<b>>, <<>>}
    <3> DEFINE x == Len(line)
    <3>2. L < x /\ L \in Nat \ {0}
      BY <1>10
    <3> HIDE DEF x
    <3>3. x \in {0, 1} => FALSE
      BY ONLY <3>2
    <3>1. Len(line) \in {0, 1} => FALSE
      BY <3>3 DEF x
    <3> QED BY <2>2, <3>1
  <2>4. /\ (j = 0 /\ j + 1 = 1) \/ (j = 1 /\ j + 1 = 2) \/ (j = 2 /\ j + 1 = 3)
        /\ size = 1 => j + 1 = 1
        /\ size = 2 => j + 1 # 3
    BY <1>7
  <2>5. \/ stream.events[n] = "comment" /\ size = 1 /\ w[1] = <<Colon>>
        \/ stream.events[n] # "comment" /\ size = 3 /\ w[1] = <<a>> /\ w[2] = <<b>> /\ w[3] = <<>>
        \/ stream.events[n] # "comment" /\ size = 2 /\ w[1] = <<a, b>> /\ w[2] = <<>>
    BY <1>6 DEF a, b
  <2> HIDE DEF n
  <2> QED BY <1>8, <2>3, <2>4, <2>5
<1>12. piece = <<a>>
  <2>1. Len(<<a, b>>) = 2 /\ <<a, b>>[1] = a
    OBVIOUS
  <2> HIDE DEF a, b, line
  <2>2. L = 1 /\ piece[1] = a
    <3> DEFINE x == Len(line)
    <3>2. L < x /\ x = 2 /\ L \in Nat \ {0}
      BY <1>10, <1>11, <2>1
    <3> HIDE DEF x, L
    <3>1. L = 1
      BY ONLY <3>2
    <3> QED BY <1>10, <1>11, <2>1, <3>1
  <2> QED BY <2>2
<1>13. piece # <<>> /\ piece[1] # Colon
  BY <1>4, <1>12 DEF Colon
<1>14. CASE r.failed
  BY <1>9, <1>14 DEF TakeLine, Loose
<1>15. CASE ~r.failed
  <2> DEFINE more == r.dataLines \o piece
             new == [r EXCEPT !.dataLines = more]
  <2>1. TakeLine(r, piece) = new
    BY <1>13, <1>15 DEF TakeLine
  <2>2. HasRead(k, r) /\ r.dataLines = <<>>
    BY <1>1, <1>11, <1>15 DEF Begun
  <2>3. more = piece
    BY <2>2
  <2>4. new \in GoodReaders
    BY <1>9, <1>13, <1>15, <2>1, TakeLineTypes
  <2> HIDE DEF more
  <2>5. HasRead(k, new) /\ new.dataLines = more
    BY <1>9, <2>2, HeldApart
  <2> HIDE DEF new
  <2>6. new.dataLines = <<<<n, 1>>>>
    BY <1>12, <2>3, <2>5
  <2> QED BY <1>3, <1>11, <2>1, <2>4, <2>5, <2>6 DEF Loose
<1> QED BY <1>14, <1>15

\* What the end of the bytes leaves.
LEMMA LastIsTaken ==
    ASSUME stream \in StreamRecords, NEW m \in Nat, NEW t \in Nat, t <= Len(Bytes(stream)),
           Reached(m, t), NEW r, ReaderAt(m, r),
           pending = SubSeq(Bytes(stream), Off(stream, m) + 1, t)
    PROVE  LET taken == IF pending = <<>> THEN r ELSE TakeLine(r, LastLine) IN
           /\ Loose(taken)
           /\ t = Len(Bytes(stream)) => ReaderAt(Len(Lines(stream)), taken)
<1> DEFINE M == Len(Lines(stream))
           B == Bytes(stream)
           o == Off(stream, m)
           size == Len(B)
           taken == IF pending = <<>> THEN r ELSE TakeLine(r, LastLine)
<1>1. /\ M \in Nat /\ B \in Seq(Byte) /\ m \in 0..M /\ o <= t /\ o \in Nat
  BY ByteFacts DEF Reached
<1>2. size \in Nat /\ (o = size <=> m = M) /\ m <= M
  BY <1>1, LastLineOnly
<1>3. CASE o = t
  <2>1. pending = <<>>
    <3> DEFINE b == SubSeq(B, o + 1, t)
    <3>1. t \in o..Len(B)
      BY <1>1, <1>2, <1>3
    <3>2. b \in Seq(Byte) /\ Len(b) = t - o
      BY <1>1, <3>1, Window
    <3>3. pending = b
      OBVIOUS
    <3> HIDE DEF b, o
    <3>4. Len(pending) = 0 /\ pending \in Seq(Byte)
      <4>1. t - o = 0
        BY <1>1, <1>3
      <4> QED BY <3>2, <3>3, <4>1
    <3> QED BY <3>4, EmptySeq
  <2> QED BY <1>2, <1>3, <2>1, AtIsLoose
<1>4. CASE o # t
  <2>1. o < t /\ m < M
    BY <1>1, <1>4, <1>2
  <2> DEFINE line == Lines(stream)[m + 1]
  <2>2. /\ pending # <<>> /\ (t = size => LastLine = line /\ m + 1 = M)
        /\ \/ LastLine = line
           \/ /\ LastLine \in Seq(Byte) /\ Len(LastLine) \in Nat \ {0}
              /\ Len(LastLine) < Len(line) /\ \A i \in 1..Len(LastLine) : LastLine[i] = line[i]
    BY <2>1, LastLineIs
  <2>3. taken = TakeLine(r, LastLine)
    BY <2>2
  <2>4. CASE LastLine = line
    BY <2>1, <2>3, <2>4, AtStep, <2>2, AtIsLoose DEF taken
  <2>5. CASE LastLine # line
    BY <2>2, <2>5, <2>1, PartIsLoose, <2>3
  <2> QED BY <2>4, <2>5
<1> QED BY <1>3, <1>4

\* Between two chunks the reader stands behind a line, and only its rest is pending.
StreamInv ==
    /\ stream \in StreamRecords /\ received \in 0..Len(Bytes(stream)) /\ reader \in GoodReaders
    /\ reply.stage \in {"reading", "built", "invalid", "lost"} /\ reply.usage \subseteq AllUsage
    /\ Reading => \E m \in Nat : /\ Reached(m, received) /\ ReaderAt(m, reader)
                                 /\ pending = SubSeq(Bytes(stream), Off(stream, m) + 1, received)
    /\ reply.stage = "built" =>
          reply.body = Answer(stream) /\ (Answered(stream) => reply.usage = AllUsage)
    /\ reply.stage = "invalid" =>
          \/ Excused
          \/ reply.ended /\ received # Len(Bytes(stream))
          \/ ~reply.ended /\ received > MaxStreamBytes

LEMMA StreamBegins ==
    ASSUME stream \in StreamRecords, received = 0, pending = <<>>, reader = NewReader, reply = Unanswered
    PROVE  StreamInv
<1> DEFINE K == Len(stream.events)
           M == Len(Lines(stream))
           B == Bytes(stream)
<1>1. /\ K \in Nat \ {0} /\ M \in Nat /\ LinesBefore(stream, 0) = 0 /\ Off(stream, 0) = 0
      /\ B \in Seq(Byte)
  BY LineFacts, ByteFacts
<1>2. Len(B) \in Nat
  BY <1>1
<1>3. NewReader \in GoodReaders /\ ~NewReader.failed /\ NewReader.dataLines = <<>>
  BY ProviderStreamAssumption DEF NewReader, Readers, GoodReaders
<1>4. HasRead(0, NewReader)
  BY FilteredIsEmpty DEF Seen, Concluded, CountTo, TextsOf, Gathered, HasRead, NewReader
<1>5. ReaderAt(0, reader)
  BY <1>1, <1>3, <1>4 DEF Begun, ReaderAt
<1>6. Reached(0, 0)
  BY Layout, <1>1 DEF Reached
<1>7. pending = SubSeq(B, Off(stream, 0) + 1, 0)
  BY <1>2, <1>1, Window, EmptySeq
<1>8. /\ Unanswered.stage = "reading" /\ Unanswered.usage \subseteq AllUsage
  BY DEF Unanswered
<1> QED BY <1>2, <1>3, <1>5, <1>6, <1>7, <1>8 DEF StreamInv, Reading

LEMMA ReaderStays ==
    ASSUME NEW k, NEW x, ReaderAt(k, x), reader' = x, stream' = stream
    PROVE  ReaderAt(k, reader)'
<1>1. \A j : HasRead(j, x) => HasRead(j, reader)'
  BY DEF HasRead, Gathered, Seen, Concluded
<1>2. \A i, j : Begun(i, j)' = Begun(i, j)
  BY DEF Begun
<1>3. Excused' = Excused
  BY DEF Excused
<1> QED BY <1>1, <1>2, <1>3 DEF ReaderAt, GoodReaders

LEMMA ChunkKeeps ==
    ASSUME StreamInv, NEW n \in 1..ChunkBytes, Chunk(n)
    PROVE  StreamInv'
<1> DEFINE B == Bytes(stream)
           size == Len(B)
           u == received + n
           bytes == pending \o SubSeq(B, received + 1, u)
           scanned == Scanned(reader, bytes)
<1>1. /\ stream \in StreamRecords /\ received \in Nat /\ received <= size /\ reader \in GoodReaders
      /\ reply.stage = "reading" /\ reply.usage \subseteq AllUsage
  BY DEF StreamInv, Chunk, Reading
<1>2. PICK m \in Nat : /\ Reached(m, received) /\ ReaderAt(m, reader)
                       /\ pending = SubSeq(B, Off(stream, m) + 1, received)
  BY DEF StreamInv, Chunk
<1>3. n \in Nat \ {0}
  BY ProviderStreamAssumption
<1>4. /\ received' = u /\ u <= size /\ stream' = stream
      /\ u > MaxStreamBytes => reply' = Broken("invalid", FALSE) /\ reader' = reader
      /\ ~(u > MaxStreamBytes) =>
            /\ pending' = SubSeq(bytes, scanned.next, Len(bytes)) /\ reader' = scanned.reader
            /\ reply' = IF scanned.reader.failed THEN Broken("invalid", FALSE) ELSE reply
  BY DEF Chunk
<1>5. Bytes(stream)' = Bytes(stream) /\ Answer(stream)' = Answer(stream) /\ Answered(stream)' = Answered(stream)
  BY <1>4
<1>6. u \in Nat /\ size \in Nat /\ B \in Seq(Byte) /\ received <= u
  <2>1. B \in Seq(Byte)
    BY <1>1, ByteFacts
  <2> QED BY <1>1, <1>3, <2>1
<1> DEFINE M == Len(Lines(stream))
           o == Off(stream, m)
<1>7. m \in 0..M /\ o <= received /\ o \in Nat /\ M \in Nat /\ (o = size <=> m = M)
  <2>1. M \in Nat /\ (\A j \in 0..M : Off(stream, j) \in Nat) /\ m \in 0..M /\ o <= received
    BY <1>1, <1>2, ByteFacts DEF Reached
  <2>2. m <= M
    BY <2>1
  <2> QED BY <1>1, <2>1, <2>2, LastLineOnly
<1>8. bytes = SubSeq(B, o + 1, u)
  <2>1. received \in o..Len(B) /\ u \in received..Len(B)
    BY <1>1, <1>4, <1>6, <1>7
  <2> QED BY <1>2, <1>6, <1>7, <2>1, WindowGrows
<1>9. o = u \/ m < M
  BY <1>1, <1>4, <1>6, <1>7
<1> HIDE DEF bytes
<1>10. PICK k \in Nat : /\ Reached(k, u) /\ ReaderAt(k, scanned.reader)
                        /\ SubSeq(bytes, scanned.next, Len(bytes)) = SubSeq(B, Off(stream, k) + 1, u)
  <2> HIDE DEF o, u
  <2>1. o <= u
    BY ONLY <1>1, <1>6, <1>7
  <2>2. Unscanned(m, reader, bytes, u)
    BY <1>2, <1>4, <1>6, <1>7, <1>8, <1>9, <2>1 DEF Unscanned, o
  <2> HIDE DEF scanned
  <2>3. PICK k \in Nat : LeftBy(scanned, k, bytes, u)
    BY <1>1, <2>2, ScanKeeps DEF scanned
  <2> QED BY <2>3 DEF LeftBy
<1>11. scanned.reader \in GoodReaders /\ (scanned.reader.failed => Excused)
  BY <1>10 DEF ReaderAt
<1> HIDE DEF scanned, B, u
<1>12. /\ Broken("invalid", FALSE).stage = "invalid" /\ ~Broken("invalid", FALSE).ended
       /\ Broken("invalid", FALSE).usage = {}
  BY DEF Broken
<1>13. /\ stream' \in StreamRecords /\ received' \in 0..Len(Bytes(stream))' /\ reader' \in GoodReaders'
  <2>1. GoodReaders' = GoodReaders
    BY DEF GoodReaders
  <2>2. received' \in 0..size
    BY <1>4, <1>6
  <2> QED BY <1>1, <1>4, <1>5, <1>11, <2>1, <2>2 DEF B
<1>14. Excused' = Excused
  BY <1>5 DEF Excused
<1>15. CASE u > MaxStreamBytes
  BY <1>1, <1>4, <1>5, <1>12, <1>13, <1>15 DEF StreamInv, Reading
<1>16. CASE ~(u > MaxStreamBytes) /\ scanned.reader.failed
  BY <1>1, <1>4, <1>5, <1>11, <1>12, <1>13, <1>14, <1>16 DEF StreamInv, Reading
<1>17. CASE ~(u > MaxStreamBytes) /\ ~scanned.reader.failed
  BY <1>4, <1>10, <1>17, ReaderStays, <1>5, <1>1, <1>13 DEF Reached, End, B, StreamInv, Reading
<1> QED BY <1>15, <1>16, <1>17

LEMMA EndKeeps == StreamInv /\ EndOfStream => StreamInv'
<1> SUFFICES ASSUME StreamInv, EndOfStream PROVE StreamInv'
  OBVIOUS
<1> DEFINE K == Len(stream.events)
           M == Len(Lines(stream))
           B == Bytes(stream)
           size == Len(B)
           taken == IF pending = <<>> THEN reader ELSE TakeLine(reader, LastLine)
           ended == IF taken.failed THEN taken ELSE EndEvent(taken)
           body == BuildBody(ended)
           usage == UsageOf(ended)
           bad == Broken("invalid", TRUE)
           good == [stage |-> "built", ended |-> TRUE, body |-> body, usage |-> usage]
<1>1. /\ stream \in StreamRecords /\ received \in 0..size /\ received \in Nat /\ received <= size
      /\ K \in Nat
  BY LineFacts DEF StreamInv
<1>2. PICK m \in Nat : /\ Reached(m, received) /\ ReaderAt(m, reader)
                       /\ pending = SubSeq(B, Off(stream, m) + 1, received)
  BY DEF StreamInv, EndOfStream
<1>3. Loose(taken) /\ (received = size => ReaderAt(M, taken))
  BY <1>1, <1>2, LastIsTaken
<1>4. /\ reader' = ended /\ stream' = stream /\ received' = received
      /\ reply' = IF ended.failed \/ ~RequireComplete(ended) THEN bad ELSE good
  BY DEF EndOfStream
<1> HIDE DEF taken
<1>5. taken \in GoodReaders
  BY <1>3 DEF Loose
<1>6. ended \in GoodReaders
  BY <1>1, <1>5, EndEventTypes
<1>7. ~ended.failed => \E k \in 0..K : HasRead(k, ended)
  BY <1>1, <1>3, LooseEnds
<1>8. received = size /\ Answered(stream) => Excused \/ (~ended.failed /\ RequireComplete(ended))
  BY <1>1, <1>3, AtEnd, <1>5, AnsweredIsComplete DEF EndEvent
<1> HIDE DEF ended
<1>9. ~ended.failed /\ RequireComplete(ended) =>
         body = Answer(stream) /\ (Answered(stream) => usage = AllUsage)
  BY <1>1, <1>6, <1>7, CompleteIsWhole
<1>10. usage \subseteq AllUsage
  BY <1>6 DEF UsageOf, GoodReaders, Readers
<1> HIDE DEF body, usage
<1>11. /\ good.stage = "built" /\ good.body = body /\ good.usage = usage
       /\ bad.stage = "invalid" /\ bad.ended /\ bad.usage \subseteq AllUsage
  BY DEF Broken
<1> HIDE DEF good, bad
<1>12. /\ Bytes(stream)' = Bytes(stream) /\ Answer(stream)' = Answer(stream)
       /\ Answered(stream)' = Answered(stream) /\ Excused' = Excused /\ GoodReaders' = GoodReaders
  BY <1>4 DEF Excused, GoodReaders
<1>13. /\ stream' \in StreamRecords /\ received' \in 0..Len(Bytes(stream))' /\ reader' \in GoodReaders'
       /\ Len(Bytes(stream))' = size
  BY <1>1, <1>4, <1>6, <1>12
<1> HIDE DEF B, size
<1>14. CASE ended.failed \/ ~RequireComplete(ended)
  BY <1>4, <1>14, <1>8, <1>11, <1>12, <1>13 DEF Excused, StreamInv, Reading
<1>15. CASE ~(ended.failed \/ ~RequireComplete(ended))
  BY <1>4, <1>15, <1>9, <1>10, <1>11, <1>12, <1>13 DEF StreamInv, Reading
<1> QED BY <1>14, <1>15

LEMMA ConnectionFailsKeeps == StreamInv /\ ConnectionFails => StreamInv'
BY DEF ConnectionFails, Broken, StreamInv, Reading, GoodReaders

LEMMA StreamStutters == StreamInv /\ UNCHANGED streamVars => StreamInv'
BY ReaderStays DEF streamVars, Reading, StreamInv, Reached, End, GoodReaders, Excused

LEMMA StreamStepKeeps == StreamInv /\ [StreamNext]_streamVars => StreamInv'
BY ChunkKeeps, EndKeeps, ConnectionFailsKeeps, StreamStutters DEF StreamNext

LEMMA StreamInvTells == StreamInv => StreamTypeOK /\ StreamIsWhole
<1> SUFFICES ASSUME StreamInv PROVE StreamTypeOK /\ StreamIsWhole
  OBVIOUS
<1>1. ASSUME Reading
      PROVE  \E n \in 0..received : pending = SubSeq(Bytes(stream), n + 1, received)
  <2>1. PICK m \in Nat : /\ Reached(m, received)
                         /\ pending = SubSeq(Bytes(stream), Off(stream, m) + 1, received)
    BY <1>1 DEF StreamInv
  <2>2. stream \in StreamRecords /\ received \in Nat
    BY DEF StreamInv
  <2>3. Off(stream, m) \in 0..received
    <3>1. Off(stream, m) \in Nat /\ Off(stream, m) <= received
      BY <2>1, <2>2, ByteFacts DEF Reached
    <3> QED BY <2>2, <3>1
  <2> QED BY <2>1, <2>3
<1>2. StreamTypeOK
  BY <1>1 DEF StreamInv, StreamTypeOK, GoodReaders
<1>3. StreamIsWhole
  BY ProviderStreamAssumption, AnswerIs DEF StreamInv, StreamIsWhole, Excused
<1> QED BY <1>2, <1>3

LEMMA StreamInvHolds == StreamSpec => []StreamInv
<1>1. StreamInit => StreamInv
  BY StreamBegins DEF StreamInit
<1> QED BY <1>1, StreamStepKeeps, PTL DEF StreamSpec

\* Wherever the network cuts the bytes of an answer, in any dialect and layout and for any
\* size of chunk and any limits, the reader, the assembler and the accumulator keep their
\* types and put together the whole answer or none (cognition/streaming.py, _postStreaming).
THEOREM StreamsAreWhole == StreamSpec => [](StreamTypeOK /\ StreamIsWhole)
BY StreamInvTells, StreamInvHolds, PTL

-----------------------------------------------------------------------------
(* The four and the kernel, side by side.                                   *)

\* A behaviour that makes no call, or reads no stream, starts as one that does.
LEMMA NoneBegins ==
    ASSUME AccountingInit
    PROVE  /\ Init /\ CallInv /\ StreamInv /\ GatewayInv /\ PathInv
<1>1. Init /\ CallInv /\ PathInv
  BY CallInvInit, PathInitially DEF AccountingInit
<1>2. StreamInv
  <2>1. CASE StreamInit
    BY <2>1, StreamBegins DEF StreamInit
  <2>2. CASE NoStream
    <3> DEFINE none == [dialect |-> "google", events |-> <<"text", "error">>,
                        delimiter |-> <<LF>>, split |-> FALSE]
    <3>1. <<"text", "error">> \in Transcripts("google")
      BY DEF Transcripts
    <3>2. "google" \in Dialects /\ <<LF>> \in Delimiters
      BY DEF Dialects, Delimiters
    <3>3. none \in [dialect : {"google"}, events : Transcripts("google"), delimiter : Delimiters,
                    split : BOOLEAN]
      BY <3>1, <3>2
    <3>4. none \in StreamRecords
      BY <3>2, <3>3 DEF StreamRecords
    <3> QED BY <2>2, <3>4, StreamBegins DEF NoStream
  <2> QED BY <2>1, <2>2 DEF AccountingInit
<1>3. GatewayInv
  <2>1. NoRequest => GatewayInit
    BY DEF NoRequest, GatewayInit, AskedRecords, Providers, Workflows
  <2> QED BY <2>1, GatewayInitHolds DEF AccountingInit
<1> QED BY <1>1, <1>2, <1>3

allVars == <<part, vars, modelVars, gatewayVars, streamVars, preparedVars>>

\* A step of one is a stutter of the others.
LEMMA OneMoves ==
    ASSUME [AccountingNext]_allVars
    PROVE  /\ [Next]_vars /\ [ModelNext]_modelVars /\ [StreamNext]_streamVars
           /\ [GatewayNext]_gatewayVars /\ [PreparedNext]_preparedVars
<1>1. CASE UNCHANGED allVars
  BY ONLY <1>1 DEF allVars
<1>2. CASE Market
  BY ONLY <1>2 DEF Market
<1>3. CASE Calls
  BY ONLY <1>3 DEF Calls
<1>4. CASE Gateway
  BY ONLY <1>4 DEF Gateway
<1>5. CASE Stream
  BY ONLY <1>5 DEF Stream
<1>6. CASE Prepared
  BY ONLY <1>6 DEF Prepared
<1> QED BY <1>1, <1>2, <1>3, <1>4, <1>5, <1>6 DEF AccountingNext

\* Each keeps its inductive invariant, whatever the others do.
LEMMA AccountingInvHolds ==
    AccountingSpec => [](CallInv /\ StreamInv /\ GatewayInv /\ PathInv)
<1>1. CallInv /\ StreamInv /\ GatewayInv /\ PathInv /\ [AccountingNext]_allVars
        => (CallInv /\ StreamInv /\ GatewayInv /\ PathInv)'
  BY OneMoves, CallInvNext, StreamStepKeeps, GatewayStepKeepsInv, PathNext
<1> QED BY <1>1, NoneBegins, PTL DEF AccountingSpec, allVars

\* Every value of the kernel, the calls, the gateways, the streams and the prepared path
\* has its type, and the kernel raises no error but those its callers expect.
THEOREM AccountingTypes == AccountingSpec => []AccountingTypeOK
<1>1. AccountingSpec => Spec
  BY NoneBegins, OneMoves, PTL DEF AccountingSpec, Spec, allVars
<1>2. AccountingSpec => []OnlyKnownErrors
  BY <1>1, KernelErrors, PTL
<1>3. CallInv /\ StreamInv /\ GatewayInv /\ PathInv
        => ModelTypeOK /\ GatewayTypeOK /\ StreamTypeOK /\ PreparedTypeOK
  BY CallInvTypes, StreamInvTells DEF GatewayInv, PathInv
<1> QED BY <1>2, <1>3, AccountingInvHolds, PTL DEF AccountingTypeOK

LEMMA PathInvTells == PathInv => OneWorkerPerRow /\ GrantedIsInterpreted
BY OneWorker DEF PathInv

\* What is paid for is used and told: an answer is put together whole or not at all wherever
\* the network cuts it, a call tells what went over its wire and posts again only for a
\* reason, and a preparation spends nothing on what is already there
\* (ProviderStreamAccumulator, the gateways, prepared_guided_path_cli.py).
THEOREM StreamsAndPath == AccountingSpec => StreamsAndPathAreSound
<1> DEFINE J == CallInv /\ StreamInv /\ GatewayInv /\ PathInv
           some == <<streamVars, gatewayVars, preparedVars>>
<1>1. J /\ J' /\ [AccountingNext]_allVars => StreamIsWhole' /\ GatewayStep /\ PathStep
  <2> SUFFICES ASSUME J, J', [AccountingNext]_allVars
               PROVE  StreamIsWhole' /\ GatewayStep /\ PathStep
    OBVIOUS
  <2>1. StreamIsWhole'
    <3>1. (StreamInv => StreamIsWhole)'
      BY StreamInvTells, PTL
    <3> QED BY <3>1
  <2>2. GatewayStep
    <3>1. (GatewayInv => CallTellsWire /\ AnswersAreTold /\ ReceiptsAreTrue)'
      BY GatewayTells, PTL
    <3>2. SentForAReason
      <4>1. CASE GatewayNext
        BY <4>1, PostsForAReason
      <4>2. CASE UNCHANGED gatewayVars
        <5>1. wire' = wire
          BY <4>2 DEF gatewayVars
        <5>2. wire.sent \in Nat
          BY DEF GatewayInv, GatewayTypeOK, WireRecords
        <5> QED BY <5>1, <5>2 DEF SentForAReason
      <4> QED BY <4>1, <4>2, OneMoves
    <3> QED BY <3>1, <3>2 DEF GatewayStep
  <2>3. PathStep
    <3>1. (PathInv => OneWorkerPerRow /\ GrantedIsInterpreted)'
      BY PathInvTells, PTL
    <3>2. PreparedOnce
      <4>1. UNCHANGED preparedVars => PreparedOnce
        BY DEF preparedVars, PreparedOnce
      <4> QED BY <4>1, OneMoves, PathNext
    <3> QED BY <3>1, <3>2 DEF PathStep
  <2> QED BY <2>1, <2>2, <2>3
<1>2. J /\ J' /\ [AccountingNext]_allVars => [StreamIsWhole' /\ GatewayStep /\ PathStep]_some
  BY <1>1
<1> HIDE DEF J
<1>3. AccountingSpec => []J
  BY AccountingInvHolds DEF J
<1> QED BY <1>2, <1>3, PTL DEF AccountingSpec, StreamsAndPathAreSound, allVars
=============================================================================
