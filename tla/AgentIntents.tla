----------------------------- MODULE AgentIntents -----------------------------
(***************************************************************************)
(* One agent of a run: how a rule or a signal of the model becomes an       *)
(* intent (agents.py, agent_protocol.py), and what happens to the intent    *)
(* until it trades.  Between forming and arriving lies the latency, in      *)
(* which earlier orders trade and the agent may form the next intent.       *)
(*                                                                         *)
(* The market is external: it shows any top of the book and fills any part  *)
(* of an order.  A strategy's score is abstracted to its side, sizes drawn  *)
(* at random to any size, and the fractions of a signal are in percent.     *)
(***************************************************************************)
EXTENDS Integers, Sequences

CONSTANTS
    Population,     \* types of the agents that act
    PositionLimit,  \* maxAbsolutePosition
    Tick,           \* tickSizeTicks
    PriceCollar,    \* priceCollarBps
    Tops,           \* what the market may show: the best quotes, 0 for none, and the last price
    Depths,         \* depthWithinTenBps
    BeliefSignals,  \* what the model may have answered for this agent
    SignalRounds,   \* the decision rounds the agent is asked in
    BaseSizes,      \* sizes a rule draws
    LastStep, MaxFlying     \* bounds: steps, and intents on their way at once

VARIABLES
    actor,      \* the agent's type, and the steps its signals become active in
    holding,    \* position
    moment,      \* the step, whether the agent was activated in it, and has heard of the event
    spent,       \* cognitiveUseCount
    formed,     \* the intent just formed and what it was formed from, or Nothing
    flying,     \* the intents between activation and arrival
    resting     \* the agent's order in the book, or Nothing

intentVars == <<actor, holding, moment, spent, formed, flying, resting>>

Lower(a, b) == IF a <= b THEN a ELSE b
Higher(a, b) == IF a >= b THEN a ELSE b
Size(n) == IF n >= 0 THEN n ELSE -n

Nothing == [side |-> "NONE", quantity |-> 0]

\* The population without its market makers, whose quotes are MarketKernel's.
AgentTypes == {"noise", "value", "momentum", "meanReversion", "passive", "stopLoss",
               "institutionalExecution", "deleveraging", "forcedLiquidation", "arbitrage"}
Forced == {"deleveraging", "forcedLiquidation"}

ASSUME AgentIntentsAssumption ==
    /\ Population \subseteq AgentTypes
    /\ {PositionLimit, Tick} \subseteq Nat \ {0} /\ PriceCollar \in 0..10000
    /\ Tops \subseteq [bid : Nat, ask : Nat, last : Nat \ {0}]
    /\ \A top \in Tops : top.bid = 0 \/ top.ask = 0 \/ top.bid < top.ask
    /\ \A top \in Tops : top.bid % Tick = 0 /\ top.ask % Tick = 0
    /\ BeliefSignals \subseteq [preference : STRING, evidence : BOOLEAN, fraction : -100..100,
                               uncertainty : 0..100, confidence : 0..100, urgency : 0..100]
    /\ Depths \subseteq Nat /\ BaseSizes \subseteq Nat \ {0}
    /\ {SignalRounds, LastStep, MaxFlying} \subseteq Nat

InitialHolding(type) ==
    (PositionLimit * (CASE type = "stopLoss"               -> 40
                        [] type = "institutionalExecution" -> 20
                        [] type = "deleveraging"           -> 90
                        [] type = "forcedLiquidation"      -> 120
                        [] OTHER                           -> 0)) \div 180

\* _assignCognitiveSignals sorts an agent's signals by activeFromStep
Schedules == {due \in [1..SignalRounds -> 0..LastStep] :
                 \A i, j \in 1..SignalRounds : i < j => due[i] <= due[j]}

AgentInit ==
    /\ \E type \in Population, due \in Schedules :
          /\ actor = [type |-> type, due |-> due]
          /\ holding = InitialHolding(type)
    /\ moment = [step |-> 0, acted |-> FALSE, heard |-> FALSE]
    /\ spent = 0 /\ formed = Nothing /\ flying = <<>> /\ resting = Nothing

-----------------------------------------------------------------------------
(* Prices.                                                                  *)

\* _snapToTick of a positive integer price
SnapUp(price) == Higher(Tick, ((price + Tick - 1) \div Tick) * Tick)
SnapDown(price) == Higher(Tick, (price \div Tick) * Tick)
OnGrid(price) == price > 0 /\ price % Tick = 0

\* round of n / d: a half goes to the even neighbour
EvenRounded(n, d) ==
    IF 2 * (n % d) < d \/ (2 * (n % d) = d /\ (n \div d) % 2 = 0) THEN n \div d ELSE n \div d + 1

\* midPrice, rounded
Mid(top) == IF top.bid # 0 /\ top.ask # 0 THEN EvenRounded(top.bid + top.ask, 2) ELSE top.last

\* _safeTopOfBook
BestBid(top) ==
    Higher(1, Lower(IF top.bid # 0 THEN top.bid ELSE Higher(2, Mid(top)) - 1,
                    Higher(2, Mid(top))))
BestAsk(top) ==
    Higher(BestBid(top) + 1, IF top.ask # 0 THEN top.ask ELSE Higher(2, Mid(top)) + 1)

\* _limitPrice: a price moved outwards by bps of itself, and rounded outwards
RaisedBy(price, bps) == (price * (10000 + bps) + 9999) \div 10000
LoweredBy(price, bps) == Higher(1, (price * (10000 - bps)) \div 10000)

\* _roundHalfAwayFromZero of n / d
AwayRounded(n, d) == IF n >= 0 THEN (2 * n + d) \div (2 * d) ELSE -((2 * (-n) + d) \div (2 * d))

-----------------------------------------------------------------------------
(* Rules.                                                                   *)

AnySide == {"BUY", "SELL", "NONE"}

\* _strategyScore: its sides, NONE below the threshold; pressed is the schedule's window or
\* the drawdown or mood that triggers a sale
ScoreSides(type, held, pressed) ==
    CASE type = "passive" -> IF pressed THEN {"BUY", "NONE"} ELSE {"NONE"}
      [] type = "institutionalExecution" -> IF pressed THEN {"BUY", "NONE"} ELSE AnySide
      [] type = "forcedLiquidation" -> IF pressed /\ held > 0 THEN {"SELL"} ELSE {"NONE"}
      [] type \in {"deleveraging", "stopLoss"} ->
            IF pressed /\ held > 0 THEN {"SELL"} ELSE AnySide
      [] OTHER -> AnySide

\* the size a rule wants to trade: forced sellers at least a share of what they hold
Wanted(type, side, held, base) ==
    IF side # "SELL" THEN base
    ELSE CASE type = "deleveraging"      -> Higher(base, Higher(1, Size(held) \div 8))
           [] type = "forcedLiquidation" -> Higher(base, Higher(1, Size(held) \div 3))
           [] OTHER                      -> base

Signed(side, quantity) == IF side = "BUY" THEN quantity ELSE -quantity

PassesLimit(side, held, quantity) == Size(held + Signed(side, quantity)) > PositionLimit

\* an intent beyond the limit becomes one that reduces the position by at most a quarter
RuleSide(side, held, wanted) ==
    IF PassesLimit(side, held, wanted) THEN (IF held > 0 THEN "SELL" ELSE "BUY") ELSE side
RuleQuantity(type, side, held, wanted) ==
    LET kept == IF PassesLimit(side, held, wanted)
                THEN Lower(wanted, Higher(1, Size(held) \div 4)) ELSE wanted
    IN  IF type \in Forced /\ RuleSide(side, held, wanted) = "SELL"
        THEN Lower(kept, Higher(held, 1)) ELSE kept

\* _submitAgentIntent: an intent of a rule has no price of its own; the price seen at its
\* activation gives it one, within the collar when it is marketable, else away by patience
\* ticks, which falls with the urgency
RulePrice(side, reference, patience) ==
    CASE side = "BUY"  /\ patience = 0 -> SnapUp(EvenRounded(reference * (10000 + PriceCollar), 10000))
      [] side = "SELL" /\ patience = 0 ->
            SnapDown(Higher(1, EvenRounded(reference * (10000 - PriceCollar), 10000)))
      [] side = "BUY"  /\ patience > 0 -> SnapDown(Higher(Tick, reference - Tick * patience))
      [] OTHER                         -> SnapUp(reference + Tick * patience)

\* makeOrderIntent
RuleIntent(type, side, held, base, patience, top) ==
    LET wanted == Wanted(type, side, held, base)
        turned == RuleSide(side, held, wanted)
    IN  [side |-> turned, quantity |-> RuleQuantity(type, side, held, wanted),
         price |-> RulePrice(turned, Mid(top), patience), lasting |-> patience > 0]

\* marketable, or by two or three ticks away; the urgency of forced sellers, and of a stop
\* loss that fired, is above the threshold
Patience(type, pressed, held) ==
    IF type \in Forced \/ (type = "stopLoss" /\ pressed /\ held > 0) THEN {0} ELSE {0, 2, 3}

-----------------------------------------------------------------------------
(* Signals of the model.                                                    *)

Preferences == {"INCREASE", "REDUCE", "HOLD", "EXIT", "ABSTAIN", "POST_ONLY"}
Passive == {"HOLD", "ABSTAIN", "POST_ONLY"}

\* translate: INCREASE and REDUCE alike take the fraction of the limit, less with doubt
Sized(signal) ==
    signal.fraction * PositionLimit * Higher(1000, 10000 - 75 * signal.uncertainty)
        * Higher(10, signal.confidence)
Target(signal, held) ==
    CASE signal.preference \in Passive -> held
      [] signal.preference = "EXIT"    -> 0
      [] OTHER -> Higher(-PositionLimit, Lower(PositionLimit, AwayRounded(Sized(signal), 100000000)))

\* the participation cap: a quarter of the depth
Participation(depth) == depth \div 4

\* _executionStyle
Style(signal) ==
    CASE signal.urgency < 35 -> "PASSIVE_LIMIT"
      [] 35 <= signal.urgency /\ signal.urgency < 75 -> "NEAR_TOUCH_LIMIT"
      [] OTHER -> "MARKETABLE_LIMIT"

\* the collar that the policy accepts, and how much of it the urgency uses
Slippage(signal) == AwayRounded(Lower(PriceCollar, 5000) * signal.urgency, 100)

\* _limitPrice
LimitPrice(signal, side, top) ==
    CASE Style(signal) = "PASSIVE_LIMIT" -> IF side = "BUY" THEN BestBid(top) ELSE BestAsk(top)
      [] Style(signal) = "NEAR_TOUCH_LIMIT" -> IF side = "BUY" THEN BestAsk(top) ELSE BestBid(top)
      [] OTHER -> IF side = "BUY" THEN RaisedBy(BestAsk(top), Slippage(signal))
                  ELSE LoweredBy(BestBid(top), Slippage(signal))

\* an unknown preference or direction, and an opinion without evidence, make no intent
Usable(signal) ==
    /\ signal.preference \in Preferences
    /\ signal.preference \notin Passive => signal.evidence

\* the observation is validated outside the try: one that does not hold ends the run
ObservationHolds(held, top) ==
    /\ Size(held) <= PositionLimit
    /\ 0 < BestBid(top) /\ BestBid(top) < BestAsk(top)

\* makeCognitiveOrderIntent, and _activateAgents, which snaps the price
SignalIntent(signal, held, depth, top) ==
    LET delta == Target(signal, held) - held
        side == IF delta > 0 THEN "BUY" ELSE "SELL"
        price == LimitPrice(signal, side, top)
    IN  IF ~Usable(signal) \/ Lower(Size(delta), Participation(depth)) = 0 THEN Nothing
        ELSE [side |-> side, quantity |-> Lower(Size(delta), Participation(depth)),
              price |-> IF side = "BUY" THEN SnapUp(price) ELSE SnapDown(price),
              lasting |-> Style(signal) # "MARKETABLE_LIMIT"]

-----------------------------------------------------------------------------
(* The activation, the way to the exchange, and trades.                     *)

\* a signal takes part when it is unused, active, and the agent has heard of the event
SignalReady ==
    spent < SignalRounds /\ actor.due[spent + 1] <= moment.step /\ moment.heard

\* the first receipt of the information, _recordNetworkDelivery
Hears ==
    /\ formed = Nothing /\ ~moment.heard
    /\ moment' = [moment EXCEPT !.heard = TRUE]
    /\ UNCHANGED <<actor, holding, spent, formed, flying, resting>>

MayAct == formed = Nothing /\ ~moment.acted /\ Len(flying) < MaxFlying

ActsOnSignal(signal, depth, top) ==
    /\ MayAct /\ SignalReady
    /\ spent' = spent + 1
    /\ moment' = [moment EXCEPT !.acted = TRUE]
    /\ formed' = [by |-> "SIGNAL", signal |-> signal, top |-> top, depth |-> depth,
                  holds |-> ObservationHolds(holding, top),
                  intent |-> SignalIntent(signal, holding, depth, top)]
    /\ UNCHANGED <<actor, holding, flying, resting>>

\* an agent without a signal acts by chance, and on its score
ActsByRule(side, pressed, base, patience, top) ==
    /\ MayAct /\ ~SignalReady
    /\ side \in ScoreSides(actor.type, holding, pressed) \ {"NONE"}
    /\ patience \in Patience(actor.type, pressed, holding)
    /\ moment' = [moment EXCEPT !.acted = TRUE]
    /\ formed' = [by |-> "RULE", score |-> side, top |-> top,
                  intent |-> RuleIntent(actor.type, side, holding, base, patience, top)]
    /\ UNCHANGED <<actor, holding, spent, flying, resting>>

\* the order is scheduled; its price is settled and plays no part below
Sends ==
    /\ formed # Nothing /\ formed.intent # Nothing
    /\ flying' = Append(flying, [side |-> formed.intent.side, quantity |-> formed.intent.quantity,
                                 lasting |-> formed.intent.lasting])
    /\ formed' = Nothing
    /\ UNCHANGED <<actor, holding, moment, spent, resting>>

\* no intent, or one that the latency takes beyond the end of the run
SendsNothing ==
    /\ formed # Nothing /\ (formed.intent = Nothing \/ moment.step = LastStep)
    /\ formed' = Nothing
    /\ UNCHANGED <<actor, holding, moment, spent, flying, resting>>

\* what the ledger may approve: the position limit, with the agent's own order gone;
\* without short sales no more than is held
Room(side, short) ==
    IF side = "BUY" THEN PositionLimit - holding
    ELSE IF short THEN PositionLimit + holding ELSE Higher(0, holding)

\* _submitAgentIntent: it replaces the agent's order; its rest stays if it may
OrderReaches(approved, filled, short) ==
    /\ formed = Nothing /\ flying # <<>>
    /\ LET intent == Head(flying)
       IN  /\ approved <= Lower(intent.quantity, Higher(0, Room(intent.side, short)))
           /\ filled <= approved
           /\ holding' = holding + Signed(intent.side, filled)
           /\ resting' = IF intent.lasting /\ filled < approved
                         THEN [side |-> intent.side, quantity |-> approved - filled]
                         ELSE Nothing
    /\ flying' = Tail(flying)
    /\ UNCHANGED <<actor, moment, spent, formed>>

\* _processAgentOrderArrival in a halt: the resting order is kept
ArrivesInHalt ==
    /\ formed = Nothing /\ flying # <<>> /\ flying' = Tail(flying)
    /\ UNCHANGED <<actor, holding, moment, spent, formed, resting>>

\* another's order meets the resting one
RestTrades(filled) ==
    /\ formed = Nothing /\ resting # Nothing /\ filled \in 1..resting.quantity
    /\ holding' = holding + Signed(resting.side, filled)
    /\ resting' = IF filled = resting.quantity THEN Nothing
                  ELSE [resting EXCEPT !.quantity = @ - filled]
    /\ UNCHANGED <<actor, moment, spent, formed, flying>>

StepPasses ==
    /\ formed = Nothing /\ moment.step < LastStep
    /\ moment' = [moment EXCEPT !.step = @ + 1, !.acted = FALSE]
    /\ UNCHANGED <<actor, holding, spent, formed, flying, resting>>

AgentNext ==
    \/ Hears \/ Sends \/ SendsNothing \/ ArrivesInHalt \/ StepPasses
    \/ \E signal \in BeliefSignals, depth \in Depths, top \in Tops :
          ActsOnSignal(signal, depth, top)
    \/ \E side \in {"BUY", "SELL"}, pressed \in BOOLEAN, base \in BaseSizes,
          patience \in {0, 2, 3}, top \in Tops : ActsByRule(side, pressed, base, patience, top)
    \/ \E approved, filled \in 0..(2 * PositionLimit), short \in BOOLEAN :
          OrderReaches(approved, filled, short)
    \/ \E filled \in 1..(2 * PositionLimit) : RestTrades(filled)

AgentSpec == AgentInit /\ [][AgentNext]_intentVars
-----------------------------------------------------------------------------
IntentRecords == [side : {"BUY", "SELL"}, quantity : Nat \ {0}, price : Nat, lasting : BOOLEAN]
OrderRecords == [side : {"BUY", "SELL"}, quantity : Nat \ {0}, lasting : BOOLEAN]

\* Every variable of the agent has its type.
AgentTypeOK ==
    /\ actor \in [type : Population, due : Schedules]
    /\ holding \in Int
    /\ moment \in [step : 0..LastStep, acted : BOOLEAN, heard : BOOLEAN]
    /\ spent \in 0..SignalRounds
    /\ formed # Nothing => formed.intent \in IntentRecords \cup {Nothing}
    /\ flying \in Seq(OrderRecords)
    /\ resting \in [side : {"BUY", "SELL"}, quantity : Nat \ {0}] \cup {Nothing}

\* The agent keeps to its limit whatever the market fills: orders sized for a position of
\* the past, several on their way at once, and a rest that trades before it is replaced.
HoldingWithinLimit ==
    /\ Size(holding) <= PositionLimit
    /\ resting # Nothing => ~PassesLimit(resting.side, holding, resting.quantity)

\* What an intent does if it trades at once (makeOrderIntent, translate): it keeps to the
\* limit; a forced sale sells what is held, or one share where nothing is; a signal's intent
\* moves towards its target, not past it, by no more than its share of the depth; and no
\* observation ends the run.
IntentsBounded ==
    LET intent == formed.intent
    IN  formed # Nothing /\ intent # Nothing =>
        /\ ~PassesLimit(intent.side, holding, intent.quantity)
        /\ (formed.by = "RULE" /\ actor.type \in Forced /\ intent.side = "SELL")
              => intent.quantity <= Higher(holding, 1)
        /\ formed.by = "SIGNAL" =>
              LET target == Target(formed.signal, holding)
                  after == holding + Signed(intent.side, intent.quantity)
              IN  /\ formed.holds /\ formed.signal.preference \notin Passive
                  /\ intent.quantity <= Participation(formed.depth)
                  /\ \/ holding < after /\ after <= target
                     \/ target <= after /\ after < holding

\* What an intent may pay (translate, _protectedPrice): a price of the grid; a signal's
\* within the collar around the touch, or on its own side of a book that has both.
PricesProtected ==
    LET intent == formed.intent
        price == intent.price
        top == formed.top
    IN  formed # Nothing /\ intent # Nothing =>
        /\ OnGrid(price)
        /\ formed.by = "SIGNAL" =>
              /\ intent.side = "BUY" => price <= SnapUp(RaisedBy(BestAsk(top), PriceCollar))
              /\ intent.side = "SELL" => price >= SnapDown(LoweredBy(BestBid(top), PriceCollar))
              /\ (Style(formed.signal) = "PASSIVE_LIMIT" /\ top.bid # 0 /\ top.ask # 0)
                    => IF intent.side = "BUY" THEN price < top.ask ELSE price > top.bid

\* A passive limit order never takes liquidity, also where one side of the book is
\* empty: not so, since the missing quote is invented beside the last price.
PassiveAddsLiquidity ==
    formed # Nothing /\ formed.intent # Nothing /\ formed.by = "SIGNAL"
        /\ Style(formed.signal) = "PASSIVE_LIMIT" =>
        LET price == formed.intent.price
            top == formed.top
        IN  IF formed.intent.side = "BUY" THEN top.ask = 0 \/ price < top.ask
            ELSE price > top.bid

\* A liquidation sells what is held: not so if a second intent, sized before the first has
\* traded, is on its way (latencyMs of a step or more); the two together open a short position.
LiquidationNeverShorts == actor.type = "forcedLiquidation" /\ spent = 0 => holding >= 0
=============================================================================
