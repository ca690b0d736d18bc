---------------------------- MODULE MarketKernel ----------------------------
(***************************************************************************)
(* The part of engine.py that moves orders: a trader's intent or the       *)
(* system flow is checked and reserved by the ledger, matched by the book  *)
(* and settled trade by trade; a market maker replaces its quotes.  One    *)
(* event is handled at a time, in steps; nothing else runs between them,   *)
(* but an error can end the run after any of them.  It starts when the     *)
(* opening liquidity has been withdrawn (step 0) and the book is empty.    *)
(***************************************************************************)
EXTENDS PriorityBook, Ledger

CONSTANTS
    Traders, Makers, System,    \* the agents; System is synthetic-event-flow
    ShortSelling,   \* runtime.allowShortSelling
    TickSize,       \* tickSizeTicks
    Levels,         \* quote levels of a maker
    Distances,      \* the distances from the centre a quote may have
    MaxIntents      \* bound: the orders of traders and of the system

ASSUME KernelAssumption ==
    /\ Agents = Traders \cup Makers \cup {System} /\ System \notin Traders \cup Makers
    /\ Traders \cap Makers = {}
    /\ Accounts = Agents /\ OrderIds = Ids
    /\ ShortSelling \in BOOLEAN
    /\ TickSize \in 1..MaxPrice /\ Levels \in Nat /\ Distances \subseteq Nat
    /\ \A a \in Traders : Long0[a] <= MaxAbsolutePosition[a]
    /\ MaxIntents \in Nat

VARIABLES
    ledger,     \* state.ledger
    phase,      \* what the event handler does next
    maker,      \* the market maker that quotes, how many quotes are to come, and their
                \* centre and first quantity
    settled,    \* the trades of the report that are settled
    failure     \* the error that ended the run

vars == <<orders, open, incoming, trades, ledger, phase, maker, settled, failure>>

NoMaker == [agent |-> System, left |-> 0, centre |-> 0, base |-> 0]
GridPrices == {p \in Prices : p % TickSize = 0}

Init ==
    /\ InitBook
    /\ ledger = InitialLedger
    /\ phase = "idle"
    /\ maker = NoMaker
    /\ settled = 0
    /\ failure = "none"

\* _cancelAgentOrders: the orders it cancels
OwnOrders(a) == {o \in open : orders[o].agent = a}

\* mutant: the ledger is not told of the cancelled orders
NoneReleased(L, cancelled) == L

\* _cancelAgentOrders: the ledger after the cancelled orders are released
ReleasedAll(L, cancelled) == FoldSet(LAMBDA o, acc : Released(acc, o), L, cancelled)

\* _submitLimitWithRisk on the ledger L: rejected, refused by the book, or matching
Submit(L, a, side, price, q, tif, short) ==
    LET r == Evaluated(L, a, side, q, price, short)
        id == Len(orders) + 1
    IN  \/ /\ r = NoReservation
           /\ ledger' = L
           /\ phase' = IF a \in Makers THEN "quote" ELSE "idle"
           /\ UNCHANGED <<orders, incoming, trades, failure>>
        \/ /\ r # NoReservation /\ price % TickSize # 0
           /\ failure' = "off the tick grid"
           /\ UNCHANGED <<orders, incoming, trades, phase>>
           /\ ledger' = Reserved(L, id, r)
        \/ /\ r # NoReservation /\ price % TickSize = 0
           /\ Accept(a, side, price, r.left, tif)
           /\ ledger' = Reserved(L, id, r)
           /\ phase' = "match"
           /\ UNCHANGED failure

\* the bounds leave room for another order of a trader or of the system
RoomForIntent ==
    /\ Len(orders) < MaxOrders
    /\ Cardinality({i \in DOMAIN orders : orders[i].agent \notin Makers}) < MaxIntents

\* AGENT_ORDER_ARRIVED: _submitAgentIntent, up to the matching
TraderOrder(a, side, price, q, tif) ==
    /\ phase = "idle" /\ failure = "none" /\ RoomForIntent
    /\ open' = open \ OwnOrders(a)
    /\ Submit(ReleasedAll(ledger, OwnOrders(a)), a, side, price, q, tif, ShortSelling)
    /\ UNCHANGED <<maker, settled>>

\* SYSTEM_FLOW_ARRIVED: _submitSystemFlow sells, immediate or cancel
SystemFlow(price, q) ==
    /\ phase = "idle" /\ failure = "none" /\ RoomForIntent
    /\ Submit(ledger, System, "SELL", price, q, "IOC", ShortSelling)
    /\ UNCHANGED <<open, maker, settled>>

\* _refreshMarketMakerQuotes: a maker withdraws its quotes before it sets new ones, all
\* around one centre and from one quantity, at least two
MakerRefresh(m, centre, base) ==
    /\ phase = "idle" /\ failure = "none" /\ Len(orders) < MaxOrders
    /\ open' = open \ OwnOrders(m)
    /\ ledger' = ReleasedAll(ledger, OwnOrders(m))
    /\ maker' = [agent |-> m, left |-> 2 * Levels, centre |-> centre, base |-> base]
    /\ phase' = "quote"
    /\ UNCHANGED <<orders, incoming, trades, settled, failure>>

\* the prices of the other side that a quote has to stay clear of
OpenPrices(side) == {orders[o].price : o \in {x \in open : orders[x].side = side}}

\* mutant: the quote is not moved away from the best ask
BidPriceAsPlanned(planned) == planned

\* a bid stays one tick below the best ask, an ask one tick above the best bid
BidPrice(planned) ==
    Smaller(planned, IF OpenPrices("SELL") = {} THEN planned
                     ELSE Min(OpenPrices("SELL")) - TickSize)
AskPrice(planned) ==
    Larger(planned, IF OpenPrices("BUY") = {} THEN planned
                    ELSE Max(OpenPrices("BUY")) + TickSize)

\* the level of the next quote, and its quantity, which falls by two from level to level
Level == Levels - (maker.left + 1) \div 2
LevelQuantity == Larger(1, maker.base - 2 * Level)

\* one quote: bids and asks take turns, level by level
MakerQuote(distance) ==
    LET bid == BidPrice(Larger(1, maker.centre - distance))
        ask == AskPrice(Larger(TickSize, maker.centre + distance))
        q == LevelQuantity
    IN  /\ phase = "quote" /\ maker.left > 0 /\ failure = "none" /\ Len(orders) < MaxOrders
        /\ maker' = [maker EXCEPT !.left = @ - 1]
        /\ \/ /\ maker.left % 2 = 0 /\ bid > 0
              /\ Submit(ledger, maker.agent, "BUY", bid, q, "GTC", ShortSelling)
           \/ /\ maker.left % 2 = 0 /\ bid <= 0
              /\ UNCHANGED <<orders, incoming, trades, ledger, phase, failure>>
           \/ /\ maker.left % 2 = 1 /\ ask <= MaxPrice
              /\ Submit(ledger, maker.agent, "SELL", ask, q, "GTC", FALSE)
           \/ /\ maker.left % 2 = 1 /\ ask > MaxPrice    \* beyond the bound: as if rejected
              /\ UNCHANGED <<orders, incoming, trades, ledger, phase, failure>>
        /\ UNCHANGED <<open, settled>>

MakerDone ==
    /\ phase = "quote" /\ maker.left = 0 /\ failure = "none"
    /\ phase' = "idle"
    /\ maker' = NoMaker
    /\ UNCHANGED <<orders, open, incoming, trades, ledger, settled, failure>>

\* the matching loop of submitLimit
MatchOrder ==
    /\ phase = "match" /\ Match
    /\ UNCHANGED <<ledger, phase, maker, settled, failure>>

\* the end of submitLimit; a quote that traded is an error
MatchDone ==
    /\ phase = "match" /\ Finish
    /\ IF orders[incoming].agent \notin Makers
       THEN phase' = "settle" /\ UNCHANGED failure
       ELSE phase' = "quote" /\ failure' = IF trades = <<>> THEN failure ELSE "quote traded"
    /\ UNCHANGED <<ledger, maker, settled>>

\* what _applyTrades makes of a trade: the checks in the order they are made
Verdict(b, s, t) ==
    IF orders[b].agent = orders[s].agent THEN "self-trade"
    ELSE IF ~Matched(ledger, b, s, t.price, t.quantity) THEN "no such reservation"
    ELSE IF ~Affordable(ledger, b, s, t.price, t.quantity) THEN "refused"
    ELSE IF ~ShortMatchesPosition(ledger, s, t.quantity) THEN "short mismatch"
    ELSE IF ~AuditPasses(Settled(ledger, b, s, t.price, t.quantity)) THEN "audit"
    ELSE "none"

\* _applyTrades: the next trade of the report
SettleTrade ==
    /\ phase = "settle" /\ settled < Len(trades) /\ failure = "none"
    /\ LET t == trades[settled + 1]
           b == IF orders[t.taker].side = "BUY" THEN t.taker ELSE t.maker
           s == IF b = t.taker THEN t.maker ELSE t.taker
           verdict == Verdict(b, s, t)
       IN  /\ failure' = verdict
           /\ ledger' = IF verdict = "none" THEN Settled(ledger, b, s, t.price, t.quantity)
                        ELSE ledger
           /\ settled' = IF verdict = "none" THEN settled + 1 ELSE settled
    /\ UNCHANGED <<orders, open, incoming, trades, phase, maker>>

\* mutant: what an IOC order did not fill stays reserved
RemainderKept(o) == FALSE

\* _releaseIocRemainder: the order is IOC and still holds a reservation
HasRemainder(o) == orders[o].tif = "IOC" /\ ledger.res[o] # NoReservation

EventDone ==
    /\ phase = "settle" /\ settled = Len(trades) /\ failure = "none"
    /\ ledger' = IF HasRemainder(Len(orders)) THEN Released(ledger, Len(orders)) ELSE ledger
    /\ phase' = "idle"
    /\ settled' = 0
    /\ UNCHANGED <<orders, open, incoming, trades, maker, failure>>

Next ==
    \/ \E a \in Traders, s \in Sides, p \in GridPrices, q \in 1..MaxQuantity,
          tif \in {"GTC", "IOC"} : TraderOrder(a, s, p, q, tif)
    \/ \E p \in GridPrices, q \in 1..MaxQuantity : SystemFlow(p, q)
    \/ \E m \in Makers, c \in GridPrices, q \in 2..MaxQuantity : MakerRefresh(m, c, q)
    \/ \E d \in Distances : MakerQuote(d * TickSize)
    \/ MakerDone
    \/ MatchOrder \/ MatchDone
    \/ SettleTrade \/ EventDone

Spec == Init /\ [][Next]_vars

-----------------------------------------------------------------------------
(* Properties.                                                              *)

TypeOK ==
    /\ orders \in Seq(Orders) /\ Len(orders) <= MaxOrders
    /\ open \subseteq Ids
    /\ incoming \in Ids \cup {None}
    /\ trades \in Seq(Trades)
    /\ ledger \in Ledgers
    /\ phase \in {"idle", "quote", "match", "settle"}
    /\ maker \in [agent : Makers \cup {System}, left : 0..2 * Levels,
                  centre : {0} \cup GridPrices, base : 0..MaxQuantity]
    /\ settled \in 0..Len(trades)
    /\ failure \in {"none", "refused", "off the tick grid", "quote traded", "self-trade",
                    "no such reservation", "short mismatch", "audit"}

\* the quantity of an order in the trades that are matched and not yet settled
Unsettled(o) ==
    SumOver([i \in DOMAIN trades |-> trades[i].quantity],
        {i \in (IF phase = "match" THEN 1 ELSE settled + 1)..Len(trades) :
            phase \in {"match", "settle"} /\ o \in {trades[i].maker, trades[i].taker}})

\* Orders and reservations go together: an order has a reservation exactly while it is
\* open, being matched, or has a trade to settle, of its own agent, side and limit, and
\* the reservation is for what the book and the unsettled trades can still fill.
\* An order that leaves the book must have its reservation released
\* (_cancelAgentOrders, _releaseIocRemainder, applyTrade).
BookAndLedgerAgree ==
    failure = "none" =>
        \A o \in Ids :
            LET held == IF o \notin 1..Len(orders) THEN 0
                        ELSE IF \/ o \in open \/ o = incoming
                                \/ phase = "settle" /\ o = Len(orders)
                             THEN orders[o].left + Unsettled(o) ELSE Unsettled(o)
            IN  /\ (ledger.res[o] # NoReservation) = (held > 0)
                /\ held > 0 => LET r == ledger.res[o]
                               IN  /\ r.left = held
                                   /\ <<r.account, r.side, r.limit>> =
                                        <<orders[o].agent, orders[o].side, orders[o].price>>

\* The errors the handlers can meet are a settlement refused for want of cash and a quote
\* off the grid: no agent trades with itself, no quote trades, every trade finds its
\* reservations within their limits, no short fill misses its position, and every
\* settlement passes the audit.
OnlyKnownErrors == TypeOK /\ failure \in {"none", "refused", "off the tick grid"}

\* A trader's position stays within its limit, whatever its resting order fills.
TradersWithinLimit ==
    \A a \in Traders : LET q == ledger.acct[a].quantity
                       IN  -MaxAbsolutePosition[a] <= q /\ q <= MaxAbsolutePosition[a]

\* The ledger passes its audit at every step, also when a settlement is refused after
\* the book has matched it: cash and positions are conserved, no account is overdrawn,
\* the borrow pool matches the short positions, reserved amounts match the orders, and
\* a trader stays within its position limit.
LedgerSound == AuditPasses(ledger) /\ TradersWithinLimit

\* Every position stays within its limit, a market maker's too (ledger.py:254, "enforces
\* cash, position, borrow and margin limits"): not so, since the projected position
\* nets both sides, so that a maker's asks make room for bids, and only the bids may fill.
PositionsWithinLimit ==
    \A a \in Agents : LET q == ledger.acct[a].quantity
                      IN  -MaxAbsolutePosition[a] <= q /\ q <= MaxAbsolutePosition[a]
=============================================================================
