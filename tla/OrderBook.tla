----------------------------- MODULE OrderBook ------------------------------
(***************************************************************************)
(* LimitOrderBook (order_book.py): two dictionaries from a price to a      *)
(* queue of resting orders, and an index from order id to order, which     *)
(* every operation has to keep in step.  Ids are the sequence numbers the  *)
(* book gives; a step of the matching loop is one step here, and nothing   *)
(* else runs in between.                                                   *)
(***************************************************************************)
EXTENDS Naturals, Sequences, FiniteSets, SequencesExt

CONSTANTS Agents, MaxPrice, MaxQuantity, MaxOrders

\* prices are positive numbers of ticks and quantities of shares (submitLimit)
ASSUME OrderBookAssumption ==
    /\ MaxPrice \in Nat \ {0} /\ MaxQuantity \in Nat \ {0} /\ MaxOrders \in Nat

VARIABLES
    orders,     \* the Order objects, by sequence number
    levels,     \* bids and asks: side, price |-> queue of ids (<<>>: no level)
    index,      \* the keys of orderIndex
    incoming,   \* the order in _matchIncoming
    trades      \* executionReport.trades

vars == <<orders, levels, index, incoming, trades>>

Promise == INSTANCE PriorityBook WITH open <- index

Sides == Promise!Sides
Prices == Promise!Prices
Ids == Promise!Ids
None == Promise!None
Opposite(side) == IF side = "BUY" THEN "SELL" ELSE "BUY"

\* bestBid and bestAsk: the keys of the dictionary of that side
Occupied(side) == {p \in Prices : levels[side][p] # <<>>}
Best(side) == CHOOSE p \in Occupied(side) :
                \A q \in Occupied(side) : IF side = "BUY" THEN q <= p ELSE q >= p

\* the loop condition of _matchIncoming and its break
Crossing ==
    LET order == orders[incoming]
        other == Opposite(order.side)
    IN  /\ order.left > 0
        /\ Occupied(other) # {}
        /\ Promise!Crosses(order, Best(other))

Init ==
    /\ orders = <<>>
    /\ levels = [s \in Sides |-> [p \in Prices |-> <<>>]]
    /\ index = {}
    /\ incoming = None
    /\ trades = <<>>

SubmitLimit(agent, side, price, quantity, tif) ==
    /\ incoming = None
    /\ Promise!Accept(agent, side, price, quantity, tif)
    /\ UNCHANGED <<levels, index>>

\* one turn of the loop of _matchIncoming
MatchIncoming ==
    /\ incoming # None /\ Crossing
    /\ LET other == Opposite(orders[incoming].side)
           queue == levels[other][Best(other)]
           maker == Head(queue)
           filled == orders[maker].left <= orders[incoming].left
       IN  /\ Promise!TradeWith(maker)
           /\ levels' = IF filled THEN [levels EXCEPT ![other][Best(other)] = Tail(queue)]
                        ELSE levels
           /\ index' = IF filled THEN index \ {maker} ELSE index
    /\ UNCHANGED incoming

\* mutant: the newest order of a level is served first
RestOrderFirst(o) ==
    /\ levels' = [levels EXCEPT ![orders[o].side][orders[o].price] = <<o>> \o @]
    /\ index' = index \cup {o}

\* _restOrder
RestOrder(o) ==
    /\ levels' = [levels EXCEPT ![orders[o].side][orders[o].price] = Append(@, o)]
    /\ index' = index \cup {o}

\* the end of submitLimit: filled, expired, or resting
Report ==
    /\ incoming # None /\ ~Crossing
    /\ IF orders[incoming].left > 0 /\ orders[incoming].tif = "GTC"
       THEN RestOrder(incoming) ELSE UNCHANGED <<levels, index>>
    /\ incoming' = None
    /\ UNCHANGED <<orders, trades>>

\* mutant: a cancelled order stays in its level
CancelOrderInIndex(o) ==
    /\ incoming = None
    /\ o \in index
    /\ index' = index \ {o}
    /\ UNCHANGED <<orders, levels, incoming, trades>>

CancelOrder(o) ==
    /\ incoming = None
    /\ o \in index
    /\ index' = index \ {o}
    /\ levels' = [levels EXCEPT ![orders[o].side][orders[o].price] = RemoveFirst(@, o)]
    /\ UNCHANGED <<orders, incoming, trades>>

Next ==
    \/ \E a \in Agents, s \in Sides, p \in Prices, q \in 1..MaxQuantity, tif \in {"GTC", "IOC"} :
        SubmitLimit(a, s, p, q, tif)
    \/ MatchIncoming \/ Report
    \/ \E o \in Ids : CancelOrder(o)

Spec == Init /\ [][Next]_vars

-----------------------------------------------------------------------------
(* Properties.                                                              *)

TypeOK ==
    /\ orders \in Seq(Promise!Orders) /\ Len(orders) <= MaxOrders
    /\ levels \in [Sides -> [Prices -> Seq(Ids)]]
    /\ index \subseteq Ids
    /\ incoming \in Ids \cup {None}
    /\ trades \in Seq(Promise!Trades)

\* The index and the levels hold the same orders: each open order stands exactly
\* once, in the queue of its own side and price, and has something left
\* (_restOrder, cancelOrder and the removal of filled orders).
IndexMatchesLevels ==
    /\ \A o \in index : orders[o].left > 0
    /\ \A s \in Sides, p \in Prices :
        /\ ToSet(levels[s][p]) =
             {o \in index : orders[o].side = s /\ orders[o].price = p}
        /\ \A i, j \in 1..Len(levels[s][p]) :
             levels[s][p][i] = levels[s][p][j] => i = j

\* Between submissions the best bid is below the best ask.
NotCrossed == Promise!NotCrossed

\* The two representations of the book agree, and it is never left crossed.
BookSound == IndexMatchesLevels /\ NotCrossed

\* The levels, queues and index implement the set of open orders with price-time
\* priority: every trade is with the order that goes before all others that the
\* incoming one can trade with, and nothing rests that could still trade.
ImplementsPriorityBook == Promise!SpecBook

=============================================================================
