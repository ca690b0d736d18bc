---------------------------- MODULE PriorityBook ----------------------------
(***************************************************************************)
(* What the limit order book of the simulation promises: the open orders   *)
(* are a set, an incoming order trades with the best of them until it is   *)
(* filled or nothing crosses, then rests or expires.  Best means price     *)
(* first, arrival second.  OrderBook shows that the levels, queues and     *)
(* index of order_book.py keep this promise; MarketKernel builds on it.    *)
(***************************************************************************)
EXTENDS Naturals, Sequences, FiniteSets

CONSTANTS
    Agents,         \* the owners of orders
    MaxPrice,       \* bound on prices, in units of the tick size
    MaxQuantity,    \* bound on an order's quantity
    MaxOrders       \* bound on the number of orders

ASSUME BookAssumption ==
    /\ MaxPrice \in Nat \ {0} /\ MaxQuantity \in Nat \ {0} /\ MaxOrders \in Nat

Sides == {"BUY", "SELL"}
Prices == 1..MaxPrice
Ids == 1..MaxOrders
None == 0
Orders == [agent : Agents, side : Sides, price : Prices, left : 0..MaxQuantity,
           tif : {"GTC", "IOC"}]
Trades == [maker : Ids, taker : Ids, price : Prices, quantity : 1..MaxQuantity]

VARIABLES
    orders,     \* the accepted orders, by sequence number
    open,       \* the ids of the orders in the book
    incoming,   \* the id of the order that is being matched, or None
    trades      \* the trades of the current execution report

bookVars == <<orders, open, incoming, trades>>

\* an order of this side and limit can trade at the price
Crosses(order, price) ==
    IF order.side = "BUY" THEN order.price >= price ELSE order.price <= price

\* price, then time: x goes before y, both of one side
Before(x, y) ==
    \/ ~Crosses(orders[y], orders[x].price)
    \/ orders[x].price = orders[y].price /\ x < y

\* the open orders the incoming one can trade with
Matches == {o \in open : orders[o].side # orders[incoming].side
                            /\ Crosses(orders[incoming], orders[o].price)}

Matching == incoming # None /\ orders[incoming].left > 0 /\ Matches # {}

Least(a, b) == IF a <= b THEN a ELSE b

InitBook == orders = <<>> /\ open = {} /\ incoming = None /\ trades = <<>>

\* submitLimit: the order is accepted and starts to match
Accept(agent, side, price, quantity, tif) ==
    /\ Len(orders) < MaxOrders
    /\ orders' = Append(orders, [agent |-> agent, side |-> side, price |-> price,
                                 left |-> quantity, tif |-> tif])
    /\ incoming' = Len(orders) + 1
    /\ trades' = <<>>

\* the trade of the incoming order with a resting one, at the resting price
TradeWith(maker) ==
    LET q == Least(orders[incoming].left, orders[maker].left)
    IN  /\ orders' = [orders EXCEPT ![incoming].left = orders[incoming].left - q,
                                    ![maker].left = orders[maker].left - q]
        /\ trades' = Append(trades, [maker |-> maker, taker |-> incoming,
                                     price |-> orders[maker].price, quantity |-> q])

\* the best order of the other side trades, and leaves the book when it is filled
Match ==
    /\ Matching
    /\ \E maker \in Matches :
        /\ \A o \in Matches \ {maker} : Before(maker, o)
        /\ TradeWith(maker)
        /\ open' = IF orders[maker].left <= orders[incoming].left
                   THEN open \ {maker} ELSE open
    /\ UNCHANGED incoming

\* what is left of a GTC order rests, what is left of an IOC order is dropped
Finish ==
    /\ incoming # None /\ ~Matching
    /\ open' = IF orders[incoming].left > 0 /\ orders[incoming].tif = "GTC"
               THEN open \cup {incoming} ELSE open
    /\ incoming' = None
    /\ UNCHANGED <<orders, trades>>

\* orders are cancelled between submissions
Withdraw(o) ==
    /\ incoming = None
    /\ o \in open
    /\ open' = open \ {o}
    /\ UNCHANGED <<orders, incoming, trades>>

NextBook ==
    \/ /\ incoming = None
       /\ \E a \in Agents, s \in Sides, p \in Prices, q \in 1..MaxQuantity,
             tif \in {"GTC", "IOC"} : Accept(a, s, p, q, tif)
       /\ UNCHANGED open
    \/ Match \/ Finish
    \/ \E o \in Ids : Withdraw(o)

SpecBook == InitBook /\ [][NextBook]_bookVars

\* Between submissions no bid meets an ask.
NotCrossed ==
    incoming = None =>
        \A b, s \in open : orders[b].side = "BUY" /\ orders[s].side = "SELL"
                            => orders[b].price < orders[s].price

=============================================================================
