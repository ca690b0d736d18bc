------------------------------- MODULE Ledger -------------------------------
(***************************************************************************)
(* PortfolioLedger (ledger.py) for one instrument, as operators on a       *)
(* ledger record: an order is evaluated and the resources it may need are  *)
(* set aside, a trade is settled from them, a cancelled order gives them   *)
(* back.  Amounts are integer cents; the entry costs, the fees an account  *)
(* has paid and its profit are valuation data and left out.                *)
(***************************************************************************)
EXTENDS Integers, FiniteSets, FiniteSetsExt

CONSTANTS
    Accounts,           \* account ids
    OrderIds,           \* ids an order may have
    Cash0, Long0,       \* initial cash and long position of each account
    PoolTotal,          \* BorrowPoolState.totalQuantity
    PriceScale,         \* price ticks per unit of currency
    FeeNum, FeeDen,     \* the trade fee rate, tradeFeeMicroBps / 10^10
    MarginBps,          \* initialMarginRateBps
    MaxOrderQuantity,   \* maxOrderQuantity
    MaxAbsolutePosition,    \* maxAbsolutePosition of each account
    NoReservation

ASSUME LedgerAssumption ==
    /\ IsFiniteSet(Accounts) /\ IsFiniteSet(OrderIds)
    /\ Cash0 \in [Accounts -> Nat] /\ Long0 \in [Accounts -> Nat]
    /\ PoolTotal \in Nat /\ PriceScale \in Nat \ {0}
    /\ FeeNum \in Nat /\ FeeDen \in Nat \ {0} /\ MarginBps \in 0..10000
    /\ MaxOrderQuantity \in Nat \ {0} /\ MaxAbsolutePosition \in [Accounts -> Nat]

Reservations == [account : Accounts, side : {"BUY", "SELL"}, limit : Nat, left : Nat,
                 cash : Nat, long : Nat, borrow : Nat, margin : Nat]
AccountRecords == [cash : Int, reserved : Int, quantity : Int, held : Int,
                   borrowed : Int, margin : Int]
Ledgers == [acct : [Accounts -> AccountRecords],
            pool : [reserved : Int, borrowed : Int],
            fees : Nat,
            res : [OrderIds -> Reservations \cup {NoReservation}]]

ASSUME ReservationAssumption == NoReservation \notin Reservations

InitialLedger ==
    [acct |-> [a \in Accounts |->
                [cash |-> Cash0[a], reserved |-> 0, quantity |-> Long0[a], held |-> 0,
                 borrowed |-> 0, margin |-> 0]],
     pool |-> [reserved |-> 0, borrowed |-> 0],
     fees |-> 0,
     res |-> [o \in OrderIds |-> NoReservation]]

\* the sum of f over S
SumOver(f, S) == MapThenSumSet(LAMBDA x : f[x], S)

-----------------------------------------------------------------------------
(* Money.                                                                   *)

Smaller(x, y) == IF x <= y THEN x ELSE y
Larger(x, y) == IF x >= y THEN x ELSE y

\* _notionalCents: half a cent is rounded up
Notional(price, q) == (price * q * 100 * 2 + PriceScale) \div (2 * PriceScale)

\* _feeCents: rounded up
Fee(cents) == (cents * FeeNum + FeeDen - 1) \div FeeDen

BuyCost(price, q) == Notional(price, q) + Fee(Notional(price, q))

\* _marginRequirement: rounded up
Margin(price, q) == (Notional(price, q) * MarginBps + 9999) \div 10000

\* _allocatedBasis
Basis(total, part, whole) == IF part = whole THEN total ELSE (total * part) \div whole

\* _binarySearchQuantity: the largest quantity that fits
Largest(bound, Fits(_)) == Max({q \in 0..bound : q = 0 \/ Fits(q)})

-----------------------------------------------------------------------------
(* The risk check.                                                          *)

Available(L, a) == L.acct[a].cash - L.acct[a].reserved - L.acct[a].margin

Live(L) == {o \in OrderIds : L.res[o] # NoReservation}

\* _projectedPosition: the position once all open orders of the account are filled
Projected(L, a) ==
    L.acct[a].quantity
        + SumOver([o \in Live(L) |-> IF L.res[o].side = "BUY" THEN L.res[o].left
                                     ELSE -L.res[o].left],
                  {o \in Live(L) : L.res[o].account = a})

\* what the limits on orders and positions leave of the quantity
Capped(L, a, side, q) ==
    LET room == IF side = "BUY" THEN MaxAbsolutePosition[a] - Projected(L, a)
                ELSE MaxAbsolutePosition[a] + Projected(L, a)
    IN  Smaller(Smaller(q, MaxOrderQuantity), Larger(0, room))

\* the long and the borrowed part of a sale
LongPart(L, a, q) == Smaller(q, Larger(0, L.acct[a].quantity) - L.acct[a].held)
BorrowPart(L, a, q, limit) ==
    Smaller(Smaller(q, PoolTotal - L.pool.reserved - L.pool.borrowed),
            Largest(q, LAMBDA x : Margin(limit, x) <= Available(L, a)))

\* evaluateAndReserveOrder: the reservation the order gets, or NoReservation when
\* it is rejected
Evaluated(L, a, side, q, limit, short) ==
    LET capped == Capped(L, a, side, q)
        bought == Largest(capped, LAMBDA x : BuyCost(limit, x) <= Available(L, a))
        long == LongPart(L, a, capped)
        borrow == IF short THEN BorrowPart(L, a, capped - long, limit) ELSE 0
    IN  CASE side = "BUY" /\ bought > 0 ->
              [account |-> a, side |-> side, limit |-> limit, left |-> bought,
               cash |-> BuyCost(limit, bought), long |-> 0, borrow |-> 0, margin |-> 0]
          [] side = "SELL" /\ long + borrow > 0 ->
              [account |-> a, side |-> side, limit |-> limit, left |-> long + borrow,
               cash |-> 0, long |-> long, borrow |-> borrow, margin |-> Margin(limit, borrow)]
          [] OTHER -> NoReservation

\* the resources of a new reservation are set aside
Reserved(L, o, r) ==
    LET owner == L.acct[r.account]
    IN  [L EXCEPT !.acct[r.account] = [owner EXCEPT !.reserved = owner.reserved + r.cash + r.margin,
                                                    !.held = owner.held + r.long],
                  !.pool.reserved = @ + r.borrow,
                  !.res[o] = r]

\* mutant: the margin of a short order stays reserved
ReleasedWithoutMargin(L, o) ==
    LET r == L.res[o]
        owner == L.acct[r.account]
    IN  [L EXCEPT !.acct[r.account] = [owner EXCEPT !.reserved = owner.reserved - r.cash,
                                                    !.held = owner.held - r.long],
                  !.pool.reserved = @ - r.borrow,
                  !.res[o] = NoReservation]

\* releaseOrder: what an order still holds is given back
Released(L, o) ==
    LET r == L.res[o]
        owner == L.acct[r.account]
    IN  [L EXCEPT !.acct[r.account] = [owner EXCEPT !.reserved = owner.reserved - r.cash - r.margin,
                                                    !.held = owner.held - r.long],
                  !.pool.reserved = @ - r.borrow,
                  !.res[o] = NoReservation]

-----------------------------------------------------------------------------
(* Settlement.                                                              *)

\* the reservation of an order after a fill of q; a filled one is removed
AfterBuy(r, q) == [r EXCEPT !.left = @ - q, !.cash = BuyCost(r.limit, r.left - q)]
AfterSale(r, q) ==
    LET long == Smaller(q, r.long)
    IN  [r EXCEPT !.left = @ - q, !.long = @ - long, !.borrow = @ - (q - long),
                  !.margin = Margin(r.limit, r.borrow - (q - long))]

\* a sale fills the long part first; the rest is a short fill
ShortFill(r, q) == q - Smaller(q, r.long)

\* applyTrade's conditions on the two reservations
Matched(L, b, s, price, q) ==
    /\ L.res[b] # NoReservation /\ L.res[s] # NoReservation
    /\ L.res[b].side = "BUY" /\ L.res[s].side = "SELL"
    /\ L.res[b].account # L.res[s].account
    /\ q <= L.res[b].left /\ q <= L.res[s].left
    /\ L.res[s].limit <= price /\ price <= L.res[b].limit

\* _preflightSettlement: neither side is left with negative available cash
Affordable(L, b, s, price, q) ==
    LET rb == L.res[b]
        rs == L.res[s]
        cents == Notional(price, q)
    IN  /\ Available(L, rb.account) - cents - Fee(cents)
             + rb.cash - AfterBuy(rb, q).cash >= 0
        /\ Available(L, rs.account) + cents - Fee(cents)
             + rs.margin - AfterSale(rs, q).margin - Margin(price, ShortFill(rs, q)) >= 0

\* a purchase covers the short position first, which frees its share of the margin
Cover(account, q) == Smaller(q, Larger(0, -account.quantity))
FreedMargin(account, q) ==
    IF Cover(account, q) = 0 THEN 0
    ELSE Basis(account.margin, Cover(account, q), -account.quantity)

\* the shares of a sale that are not in the long position
Beyond(account, q) == q - Smaller(q, Larger(0, account.quantity))

\* _applySell: shares beyond the long position must be the borrowed ones
ShortMatchesPosition(L, s, q) ==
    LET beyond == Beyond(L.acct[L.res[s].account], q)
    IN  beyond > 0 => beyond = ShortFill(L.res[s], q)

\* a filled order gives its reservation up
Kept(r) == IF r.left = 0 THEN NoReservation ELSE r

\* applyTrade: the buyer pays and covers its short position first; the seller is
\* paid and delivers; both pay the fee
Settled(L, b, s, price, q) ==
    LET rb == L.res[b]
        rs == L.res[s]
        buyer == L.acct[rb.account]
        seller == L.acct[rs.account]
        cents == Notional(price, q)
        sale == AfterSale(rs, q)
        short == ShortFill(rs, q)
    IN  [L EXCEPT
          !.acct = [L.acct EXCEPT
            ![rb.account] = [buyer EXCEPT
                !.cash = buyer.cash - cents - Fee(cents),
                !.reserved = buyer.reserved - rb.cash + AfterBuy(rb, q).cash,
                !.quantity = buyer.quantity + q,
                !.borrowed = buyer.borrowed - Cover(buyer, q),
                !.margin = buyer.margin - FreedMargin(buyer, q)],
            ![rs.account] = [seller EXCEPT
                !.cash = seller.cash + cents - Fee(cents),
                !.reserved = seller.reserved - rs.margin + sale.margin,
                !.held = seller.held - (rs.long - sale.long),
                !.quantity = seller.quantity - q,
                !.borrowed = seller.borrowed + Beyond(seller, q),
                !.margin = seller.margin + Margin(price, short)]],
          !.pool = [reserved |-> L.pool.reserved - short,
                    borrowed |-> L.pool.borrowed + short - Cover(buyer, q)],
          !.fees = L.fees + 2 * Fee(cents),
          !.res = [L.res EXCEPT ![b] = Kept(AfterBuy(rb, q)), ![s] = Kept(sale)]]

-----------------------------------------------------------------------------
(* checkInvariants, the ledger's own audit, in parts.                       *)

Total(f) == SumOver(f, Accounts)

CashConserved(L) ==
    Total([a \in Accounts |-> L.acct[a].cash]) + L.fees = Total(Cash0)
PositionsConserved(L) ==
    Total([a \in Accounts |-> L.acct[a].quantity]) = Total(Long0)
NoOverdraft(L) == \A a \in Accounts : L.acct[a].cash >= 0 /\ Available(L, a) >= 0

\* _checkBorrowInventory
BorrowInventoryValid(L) ==
    /\ L.pool.reserved >= 0 /\ L.pool.borrowed >= 0
    /\ L.pool.reserved + L.pool.borrowed <= PoolTotal
    /\ L.pool.borrowed = Total([a \in Accounts |-> L.acct[a].borrowed])
    /\ \A a \in Accounts : L.acct[a].borrowed = Larger(0, -L.acct[a].quantity)

\* _checkReservations
ReservationsValid(L) ==
    LET Of(a) == {o \in Live(L) : L.res[o].account = a}
    IN  /\ \A o \in Live(L) :
            /\ L.res[o].left > 0
            /\ L.res[o].side = "SELL" => L.res[o].long + L.res[o].borrow = L.res[o].left
        /\ \A a \in Accounts :
            /\ L.acct[a].reserved =
                 SumOver([o \in Live(L) |-> L.res[o].cash + L.res[o].margin], Of(a))
            /\ L.acct[a].held = SumOver([o \in Live(L) |-> L.res[o].long], Of(a))
            /\ L.acct[a].held <= Larger(0, L.acct[a].quantity)
            /\ L.acct[a].margin >= 0
        /\ L.pool.reserved = SumOver([o \in Live(L) |-> L.res[o].borrow], Live(L))

AuditPasses(L) ==
    /\ CashConserved(L) /\ PositionsConserved(L) /\ NoOverdraft(L)
    /\ BorrowInventoryValid(L) /\ ReservationsValid(L)

=============================================================================
