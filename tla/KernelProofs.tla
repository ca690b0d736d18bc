----------------------------- MODULE KernelProofs -----------------------------
(***************************************************************************)
(* Proofs about MarketKernel, for any traders, makers, orders, prices,     *)
(* balances, limits and bounds: book and ledger agree, the ledger passes   *)
(* its audit, positions keep their limits, and only two errors can end a   *)
(* run.                                                                    *)
(*                                                                         *)
(* None of these is inductive.  That a settlement passes the audit needs   *)
(* to know that its reservations are complete (Sound), that a short order  *)
(* borrows exactly what its account's position lacks (ReservationsStand),  *)
(* and that nobody but a maker has two orders at once; that a trade finds  *)
(* its reservations at all needs the agreement of book and ledger, counted *)
(* over the trades that are still to settle (Held).  KernelInv joins them  *)
(* with what the handler is doing.                                         *)
(*                                                                         *)
(* The proof goes from the sums of the audit, over what one reservation or *)
(* two can change in them, and what each ledger operation does to them,    *)
(* to the steps of the kernel.                                             *)
(***************************************************************************)
EXTENDS MarketKernel, SumProofs

-----------------------------------------------------------------------------
(* ReleasedAll releases the orders one after the other. *)

\* The recursion of ReleasedAll on the subsets of the orders it releases.
ReleasedBody(g, L, s) ==
    IF s = {} THEN L
    ELSE Released(g[s \ {CHOOSE x \in s : TRUE}], CHOOSE x \in s : TRUE)
Releasing(g, L, S) == g = [s \in SUBSET S |-> ReleasedBody(g, L, s)]

\* Two solutions of the recursion agree on the sets they share.
LEMMA ReleasingAgree ==
    ASSUME NEW L, NEW A, NEW B, NEW S, IsFiniteSet(S), S \subseteq A, S \subseteq B,
           NEW g1, NEW g2, Releasing(g1, L, A), Releasing(g2, L, B)
    PROVE  \A T \in SUBSET S : g1[T] = g2[T]
<1> DEFINE G == {T \in SUBSET S : g1[T] = g2[T]}
<1>1. ASSUME NEW T \in SUBSET S, \A x \in T : T \ {x} \in G PROVE T \in G
  <2> DEFINE c == CHOOSE x \in T : TRUE
  <2>1. g1[T] = ReleasedBody(g1, L, T) /\ g2[T] = ReleasedBody(g2, L, T)
    BY DEF Releasing
  <2>2. CASE T = {}
    BY <2>1, <2>2 DEF ReleasedBody
  <2>3. CASE T # {}
    BY <2>3, <1>1, <2>1 DEF ReleasedBody
  <2> QED BY <2>2, <2>3
<1> HIDE DEF G
<1>2. SUBSET S \subseteq G
  BY <1>1, SubsetInduction
<1> QED BY <1>2 DEF G

\* The recursion has a solution.
LEMMA ReleasingExists ==
    ASSUME NEW L, NEW S, IsFiniteSet(S)
    PROVE  \E g : Releasing(g, L, S)
<1> DEFINE G == {T \in SUBSET S : \E g : Releasing(g, L, T)}
<1>1. ASSUME NEW T \in SUBSET S, \A x \in T : T \ {x} \in G PROVE T \in G
  <2> DEFINE gg(x) == CHOOSE g : Releasing(g, L, T \ {x})
             c(V) == CHOOSE x \in V : TRUE
             w(V) == c(T \ V)
             smaller(V) == gg(w(V))[V]
             h == [V \in SUBSET T |->
                     IF V = T THEN IF T = {} THEN L ELSE Released(smaller(T \ {c(T)}), c(T))
                     ELSE smaller(V)]
  <2>1. \A x \in T : Releasing(gg(x), L, T \ {x})
    BY <1>1
  <2>2. IsFiniteSet(T)
    BY FS_Subset
  <2>3. ASSUME NEW V \in SUBSET T, V # T
        PROVE  w(V) \in T /\ w(V) \notin V /\ V \in SUBSET (T \ {w(V)})
    BY <2>3
  <2>4. ASSUME NEW V \in SUBSET T, V # T, V # {}
        PROVE  smaller(V) = Released(smaller(V \ {c(V)}), c(V))
    <3> DEFINE W == V \ {c(V)}
    <3>1. c(V) \in V
      BY <2>4
    <3>2. W \in SUBSET T /\ W # T /\ W \in SUBSET V
      BY <2>4, <3>1
    <3>3. w(V) \in T /\ V \in SUBSET (T \ {w(V)}) /\ w(W) \in T /\ W \in SUBSET (T \ {w(W)})
      BY <2>3, <2>4, <3>2
    <3>4. Releasing(gg(w(V)), L, T \ {w(V)}) /\ Releasing(gg(w(W)), L, T \ {w(W)})
      BY <2>1, <3>3
    <3>5. gg(w(V))[V] = Released(gg(w(V))[W], c(V))
      BY <3>3, <3>4, <2>4 DEF Releasing, ReleasedBody
    <3>6. gg(w(V))[W] = gg(w(W))[W]
      <4>1. IsFiniteSet(W)
        BY <2>2, <3>2, FS_Subset
      <4>2. W \subseteq T \ {w(V)} /\ W \subseteq T \ {w(W)} /\ W \in SUBSET W
        BY <3>2, <3>3
      <4> DEFINE A == T \ {w(V)}
                 B == T \ {w(W)}
                 g1 == gg(w(V))
                 g2 == gg(w(W))
      <4>3. Releasing(g1, L, A) /\ Releasing(g2, L, B) /\ W \subseteq A /\ W \subseteq B
        BY <3>4, <4>2
      <4> HIDE DEF A, B, g1, g2, W
      <4>4. g1[W] = g2[W]
        BY <4>1, <4>2, <4>3, ReleasingAgree
      <4> QED BY <4>4 DEF g1, g2
    <3> QED BY <3>5, <3>6
  <2>5. ASSUME NEW V \in SUBSET T PROVE h[V] = ReleasedBody(h, L, V)
    <3>1. CASE V = {}
      <4>1. CASE T = {}
        BY <3>1, <4>1 DEF ReleasedBody
      <4>2. CASE T # {}
        <5>1. Releasing(gg(w({})), L, T \ {w({})})
          BY <2>1, <2>3, <4>2
        <5>2. gg(w({}))[{}] = L
          <6> HIDE DEF gg, w
          <6> QED BY <5>1 DEF Releasing, ReleasedBody
        <5>3. h[V] = smaller({})
          BY <3>1, <4>2
        <5> QED BY <3>1, <5>2, <5>3 DEF ReleasedBody
      <4> QED BY <4>1, <4>2
    <3>2. CASE V # {}
      <4>1. c(V) \in V /\ V \ {c(V)} \in SUBSET T /\ V \ {c(V)} # T
        BY <3>2
      <4>2. h[V \ {c(V)}] = smaller(V \ {c(V)})
        BY <4>1
      <4>3. h[V] = Released(smaller(V \ {c(V)}), c(V))
        <5>1. CASE V = T
          BY <5>1, <3>2
        <5>2. CASE V # T
          BY <5>2, <3>2, <2>4
        <5> QED BY <5>1, <5>2
      <4> HIDE DEF h, smaller
      <4> QED BY <3>2, <4>2, <4>3 DEF ReleasedBody
    <3> QED BY <3>1, <3>2
  <2>6. Releasing(h, L, T)
    BY <2>5 DEF Releasing
  <2> QED BY <2>6
<1> HIDE DEF G
<1>2. SUBSET S \subseteq G
  BY <1>1, SubsetInduction
<1>3. S \in G
  BY <1>2
<1> QED BY <1>3 DEF G

\* ReleasedAll follows the recursion, within any finite set.
LEMMA ReleasedIsFold ==
    ASSUME NEW L, NEW S, IsFiniteSet(S)
    PROVE  \E g : Releasing(g, L, S) /\ \A T \in SUBSET S : ReleasedAll(L, T) = g[T]
<1>1. ASSUME NEW T, IsFiniteSet(T) PROVE \E g : Releasing(g, L, T) /\ ReleasedAll(L, T) = g[T]
  <2> DEFINE g == CHOOSE g : g = [s \in SUBSET T |->
                   IF s = {} THEN L
                   ELSE Released(g[s \ {CHOOSE x \in s : TRUE}], CHOOSE x \in s : TRUE)]
  <2>1. ReleasedAll(L, T) = g[T]
    BY DEF ReleasedAll, FoldSet, MapThenFoldSet
  <2>2. (\E h : Releasing(h, L, T)) => Releasing(g, L, T)
    BY DEF Releasing, ReleasedBody
  <2> HIDE DEF g
  <2> QED BY <1>1, <2>1, <2>2, ReleasingExists
<1>2. PICK g : Releasing(g, L, S)
  BY ReleasingExists
<1>3. ASSUME NEW T \in SUBSET S PROVE ReleasedAll(L, T) = g[T]
  <2>1. IsFiniteSet(T) /\ T \in SUBSET T
    BY FS_Subset
  <2>2. PICK h : Releasing(h, L, T) /\ ReleasedAll(L, T) = h[T]
    BY <1>1, <2>1
  <2>3. h[T] = g[T]
    <3> DEFINE A == T
    <3>1. T \subseteq A /\ T \subseteq S
      OBVIOUS
    <3>2. Releasing(h, L, A) /\ Releasing(g, L, S)
      BY <1>2, <2>2
    <3> HIDE DEF A
    <3> QED BY <2>1, <3>1, <3>2, ReleasingAgree, Z3
  <2> QED BY <2>2, <2>3
<1> QED BY <1>2, <1>3



-----------------------------------------------------------------------------
(* Largest quantities and rounded amounts. *)

LEMMA MaxIsIn ==
    ASSUME NEW n \in Nat, NEW S \in SUBSET (0 .. n), S # {}
    PROVE  Max(S) \in S /\ \A y \in S : y <= Max(S)
<1>1. IsFiniteSet(S)
  <2> DEFINE z == 0
  <2>1. z \in Int /\ n \in Int /\ S \subseteq z .. n
    OBVIOUS
  <2> HIDE DEF z
  <2>2. IsFiniteSet(z .. n)
    BY <2>1, FS_Interval
  <2> QED BY <2>1, <2>2, FS_Subset
<1> DEFINE G == {T \in SUBSET S : T = {} \/ \E m \in T : \A y \in T : y <= m}
<1>2. ASSUME NEW T \in SUBSET S, \A x \in T : T \ {x} \in G PROVE T \in G
  <2>1. CASE T = {}
    BY <2>1
  <2>2. CASE T # {}
    <3>1. PICK x \in T : TRUE
      BY <2>2
    <3>2. CASE T \ {x} = {}
      BY <3>1, <3>2
    <3>3. CASE T \ {x} # {}
      <4>1. PICK m \in T \ {x} : \A y \in T \ {x} : y <= m
        BY <1>2, <3>1, <3>3
      <4>2. x \in Int /\ m \in Int /\ \A y \in T : y \in Int
        BY <3>1, <4>1
      <4>3. CASE x <= m
        BY <4>1, <4>2, <4>3
      <4>4. CASE m <= x
        BY <4>1, <4>2, <4>4, <3>1
      <4> QED BY <4>2, <4>3, <4>4
    <3> QED BY <3>2, <3>3
  <2> QED BY <2>1, <2>2
<1> HIDE DEF G
<1>3. S \in G
  BY <1>1, <1>2, SubsetInduction
<1>4. PICK m \in S : \A y \in S : y <= m
  BY <1>3 DEF G
<1>5. \E x \in S : \A y \in S : x >= y
  BY <1>4
<1> QED BY <1>5 DEF Max

LEMMA DivFacts ==
    ASSUME NEW a \in Nat, NEW b \in Nat, b > 0
    PROVE  /\ a \div b \in Nat
           /\ a < b => a \div b = 0
           /\ \A c \in Nat : a <= c => a \div b <= c \div b
           /\ \A t \in Nat : a <= t * b => a \div b <= t
  OBVIOUS

LEMMA NotionalFacts ==
    ASSUME NEW price \in Nat, NEW q \in Nat
    PROVE  /\ Notional(price, q) \in Nat
           /\ Notional(price, 0) = 0
           /\ \A p \in Nat : p <= q => Notional(price, p) <= Notional(price, q)
<1> DEFINE b == 2 * PriceScale
           N(x) == price * x * 100 * 2 + PriceScale
<1>1. PriceScale \in Nat /\ b \in Nat /\ b > 0 /\ PriceScale < b
  BY LedgerAssumption
<1>2. \A x \in Nat : N(x) \in Nat
  BY <1>1
<1>3. N(0) = PriceScale
  BY <1>1
<1>4. \A p \in Nat : p <= q => N(p) <= N(q)
  <2> TAKE p \in Nat
  <2> HAVE p <= q
  <2>0. q - p \in Nat /\ q = p + (q - p)
    OBVIOUS
  <2>1. PICK d \in Nat : q = p + d
    BY <2>0
  <2>2. price * q = price * p + price * d /\ price * p \in Nat /\ price * d \in Nat
    BY <2>1
  <2> QED BY <1>1, <2>2
<1>5. \A x : Notional(price, x) = N(x) \div b
  BY DEF Notional
<1> HIDE DEF N, b
<1>6. /\ N(q) \div b \in Nat /\ N(0) \div b = 0
      /\ \A p \in Nat : p <= q => N(p) \div b <= N(q) \div b
  BY <1>1, <1>2, <1>3, <1>4, DivFacts
<1> QED BY <1>5, <1>6

LEMMA FeeFacts ==
    /\ Fee(0) = 0
    /\ \A c \in Nat : Fee(c) \in Nat
BY LedgerAssumption, DivFacts DEF Fee

LEMMA BuyCostFacts ==
    ASSUME NEW price \in Nat, NEW q \in Nat
    PROVE  BuyCost(price, q) \in Nat /\ BuyCost(price, 0) = 0
<1> DEFINE N(x) == Notional(price, x)
           F(x) == Fee(x)
<1>1. N(q) \in Nat /\ N(0) = 0 /\ F(0) = 0 /\ \A c \in Nat : F(c) \in Nat
  BY NotionalFacts, FeeFacts
<1>2. BuyCost(price, q) = N(q) + F(N(q)) /\ BuyCost(price, 0) = N(0) + F(N(0))
  BY DEF BuyCost
<1> HIDE DEF N, F
<1>3. N(q) + F(N(q)) \in Nat /\ N(0) + F(N(0)) = 0
  BY <1>1
<1> QED BY <1>2, <1>3

LEMMA MarginFacts ==
    ASSUME NEW price \in Nat, NEW q \in Nat
    PROVE  /\ Margin(price, q) \in Nat
           /\ Margin(price, 0) = 0
           /\ \A p \in Nat : p <= q => Margin(price, p) <= Margin(price, q)
<1> DEFINE M(c) == c * MarginBps + 9999
           ten == 10000
<1>1. MarginBps \in Nat /\ ten \in Nat /\ ten > 0 /\ 9999 < ten
  BY LedgerAssumption
<1>2. \A c \in Nat : M(c) \in Nat
  BY <1>1
<1>3. \A c, d \in Nat : c <= d => M(c) <= M(d)
  <2> TAKE c, d \in Nat
  <2> HAVE c <= d
  <2>0. d - c \in Nat /\ d = c + (d - c)
    OBVIOUS
  <2>1. PICK e \in Nat : d = c + e
    BY <2>0
  <2>2. d * MarginBps = c * MarginBps + e * MarginBps
        /\ c * MarginBps \in Nat /\ e * MarginBps \in Nat
    BY <1>1, <2>1
  <2> QED BY <2>2
<1>4. M(0) = 9999
  BY <1>1
<1>5. \A x : Margin(price, x) = M(Notional(price, x)) \div ten
  BY DEF Margin
<1> HIDE DEF M, ten
<1>6. M(0) \div ten = 0 /\ \A c \in Nat : M(c) \div ten \in Nat
  BY <1>1, <1>2, <1>4, DivFacts
<1>7. \A c, d \in Nat : c <= d => M(c) \div ten <= M(d) \div ten
  BY <1>1, <1>2, <1>3, DivFacts
<1> QED BY <1>5, <1>6, <1>7, NotionalFacts

LEMMA BasisFacts ==
    ASSUME NEW total \in Nat, NEW part \in Nat, NEW whole \in Nat, whole > 0, part <= whole
    PROVE  Basis(total, part, whole) \in 0 .. total
<1>1. total * part \in Nat /\ total * part <= total * whole
  OBVIOUS
<1>2. (total * part) \div whole \in Nat /\ (total * part) \div whole <= total
  BY <1>1, DivFacts
<1> QED BY <1>2 DEF Basis

-----------------------------------------------------------------------------
(* The sums of the audit, over all the ids an order may have. *)

OwnCash(L, a) == [o \in OrderIds |-> IF o \in Live(L) /\ L.res[o].account = a
                                      THEN L.res[o].cash + L.res[o].margin ELSE 0]
OwnLong(L, a) == [o \in OrderIds |-> IF o \in Live(L) /\ L.res[o].account = a
                                      THEN L.res[o].long ELSE 0]
OpenBorrow(L) == [o \in OrderIds |-> IF o \in Live(L) THEN L.res[o].borrow ELSE 0]

CashOf(L) == [a \in Accounts |-> L.acct[a].cash]
QuantityOf(L) == [a \in Accounts |-> L.acct[a].quantity]
BorrowedOf(L) == [a \in Accounts |-> L.acct[a].borrowed]

LEMMA SumOverPart ==
    ASSUME NEW S, IsFiniteSet(S), NEW P \in SUBSET S, NEW f, NEW h,
           \A x \in P : f[x] \in Int, \A x \in S : h[x] = IF x \in P THEN f[x] ELSE 0
    PROVE  SumOver(f, P) = SumOf(h, S)
<1> DEFINE g == [x \in S |-> IF x \in P THEN f[x] ELSE 0]
<1>1. \A x \in S : g[x] \in Int /\ h[x] = IF x \in P THEN g[x] ELSE 0
  OBVIOUS
<1>2. \A x \in P : f[x] = g[x]
  OBVIOUS
<1>3. IsFiniteSet(P)
  BY FS_Subset
<1> HIDE DEF g
<1>4. SumOf(f, P) = SumOf(g, P)
  BY <1>2, <1>3, SumCongruence
<1>5. SumOf(g, P) = SumOf(h, S)
  BY <1>1, SumPart
<1>6. SumOver(f, P) = SumOf(f, P)
  BY DEF SumOver, SumOf
<1> QED BY <1>4, <1>5, <1>6

LEMMA LedgerTypes ==
    ASSUME NEW L \in Ledgers
    PROVE  /\ \A a \in Accounts : /\ L.acct[a] \in AccountRecords
                                  /\ L.acct[a].cash \in Int /\ L.acct[a].reserved \in Int
                                  /\ L.acct[a].quantity \in Int /\ L.acct[a].held \in Int
                                  /\ L.acct[a].borrowed \in Int /\ L.acct[a].margin \in Int
           /\ L.pool.reserved \in Int /\ L.pool.borrowed \in Int /\ L.fees \in Nat
           /\ \A o \in Live(L) : o \in OrderIds /\ L.res[o] \in Reservations
           /\ \A o \in OrderIds : L.res[o] \in Reservations \cup {NoReservation}
  BY DEF Ledgers, AccountRecords, Live

LEMMA ReservationTypes ==
    ASSUME NEW r \in Reservations
    PROVE  /\ r # NoReservation /\ r.account \in Accounts /\ r.side \in {"BUY", "SELL"}
           /\ r.limit \in Nat /\ r.left \in Nat /\ r.cash \in Nat /\ r.long \in Nat
           /\ r.borrow \in Nat /\ r.margin \in Nat
  BY ReservationAssumption DEF Reservations

LEMMA OwnTypes ==
    ASSUME NEW L \in Ledgers
    PROVE  /\ \A a : \A o \in OrderIds : OwnCash(L, a)[o] \in Nat /\ OwnLong(L, a)[o] \in Nat
           /\ \A o \in OrderIds : OpenBorrow(L)[o] \in Nat
BY LedgerTypes, ReservationTypes DEF OwnCash, OwnLong, OpenBorrow

LEMMA ResSums ==
    ASSUME NEW L \in Ledgers
    PROVE  /\ \A a \in Accounts :
                /\ SumOver([o \in Live(L) |-> L.res[o].cash + L.res[o].margin],
                           {o \in Live(L) : L.res[o].account = a}) = SumOf(OwnCash(L, a), OrderIds)
                /\ SumOver([o \in Live(L) |-> L.res[o].long],
                           {o \in Live(L) : L.res[o].account = a}) = SumOf(OwnLong(L, a), OrderIds)
           /\ SumOver([o \in Live(L) |-> L.res[o].borrow], Live(L)) = SumOf(OpenBorrow(L), OrderIds)
<1>1. IsFiniteSet(OrderIds) /\ Live(L) \in SUBSET OrderIds
  BY LedgerAssumption DEF Live
<1>2. \A o \in Live(L) : /\ L.res[o].cash + L.res[o].margin \in Int /\ L.res[o].long \in Int
                         /\ L.res[o].borrow \in Int
  BY LedgerTypes, ReservationTypes
<1>3. ASSUME NEW a \in Accounts
      PROVE  /\ SumOver([o \in Live(L) |-> L.res[o].cash + L.res[o].margin],
                        {o \in Live(L) : L.res[o].account = a}) = SumOf(OwnCash(L, a), OrderIds)
             /\ SumOver([o \in Live(L) |-> L.res[o].long],
                        {o \in Live(L) : L.res[o].account = a}) = SumOf(OwnLong(L, a), OrderIds)
  BY <1>1, <1>2, SumOverPart DEF OwnCash, OwnLong
<1>4. SumOver([o \in Live(L) |-> L.res[o].borrow], Live(L)) = SumOf(OpenBorrow(L), OrderIds)
  BY <1>1, <1>2, SumOverPart DEF OpenBorrow
<1> QED BY <1>3, <1>4

\* The audit with its sums written over all accounts and ids.
Audited(L) ==
    /\ L \in Ledgers
    /\ SumOf(CashOf(L), Accounts) + L.fees = SumOf(Cash0, Accounts)
    /\ SumOf(QuantityOf(L), Accounts) = SumOf(Long0, Accounts)
    /\ \A a \in Accounts :
        /\ L.acct[a].cash >= 0 /\ Available(L, a) >= 0
        /\ L.acct[a].borrowed = Larger(0, -L.acct[a].quantity)
        /\ L.acct[a].reserved = SumOf(OwnCash(L, a), OrderIds)
        /\ L.acct[a].held = SumOf(OwnLong(L, a), OrderIds)
        /\ L.acct[a].held <= Larger(0, L.acct[a].quantity)
        /\ L.acct[a].margin >= 0
    /\ L.pool.reserved >= 0 /\ L.pool.borrowed >= 0
    /\ L.pool.reserved + L.pool.borrowed <= PoolTotal
    /\ L.pool.borrowed = SumOf(BorrowedOf(L), Accounts)
    /\ L.pool.reserved = SumOf(OpenBorrow(L), OrderIds)
    /\ \A o \in Live(L) :
        /\ L.res[o].left > 0
        /\ L.res[o].side = "SELL" => L.res[o].long + L.res[o].borrow = L.res[o].left

\* What an audited ledger says of one account and of the pool.
LEMMA AuditedAccount ==
    ASSUME NEW L, Audited(L), NEW a \in Accounts
    PROVE  /\ L.acct[a].quantity \in Int /\ L.acct[a].held \in Int /\ L.acct[a].margin \in Int
           /\ Available(L, a) \in Int /\ Available(L, a) >= 0
           /\ L.acct[a].held <= Larger(0, L.acct[a].quantity)
           /\ L.acct[a].borrowed = Larger(0, -L.acct[a].quantity)
           /\ L.acct[a].held = SumOf(OwnLong(L, a), OrderIds) /\ L.acct[a].margin >= 0
BY LedgerTypes DEF Audited, Available

LEMMA AuditedPool ==
    ASSUME NEW L, Audited(L)
    PROVE  /\ L.pool.reserved \in Int /\ L.pool.borrowed \in Int /\ PoolTotal \in Int
           /\ L.pool.reserved >= 0 /\ L.pool.borrowed >= 0
           /\ L.pool.reserved + L.pool.borrowed <= PoolTotal
BY LedgerTypes, LedgerAssumption DEF Audited

LEMMA AuditedPasses ==
    ASSUME NEW L, L \in Ledgers
    PROVE  AuditPasses(L) <=> Audited(L)
<1>1. \A f : SumOver(f, Accounts) = SumOf(f, Accounts)
  BY DEF SumOver, SumOf
<1>2. /\ Total(CashOf(L)) = SumOf(CashOf(L), Accounts)
      /\ Total(Cash0) = SumOf(Cash0, Accounts)
      /\ Total(QuantityOf(L)) = SumOf(QuantityOf(L), Accounts)
      /\ Total(Long0) = SumOf(Long0, Accounts)
      /\ Total(BorrowedOf(L)) = SumOf(BorrowedOf(L), Accounts)
  BY <1>1 DEF Total
<1>3. CashConserved(L) <=> SumOf(CashOf(L), Accounts) + L.fees = SumOf(Cash0, Accounts)
  BY <1>2 DEF CashConserved, CashOf
<1>4. PositionsConserved(L) <=> SumOf(QuantityOf(L), Accounts) = SumOf(Long0, Accounts)
  BY <1>2 DEF PositionsConserved, QuantityOf
<1>5. BorrowInventoryValid(L) <=>
        /\ L.pool.reserved >= 0 /\ L.pool.borrowed >= 0
        /\ L.pool.reserved + L.pool.borrowed <= PoolTotal
        /\ L.pool.borrowed = SumOf(BorrowedOf(L), Accounts)
        /\ \A a \in Accounts : L.acct[a].borrowed = Larger(0, -L.acct[a].quantity)
  BY <1>2 DEF BorrowInventoryValid, BorrowedOf
<1>6. ReservationsValid(L) <=>
        /\ \A o \in Live(L) :
            /\ L.res[o].left > 0
            /\ L.res[o].side = "SELL" => L.res[o].long + L.res[o].borrow = L.res[o].left
        /\ \A a \in Accounts :
            /\ L.acct[a].reserved = SumOf(OwnCash(L, a), OrderIds)
            /\ L.acct[a].held = SumOf(OwnLong(L, a), OrderIds)
            /\ L.acct[a].held <= Larger(0, L.acct[a].quantity)
            /\ L.acct[a].margin >= 0
        /\ L.pool.reserved = SumOf(OpenBorrow(L), OrderIds)
  BY ResSums DEF ReservationsValid
<1> QED BY <1>3, <1>4, <1>5, <1>6 DEF AuditPasses, Audited, NoOverdraft

\* The reservations of two ledgers differ at one order, at two orders.
DifferAtOne(L, M, o) == \A x \in OrderIds : x # o => M.res[x] = L.res[x]
DifferAtTwo(L, M, b, s) == \A x \in OrderIds : x # b /\ x # s => M.res[x] = L.res[x]

LEMMA OneResChange ==
    ASSUME NEW L \in Ledgers, NEW M \in Ledgers, NEW o \in OrderIds, DifferAtOne(L, M, o)
    PROVE  /\ \A a \in Accounts :
                /\ SumOf(OwnCash(M, a), OrderIds)
                     = SumOf(OwnCash(L, a), OrderIds) + (OwnCash(M, a)[o] - OwnCash(L, a)[o])
                /\ SumOf(OwnLong(M, a), OrderIds)
                     = SumOf(OwnLong(L, a), OrderIds) + (OwnLong(M, a)[o] - OwnLong(L, a)[o])
           /\ SumOf(OpenBorrow(M), OrderIds)
                = SumOf(OpenBorrow(L), OrderIds) + (OpenBorrow(M)[o] - OpenBorrow(L)[o])
<1>1. IsFiniteSet(OrderIds)
  BY LedgerAssumption
<1>2. ASSUME NEW a \in Accounts
      PROVE  /\ SumOf(OwnCash(M, a), OrderIds)
                  = SumOf(OwnCash(L, a), OrderIds) + (OwnCash(M, a)[o] - OwnCash(L, a)[o])
             /\ SumOf(OwnLong(M, a), OrderIds)
                  = SumOf(OwnLong(L, a), OrderIds) + (OwnLong(M, a)[o] - OwnLong(L, a)[o])
  <2> DEFINE f == OwnCash(L, a)
             h == OwnCash(M, a)
             fl == OwnLong(L, a)
             hl == OwnLong(M, a)
  <2>1. \A x \in OrderIds : f[x] \in Int /\ h[x] \in Int /\ fl[x] \in Int /\ hl[x] \in Int
    BY OwnTypes
  <2>2. \A x \in OrderIds \ {o} : f[x] = h[x] /\ fl[x] = hl[x]
    BY DEF OwnCash, OwnLong, Live, DifferAtOne
  <2> HIDE DEF f, h, fl, hl
  <2>3. SumOf(h, OrderIds) = SumOf(f, OrderIds) + (h[o] - f[o])
    BY <1>1, <2>1, <2>2, SumChange
  <2>4. SumOf(hl, OrderIds) = SumOf(fl, OrderIds) + (hl[o] - fl[o])
    BY <1>1, <2>1, <2>2, SumChange
  <2> QED BY <2>3, <2>4 DEF f, h, fl, hl
<1>3. SumOf(OpenBorrow(M), OrderIds)
        = SumOf(OpenBorrow(L), OrderIds) + (OpenBorrow(M)[o] - OpenBorrow(L)[o])
  BY OwnTypes, <1>1, SumChange DEF OpenBorrow, Live, DifferAtOne
<1> QED BY <1>2, <1>3

LEMMA TwoResChange ==
    ASSUME NEW L \in Ledgers, NEW M \in Ledgers, NEW b \in OrderIds, NEW s \in OrderIds, b # s,
           DifferAtTwo(L, M, b, s)
    PROVE  /\ \A a \in Accounts :
                /\ SumOf(OwnCash(M, a), OrderIds)
                     = SumOf(OwnCash(L, a), OrderIds) + (OwnCash(M, a)[b] - OwnCash(L, a)[b])
                                                      + (OwnCash(M, a)[s] - OwnCash(L, a)[s])
                /\ SumOf(OwnLong(M, a), OrderIds)
                     = SumOf(OwnLong(L, a), OrderIds) + (OwnLong(M, a)[b] - OwnLong(L, a)[b])
                                                      + (OwnLong(M, a)[s] - OwnLong(L, a)[s])
           /\ SumOf(OpenBorrow(M), OrderIds)
                = SumOf(OpenBorrow(L), OrderIds) + (OpenBorrow(M)[b] - OpenBorrow(L)[b])
                                                 + (OpenBorrow(M)[s] - OpenBorrow(L)[s])
<1>1. IsFiniteSet(OrderIds)
  BY LedgerAssumption
<1>2. ASSUME NEW a \in Accounts
      PROVE  /\ SumOf(OwnCash(M, a), OrderIds)
                  = SumOf(OwnCash(L, a), OrderIds) + (OwnCash(M, a)[b] - OwnCash(L, a)[b])
                                                   + (OwnCash(M, a)[s] - OwnCash(L, a)[s])
             /\ SumOf(OwnLong(M, a), OrderIds)
                  = SumOf(OwnLong(L, a), OrderIds) + (OwnLong(M, a)[b] - OwnLong(L, a)[b])
                                                   + (OwnLong(M, a)[s] - OwnLong(L, a)[s])
  <2> DEFINE f == OwnCash(L, a)
             h == OwnCash(M, a)
             fl == OwnLong(L, a)
             hl == OwnLong(M, a)
  <2>1. \A x \in OrderIds : f[x] \in Int /\ h[x] \in Int /\ fl[x] \in Int /\ hl[x] \in Int
    BY OwnTypes
  <2>2. \A x \in OrderIds : x # b /\ x # s => f[x] = h[x] /\ fl[x] = hl[x]
    BY DEF OwnCash, OwnLong, Live, DifferAtTwo
  <2> HIDE DEF f, h, fl, hl
  <2>6. DifferAt(f, h, OrderIds, b, s)
    BY <2>1, <2>2 DEF DifferAt
  <2>7. DifferAt(fl, hl, OrderIds, b, s)
    BY <2>1, <2>2 DEF DifferAt
  <2>3. SumOf(h, OrderIds) = SumOf(f, OrderIds) + (h[b] - f[b]) + (h[s] - f[s])
    BY <1>1, <2>6, SumChangeTwo
  <2>4. SumOf(hl, OrderIds) = SumOf(fl, OrderIds) + (hl[b] - fl[b]) + (hl[s] - fl[s])
    BY <1>1, <2>7, SumChangeTwo
  <2> QED BY <2>3, <2>4 DEF f, h, fl, hl
<1>3. SumOf(OpenBorrow(M), OrderIds)
        = SumOf(OpenBorrow(L), OrderIds) + (OpenBorrow(M)[b] - OpenBorrow(L)[b])
                                         + (OpenBorrow(M)[s] - OpenBorrow(L)[s])
  BY OwnTypes, <1>1, SumChangeTwo DEF OpenBorrow, Live, DifferAtTwo, DifferAt
<1> QED BY <1>2, <1>3

-----------------------------------------------------------------------------
(* Setting aside and giving back. *)

LEMMA LargerSmaller ==
    /\ \A x, y \in Int : /\ Larger(x, y) \in Int /\ Larger(x, y) >= x /\ Larger(x, y) >= y
                         /\ Larger(x, y) \in {x, y}
    /\ \A x, y \in Int : /\ Smaller(x, y) \in Int /\ Smaller(x, y) <= x /\ Smaller(x, y) <= y
                         /\ Smaller(x, y) \in {x, y}
  BY DEF Larger, Smaller

\* From L to M an order's reservation becomes r: its account has c more set aside and h
\* more shares held, the pool b more; nothing else changes.
Shifts(L, M, o, a, c, h, b, r) ==
    /\ M \in Ledgers
    /\ \A x \in Accounts : x # a => M.acct[x] = L.acct[x]
    /\ M.acct[a].cash = L.acct[a].cash /\ M.acct[a].quantity = L.acct[a].quantity
    /\ M.acct[a].borrowed = L.acct[a].borrowed /\ M.acct[a].margin = L.acct[a].margin
    /\ M.acct[a].reserved = L.acct[a].reserved + c
    /\ M.acct[a].held = L.acct[a].held + h
    /\ M.pool.reserved = L.pool.reserved + b /\ M.pool.borrowed = L.pool.borrowed
    /\ M.fees = L.fees
    /\ M.res[o] = r /\ DifferAtOne(L, M, o)

\* A ledger with one account's reserved amounts, one reservation and the pool replaced.
LEMMA Shifting ==
    ASSUME NEW L \in Ledgers, NEW o \in OrderIds, NEW a \in Accounts,
           NEW c \in Int, NEW h \in Int, NEW b \in Int, NEW r \in Reservations \cup {NoReservation},
           NEW M, M = [L EXCEPT !.acct[a] = [L.acct[a] EXCEPT !.reserved = L.acct[a].reserved + c,
                                                              !.held = L.acct[a].held + h],
                                !.pool.reserved = L.pool.reserved + b,
                                !.res[o] = r]
    PROVE  Shifts(L, M, o, a, c, h, b, r)
<1> DEFINE x1 == L.acct[a].reserved + c
           x2 == L.acct[a].held + h
           x3 == L.pool.reserved + b
           rec == [L.acct[a] EXCEPT !.reserved = x1, !.held = x2]
           pool == [L.pool EXCEPT !.reserved = x3]
<1>1. M = [L EXCEPT !.acct = [L.acct EXCEPT ![a] = rec], !.pool = pool,
                    !.res = [L.res EXCEPT ![o] = r]]
  OBVIOUS
<1>2. rec \in AccountRecords /\ pool \in [reserved : Int, borrowed : Int]
  <2>1. x1 \in Int /\ x2 \in Int /\ x3 \in Int /\ L.acct[a] \in AccountRecords
        /\ L.pool \in [reserved : Int, borrowed : Int]
    BY LedgerTypes DEF Ledgers
  <2> HIDE DEF x1, x2, x3
  <2> QED BY <2>1 DEF AccountRecords
<1>6. /\ rec.cash = L.acct[a].cash /\ rec.quantity = L.acct[a].quantity
      /\ rec.borrowed = L.acct[a].borrowed /\ rec.margin = L.acct[a].margin
      /\ rec.reserved = x1 /\ rec.held = x2
      /\ pool.reserved = x3 /\ pool.borrowed = L.pool.borrowed
  BY LedgerTypes DEF Ledgers, AccountRecords
<1> HIDE DEF rec, pool
<1>3. /\ M \in Ledgers /\ M.acct = [L.acct EXCEPT ![a] = rec] /\ M.pool = pool /\ M.fees = L.fees
      /\ M.res = [L.res EXCEPT ![o] = r]
  BY ONLY <1>1, <1>2, L \in Ledgers, a \in Accounts, o \in OrderIds,
          r \in Reservations \cup {NoReservation} DEF Ledgers
<1>4. /\ \A x \in Accounts : x # a => M.acct[x] = L.acct[x]
      /\ M.acct[a] = rec
      /\ M.res[o] = r /\ \A x \in OrderIds : x # o => M.res[x] = L.res[x]
  BY ONLY <1>3, L \in Ledgers, a \in Accounts, o \in OrderIds DEF Ledgers
<1> QED BY ONLY <1>3, <1>4, <1>6 DEF Shifts, DifferAtOne, x1, x2, x3

\* What the shift is for the sums of the audit.
Balanced(L, M, o, a, c, h, b) ==
    /\ \A x \in Accounts :
        /\ OwnCash(M, x)[o] = OwnCash(L, x)[o] + (IF x = a THEN c ELSE 0)
        /\ OwnLong(M, x)[o] = OwnLong(L, x)[o] + (IF x = a THEN h ELSE 0)
    /\ OpenBorrow(M)[o] = OpenBorrow(L)[o] + b

\* A reservation the audit accepts.
Complete(r) == r.left > 0 /\ (r.side = "SELL" => r.long + r.borrow = r.left)

LEMMA ShiftAudited ==
    ASSUME NEW L, NEW M, NEW o \in OrderIds, NEW a \in Accounts,
           NEW c \in Int, NEW h \in Int, NEW b \in Int, NEW r,
           Audited(L), Shifts(L, M, o, a, c, h, b, r), Balanced(L, M, o, a, c, h, b),
           Available(L, a) - c >= 0,
           L.acct[a].held + h <= Larger(0, L.acct[a].quantity),
           L.pool.reserved + b >= 0, L.pool.reserved + b + L.pool.borrowed <= PoolTotal,
           r # NoReservation => Complete(r)
    PROVE  Audited(M)
<1>1. L \in Ledgers /\ M \in Ledgers
  BY DEF Audited, Shifts
<1>2. /\ \A x \in Accounts : x # a => M.acct[x] = L.acct[x]
      /\ M.acct[a].cash = L.acct[a].cash /\ M.acct[a].quantity = L.acct[a].quantity
      /\ M.acct[a].borrowed = L.acct[a].borrowed /\ M.acct[a].margin = L.acct[a].margin
      /\ M.acct[a].reserved = L.acct[a].reserved + c
      /\ M.acct[a].held = L.acct[a].held + h
      /\ M.pool.reserved = L.pool.reserved + b /\ M.pool.borrowed = L.pool.borrowed
      /\ M.fees = L.fees
      /\ M.res[o] = r
  BY DEF Shifts
<1>3. \A x \in OrderIds : x # o => M.res[x] = L.res[x]
  BY DEF Shifts, DifferAtOne
<1>4. /\ CashOf(M) = CashOf(L) /\ QuantityOf(M) = QuantityOf(L) /\ BorrowedOf(M) = BorrowedOf(L)
  BY <1>2 DEF CashOf, QuantityOf, BorrowedOf
<1>5. DifferAtOne(L, M, o)
  BY DEF Shifts
<1>6. /\ \A x \in Accounts :
            /\ SumOf(OwnCash(M, x), OrderIds)
                 = SumOf(OwnCash(L, x), OrderIds) + (OwnCash(M, x)[o] - OwnCash(L, x)[o])
            /\ SumOf(OwnLong(M, x), OrderIds)
                 = SumOf(OwnLong(L, x), OrderIds) + (OwnLong(M, x)[o] - OwnLong(L, x)[o])
      /\ SumOf(OpenBorrow(M), OrderIds)
           = SumOf(OpenBorrow(L), OrderIds) + (OpenBorrow(M)[o] - OpenBorrow(L)[o])
  BY <1>1, <1>5, OneResChange
<1>7. /\ \A x \in Accounts : /\ OwnCash(L, x)[o] \in Int /\ OwnLong(L, x)[o] \in Int
                             /\ OwnCash(M, x)[o] \in Int /\ OwnLong(M, x)[o] \in Int
      /\ OpenBorrow(L)[o] \in Int /\ OpenBorrow(M)[o] \in Int
  BY <1>1, OwnTypes
<1>8. /\ SumOf(CashOf(M), Accounts) + M.fees = SumOf(Cash0, Accounts)
      /\ SumOf(QuantityOf(M), Accounts) = SumOf(Long0, Accounts)
  BY <1>2, <1>4 DEF Audited
<1>9. ASSUME NEW x \in Accounts
      PROVE  /\ M.acct[x].cash >= 0 /\ Available(M, x) >= 0
             /\ M.acct[x].borrowed = Larger(0, -M.acct[x].quantity)
             /\ M.acct[x].reserved = SumOf(OwnCash(M, x), OrderIds)
             /\ M.acct[x].held = SumOf(OwnLong(M, x), OrderIds)
             /\ M.acct[x].held <= Larger(0, M.acct[x].quantity)
             /\ M.acct[x].margin >= 0
  <2>1. /\ L.acct[x].cash >= 0 /\ Available(L, x) >= 0
        /\ L.acct[x].borrowed = Larger(0, -L.acct[x].quantity)
        /\ L.acct[x].reserved = SumOf(OwnCash(L, x), OrderIds)
        /\ L.acct[x].held = SumOf(OwnLong(L, x), OrderIds)
        /\ L.acct[x].held <= Larger(0, L.acct[x].quantity)
        /\ L.acct[x].margin >= 0
    BY DEF Audited
  <2>2. L.acct[x].reserved \in Int /\ L.acct[x].held \in Int /\ L.acct[x].cash \in Int
        /\ L.acct[x].margin \in Int
    BY <1>1, LedgerTypes
  <2>3. CASE x = a
    BY <2>3, <1>6, <1>7, <2>1, <2>2, <1>2 DEF Balanced, Available
  <2>4. CASE x # a
    BY <2>4, <1>6, <1>7, <2>1, <2>2, <1>2 DEF Balanced, Available
  <2> QED BY <2>3, <2>4
<1>10. /\ M.pool.reserved >= 0 /\ M.pool.borrowed >= 0
       /\ M.pool.reserved + M.pool.borrowed <= PoolTotal
       /\ M.pool.borrowed = SumOf(BorrowedOf(M), Accounts)
       /\ M.pool.reserved = SumOf(OpenBorrow(M), OrderIds)
  BY <1>1, LedgerTypes, <1>6, <1>7, <1>2, <1>4 DEF Audited, Balanced
<1>11. \A x \in Live(M) : /\ M.res[x].left > 0
                          /\ M.res[x].side = "SELL" => M.res[x].long + M.res[x].borrow = M.res[x].left
  <2> TAKE x \in Live(M)
  <2>1. x \in OrderIds /\ M.res[x] # NoReservation
    BY DEF Live
  <2>2. CASE x = o
    BY <1>2, <2>1, <2>2 DEF Complete
  <2>3. CASE x # o
    BY <1>3, <2>1, <2>3 DEF Audited, Live
  <2> QED BY <2>2, <2>3
<1> QED BY <1>1, <1>8, <1>9, <1>10, <1>11 DEF Audited

LEMMA ReservedShifts ==
    ASSUME NEW L \in Ledgers, NEW o \in OrderIds, NEW r \in Reservations
    PROVE  Shifts(L, Reserved(L, o, r), o, r.account, r.cash + r.margin, r.long, r.borrow, r)
<1> DEFINE a == r.account
           c == r.cash + r.margin
           h == r.long
           b == r.borrow
           M == Reserved(L, o, r)
<1>1. a \in Accounts /\ c \in Int /\ h \in Int /\ b \in Int
  BY ReservationTypes
<1>2. L.acct[a].reserved + r.cash + r.margin = L.acct[a].reserved + c
  BY <1>1, LedgerTypes, ReservationTypes
<1>3. M = [L EXCEPT !.acct[a] = [L.acct[a] EXCEPT !.reserved = L.acct[a].reserved + c,
                                                   !.held = L.acct[a].held + h],
                    !.pool.reserved = L.pool.reserved + b,
                    !.res[o] = r]
  BY <1>2 DEF Reserved
<1> HIDE DEF a, c, h, b, M
<1>4. Shifts(L, M, o, a, c, h, b, r)
  BY <1>1, <1>3, Shifting
<1> QED BY <1>4 DEF a, c, h, b, M

LEMMA ReleasedShifts ==
    ASSUME NEW L \in Ledgers, NEW o \in Live(L)
    PROVE  Shifts(L, Released(L, o), o, L.res[o].account, -(L.res[o].cash + L.res[o].margin),
                  -L.res[o].long, -L.res[o].borrow, NoReservation)
<1> DEFINE r == L.res[o]
           a == r.account
           c == -(r.cash + r.margin)
           h == -r.long
           b == -r.borrow
           M == Released(L, o)
<1>0. o \in OrderIds /\ r \in Reservations
  BY LedgerTypes
<1>1. a \in Accounts /\ c \in Int /\ h \in Int /\ b \in Int
  BY <1>0, ReservationTypes
<1>2. /\ L.acct[a].reserved - r.cash - r.margin = L.acct[a].reserved + c
      /\ L.acct[a].held - r.long = L.acct[a].held + h
      /\ L.pool.reserved - r.borrow = L.pool.reserved + b
  BY <1>0, <1>1, LedgerTypes, ReservationTypes
<1>3. M = [L EXCEPT !.acct[a] = [L.acct[a] EXCEPT !.reserved = L.acct[a].reserved + c,
                                                   !.held = L.acct[a].held + h],
                    !.pool.reserved = L.pool.reserved + b,
                    !.res[o] = NoReservation]
  BY <1>2 DEF Released
<1> HIDE DEF a, c, h, b, M
<1>4. Shifts(L, M, o, a, c, h, b, NoReservation)
  BY <1>0, <1>1, <1>3, Shifting
<1> QED BY <1>4 DEF a, c, h, b, M

\* A new reservation within the free cash, the free shares and the free pool.
LEMMA ReservedAudited ==
    ASSUME NEW L, Audited(L), NEW o \in OrderIds, L.res[o] = NoReservation,
           NEW r \in Reservations, Complete(r),
           r.cash + r.margin <= Available(L, r.account),
           L.acct[r.account].held + r.long <= Larger(0, L.acct[r.account].quantity),
           L.pool.reserved + r.borrow + L.pool.borrowed <= PoolTotal
    PROVE  Audited(Reserved(L, o, r))
<1> DEFINE a == r.account
           c == r.cash + r.margin
           h == r.long
           b == r.borrow
           M == Reserved(L, o, r)
<1>1. L \in Ledgers
  BY DEF Audited
<1>2. Shifts(L, M, o, a, c, h, b, r)
  BY <1>1, ReservedShifts
<1>3. a \in Accounts /\ c \in Int /\ h \in Int /\ b \in Nat /\ r # NoReservation
  BY ReservationTypes
<1>4. Available(L, a) \in Int /\ L.pool.reserved \in Int /\ L.pool.reserved >= 0
  BY <1>1, <1>3, LedgerTypes DEF Available, Audited
<1>5. Balanced(L, M, o, a, c, h, b)
  BY <1>2, <1>3 DEF Shifts, Balanced, OwnCash, OwnLong, OpenBorrow, Live
<1>6. /\ Available(L, a) - c >= 0
      /\ L.acct[a].held + h <= Larger(0, L.acct[a].quantity)
      /\ L.pool.reserved + b >= 0 /\ L.pool.reserved + b + L.pool.borrowed <= PoolTotal
  BY <1>3, <1>4
<1> HIDE DEF a, c, h, b, M
<1>7. Audited(M)
  BY <1>2, <1>3, <1>5, <1>6, ShiftAudited
<1> QED BY <1>7 DEF M

\* A sum of naturals is at least each of them.
LEMMA OneOfSum ==
    ASSUME NEW S, IsFiniteSet(S), NEW f, \A x \in S : f[x] \in Nat, NEW y \in S
    PROVE  f[y] <= SumOf(f, S)
<1> DEFINE z == [x \in S |-> 0]
           k == [x \in S |-> IF x = y THEN f[x] ELSE 0]
<1>1. \A x \in S : z[x] \in Int /\ f[x] \in Int /\ k[x] \in Int /\ z[x] <= k[x] /\ k[x] <= f[x]
  OBVIOUS
<1>2. \A x \in S \ {y} : z[x] = k[x]
  OBVIOUS
<1>3. k[y] = f[y] /\ z[y] = 0
  OBVIOUS
<1>4. \A x \in S : z[x] = IF x \in {} THEN f[x] ELSE 0
  OBVIOUS
<1> HIDE DEF z, k
<1>5. SumOf(z, S) = 0
  BY SumEmpty, <1>1, <1>4, SumPart
<1>6. SumOf(k, S) = SumOf(z, S) + (k[y] - z[y])
  BY <1>1, <1>2, SumChange
<1>7. SumOf(k, S) <= SumOf(f, S)
  BY <1>1, SumMonotone
<1>8. f[y] \in Int
  BY <1>1
<1> QED BY <1>3, <1>5, <1>6, <1>7, <1>8

\* What a live order holds may be given back.
LEMMA ReleasedAudited ==
    ASSUME NEW L, Audited(L), NEW o \in Live(L)
    PROVE  Audited(Released(L, o))
<1> DEFINE r == L.res[o]
           a == r.account
           c == -(r.cash + r.margin)
           h == -r.long
           b == -r.borrow
           M == Released(L, o)
<1>1. L \in Ledgers
  BY DEF Audited
<1>2. Shifts(L, M, o, a, c, h, b, NoReservation)
  BY <1>1, ReleasedShifts
<1>3. o \in OrderIds /\ r \in Reservations
  BY <1>1, LedgerTypes
<1>4. /\ a \in Accounts /\ c \in Int /\ h \in Int /\ b \in Int
      /\ r.cash + r.margin \in Nat /\ r.long \in Nat /\ r.borrow \in Nat /\ r # NoReservation
  BY <1>3, ReservationTypes
<1>5. Balanced(L, M, o, a, c, h, b)
  <2>1. M.res[o] = NoReservation
    BY <1>2 DEF Shifts
  <2>2. o \in Live(L)
    OBVIOUS
  <2>3. o \notin Live(M)
    BY <2>1 DEF Live
  <2> HIDE DEF M
  <2> QED BY <1>3, <1>4, <2>2, <2>3 DEF Balanced, OwnCash, OwnLong, OpenBorrow
<1>6. /\ Available(L, a) \in Int /\ Available(L, a) >= 0
      /\ L.acct[a].held \in Int /\ L.acct[a].held <= Larger(0, L.acct[a].quantity)
      /\ L.pool.reserved \in Int /\ L.pool.borrowed \in Int
      /\ L.pool.reserved + L.pool.borrowed <= PoolTotal
      /\ L.acct[a].quantity \in Int /\ PoolTotal \in Int
  BY <1>1, <1>4, AuditedAccount, AuditedPool
<1>7. L.pool.reserved >= r.borrow
  <2> DEFINE f == OpenBorrow(L)
  <2>1. L.pool.reserved = SumOf(f, OrderIds) /\ f[o] = r.borrow
    BY <1>3 DEF Audited, OpenBorrow
  <2>2. IsFiniteSet(OrderIds) /\ \A x \in OrderIds : f[x] \in Nat
    BY <1>1, OwnTypes, LedgerAssumption
  <2> HIDE DEF f
  <2>3. f[o] <= SumOf(f, OrderIds)
    BY <1>3, <2>2, OneOfSum
  <2> QED BY <2>1, <2>3
<1>8. Larger(0, L.acct[a].quantity) \in Int
  BY <1>6 DEF Larger
<1>9. /\ Available(L, a) - c >= 0
      /\ L.acct[a].held + h <= Larger(0, L.acct[a].quantity)
      /\ L.pool.reserved + b >= 0 /\ L.pool.reserved + b + L.pool.borrowed <= PoolTotal
  BY <1>4, <1>6, <1>7, <1>8
<1> HIDE DEF a, c, h, b, M
<1>10. Audited(M)
  BY <1>2, <1>3, <1>4, <1>5, <1>9, ShiftAudited
<1> QED BY <1>10 DEF M

\* From L to M the reservations of the orders in T are gone and nobody's position changes.
Frees(L, M, T) ==
    /\ \A o \in OrderIds : M.res[o] = IF o \in T THEN NoReservation ELSE L.res[o]
    /\ \A a \in Accounts : M.acct[a].quantity = L.acct[a].quantity

LEMMA ReleasedAllFrees ==
    ASSUME NEW L, Audited(L), NEW S \in SUBSET Live(L)
    PROVE  Audited(ReleasedAll(L, S)) /\ Frees(L, ReleasedAll(L, S), S)
<1>1. IsFiniteSet(S)
  BY FS_Subset, LedgerAssumption DEF Live
<1>2. PICK g : Releasing(g, L, S) /\ \A T \in SUBSET S : ReleasedAll(L, T) = g[T]
  BY <1>1, ReleasedIsFold
<1> DEFINE G == {T \in SUBSET S : Audited(g[T]) /\ Frees(L, g[T], T)}
<1>3. ASSUME NEW T \in SUBSET S, \A x \in T : T \ {x} \in G PROVE T \in G
  <2> DEFINE c == CHOOSE x \in T : TRUE
             B == g[T \ {c}]
  <2>1. g[T] = ReleasedBody(g, L, T)
    BY <1>2 DEF Releasing
  <2>2. CASE T = {}
    BY <2>1, <2>2 DEF ReleasedBody, Frees
  <2>3. CASE T # {}
    <3>1. c \in T
      BY <2>3
    <3>2. Audited(B) /\ Frees(L, B, T \ {c})
      BY <1>3, <3>1
    <3>3. g[T] = Released(B, c)
      BY <2>1, <2>3 DEF ReleasedBody
    <3>4. c \in Live(L) /\ c \in OrderIds
      BY <3>1 DEF Live
    <3> HIDE DEF c, B
    <3>5. c \in Live(B)
      BY <3>1, <3>2, <3>4 DEF Frees, Live
    <3>6. Audited(Released(B, c))
      BY <3>2, <3>5, ReleasedAudited
    <3>7. B \in Ledgers
      BY <3>2 DEF Audited
    <3> DEFINE M == Released(B, c)
               r == B.res[c]
    <3>8. Shifts(B, M, c, r.account, -(r.cash + r.margin), -r.long, -r.borrow, NoReservation)
      BY <3>5, <3>7, ReleasedShifts
    <3> HIDE DEF M, r
    <3>9. /\ M.res[c] = NoReservation /\ \A x \in OrderIds : x # c => M.res[x] = B.res[x]
          /\ \A x \in Accounts : M.acct[x].quantity = B.acct[x].quantity
      BY <3>8 DEF Shifts, DifferAtOne
    <3>10. Frees(L, M, T)
      BY <3>1, <3>2, <3>4, <3>9 DEF Frees
    <3> QED BY <3>3, <3>6, <3>10 DEF M
  <2> QED BY <2>2, <2>3
<1> HIDE DEF G
<1>4. S \in G
  BY <1>1, <1>3, SubsetInduction
<1> QED BY <1>2, <1>4 DEF G

-----------------------------------------------------------------------------
(* What the risk check grants. *)

\* The amounts of a reservation follow from its side, its limit and what is left.
Sound(r) ==
    /\ r \in Reservations /\ r.left > 0
    /\ r.side = "BUY" => /\ r.cash = BuyCost(r.limit, r.left)
                         /\ r.long = 0 /\ r.borrow = 0 /\ r.margin = 0
    /\ r.side = "SELL" => /\ r.cash = 0 /\ r.long + r.borrow = r.left
                          /\ r.margin = Margin(r.limit, r.borrow)

\* The reservation is for this order, and the ledger can bear it.
Granted(L, a, side, q, limit, short, r) ==
    /\ Sound(r)
    /\ r.account = a /\ r.side = side /\ r.limit = limit /\ r.left <= q
    /\ r.cash + r.margin <= Available(L, a)
    /\ L.acct[a].held + r.long <= Larger(0, L.acct[a].quantity)
    /\ L.pool.reserved + r.borrow + L.pool.borrowed <= PoolTotal
    /\ r.borrow > 0 => short /\ L.acct[a].held + r.long = Larger(0, L.acct[a].quantity)
    /\ side = "BUY" => Projected(L, a) + r.left <= MaxAbsolutePosition[a]
    /\ side = "SELL" => -MaxAbsolutePosition[a] <= Projected(L, a) - r.left

LEMMA ProjectedIsInt ==
    ASSUME NEW L \in Ledgers, NEW a \in Accounts
    PROVE  Projected(L, a) \in Int
<1> DEFINE S == {o \in Live(L) : L.res[o].account = a}
           f == [o \in Live(L) |-> IF L.res[o].side = "BUY" THEN L.res[o].left
                                   ELSE -L.res[o].left]
<1>1. IsFiniteSet(S)
  BY FS_Subset, LedgerAssumption DEF Live
<1>2. \A x \in S : f[x] \in Int
  BY LedgerTypes, ReservationTypes
<1>3. Projected(L, a) = L.acct[a].quantity + SumOver(f, S)
  BY DEF Projected
<1> HIDE DEF S, f
<1>4. SumOf(f, S) \in Int
  BY <1>1, <1>2, SumIsInt
<1> QED BY <1>3, <1>4, LedgerTypes DEF SumOver, SumOf

LEMMA EvaluatedIsGranted ==
    ASSUME NEW L, Audited(L), NEW a \in Accounts, NEW side \in {"BUY", "SELL"},
           NEW q \in Nat, q > 0, NEW limit \in Nat, NEW short \in BOOLEAN,
           Evaluated(L, a, side, q, limit, short) # NoReservation
    PROVE  Granted(L, a, side, q, limit, short, Evaluated(L, a, side, q, limit, short))
<1> DEFINE capped == Capped(L, a, side, q)
           fits(x) == BuyCost(limit, x) <= Available(L, a)
           bearable(x) == Margin(limit, x) <= Available(L, a)
           bought == Largest(capped, fits)
           long == LongPart(L, a, capped)
           rest == capped - long
           Bearable == {x \in 0 .. rest : x = 0 \/ bearable(x)}
           Fitting == {x \in 0 .. capped : x = 0 \/ fits(x)}
           free == PoolTotal - L.pool.reserved - L.pool.borrowed
           most == Max(Bearable)
           borrow == IF short THEN Smaller(Smaller(rest, free), most) ELSE 0
           r == Evaluated(L, a, side, q, limit, short)
           position == L.acct[a].quantity
           held == L.acct[a].held
           projected == Projected(L, a)
           top == MaxAbsolutePosition[a]
<1>1. L \in Ledgers
  BY DEF Audited
<1>2. /\ position \in Int /\ held \in Int /\ projected \in Int /\ top \in Nat
      /\ Available(L, a) \in Int /\ Available(L, a) >= 0
      /\ L.pool.reserved \in Int /\ L.pool.borrowed \in Int /\ PoolTotal \in Nat
      /\ free \in Int /\ free >= 0 /\ held <= Larger(0, position)
  BY AuditedAccount, AuditedPool, LedgerAssumption, <1>1, ProjectedIsInt
<1>3. /\ capped \in Nat /\ capped <= q
      /\ capped > 0 => IF side = "BUY" THEN projected + capped <= top
                       ELSE -top <= projected - capped
  BY <1>2, LedgerAssumption DEF Capped, Smaller, Larger
<1>4. /\ long \in Nat /\ long <= capped /\ held + long <= Larger(0, position)
      /\ long < capped => held + long = Larger(0, position)
      /\ rest \in Nat
  BY <1>2, <1>3 DEF LongPart, Smaller, Larger
<1>5. /\ bought = Max(Fitting)
      /\ short => BorrowPart(L, a, rest, limit) = borrow
  BY DEF Largest, BorrowPart
<1>6. /\ bought \in 0 .. capped
      /\ bought > 0 => BuyCost(limit, bought) <= Available(L, a)
  <2>1. Fitting \in SUBSET (0 .. capped) /\ Fitting # {}
    BY <1>3
  <2>2. Max(Fitting) \in Fitting
    BY <1>3, <2>1, MaxIsIn
  <2> QED BY <1>5, <2>2
<1>7. most \in 0 .. rest /\ Margin(limit, most) <= Available(L, a)
  <2>1. Bearable \in SUBSET (0 .. rest) /\ Bearable # {}
    BY <1>4
  <2>2. Max(Bearable) \in Bearable
    BY <1>4, <2>1, MaxIsIn
  <2>3. Margin(limit, 0) = 0
    BY MarginFacts
  <2> QED BY <1>2, <2>2, <2>3
<1> HIDE DEF most, Bearable, Fitting
<1>8. /\ borrow \in Nat /\ borrow <= rest /\ borrow <= free
      /\ Margin(limit, borrow) <= Available(L, a)
      /\ borrow > 0 => short
  <2>1. borrow \in Nat /\ borrow <= rest /\ borrow <= free /\ borrow <= most /\ (borrow > 0 => short)
    <3> HIDE DEF rest, free
    <3> QED BY <1>2, <1>4, <1>7 DEF Smaller
  <2>2. most \in Nat
    BY <1>4, <1>7
  <2> HIDE DEF borrow
  <2>3. Margin(limit, borrow) <= Margin(limit, most) /\ Margin(limit, borrow) \in Nat
        /\ Margin(limit, most) \in Nat
    BY <2>1, <2>2, MarginFacts
  <2> QED BY <1>2, <1>7, <2>1, <2>3
<1>9. \/ /\ side = "BUY" /\ bought > 0
         /\ r = [account |-> a, side |-> side, limit |-> limit, left |-> bought,
                 cash |-> BuyCost(limit, bought), long |-> 0, borrow |-> 0, margin |-> 0]
      \/ /\ side = "SELL" /\ long + borrow > 0
         /\ r = [account |-> a, side |-> side, limit |-> limit, left |-> long + borrow,
                 cash |-> 0, long |-> long, borrow |-> borrow, margin |-> Margin(limit, borrow)]
  BY <1>5 DEF Evaluated, long, bought, capped
<1>10. CASE side = "BUY"
  <2>1. /\ bought > 0
        /\ r = [account |-> a, side |-> side, limit |-> limit, left |-> bought,
                cash |-> BuyCost(limit, bought), long |-> 0, borrow |-> 0, margin |-> 0]
    BY <1>9, <1>10
  <2>2. bought \in Nat /\ bought <= capped /\ BuyCost(limit, bought) <= Available(L, a)
    BY <1>3, <1>6, <2>1
  <2> HIDE DEF bought, r, capped, position, held, projected, top
  <2>3. BuyCost(limit, bought) \in Nat
    BY <2>2, BuyCostFacts
  <2>4. /\ r.account = a /\ r.side = side /\ r.limit = limit /\ r.left = bought
        /\ r.cash = BuyCost(limit, bought) /\ r.long = 0 /\ r.borrow = 0 /\ r.margin = 0
        /\ r \in Reservations
    BY <2>1, <2>2, <2>3 DEF Reservations
  <2>5. Sound(r)
    BY <1>10, <2>1, <2>4 DEF Sound
  <2>6. r.left <= q /\ projected + r.left <= top
    BY <1>2, <1>3, <1>10, <2>1, <2>2, <2>4
  <2>7. r.cash + r.margin <= Available(L, a) /\ held + r.long <= Larger(0, position)
        /\ L.pool.reserved + r.borrow + L.pool.borrowed <= PoolTotal
    BY <1>2, <2>2, <2>3, <2>4
  <2> QED BY <1>10, <2>4, <2>5, <2>6, <2>7 DEF Granted, r, projected, top, position, held
<1>11. CASE side = "SELL"
  <2>1. /\ long + borrow > 0
        /\ r = [account |-> a, side |-> side, limit |-> limit, left |-> long + borrow,
                cash |-> 0, long |-> long, borrow |-> borrow, margin |-> Margin(limit, borrow)]
    BY <1>9, <1>11
  <2>2. long + borrow <= capped /\ borrow <= capped - long
    BY <1>3, <1>4, <1>8
  <2>0. free = PoolTotal - L.pool.reserved - L.pool.borrowed
    OBVIOUS
  <2> HIDE DEF long, borrow, r, capped, position, held, projected, top, free, rest
  <2>3. Margin(limit, borrow) \in Nat
    BY <1>8, MarginFacts
  <2>4. /\ r.account = a /\ r.side = side /\ r.limit = limit /\ r.left = long + borrow
        /\ r.cash = 0 /\ r.long = long /\ r.borrow = borrow /\ r.margin = Margin(limit, borrow)
        /\ r \in Reservations
    BY <1>4, <1>8, <2>1, <2>3 DEF Reservations
  <2>5. Sound(r)
    BY <1>11, <2>1, <2>4 DEF Sound
  <2>6. r.left <= q /\ -top <= projected - r.left
    BY <1>2, <1>3, <1>4, <1>8, <1>11, <2>1, <2>2, <2>4
  <2>7. r.cash + r.margin <= Available(L, a) /\ held + r.long <= Larger(0, position)
        /\ L.pool.reserved + r.borrow + L.pool.borrowed <= PoolTotal
    BY <1>2, <1>4, <1>8, <2>0, <2>3, <2>4
  <2>8. r.borrow > 0 => short /\ held + r.long = Larger(0, position)
    BY <1>3, <1>4, <1>8, <2>2, <2>4
  <2> QED BY <1>11, <2>4, <2>5, <2>6, <2>7, <2>8 DEF Granted, r, projected, top, position, held
<1> QED BY <1>10, <1>11

-----------------------------------------------------------------------------
(* The settlement of a trade. *)

LEMMA AfterBuyFacts ==
    ASSUME NEW r, Sound(r), r.side = "BUY", NEW q \in Nat, q <= r.left
    PROVE  LET n == AfterBuy(r, q)
           IN  /\ n.account = r.account /\ n.side = r.side /\ n.limit = r.limit
               /\ n.left = r.left - q /\ n.long = 0 /\ n.borrow = 0 /\ n.margin = 0
               /\ n.cash \in Nat /\ n \in Reservations
               /\ n.left > 0 => Sound(n)
               /\ n.left = 0 => n.cash = 0
<1> DEFINE x1 == r.left - q
           x2 == BuyCost(r.limit, x1)
           n == [r EXCEPT !.left = x1, !.cash = x2]
<1>1. /\ r \in Reservations /\ r.limit \in Nat /\ x1 \in Nat /\ r.account \in Accounts
      /\ r.long = 0 /\ r.borrow = 0 /\ r.margin = 0
  BY ReservationTypes DEF Sound
<1>2. x2 \in Nat /\ (x1 = 0 => x2 = 0)
  <2> HIDE DEF x1
  <2> QED BY <1>1, BuyCostFacts
<1>3. AfterBuy(r, q) = n
  BY DEF AfterBuy
<1>4. /\ n.account = r.account /\ n.side = r.side /\ n.limit = r.limit
      /\ n.left = x1 /\ n.long = 0 /\ n.borrow = 0 /\ n.margin = 0
      /\ n.cash = x2 /\ n \in Reservations
  <2> HIDE DEF x1, x2
  <2> QED BY <1>1, <1>2 DEF Reservations
<1>5. n.left > 0 => Sound(n)
  <2> HIDE DEF n
  <2> QED BY <1>4 DEF Sound
<1> HIDE DEF n
<1> QED BY <1>2, <1>3, <1>4, <1>5

LEMMA AfterSaleFacts ==
    ASSUME NEW r, Sound(r), r.side = "SELL", NEW q \in Nat, q <= r.left
    PROVE  LET n == AfterSale(r, q)
               long == Smaller(q, r.long)
           IN  /\ n.account = r.account /\ n.side = r.side /\ n.limit = r.limit
               /\ n.left = r.left - q /\ n.long = r.long - long
               /\ n.borrow = r.borrow - ShortFill(r, q)
               /\ n.cash = 0 /\ n.margin \in Nat /\ n \in Reservations
               /\ n.left > 0 => Sound(n)
               /\ n.left = 0 => n.long = 0 /\ n.borrow = 0 /\ n.margin = 0
<1> DEFINE long == Smaller(q, r.long)
           x1 == r.left - q
           x2 == r.long - long
           x3 == r.borrow - (q - long)
           x4 == Margin(r.limit, x3)
           n == [r EXCEPT !.left = x1, !.long = x2, !.borrow = x3, !.margin = x4]
<1>1. /\ r \in Reservations /\ r.limit \in Nat /\ x1 \in Nat /\ r.account \in Accounts
      /\ r.long \in Nat /\ r.borrow \in Nat /\ r.cash = 0 /\ r.long + r.borrow = r.left
      /\ r.left \in Nat
  BY ReservationTypes DEF Sound
<1>2. x2 \in Nat /\ x3 \in Nat /\ x2 + x3 = x1
  BY <1>1 DEF Smaller
<1>3. x4 \in Nat /\ (x3 = 0 => x4 = 0)
  <2> HIDE DEF x3
  <2> QED BY <1>1, <1>2, MarginFacts
<1>4. AfterSale(r, q) = n
  BY DEF AfterSale
<1>5. /\ n.account = r.account /\ n.side = r.side /\ n.limit = r.limit
      /\ n.left = x1 /\ n.long = x2 /\ n.borrow = x3 /\ n.margin = x4 /\ n.cash = 0
      /\ n \in Reservations
  <2> HIDE DEF x1, x2, x3, x4
  <2> QED BY <1>1, <1>2, <1>3 DEF Reservations
<1>6. n.left > 0 => Sound(n)
  <2> HIDE DEF n, x3, x2, x1
  <2> QED BY <1>2, <1>5 DEF Sound
<1>7. x1 = 0 => x2 = 0 /\ x3 = 0
  <2> HIDE DEF x1, x2, x3
  <2> QED BY <1>2
<1>8. ShortFill(r, q) = q - long
  BY DEF ShortFill
<1> HIDE DEF n
<1> QED BY <1>3, <1>4, <1>5, <1>6, <1>7, <1>8

\* The two reservations match, and the sale borrows only what the position lacks.
Settles(L, b, s, price, q) ==
    /\ Audited(L) /\ b \in OrderIds /\ s \in OrderIds
    /\ price \in Nat /\ q \in Nat /\ q > 0
    /\ Matched(L, b, s, price, q) /\ Sound(L.res[b]) /\ Sound(L.res[s])
    /\ L.res[s].borrow > 0 => L.res[s].long = Larger(0, L.acct[L.res[s].account].quantity)

\* From L to M the trade is settled.
Pays(L, M, b, s, price, q) ==
    LET rb == L.res[b]
        rs == L.res[s]
        x == rb.account
        y == rs.account
        cents == Notional(price, q)
    IN  /\ M \in Ledgers
        /\ \A a \in Accounts : a # x /\ a # y => M.acct[a] = L.acct[a]
        /\ M.acct[x].cash = L.acct[x].cash - cents - Fee(cents)
        /\ M.acct[x].reserved = L.acct[x].reserved - rb.cash + AfterBuy(rb, q).cash
        /\ M.acct[x].quantity = L.acct[x].quantity + q
        /\ M.acct[x].held = L.acct[x].held
        /\ M.acct[x].borrowed = L.acct[x].borrowed - Cover(L.acct[L.res[b].account], q)
        /\ M.acct[x].margin = L.acct[x].margin - FreedMargin(L.acct[L.res[b].account], q)
        /\ M.acct[y].cash = L.acct[y].cash + cents - Fee(cents)
        /\ M.acct[y].reserved = L.acct[y].reserved - rs.margin + AfterSale(rs, q).margin
        /\ M.acct[y].quantity = L.acct[y].quantity - q
        /\ M.acct[y].held = L.acct[y].held - (rs.long - AfterSale(rs, q).long)
        /\ M.acct[y].borrowed = L.acct[y].borrowed + Beyond(L.acct[L.res[s].account], q)
        /\ M.acct[y].margin = L.acct[y].margin + Margin(price, ShortFill(rs, q))
        /\ M.pool.reserved = L.pool.reserved - ShortFill(rs, q)
        /\ M.pool.borrowed = L.pool.borrowed + ShortFill(rs, q) - Cover(L.acct[L.res[b].account], q)
        /\ M.fees = L.fees + 2 * Fee(cents)
        /\ M.res[b] = Kept(AfterBuy(rb, q)) /\ M.res[s] = Kept(AfterSale(rs, q))
        /\ DifferAtTwo(L, M, b, s)

\* The amounts of a settlement.
LEMMA SettlesFacts ==
    ASSUME NEW L, NEW b, NEW s, NEW price, NEW q, Settles(L, b, s, price, q)
    PROVE  /\ b # s /\ b \in Live(L) /\ s \in Live(L)
           /\ L.res[b].account \in Accounts /\ L.res[s].account \in Accounts
           /\ L.res[b].account # L.res[s].account
           /\ Notional(price, q) \in Nat /\ Fee(Notional(price, q)) \in Nat
           /\ Cover(L.acct[L.res[b].account], q) \in 0 .. q
           /\ L.acct[L.res[b].account].borrowed - Cover(L.acct[L.res[b].account], q)
                = Larger(0, -(L.acct[L.res[b].account].quantity + q))
           /\ FreedMargin(L.acct[L.res[b].account], q) \in 0 .. L.acct[L.res[b].account].margin
           /\ Beyond(L.acct[L.res[s].account], q) = ShortFill(L.res[s], q) /\ ShortFill(L.res[s], q) \in 0 .. q
           /\ L.acct[L.res[s].account].borrowed + Beyond(L.acct[L.res[s].account], q)
                = Larger(0, -(L.acct[L.res[s].account].quantity - q))
           /\ L.res[s].long <= L.acct[L.res[s].account].held
           /\ Margin(price, ShortFill(L.res[s], q)) \in Nat
<1> DEFINE rb == L.res[b]
           rs == L.res[s]
           x == rb.account
           y == rs.account
           qx == L.acct[x].quantity
           qy == L.acct[y].quantity
           mx == L.acct[x].margin
<1>1. /\ L \in Ledgers /\ Audited(L) /\ b \in OrderIds /\ s \in OrderIds
      /\ price \in Nat /\ q \in Nat /\ q > 0 /\ Sound(rb) /\ Sound(rs)
      /\ rb.side = "BUY" /\ rs.side = "SELL" /\ x # y /\ q <= rb.left /\ q <= rs.left
      /\ rb # NoReservation /\ rs # NoReservation
  BY DEF Settles, Matched, Audited
<1>2. b # s /\ b \in Live(L) /\ s \in Live(L)
  BY <1>1 DEF Live
<1>3. /\ x \in Accounts /\ y \in Accounts /\ rb.left \in Nat /\ rs.left \in Nat
      /\ rs.long \in Nat /\ rs.borrow \in Nat /\ rs.long + rs.borrow = rs.left
  BY <1>1, ReservationTypes DEF Sound
<1>4. /\ qx \in Int /\ qy \in Int /\ mx \in Int /\ mx >= 0
      /\ L.acct[x].borrowed = Larger(0, -qx)
      /\ L.acct[y].borrowed = Larger(0, -qy)
      /\ L.acct[y].held \in Int /\ L.acct[y].held <= Larger(0, qy)
      /\ L.acct[y].held = SumOf(OwnLong(L, y), OrderIds)
  BY <1>1, <1>3, AuditedAccount
<1>5. Notional(price, q) \in Nat /\ Fee(Notional(price, q)) \in Nat
  BY <1>1, NotionalFacts, FeeFacts
<1>6. rs.long <= L.acct[y].held
  <2> DEFINE f == OwnLong(L, y)
  <2>1. f[s] = rs.long
    BY <1>1, <1>2 DEF OwnLong
  <2>2. IsFiniteSet(OrderIds) /\ \A o \in OrderIds : f[o] \in Nat
    BY <1>1, OwnTypes, LedgerAssumption
  <2>3. L.acct[y].held = SumOf(f, OrderIds)
    BY <1>4
  <2> HIDE DEF f
  <2>4. f[s] <= SumOf(f, OrderIds)
    BY <1>1, <2>2, OneOfSum
  <2> QED BY <2>1, <2>3, <2>4
<1>7. Cover(L.acct[L.res[b].account], q) = Smaller(q, Larger(0, -qx)) /\ Beyond(L.acct[L.res[s].account], q) = q - Smaller(q, Larger(0, qy))
      /\ ShortFill(rs, q) = q - Smaller(q, rs.long)
  BY DEF Cover, Beyond, ShortFill
<1>8. rs.borrow > 0 => rs.long = Larger(0, qy)
  BY DEF Settles
<1> DEFINE long == rs.long
           borrow == rs.borrow
           held == L.acct[y].held
           left == rs.left
<1>9. /\ Cover(L.acct[L.res[b].account], q) \in 0 .. q
      /\ Larger(0, -qx) - Cover(L.acct[L.res[b].account], q) = Larger(0, -(qx + q))
      /\ Cover(L.acct[L.res[b].account], q) > 0 => -qx > 0 /\ Cover(L.acct[L.res[b].account], q) <= -qx
  <2> HIDE DEF qx
  <2> QED BY <1>1, <1>4, <1>7 DEF Smaller, Larger
<1>10. /\ Beyond(L.acct[L.res[s].account], q) = ShortFill(rs, q) /\ ShortFill(rs, q) \in 0 .. q
       /\ Larger(0, -qy) + Beyond(L.acct[L.res[s].account], q) = Larger(0, -(qy - q))
  <2>1. /\ long \in Nat /\ borrow \in Nat /\ left \in Nat /\ long + borrow = left /\ q <= left
        /\ qy \in Int /\ held \in Int /\ held <= Larger(0, qy) /\ long <= held
        /\ borrow > 0 => long = Larger(0, qy)
    BY <1>1, <1>3, <1>4, <1>6, <1>8
  <2>2. ShortFill(rs, q) = q - Smaller(q, long)
    BY <1>7
  <2> HIDE DEF qy, long, borrow, held, left, rs
  <2>3. Smaller(q, Larger(0, qy)) = Smaller(q, long)
    BY <1>1, <2>1 DEF Smaller, Larger
  <2>4. q - Smaller(q, long) \in 0 .. q
    BY <1>1, <2>1 DEF Smaller
  <2>5. Larger(0, -qy) + (q - Smaller(q, Larger(0, qy))) = Larger(0, -(qy - q))
    BY <1>1, <2>1 DEF Smaller, Larger
  <2> QED BY <1>7, <2>2, <2>3, <2>4, <2>5
<1>11. FreedMargin(L.acct[L.res[b].account], q) \in 0 .. mx
  <2>1. FreedMargin(L.acct[L.res[b].account], q) = IF Cover(L.acct[L.res[b].account], q) = 0 THEN 0 ELSE Basis(mx, Cover(L.acct[L.res[b].account], q), -qx)
    BY DEF FreedMargin
  <2> DEFINE c == Cover(L.acct[L.res[b].account], q)
             w == -qx
  <2>2. c \in Nat /\ mx \in Nat /\ (c # 0 => w \in Nat /\ w > 0 /\ c <= w)
    BY <1>4, <1>9
  <2> HIDE DEF c, w, mx
  <2>3. c # 0 => Basis(mx, c, w) \in 0 .. mx
    BY <2>2, BasisFacts
  <2>4. 0 \in 0 .. mx
    BY <2>2
  <2> QED BY <2>1, <2>3, <2>4 DEF c, w
<1>12. Margin(price, ShortFill(rs, q)) \in Nat
  BY <1>10, <1>1, MarginFacts
<1> QED BY <1>1, <1>2, <1>3, <1>4, <1>5, <1>6, <1>9, <1>10, <1>11, <1>12

\* What Settled does to the accounts, the pool and the two reservations.
LEMMA Settling ==
    ASSUME NEW L, NEW b, NEW s, NEW price, NEW q, Settles(L, b, s, price, q)
    PROVE  Pays(L, Settled(L, b, s, price, q), b, s, price, q)
<1> DEFINE rb == L.res[b]
           rs == L.res[s]
           x == rb.account
           y == rs.account
           M == Settled(L, b, s, price, q)
           buyer == L.acct[x]
           seller == L.acct[y]
           cents == Notional(price, q)
           fee == Fee(cents)
           nb == AfterBuy(rb, q)
           ns == AfterSale(rs, q)
           short == ShortFill(rs, q)
           cover == Cover(L.acct[L.res[b].account], q)
           freed == FreedMargin(L.acct[L.res[b].account], q)
           beyond == Beyond(L.acct[L.res[s].account], q)
           added == Margin(price, short)
           b1 == buyer.cash - cents - fee
           b2 == buyer.reserved - rb.cash + nb.cash
           b3 == buyer.quantity + q
           b4 == buyer.borrowed - cover
           b5 == buyer.margin - freed
           s1 == seller.cash + cents - fee
           s2 == seller.reserved - rs.margin + ns.margin
           s3 == seller.held - (rs.long - ns.long)
           s4 == seller.quantity - q
           s5 == seller.borrowed + beyond
           s6 == seller.margin + added
           p1 == L.pool.reserved - short
           p2 == L.pool.borrowed + short - cover
           f1 == L.fees + 2 * fee
           k1 == Kept(nb)
           k2 == Kept(ns)
           bought == [buyer EXCEPT !.cash = b1, !.reserved = b2, !.quantity = b3,
                                   !.borrowed = b4, !.margin = b5]
           sold == [seller EXCEPT !.cash = s1, !.reserved = s2, !.held = s3, !.quantity = s4,
                                  !.borrowed = s5, !.margin = s6]
           pool == [reserved |-> p1, borrowed |-> p2]
<1>1. M = [L EXCEPT !.acct = [L.acct EXCEPT ![x] = bought, ![y] = sold],
                    !.pool = pool, !.fees = f1,
                    !.res = [L.res EXCEPT ![b] = k1, ![s] = k2]]
  BY DEF Settled
<1>2. /\ L \in Ledgers /\ b \in OrderIds /\ s \in OrderIds /\ q \in Nat
      /\ Sound(rb) /\ Sound(rs) /\ rb.side = "BUY" /\ rs.side = "SELL"
      /\ q <= rb.left /\ q <= rs.left
  BY DEF Settles, Matched, Audited
<1>3. /\ b # s /\ x \in Accounts /\ y \in Accounts /\ x # y
      /\ cents \in Nat /\ fee \in Nat /\ cover \in Int /\ beyond \in Int /\ short \in Int
      /\ added \in Nat
  BY SettlesFacts
<1>3a. freed \in Int
  BY SettlesFacts
<1>4. /\ nb.cash \in Nat /\ nb \in Reservations /\ ns.long \in Int /\ ns.margin \in Nat
      /\ ns \in Reservations
  <2>1. nb \in Reservations /\ ns \in Reservations
    <3> HIDE DEF rb, rs
    <3> QED BY <1>2, AfterBuyFacts, AfterSaleFacts
  <2> HIDE DEF nb, ns
  <2> QED BY <2>1, ReservationTypes
<1>5. k1 \in Reservations \cup {NoReservation} /\ k2 \in Reservations \cup {NoReservation}
  BY <1>4 DEF Kept
<1>6. /\ buyer \in AccountRecords /\ seller \in AccountRecords
      /\ L.pool \in [reserved : Int, borrowed : Int]
      /\ rb.cash \in Int /\ rs.margin \in Int /\ rs.long \in Int
  BY <1>2, <1>3, LedgerTypes, ReservationTypes DEF Ledgers, Sound
<1>7. /\ b1 \in Int /\ b2 \in Int /\ b3 \in Int /\ b4 \in Int /\ b5 \in Int
      /\ s1 \in Int /\ s2 \in Int /\ s3 \in Int /\ s4 \in Int /\ s5 \in Int /\ s6 \in Int
      /\ p1 \in Int /\ p2 \in Int /\ f1 \in Nat
  BY <1>2, <1>3, LedgerTypes, <1>3a, <1>4, <1>6
<1> HIDE DEF b1, b2, b3, b4, b5, s1, s2, s3, s4, s5, s6, p1, p2, f1, k1, k2
<1>8. /\ bought \in AccountRecords /\ sold \in AccountRecords
      /\ pool \in [reserved : Int, borrowed : Int]
      /\ bought.cash = b1 /\ bought.reserved = b2 /\ bought.quantity = b3
      /\ bought.borrowed = b4 /\ bought.margin = b5 /\ bought.held = buyer.held
      /\ sold.cash = s1 /\ sold.reserved = s2 /\ sold.held = s3 /\ sold.quantity = s4
      /\ sold.borrowed = s5 /\ sold.margin = s6
      /\ pool.reserved = p1 /\ pool.borrowed = p2
  <2> HIDE DEF buyer, seller
  <2> QED BY <1>6, <1>7 DEF AccountRecords
<1> HIDE DEF bought, sold, pool, M, x, y
<1>9. /\ M \in Ledgers /\ M.acct = [L.acct EXCEPT ![x] = bought, ![y] = sold] /\ M.pool = pool
      /\ M.fees = f1 /\ M.res = [L.res EXCEPT ![b] = k1, ![s] = k2]
  BY ONLY <1>1, <1>2, <1>3, <1>5, <1>7, <1>8 DEF Ledgers
<1>10. /\ \A a \in Accounts : a # x /\ a # y => M.acct[a] = L.acct[a]
       /\ M.acct[x] = bought /\ M.acct[y] = sold
       /\ M.res[b] = k1 /\ M.res[s] = k2
       /\ \A o \in OrderIds : o # b /\ o # s => M.res[o] = L.res[o]
  BY ONLY <1>2, <1>3, <1>9 DEF Ledgers
<1>11. DifferAtTwo(L, M, b, s)
  BY <1>10 DEF DifferAtTwo
<1>12. /\ M \in Ledgers
       /\ \A a \in Accounts : a # x /\ a # y => M.acct[a] = L.acct[a]
       /\ M.acct[x].cash = b1 /\ M.acct[x].reserved = b2 /\ M.acct[x].quantity = b3
       /\ M.acct[x].held = buyer.held /\ M.acct[x].borrowed = b4 /\ M.acct[x].margin = b5
       /\ M.acct[y].cash = s1 /\ M.acct[y].reserved = s2 /\ M.acct[y].quantity = s4
       /\ M.acct[y].held = s3 /\ M.acct[y].borrowed = s5 /\ M.acct[y].margin = s6
       /\ M.pool.reserved = p1 /\ M.pool.borrowed = p2 /\ M.fees = f1
       /\ M.res[b] = k1 /\ M.res[s] = k2 /\ DifferAtTwo(L, M, b, s)
  BY ONLY <1>8, <1>9, <1>10, <1>11
<1> QED BY <1>12 DEF Pays, b1, b2, b3, b4, b5, s1, s2, s3, s4, s5, s6, p1, p2, f1, k1, k2, x, y, M

\* A sum of naturals is a natural.
LEMMA SumOfNats ==
    ASSUME NEW S, IsFiniteSet(S), NEW f, \A x \in S : f[x] \in Nat
    PROVE  SumOf(f, S) \in Nat
<1>1. SumOf(f, S) \in Int
  BY SumIsInt
<1>2. CASE S = {}
  BY <1>2, SumEmpty
<1>3. CASE S # {}
  BY <1>3, OneOfSum, <1>1
<1> QED BY <1>2, <1>3

\* A settlement keeps the audit: what the buyer pays the seller and the fees receive, and
\* what leaves the reservations leaves the reserved amounts.
LEMMA SettledAudited ==
    ASSUME NEW L, NEW M, NEW b, NEW s, NEW price, NEW q, Settles(L, b, s, price, q),
           Affordable(L, b, s, price, q), Pays(L, M, b, s, price, q)
    PROVE  Audited(M)
<1> DEFINE rb == L.res[b]
           rs == L.res[s]
           x == rb.account
           y == rs.account
           nb == AfterBuy(rb, q)
           ns == AfterSale(rs, q)
           cents == Notional(price, q)
           fee == Fee(cents)
           cover == Cover(L.acct[x], q)
           freed == FreedMargin(L.acct[x], q)
           beyond == Beyond(L.acct[y], q)
           short == ShortFill(rs, q)
           added == Margin(price, short)
           long == rs.long - ns.long
<1>1. /\ L \in Ledgers /\ Audited(L) /\ b \in OrderIds /\ s \in OrderIds
      /\ q \in Nat /\ q > 0 /\ Sound(rb) /\ Sound(rs) /\ rb.side = "BUY" /\ rs.side = "SELL"
      /\ q <= rb.left /\ q <= rs.left
      /\ rs.borrow > 0 => rs.long = Larger(0, L.acct[y].quantity)
  BY DEF Settles, Matched, Audited
<1>2. /\ b # s /\ b \in Live(L) /\ s \in Live(L) /\ x \in Accounts /\ y \in Accounts /\ x # y
      /\ cents \in Nat /\ fee \in Nat /\ cover \in 0 .. q
      /\ L.acct[x].borrowed - cover = Larger(0, -(L.acct[x].quantity + q))
      /\ freed \in 0 .. L.acct[x].margin
      /\ beyond = short /\ short \in 0 .. q
      /\ L.acct[y].borrowed + beyond = Larger(0, -(L.acct[y].quantity - q))
      /\ rs.long <= L.acct[y].held
      /\ added \in Nat
  BY SettlesFacts
<1>3. /\ M \in Ledgers
      /\ \A a \in Accounts : a # x /\ a # y => M.acct[a] = L.acct[a]
      /\ M.acct[x].cash = L.acct[x].cash - cents - fee
      /\ M.acct[x].reserved = L.acct[x].reserved - rb.cash + nb.cash
      /\ M.acct[x].quantity = L.acct[x].quantity + q
      /\ M.acct[x].held = L.acct[x].held
      /\ M.acct[x].borrowed = L.acct[x].borrowed - cover
      /\ M.acct[x].margin = L.acct[x].margin - freed
      /\ M.acct[y].cash = L.acct[y].cash + cents - fee
      /\ M.acct[y].reserved = L.acct[y].reserved - rs.margin + ns.margin
      /\ M.acct[y].quantity = L.acct[y].quantity - q
      /\ M.acct[y].held = L.acct[y].held - long
      /\ M.acct[y].borrowed = L.acct[y].borrowed + beyond
      /\ M.acct[y].margin = L.acct[y].margin + added
      /\ M.pool.reserved = L.pool.reserved - short
      /\ M.pool.borrowed = L.pool.borrowed + short - cover
      /\ M.fees = L.fees + 2 * fee
      /\ M.res[b] = Kept(nb) /\ M.res[s] = Kept(ns)
      /\ DifferAtTwo(L, M, b, s)
  BY DEF Pays
<1>4. /\ nb.account = x /\ nb.side = "BUY" /\ nb.left = rb.left - q /\ nb.long = 0 /\ nb.borrow = 0
      /\ nb.margin = 0 /\ nb.cash \in Nat /\ nb \in Reservations
      /\ nb.left > 0 => Sound(nb)
      /\ nb.left = 0 => nb.cash = 0
  <2> HIDE DEF rb
  <2> QED BY <1>1, AfterBuyFacts DEF x
<1>5. /\ ns.account = y /\ ns.side = "SELL" /\ ns.left = rs.left - q
      /\ ns.long = rs.long - Smaller(q, rs.long) /\ ns.borrow = rs.borrow - short
      /\ ns.cash = 0 /\ ns.margin \in Nat /\ ns \in Reservations
      /\ ns.left > 0 => Sound(ns)
      /\ ns.left = 0 => ns.long = 0 /\ ns.borrow = 0 /\ ns.margin = 0
  <2> HIDE DEF rs
  <2> QED BY <1>1, AfterSaleFacts DEF y, short
<1>6. /\ rb.left \in Nat /\ rb.cash \in Nat /\ rb.long = 0 /\ rb.borrow = 0 /\ rb.margin = 0
      /\ rs.left \in Nat /\ rs.cash = 0 /\ rs.long \in Nat /\ rs.borrow \in Nat /\ rs.margin \in Nat
      /\ rs.long + rs.borrow = rs.left
      /\ ns.long \in Nat /\ ns.borrow \in Nat /\ nb.left \in Nat /\ ns.left \in Nat
      /\ nb # NoReservation /\ ns # NoReservation
  <2> HIDE DEF rb, rs, nb, ns
  <2> QED BY <1>1, <1>4, <1>5, ReservationTypes DEF Sound
<1>7. \A a \in Accounts :
        /\ L.acct[a].cash \in Int /\ L.acct[a].reserved \in Int /\ L.acct[a].quantity \in Int
        /\ L.acct[a].held \in Int /\ L.acct[a].borrowed \in Int /\ L.acct[a].margin \in Int
  BY <1>1, LedgerTypes
<1>8. /\ L.pool.reserved \in Int /\ L.pool.borrowed \in Int /\ L.fees \in Nat /\ PoolTotal \in Nat
  BY <1>1, LedgerTypes, LedgerAssumption
<1>9. IsFiniteSet(Accounts) /\ IsFiniteSet(OrderIds)
  BY LedgerAssumption
<1>10. \A a \in Accounts :
        /\ M.acct[a].cash \in Int /\ M.acct[a].reserved \in Int /\ M.acct[a].quantity \in Int
        /\ M.acct[a].held \in Int /\ M.acct[a].borrowed \in Int /\ M.acct[a].margin \in Int
  BY <1>3, LedgerTypes
<1> HIDE DEF rb, rs, x, y, nb, ns, cents, fee, cover, freed, beyond, short, added
<1>11. /\ SumOf(CashOf(M), Accounts) + M.fees = SumOf(Cash0, Accounts)
       /\ SumOf(QuantityOf(M), Accounts) = SumOf(Long0, Accounts)
       /\ M.pool.borrowed = SumOf(BorrowedOf(M), Accounts)
  <2>1. /\ DifferAt(CashOf(L), CashOf(M), Accounts, x, y)
        /\ DifferAt(QuantityOf(L), QuantityOf(M), Accounts, x, y)
        /\ DifferAt(BorrowedOf(L), BorrowedOf(M), Accounts, x, y)
    BY <1>2, <1>3, <1>7, <1>10 DEF DifferAt, CashOf, QuantityOf, BorrowedOf
  <2>2. /\ SumOf(CashOf(M), Accounts) = SumOf(CashOf(L), Accounts)
             + (CashOf(M)[x] - CashOf(L)[x]) + (CashOf(M)[y] - CashOf(L)[y])
        /\ SumOf(QuantityOf(M), Accounts) = SumOf(QuantityOf(L), Accounts)
             + (QuantityOf(M)[x] - QuantityOf(L)[x]) + (QuantityOf(M)[y] - QuantityOf(L)[y])
        /\ SumOf(BorrowedOf(M), Accounts) = SumOf(BorrowedOf(L), Accounts)
             + (BorrowedOf(M)[x] - BorrowedOf(L)[x]) + (BorrowedOf(M)[y] - BorrowedOf(L)[y])
    BY <1>9, <2>1, SumChangeTwo
  <2>3. /\ CashOf(M)[x] - CashOf(L)[x] = - cents - fee
        /\ CashOf(M)[y] - CashOf(L)[y] = cents - fee
        /\ QuantityOf(M)[x] - QuantityOf(L)[x] = q /\ QuantityOf(M)[y] - QuantityOf(L)[y] = -q
        /\ BorrowedOf(M)[x] - BorrowedOf(L)[x] = -cover
        /\ BorrowedOf(M)[y] - BorrowedOf(L)[y] = short
    BY <1>1, <1>2, <1>3, <1>7 DEF CashOf, QuantityOf, BorrowedOf
  <2>4. /\ SumOf(CashOf(L), Accounts) + L.fees = SumOf(Cash0, Accounts)
        /\ SumOf(QuantityOf(L), Accounts) = SumOf(Long0, Accounts)
        /\ L.pool.borrowed = SumOf(BorrowedOf(L), Accounts)
    BY <1>1 DEF Audited
  <2>5. \A a \in Accounts : CashOf(L)[a] \in Int /\ QuantityOf(L)[a] \in Int
    BY <1>7 DEF CashOf, QuantityOf
  <2>6. SumOf(CashOf(L), Accounts) \in Int /\ SumOf(QuantityOf(L), Accounts) \in Int
    BY <1>9, <2>5, SumIsInt
  <2>7. SumOf(CashOf(M), Accounts) + M.fees = SumOf(Cash0, Accounts)
    BY <2>2, <2>3, <1>2, <1>3, <1>8, <2>4, <2>6
  <2>8. SumOf(QuantityOf(M), Accounts) = SumOf(Long0, Accounts)
    BY <2>2, <2>3, <1>1, <2>4, <2>6
  <2>9. M.pool.borrowed = SumOf(BorrowedOf(M), Accounts)
    BY <2>2, <2>3, <1>2, <1>3, <1>8, <2>4
  <2> QED BY <2>7, <2>8, <2>9
<1>12. /\ \A a \in Accounts :
            /\ OwnCash(L, a)[b] = IF a = x THEN rb.cash ELSE 0
            /\ OwnCash(L, a)[s] = IF a = y THEN rs.margin ELSE 0
            /\ OwnLong(L, a)[b] = 0
            /\ OwnLong(L, a)[s] = IF a = y THEN rs.long ELSE 0
       /\ OpenBorrow(L)[b] = 0 /\ OpenBorrow(L)[s] = rs.borrow
  BY <1>6, <1>1, <1>2 DEF rb, x, rs, y, OwnCash, OwnLong, OpenBorrow
<1>13. /\ \A a \in Accounts :
            /\ OwnCash(M, a)[b] = IF a = x THEN nb.cash ELSE 0
            /\ OwnLong(M, a)[b] = 0
       /\ OpenBorrow(M)[b] = 0
  <2>1. CASE nb.left = 0
    BY <1>3, <1>4, <2>1, <1>1 DEF Live, Kept, OwnCash, OwnLong, OpenBorrow
  <2>2. CASE nb.left # 0
    BY <1>1, <1>3, <1>6, <2>2, <1>4 DEF Live, Kept, OwnCash, OwnLong, OpenBorrow
  <2> QED BY <2>1, <2>2
<1>14. /\ \A a \in Accounts :
            /\ OwnCash(M, a)[s] = IF a = y THEN ns.margin ELSE 0
            /\ OwnLong(M, a)[s] = IF a = y THEN ns.long ELSE 0
       /\ OpenBorrow(M)[s] = ns.borrow
  <2>1. CASE ns.left = 0
    BY <1>3, <1>5, <2>1, <1>1 DEF Live, Kept, OwnCash, OwnLong, OpenBorrow
  <2>2. CASE ns.left # 0
    BY <1>1, <1>3, <1>6, <2>2, <1>5 DEF Live, Kept, OwnCash, OwnLong, OpenBorrow
  <2> QED BY <2>1, <2>2
<1>15. /\ \A a \in Accounts :
            /\ SumOf(OwnCash(M, a), OrderIds)
                 = SumOf(OwnCash(L, a), OrderIds) + (OwnCash(M, a)[b] - OwnCash(L, a)[b])
                                                  + (OwnCash(M, a)[s] - OwnCash(L, a)[s])
            /\ SumOf(OwnLong(M, a), OrderIds)
                 = SumOf(OwnLong(L, a), OrderIds) + (OwnLong(M, a)[b] - OwnLong(L, a)[b])
                                                  + (OwnLong(M, a)[s] - OwnLong(L, a)[s])
       /\ SumOf(OpenBorrow(M), OrderIds)
            = SumOf(OpenBorrow(L), OrderIds) + (OpenBorrow(M)[b] - OpenBorrow(L)[b])
                                             + (OpenBorrow(M)[s] - OpenBorrow(L)[s])
  BY <1>1, <1>2, <1>3, TwoResChange
<1>16. \A a \in Accounts :
          /\ L.acct[a].cash >= 0 /\ Available(L, a) >= 0
          /\ L.acct[a].borrowed = Larger(0, -L.acct[a].quantity)
          /\ L.acct[a].reserved = SumOf(OwnCash(L, a), OrderIds)
          /\ L.acct[a].held = SumOf(OwnLong(L, a), OrderIds)
          /\ L.acct[a].held <= Larger(0, L.acct[a].quantity)
          /\ L.acct[a].margin >= 0
  BY <1>1 DEF Audited
<1>17. \A a \in Accounts : SumOf(OwnCash(M, a), OrderIds) \in Nat
  <2> TAKE a \in Accounts
  <2> DEFINE f == OwnCash(M, a)
  <2>1. \A o \in OrderIds : f[o] \in Nat
    BY <1>3, OwnTypes
  <2> HIDE DEF f
  <2>2. SumOf(f, OrderIds) \in Nat
    BY <1>9, <2>1, SumOfNats
  <2> QED BY <2>2 DEF f
<1>18. /\ Available(M, x) = Available(L, x) - cents - fee + rb.cash - nb.cash + freed
       /\ Available(M, y) = Available(L, y) + cents - fee + rs.margin - ns.margin - added
       /\ Available(M, x) \in Int /\ Available(M, y) \in Int
       /\ Available(L, x) \in Int /\ Available(L, y) \in Int
  BY <1>2, <1>3, <1>4, <1>5, <1>6, <1>7 DEF Available
<1>19. /\ Available(L, x) - cents - fee + rb.cash - nb.cash >= 0
       /\ Available(L, y) + cents - fee + rs.margin - ns.margin - added >= 0
  BY DEF Affordable, rb, rs, x, y, nb, ns, cents, fee, short, added
<1>20. Available(M, x) >= 0 /\ Available(M, y) >= 0
  BY <1>2, <1>4, <1>6, <1>7, <1>18, <1>19
<1>21. /\ M.acct[x].cash >= 0
       /\ M.acct[x].borrowed = Larger(0, -M.acct[x].quantity)
       /\ M.acct[x].reserved = SumOf(OwnCash(M, x), OrderIds)
       /\ M.acct[x].held = SumOf(OwnLong(M, x), OrderIds)
       /\ M.acct[x].held <= Larger(0, M.acct[x].quantity)
       /\ M.acct[x].margin >= 0
  <2>1. M.acct[x].reserved = SumOf(OwnCash(M, x), OrderIds)
    BY <1>2, <1>12, <1>13, <1>14, <1>15, <1>3, <1>4, <1>6, <1>7, <1>16
  <2>2. M.acct[x].held = SumOf(OwnLong(M, x), OrderIds)
    BY <1>2, <1>12, <1>13, <1>14, <1>15, <1>3, <1>7, <1>16
  <2>3. M.acct[x].held <= Larger(0, M.acct[x].quantity)
    BY <1>1, <1>2, <1>3, <1>7, <1>16 DEF Larger
  <2>4. M.acct[x].margin >= 0
    BY <1>2, <1>3, <1>7
  <2>5. M.acct[x].cash >= 0
    BY <1>2, <1>10, <1>17, <1>20, <2>1, <2>4 DEF Available
  <2> QED BY <1>2, <1>3, <2>1, <2>2, <2>3, <2>4, <2>5
<1>22. /\ M.acct[y].cash >= 0
       /\ M.acct[y].borrowed = Larger(0, -M.acct[y].quantity)
       /\ M.acct[y].reserved = SumOf(OwnCash(M, y), OrderIds)
       /\ M.acct[y].held = SumOf(OwnLong(M, y), OrderIds)
       /\ M.acct[y].held <= Larger(0, M.acct[y].quantity)
       /\ M.acct[y].margin >= 0
  <2>1. M.acct[y].reserved = SumOf(OwnCash(M, y), OrderIds)
    BY <1>2, <1>12, <1>13, <1>14, <1>15, <1>3, <1>5, <1>6, <1>7, <1>16
  <2>2. M.acct[y].held = SumOf(OwnLong(M, y), OrderIds)
    BY <1>2, <1>12, <1>13, <1>14, <1>15, <1>3, <1>6, <1>7, <1>16
  <2>3. M.acct[y].held <= Larger(0, M.acct[y].quantity)
    <3> DEFINE held == L.acct[y].held
               qy == L.acct[y].quantity
               rl == rs.long
               borrow == rs.borrow
    <3>1. /\ M.acct[y].held = held - Smaller(q, rl) /\ M.acct[y].quantity = qy - q
          /\ held \in Int /\ qy \in Int /\ rl \in Nat /\ borrow \in Nat /\ q <= rl + borrow
          /\ held <= Larger(0, qy) /\ rl <= held
          /\ borrow > 0 => rl = Larger(0, qy)
      BY <1>1, <1>5, <1>6, <1>2, <1>3, <1>7, <1>16 DEF Smaller
    <3> HIDE DEF held, qy, rl, borrow
    <3> QED BY <1>1, <3>1 DEF Smaller, Larger
  <2>4. M.acct[y].margin >= 0
    BY <1>2, <1>3, <1>7, <1>16
  <2>5. M.acct[y].cash >= 0
    BY <1>2, <1>10, <1>17, <1>20, <2>1, <2>4 DEF Available
  <2> QED BY <1>2, <1>3, <2>1, <2>2, <2>3, <2>4, <2>5
<1>23. ASSUME NEW a \in Accounts, a # x, a # y
       PROVE  /\ M.acct[a].cash >= 0 /\ Available(M, a) >= 0
              /\ M.acct[a].borrowed = Larger(0, -M.acct[a].quantity)
              /\ M.acct[a].reserved = SumOf(OwnCash(M, a), OrderIds)
              /\ M.acct[a].held = SumOf(OwnLong(M, a), OrderIds)
              /\ M.acct[a].held <= Larger(0, M.acct[a].quantity)
              /\ M.acct[a].margin >= 0
  BY <1>12, <1>13, <1>14, <1>15, <1>23, <1>7, <1>16, <1>3 DEF Available
<1>24. /\ M.pool.reserved >= 0 /\ M.pool.borrowed >= 0
       /\ M.pool.reserved + M.pool.borrowed <= PoolTotal
       /\ M.pool.reserved = SumOf(OpenBorrow(M), OrderIds)
  <2>1. /\ L.pool.reserved >= 0 /\ L.pool.borrowed >= 0
        /\ L.pool.reserved + L.pool.borrowed <= PoolTotal
        /\ L.pool.reserved = SumOf(OpenBorrow(L), OrderIds)
    BY <1>1 DEF Audited
  <2>2. SumOf(OpenBorrow(M), OrderIds) = SumOf(OpenBorrow(L), OrderIds) + (0 - 0) + (ns.borrow - rs.borrow)
    BY <1>12, <1>13, <1>14, <1>15
  <2>3. M.pool.reserved = SumOf(OpenBorrow(M), OrderIds)
    BY <1>2, <1>3, <1>5, <1>6, <1>8, <2>1, <2>2
  <2>4. M.pool.reserved >= 0
    BY <1>3, OwnTypes, <1>9, SumOfNats, <2>3
  <2>5. M.pool.borrowed >= 0
    BY <1>21, <1>22, <1>23, <1>10, <1>9, SumOfNats, <1>11 DEF BorrowedOf, Larger
  <2>6. M.pool.reserved + M.pool.borrowed <= PoolTotal
    BY <1>2, <1>3, <1>8, <2>1
  <2> QED BY <2>3, <2>4, <2>5, <2>6
<1>25. ASSUME NEW o \in Live(M)
       PROVE  /\ M.res[o].left > 0
              /\ M.res[o].side = "SELL" => M.res[o].long + M.res[o].borrow = M.res[o].left
  <2>1. o \in OrderIds /\ M.res[o] # NoReservation
    BY DEF Live
  <2>2. CASE o = b
    BY <1>3, <2>1, <2>2, <1>4, <1>6 DEF Kept
  <2>3. CASE o = s
    BY <1>3, <2>1, <2>3, <1>5, <1>6 DEF Kept, Sound
  <2>4. CASE o # b /\ o # s
    BY <1>3, <2>1, <2>4, <1>1 DEF DifferAtTwo, Live, Audited
  <2> QED BY <2>2, <2>3, <2>4
<1> QED BY <1>20, <1>21, <1>22, <1>23, <1>3, <1>11, <1>24, <1>25 DEF Audited

-----------------------------------------------------------------------------
(* The invariant. *)

Latest == Len(orders)

\* The book: what rests has something left and is nobody's immediate order; while an
\* order is matched it is the last one; the system flow never rests.
BookStands ==
    /\ open \subseteq 1 .. Latest
    /\ \A o \in open : orders[o].left > 0 /\ orders[o].tif = "GTC"
    /\ \A o \in 1 .. Latest : orders[o].agent = System => orders[o].tif = "IOC"
    /\ incoming = IF phase = "match" THEN Latest ELSE None
    /\ phase \in {"match", "settle"} => Latest > 0
    /\ phase = "match" => Latest \notin open

\* The handler: it settles after it has matched, ends with the first error, and quotes
\* for one maker at a time.
HandlerStands ==
    /\ phase # "settle" => settled = 0
    /\ phase = "match" => failure = "none"
    /\ phase = "quote" => maker.agent \in Makers
    /\ phase = "match" /\ orders[Latest].agent \in Makers => orders[Latest].agent = maker.agent
    /\ phase = "settle" => orders[Latest].agent \notin Makers
    /\ failure \in {"none", "refused", "off the tick grid"}

\* The order in work: a quote meets nothing; any other order meets no order of its own
\* agent; what a settled GTC order has left rests.
IncomingStands ==
    /\ phase = "match" /\ orders[Latest].agent \in Makers =>
        Matches = {} /\ trades = <<>> /\ orders[Latest].tif = "GTC"
    /\ phase = "match" /\ orders[Latest].agent \notin Makers =>
        \A o \in open : orders[o].agent # orders[Latest].agent
    /\ phase = "settle" /\ orders[Latest].tif = "GTC" /\ orders[Latest].left > 0 => Latest \in open

\* The trades of the report are those of the last order with earlier ones of the other
\* side and of other agents, at their price.
TradesStand ==
    phase \in {"match", "settle"} =>
        \A i \in 1 .. Len(trades) :
            LET m == orders[trades[i].maker]
            IN  /\ trades[i].taker = Latest /\ trades[i].maker \in 1 .. Latest - 1
                /\ m.side # orders[Latest].side /\ m.agent # orders[Latest].agent
                /\ trades[i].price = m.price /\ Crosses(orders[Latest], m.price)

\* The reservations: only a trader or the system borrows, and only what its position
\* lacks; each of them has one order at a time.
ReservationsStand(L) ==
    /\ \A o \in Live(L) :
        /\ Sound(L.res[o])
        /\ L.res[o].borrow > 0 =>
            /\ L.res[o].account \notin Makers
            /\ L.res[o].long = Larger(0, L.acct[L.res[o].account].quantity)
    /\ \A o, p \in Live(L) :
        L.res[o].account = L.res[p].account /\ L.res[o].account \notin Makers => o = p

WithinLimit(a, q) == -MaxAbsolutePosition[a] <= q /\ q <= MaxAbsolutePosition[a]

\* A trader's position has room for the order it has.
HasRoom(L, r) ==
    LET q == L.acct[r.account].quantity
    IN  r.account \in Traders =>
            /\ r.side = "BUY" => q + r.left <= MaxAbsolutePosition[r.account]
            /\ r.side = "SELL" => -MaxAbsolutePosition[r.account] <= q - r.left
PositionsStand(L) ==
    /\ \A a \in Traders : WithinLimit(a, L.acct[a].quantity)
    /\ \A o \in Live(L) : HasRoom(L, L.res[o])

LedgerStands(L) == Audited(L) /\ ReservationsStand(L) /\ PositionsStand(L)

\* What an order can still fill: in the book, and in the trades to settle.
Held(o) ==
    IF o \notin 1 .. Latest THEN 0
    ELSE IF o \in open \/ o = incoming \/ (phase = "settle" /\ o = Latest)
         THEN orders[o].left + Unsettled(o) ELSE Unsettled(o)

\* A reservation is for the order and for what it can still fill.
HoldsFor(r, o, held) ==
    /\ (r # NoReservation) <=> (held > 0)
    /\ held > 0 => /\ r.left = held /\ r.account = orders[o].agent
                   /\ r.side = orders[o].side /\ r.limit = orders[o].price

Agreed == \A o \in Ids : HoldsFor(ledger.res[o], o, Held(o))

KernelInv ==
    /\ TypeOK
    /\ BookStands /\ HandlerStands /\ IncomingStands /\ TradesStand
    /\ LedgerStands(ledger)
    /\ failure = "none" => Agreed

LEMMA AgreedAgrees == (failure = "none" => Agreed) <=> BookAndLedgerAgree
BY DEF BookAndLedgerAgree, Held, Latest, Agreed, HoldsFor

-----------------------------------------------------------------------------
(* The quantity of an order in the trades that are not settled. *)

\* What trade i of the report fills of the order.
FillOf(t, o) ==
    [i \in 1 .. Len(t) |-> IF o \in {t[i].maker, t[i].taker} THEN t[i].quantity ELSE 0]
\* What the trades after the first k fill of it.
Fills(t, o, k) == SumOf(FillOf(t, o), k + 1 .. Len(t))

LEMMA FillTypes ==
    ASSUME NEW t \in Seq(Trades), NEW o
    PROVE  /\ Len(t) \in Nat
           /\ \A k \in Nat : IsFiniteSet(k + 1 .. Len(t))
           /\ \A i \in 1 .. Len(t) : t[i] \in Trades /\ FillOf(t, o)[i] \in Nat
           /\ \A k \in Nat : Fills(t, o, k) \in Nat
           /\ Fills(t, o, Len(t)) = 0
<1>1. Len(t) \in Nat /\ \A i \in 1 .. Len(t) : t[i] \in Trades
  OBVIOUS
<1>2. \A i \in 1 .. Len(t) : FillOf(t, o)[i] \in Nat
  BY <1>1 DEF FillOf, Trades
<1>3. \A k \in Nat : IsFiniteSet(k + 1 .. Len(t))
  <2> TAKE k \in Nat
  <2> DEFINE y == k + 1
             z == Len(t)
  <2>1. y \in Int /\ z \in Int
    BY <1>1
  <2> HIDE DEF y, z
  <2> QED BY <2>1, FS_Interval DEF y, z
<1>4. \A k \in Nat : Fills(t, o, k) \in Nat
  <2> TAKE k \in Nat
  <2> DEFINE S == k + 1 .. Len(t)
             f == FillOf(t, o)
  <2>1. IsFiniteSet(S) /\ \A x \in S : f[x] \in Nat
    BY <1>1, <1>2, <1>3
  <2> HIDE DEF S, f
  <2>2. SumOf(f, S) \in Nat
    BY <2>1, SumOfNats
  <2> QED BY <2>2 DEF Fills, S, f
<1>5. Len(t) + 1 .. Len(t) = {}
  BY <1>1
<1> QED BY <1>1, <1>2, <1>3, <1>4, <1>5, SumEmpty DEF Fills

\* The next trade is settled: its fill is taken off.
LEMMA FillsNext ==
    ASSUME NEW t \in Seq(Trades), NEW o, NEW k \in Nat, k < Len(t)
    PROVE  Fills(t, o, k) = FillOf(t, o)[k + 1] + Fills(t, o, k + 1)
<1> DEFINE S == k + 1 .. Len(t)
           R == k + 1 + 1 .. Len(t)
           f == FillOf(t, o)
           c == k + 1
<1>1. Len(t) \in Nat /\ IsFiniteSet(S) /\ \A x \in 1 .. Len(t) : f[x] \in Nat
  BY FillTypes
<1>2. S \ {c} = R /\ c \in S /\ \A x \in S : f[x] \in Int
  BY <1>1
<1> HIDE DEF S, R, f, c
<1>3. SumOf(f, S) = f[c] + SumOf(f, S \ {c})
  BY <1>1, <1>2, SumTakeOff
<1> QED BY <1>2, <1>3 DEF Fills, S, R, f, c

\* A new trade is appended: its fill is added.
LEMMA FillsAppend ==
    ASSUME NEW t \in Seq(Trades), NEW x \in Trades, NEW o
    PROVE  Fills(Append(t, x), o, 0) =
             Fills(t, o, 0) + (IF o \in {x.maker, x.taker} THEN x.quantity ELSE 0)
<1> DEFINE u == Append(t, x)
           n == Len(t)
           S == 1 .. n
           R == 1 .. n + 1
           f == FillOf(t, o)
           h == FillOf(u, o)
           c == n + 1
<1>1. /\ n \in Nat /\ u \in Seq(Trades) /\ Len(u) = n + 1 /\ u[c] = x
      /\ \A i \in S : u[i] = t[i]
  OBVIOUS
<1>2. /\ \A i \in S : f[i] = h[i]
      /\ h[c] = IF o \in {x.maker, x.taker} THEN x.quantity ELSE 0
  BY <1>1 DEF FillOf
<1>3. /\ \A i \in R : h[i] \in Nat
      /\ IsFiniteSet(S)
  <2>1. \A i \in 1 .. Len(u) : h[i] \in Nat
    BY <1>1, FillTypes
  <2>2. IsFiniteSet(0 + 1 .. Len(t))
    BY FillTypes
  <2> QED BY <1>1, <2>1, <2>2
<1>4. c \notin S /\ S \cup {c} = R /\ \A i \in S \cup {c} : h[i] \in Int
  BY <1>1, <1>3
<1>5. Fills(t, o, 0) = SumOf(f, S) /\ Fills(u, o, 0) = SumOf(h, R)
  BY <1>1 DEF Fills
<1> HIDE DEF u, n, S, R, f, h, c
<1>6. SumOf(h, S \cup {c}) = SumOf(h, S) + h[c]
  BY <1>3, <1>4, SumAdd
<1>7. SumOf(f, S) = SumOf(h, S)
  BY <1>2, <1>3, SumCongruence
<1> QED BY <1>2, <1>4, <1>5, <1>6, <1>7 DEF u

\* Unsettled, as a sum of fills.
LEMMA UnsettledIsFills ==
    ASSUME TypeOK, NEW o
    PROVE  Unsettled(o) = IF phase = "match" THEN Fills(trades, o, 0)
                          ELSE IF phase = "settle" THEN Fills(trades, o, settled) ELSE 0
<1> DEFINE k == IF phase = "match" THEN 0 ELSE settled
           S == k + 1 .. Len(trades)
           P == {i \in S : phase \in {"match", "settle"} /\ o \in {trades[i].maker, trades[i].taker}}
           f == [i \in DOMAIN trades |-> trades[i].quantity]
           h == FillOf(trades, o)
<1>1. trades \in Seq(Trades) /\ k \in Nat /\ Len(trades) \in Nat
  <2>1. trades \in Seq(Trades) /\ settled \in 0 .. Len(trades)
    BY DEF TypeOK
  <2> QED BY <2>1
<1>2. Unsettled(o) = SumOver(f, P)
  BY DEF Unsettled
<1>3. CASE phase \in {"match", "settle"}
  <2>1. IsFiniteSet(S) /\ P \in SUBSET S
    BY <1>1, FillTypes
  <2>2. /\ \A i \in P : f[i] \in Int
        /\ \A i \in S : h[i] = IF i \in P THEN f[i] ELSE 0
    <3>1. \A i \in 1 .. Len(trades) : trades[i] \in Trades
      BY <1>1, FillTypes
    <3> QED BY <1>1, <1>3, <3>1 DEF FillOf, Trades
  <2> HIDE DEF S, P, f, h, k
  <2>3. SumOver(f, P) = SumOf(h, S)
    BY <2>1, <2>2, SumOverPart
  <2> QED BY <1>2, <1>3, <2>3 DEF Fills, S, h, k
<1>4. CASE phase \notin {"match", "settle"}
  <2>1. P = {}
    BY <1>4
  <2>2. Unsettled(o) = SumOf(f, {})
    BY <1>2, <2>1 DEF SumOver, SumOf
  <2> QED BY <1>4, <2>2, SumEmpty
<1> QED BY <1>3, <1>4

-----------------------------------------------------------------------------
(* A ledger between events. *)

LEMMA Constants ==
    /\ Accounts = Agents /\ OrderIds = Ids /\ Agents = Traders \cup Makers \cup {System}
    /\ System \notin Traders /\ System \notin Makers /\ Traders \cap Makers = {}
    /\ MaxPrice \in Nat /\ MaxQuantity \in Nat /\ MaxOrders \in Nat
    /\ \A a \in Accounts : MaxAbsolutePosition[a] \in Nat
  BY KernelAssumption, BookAssumption, LedgerAssumption

\* Nothing is in work: the reservations are those of the orders in the book.
Ready(L, opened) ==
    /\ LedgerStands(L)
    /\ opened \subseteq 1 .. Latest
    /\ \A o \in Ids : HoldsFor(L.res[o], o, IF o \in opened THEN orders[o].left ELSE 0)

LEMMA OrderTypes ==
    ASSUME TypeOK
    PROVE  /\ Latest \in Nat /\ Latest <= MaxOrders
           /\ \A o \in 1 .. Latest :
                /\ o \in Ids /\ orders[o] \in Orders /\ orders[o].agent \in Accounts
                /\ orders[o].left \in 0 .. MaxQuantity /\ orders[o].left \in Nat
                /\ orders[o].side \in {"BUY", "SELL"} /\ orders[o].price \in Prices
                /\ orders[o].tif \in {"GTC", "IOC"}
<1>1. orders \in Seq(Orders) /\ Len(orders) <= MaxOrders
  BY DEF TypeOK
<1>2. Len(orders) \in Nat /\ \A o \in 1 .. Len(orders) : orders[o] \in Orders
  BY <1>1
<1>3. \A o \in 1 .. Len(orders) : o \in Ids
  BY <1>1, <1>2, Constants DEF Ids
<1> QED BY <1>1, <1>2, <1>3, Constants DEF Orders, Sides, Latest

LEMMA IdleIsReady ==
    ASSUME KernelInv, phase \in {"idle", "quote"}, failure = "none"
    PROVE  Ready(ledger, open)
<1>1. TypeOK /\ LedgerStands(ledger) /\ open \subseteq 1 .. Latest /\ Agreed /\ incoming = None
  BY DEF KernelInv, BookStands
<1>2. ASSUME NEW o \in Ids
      PROVE  Held(o) = IF o \in open THEN orders[o].left ELSE 0
  BY <1>1, UnsettledIsFills, OrderTypes DEF Ids, None, Held
<1> QED BY <1>1, <1>2 DEF Ready, Agreed

\* The orders an agent has in the book are withdrawn and released.

\* Giving reservations up disturbs nothing else.
LEMMA FreedStands ==
    ASSUME NEW L, LedgerStands(L), NEW M, Audited(M), NEW T, Frees(L, M, T)
    PROVE  LedgerStands(M)
<1>1. /\ \A o \in OrderIds : M.res[o] = IF o \in T THEN NoReservation ELSE L.res[o]
      /\ \A x \in Accounts : M.acct[x].quantity = L.acct[x].quantity
  BY DEF Frees
<1>2. L \in Ledgers /\ ReservationsStand(L) /\ PositionsStand(L)
  BY DEF LedgerStands, Audited
<1>3. \A o \in Live(M) : o \in Live(L) /\ M.res[o] = L.res[o] /\ L.res[o].account \in Accounts
  BY <1>1, <1>2, LedgerTypes, ReservationTypes DEF Live
<1>4. ReservationsStand(M)
  BY <1>1, <1>2, <1>3 DEF ReservationsStand
<1>5. PositionsStand(M)
  BY Constants, <1>1, <1>2, <1>3 DEF PositionsStand, HasRoom
<1> QED BY <1>4, <1>5 DEF LedgerStands

LEMMA WithdrawnIsReady ==
    ASSUME KernelInv, Ready(ledger, open), NEW a \in Agents
    PROVE  /\ Ready(ReleasedAll(ledger, OwnOrders(a)), open \ OwnOrders(a))
           /\ \A o \in Live(ReleasedAll(ledger, OwnOrders(a))) :
                ReleasedAll(ledger, OwnOrders(a)).res[o].account # a
<1> DEFINE L == ledger
           S == OwnOrders(a)
           M == ReleasedAll(L, S)
<1>1. /\ LedgerStands(L) /\ open \subseteq 1 .. Latest
      /\ \A o \in Ids : HoldsFor(L.res[o], o, IF o \in open THEN orders[o].left ELSE 0)
  BY DEF Ready
<1>2. TypeOK /\ \A o \in open : orders[o].left > 0
  BY DEF KernelInv, BookStands
<1>3. \A o \in open : o \in Ids /\ o \in OrderIds /\ orders[o].left \in Nat
  BY <1>1, <1>2, OrderTypes, Constants
<1>4. S \in SUBSET Live(L)
  BY <1>1, <1>2, <1>3 DEF OwnOrders, HoldsFor, Live
<1>5. Audited(L) /\ L \in Ledgers
  BY <1>1 DEF LedgerStands, Audited
<1> HIDE DEF L, M, S
<1>6. Audited(M) /\ Frees(L, M, S)
  BY <1>4, <1>5, ReleasedAllFrees DEF M
<1>7. /\ \A o \in OrderIds : M.res[o] = IF o \in S THEN NoReservation ELSE L.res[o]
      /\ \A x \in Accounts : M.acct[x].quantity = L.acct[x].quantity
  BY <1>6 DEF Frees
<1>8. \A o \in Live(M) : o \in Live(L) /\ o \notin S /\ M.res[o] = L.res[o] /\ o \in OrderIds
                          /\ L.res[o].account \in Accounts
  BY <1>5, <1>7, LedgerTypes, ReservationTypes DEF Live
<1>9. LedgerStands(M)
  BY <1>1, <1>6, FreedStands
<1>10. \A o \in Ids : HoldsFor(M.res[o], o, IF o \in open \ S THEN orders[o].left ELSE 0)
  <2> TAKE o \in Ids
  <2>1. CASE o \in S
    BY <1>7, <2>1, Constants DEF HoldsFor
  <2>2. CASE o \notin S
    BY <1>7, <2>2, Constants, <1>1
  <2> QED BY <2>1, <2>2
<1>11. ASSUME NEW o \in Live(M) PROVE M.res[o].account # a
  BY <1>8, Constants, <1>1, <1>3 DEF Live, HoldsFor, OwnOrders, S
<1> QED BY <1>1, <1>9, <1>10, <1>11 DEF Ready, L, M, S

\* An order that the ledger grants gets its reservation.
LEMMA GrantedStands ==
    ASSUME NEW L, LedgerStands(L), NEW o \in OrderIds, L.res[o] = NoReservation,
           NEW a \in Accounts, NEW side \in {"BUY", "SELL"}, NEW q \in Nat, q > 0,
           NEW limit \in Nat, NEW short \in BOOLEAN,
           a \in Makers => ~short,
           a \notin Makers => \A p \in Live(L) : L.res[p].account # a,
           NEW r, r = Evaluated(L, a, side, q, limit, short), r # NoReservation
    PROVE  /\ Sound(r) /\ r.account = a /\ r.side = side /\ r.limit = limit /\ r.left <= q
           /\ LedgerStands(Reserved(L, o, r))
           /\ Reserved(L, o, r).res[o] = r
           /\ \A p \in OrderIds : p # o => Reserved(L, o, r).res[p] = L.res[p]
<1> DEFINE N == Reserved(L, o, r)
<1>1. Audited(L) /\ L \in Ledgers /\ ReservationsStand(L) /\ PositionsStand(L)
  BY DEF LedgerStands, Audited
<1>2. Granted(L, a, side, q, limit, short, r)
  BY <1>1, EvaluatedIsGranted
<1>3. /\ Sound(r) /\ r \in Reservations /\ r.account = a /\ r.side = side /\ r.limit = limit
      /\ r.left <= q /\ r.left > 0
      /\ r.cash + r.margin <= Available(L, a)
      /\ L.acct[a].held + r.long <= Larger(0, L.acct[a].quantity)
      /\ L.pool.reserved + r.borrow + L.pool.borrowed <= PoolTotal
      /\ r.borrow > 0 => short /\ L.acct[a].held + r.long = Larger(0, L.acct[a].quantity)
      /\ side = "BUY" => Projected(L, a) + r.left <= MaxAbsolutePosition[a]
      /\ side = "SELL" => -MaxAbsolutePosition[a] <= Projected(L, a) - r.left
  BY <1>2 DEF Granted, Sound
<1>4. Complete(r)
  BY <1>3 DEF Complete, Sound
<1>5. Audited(N)
  BY <1>1, <1>3, <1>4, ReservedAudited
<1>6. Shifts(L, N, o, r.account, r.cash + r.margin, r.long, r.borrow, r)
  BY <1>1, <1>3, ReservedShifts
<1> HIDE DEF N
<1>7. /\ N.res[o] = r /\ \A p \in OrderIds : p # o => N.res[p] = L.res[p]
      /\ \A x \in Accounts : N.acct[x].quantity = L.acct[x].quantity
  BY <1>6 DEF Shifts, DifferAtOne
<1>8. r # NoReservation /\ \A p \in Live(N) : p = o \/ (p # o /\ p \in Live(L) /\ N.res[p] = L.res[p]
                                                       /\ L.res[p].account \in Accounts)
  BY <1>1, <1>7, LedgerTypes, ReservationTypes DEF Live
<1>9. a \notin Makers => L.acct[a].held = 0 /\ Projected(L, a) = L.acct[a].quantity
  <2> SUFFICES ASSUME a \notin Makers PROVE L.acct[a].held = 0 /\ Projected(L, a) = L.acct[a].quantity
    OBVIOUS
  <2>1. \A p \in Live(L) : L.res[p].account # a
    OBVIOUS
  <2>2. L.acct[a].held = 0
    <3> DEFINE f == OwnLong(L, a)
               e == {}
    <3>1. \A p \in OrderIds : f[p] = IF p \in e THEN f[p] ELSE 0
      BY <2>1 DEF OwnLong
    <3>2. L.acct[a].held = SumOf(f, OrderIds)
      BY <1>1 DEF Audited
    <3>3. e \in SUBSET OrderIds /\ IsFiniteSet(OrderIds) /\ \A x \in OrderIds : f[x] \in Int
      BY <1>1, OwnTypes, LedgerAssumption
    <3>4. SumOf(f, e) = 0
      BY SumEmpty
    <3> HIDE DEF f, e
    <3>5. SumOf(f, e) = SumOf(f, OrderIds)
      BY <3>1, <3>3, SumPart
    <3> QED BY <3>2, <3>4, <3>5
  <2>3. Projected(L, a) = L.acct[a].quantity
    <3> DEFINE f == [p \in Live(L) |-> IF L.res[p].side = "BUY" THEN L.res[p].left
                                       ELSE -L.res[p].left]
    <3>1. {p \in Live(L) : L.res[p].account = a} = {}
      BY <2>1
    <3>2. Projected(L, a) = L.acct[a].quantity + SumOf(f, {})
      BY <3>1 DEF Projected, SumOver, SumOf
    <3> HIDE DEF f
    <3> QED BY <1>1, <3>2, SumEmpty, LedgerTypes
  <2> QED BY <2>2, <2>3
<1>10. ReservationsStand(N)
  <2>1. r.borrow > 0 => r.account \notin Makers /\ r.long = Larger(0, L.acct[a].quantity)
    BY <1>3, ReservationTypes, <1>9
  <2>2. ASSUME NEW p \in Live(N)
        PROVE  /\ Sound(N.res[p])
               /\ N.res[p].borrow > 0 =>
                    /\ N.res[p].account \notin Makers
                    /\ N.res[p].long = Larger(0, N.acct[N.res[p].account].quantity)
    BY <1>3, <1>7, <2>1, <1>1, <1>8 DEF ReservationsStand
  <2>3. ASSUME NEW p1 \in Live(N), NEW p2 \in Live(N), N.res[p1].account = N.res[p2].account,
               N.res[p1].account \notin Makers
        PROVE  p1 = p2
    BY <1>3, <1>7, <1>8, <2>3, <1>1 DEF ReservationsStand
  <2> QED BY <2>2, <2>3 DEF ReservationsStand
<1>11. PositionsStand(N)
  <2>1. \A x \in Traders : WithinLimit(x, N.acct[x].quantity)
    BY <1>1, <1>7, Constants DEF PositionsStand
  <2>2. ASSUME NEW p \in Live(N) PROVE HasRoom(N, N.res[p])
    <3>1. CASE p = o
      BY Constants, <1>3, <1>7, <1>9, <3>1 DEF HasRoom
    <3>2. CASE p # o
      BY <1>1, <1>7, <1>8, <3>2 DEF PositionsStand, HasRoom
    <3> QED BY <3>1, <3>2
  <2> QED BY <2>1, <2>2 DEF PositionsStand
<1>12. LedgerStands(N)
  BY <1>5, <1>10, <1>11 DEF LedgerStands
<1> QED BY <1>3, <1>7, <1>12 DEF N

\* What is not settled yet is what the trades that are left fill.
Counted ==
    \A o : Unsettled(o) = IF phase = "match" THEN Fills(trades, o, 0)
                         ELSE IF phase = "settle" THEN Fills(trades, o, settled) ELSE 0

LEMMA UnsettledFills == TypeOK => Counted
  BY UnsettledIsFills DEF Counted

LEMMA ReadyIsAgreed ==
    TypeOK /\ BookStands /\ phase \in {"idle", "quote"} /\ Ready(ledger, open) => Agreed
<1> SUFFICES ASSUME TypeOK, BookStands, phase \in {"idle", "quote"}, Ready(ledger, open)
             PROVE  Agreed
  OBVIOUS
<1>1. open \subseteq 1 .. Latest /\ incoming = None
  BY DEF BookStands
<1>2. ASSUME NEW o \in Ids
      PROVE  Held(o) = IF o \in open THEN orders[o].left ELSE 0
  BY UnsettledIsFills, <1>1, OrderTypes DEF Ids, None, Held
<1> QED BY <1>2 DEF Ready, Agreed

MakerTypes == [agent : Makers \cup {System}, left : 0 .. 2 * Levels,
               centre : {0} \cup GridPrices, base : 0 .. MaxQuantity]

LEMMA KernelInit == Init => KernelInv
<1> SUFFICES ASSUME Init PROVE KernelInv
  OBVIOUS
<1> DEFINE L == InitialLedger
<1>1. /\ orders = <<>> /\ open = {} /\ incoming = None /\ trades = <<>>
      /\ ledger = L /\ phase = "idle" /\ maker = NoMaker /\ settled = 0 /\ failure = "none"
  BY DEF Init, InitBook
<1>2. Len(<<>>) = 0 /\ <<>> \in Seq(Orders) /\ <<>> \in Seq(Trades)
  OBVIOUS
<1>3. /\ \A a \in Accounts : L.acct[a] = [cash |-> Cash0[a], reserved |-> 0, quantity |-> Long0[a],
                                         held |-> 0, borrowed |-> 0, margin |-> 0]
      /\ L.pool = [reserved |-> 0, borrowed |-> 0] /\ L.fees = 0
      /\ \A o \in OrderIds : L.res[o] = NoReservation
  BY DEF InitialLedger
<1>4. L \in Ledgers
  BY LedgerAssumption DEF AccountRecords, Ledgers, InitialLedger
<1> HIDE DEF L
<1>5. Live(L) = {}
  BY <1>3 DEF Live
<1>5a. \A a \in Accounts :
          /\ L.acct[a].cash = Cash0[a] /\ L.acct[a].reserved = 0 /\ L.acct[a].quantity = Long0[a]
          /\ L.acct[a].held = 0 /\ L.acct[a].borrowed = 0 /\ L.acct[a].margin = 0
  <2> TAKE a \in Accounts
  <2>1. L.acct[a] = [cash |-> Cash0[a], reserved |-> 0, quantity |-> Long0[a],
                     held |-> 0, borrowed |-> 0, margin |-> 0]
    BY <1>3
  <2> QED BY ONLY <2>1
<1>6. Audited(L)
  <2>1. \A a \in Accounts : Cash0[a] \in Nat /\ Long0[a] \in Nat
    BY LedgerAssumption
  <2>2. IsFiniteSet(Accounts) /\ IsFiniteSet(OrderIds) /\ PoolTotal \in Nat
    BY LedgerAssumption
  <2>3. SumOf(CashOf(L), Accounts) = SumOf(Cash0, Accounts)
    BY <1>5a, <2>2, SumCongruence DEF CashOf
  <2>4. SumOf(QuantityOf(L), Accounts) = SumOf(Long0, Accounts)
    BY <1>5a, <2>2, SumCongruence DEF QuantityOf
  <2>5. \A S, f : IsFiniteSet(S) /\ (\A x \in S : f[x] = 0) => SumOf(f, S) = 0
    <3> TAKE S, f
    <3> HAVE IsFiniteSet(S) /\ (\A x \in S : f[x] = 0)
    <3> DEFINE e == {}
    <3>1. e \in SUBSET S /\ (\A x \in S : f[x] \in Int)
          /\ \A x \in S : f[x] = IF x \in e THEN f[x] ELSE 0
      OBVIOUS
    <3>2. SumOf(f, e) = 0
      BY SumEmpty
    <3> HIDE DEF e
    <3>3. SumOf(f, e) = SumOf(f, S)
      BY <3>1, SumPart
    <3> QED BY <3>2, <3>3
  <2>6. SumOf(BorrowedOf(L), Accounts) = 0
    BY <1>5a, <2>2, <2>5 DEF BorrowedOf
  <2>7. SumOf(OpenBorrow(L), OrderIds) = 0
    BY <1>5, <2>2, <2>5 DEF OpenBorrow
  <2>8. ASSUME NEW a \in Accounts
        PROVE  SumOf(OwnCash(L, a), OrderIds) = 0 /\ SumOf(OwnLong(L, a), OrderIds) = 0
    BY <1>5, <2>2, <2>5 DEF OwnCash, OwnLong
  <2>9. \A a \in Accounts :
          /\ L.acct[a].cash >= 0 /\ Available(L, a) >= 0
          /\ L.acct[a].borrowed = Larger(0, -L.acct[a].quantity)
          /\ L.acct[a].reserved = 0 /\ L.acct[a].held = 0
          /\ L.acct[a].held <= Larger(0, L.acct[a].quantity)
          /\ L.acct[a].margin >= 0
    <3> QED BY <1>5a, <2>1 DEF Available, Larger
  <2>10. SumOf(Cash0, Accounts) \in Int
    BY <2>1, <2>2, SumIsInt
  <2>11. L.pool.reserved = 0 /\ L.pool.borrowed = 0
    BY <1>3
  <2>12. SumOf(CashOf(L), Accounts) + L.fees = SumOf(Cash0, Accounts)
    BY <1>3, <2>3, <2>10
  <2>13. \A a \in Accounts : /\ L.acct[a].reserved = SumOf(OwnCash(L, a), OrderIds)
                             /\ L.acct[a].held = SumOf(OwnLong(L, a), OrderIds)
    BY <2>8, <2>9
  <2>14. \A o \in Live(L) : FALSE
    BY <1>5
  <2> QED BY <1>4, <2>2, <2>4, <2>6, <2>7, <2>9, <2>11, <2>12, <2>13, <2>14 DEF Audited
<1>7. LedgerStands(L)
  <2>1. \A a \in Traders : WithinLimit(a, L.acct[a].quantity)
    <3>1. \A a \in Traders : a \in Accounts /\ Long0[a] \in Nat /\ Long0[a] <= MaxAbsolutePosition[a]
                             /\ MaxAbsolutePosition[a] \in Nat
      BY KernelAssumption, LedgerAssumption
    <3> QED BY <1>5a, <3>1 DEF WithinLimit
  <2> QED BY <1>5, <1>6, <2>1 DEF LedgerStands, ReservationsStand, PositionsStand
<1>8. TypeOK
  <2>1. NoMaker \in MakerTypes
    BY KernelAssumption, BookAssumption DEF NoMaker, MakerTypes
  <2>2. Len(orders) <= MaxOrders
    BY <1>1, <1>2, BookAssumption
  <2>3. settled \in 0 .. Len(trades)
    BY <1>1, <1>2
  <2> QED BY <1>1, <1>2, <1>4, <2>1, <2>2, <2>3 DEF TypeOK, MakerTypes
<1>9. BookStands /\ HandlerStands /\ IncomingStands /\ TradesStand
  BY <1>1, <1>2 DEF BookStands, HandlerStands, IncomingStands, TradesStand, Latest
<1>10. Ready(ledger, open)
  BY <1>3, Constants, <1>1, <1>7 DEF Ready, HoldsFor
<1>11. Agreed
  BY <1>1, <1>8, <1>9, <1>10, ReadyIsAgreed
<1> QED BY <1>1, <1>7, <1>8, <1>9, <1>11 DEF KernelInv

-----------------------------------------------------------------------------
(* An order is submitted. *)

\* A quote stays clear of the other side; any other order meets none of its own agent.
Clear(side, price, opened) ==
    \A o \in opened : orders[o].side # side =>
        IF side = "BUY" THEN price < orders[o].price ELSE price > orders[o].price

LEMMA SubmitKeeps ==
    ASSUME KernelInv, phase \in {"idle", "quote"}, failure = "none", Len(orders) < MaxOrders,
           NEW L, Ready(L, open'), open' \subseteq open,
           NEW a \in Agents, NEW side \in Sides, NEW price \in Prices, NEW q \in 1 .. MaxQuantity,
           NEW tif \in {"GTC", "IOC"}, NEW short \in BOOLEAN,
           (phase = "quote") <=> (a \in Makers),
           a \in Makers => ~short /\ tif = "GTC" /\ maker.agent = a /\ Clear(side, price, open'),
           a \notin Makers => /\ \A o \in Live(L) : L.res[o].account # a
                              /\ \A o \in open' : orders[o].agent # a,
           a = System => tif = "IOC",
           maker' \in MakerTypes, maker'.agent = maker.agent, settled' = settled,
           Submit(L, a, side, price, q, tif, short)
    PROVE  KernelInv'
<1> DEFINE r == Evaluated(L, a, side, q, price, short)
           id == Latest + 1
           N == Reserved(L, id, r)
<1>1. /\ TypeOK /\ BookStands /\ HandlerStands
      /\ LedgerStands(L) /\ open' \subseteq 1 .. Latest
      /\ \A o \in Ids : HoldsFor(L.res[o], o, IF o \in open' THEN orders[o].left ELSE 0)
  BY DEF KernelInv, Ready
<1>2. /\ orders \in Seq(Orders) /\ Latest \in Nat /\ Latest = Len(orders) /\ Latest < MaxOrders /\ trades \in Seq(Trades)
      /\ open \subseteq Ids /\ incoming = None /\ settled = 0 /\ phase \in {"idle", "quote"}
      /\ \A o \in open : orders[o].left > 0 /\ orders[o].tif = "GTC"
      /\ \A o \in 1 .. Latest : orders[o].agent = System => orders[o].tif = "IOC"
      /\ Len(trades) \in Nat
  BY <1>1, OrderTypes DEF TypeOK, BookStands, HandlerStands, Latest
<1>3. id \in Ids /\ id \in OrderIds /\ id \notin open' /\ id \in Nat /\ id > 0
  BY <1>1, <1>2, Constants DEF Ids
<1>4. L.res[id] = NoReservation
  BY <1>1, <1>3 DEF HoldsFor
<1>5. /\ q \in Nat /\ q > 0 /\ price \in Nat /\ a \in Accounts /\ side \in {"BUY", "SELL"}
  BY Constants DEF Prices, Sides
<1>6. r # NoReservation =>
        /\ Sound(r) /\ r.account = a /\ r.side = side /\ r.limit = price /\ r.left <= q
        /\ LedgerStands(N) /\ N.res[id] = r
        /\ \A p \in OrderIds : p # id => N.res[p] = L.res[p]
  BY <1>1, <1>3, <1>4, <1>5, GrantedStands
<1>7. MakerTypes = [agent : Makers \cup {System}, left : 0 .. 2 * Levels,
                    centre : {0} \cup GridPrices, base : 0 .. MaxQuantity]
  BY DEF MakerTypes
<1>8. settled' = 0 /\ open' \subseteq Ids
  BY <1>2
<1>9. CASE r = NoReservation
  <2>1. /\ ledger' = L /\ phase' = (IF a \in Makers THEN "quote" ELSE "idle")
        /\ orders' = orders /\ incoming' = incoming /\ trades' = trades /\ failure' = failure
    BY <1>9 DEF Submit
  <2>2. L \in Ledgers
    BY <1>1 DEF LedgerStands, Audited
  <2>3. TypeOK'
    BY <1>1, <1>2, <1>7, <1>8, <2>1, <2>2 DEF TypeOK
  <2>4. BookStands'
    BY <1>1, <1>2, <2>1 DEF BookStands, Latest
  <2>5. HandlerStands' /\ IncomingStands' /\ TradesStand'
    BY <1>8, <2>1 DEF HandlerStands, IncomingStands, TradesStand, Latest
  <2>6. Ready(ledger, open)'
    BY <1>1, <2>1 DEF Ready, HoldsFor, Latest, Ids
  <2>7. phase' \in {"idle", "quote"}
    BY <2>1
  <2>8. Agreed'
    <3>1. (TypeOK /\ BookStands /\ phase \in {"idle", "quote"} /\ Ready(ledger, open) => Agreed)'
      BY ReadyIsAgreed, PTL
    <3> QED BY <2>3, <2>4, <2>6, <2>7, <3>1
  <2> QED BY <1>1, <2>1, <2>3, <2>4, <2>5, <2>8 DEF KernelInv
<1>10. CASE r # NoReservation /\ price % TickSize # 0
  <2>1. /\ ledger' = N /\ phase' = phase
        /\ orders' = orders /\ incoming' = incoming /\ trades' = trades
        /\ failure' = "off the tick grid"
    <3> HIDE DEF r
    <3> QED BY <1>10 DEF Submit, Latest, r
  <2>2. LedgerStands(N) /\ N \in Ledgers
    <3> HIDE DEF N, r
    <3> QED BY <1>6, <1>10 DEF LedgerStands, Audited
  <2> HIDE DEF N
  <2>3. TypeOK'
    BY <1>1, <1>2, <1>7, <1>8, <2>1, <2>2 DEF TypeOK
  <2>4. BookStands'
    BY <1>1, <1>2, <2>1 DEF BookStands, Latest
  <2>5. HandlerStands' /\ IncomingStands' /\ TradesStand'
    BY <1>1, <1>2, <1>8, <2>1 DEF HandlerStands, IncomingStands, TradesStand, Latest
  <2> QED BY <2>1, <2>2, <2>3, <2>4, <2>5 DEF KernelInv
<1>11. CASE r # NoReservation /\ price % TickSize = 0
  <2> DEFINE new == [agent |-> a, side |-> side, price |-> price, left |-> r.left, tif |-> tif]
  <2>1. /\ ledger' = N /\ phase' = "match" /\ failure' = failure
        /\ orders' = Append(orders, new) /\ incoming' = id /\ trades' = <<>>
    <3> HIDE DEF r
    <3> QED BY <1>11 DEF Submit, Accept, Latest, r
  <2>2. /\ Sound(r) /\ r.account = a /\ r.side = side /\ r.limit = price /\ r.left <= q
        /\ LedgerStands(N) /\ N \in Ledgers /\ N.res[id] = r
        /\ \A p \in OrderIds : p # id => N.res[p] = L.res[p]
    <3> HIDE DEF N, r
    <3> QED BY <1>6, <1>11 DEF LedgerStands, Audited
  <2>3. r.left \in 1 .. MaxQuantity /\ r # NoReservation /\ r.left \in Nat
    BY <2>2, ReservationTypes, <1>11, Constants DEF Sound
  <2> HIDE DEF N, r
  <2>4. new \in Orders
    BY <2>3 DEF Orders
  <2>5. /\ new.agent = a /\ new.side = side /\ new.price = price /\ new.left = r.left
        /\ new.tif = tif
    OBVIOUS
  <2> HIDE DEF new
  <2>6. /\ orders' \in Seq(Orders) /\ Len(orders') = id /\ orders'[id] = new
        /\ \A o \in 1 .. Latest : orders'[o] = orders[o]
    BY <1>2, <2>1, <2>4
  <2>7. <<>> \in Seq(Trades) /\ Len(<<>>) = 0
    OBVIOUS
  <2>8. TypeOK'
    BY <1>2, <2>6, Constants, <1>3, <2>1, <1>8, <2>7, <1>7, <2>2 DEF TypeOK
  <2>9. BookStands'
    BY <1>2, <1>1, <1>3, <2>1, <2>5, <2>6 DEF BookStands, Latest
  <2>10. HandlerStands'
    BY <1>1, <1>8, <2>1, <2>5, <2>6 DEF HandlerStands, Latest
  <2>11. IncomingStands'
    <3>1. a \in Makers => Matches' = {}
      <4> SUFFICES ASSUME a \in Makers PROVE Matches' = {}
        OBVIOUS
      <4>1. \A o \in open' : new.side # orders'[o].side => ~Crosses(new, orders'[o].price)
        <5> TAKE o \in open'
        <5> HAVE new.side # orders'[o].side
        <5>1. orders'[o] = orders[o] /\ orders[o].price \in Nat
          BY <1>1, <2>6, OrderTypes DEF Prices
        <5>2. IF side = "BUY" THEN price < orders[o].price ELSE price > orders[o].price
          BY <2>5, <5>1 DEF Clear
        <5> QED BY <1>5, <2>5, <5>1, <5>2 DEF Crosses
      <4> QED BY <2>1, <2>6, <4>1 DEF Matches
    <3>2. a \notin Makers => \A o \in open' : orders'[o].agent # a
      BY <1>1, <2>6
    <3>3. a \in Makers => tif = "GTC"
      OBVIOUS
    <3> QED BY <2>1, <2>5, <2>6, <3>1, <3>2, <3>3 DEF IncomingStands, Latest
  <2>12. TradesStand'
    BY <2>1, <2>7 DEF TradesStand
  <2>13. Agreed'
    <3>1. \A o : Unsettled(o)' = Fills(<<>>, o, 0)
      <4>1. (TypeOK => Counted)'
        BY UnsettledFills, PTL
      <4> QED BY <2>1, <2>8, <4>1 DEF Counted
    <3>2. \A o : Fills(<<>>, o, 0) = 0
      BY <2>7, FillTypes
    <3>3. ASSUME NEW o \in Ids
          PROVE  Held(o)' = IF o = id THEN r.left ELSE IF o \in open' THEN orders[o].left ELSE 0
      <4>1. Unsettled(o)' = 0
        BY <3>1, <3>2
      <4>2. CASE o = id
        BY <1>3, <2>1, <2>3, <2>5, <2>6, <4>1, <4>2 DEF Held, Latest
      <4>3. CASE o \in open'
        BY <1>1, <4>3, OrderTypes, <1>2, <2>6, <2>1, <4>1 DEF Held, Latest
      <4>4. CASE o # id /\ o \notin open'
        BY <2>1, <4>1, <4>4 DEF Held, Latest
      <4> QED BY <1>3, <4>2, <4>3, <4>4
    <3>4. ASSUME NEW o \in Ids PROVE HoldsFor(ledger.res[o], o, Held(o))'
      <4>1. CASE o = id
        BY <2>1, <2>2, <2>3, <2>5, <2>6, <3>3, <4>1 DEF HoldsFor
      <4>2. CASE o # id
        <5>1. ledger'.res[o] = L.res[o]
          BY <2>1, <2>2, <4>2, Constants
        <5>2. HoldsFor(L.res[o], o, IF o \in open' THEN orders[o].left ELSE 0)
          BY <1>1
        <5>3. o \in open' => orders'[o] = orders[o]
          BY <1>1, <2>6
        <5> QED BY <3>3, <4>2, <5>1, <5>2, <5>3 DEF HoldsFor
      <4> QED BY <4>1, <4>2
    <3> QED BY <3>4 DEF Agreed
  <2> QED BY <2>1, <2>2, <2>8, <2>9, <2>10, <2>11, <2>12, <2>13 DEF KernelInv
<1> QED BY <1>9, <1>10, <1>11

-----------------------------------------------------------------------------
(* The orders of traders, of the system flow and of market makers. *)

LEMMA TraderOrderKeeps ==
    ASSUME KernelInv, NEW a \in Traders, NEW side \in Sides, NEW price \in GridPrices,
           NEW q \in 1 .. MaxQuantity, NEW tif \in {"GTC", "IOC"},
           TraderOrder(a, side, price, q, tif)
    PROVE  KernelInv'
<1> DEFINE S == OwnOrders(a)
           L == ReleasedAll(ledger, S)
<1>1. /\ phase = "idle" /\ failure = "none" /\ Len(orders) < MaxOrders
      /\ open' = open \ S /\ maker' = maker /\ settled' = settled
      /\ Submit(L, a, side, price, q, tif, ShortSelling)
  BY DEF TraderOrder, RoomForIntent
<1>2. a \in Agents /\ a \notin Makers /\ a # System /\ price \in Prices /\ ShortSelling \in BOOLEAN
  BY Constants, KernelAssumption DEF GridPrices
<1>3. Ready(ledger, open)
  BY <1>1, IdleIsReady
<1>4. /\ Ready(L, open \ S)
      /\ \A o \in Live(L) : L.res[o].account # a
  BY <1>2, <1>3, WithdrawnIsReady
<1>5. \A o \in open \ S : orders[o].agent # a
  BY DEF OwnOrders
<1>6. maker \in MakerTypes
  BY DEF KernelInv, TypeOK, MakerTypes
<1> HIDE DEF L, S
<1>7. Ready(L, open') /\ open' \subseteq open /\ (\A o \in open' : orders[o].agent # a)
  BY <1>1, <1>4, <1>5
<1>8. ((phase = "quote") <=> (a \in Makers)) /\ phase \in {"idle", "quote"}
  BY <1>1, <1>2
<1>9. a \in Makers => ~ShortSelling /\ tif = "GTC" /\ maker.agent = a /\ Clear(side, price, open')
  BY <1>2
<1> QED BY <1>1, <1>2, <1>4, <1>6, <1>7, <1>8, <1>9, SubmitKeeps

LEMMA SystemFlowKeeps ==
    ASSUME KernelInv, NEW price \in GridPrices, NEW q \in 1 .. MaxQuantity, SystemFlow(price, q)
    PROVE  KernelInv'
<1>1. /\ phase = "idle" /\ failure = "none" /\ Len(orders) < MaxOrders
      /\ open' = open /\ maker' = maker /\ settled' = settled
      /\ Submit(ledger, System, "SELL", price, q, "IOC", ShortSelling)
  BY DEF SystemFlow, RoomForIntent
<1>2. /\ System \in Agents /\ System \notin Makers /\ price \in Prices /\ ShortSelling \in BOOLEAN
      /\ "SELL" \in Sides /\ "IOC" \in {"GTC", "IOC"}
  BY Constants, KernelAssumption DEF GridPrices, Sides
<1>3. Ready(ledger, open)
  BY <1>1, IdleIsReady
<1>4. \A o \in open : orders[o].agent # System
  BY DEF KernelInv, BookStands
<1>5. \A o \in Live(ledger) : ledger.res[o].account # System
  <2> TAKE o \in Live(ledger)
  <2>1. o \in Ids /\ ledger.res[o] # NoReservation
    BY Constants DEF Live
  <2>2. HoldsFor(ledger.res[o], o, IF o \in open THEN orders[o].left ELSE 0)
    BY <1>3, <2>1 DEF Ready
  <2>3. o \in open /\ ledger.res[o].account = orders[o].agent
    BY <2>1, <2>2 DEF HoldsFor
  <2> QED BY <1>4, <2>3
<1>6. maker \in MakerTypes
  BY DEF KernelInv, TypeOK, MakerTypes
<1>7. Ready(ledger, open') /\ open' \subseteq open /\ (\A o \in open' : orders[o].agent # System)
  BY <1>1, <1>3, <1>4
<1>8. ((phase = "quote") <=> (System \in Makers)) /\ phase \in {"idle", "quote"}
  BY <1>1, <1>2
<1>9. System \in Makers => ~ShortSelling /\ "IOC" = "GTC" /\ maker.agent = System
                           /\ Clear("SELL", price, open')
  BY <1>2
<1> QED BY <1>1, <1>2, <1>5, <1>6, <1>7, <1>8, <1>9, SubmitKeeps

LEMMA MakerRefreshKeeps ==
    ASSUME KernelInv, NEW m \in Makers, NEW c \in GridPrices, NEW q \in 2 .. MaxQuantity,
           MakerRefresh(m, c, q)
    PROVE  KernelInv'
<1> DEFINE S == OwnOrders(m)
           L == ReleasedAll(ledger, S)
<1>1. /\ phase = "idle" /\ failure = "none" /\ open' = open \ S /\ ledger' = L
      /\ maker' = [agent |-> m, left |-> 2 * Levels, centre |-> c, base |-> q]
      /\ phase' = "quote"
      /\ orders' = orders /\ incoming' = incoming /\ trades' = trades
      /\ settled' = settled /\ failure' = failure
  BY DEF MakerRefresh
<1>2. m \in Agents /\ Levels \in Nat
  BY Constants, KernelAssumption
<1>3. Ready(ledger, open)
  BY <1>1, IdleIsReady
<1>4. Ready(L, open \ S)
  BY <1>2, <1>3, WithdrawnIsReady
<1>5. /\ LedgerStands(L) /\ L \in Ledgers /\ TypeOK /\ BookStands /\ HandlerStands
  BY <1>4 DEF Ready, LedgerStands, Audited, KernelInv
<1> HIDE DEF L, S
<1>6. maker' \in MakerTypes /\ maker'.agent = m
  BY <1>1, <1>2 DEF MakerTypes
<1>7. TypeOK'
  BY <1>1, <1>5, <1>6 DEF TypeOK, MakerTypes
<1>8. BookStands' /\ HandlerStands' /\ IncomingStands' /\ TradesStand'
  BY <1>1, <1>5, <1>6 DEF BookStands, HandlerStands, IncomingStands, TradesStand, Latest
<1>9. Ready(ledger, open)'
  BY <1>1, <1>4 DEF Ready, HoldsFor, Latest, Ids
<1>10. Agreed'
  <2>1. (TypeOK /\ BookStands /\ phase \in {"idle", "quote"} /\ Ready(ledger, open) => Agreed)'
    BY ReadyIsAgreed, PTL
  <2> QED BY <1>1, <1>7, <1>8, <1>9, <2>1
<1> QED BY <1>1, <1>5, <1>7, <1>8, <1>10 DEF KernelInv

LEMMA MinIsIn ==
    ASSUME NEW n \in Nat, NEW S \in SUBSET (0 .. n), S # {}
    PROVE  Min(S) \in S /\ \A y \in S : Min(S) <= y
<1>1. IsFiniteSet(S)
  <2> DEFINE z == 0
  <2>1. z \in Int /\ n \in Int /\ S \subseteq z .. n
    OBVIOUS
  <2> HIDE DEF z
  <2>2. IsFiniteSet(z .. n)
    BY <2>1, FS_Interval
  <2> QED BY <2>1, <2>2, FS_Subset
<1> DEFINE G == {T \in SUBSET S : T = {} \/ \E m \in T : \A y \in T : m <= y}
<1>2. ASSUME NEW T \in SUBSET S, \A x \in T : T \ {x} \in G PROVE T \in G
  <2>1. CASE T = {}
    BY <2>1
  <2>2. CASE T # {}
    <3>1. PICK x \in T : TRUE
      BY <2>2
    <3>2. CASE T \ {x} = {}
      BY <3>1, <3>2
    <3>3. CASE T \ {x} # {}
      <4>1. PICK m \in T \ {x} : \A y \in T \ {x} : m <= y
        BY <1>2, <3>1, <3>3
      <4>2. x \in Int /\ m \in Int /\ \A y \in T : y \in Int
        BY <3>1, <4>1
      <4>3. CASE m <= x
        BY <4>1, <4>2, <4>3
      <4>4. CASE x <= m
        BY <4>1, <4>2, <4>4, <3>1
      <4> QED BY <4>2, <4>3, <4>4
    <3> QED BY <3>2, <3>3
  <2> QED BY <2>1, <2>2
<1> HIDE DEF G
<1>3. S \in G
  BY <1>1, <1>2, SubsetInduction
<1>4. PICK m \in S : \A y \in S : m <= y
  BY <1>3 DEF G
<1>5. \E x \in S : \A y \in S : x <= y
  BY <1>4
<1> QED BY <1>5 DEF Min


LEMMA OpenPricesFacts ==
    ASSUME KernelInv, NEW side \in Sides
    PROVE  /\ OpenPrices(side) \in SUBSET (0 .. MaxPrice)
           /\ \A o \in open : orders[o].side = side => orders[o].price \in OpenPrices(side)
BY OrderTypes, Constants DEF KernelInv, BookStands, Prices, OpenPrices

LEMMA BidFacts ==
    ASSUME KernelInv, NEW planned \in Int
    PROVE  /\ BidPrice(planned) \in Int /\ BidPrice(planned) <= planned
           /\ Clear("BUY", BidPrice(planned), open)
<1> DEFINE S == OpenPrices("SELL")
           m == Min(S)
           bid == BidPrice(planned)
<1>1. S \in SUBSET (0 .. MaxPrice) /\ \A o \in open : orders[o].side = "SELL" => orders[o].price \in S
  BY OpenPricesFacts DEF Sides
<1>2. S # {} => m \in S /\ \A y \in S : m <= y
  <2> HIDE DEF S
  <2> QED BY <1>1, MinIsIn, Constants
<1>3. bid = Smaller(planned, IF S = {} THEN planned ELSE m - TickSize)
  BY DEF BidPrice
<1>4. TickSize \in Nat /\ TickSize > 0
  BY KernelAssumption, Constants
<1>5. open \subseteq 1 .. Latest /\ TypeOK
  BY DEF KernelInv, BookStands
<1> HIDE DEF S, m, bid
<1>6. bid \in Int /\ bid <= planned /\ (S # {} => bid <= m - TickSize /\ m \in Int)
  <2>1. CASE S = {}
    BY <1>3, <2>1 DEF Smaller
  <2>2. CASE S # {}
    <3>1. m \in Int
      BY <1>1, <1>2, <2>2
    <3> QED BY <1>3, <1>4, <2>2, <3>1 DEF Smaller
  <2> QED BY <2>1, <2>2
<1>7. Clear("BUY", bid, open)
  <2> SUFFICES ASSUME NEW o \in open, orders[o].side # "BUY" PROVE bid < orders[o].price
    BY DEF Clear
  <2>1. orders[o].side = "SELL" /\ orders[o].price \in Int
    BY <1>5, OrderTypes DEF Prices
  <2>2. orders[o].price \in S
    BY <1>1, <2>1
  <2>3. m <= orders[o].price
    BY <1>2, <2>2
  <2> QED BY <1>4, <1>6, <2>1, <2>2, <2>3
<1> QED BY <1>6, <1>7 DEF bid

LEMMA AskFacts ==
    ASSUME KernelInv, NEW planned \in Int
    PROVE  /\ AskPrice(planned) \in Int /\ planned <= AskPrice(planned)
           /\ Clear("SELL", AskPrice(planned), open)
<1> DEFINE S == OpenPrices("BUY")
           m == Max(S)
           ask == AskPrice(planned)
<1>1. S \in SUBSET (0 .. MaxPrice) /\ \A o \in open : orders[o].side = "BUY" => orders[o].price \in S
  BY OpenPricesFacts DEF Sides
<1>2. S # {} => m \in S /\ \A y \in S : y <= m
  <2> HIDE DEF S
  <2> QED BY <1>1, MaxIsIn, Constants
<1>3. ask = Larger(planned, IF S = {} THEN planned ELSE m + TickSize)
  BY DEF AskPrice
<1>4. TickSize \in Nat /\ TickSize > 0
  BY KernelAssumption, Constants
<1>5. open \subseteq 1 .. Latest /\ TypeOK
  BY DEF KernelInv, BookStands
<1> HIDE DEF S, m, ask
<1>6. ask \in Int /\ planned <= ask /\ (S # {} => m + TickSize <= ask /\ m \in Int)
  <2>1. CASE S = {}
    BY <1>3, <2>1 DEF Larger
  <2>2. CASE S # {}
    <3>1. m \in Int
      BY <1>1, <1>2, <2>2
    <3> QED BY <1>3, <1>4, <2>2, <3>1 DEF Larger
  <2> QED BY <2>1, <2>2
<1>7. Clear("SELL", ask, open)
  BY <1>5, OrderTypes, <1>1, <1>2, <1>4, <1>6 DEF Clear, Prices
<1> QED BY <1>6, <1>7 DEF ask

\* A step that only counts a quote, or none.
LEMMA SameKeeps ==
    ASSUME KernelInv,
           UNCHANGED <<orders, open, incoming, trades, ledger, phase, settled, failure>>,
           maker' \in MakerTypes, maker'.agent = maker.agent
    PROVE  KernelInv'
<1>1. TypeOK'
  BY DEF KernelInv, TypeOK, MakerTypes
<1>2. BookStands'
  BY DEF KernelInv, BookStands, Latest
<1>3. HandlerStands'
  BY DEF KernelInv, HandlerStands, Latest
<1>4. IncomingStands'
  BY DEF KernelInv, IncomingStands, Latest, Matches, Crosses
<1>5. TradesStand'
  BY DEF KernelInv, TradesStand, Latest, Crosses
<1>6. LedgerStands(ledger)'
  BY DEF KernelInv
<1>7. (failure = "none" => Agreed)'
  <2> SUFFICES ASSUME failure' = "none", NEW o \in Ids
               PROVE HoldsFor(ledger.res[o], o, Held(o))'
    BY DEF Agreed
  <2>1. HoldsFor(ledger.res[o], o, Held(o))
    BY DEF KernelInv, Agreed
  <2>2. Counted
    BY UnsettledFills DEF KernelInv
  <2>3. (TypeOK => Counted)'
    BY UnsettledFills, PTL
  <2>4. Unsettled(o)' = Unsettled(o)
    BY <1>1, <2>2, <2>3 DEF Counted
  <2>5. Held(o)' = Held(o)
    BY <2>4 DEF Held, Latest
  <2> QED BY <2>1, <2>5 DEF HoldsFor
<1> QED BY <1>1, <1>2, <1>3, <1>4, <1>5, <1>6, <1>7 DEF KernelInv

\* A purchase borrows nothing, so the permission to borrow makes no difference to it.
LEMMA BuyIgnoresShort ==
    ASSUME NEW L, NEW a, NEW q, NEW limit, NEW short
    PROVE  Evaluated(L, a, "BUY", q, limit, short) = Evaluated(L, a, "BUY", q, limit, FALSE)
  BY DEF Evaluated

\* The quantity and the prices of a quote are those of an order.
LEMMA QuoteFacts ==
    ASSUME KernelInv, maker.left > 0, NEW distance \in Nat
    PROVE  /\ maker.left \in 0 .. 2 * Levels /\ Levels \in Nat
           /\ LevelQuantity \in 1 .. MaxQuantity
           /\ Larger(1, maker.centre - distance) \in 1 .. MaxPrice
           /\ Larger(TickSize, maker.centre + distance) \in Nat
           /\ Larger(TickSize, maker.centre + distance) > 0
<1>1. /\ maker.left \in 0 .. 2 * Levels /\ Levels \in Nat
      /\ maker.centre \in {0} \cup GridPrices /\ maker.base \in 0 .. MaxQuantity
  BY KernelAssumption DEF KernelInv, TypeOK
<1>2. /\ MaxPrice \in Nat /\ MaxPrice > 0 /\ MaxQuantity \in Nat /\ MaxQuantity > 0
      /\ TickSize \in Nat /\ TickSize > 0
  BY KernelAssumption, BookAssumption
<1>3. maker.centre \in 0 .. MaxPrice
  BY <1>1, <1>2 DEF GridPrices, Prices
<1> DEFINE left == maker.left
           base == maker.base
           centre == maker.centre
<1> HIDE DEF left, base, centre
<1>4. left \in Nat /\ left <= 2 * Levels /\ left > 0 /\ base \in Nat /\ base <= MaxQuantity
      /\ centre \in Nat /\ centre <= MaxPrice
  BY <1>1, <1>2, <1>3 DEF left, base, centre
<1>5. Levels - (left + 1) \div 2 \in Nat
  BY <1>1, <1>4
<1>6. Larger(1, base - 2 * (Levels - (left + 1) \div 2)) \in 1 .. MaxQuantity
  BY <1>5, <1>2, <1>4 DEF Larger
<1>7. LevelQuantity \in 1 .. MaxQuantity
  BY <1>6 DEF LevelQuantity, Level, left, base
<1>8. Larger(1, centre - distance) \in 1 .. MaxPrice
  BY <1>2, <1>4 DEF Larger
<1>9. Larger(TickSize, centre + distance) \in Nat /\ Larger(TickSize, centre + distance) > 0
  BY <1>2, <1>4 DEF Larger
<1> QED BY <1>1, <1>7, <1>8, <1>9 DEF centre

LEMMA MakerQuoteKeeps ==
    ASSUME KernelInv, NEW distance \in Nat, MakerQuote(distance)
    PROVE  KernelInv'
<1> DEFINE low == Larger(1, maker.centre - distance)
           high == Larger(TickSize, maker.centre + distance)
           bid == BidPrice(low)
           ask == AskPrice(high)
           q == LevelQuantity
<1>1. /\ phase = "quote" /\ maker.left > 0 /\ failure = "none" /\ Len(orders) < MaxOrders
      /\ maker' = [maker EXCEPT !.left = @ - 1]
      /\ open' = open /\ settled' = settled
  BY DEF MakerQuote
<1>2. \/ bid > 0 /\ Submit(ledger, maker.agent, "BUY", bid, q, "GTC", ShortSelling)
      \/ ask <= MaxPrice /\ Submit(ledger, maker.agent, "SELL", ask, q, "GTC", FALSE)
      \/ UNCHANGED <<orders, incoming, trades, ledger, phase, failure>>
  BY DEF MakerQuote
<1>3. /\ maker.left \in 0 .. 2 * Levels /\ Levels \in Nat /\ q \in 1 .. MaxQuantity
      /\ low \in 1 .. MaxPrice /\ high \in Nat /\ high > 0
  BY <1>1, QuoteFacts
<1>4. maker \in MakerTypes /\ maker.agent \in Makers /\ Ready(ledger, open)
  BY <1>1, IdleIsReady DEF KernelInv, TypeOK, MakerTypes, HandlerStands
<1>5. maker' \in MakerTypes /\ maker'.agent = maker.agent
  BY <1>1, <1>3, <1>4 DEF MakerTypes
<1>6. /\ bid \in Int /\ bid <= low /\ Clear("BUY", bid, open)
      /\ ask \in Int /\ high <= ask /\ Clear("SELL", ask, open)
  BY <1>3, Constants, BidFacts, AskFacts
<1>7. maker.agent \in Agents /\ (maker.agent = System => FALSE)
  BY <1>4, Constants
<1> HIDE DEF low, high, bid, ask, q
<1>8. CASE bid > 0 /\ Submit(ledger, maker.agent, "BUY", bid, q, "GTC", ShortSelling)
  <2>1. Submit(ledger, maker.agent, "BUY", bid, q, "GTC", FALSE)
    BY BuyIgnoresShort, <1>8 DEF Submit
  <2>2. bid \in Prices /\ "BUY" \in Sides /\ "GTC" \in {"GTC", "IOC"} /\ FALSE \in BOOLEAN
    BY <1>3, <1>6, <1>8, Constants DEF Prices, Sides
  <2> DEFINE side == "BUY"
             tif == "GTC"
             short == FALSE
  <2>3. /\ side \in Sides /\ tif \in {"GTC", "IOC"} /\ short \in BOOLEAN
        /\ Submit(ledger, maker.agent, side, bid, q, tif, short)
        /\ Ready(ledger, open') /\ open' \subseteq open
        /\ ((phase = "quote") <=> (maker.agent \in Makers)) /\ phase \in {"idle", "quote"}
        /\ (maker.agent \in Makers => ~short /\ tif = "GTC" /\ maker.agent = maker.agent
                                      /\ Clear(side, bid, open'))
        /\ maker.agent = System => tif = "IOC"
    BY <1>1, <1>4, <1>6, <1>7, <2>1, <2>2
  <2> HIDE DEF side, tif, short
  <2> QED BY <1>1, <1>3, <1>4, <1>5, <1>7, <2>2, <2>3, SubmitKeeps
<1>9. CASE ask <= MaxPrice /\ Submit(ledger, maker.agent, "SELL", ask, q, "GTC", FALSE)
  <2>2. ask \in Prices /\ "SELL" \in Sides /\ "GTC" \in {"GTC", "IOC"} /\ FALSE \in BOOLEAN
    BY <1>3, <1>6, <1>9, Constants DEF Prices, Sides
  <2> DEFINE side == "SELL"
             tif == "GTC"
             short == FALSE
  <2>3. /\ side \in Sides /\ tif \in {"GTC", "IOC"} /\ short \in BOOLEAN
        /\ Submit(ledger, maker.agent, side, ask, q, tif, short)
        /\ Ready(ledger, open') /\ open' \subseteq open
        /\ ((phase = "quote") <=> (maker.agent \in Makers)) /\ phase \in {"idle", "quote"}
        /\ (maker.agent \in Makers => ~short /\ tif = "GTC" /\ maker.agent = maker.agent
                                      /\ Clear(side, ask, open'))
        /\ maker.agent = System => tif = "IOC"
    BY <1>1, <1>4, <1>6, <1>7, <1>9, <2>2
  <2> HIDE DEF side, tif, short
  <2> QED BY <1>1, <1>3, <1>4, <1>5, <1>7, <2>2, <2>3, SubmitKeeps
<1>10. CASE UNCHANGED <<orders, incoming, trades, ledger, phase, failure>>
  BY <1>1, <1>5, <1>10, SameKeeps
<1> QED BY <1>2, <1>8, <1>9, <1>10 DEF bid, ask, q

LEMMA MakerDoneKeeps ==
    ASSUME KernelInv, MakerDone
    PROVE  KernelInv'
<1>1. /\ phase = "quote" /\ failure = "none" /\ phase' = "idle" /\ maker' = NoMaker
      /\ UNCHANGED <<orders, open, incoming, trades, ledger, settled, failure>>
  BY DEF MakerDone
<1>2. Ready(ledger, open) /\ TypeOK /\ BookStands /\ HandlerStands /\ LedgerStands(ledger)
  BY <1>1, IdleIsReady DEF KernelInv
<1>3. maker' \in MakerTypes
  BY Constants, KernelAssumption, <1>1 DEF MakerTypes, NoMaker
<1>4. TypeOK'
  BY <1>1, <1>2, <1>3 DEF TypeOK, MakerTypes
<1>5. BookStands' /\ HandlerStands' /\ IncomingStands' /\ TradesStand'
  BY <1>1, <1>2 DEF BookStands, HandlerStands, IncomingStands, TradesStand, Latest
<1>6. Ready(ledger, open)'
  BY <1>1, <1>2 DEF Ready, HoldsFor, Latest, Ids
<1>7. Agreed'
  <2>1. (TypeOK /\ BookStands /\ phase \in {"idle", "quote"} /\ Ready(ledger, open) => Agreed)'
    BY ReadyIsAgreed, PTL
  <2> QED BY <1>1, <1>4, <1>5, <1>6, <2>1
<1> QED BY <1>1, <1>2, <1>4, <1>5, <1>7 DEF KernelInv

-----------------------------------------------------------------------------
(* Matching.                                                                *)

\* Orders keep all but their quantity.
Alike == /\ Len(orders') = Latest
         /\ \A o \in 1 .. Latest :
              /\ orders'[o].agent = orders[o].agent /\ orders'[o].side = orders[o].side
              /\ orders'[o].price = orders[o].price /\ orders'[o].tif = orders[o].tif

\* The last order trades q with the resting order m.
Trading(m, q) ==
    /\ m \in open /\ m \in 1 .. Latest - 1 /\ Latest \in 1 .. MaxOrders
    /\ q \in 1 .. MaxQuantity /\ q <= orders[m].left /\ q <= orders[Latest].left
    /\ orders[m].side # orders[Latest].side /\ Crosses(orders[Latest], orders[m].price)
    /\ orders[m].agent # orders[Latest].agent /\ orders[Latest].agent \notin Makers
    /\ Alike /\ orders' \in Seq(Orders)
    /\ \A o \in 1 .. Latest :
         orders'[o].left = IF o \in {m, Latest} THEN orders[o].left - q ELSE orders[o].left
    /\ trades' = Append(trades, [maker |-> m, taker |-> Latest, price |-> orders[m].price,
                                 quantity |-> q])
    /\ open' = IF orders[m].left = q THEN open \ {m} ELSE open

LEMMA MatchTrades ==
    ASSUME KernelInv, MatchOrder
    PROVE  \E m, q : Trading(m, q)
<1>1. /\ phase = "match" /\ incoming = Latest /\ Latest > 0 /\ Latest \notin open
      /\ TypeOK /\ open \subseteq 1 .. Latest
  BY DEF MatchOrder, KernelInv, BookStands
<1>2. /\ Latest \in Nat /\ Latest <= MaxOrders /\ MaxOrders \in Nat /\ MaxQuantity \in Nat
      /\ orders \in Seq(Orders)
      /\ \A o \in 1 .. Latest : orders[o] \in Orders /\ orders[o].left \in 0 .. MaxQuantity
  BY <1>1, OrderTypes, Constants DEF TypeOK
<1>3. PICK m \in Matches :
         TradeWith(m) /\ open' = IF orders[m].left <= orders[incoming].left THEN open \ {m} ELSE open
  BY DEF MatchOrder, Match
<1>4. orders[Latest].left > 0 /\ Matches # {}
  BY <1>1 DEF MatchOrder, Match, Matching
<1>5. /\ m \in open /\ orders[m].side # orders[Latest].side
      /\ Crosses(orders[Latest], orders[m].price)
  BY <1>1, <1>3 DEF Matches
<1>6. m \in 1 .. Latest - 1
  BY <1>1, <1>2, <1>5
<1>7. orders[m].left > 0 /\ orders[Latest].agent \notin Makers /\ orders[m].agent # orders[Latest].agent
  BY <1>1, <1>4, <1>5 DEF KernelInv, BookStands, IncomingStands
<1> DEFINE x == orders[Latest].left
           y == orders[m].left
           q == Least(x, y)
<1>8. x \in Nat /\ y \in Nat /\ x <= MaxQuantity /\ y <= MaxQuantity /\ x > 0 /\ y > 0
  BY <1>2, <1>4, <1>6, <1>7
<1>9. q \in 1 .. MaxQuantity /\ q <= x /\ q <= y /\ (y <= x <=> y = q)
  <2> HIDE DEF x, y
  <2> QED BY <1>2, <1>8 DEF Least
<1>10. /\ orders' = [orders EXCEPT ![Latest].left = x - q, ![m].left = y - q]
       /\ trades' = Append(trades, [maker |-> m, taker |-> Latest, price |-> orders[m].price,
                                    quantity |-> q])
       /\ open' = IF y = q THEN open \ {m} ELSE open
  BY <1>1, <1>3, <1>9 DEF TradeWith
<1>11. x - q \in 0 .. MaxQuantity /\ y - q \in 0 .. MaxQuantity
  <2> HIDE DEF x, y, q
  <2> QED BY <1>2, <1>8, <1>9
<1> DEFINE u == x - q
           v == y - q
<1>12. /\ orders' = [orders EXCEPT ![Latest] = [orders[Latest] EXCEPT !.left = u],
                                   ![m] = [orders[m] EXCEPT !.left = v]]
       /\ u \in 0 .. MaxQuantity /\ v \in 0 .. MaxQuantity
  BY <1>2, <1>6, <1>1, <1>10, <1>11 DEF Latest
<1> HIDE DEF u, v
<1>13. /\ orders' \in Seq(Orders) /\ Len(orders') = Latest
       /\ \A o \in 1 .. Latest :
            orders'[o] = IF o = m THEN [orders[m] EXCEPT !.left = v]
                         ELSE IF o = Latest THEN [orders[Latest] EXCEPT !.left = u] ELSE orders[o]
  <2> DEFINE a == [orders[Latest] EXCEPT !.left = u]
             b == [orders[m] EXCEPT !.left = v]
  <2>1. a \in Orders /\ b \in Orders
    <3>1. orders[Latest] \in Orders /\ orders[m] \in Orders
      BY <1>1, <1>2, <1>5
    <3> QED BY <1>12, <3>1 DEF Orders
  <2>2. orders' = [orders EXCEPT ![Latest] = a, ![m] = b]
    BY <1>12
  <2>3. m \in 1 .. Len(orders) /\ Latest \in 1 .. Len(orders) /\ m # Latest
    BY <1>1, <1>2, <1>5, <1>6 DEF Latest
  <2> HIDE DEF a, b
  <2>4. orders' \in Seq(Orders) /\ Len(orders') = Len(orders)
    BY <1>2, <2>1, <2>2, <2>3
  <2>5. \A o \in 1 .. Len(orders) : orders'[o] = IF o = m THEN b ELSE IF o = Latest THEN a ELSE orders[o]
    BY <1>2, <2>2, <2>3
  <2> QED BY <2>4, <2>5 DEF Latest, a, b
<1>14. \A o \in 1 .. Latest :
         /\ orders'[o].agent = orders[o].agent /\ orders'[o].side = orders[o].side
         /\ orders'[o].price = orders[o].price /\ orders'[o].tif = orders[o].tif
         /\ orders'[o].left = IF o = m THEN v ELSE IF o = Latest THEN u ELSE orders[o].left
  <2> TAKE o \in 1 .. Latest
  <2>1. orders[o] \in Orders /\ orders[m] \in Orders /\ orders[Latest] \in Orders
    BY <1>1, <1>2, <1>5
  <2>2. CASE o = m
    BY <1>13, <2>1, <2>2 DEF Orders
  <2>3. CASE o # m /\ o = Latest
    BY <1>13, <2>1, <2>3 DEF Orders
  <2>4. CASE o # m /\ o # Latest
    BY <1>13, <2>4
  <2> QED BY <2>2, <2>3, <2>4
<1>15. /\ Alike
       /\ \A o \in 1 .. Latest :
            orders'[o].left = IF o \in {m, Latest} THEN orders[o].left - q ELSE orders[o].left
  BY <1>13, <1>14 DEF Alike, u, v
<1>16. Latest \in 1 .. MaxOrders
  BY <1>1, <1>2
<1> HIDE DEF q
<1>17. Trading(m, q)
  BY <1>5, <1>6, <1>7, <1>9, <1>10, <1>13, <1>15, <1>16 DEF Trading
<1> QED BY <1>17

LEMMA MatchOrderKeeps ==
    ASSUME KernelInv, MatchOrder
    PROVE  KernelInv'
<1>1. PICK m, q : Trading(m, q)
  BY MatchTrades
<1>2. /\ phase = "match" /\ incoming = Latest /\ TypeOK /\ BookStands /\ HandlerStands
      /\ IncomingStands /\ TradesStand /\ LedgerStands(ledger) /\ (failure = "none" => Agreed)
      /\ UNCHANGED <<ledger, phase, maker, settled, failure, incoming>>
  BY DEF MatchOrder, Match, KernelInv, BookStands
<1>3. /\ Latest \in Nat /\ Latest' = Latest /\ Latest <= MaxOrders /\ MaxOrders \in Nat
      /\ settled = 0 /\ failure = "none" /\ open \subseteq 1 .. Latest /\ Latest \notin open
      /\ open' \subseteq open
  BY <1>1, <1>2, OrderTypes, Constants DEF Trading, Alike, Latest, HandlerStands, BookStands
<1> DEFINE x == [maker |-> m, taker |-> Latest, price |-> orders[m].price, quantity |-> q]
<1>4. /\ m \in open /\ m \in 1 .. Latest - 1 /\ m \in 1 .. Latest /\ Latest \in 1 .. Latest
      /\ q \in Nat /\ q > 0 /\ q <= orders[m].left /\ q <= orders[Latest].left
      /\ orders[m].left \in Nat /\ orders[Latest].left \in Nat
  BY <1>1, <1>2, <1>3, OrderTypes DEF Trading
<1>5. x \in Trades
  BY <1>2, <1>4, OrderTypes, <1>1 DEF Trades, Trading
<1> HIDE DEF x
<1>6. /\ trades \in Seq(Trades) /\ trades' = Append(trades, x) /\ trades' \in Seq(Trades)
      /\ Len(trades) \in Nat /\ Len(trades') = Len(trades) + 1
      /\ trades'[Len(trades) + 1] = x
      /\ \A i \in 1 .. Len(trades) : trades'[i] = trades[i]
  <2>1. trades \in Seq(Trades) /\ trades' = Append(trades, x)
    BY <1>1, <1>2 DEF TypeOK, Trading, x
  <2> QED BY <1>5, <2>1
<1>7. TypeOK'
  BY <1>2, <1>3, <1>6, <1>1 DEF TypeOK, Trading, Latest
<1>8. BookStands'
  <2>1. \A o \in open' : orders'[o].left > 0 /\ orders'[o].tif = "GTC"
    <3> TAKE o \in open'
    <3>1. o \in open /\ o \in 1 .. Latest /\ o # Latest
      BY <1>3
    <3>2. orders[o].left > 0 /\ orders[o].tif = "GTC" /\ orders'[o].tif = orders[o].tif
      BY <1>1, <1>2, <3>1 DEF BookStands, Trading, Alike
    <3>3. CASE o = m
      BY <1>1, <1>4, <3>1, <3>2, <3>3 DEF Trading
    <3>4. CASE o # m
      BY <1>1, <3>1, <3>2, <3>4 DEF Trading
    <3> QED BY <3>2, <3>3, <3>4
  <2>2. \A o \in 1 .. Latest : orders'[o].agent = System => orders'[o].tif = "IOC"
    BY <1>1, <1>2 DEF BookStands, Trading, Alike
  <2> QED BY <1>2, <1>3, <1>4, <2>1, <2>2 DEF BookStands
<1>9. HandlerStands' /\ orders'[Latest].agent = orders[Latest].agent /\ orders[Latest].agent \notin Makers
  BY <1>1, <1>2, <1>3, <1>4 DEF HandlerStands, Trading, Alike
<1>10. IncomingStands'
  <2>1. \A o \in open' : orders'[o].agent # orders'[Latest].agent
    <3> TAKE o \in open'
    <3>1. o \in open /\ o \in 1 .. Latest
      BY <1>3
    <3> QED BY <1>1, <1>2, <1>9, <3>1 DEF IncomingStands, Trading, Alike
  <2> QED BY <1>2, <1>3, <1>9, <2>1 DEF IncomingStands
<1>11. TradesStand'
  <2>1. ASSUME NEW i \in 1 .. Len(trades'), NEW t, t = trades'[i]
        PROVE  /\ t.taker = Latest /\ t.maker \in 1 .. Latest - 1
               /\ orders[t.maker].side # orders[Latest].side
               /\ orders[t.maker].agent # orders[Latest].agent
               /\ t.price = orders[t.maker].price /\ Crosses(orders[Latest], orders[t.maker].price)
    <3>1. CASE i = Len(trades) + 1
      BY <1>6, <2>1, <3>1, <1>1 DEF Trading, x
    <3>2. CASE i \in 1 .. Len(trades)
      BY <1>6, <2>1, <3>2, <1>2 DEF TradesStand
    <3>3. i = Len(trades) + 1 \/ i \in 1 .. Len(trades)
      BY <1>6, <2>1
    <3> QED BY <3>1, <3>2, <3>3
  <2>2. \A o \in 1 .. Latest : /\ orders'[o].side = orders[o].side
                             /\ orders'[o].agent = orders[o].agent
                             /\ orders'[o].price = orders[o].price
    BY <1>1 DEF Trading, Alike
  <2>3. \A p : Crosses(orders'[Latest], p) = Crosses(orders[Latest], p)
    BY <1>4, <2>2 DEF Crosses
  <2> SUFFICES ASSUME NEW i \in 1 .. Len(trades')
               PROVE  LET t == trades'[i]
                          n == orders'[t.maker]
                      IN  /\ t.taker = Latest /\ t.maker \in 1 .. Latest - 1
                          /\ n.side # orders'[Latest].side /\ n.agent # orders'[Latest].agent
                          /\ t.price = n.price /\ Crosses(orders'[Latest], n.price)
    BY <1>3 DEF TradesStand
  <2> DEFINE t == trades'[i]
  <2>4. /\ t.taker = Latest /\ t.maker \in 1 .. Latest - 1
        /\ orders[t.maker].side # orders[Latest].side
        /\ orders[t.maker].agent # orders[Latest].agent
        /\ t.price = orders[t.maker].price /\ Crosses(orders[Latest], orders[t.maker].price)
    BY <2>1
  <2>5. t.maker \in 1 .. Latest
    BY <1>3, <2>4
  <2> HIDE DEF t
  <2>6. /\ orders'[t.maker].side = orders[t.maker].side
        /\ orders'[t.maker].agent = orders[t.maker].agent
        /\ orders'[t.maker].price = orders[t.maker].price
        /\ orders'[Latest].side = orders[Latest].side /\ orders'[Latest].agent = orders[Latest].agent
    BY <1>4, <2>2, <2>5
  <2>7. Crosses(orders'[Latest], orders'[t.maker].price)
    BY <2>3, <2>4, <2>6
  <2> QED BY <2>4, <2>6, <2>7 DEF t
<1>12. Agreed'
  <2>1. \A o : Unsettled(o) = Fills(trades, o, 0)
    BY <1>2, UnsettledFills DEF Counted
  <2>2. \A o : Unsettled(o)' = Fills(trades', o, 0)
    <3>1. (TypeOK => Counted)'
      BY UnsettledFills, PTL
    <3> QED BY <1>2, <1>7, <3>1 DEF Counted
  <2>3. ASSUME NEW o
        PROVE  /\ Fills(trades', o, 0) = Fills(trades, o, 0) + (IF o \in {m, Latest} THEN q ELSE 0)
               /\ Fills(trades, o, 0) \in Nat
    <3>1. trades \in Seq(Trades) /\ x \in Trades
      BY <1>5, <1>6
    <3>2. Fills(Append(trades, x), o, 0) = Fills(trades, o, 0)
                                      + (IF o \in {x.maker, x.taker} THEN x.quantity ELSE 0)
      BY <3>1, FillsAppend
    <3>3. Fills(trades, o, 0) \in Nat
      BY <3>1, FillTypes
    <3>4. x.maker = m /\ x.taker = Latest /\ x.quantity = q
      BY DEF x
    <3>5. trades' = Append(trades, x)
      BY <1>6
    <3> QED BY <3>2, <3>3, <3>4, <3>5
  <2>4. ASSUME NEW o \in Ids
        PROVE  Held(o)' = Held(o)
    <3>1. Unsettled(o)' = Unsettled(o) + (IF o \in {m, Latest} THEN q ELSE 0) /\ Unsettled(o) \in Nat
      BY <2>1, <2>2, <2>3
    <3>2. o \in 1 .. Latest => orders[o].left \in Nat
      BY <1>2, OrderTypes
    <3>3. CASE o \notin 1 .. Latest
      BY <1>3, <3>3 DEF Held
    <3>4. CASE o = Latest
      <4>1. Held(o) = orders[o].left + Unsettled(o)
        BY <1>2, <1>4, <3>4 DEF Held
      <4>2. Held(o)' = orders'[o].left + Unsettled(o)'
        BY <1>2, <1>3, <1>4, <3>4 DEF Held
      <4>3. orders'[o].left = orders[o].left - q
        BY <1>1, <1>4, <3>4 DEF Trading
      <4> QED BY <1>4, <3>1, <3>4, <4>1, <4>2, <4>3
    <3>5. CASE o = m /\ o # Latest
      <4>1. Held(o) = orders[o].left + Unsettled(o)
        BY <1>4, <3>5 DEF Held
      <4>2. orders'[o].left = orders[o].left - q
        BY <1>1, <1>4, <3>5 DEF Trading
      <4>3. CASE orders[m].left = q
        BY <1>1, <3>5, <4>3, <1>2, <1>3, <1>4, <3>1, <4>1 DEF Trading, Held
      <4>4. CASE orders[m].left # q
        BY <1>1, <1>4, <3>5, <4>4, <1>2, <1>3, <3>1, <4>1, <4>2 DEF Trading, Held
      <4> QED BY <4>3, <4>4
    <3>6. CASE o \in 1 .. Latest /\ o # m /\ o # Latest
      BY <1>1, <3>6, <3>1, <1>2, <1>3 DEF Trading, Held
    <3> QED BY <3>3, <3>4, <3>5, <3>6
  <2>5. ASSUME NEW o \in Ids PROVE HoldsFor(ledger.res[o], o, Held(o))'
    BY <1>2, <1>3, <2>4, <1>1 DEF Agreed, Trading, Alike, Held, HoldsFor
  <2> QED BY <2>5 DEF Agreed
<1> QED BY <1>2, <1>7, <1>8, <1>9, <1>10, <1>11, <1>12 DEF KernelInv

LEMMA MatchDoneKeeps ==
    ASSUME KernelInv, MatchDone
    PROVE  KernelInv'
<1>1. /\ phase = "match" /\ incoming = Latest /\ TypeOK /\ BookStands /\ HandlerStands
      /\ IncomingStands /\ TradesStand /\ LedgerStands(ledger) /\ (failure = "none" => Agreed)
      /\ UNCHANGED <<ledger, maker, settled, orders, trades>> /\ ~Matching
      /\ open' = (IF orders[Latest].left > 0 /\ orders[Latest].tif = "GTC"
                  THEN open \cup {Latest} ELSE open)
      /\ incoming' = None
  BY DEF MatchDone, Finish, KernelInv, BookStands
<1>2. IF orders[Latest].agent \notin Makers
      THEN phase' = "settle" /\ failure' = failure
      ELSE phase' = "quote" /\ failure' = (IF trades = <<>> THEN failure ELSE "quote traded")
  BY <1>1 DEF MatchDone
<1>3. /\ Latest \in Nat /\ Latest' = Latest /\ Latest > 0 /\ Latest \in 1 .. Latest /\ Latest \in Ids
      /\ settled = 0 /\ failure = "none" /\ open \subseteq 1 .. Latest /\ open' \subseteq 1 .. Latest
      /\ orders[Latest].left \in Nat
  <2>1. Latest \in Nat /\ Latest > 0 /\ Latest \in 1 .. Latest
    BY <1>1, OrderTypes DEF BookStands
  <2> QED BY <1>1, <2>1, OrderTypes DEF Latest, HandlerStands, BookStands
<1>4. failure' = "none" /\ phase' \in {"settle", "quote"}
  BY <1>1, <1>2, <1>3 DEF IncomingStands
<1>5. TypeOK'
  BY <1>1, <1>3, <1>4 DEF TypeOK, Ids, None
<1>6. BookStands'
  BY <1>1, <1>3, <1>4 DEF BookStands
<1>7. HandlerStands'
  BY <1>1, <1>2, <1>3, <1>4 DEF HandlerStands
<1>8. IncomingStands'
  BY <1>1, <1>3, <1>4 DEF IncomingStands
<1>9. TradesStand'
  BY <1>1, <1>3, <1>4 DEF TradesStand, Crosses
<1>10. Agreed'
  <2>1. \A o : Unsettled(o) = Fills(trades, o, 0)
    BY <1>1, UnsettledFills DEF Counted
  <2>2. \A o : Unsettled(o)' = IF phase' = "settle" THEN Fills(trades, o, 0) ELSE 0
    <3>1. (TypeOK => Counted)'
      BY UnsettledFills, PTL
    <3> QED BY <1>1, <1>3, <1>4, <1>5, <3>1 DEF Counted
  <2>3. ASSUME NEW o \in Ids PROVE Unsettled(o)' = Unsettled(o) /\ Unsettled(o) \in Nat
    <3>1. CASE phase' = "settle"
      BY <1>1, <2>1, <2>2, <3>1, FillTypes DEF TypeOK
    <3>2. CASE phase' # "settle"
      BY <1>1, <1>2, <3>2, FillTypes, <2>1, <2>2 DEF IncomingStands, TypeOK
    <3> QED BY <3>1, <3>2
  <2>4. ASSUME NEW o \in Ids PROVE Held(o)' = Held(o)
    <3>1. CASE o \notin 1 .. Latest
      BY <1>3, <3>1 DEF Held
    <3>2. CASE o \in 1 .. Latest /\ o # Latest
      BY <1>1, <3>2, <1>3, <2>3 DEF None, Held
    <3>3. CASE o = Latest
      <4>1. Held(o) = orders[o].left + Unsettled(o)
        BY <1>1, <1>3, <3>3 DEF Held
      <4>2. Held(o)' = orders[o].left + Unsettled(o)
        <5>1. CASE phase' = "settle"
          BY <1>1, <1>3, <2>3, <3>3, <5>1 DEF Held
        <5>2. CASE phase' # "settle"
          <6>1. orders[Latest].tif = "GTC"
            BY <1>1, <1>2, <5>2 DEF IncomingStands
          <6>2. CASE orders[Latest].left > 0
            BY <1>1, <3>3, <6>1, <6>2, <1>3, <2>3 DEF Held
          <6>3. CASE orders[Latest].left = 0
            BY <1>1, <3>3, <6>3, <1>3, <5>2, <2>3 DEF BookStands, None, Held
          <6> QED BY <1>3, <6>2, <6>3
        <5> QED BY <5>1, <5>2
      <4> QED BY <4>1, <4>2
    <3> QED BY <3>1, <3>2, <3>3
  <2>5. ASSUME NEW o \in Ids PROVE HoldsFor(ledger.res[o], o, Held(o))'
    BY <1>1, <1>3, <2>4 DEF Agreed, HoldsFor
  <2> QED BY <2>5 DEF Agreed
<1> QED BY <1>1, <1>5, <1>6, <1>7, <1>8, <1>9, <1>10 DEF KernelInv

-----------------------------------------------------------------------------
(* Settlement.                                                              *)

\* The reservation r, of which q are filled, becomes n or is given up.
Filled(r, q, n, kept) ==
    /\ n.account = r.account /\ n.side = r.side /\ n.limit = r.limit
    /\ n.left = r.left - q /\ n \in Reservations
    /\ n.left > 0 => Sound(n)
    /\ kept = IF n.left = 0 THEN NoReservation ELSE n

\* After a settlement every reservation has what its order can still fill, and the
\* positions have room for the rest.
LEMMA SettledStands ==
    ASSUME NEW L, NEW M, NEW b, NEW s, NEW price, NEW q, LedgerStands(L),
           Settles(L, b, s, price, q), Affordable(L, b, s, price, q), Pays(L, M, b, s, price, q)
    PROVE  /\ LedgerStands(M)
           /\ \E n : Filled(L.res[b], q, n, M.res[b])
           /\ \E n : Filled(L.res[s], q, n, M.res[s])
           /\ DifferAtTwo(L, M, b, s)
<1> DEFINE rb == L.res[b]
           rs == L.res[s]
           x == rb.account
           y == rs.account
           nb == AfterBuy(rb, q)
           ns == AfterSale(rs, q)
<1>1. /\ L \in Ledgers /\ b \in OrderIds /\ s \in OrderIds
      /\ q \in Nat /\ q > 0 /\ Sound(rb) /\ Sound(rs) /\ rb.side = "BUY" /\ rs.side = "SELL"
      /\ q <= rb.left /\ q <= rs.left /\ rb.left \in Nat /\ rs.left \in Nat
  BY ReservationTypes DEF Settles, Sound, Matched, Audited
<1>2. b # s /\ b \in Live(L) /\ s \in Live(L) /\ x \in Accounts /\ y \in Accounts /\ x # y
  BY SettlesFacts
<1>3. Audited(M) /\ M \in Ledgers
  BY SettledAudited DEF Audited
<1>4. /\ DifferAtTwo(L, M, b, s)
      /\ M.res[b] = Kept(nb) /\ M.res[s] = Kept(ns)
      /\ M.acct[x].quantity = L.acct[x].quantity + q
      /\ M.acct[y].quantity = L.acct[y].quantity - q
      /\ \A a \in Accounts : a # x /\ a # y => M.acct[a] = L.acct[a]
  BY DEF Pays
<1>5. /\ Filled(rb, q, nb, M.res[b]) /\ nb.borrow = 0
  BY <1>1, AfterBuyFacts, <1>4 DEF Filled, Kept
<1>6. /\ Filled(rs, q, ns, M.res[s])
      /\ ns.long = rs.long - Smaller(q, rs.long) /\ ns.borrow = rs.borrow - ShortFill(rs, q)
  BY <1>1, AfterSaleFacts, <1>4 DEF Filled, Kept
<1>7. /\ \A o \in Live(L) : Sound(L.res[o]) /\ L.res[o].account \in Accounts
      /\ \A o \in Live(L) : L.res[o].borrow > 0 =>
            /\ L.res[o].account \notin Makers
            /\ L.res[o].long = Larger(0, L.acct[L.res[o].account].quantity)
      /\ \A o, p \in Live(L) :
            L.res[o].account = L.res[p].account /\ L.res[o].account \notin Makers => o = p
      /\ \A a \in Traders : WithinLimit(a, L.acct[a].quantity)
      /\ \A o \in Live(L) : HasRoom(L, L.res[o])
  BY ReservationTypes DEF LedgerStands, ReservationsStand, PositionsStand, Sound
<1>8. /\ L.acct[x].quantity \in Int /\ L.acct[y].quantity \in Int
      /\ rs.long \in Nat /\ rs.borrow \in Nat /\ rs # NoReservation
      /\ ShortFill(rs, q) \in 0 .. q
  BY <1>1, <1>2, LedgerTypes, ReservationTypes, SettlesFacts DEF Sound
<1> HIDE DEF nb, ns
\* the reservations that live on
<1>9. \A o \in Live(M) :
         /\ o \in Live(L) /\ M.res[o].account = L.res[o].account
         /\ o # b /\ o # s => M.res[o] = L.res[o]
         /\ o = b => M.res[o] = nb /\ nb.left > 0
         /\ o = s => M.res[o] = ns /\ ns.left > 0
  <2> TAKE o \in Live(M)
  <2>1. o \in OrderIds /\ M.res[o] # NoReservation
    BY DEF Live
  <2>2. CASE o = b
    <3>1. M.res[o] = nb /\ nb.left # 0
      BY <1>5, <2>1, <2>2 DEF Filled
    <3>2. nb.left = rb.left - q /\ nb.account = rb.account
      BY <1>5 DEF Filled
    <3>3. nb.left > 0
      BY <1>1, <3>2, <3>1
    <3> QED BY <1>2, <2>2, <3>1, <3>2, <3>3
  <2>3. CASE o = s
    <3>1. M.res[o] = ns /\ ns.left # 0
      BY <1>6, <2>1, <2>3 DEF Filled
    <3>2. ns.left = rs.left - q /\ ns.account = rs.account
      BY <1>6 DEF Filled
    <3>3. ns.left > 0
      BY <1>1, <3>2, <3>1
    <3> QED BY <1>2, <2>3, <3>1, <3>2, <3>3
  <2>4. CASE o # b /\ o # s
    BY <1>4, <2>1, <2>4 DEF DifferAtTwo, Live
  <2> QED BY <2>2, <2>3, <2>4
\* only makers have other orders besides the two
<1>10. ASSUME NEW o \in Live(L), o # b, o # s, L.res[o].account \notin Makers
       PROVE  /\ L.res[o].account # x /\ L.res[o].account # y
              /\ M.acct[L.res[o].account] = L.acct[L.res[o].account]
  BY <1>2, <1>7, <1>10, <1>4
<1>11. ReservationsStand(M)
  <2>1. \A o, p \in Live(M) :
           M.res[o].account = M.res[p].account /\ M.res[o].account \notin Makers => o = p
    BY <1>7, <1>9
  <2>2. ASSUME NEW o \in Live(M)
        PROVE  /\ Sound(M.res[o])
               /\ M.res[o].borrow > 0 =>
                    /\ M.res[o].account \notin Makers
                    /\ M.res[o].long = Larger(0, M.acct[M.res[o].account].quantity)
    <3>1. CASE o = b
      BY <1>5, <1>9, <3>1 DEF Filled
    <3>2. CASE o = s
      <4>1. M.res[o] = ns /\ Sound(ns) /\ ns.account = y
        BY <1>6, <1>9, <3>2 DEF Filled
      <4>2. ASSUME ns.borrow > 0
            PROVE  y \notin Makers /\ ns.long = Larger(0, M.acct[y].quantity)
        <5> DEFINE i == rs.borrow
                   l == rs.long
                   z == L.acct[y].quantity
                   f == ShortFill(rs, q)
        <5>1. i \in Nat /\ l \in Nat /\ z \in Int /\ f \in 0 .. q /\ ns.borrow = i - f
              /\ ns.long = l - Smaller(q, l) /\ M.acct[y].quantity = z - q
          BY <1>4, <1>6, <1>8
        <5> HIDE DEF i, l, z, f
        <5>2. i > 0
          BY <1>1, <4>2, <5>1
        <5>3. y \notin Makers /\ l = Larger(0, z)
          BY <1>2, <1>7, <5>2 DEF i, l, z
        <5>4. l - Smaller(q, l) = Larger(0, z - q)
          BY <1>1, <5>1, <5>3 DEF Larger, Smaller
        <5> QED BY <5>1, <5>3, <5>4
      <4> QED BY <4>1, <4>2
    <3>3. CASE o # b /\ o # s
      <4>1. M.res[o] = L.res[o] /\ o \in Live(L)
        BY <1>9, <3>3
      <4>2. Sound(L.res[o])
        BY <1>7, <4>1
      <4>3. ASSUME L.res[o].borrow > 0
            PROVE  /\ L.res[o].account \notin Makers
                   /\ L.res[o].long = Larger(0, M.acct[L.res[o].account].quantity)
        BY <1>7, <4>1, <4>3, <1>10, <3>3
      <4> QED BY <4>1, <4>2, <4>3
    <3> QED BY <3>1, <3>2, <3>3
  <2> QED BY <2>1, <2>2 DEF ReservationsStand
<1>12. PositionsStand(M)
  <2>1. /\ HasRoom(L, rb) /\ HasRoom(L, rs)
        /\ x \in Traders => WithinLimit(x, L.acct[x].quantity)
        /\ y \in Traders => WithinLimit(y, L.acct[y].quantity)
        /\ MaxAbsolutePosition[x] \in Nat /\ MaxAbsolutePosition[y] \in Nat
    BY <1>2, <1>7, Constants
  <2> DEFINE bl == rb.left
             sl == rs.left
             qx == L.acct[x].quantity
             qy == L.acct[y].quantity
             mx == MaxAbsolutePosition[x]
             my == MaxAbsolutePosition[y]
  <2>2. /\ x \in Traders => qx + bl <= mx /\ -mx <= qx /\ qx <= mx
        /\ y \in Traders => -my <= qy - sl /\ -my <= qy /\ qy <= my
    BY <1>1, <2>1 DEF HasRoom, WithinLimit
  <2>3. bl \in Nat /\ sl \in Nat /\ qx \in Int /\ qy \in Int /\ mx \in Nat /\ my \in Nat
        /\ q <= bl /\ q <= sl
    BY <1>1, <1>8, <2>1
  <2> HIDE DEF bl, sl, qx, qy, mx, my
  <2>4. /\ x \in Traders => /\ -mx <= qx + q /\ qx + q <= mx /\ (qx + q) + (bl - q) <= mx
        /\ y \in Traders => /\ -my <= qy - q /\ qy - q <= my /\ -my <= (qy - q) - (sl - q)
    BY <1>1, <2>2, <2>3
  <2>5. ASSUME NEW a \in Traders PROVE WithinLimit(a, M.acct[a].quantity)
    BY <1>4, <2>4, <1>7, Constants DEF WithinLimit, qx, mx, qy, my
  <2>6. ASSUME NEW o \in Live(M) PROVE HasRoom(M, M.res[o])
    <3>1. CASE o = b
      BY <1>1, <1>5, <1>9, <3>1, <1>4, <2>4 DEF Filled, bl, qx, mx, HasRoom
    <3>2. CASE o = s
      BY <1>1, <1>6, <1>9, <3>2, <1>4, <2>4 DEF Filled, sl, qy, my, HasRoom
    <3>3. CASE o # b /\ o # s
      <4>1. M.res[o] = L.res[o] /\ o \in Live(L) /\ HasRoom(L, L.res[o])
        BY <1>7, <1>9, <3>3
      <4>2. CASE L.res[o].account \notin Makers
        BY <1>10, <3>3, <4>1, <4>2 DEF HasRoom
      <4>3. CASE L.res[o].account \in Makers
        BY <4>3, Constants, <4>1 DEF HasRoom
      <4> QED BY <4>2, <4>3
    <3> QED BY <3>1, <3>2, <3>3
  <2> QED BY <2>5, <2>6 DEF PositionsStand
<1> QED BY <1>3, <1>4, <1>5, <1>6, <1>11, <1>12 DEF LedgerStands

\* The buyer's and the seller's order of a trade, as _applyTrades tells them apart.
BuyerOf(t) == IF orders[t.taker].side = "BUY" THEN t.taker ELSE t.maker
SellerOf(t) == IF BuyerOf(t) = t.taker THEN t.maker ELSE t.taker

\* Every trade of the report finds its two reservations.
LEMMA TradeSettles ==
    ASSUME KernelInv, phase = "settle", settled < Len(trades), failure = "none",
           NEW t, t = trades[settled + 1]
    PROVE  /\ t \in Trades /\ t.quantity \in Nat /\ t.quantity > 0
           /\ BuyerOf(t) \in 1 .. Latest /\ SellerOf(t) \in 1 .. Latest /\ BuyerOf(t) # SellerOf(t)
           /\ {BuyerOf(t), SellerOf(t)} = {t.maker, t.taker}
           /\ orders[BuyerOf(t)].agent # orders[SellerOf(t)].agent
           /\ Settles(ledger, BuyerOf(t), SellerOf(t), t.price, t.quantity)
<1> DEFINE b == BuyerOf(t)
           s == SellerOf(t)
           m == t.maker
           q == t.quantity
<1>1. /\ TypeOK /\ LedgerStands(ledger) /\ Agreed /\ trades \in Seq(Trades)
      /\ settled \in Nat /\ Len(trades) \in Nat /\ settled + 1 \in 1 .. Len(trades)
  BY DEF KernelInv, TypeOK
<1>2. t \in Trades /\ q \in Nat /\ q > 0 /\ t.price \in Nat
  <2>1. t \in Trades
    BY <1>1
  <2>2. MaxQuantity \in Nat /\ MaxPrice \in Nat
    BY Constants
  <2> QED BY <2>1, <2>2 DEF Trades, Prices
<1>3. /\ t.taker = Latest /\ m \in 1 .. Latest - 1
      /\ orders[m].side # orders[Latest].side /\ orders[m].agent # orders[Latest].agent
      /\ t.price = orders[m].price /\ Crosses(orders[Latest], orders[m].price)
  BY <1>1 DEF KernelInv, TradesStand
<1>4. /\ Latest \in Nat /\ Latest \in 1 .. Latest /\ m \in 1 .. Latest /\ m # Latest
      /\ \A o \in 1 .. Latest : o \in Ids /\ o \in OrderIds /\ orders[o].side \in {"BUY", "SELL"}
                              /\ orders[o].left \in Nat /\ orders[o].price \in Nat
  BY <1>1, OrderTypes, <1>3, Constants DEF Prices
<1>5. /\ orders[b].side = "BUY" /\ orders[s].side = "SELL" /\ b # s
      /\ (b = m /\ s = Latest) \/ (b = Latest /\ s = m)
  BY <1>3, <1>4 DEF BuyerOf, SellerOf
<1>6. {b, s} = {m, t.taker} /\ orders[b].agent # orders[s].agent
      /\ b \in 1 .. Latest /\ s \in 1 .. Latest
  BY <1>3, <1>4, <1>5
<1> HIDE DEF b, s
<1>7. ASSUME NEW o \in {m, Latest} PROVE Held(o) \in Nat /\ q <= Held(o)
  <2>1. o \in 1 .. Latest /\ orders[o].left \in Nat
    BY <1>4
  <2>2. Unsettled(o) = Fills(trades, o, settled)
    BY <1>1, UnsettledFills DEF Counted
  <2>3. Fills(trades, o, settled) = FillOf(trades, o)[settled + 1] + Fills(trades, o, settled + 1)
    BY <1>1, FillsNext
  <2>4. FillOf(trades, o)[settled + 1] = q
    BY <1>3, <1>1 DEF FillOf
  <2>5. Fills(trades, o, settled + 1) \in Nat
    <3>1. settled + 1 \in Nat
      BY <1>1
    <3> QED BY <1>1, <3>1, FillTypes
  <2>6. Unsettled(o) \in Nat /\ q <= Unsettled(o)
    BY <2>2, <2>3, <2>4, <2>5, <1>2
  <2>7. Held(o) = Unsettled(o) \/ Held(o) = orders[o].left + Unsettled(o)
    BY <2>1 DEF Held
  <2> HIDE DEF q
  <2> QED BY <1>2, <2>1, <2>6, <2>7
<1>8. ASSUME NEW o \in {m, Latest}
      PROVE  /\ ledger.res[o] # NoReservation /\ q <= ledger.res[o].left
             /\ ledger.res[o].account = orders[o].agent /\ ledger.res[o].side = orders[o].side
             /\ ledger.res[o].limit = orders[o].price
             /\ o \in Live(ledger)
  BY <1>4, <1>1, <1>2, <1>7 DEF Agreed, HoldsFor, Live
<1>9. ledger.res[s].limit <= t.price /\ t.price <= ledger.res[b].limit
  BY <1>4, <1>3, <1>5, <1>8 DEF Crosses
<1>10. b \in {m, Latest} /\ s \in {m, Latest}
  BY <1>5
<1>11. Matched(ledger, b, s, t.price, q)
  BY <1>5, <1>6, <1>8, <1>9, <1>10 DEF Matched
<1>12. /\ Sound(ledger.res[b]) /\ Sound(ledger.res[s])
       /\ ledger.res[s].borrow > 0 =>
            ledger.res[s].long = Larger(0, ledger.acct[ledger.res[s].account].quantity)
  BY <1>1, <1>8, <1>10 DEF LedgerStands, ReservationsStand
<1>13. Settles(ledger, b, s, t.price, q)
  BY <1>1, <1>2, <1>4, <1>6, <1>11, <1>12 DEF Settles, LedgerStands
<1> QED BY <1>2, <1>5, <1>6, <1>13 DEF b, s

LEMMA SettleTradeKeeps ==
    ASSUME KernelInv, SettleTrade
    PROVE  KernelInv'
<1> DEFINE t == trades[settled + 1]
           b == BuyerOf(t)
           s == SellerOf(t)
           q == t.quantity
           verdict == Verdict(b, s, t)
           M == Settled(ledger, b, s, t.price, q)
<1>1. /\ phase = "settle" /\ settled < Len(trades) /\ failure = "none"
      /\ failure' = verdict
      /\ ledger' = IF verdict = "none" THEN M ELSE ledger
      /\ settled' = IF verdict = "none" THEN settled + 1 ELSE settled
      /\ UNCHANGED <<orders, open, incoming, trades, phase, maker>>
  BY DEF SettleTrade, BuyerOf, SellerOf
<1>2. /\ t \in Trades /\ q \in Nat /\ q > 0
      /\ b \in 1 .. Latest /\ s \in 1 .. Latest /\ b # s /\ {b, s} = {t.maker, t.taker}
      /\ orders[b].agent # orders[s].agent
      /\ Settles(ledger, b, s, t.price, q)
  BY <1>1, TradeSettles
<1>3. /\ TypeOK /\ BookStands /\ HandlerStands /\ IncomingStands /\ TradesStand
      /\ LedgerStands(ledger) /\ Agreed
  BY <1>1 DEF KernelInv
<1> HIDE DEF b, s, q, t, M
<1>4. /\ verdict \in {"none", "refused"}
      /\ verdict = "none" => Affordable(ledger, b, s, t.price, q)
  <2>1. Matched(ledger, b, s, t.price, t.quantity)
    BY <1>2 DEF Settles, q
  <2>2. ShortMatchesPosition(ledger, s, t.quantity)
    BY <1>2, SettlesFacts DEF ShortMatchesPosition, q
  <2>3. ASSUME Affordable(ledger, b, s, t.price, t.quantity)
        PROVE  AuditPasses(Settled(ledger, b, s, t.price, t.quantity))
    BY <1>2, Settling, <2>3, SettledAudited, AuditedPasses DEF M, q, Audited
  <2>4. CASE Affordable(ledger, b, s, t.price, t.quantity)
    BY <1>2, <2>1, <2>2, <2>3, <2>4 DEF Verdict, q
  <2>5. CASE ~Affordable(ledger, b, s, t.price, t.quantity)
    BY <1>2, <2>1, <2>5 DEF Verdict
  <2> QED BY <2>4, <2>5 DEF q
<1> HIDE DEF verdict
<1>5. /\ Latest' = Latest /\ settled \in Nat /\ Len(trades) \in Nat /\ trades \in Seq(Trades)
      /\ settled' \in 0 .. Len(trades)
  <2>1. settled \in 0 .. Len(trades) /\ Len(trades) \in Nat /\ trades \in Seq(Trades)
    <3>1. settled \in 0 .. Len(trades) /\ trades \in Seq(Trades)
      BY <1>3 DEF TypeOK
    <3> QED BY <3>1
  <2>2. settled' = settled \/ settled' = settled + 1
    BY <1>1
  <2>3. settled < Len(trades) /\ UNCHANGED <<orders, trades>>
    BY <1>1
  <2>4. settled' \in 0 .. Len(trades)
    BY <2>1, <2>2, <2>3
  <2> QED BY <2>1, <2>3, <2>4 DEF Latest
<1>6. /\ BookStands' /\ HandlerStands' /\ IncomingStands' /\ TradesStand'
  BY <1>1, <1>3, <1>5, <1>4 DEF BookStands, HandlerStands, IncomingStands, TradesStand, Crosses
<1>7. CASE verdict = "refused"
  BY <1>1, <1>3, <1>5, <1>7, <1>6 DEF TypeOK, KernelInv
<1>8. CASE verdict = "none"
  <2>1. ledger' = M /\ settled' = settled + 1 /\ failure' = "none"
    BY <1>1, <1>8
  <2>2. Pays(ledger, M, b, s, t.price, q)
    BY <1>2, Settling DEF M
  <2>3. /\ LedgerStands(M)
        /\ \E n : Filled(ledger.res[b], q, n, M.res[b])
        /\ \E n : Filled(ledger.res[s], q, n, M.res[s])
        /\ DifferAtTwo(ledger, M, b, s)
    BY <1>2, <1>3, <1>4, <1>8, <2>2, SettledStands
  <2>4. M \in Ledgers
    BY <2>3 DEF LedgerStands, Audited
  <2>5. TypeOK'
    BY <1>1, <1>3, <1>5, <2>1, <2>4 DEF TypeOK
  <2>6. Agreed'
    <3>1. \A o : Unsettled(o) = Fills(trades, o, settled)
      BY <1>1, <1>3, UnsettledFills DEF Counted
    <3>2. \A o : Unsettled(o)' = Fills(trades, o, settled + 1)
      <4>1. (TypeOK => Counted)'
        BY UnsettledFills, PTL
      <4> QED BY <1>1, <2>1, <2>5, <4>1 DEF Counted
    <3>3. ASSUME NEW o \in Ids
          PROVE  /\ Held(o) \in Nat /\ Held(o)' \in Nat
                 /\ Held(o) = Held(o)' + (IF o \in {b, s} THEN q ELSE 0)
      <4>1. /\ Fills(trades, o, settled) = FillOf(trades, o)[settled + 1]
                                             + Fills(trades, o, settled + 1)
            /\ Fills(trades, o, settled + 1) \in Nat
        BY <1>1, <1>5, FillsNext, FillTypes
      <4>2. FillOf(trades, o)[settled + 1] = IF o \in {b, s} THEN q ELSE 0
        <5>1. settled + 1 \in 1 .. Len(trades)
          BY <1>1, <1>5
        <5> QED BY <1>2, <5>1 DEF FillOf, t, q
      <4>3. /\ Unsettled(o) = Unsettled(o)' + (IF o \in {b, s} THEN q ELSE 0)
            /\ Unsettled(o) \in Nat /\ Unsettled(o)' \in Nat
        BY <1>2, <3>1, <3>2, <4>1, <4>2
      <4>4. o \in 1 .. Latest => orders[o].left \in Nat
        BY <1>3, OrderTypes
      <4>5. CASE o \notin 1 .. Latest
        BY <1>2, <1>5, <4>5 DEF Held
      <4>6. CASE o \in 1 .. Latest
        <5>1. \/ /\ Held(o) = orders[o].left + Unsettled(o)
                 /\ Held(o)' = orders[o].left + Unsettled(o)'
              \/ /\ Held(o) = Unsettled(o)
                 /\ Held(o)' = Unsettled(o)'
          BY <1>1, <1>5, <4>6 DEF Held
        <5> DEFINE part == IF o \in {b, s} THEN q ELSE 0
        <5>2. part \in Nat /\ Unsettled(o) = Unsettled(o)' + part
          BY <1>2, <4>3
        <5> HIDE DEF part
        <5>3. Held(o) \in Nat /\ Held(o)' \in Nat /\ Held(o) = Held(o)' + part
          BY <4>3, <4>4, <4>6, <5>1, <5>2
        <5> QED BY <5>3 DEF part
      <4> QED BY <4>5, <4>6
    <3>4. ASSUME NEW o \in Ids PROVE HoldsFor(ledger.res[o], o, Held(o))'
      <4>1. HoldsFor(ledger.res[o], o, Held(o)) /\ o \in OrderIds
        BY <1>3, Constants DEF Agreed
      <4>2. CASE o \notin {b, s}
        BY <2>3, <4>1, <4>2, <3>3, <1>1, <2>1 DEF DifferAtTwo, HoldsFor
      <4>3. CASE o \in {b, s}
        <5>1. PICK n : Filled(ledger.res[o], q, n, M.res[o])
          BY <2>3, <4>3
        <5>2. ledger.res[o] # NoReservation
          BY <1>2, <4>3 DEF Settles, Matched
        <5>3. /\ ledger.res[o].left = Held(o) /\ ledger.res[o].account = orders[o].agent
              /\ ledger.res[o].side = orders[o].side /\ ledger.res[o].limit = orders[o].price
          BY <4>1, <5>2 DEF HoldsFor
        <5>4. /\ n.left = Held(o)' /\ n \in Reservations /\ n # NoReservation
              /\ n.account = orders[o].agent /\ n.side = orders[o].side
              /\ n.limit = orders[o].price
              /\ M.res[o] = IF n.left = 0 THEN NoReservation ELSE n
          BY <5>1, <5>3, <1>2, <3>3, <4>3, ReservationTypes DEF Filled
        <5>5. Held(o)' \in Nat
          BY <3>3
        <5>6. orders' = orders /\ ledger' = M
          BY <1>1, <2>1
        <5> QED BY <5>4, <5>5, <5>6 DEF HoldsFor
      <4> QED BY <4>2, <4>3
    <3> QED BY <3>4 DEF Agreed
  <2> QED BY <1>6, <2>1, <2>3, <2>5, <2>6 DEF KernelInv
<1> QED BY <1>4, <1>7, <1>8

LEMMA EventDoneKeeps ==
    ASSUME KernelInv, EventDone
    PROVE  KernelInv'
<1>1. /\ phase = "settle" /\ settled = Len(trades) /\ failure = "none"
      /\ ledger' = (IF HasRemainder(Latest) THEN Released(ledger, Latest) ELSE ledger)
      /\ phase' = "idle" /\ settled' = 0
      /\ UNCHANGED <<orders, open, incoming, trades, maker, failure>>
  BY DEF EventDone, Latest
<1>2. /\ TypeOK /\ BookStands /\ HandlerStands /\ IncomingStands /\ LedgerStands(ledger)
      /\ Agreed /\ incoming = None
  BY <1>1 DEF KernelInv, BookStands
<1>3. /\ Latest \in Nat /\ Latest \in 1 .. Latest /\ Latest \in Ids /\ Latest \in OrderIds
      /\ open \subseteq 1 .. Latest /\ Latest' = Latest
      /\ \A o \in 1 .. Latest : orders[o].left \in Nat /\ orders[o].tif \in {"GTC", "IOC"}
  BY <1>1, <1>2, OrderTypes, Constants DEF BookStands, Latest
<1>4. ASSUME NEW o \in Ids
      PROVE  Held(o) = IF o \in open \/ o = Latest THEN orders[o].left ELSE 0
  <2>1. Unsettled(o) = 0
    BY <1>2, <1>1, UnsettledFills, FillTypes DEF TypeOK, Counted
  <2>2. o # incoming
    BY <1>2 DEF Ids, None
  <2>3. CASE o \in open \/ o = Latest
    <3>1. o \in 1 .. Latest /\ Held(o) = orders[o].left + Unsettled(o)
      BY <1>1, <1>3, <2>3 DEF Held
    <3> QED BY <1>3, <2>1, <2>3, <3>1
  <2>4. CASE ~(o \in open \/ o = Latest)
    BY <2>1, <2>2, <2>4 DEF Held
  <2> QED BY <2>3, <2>4
<1>5. /\ LedgerStands(ledger')
      /\ \A o \in OrderIds : ledger'.res[o] = IF HasRemainder(Latest) /\ o = Latest THEN NoReservation
                                              ELSE ledger.res[o]
  <2>1. CASE HasRemainder(Latest)
    <3> DEFINE L == ledger
               M == Released(L, Latest)
               r == L.res[Latest]
    <3>1. Audited(L) /\ L \in Ledgers /\ Latest \in Live(L)
      BY <1>2, <1>3, <2>1 DEF LedgerStands, Audited, HasRemainder, Live
    <3> HIDE DEF L
    <3>2. Audited(M)
      BY <3>1, ReleasedAudited
    <3>3. Shifts(L, M, Latest, r.account, -(r.cash + r.margin), -r.long, -r.borrow, NoReservation)
      BY <3>1, ReleasedShifts
    <3> HIDE DEF M, r
    <3>4. /\ M.res[Latest] = NoReservation
          /\ \A x \in OrderIds : x # Latest => M.res[x] = L.res[x]
          /\ \A x \in Accounts : M.acct[x].quantity = L.acct[x].quantity
      BY <3>3 DEF Shifts, DifferAtOne
    <3>5. Frees(L, M, {Latest})
      BY <3>4 DEF Frees
    <3>6. LedgerStands(M)
      BY <1>2, <3>2, <3>5, FreedStands DEF L
    <3>7. ledger' = M
      BY <1>1, <2>1 DEF L, M
    <3> QED BY <2>1, <3>4, <3>6, <3>7 DEF L
  <2>2. CASE ~HasRemainder(Latest)
    BY <1>1, <1>2, <2>2
  <2> QED BY <2>1, <2>2
<1>6. TypeOK'
  <2>1. ledger' \in Ledgers
    BY <1>5 DEF LedgerStands, Audited
  <2>2. 0 \in 0 .. Len(trades)
    <3>1. trades \in Seq(Trades)
      BY <1>2 DEF TypeOK
    <3> QED BY <3>1
  <2> QED BY <1>1, <1>2, <2>1, <2>2 DEF TypeOK
<1>7. BookStands' /\ HandlerStands' /\ IncomingStands' /\ TradesStand'
  BY <1>1, <1>2, <1>3 DEF BookStands, HandlerStands, IncomingStands, TradesStand
<1>8. Ready(ledger, open)'
  <2>1. ASSUME NEW o \in Ids
        PROVE  HoldsFor(ledger'.res[o], o, IF o \in open THEN orders[o].left ELSE 0)
    <3>1. HoldsFor(ledger.res[o], o, Held(o)) /\ o \in OrderIds
      BY <1>2, Constants DEF Agreed
    <3>2. CASE o # Latest
      BY <1>5, <3>1, <3>2, <1>4
    <3>3. CASE o = Latest /\ orders[Latest].tif = "IOC"
      <4>1. ledger'.res[o] = NoReservation
        BY <1>5, <3>1, <3>3 DEF HasRemainder
      <4>2. o \notin open
        BY <1>2, <3>3 DEF BookStands
      <4> QED BY <4>1, <4>2 DEF HoldsFor
    <3>4. CASE o = Latest /\ orders[Latest].tif = "GTC"
      BY <3>4, <1>5, <3>1, <1>3, <1>4, <1>1, <1>2 DEF HasRemainder, IncomingStands, BookStands
    <3> QED BY <1>3, <3>2, <3>3, <3>4
  <2>2. orders' = orders /\ open' = open
    BY <1>1
  <2> QED BY <1>3, <1>5, <2>1, <2>2 DEF Ready, HoldsFor, Ids
<1>9. Agreed'
  <2>1. (TypeOK /\ BookStands /\ phase \in {"idle", "quote"} /\ Ready(ledger, open) => Agreed)'
    BY ReadyIsAgreed, PTL
  <2> QED BY <1>1, <1>6, <1>7, <1>8, <2>1
<1> QED BY <1>5, <1>6, <1>7, <1>9 DEF KernelInv

-----------------------------------------------------------------------------
(* The theorems.                                                            *)

LEMMA KernelStep == KernelInv /\ [Next]_vars => KernelInv'
<1> SUFFICES ASSUME KernelInv, [Next]_vars PROVE KernelInv'
  OBVIOUS
<1>1. CASE \E a \in Traders, s \in Sides, p \in GridPrices, q \in 1 .. MaxQuantity,
              tif \in {"GTC", "IOC"} : TraderOrder(a, s, p, q, tif)
  BY <1>1, TraderOrderKeeps
<1>2. CASE \E p \in GridPrices, q \in 1 .. MaxQuantity : SystemFlow(p, q)
  BY <1>2, SystemFlowKeeps
<1>3. CASE \E m \in Makers, c \in GridPrices, q \in 2 .. MaxQuantity : MakerRefresh(m, c, q)
  BY <1>3, MakerRefreshKeeps
<1>4. CASE \E d \in Distances : MakerQuote(d * TickSize)
  <2>1. PICK d \in Distances : MakerQuote(d * TickSize)
    BY <1>4
  <2>2. d \in Nat /\ TickSize \in Nat
    <3>1. MaxPrice \in Nat /\ TickSize \in 1 .. MaxPrice /\ Distances \subseteq Nat
      BY KernelAssumption, Constants
    <3> QED BY <3>1
  <2>3. d * TickSize \in Nat
    <3> DEFINE c == TickSize
    <3>1. c \in Nat
      BY <2>2
    <3> HIDE DEF c
    <3>2. d * c \in Nat
      BY <2>2, <3>1
    <3> QED BY <3>2 DEF c
  <2> QED BY <2>1, <2>3, MakerQuoteKeeps
<1>5. CASE MakerDone
  BY <1>5, MakerDoneKeeps
<1>6. CASE MatchOrder
  BY <1>6, MatchOrderKeeps
<1>7. CASE MatchDone
  BY <1>7, MatchDoneKeeps
<1>8. CASE SettleTrade
  BY <1>8, SettleTradeKeeps
<1>9. CASE EventDone
  BY <1>9, EventDoneKeeps
<1>10. CASE UNCHANGED vars
  BY <1>10, SameKeeps DEF KernelInv, TypeOK, MakerTypes, vars
<1> QED BY <1>1, <1>2, <1>3, <1>4, <1>5, <1>6, <1>7, <1>8, <1>9, <1>10 DEF Next

LEMMA KernelHolds == Spec => []KernelInv
  BY KernelInit, KernelStep, PTL DEF Spec

\* Whatever order of events, matches and settlements comes, an order has a reservation
\* exactly while the book or a trade to settle can still fill it, and for that much
\* (engine.py's _submitAgentIntent, _refreshMarketMakerQuotes, _submitSystemFlow,
\* _applyTrades and _releaseIocRemainder with ledger.py and order_book.py).
THEOREM KernelAgrees == Spec => []BookAndLedgerAgree
<1>1. KernelInv => BookAndLedgerAgree
  BY AgreedAgrees DEF KernelInv
<1> QED BY <1>1, KernelHolds, PTL

\* The ledger passes its own audit (checkInvariants) in every state, and no trader's
\* position leaves its limit, for any number of agents, orders and any limits.
THEOREM LedgerStaysSound == Spec => []LedgerSound
<1>1. KernelInv => LedgerSound
  BY AuditedPasses DEF KernelInv, LedgerStands, Audited, PositionsStand, WithinLimit,
     TradersWithinLimit, LedgerSound
<1> QED BY <1>1, KernelHolds, PTL

\* Of the errors the handlers can raise only two can happen: a settlement refused for
\* want of cash (_preflightSettlement) and a quote off the tick grid; no self-trade, no
\* quote that trades, no settlement without its reservations, no short fill that misses
\* its position and no failed audit.
THEOREM KernelErrors == Spec => []OnlyKnownErrors
<1>1. KernelInv => OnlyKnownErrors
  BY DEF KernelInv, HandlerStands, OnlyKnownErrors
<1> QED BY <1>1, KernelHolds, PTL

=============================================================================
