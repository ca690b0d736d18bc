-------------------------- MODULE SimulationProofs --------------------------
(***************************************************************************)
(* Proofs about the parts of the simulation engine, for any agents,        *)
(* prices, quantities, orders, events and times: the levels, queues and    *)
(* index of OrderBook agree, the book is never left crossed, and it        *)
(* implements price-time priority (PriorityBook); the heap and the sets of *)
(* EventQueue implement the agenda (Agenda); an agent, whatever the market *)
(* fills and however late its orders arrive, keeps to its limit, and its   *)
(* prices to the collar (AgentIntents); the signals that are frozen before *)
(* a run are within budget (CognitionPhase); information follows its       *)
(* causes (Propagation), and the loop leaves no event, order, halt or      *)
(* delivery out (EngineLoop).                                              *)
(***************************************************************************)
EXTENDS MCSimulation, SumProofs, SequenceTheorems, FiniteSetTheorems,
        WellFoundedInduction, TLAPS

\* The queues of the levels are in the order in which the orders arrived.
Ascending(queue) == \A i, j \in 1 .. Len(queue) : i < j => queue[i] < queue[j]

Accepted == 1 .. Len(orders)

LevelsHold ==
    \A s \in Sides, p \in Prices :
        /\ ToSet(levels[s][p]) = {o \in index : orders[o].side = s /\ orders[o].price = p}
        /\ Ascending(levels[s][p])

\* Also while an order is being matched.
NeverCrossed ==
    \A b, s \in index : orders[b].side = "BUY" /\ orders[s].side = "SELL"
                            => orders[b].price < orders[s].price

BookInv ==
    /\ TypeOK
    /\ index \subseteq Accepted
    /\ \A o \in index : orders[o].left > 0
    /\ incoming # None => incoming = Len(orders) /\ incoming \notin index
    /\ LevelsHold
    /\ NeverCrossed

-----------------------------------------------------------------------------
(* Queues.                                                                 *)

LEMMA QueueFacts ==
    ASSUME NEW q \in Seq(Ids)
    PROVE  /\ Len(q) \in Nat /\ DOMAIN q = 1 .. Len(q)
           /\ \A i \in 1 .. Len(q) : q[i] \in Ids /\ q[i] \in Nat
           /\ ToSet(q) = {q[i] : i \in 1 .. Len(q)}
           /\ q = <<>> <=> ToSet(q) = {}
BY ElementOfSeq, LenProperties, OrderBookAssumption, EmptySeq DEF Ids, Promise!Ids, ToSet

\* An order that arrives last goes to the end of its level (_restOrder).
LEMMA AppendQueue ==
    ASSUME NEW q \in Seq(Ids), Ascending(q), NEW o \in Ids, \A x \in ToSet(q) : x < o
    PROVE  /\ Append(q, o) \in Seq(Ids) /\ Ascending(Append(q, o))
           /\ ToSet(Append(q, o)) = ToSet(q) \cup {o}
<1> DEFINE r == Append(q, o)
<1>1. /\ r \in Seq(Ids) /\ Len(r) = Len(q) + 1 /\ r[Len(q) + 1] = o
      /\ \A i \in 1 .. Len(q) : r[i] = q[i]
  BY AppendProperties
<1> HIDE DEF r
<1>2. /\ Len(q) \in Nat /\ \A i \in 1 .. Len(q) : q[i] \in Nat /\ q[i] \in ToSet(q)
      /\ ToSet(q) = {q[i] : i \in 1 .. Len(q)}
      /\ ToSet(r) = {r[i] : i \in 1 .. Len(r)}
  BY <1>1, QueueFacts
<1>3. Ascending(r)
  <2> SUFFICES ASSUME NEW i \in 1 .. Len(r), NEW j \in 1 .. Len(r), i < j
               PROVE  r[i] < r[j]
    BY DEF Ascending
  <2>1. i \in 1 .. Len(q) /\ r[i] = q[i]
    BY <1>1, <1>2
  <2>2. CASE j = Len(q) + 1
    BY <1>1, <1>2, <2>1, <2>2
  <2>3. CASE j # Len(q) + 1
    BY <1>1, <1>2, <2>3, <2>1 DEF Ascending
  <2> QED BY <2>2, <2>3
<1>4. ToSet(r) = ToSet(q) \cup {o}
  <2>1. ASSUME NEW x \in ToSet(r) PROVE x \in ToSet(q) \cup {o}
    BY <1>2, <1>1
  <2>2. ASSUME NEW x \in ToSet(q) PROVE x \in ToSet(r)
    BY <1>2, <1>1
  <2>3. o \in ToSet(r)
    BY <1>1, <1>2
  <2> QED BY <2>1, <2>2, <2>3
<1> QED BY <1>1, <1>3, <1>4 DEF r

\* Taking out the k-th order of a level.
LEMMA RemoveAtQueue ==
    ASSUME NEW q \in Seq(Ids), Ascending(q), NEW k \in 1 .. Len(q)
    PROVE  /\ RemoveAt(q, k) \in Seq(Ids) /\ Ascending(RemoveAt(q, k))
           /\ ToSet(RemoveAt(q, k)) = ToSet(q) \ {q[k]}
<1> DEFINE n == Len(q)
           a == SubSeq(q, 1, k - 1)
           b == SubSeq(q, k + 1, n)
           r == RemoveAt(q, k)
<1>1. /\ n \in Nat /\ \A i \in 1 .. n : q[i] \in Ids /\ q[i] \in Nat
      /\ ToSet(q) = {q[i] : i \in 1 .. n} /\ k \in Nat /\ 1 <= k /\ k <= n
  BY QueueFacts
<1> HIDE DEF n
<1>2. /\ a \in Seq(Ids) /\ Len(a) = k - 1 /\ \A i \in 1 .. k - 1 : a[i] = q[i]
  BY <1>1, SubSeqProperties
<1>3. /\ b \in Seq(Ids) /\ Len(b) = n - k /\ \A i \in 1 .. n - k : b[i] = q[k + i]
  BY <1>1, SubSeqProperties
<1>4. r = a \o b
  BY DEF RemoveAt, n
<1> HIDE DEF a, b, r
<1>5. /\ r \in Seq(Ids) /\ Len(r) = k - 1 + (n - k)
      /\ \A i \in 1 .. k - 1 + (n - k) : r[i] = IF i <= k - 1 THEN a[i] ELSE b[i - (k - 1)]
  BY <1>2, <1>3, ConcatProperties, <1>4
<1>6. /\ Len(r) = n - 1
      /\ \A i \in 1 .. n - 1 : r[i] = IF i < k THEN q[i] ELSE q[i + 1]
  BY <1>1, <1>2, <1>5, <1>3
<1> DEFINE From(i) == IF i < k THEN i ELSE i + 1
<1>7. /\ \A i \in 1 .. n - 1 : From(i) \in 1 .. n /\ From(i) # k /\ r[i] = q[From(i)]
      /\ \A i, j \in 1 .. n - 1 : i < j => From(i) < From(j)
      /\ \A x \in 1 .. n : x # k => \E i \in 1 .. n - 1 : From(i) = x
  <2>0. n \in Nat /\ k \in Nat
    BY <1>1
  <2>1. \A i \in 1 .. n - 1 : From(i) \in 1 .. n /\ From(i) # k /\ r[i] = q[From(i)]
    <3>1. \A i \in 1 .. n - 1 : r[i] = q[From(i)]
      BY ONLY <1>6
    <3>2. \A i \in 1 .. n - 1 : From(i) \in 1 .. n /\ From(i) # k
      BY ONLY <2>0
    <3> QED BY <3>1, <3>2
  <2>2. \A i, j \in 1 .. n - 1 : i < j => From(i) < From(j)
    BY <1>1
  <2>3. ASSUME NEW x \in 1 .. n, x # k PROVE \E i \in 1 .. n - 1 : From(i) = x
    <3>1. CASE x < k
      BY <1>1, <3>1
    <3>2. CASE ~(x < k)
      <4>1. x - 1 \in 1 .. n - 1 /\ ~(x - 1 < k) /\ x - 1 + 1 = x
        BY <1>1, <2>3, <3>2
      <4>2. From(x - 1) = x
        BY <4>1
      <4> QED BY <4>1, <4>2
    <3> QED BY <3>1, <3>2
  <2> QED BY <2>1, <2>2, <2>3
<1> HIDE DEF From
<1>8. ToSet(r) = {r[i] : i \in 1 .. n - 1}
  BY <1>5, <1>6, QueueFacts
<1>9. Ascending(r)
  BY <1>6, <1>7 DEF Ascending, n
<1>10. ToSet(r) = ToSet(q) \ {q[k]}
  <2>1. \A x \in 1 .. n : q[x] = q[k] => x = k
    BY <1>1 DEF Ascending, n
  <2>2. ASSUME NEW e \in ToSet(r) PROVE e \in ToSet(q) \ {q[k]}
    <3> PICK i \in 1 .. n - 1 : e = r[i]
      BY <1>8, <2>2
    <3>1. From(i) \in 1 .. n /\ From(i) # k /\ e = q[From(i)]
      BY <1>7
    <3> QED BY <1>1, <2>1, <3>1
  <2>3. ASSUME NEW e \in ToSet(q), e # q[k] PROVE e \in ToSet(r)
    BY <1>1, <2>3, <1>7, <1>8
  <2> QED BY <2>2, <2>3
<1> QED BY <1>5, <1>9, <1>10 DEF r

\* Taking out an order of a level (cancelOrder).
LEMMA RemoveFirstQueue ==
    ASSUME NEW q \in Seq(Ids), Ascending(q), NEW o \in ToSet(q)
    PROVE  /\ RemoveFirst(q, o) \in Seq(Ids) /\ Ascending(RemoveFirst(q, o))
           /\ ToSet(RemoveFirst(q, o)) = ToSet(q) \ {o}
<1>1. Len(q) \in Nat /\ \A i \in 1 .. Len(q) : q[i] \in Nat
  BY QueueFacts
<1>2. PICK k \in 1 .. Len(q) : q[k] = o
  BY QueueFacts
<1>3. {i \in 1 .. Len(q) : q[i] = o} = {k}
  BY <1>1, <1>2 DEF Ascending
<1>4. Min({k}) = k
  BY <1>1 DEF Min
<1>5. SelectInSeq(q, LAMBDA v : v = o) = k
  BY <1>3, <1>4 DEF SelectInSeq
<1>6. RemoveFirst(q, o) = RemoveAt(q, k)
  BY <1>2, <1>5 DEF RemoveFirst
<1> QED BY <1>2, <1>6, RemoveAtQueue

\* The head of a level goes first, and the rest stays as it is (_matchIncoming).
LEMMA TailQueue ==
    ASSUME NEW q \in Seq(Ids), Ascending(q), q # <<>>
    PROVE  /\ Head(q) \in ToSet(q) /\ \A x \in ToSet(q) \ {Head(q)} : Head(q) < x
           /\ Tail(q) \in Seq(Ids) /\ Ascending(Tail(q))
           /\ ToSet(Tail(q)) = ToSet(q) \ {Head(q)}
<1>1. /\ Len(q) \in Nat /\ \A i \in 1 .. Len(q) : q[i] \in Nat
      /\ ToSet(q) = {q[i] : i \in 1 .. Len(q)} /\ Len(q) # 0
  BY QueueFacts, EmptySeq
<1>2. Head(q) = q[1] /\ 1 \in 1 .. Len(q)
  BY <1>1
<1>3. Tail(q) = RemoveAt(q, 1)
  BY TailIsSubSeq, HeadTailProperties, SubSeqEmpty, ConcatEmptySeq DEF RemoveAt
<1>4. ASSUME NEW x \in ToSet(q) \ {Head(q)} PROVE Head(q) < x
  BY <1>1, <1>2 DEF Ascending
<1> QED BY <1>1, <1>2, <1>3, <1>4, RemoveAtQueue

-----------------------------------------------------------------------------
(* The book between two steps.                                             *)

LEMMA BookFacts ==
    ASSUME BookInv
    PROVE  /\ Len(orders) \in Nat /\ Len(orders) <= MaxOrders
           /\ \A o \in Accepted :
                 /\ orders[o] \in Promise!Orders /\ o \in Ids /\ o \in Nat
                 /\ orders[o].side \in Sides /\ orders[o].price \in Prices
                 /\ orders[o].price \in Nat /\ orders[o].left \in Nat
                 /\ orders[o].left <= MaxQuantity
           /\ index \subseteq Accepted
           /\ \A s \in Sides, p \in Prices : levels[s][p] \in Seq(Ids)
           /\ incoming # None => incoming \in Accepted
           /\ \A p \in Prices : p \in Nat
           /\ \A s \in Sides : Opposite(s) \in Sides /\ Opposite(s) # s
                                 /\ \A x \in Sides : x # s <=> x = Opposite(s)
<1>1. Len(orders) \in Nat /\ Len(orders) <= MaxOrders /\ orders \in Seq(Promise!Orders)
  BY LenProperties DEF BookInv, TypeOK
<1>2. MaxOrders \in Nat /\ MaxPrice \in Nat /\ MaxQuantity \in Nat
  BY OrderBookAssumption
<1>3. ASSUME NEW o \in Accepted
      PROVE  /\ orders[o] \in Promise!Orders /\ o \in Ids /\ o \in Nat
  BY <1>1, <1>2, <1>3, ElementOfSeq DEF Accepted, Ids, Promise!Ids
<1>4. \A p \in Prices : p \in Nat
  BY <1>2 DEF Prices, Promise!Prices
<1>5. \A entered \in Promise!Orders :
        /\ entered.side \in Sides /\ entered.price \in Prices
        /\ entered.price \in Nat /\ entered.left \in Nat /\ entered.left <= MaxQuantity
  BY <1>2, <1>4 DEF Promise!Orders, Sides, Prices
<1>6. \A s \in Sides, p \in Prices : levels[s][p] \in Seq(Ids)
  BY DEF BookInv, TypeOK
<1>7. incoming # None => incoming \in Accepted
  BY <1>1, <1>2 DEF BookInv, TypeOK, Accepted, Ids, Promise!Ids, None
<1>8. \A s \in Sides : Opposite(s) \in Sides /\ Opposite(s) # s
                         /\ \A x \in Sides : x # s <=> x = Opposite(s)
  BY DEF Sides, Promise!Sides, Opposite
<1> QED BY <1>1, <1>3, <1>4, <1>5, <1>6, <1>7, <1>8 DEF BookInv

LEMMA SoundFromBookInv == BookInv => TypeOK /\ BookSound
<1> SUFFICES ASSUME BookInv PROVE BookSound
  BY DEF BookInv
<1>1. IndexMatchesLevels
  <2>1. ASSUME NEW s \in Sides, NEW p \in Prices,
               NEW i \in 1 .. Len(levels[s][p]), NEW j \in 1 .. Len(levels[s][p]),
               levels[s][p][i] = levels[s][p][j]
        PROVE  i = j
    BY BookFacts, QueueFacts, <2>1 DEF BookInv, LevelsHold, Ascending
  <2> QED BY <2>1 DEF BookInv, LevelsHold, IndexMatchesLevels
<1>2. NotCrossed
  BY DEF BookInv, NeverCrossed, NotCrossed, Promise!NotCrossed
<1> QED BY <1>1, <1>2 DEF BookSound

\* a set of numbers has a least one
LEMMA LeastNumber ==
    ASSUME NEW T \in SUBSET Nat, T # {} PROVE \E x \in T : \A y \in T : x <= y
<1>1. PICK x \in T : \A y \in T : ~(<<y, x>> \in OpToRel(<, Nat))
  BY NatLessThanWellFounded, WFMin
<1>2. \A y \in T : ~(y < x)
  BY <1>1 DEF OpToRel
<1> QED BY <1>2

\* bestBid and bestAsk are the best of the occupied prices.
LEMMA BestIsBest ==
    ASSUME NEW side \in Sides, Occupied(side) # {}
    PROVE  /\ Best(side) \in Occupied(side)
           /\ \A q \in Occupied(side) : IF side = "BUY" THEN q <= Best(side) ELSE q >= Best(side)
<1>1. MaxPrice \in Nat /\ Occupied(side) \subseteq Nat
      /\ \A p \in Occupied(side) : p <= MaxPrice
  BY OrderBookAssumption DEF Occupied, Prices, Promise!Prices
<1>2. \E p \in Occupied(side) :
        \A q \in Occupied(side) : IF side = "BUY" THEN q <= p ELSE q >= p
  <2>1. CASE side # "BUY"
    BY <1>1, LeastNumber, <2>1
  <2>2. CASE side = "BUY"
    <3> DEFINE T == {MaxPrice - p : p \in Occupied(side)}
    <3>1. T \in SUBSET Nat /\ T # {}
      BY <1>1
    <3>2. PICK x \in T : \A y \in T : x <= y
      BY <3>1, LeastNumber
    <3>3. PICK p \in Occupied(side) : x = MaxPrice - p
      OBVIOUS
    <3>4. \A q \in Occupied(side) : MaxPrice - p <= MaxPrice - q
      BY <3>2, <3>3
    <3>5. \A q \in Occupied(side) : q <= p
      BY <1>1, <3>4
    <3> QED BY <2>2, <3>5
  <2> QED BY <2>1, <2>2
<1> QED BY <1>2 DEF Best

\* a price is occupied when an open order stands there
LEMMA OccupiedHolds ==
    ASSUME BookInv, NEW side \in Sides, NEW p \in Prices
    PROVE  p \in Occupied(side)
             <=> \E o \in index : orders[o].side = side /\ orders[o].price = p
BY BookFacts, QueueFacts DEF BookInv, LevelsHold, Occupied

\* the loop goes on exactly as long as the promise says
LEMMA CrossingIsMatching ==
    ASSUME BookInv, incoming # None PROVE Crossing <=> Promise!Matching
<1> DEFINE order == orders[incoming]
           other == Opposite(order.side)
<1>1. /\ order.side \in Sides /\ other \in Sides /\ order.price \in Nat
      /\ \A x \in Sides : x # order.side <=> x = other
  BY BookFacts
<1>2. \A o \in index : orders[o].side \in Sides /\ orders[o].price \in Prices
                         /\ orders[o].price \in Nat
  BY BookFacts
<1> HIDE DEF order
<1>3. ASSUME Occupied(other) # {}, Promise!Crosses(order, Best(other))
      PROVE  Promise!Matches # {}
  BY <1>1, <1>3, BestIsBest, OccupiedHolds DEF Occupied, Promise!Matches, order
<1>4. ASSUME NEW o \in Promise!Matches
      PROVE  Occupied(other) # {} /\ Promise!Crosses(order, Best(other))
  <2>1. o \in index /\ orders[o].side = other /\ Promise!Crosses(order, orders[o].price)
    BY <1>1, <1>2 DEF Promise!Matches, order
  <2>2. orders[o].price \in Occupied(other)
    BY <1>1, <1>2, <2>1, OccupiedHolds
  <2>3. /\ Best(other) \in Occupied(other)
        /\ IF other = "BUY" THEN orders[o].price <= Best(other) ELSE orders[o].price >= Best(other)
    BY <1>1, <2>2, BestIsBest
  <2>4. Best(other) \in Nat /\ orders[o].price \in Nat
    BY <1>2, <2>1, <2>3, BookFacts DEF Occupied
  <2>5. other = "BUY" <=> order.side # "BUY"
    BY <1>1 DEF Opposite
  <2> QED BY <1>1, <2>1, <2>2, <2>3, <2>4, <2>5 DEF Promise!Crosses
<1>5. Crossing <=> order.left > 0 /\ Occupied(other) # {} /\ Promise!Crosses(order, Best(other))
  BY DEF Crossing, order
<1>6. Promise!Matching <=> order.left > 0 /\ Promise!Matches # {}
  BY DEF Promise!Matching, order, None
<1> QED BY <1>3, <1>4, <1>5, <1>6

-----------------------------------------------------------------------------
(* The steps.                                                              *)

BookStep == BookInv' /\ [Promise!NextBook]_(Promise!bookVars)

LEMMA SubmitStep ==
    ASSUME BookInv, NEW a \in Agents, NEW s \in Sides, NEW p \in Prices,
           NEW q \in 1 .. MaxQuantity, NEW tif \in {"GTC", "IOC"}, SubmitLimit(a, s, p, q, tif)
    PROVE  BookStep
<1> DEFINE entered == [agent |-> a, side |-> s, price |-> p, left |-> q, tif |-> tif]
           n == Len(orders)
<1>1. /\ incoming = None /\ n < MaxOrders /\ orders' = Append(orders, entered)
      /\ incoming' = n + 1 /\ trades' = <<>> /\ UNCHANGED <<levels, index>>
  BY DEF SubmitLimit, Promise!Accept
<1>2. entered \in Promise!Orders /\ MaxOrders \in Nat
  BY OrderBookAssumption DEF Promise!Orders, Sides, Prices
<1> HIDE DEF entered
<1>3. /\ orders \in Seq(Promise!Orders) /\ n \in Nat
      /\ orders' \in Seq(Promise!Orders) /\ Len(orders') = n + 1
      /\ \A o \in 1 .. n : orders'[o] = orders[o]
  BY <1>1, <1>2, AppendProperties, LenProperties DEF BookInv, TypeOK
<1> HIDE DEF n
<1>4. index \subseteq 1 .. n
  BY DEF BookInv, Accepted, n
<1>5. \A o \in index : orders'[o] = orders[o]
  BY <1>3, <1>4
<1>6. n + 1 \in Ids /\ n + 1 \notin index /\ n + 1 # None
  BY <1>1, <1>2, <1>3, <1>4 DEF Ids, Promise!Ids, None, Promise!None
<1>7. TypeOK'
  BY <1>1, EmptySeq, <1>2, <1>3, <1>6 DEF BookInv, TypeOK
<1>8. index' \subseteq Accepted'
  BY <1>1, <1>3, <1>4 DEF Accepted
<1>9. LevelsHold' /\ NeverCrossed' /\ \A o \in index' : orders'[o].left > 0
  <2>1. LevelsHold'
    <3>1. \A x \in Sides, y \in Prices :
            {o \in index : orders'[o].side = x /\ orders'[o].price = y}
              = {o \in index : orders[o].side = x /\ orders[o].price = y}
      BY <1>5
    <3> QED BY <1>1, <3>1, ZenonT(60) DEF BookInv, LevelsHold
  <2>2. \A o \in index' : orders'[o].left > 0
    BY <1>1, <1>5 DEF BookInv
  <2>3. ASSUME NEW x \in index, NEW y \in index,
               orders'[x].side = "BUY", orders'[y].side = "SELL"
        PROVE  orders'[x].price < orders'[y].price
    BY <1>5, <2>3 DEF BookInv, NeverCrossed
  <2>4. NeverCrossed'
    BY <1>1, <2>3 DEF NeverCrossed
  <2> QED BY <2>1, <2>2, <2>4
<1>10. BookInv'
  BY <1>1, <1>3, <1>6, <1>7, <1>8, <1>9 DEF BookInv
<1>11. Promise!NextBook
  BY <1>1 DEF SubmitLimit, Promise!NextBook, Sides, Prices, None
<1> QED BY <1>10, <1>11 DEF BookStep

\* One order comes into its level or leaves it.
LEMMA LevelChange ==
    ASSUME BookInv, UNCHANGED orders, NEW o \in Accepted,
           NEW queue \in Seq(Ids), Ascending(queue),
           levels' = [levels EXCEPT ![orders[o].side][orders[o].price] = queue],
           \/ index' = index \cup {o} /\ ToSet(queue)
                = ToSet(levels[orders[o].side][orders[o].price]) \cup {o}
           \/ index' = index \ {o} /\ ToSet(queue)
                = ToSet(levels[orders[o].side][orders[o].price]) \ {o}
    PROVE  LevelsHold' /\ levels' \in [Sides -> [Prices -> Seq(Ids)]] /\ index' \subseteq Accepted
<1> DEFINE s == orders[o].side
           p == orders[o].price
<1>1. s \in Sides /\ p \in Prices /\ levels \in [Sides -> [Prices -> Seq(Ids)]]
  BY BookFacts DEF BookInv, TypeOK
<1>2. ToSet(levels[s][p]) = {x \in index : orders[x].side = s /\ orders[x].price = p}
  BY <1>1 DEF BookInv, LevelsHold
<1>3. ToSet(queue) = {x \in index' : orders[x].side = s /\ orders[x].price = p}
  BY <1>2
<1>4. index' \subseteq Accepted /\ \A x \in Accepted : x # o => (x \in index' <=> x \in index)
  BY BookFacts
<1> HIDE DEF s, p
<1>5. levels' = [levels EXCEPT ![s][p] = queue]
  BY DEF s, p
<1>6. /\ levels' \in [Sides -> [Prices -> Seq(Ids)]] /\ levels'[s][p] = queue
      /\ \A x \in Sides, y \in Prices : x # s \/ y # p => levels'[x][y] = levels[x][y]
  <2> DEFINE side == [levels[s] EXCEPT ![p] = queue]
  <2>1. /\ side \in [Prices -> Seq(Ids)] /\ side[p] = queue
        /\ \A y \in Prices : y # p => side[y] = levels[s][y]
    BY <1>1
  <2>2. levels' = [levels EXCEPT ![s] = side]
    BY <1>5
  <2> HIDE DEF side
  <2> QED BY <1>1, <2>1, <2>2
<1>7. LevelsHold'
  <2> SUFFICES ASSUME NEW x \in Sides, NEW y \in Prices
               PROVE  /\ ToSet(levels'[x][y])
                           = {i \in index' : orders[i].side = x /\ orders[i].price = y}
                      /\ Ascending(levels'[x][y])
    BY DEF LevelsHold
  <2>1. CASE x = s /\ y = p
    BY <1>3, <1>6, <2>1
  <2>2. CASE x # s \/ y # p
    BY <2>2, <1>4, BookFacts, <1>6 DEF BookInv, LevelsHold, s, p
  <2> QED BY <2>1, <2>2
<1> QED BY <1>4, <1>6, <1>7

LEMMA ReportStep ==
    ASSUME BookInv, Report PROVE BookStep
<1> DEFINE o == incoming
           order == orders[o]
<1>1. /\ o # None /\ ~Crossing /\ incoming' = None /\ UNCHANGED <<orders, trades>>
      /\ IF order.left > 0 /\ order.tif = "GTC" THEN RestOrder(o) ELSE UNCHANGED <<levels, index>>
  BY DEF Report
<1>2. o \in Accepted /\ o = Len(orders) /\ o \notin index /\ order.side \in Sides
      /\ order.price \in Prices /\ order.price \in Nat
  BY <1>1, BookFacts DEF BookInv
<1>3. ~Promise!Matching
  BY <1>1, CrossingIsMatching
<1>4. Promise!Finish
  BY <1>1, <1>3 DEF Promise!Finish, RestOrder, None
<1>5. CASE UNCHANGED <<levels, index>>
  BY <1>1, <1>4, <1>5 DEF BookStep, BookInv, TypeOK, LevelsHold, NeverCrossed, Accepted,
     Promise!NextBook
<1>6. CASE order.left > 0 /\ RestOrder(o)
  <2> DEFINE q == levels[order.side][order.price]
  <2>1. q \in Seq(Ids) /\ Ascending(q) /\ ToSet(q) \subseteq index
    BY <1>2, BookFacts DEF BookInv, LevelsHold
  <2>2. \A x \in ToSet(q) : x < o
    BY <1>2, BookFacts, <2>1 DEF Accepted
  <2>3. /\ Append(q, o) \in Seq(Ids) /\ Ascending(Append(q, o))
        /\ ToSet(Append(q, o)) = ToSet(q) \cup {o}
    BY <1>2, <2>1, <2>2, AppendQueue, BookFacts
  <2>4. /\ levels' = [levels EXCEPT ![order.side][order.price] = Append(q, o)]
        /\ index' = index \cup {o}
    BY <1>6 DEF RestOrder
  <2>5. LevelsHold' /\ levels' \in [Sides -> [Prices -> Seq(Ids)]] /\ index' \subseteq Accepted
    BY <1>1, <1>2, <2>3, <2>4, LevelChange
  <2>6. TypeOK'
    BY BookFacts, <1>1, <2>5 DEF BookInv, TypeOK
  <2>7. NeverCrossed'
    BY <1>1, <2>4, <1>2, BookFacts, <1>3, <1>6 DEF NeverCrossed, Promise!Matching, Promise!Matches,
       None, Promise!Crosses, BookInv
  <2>8. BookInv'
    BY <1>1, <1>6, <2>4, <2>5, <2>6, <2>7 DEF BookInv, Accepted
  <2> QED BY <1>4, <2>8 DEF BookStep, Promise!NextBook
<1> QED BY <1>1, <1>5, <1>6

LEMMA CancelStep ==
    ASSUME BookInv, NEW o, CancelOrder(o) PROVE BookStep
<1> DEFINE s == orders[o].side
           p == orders[o].price
           q == levels[s][p]
<1>1. /\ incoming = None /\ o \in index /\ index' = index \ {o}
      /\ levels' = [levels EXCEPT ![s][p] = RemoveFirst(q, o)]
      /\ UNCHANGED <<orders, incoming, trades>>
  BY DEF CancelOrder
<1>2. o \in Accepted /\ s \in Sides /\ p \in Prices /\ o \in Ids
  BY <1>1, BookFacts
<1>3. q \in Seq(Ids) /\ Ascending(q) /\ o \in ToSet(q)
  BY <1>1, <1>2, BookFacts DEF BookInv, LevelsHold
<1>4. /\ RemoveFirst(q, o) \in Seq(Ids) /\ Ascending(RemoveFirst(q, o))
      /\ ToSet(RemoveFirst(q, o)) = ToSet(q) \ {o}
  BY <1>3, RemoveFirstQueue
<1>5. LevelsHold' /\ levels' \in [Sides -> [Prices -> Seq(Ids)]] /\ index' \subseteq Accepted
  BY <1>1, <1>2, <1>4, LevelChange
<1>6. TypeOK' /\ NeverCrossed' /\ \A x \in index' : orders'[x].left > 0
  BY <1>1, <1>5 DEF BookInv, TypeOK, NeverCrossed
<1>7. BookInv'
  BY <1>1, <1>5, <1>6 DEF BookInv, Accepted
<1>8. Promise!Withdraw(o)
  BY <1>1 DEF Promise!Withdraw, None
<1> QED BY <1>2, <1>7, <1>8 DEF BookStep, Promise!NextBook, Ids

\* An order that is filled leaves its level and the index, whatever else trades.
LEMMA MatchStep ==
    ASSUME BookInv, MatchIncoming PROVE BookStep
<1> DEFINE n == incoming
           other == Opposite(orders[n].side)
           best == Best(other)
           queue == levels[other][best]
           m == Head(queue)
           q == Promise!Least(orders[n].left, orders[m].left)
           filled == orders[m].left <= orders[n].left
<1>1. /\ n # None /\ Crossing /\ Promise!TradeWith(m) /\ UNCHANGED incoming
      /\ levels' = IF filled THEN [levels EXCEPT ![other][best] = Tail(queue)] ELSE levels
      /\ index' = IF filled THEN index \ {m} ELSE index
  BY DEF MatchIncoming
<1>2. /\ n \in Accepted /\ n = Len(orders) /\ n \notin index /\ n \in Ids
      /\ orders[n].side \in Sides /\ other \in Sides /\ other # orders[n].side
      /\ orders[n].price \in Nat /\ orders[n].left \in Nat /\ orders[n].left > 0
      /\ orders[n].left <= MaxQuantity
  BY <1>1, BookFacts DEF BookInv, Crossing
<1>3. Promise!Matching
  BY <1>1, CrossingIsMatching
<1>4. /\ best \in Prices /\ best \in Nat /\ queue # <<>>
      /\ Promise!Crosses(orders[n], best)
      /\ \A p \in Occupied(other) : IF other = "BUY" THEN p <= best ELSE p >= best
  BY <1>1, <1>2, BestIsBest, BookFacts DEF Crossing, Occupied
<1>5. /\ queue \in Seq(Ids) /\ Ascending(queue)
      /\ ToSet(queue) = {o \in index : orders[o].side = other /\ orders[o].price = best}
  BY <1>2, <1>4, BookFacts DEF BookInv, LevelsHold
<1>6. /\ m \in ToSet(queue) /\ \A x \in ToSet(queue) \ {m} : m < x
      /\ Tail(queue) \in Seq(Ids) /\ Ascending(Tail(queue))
      /\ ToSet(Tail(queue)) = ToSet(queue) \ {m}
  BY <1>4, <1>5, TailQueue
<1> HIDE DEF n, queue, best, other, m
<1>7. /\ m \in index /\ orders[m].side = other /\ orders[m].price = best
      /\ m \in Accepted /\ m \in Ids /\ m # n
      /\ orders[m].left \in Nat /\ orders[m].left > 0 /\ orders[m].left <= MaxQuantity
  BY <1>5, <1>6, <1>2, BookFacts DEF BookInv
\* the best of all the orders that could trade
<1>8. m \in Promise!Matches /\ \A o \in Promise!Matches \ {m} : Promise!Before(m, o)
  <2>1. m \in Promise!Matches
    BY <1>2, <1>4, <1>7 DEF Promise!Matches, n
  <2>2. ASSUME NEW o \in Promise!Matches \ {m} PROVE Promise!Before(m, o)
    <3>1. /\ o \in index /\ orders[o].side = other /\ orders[o].price \in Prices
          /\ orders[o].price \in Nat
      BY <1>2, BookFacts DEF Promise!Matches, other, n
    <3>2. orders[o].price \in Occupied(other)
      BY <1>2, <3>1, OccupiedHolds
    <3>3. CASE orders[o].price = best
      BY <1>5, <2>2, <3>1, <3>3, <1>6, <1>7 DEF Promise!Before
    <3>4. CASE orders[o].price # best
      BY <1>4, <3>1, <3>2, <3>4, <1>7 DEF Promise!Crosses, Promise!Before
    <3> QED BY <3>3, <3>4
  <2> QED BY <2>1, <2>2
<1>9. Promise!Match
  BY <1>1, <1>3, <1>8 DEF Promise!Match, filled, n
\* what the trade does to the two orders
<1>10. /\ q \in 1 .. MaxQuantity /\ q <= orders[n].left /\ q <= orders[m].left
       /\ ~filled => orders[m].left - q > 0
  BY <1>2, <1>7, OrderBookAssumption DEF Promise!Least
<1> DEFINE a == orders[n].left - q
           b == orders[m].left - q
<1>11. a \in 0 .. MaxQuantity /\ b \in 0 .. MaxQuantity
  BY <1>2, <1>7, <1>10, OrderBookAssumption
<1>12. /\ orders' = [orders EXCEPT ![n].left = a, ![m].left = b]
       /\ trades' = Append(trades, [maker |-> m, taker |-> n, price |-> orders[m].price,
                                    quantity |-> q])
  BY <1>1 DEF Promise!TradeWith, n
<1> HIDE DEF a, q
<1>13. /\ orders' \in Seq(Promise!Orders) /\ Len(orders') = Len(orders)
       /\ \A o \in Accepted : orders'[o].side = orders[o].side /\ orders'[o].price = orders[o].price
       /\ \A o \in Accepted : o # n /\ o # m => orders'[o].left = orders[o].left
       /\ orders'[m].left = b
  <2> DEFINE x == [orders[n] EXCEPT !.left = a]
             y == [orders[m] EXCEPT !.left = b]
             step == [orders EXCEPT ![n] = x]
  <2>1. orders \in Seq(Promise!Orders) /\ orders[n] \in Promise!Orders /\ orders[m] \in Promise!Orders
    BY <1>2, <1>7, BookFacts DEF BookInv, TypeOK
  <2>2. /\ x \in Promise!Orders /\ x.side = orders[n].side /\ x.price = orders[n].price
        /\ y \in Promise!Orders /\ y.side = orders[m].side /\ y.price = orders[m].price
        /\ y.left = b
    BY <1>11, <2>1 DEF Promise!Orders
  <2>3. orders' = [step EXCEPT ![m] = y]
    BY <1>7, <1>12
  <2> HIDE DEF x, y, b
  <2>4. /\ step \in Seq(Promise!Orders) /\ Len(step) = Len(orders)
        /\ \A o \in Accepted : step[o] = IF o = n THEN x ELSE orders[o]
    BY <1>2, <2>1, <2>2, ExceptSeq DEF Accepted
  <2> HIDE DEF step
  <2>5. /\ orders' \in Seq(Promise!Orders) /\ Len(orders') = Len(orders)
        /\ \A o \in Accepted : orders'[o] = IF o = m THEN y ELSE step[o]
    BY <1>7, <2>2, <2>3, <2>4, ExceptSeq DEF Accepted
  <2> QED BY <1>7, <2>2, <2>4, <2>5
<1>14. trades' \in Seq(Promise!Trades)
  BY <1>2, <1>4, <1>7, <1>10, <1>12, AppendProperties DEF Promise!Trades, Ids, Prices, BookInv, TypeOK
<1>15. index' \subseteq index /\ Accepted' = Accepted
  BY <1>1, <1>13 DEF Accepted
<1>16. NeverCrossed'
  BY <1>15, <1>13, BookFacts DEF NeverCrossed, BookInv
<1>17. \A o \in index' : orders'[o].left > 0
  BY <1>2, <1>15, BookFacts, <1>1, <1>10, <1>13 DEF BookInv
<1>18. LevelsHold' /\ levels' \in [Sides -> [Prices -> Seq(Ids)]]
  <2> DEFINE At(s, p) == {o \in index' : orders'[o].side = s /\ orders'[o].price = p}
  <2>1. ASSUME NEW s \in Sides, NEW p \in Prices
        PROVE  At(s, p) = {o \in index : orders[o].side = s /\ orders[o].price = p} \cap index'
    BY <1>13, <1>15, BookFacts
  <2>2. ASSUME NEW s \in Sides, NEW p \in Prices
        PROVE  At(s, p) = ToSet(levels[s][p]) \cap index' /\ Ascending(levels[s][p])
    BY <2>1 DEF BookInv, LevelsHold
  <2> HIDE DEF At
  <2>3. levels \in [Sides -> [Prices -> Seq(Ids)]]
    BY DEF BookInv, TypeOK
  <2>4. CASE ~filled
    <3>1. levels' = levels /\ index' = index
      BY <1>1, <2>4
    <3>2. ASSUME NEW s \in Sides, NEW p \in Prices PROVE At(s, p) = ToSet(levels[s][p])
      <4>1. ToSet(levels[s][p]) \subseteq index
        BY DEF BookInv, LevelsHold
      <4> QED BY <2>2, <3>1, <4>1
    <3> QED BY <2>2, <2>3, <3>1, <3>2 DEF LevelsHold, At
  <2>5. CASE filled
    <3>1. levels' = [levels EXCEPT ![other][best] = Tail(queue)] /\ index' = index \ {m}
      BY <1>1, <2>5 DEF n, queue, best, other, m
    <3>2. /\ levels' \in [Sides -> [Prices -> Seq(Ids)]] /\ levels'[other][best] = Tail(queue)
          /\ \A x \in Sides, y \in Prices : x # other \/ y # best => levels'[x][y] = levels[x][y]
      BY <1>2, <1>4, <1>6, <2>3, <3>1
    <3>3. ASSUME NEW s \in Sides, NEW p \in Prices
          PROVE  At(s, p) = ToSet(levels'[s][p]) /\ Ascending(levels'[s][p])
      <4>1. CASE s = other /\ p = best
        <5>1. ToSet(queue) = ToSet(levels[s][p]) /\ ToSet(queue) \subseteq index
          BY <1>5, <4>1 DEF queue
        <5>2. At(s, p) = ToSet(queue) \ {m}
          BY <2>2, <3>1, <5>1
        <5> QED BY <1>6, <3>2, <4>1, <5>2
      <4>2. CASE s # other \/ p # best
        <5>1. ToSet(levels[s][p]) = {o \in index : orders[o].side = s /\ orders[o].price = p}
          BY DEF BookInv, LevelsHold
        <5>2. m \notin ToSet(levels[s][p])
          BY <1>7, <4>2, <5>1
        <5>3. At(s, p) = ToSet(levels[s][p])
          BY <2>2, <3>1, <5>1, <5>2
        <5> QED BY <2>2, <3>2, <4>2, <5>3
      <4> QED BY <4>1, <4>2
    <3> QED BY <3>2, <3>3 DEF LevelsHold, At
  <2> QED BY <2>4, <2>5
<1>19. TypeOK'
  BY <1>1, <1>13, <1>14, <1>15, <1>18 DEF BookInv, TypeOK
<1>20. BookInv'
  BY <1>1, <1>2, <1>13, <1>15, <1>16, <1>17, <1>18, <1>19 DEF BookInv, n
<1> QED BY <1>9, <1>20 DEF BookStep, Promise!NextBook

-----------------------------------------------------------------------------
(* The theorems.                                                           *)

LEMMA BookInitially == Init => BookInv /\ Promise!InitBook
<1> SUFFICES ASSUME Init PROVE BookInv /\ Promise!InitBook
  OBVIOUS
<1>1. /\ orders = <<>> /\ levels = [s \in Sides |-> [p \in Prices |-> <<>>]]
      /\ index = {} /\ incoming = None /\ trades = <<>>
  BY DEF Init
<1>2. /\ <<>> \in Seq(Promise!Orders) /\ <<>> \in Seq(Promise!Trades) /\ <<>> \in Seq(Ids)
      /\ Len(<<>>) = 0 /\ ToSet(<<>>) = {}
  BY EmptySeq, QueueFacts
<1>3. TypeOK
  BY <1>1, <1>2, OrderBookAssumption DEF TypeOK
<1>4. LevelsHold /\ NeverCrossed
  BY <1>1, <1>2 DEF LevelsHold, NeverCrossed, Ascending
<1>5. Promise!InitBook
  BY <1>1 DEF Promise!InitBook, None
<1> QED BY <1>1, <1>3, <1>4, <1>5 DEF BookInv

LEMMA BookNextStep ==
    ASSUME BookInv, [Next]_vars PROVE BookStep
<1>1. CASE UNCHANGED vars
  BY <1>1 DEF vars, BookStep, BookInv, TypeOK, LevelsHold, NeverCrossed, Accepted,
     Promise!bookVars
<1>2. CASE Next
  BY <1>2, SubmitStep, MatchStep, ReportStep, CancelStep DEF Next
<1> QED BY <1>1, <1>2

LEMMA BookInvHolds == Spec => []BookInv
<1>1. BookInv /\ [Next]_vars => BookInv'
  BY BookNextStep DEF BookStep
<1> QED BY BookInitially, <1>1, PTL DEF Spec

\* The index and the levels hold the same open orders, each once, and between
\* submissions no bid meets an ask (order_book.py), for any book.
THEOREM BookAgrees == Spec => []BookSound
<1>1. BookInv => BookSound
  BY SoundFromBookInv
<1> QED BY BookInvHolds, <1>1, PTL

\* The orders, queues and index keep their types.
THEOREM BookTypes == Spec => []TypeOK
<1>1. BookInv => TypeOK
  BY SoundFromBookInv
<1> QED BY BookInvHolds, <1>1, PTL

\* Levels, queues and index implement price-time priority: every trade is with the
\* order that goes before all others, and nothing rests that could still trade.
THEOREM BookKeepsPromise == Spec => ImplementsPriorityBook
<1>1. BookInv /\ [Next]_vars => [Promise!NextBook]_(Promise!bookVars)
  BY BookNextStep DEF BookStep
<1>2. Init => Promise!InitBook
  BY BookInitially
<1> QED BY BookInvHolds, <1>1, <1>2, PTL DEF Spec, ImplementsPriorityBook, Promise!SpecBook

-----------------------------------------------------------------------------
(* The event queue.                                                        *)

\* An entry of the heap, and what its fields are.
LEMMA EntryFields ==
    ASSUME NEW e \in HeapEntry
    PROVE  /\ e.time \in EventTimes /\ e.time \in Nat
           /\ e.priority \in EventPriorities /\ e.priority \in Nat
           /\ e.seq \in Nat \ {0} /\ e.job \in EventIds
BY QueueAssumption DEF HeapEntry

\* Entries are told apart by their number and by their event.
EntriesDiffer ==
    /\ \A e \in heap : e.seq <= scheduled
    /\ \A e, f \in heap : e.seq = f.seq => e = f
    /\ \A e, f \in heap : e.job = f.job => e = f

QueueInv == QueueTypeOK /\ IsFiniteSet(used) /\ EntriesDiffer /\ cancelled \subseteq used

\* The head is one entry, before all others.
LEMMA HeapOrderAsym ==
    ASSUME NEW e \in HeapEntry, NEW f \in HeapEntry, HeapOrder(e, f) PROVE ~HeapOrder(f, e)
BY EntryFields DEF HeapOrder

LEMMA OneHead ==
    ASSUME NEW h \in SUBSET HeapEntry, NEW e \in Heads(h) PROVE Heads(h) = {e}
BY HeapOrderAsym DEF Heads

\* What is discarded was cancelled; what is active stays.
LEMMA DiscardedCancelled ==
    ASSUME QueueInv, NEW e \in heap
    PROVE  /\ e \in Discarded => e.job \in cancelled /\ e.job \notin active
           /\ e.job \in active => e \in heap \ Discarded
BY DEF QueueInv, QueueTypeOK, Discarded

\* The sets of ids after a discarding that takes `gone` along from the heap.
LEMMA DiscardKeepsInv ==
    ASSUME QueueInv, Discard, NEW gone \in SUBSET (heap \ Discarded),
           heap' = (heap \ Discarded) \ gone, active' = active \ {e.job : e \in gone},
           \A e \in gone : e.job \in active,
           clock' \in {0} \cup EventTimes
    PROVE  QueueInv'
BY DiscardedCancelled DEF QueueInv, QueueTypeOK, Discard, Discarded, EntriesDiffer

\* popNext takes the first event that is not cancelled, if there is one.
LEMMA PopTakesHead ==
    ASSUME QueueInv, PopNext
    PROVE  \/ /\ heap \ Discarded = {} /\ heap' = {} /\ active' = active /\ clock' = clock
           \/ \E h \in heap \ Discarded :
                 /\ Heads(heap \ Discarded) = {h} /\ h.job \in active
                 /\ heap' = (heap \ Discarded) \ {h} /\ active' = active \ {h.job}
                 /\ clock' = h.time
<1> DEFINE left == heap \ Discarded
<1>1. left \in SUBSET HeapEntry
  BY DEF QueueInv, QueueTypeOK
<1>2. /\ heap' = left \ Heads(left) /\ active' = active \ {e.job : e \in Heads(left)}
      /\ clock' \in IF left = {} THEN {clock} ELSE {e.time : e \in Heads(left)}
  BY DEF PopNext
<1>3. CASE left = {}
  BY <1>3, <1>2 DEF Heads
<1>4. CASE left # {}
  <2>1. PICK h \in Heads(left) : clock' = h.time
    BY <1>2, <1>4
  <2>2. Heads(left) = {h} /\ h \in left
    <3>1. h \in left
      BY DEF Heads
    <3> HIDE DEF left
    <3> QED BY <1>1, <3>1, OneHead
  <2>3. h.job \in active
    BY <2>2, <1>1, HeapOrderAsym DEF Discarded, Heads, QueueInv, QueueTypeOK
  <2>4. {e.job : e \in Heads(left)} = {h.job}
    BY <2>2
  <2> QED BY <1>2, <2>1, <2>2, <2>3, <2>4
<1> QED BY <1>3, <1>4

LEMMA QueueInitInv == QueueInit => QueueInv
BY FS_EmptySet DEF QueueInit, QueueInv, QueueTypeOK, EntriesDiffer

LEMMA ScheduleKeepsInv ==
    ASSUME QueueInv, NEW time \in EventTimes, NEW priority \in EventPriorities,
           NEW id \in EventIds, ScheduleEvent(time, priority, id)
    PROVE  /\ QueueInv'
           /\ \A e \in heap : e.job # id
<1> DEFINE new == [time |-> time, priority |-> priority, seq |-> scheduled + 1, job |-> id]
<1>1. /\ heap \subseteq HeapEntry /\ active \cup cancelled = {e.job : e \in heap}
      /\ active \cap cancelled = {} /\ active \subseteq used /\ used \subseteq EventIds
      /\ scheduled = Cardinality(used) /\ cancelled \subseteq used /\ EntriesDiffer
      /\ IsFiniteSet(used) /\ clock \in {0} \cup EventTimes
  BY DEF QueueInv, QueueTypeOK
<1>2. /\ id \notin used /\ scheduled' = scheduled + 1 /\ heap' = heap \cup {new}
      /\ active' = active \cup {id} /\ used' = used \cup {id}
      /\ clock' = clock /\ cancelled' = cancelled
  BY DEF ScheduleEvent, Unused
<1>3. scheduled \in Nat
  BY <1>1, FS_CardinalityType
<1>4. new \in HeapEntry /\ new.seq = scheduled + 1 /\ new.job = id
  BY <1>3 DEF HeapEntry
<1>5. \A e \in heap : e.job # id
  BY <1>1, <1>2
<1>6. IsFiniteSet(used') /\ Cardinality(used') = Cardinality(used) + 1
  BY <1>1, <1>2, FS_AddElement
<1>7. \A e \in heap : e.seq \in Nat /\ e.seq <= scheduled /\ e.seq # scheduled + 1
  BY <1>1, <1>3, EntryFields DEF EntriesDiffer
<1> HIDE DEF new
<1>8. EntriesDiffer'
  BY <1>1, <1>2, <1>3, <1>4, <1>5, <1>7 DEF EntriesDiffer
<1>9. active' \cup cancelled' = {e.job : e \in heap'}
  BY <1>1, <1>2, <1>4
<1>10. QueueTypeOK'
  BY <1>1, <1>2, <1>4, <1>5, <1>6, <1>9 DEF QueueTypeOK
<1> QED BY <1>1, <1>2, <1>5, <1>6, <1>8, <1>10 DEF QueueInv

LEMMA CancelKeepsInv ==
    ASSUME QueueInv, NEW id \in EventIds, CancelEvent(id) PROVE QueueInv'
BY DEF QueueInv, QueueTypeOK, EntriesDiffer, CancelEvent

LEMMA PeekKeepsInv == ASSUME QueueInv, PeekNext PROVE QueueInv'
BY DiscardKeepsInv DEF PeekNext, QueueInv, QueueTypeOK

LEMMA PopKeepsInv == ASSUME QueueInv, PopNext PROVE QueueInv'
<1>0. Discard /\ clock \in {0} \cup EventTimes /\ heap \subseteq HeapEntry
  BY DEF PopNext, QueueInv, QueueTypeOK
<1>1. CASE heap \ Discarded = {} /\ heap' = {} /\ active' = active /\ clock' = clock
  BY <1>1, <1>0, DiscardKeepsInv
<1>2. CASE \E h \in heap \ Discarded :
              /\ Heads(heap \ Discarded) = {h} /\ h.job \in active
              /\ heap' = (heap \ Discarded) \ {h} /\ active' = active \ {h.job}
              /\ clock' = h.time
  <2>1. PICK h \in heap \ Discarded :
           /\ h.job \in active /\ heap' = (heap \ Discarded) \ {h}
           /\ active' = active \ {h.job} /\ clock' = h.time
    BY <1>2
  <2> DEFINE gone == {h}
  <2>2. /\ gone \in SUBSET (heap \ Discarded) /\ heap' = (heap \ Discarded) \ gone
        /\ active' = active \ {e.job : e \in gone} /\ clock' \in EventTimes
        /\ \A e \in gone : e.job \in active
    BY <1>0, <2>1, EntryFields
  <2> HIDE DEF gone
  <2> QED BY <1>0, <2>2, DiscardKeepsInv
<1> QED BY <1>1, <1>2, PopTakesHead

LEMMA QueueStep == QueueInv /\ [QueueNext]_queueVars => QueueInv'
BY ScheduleKeepsInv, CancelKeepsInv, PeekKeepsInv, PopKeepsInv DEF queueVars, QueueInv, QueueTypeOK,
   EntriesDiffer, QueueNext

\* What the agenda sees.
Live == {e \in heap : e.job \in active}

LEMMA QueueRefines == QueueInv /\ [QueueNext]_queueVars => [Visible!AgendaNext]_Visible!agendaVars
<1> SUFFICES ASSUME QueueInv, [QueueNext]_queueVars
             PROVE  [Visible!AgendaNext]_Visible!agendaVars
  OBVIOUS
<1>0. /\ heap \subseteq HeapEntry /\ active \cup cancelled = {e.job : e \in heap}
      /\ active \cap cancelled = {} /\ EntriesDiffer
  BY DEF QueueInv, QueueTypeOK
<1>1. ASSUME NEW time \in EventTimes, NEW priority \in EventPriorities, NEW id \in EventIds,
             ScheduleEvent(time, priority, id)
      PROVE  Visible!Schedule(time, priority, id)
  BY <1>1, ScheduleKeepsInv DEF ScheduleEvent, Visible!At, Live, Visible!Schedule
<1>2. ASSUME NEW id \in EventIds, CancelEvent(id) PROVE \E e \in Live : Visible!Withdraw(e)
  BY <1>0, <1>2 DEF CancelEvent, Live, EntriesDiffer, Visible!Withdraw
<1>3. ASSUME PeekNext PROVE UNCHANGED Visible!agendaVars
  BY <1>3, DiscardedCancelled DEF PeekNext, Live, Discard, Visible!agendaVars
<1>4. ASSUME PopNext PROVE UNCHANGED Visible!agendaVars \/ \E e \in Live : Visible!Take(e)
  <2>0. scheduled' = scheduled
    BY <1>4 DEF PopNext, Discard
  <2>1. CASE heap \ Discarded = {} /\ heap' = {} /\ active' = active /\ clock' = clock
    BY <2>1, DiscardedCancelled, <2>0 DEF Live, Visible!agendaVars
  <2>2. CASE \E h \in heap \ Discarded :
                /\ Heads(heap \ Discarded) = {h} /\ h.job \in active
                /\ heap' = (heap \ Discarded) \ {h} /\ active' = active \ {h.job}
                /\ clock' = h.time
    BY <2>2, DiscardedCancelled, <1>0, <2>0 DEF Live, Heads, EntriesDiffer, Visible!Take,
       Visible!IsNext, Visible!Earlier, HeapOrder
  <2> QED BY <1>4, <2>1, <2>2, PopTakesHead
<1>5. CASE UNCHANGED queueVars
  BY <1>5 DEF queueVars, Visible!agendaVars
<1>6. CASE QueueNext
  BY <1>1, <1>2, <1>3, <1>4, <1>6 DEF QueueNext, Visible!AgendaNext, Live
<1> QED BY <1>5, <1>6

LEMMA QueueInvHolds == QueueSpec => []QueueInv
BY QueueInitInv, QueueStep, PTL DEF QueueSpec

\* The types of the event queue: the heap holds the active and the cancelled events, and
\* every number that was given belongs to an id that was used.
THEOREM QueueTypes == QueueSpec => []QueueTypeOK
<1>1. QueueInv => QueueTypeOK
  BY DEF QueueInv
<1> QED BY <1>1, QueueInvHolds, PTL

\* The heap with its lazily cancelled entries (event_queue.py) is the agenda of pending
\* events: what is taken is the first of them, a cancelled event neither comes out nor
\* delays the others.
THEOREM QueueKeepsAgenda == QueueSpec => ImplementsAgenda
<1>1. QueueInit => Visible!AgendaInit
  BY DEF QueueInit, Visible!AgendaInit
<1>2. QueueInv /\ [QueueNext]_queueVars => [Visible!AgendaNext]_Visible!agendaVars
  BY QueueRefines
<1> QED BY <1>1, <1>2, QueueInvHolds, PTL DEF QueueSpec, ImplementsAgenda, Visible!AgendaSpec

-----------------------------------------------------------------------------
(* The intents of an agent.                                                *)

AgentInv == AgentTypeOK /\ HoldingWithinLimit /\ IntentsBounded

LimitRange == -PositionLimit .. PositionLimit

LEMMA LimitFacts ==
    PositionLimit \in Nat /\ PositionLimit > 0 /\ Tick \in Nat /\ Tick > 0
BY AgentIntentsAssumption

LEMMA WithinIsInRange ==
    ASSUME NEW n \in Int
    PROVE  (Size(n) <= PositionLimit) <=> (n \in LimitRange)
BY LimitFacts DEF Size, LimitRange

\* A rule wants at least one share.
LEMMA WantedIsPositive ==
    ASSUME NEW type, NEW side, NEW held \in Int, NEW base \in Nat \ {0}
    PROVE  Wanted(type, side, held, base) \in Nat \ {0}
BY DEF Size, Higher, Wanted

\* makeOrderIntent keeps to the limit, and a forced sale to what is held.
LEMMA RulesKeepToLimit ==
    ASSUME NEW type, NEW side \in {"BUY", "SELL"}, NEW held \in LimitRange,
           NEW wanted \in Nat \ {0}
    PROVE  /\ RuleSide(side, held, wanted) \in {"BUY", "SELL"}
           /\ RuleQuantity(type, side, held, wanted) \in Nat \ {0}
           /\ ~PassesLimit(RuleSide(side, held, wanted), held,
                           RuleQuantity(type, side, held, wanted))
           /\ (type \in Forced /\ RuleSide(side, held, wanted) = "SELL")
                 => RuleQuantity(type, side, held, wanted) <= Higher(held, 1)
<1> DEFINE quarter == Size(held) \div 4
           over == PassesLimit(side, held, wanted)
           turned == RuleSide(side, held, wanted)
           kept == IF over THEN Lower(wanted, Higher(1, quarter)) ELSE wanted
           q == RuleQuantity(type, side, held, wanted)
<1>1. /\ held \in Int /\ -PositionLimit <= held /\ held <= PositionLimit
      /\ PositionLimit \in Nat /\ PositionLimit >= 1
  BY LimitFacts DEF LimitRange
<1>2. quarter \in Nat /\ (held > 0 => 4 * quarter <= held) /\ (held <= 0 => 4 * quarter <= -held)
  BY <1>1 DEF Size
<1>3. turned = IF over THEN (IF held > 0 THEN "SELL" ELSE "BUY") ELSE side
  BY DEF RuleSide
<1>4. turned \in {"BUY", "SELL"}
  BY <1>3
<1>5. q = IF type \in Forced /\ turned = "SELL" THEN Lower(kept, Higher(held, 1)) ELSE kept
  BY DEF RuleQuantity
<1>6. ~over => /\ side = "BUY" => held + wanted <= PositionLimit
               /\ side = "SELL" => held - wanted >= -PositionLimit
  BY <1>1 DEF PassesLimit, Size, Signed
<1> HIDE DEF quarter, over, turned, kept, q
<1>7. kept \in Nat \ {0} /\ (over => (kept = 1 \/ kept <= quarter)) /\ (~over => kept = wanted)
  BY <1>2 DEF kept, Lower, Higher
<1>8. q \in Nat \ {0} /\ q <= kept
  BY <1>1, <1>5, <1>7 DEF Lower, Higher
<1>9. (type \in Forced /\ turned = "SELL") => q <= Higher(held, 1)
  BY <1>1, <1>5, <1>7 DEF Lower, Higher
<1>10. turned = "BUY" => held + q \in LimitRange
  BY <1>3, <1>1, <1>2, <1>7, <1>8, <1>6 DEF LimitRange
<1>11. turned = "SELL" => held - q \in LimitRange
  BY <1>3, <1>1, <1>2, <1>7, <1>8, <1>6 DEF LimitRange
<1>12. held + Signed(turned, q) \in LimitRange
  BY <1>1, <1>4, <1>8, <1>10, <1>11 DEF Signed
<1>13. ~PassesLimit(turned, held, q)
  BY <1>12, LimitFacts, WithinIsInRange DEF Size, LimitRange, PassesLimit
<1> QED BY <1>4, <1>8, <1>9, <1>13 DEF turned, q

\* The target of a signal is a position within the limit.
LEMMA TargetKeepsToLimit ==
    ASSUME NEW signal \in BeliefSignals, NEW held \in LimitRange
    PROVE  Target(signal, held) \in LimitRange
<1> DEFINE f == signal.fraction
           u == Higher(1000, 10000 - 75 * signal.uncertainty)
           c == Higher(10, signal.confidence)
           s == Sized(signal)
           r == AwayRounded(s, 100000000)
<1>1. /\ signal.fraction \in Int /\ signal.uncertainty \in Int /\ signal.confidence \in Int
  BY AgentIntentsAssumption
<1>2. f \in Int /\ u \in Int /\ c \in Int
  BY <1>1 DEF Higher
<1>3. s = f * PositionLimit * u * c
  BY DEF Sized
<1> HIDE DEF f, u, c, s
<1>4. s \in Int
  BY <1>2, LimitFacts, <1>3
<1>5. r \in Int
  BY <1>4 DEF AwayRounded
<1> HIDE DEF r
<1>6. Higher(-PositionLimit, Lower(PositionLimit, r)) \in LimitRange
  BY <1>5, LimitFacts DEF Higher, Lower, LimitRange
<1>7. 0 \in LimitRange
  BY LimitFacts DEF LimitRange
<1>8. Target(signal, held) \in {held, 0, Higher(-PositionLimit, Lower(PositionLimit, r))}
  BY DEF Target, r, s
<1> QED BY <1>6, <1>7, <1>8

\* Where a signal's intent leads if it trades whole.
After(intent, held) == held + Signed(intent.side, intent.quantity)

\* translate moves towards the target by no more than its share of the depth.
LEMMA SignalsKeepToTarget ==
    ASSUME NEW signal \in BeliefSignals, NEW held \in LimitRange, NEW depth \in Depths, NEW top,
           NEW intent, intent = SignalIntent(signal, held, depth, top), intent # Nothing
    PROVE  /\ intent.side \in {"BUY", "SELL"}
           /\ intent.quantity \in Nat \ {0}
           /\ ~PassesLimit(intent.side, held, intent.quantity)
           /\ signal.preference \notin Passive
           /\ intent.quantity <= Participation(depth)
           /\ \/ held < After(intent, held) /\ After(intent, held) <= Target(signal, held)
              \/ Target(signal, held) <= After(intent, held) /\ After(intent, held) < held
<1> DEFINE target == Target(signal, held)
           move == target - held
           share == Participation(depth)
           way == IF move > 0 THEN "BUY" ELSE "SELL"
           q == Lower(Size(move), share)
<1>1. /\ held \in Int /\ target \in Int /\ PositionLimit \in Nat
      /\ -PositionLimit <= held /\ held <= PositionLimit
      /\ -PositionLimit <= target /\ target <= PositionLimit
  BY TargetKeepsToLimit, LimitFacts DEF LimitRange
<1>2. share \in Nat
  BY AgentIntentsAssumption DEF Participation
<1> DEFINE price == IF way = "BUY" THEN SnapUp(LimitPrice(signal, way, top))
                    ELSE SnapDown(LimitPrice(signal, way, top))
           final == Style(signal) # "MARKETABLE_LIMIT"
<1>0. intent = IF ~Usable(signal) \/ q = 0 THEN Nothing
               ELSE [side |-> way, quantity |-> q, price |-> price, lasting |-> final]
  BY SMT DEF SignalIntent
<1> HIDE DEF price, final, q, way
<1>3. q # 0 /\ intent.side = way /\ intent.quantity = q
  BY <1>0
<1> USE DEF q, way
<1>4. signal.preference \in Passive => target = held
  BY SMT DEF Target, Passive
<1> HIDE DEF target, share
<1>5. q \in Nat /\ q <= share /\ q <= Size(move) /\ move \in Int
  BY <1>1, <1>2 DEF Lower, Size
<1>6. CASE move > 0
  BY <1>6, <1>5, <1>3, <1>1, <1>4 DEF Size, After, Signed, LimitRange, PassesLimit, target, share
<1>7. CASE ~(move > 0)
  BY <1>7, <1>5, <1>1, <1>3, <1>4 DEF Size, After, Signed, LimitRange, PassesLimit, target, share
<1> QED BY <1>6, <1>7

LEMMA SnapTypes ==
    ASSUME NEW price \in Int
    PROVE  SnapUp(price) \in Nat /\ SnapDown(price) \in Nat
BY LimitFacts DEF SnapUp, SnapDown, Higher

LEMMA TopTypes ==
    ASSUME NEW top \in Tops
    PROVE  Mid(top) \in Int /\ BestBid(top) \in Int /\ BestAsk(top) \in Int
BY AgentIntentsAssumption DEF EvenRounded, Mid, BestBid, Higher, Lower, BestAsk

LEMMA RulePriceTypes ==
    ASSUME NEW side \in {"BUY", "SELL"}, NEW reference \in Int, NEW patience \in {0, 2, 3}
    PROVE  RulePrice(side, reference, patience) \in Nat
<1> DEFINE high == reference * (10000 + PriceCollar)
           low == reference * (10000 - PriceCollar)
<1>1. high \in Int /\ low \in Int
  BY AgentIntentsAssumption
<1>2. /\ RulePrice("BUY", reference, 0) = SnapUp(EvenRounded(high, 10000))
      /\ RulePrice("SELL", reference, 0) = SnapDown(Higher(1, EvenRounded(low, 10000)))
  BY DEF RulePrice
<1> HIDE DEF high, low
<1>3. EvenRounded(high, 10000) \in Int /\ Higher(1, EvenRounded(low, 10000)) \in Int
  BY <1>1 DEF EvenRounded, Higher
<1>4. RulePrice("BUY", reference, 0) \in Nat /\ RulePrice("SELL", reference, 0) \in Nat
  BY <1>2, <1>3, SnapTypes
<1>5. ASSUME NEW p \in {2, 3}
      PROVE  RulePrice("BUY", reference, p) \in Nat /\ RulePrice("SELL", reference, p) \in Nat
  BY LimitFacts, SnapTypes DEF Higher, RulePrice
<1> QED BY <1>4, <1>5

LEMMA LimitPriceTypes ==
    ASSUME NEW signal \in BeliefSignals, NEW side \in {"BUY", "SELL"}, NEW top \in Tops
    PROVE  LimitPrice(signal, side, top) \in Int
<1> DEFINE n == Lower(PriceCollar, 5000) * signal.urgency
           slip == Slippage(signal)
           high == BestAsk(top) * (10000 + slip)
           low == BestBid(top) * (10000 - slip)
<1>1. n \in Int
  BY AgentIntentsAssumption DEF Lower
<1>2. slip = AwayRounded(n, 100)
  BY DEF Slippage
<1> HIDE DEF n, slip
<1>3. slip \in Int
  BY <1>1, <1>2 DEF AwayRounded
<1>4. high \in Int /\ low \in Int
  BY <1>3, TopTypes
<1>5. /\ RaisedBy(BestAsk(top), slip) = (high + 9999) \div 10000
      /\ LoweredBy(BestBid(top), slip) = Higher(1, low \div 10000)
  BY DEF RaisedBy, LoweredBy
<1>6. LimitPrice(signal, side, top) \in
          {BestBid(top), BestAsk(top), RaisedBy(BestAsk(top), slip), LoweredBy(BestBid(top), slip)}
  BY AgentIntentsAssumption DEF Style, LimitPrice, slip
<1> HIDE DEF high, low
<1>7. (high + 9999) \div 10000 \in Int /\ Higher(1, low \div 10000) \in Int
  BY <1>4 DEF Higher
<1> QED BY <1>5, <1>6, <1>7, TopTypes

\* What a rule forms is an intent.
LEMMA RuleIntentsAreIntents ==
    ASSUME NEW type, NEW side \in {"BUY", "SELL"}, NEW held \in LimitRange,
           NEW base \in BaseSizes, NEW patience \in {0, 2, 3}, NEW top \in Tops,
           NEW intent, intent = RuleIntent(type, side, held, base, patience, top)
    PROVE  /\ intent \in IntentRecords
           /\ ~PassesLimit(intent.side, held, intent.quantity)
           /\ (type \in Forced /\ intent.side = "SELL") => intent.quantity <= Higher(held, 1)
<1> DEFINE wanted == Wanted(type, side, held, base)
           turned == RuleSide(side, held, wanted)
           q == RuleQuantity(type, side, held, wanted)
           p == RulePrice(turned, Mid(top), patience)
<1>1. base \in Nat \ {0} /\ held \in Int
  BY AgentIntentsAssumption, LimitFacts DEF LimitRange
<1>2. wanted \in Nat \ {0}
  BY <1>1, WantedIsPositive
<1>3. intent = [side |-> turned, quantity |-> q, price |-> p, lasting |-> patience > 0]
  BY DEF RuleIntent
<1> HIDE DEF wanted
<1>4. /\ turned \in {"BUY", "SELL"} /\ q \in Nat \ {0} /\ ~PassesLimit(turned, held, q)
      /\ (type \in Forced /\ turned = "SELL") => q <= Higher(held, 1)
  BY <1>2, RulesKeepToLimit
<1>5. p \in Nat
  BY <1>4, TopTypes, RulePriceTypes
<1> HIDE DEF turned, q, p
<1>6. intent.side = turned /\ intent.quantity = q
  BY <1>3
<1>7. intent \in IntentRecords
  BY <1>3, <1>4, <1>5 DEF IntentRecords
<1> QED BY <1>4, <1>6, <1>7

\* What a signal forms is an intent, or nothing.
LEMMA SignalIntentsAreIntents ==
    ASSUME NEW signal \in BeliefSignals, NEW held \in LimitRange, NEW depth \in Depths,
           NEW top \in Tops
    PROVE  SignalIntent(signal, held, depth, top) \in IntentRecords \cup {Nothing}
BY SignalsKeepToTarget, LimitPriceTypes, SnapTypes DEF SignalIntent, IntentRecords

\* The observation of an agent within its limit holds, whatever the market shows.
LEMMA ObservationsHold ==
    ASSUME NEW held \in LimitRange, NEW top \in Tops
    PROVE  ObservationHolds(held, top)
<1>1. held \in Int /\ Size(held) <= PositionLimit
  BY WithinIsInRange, LimitFacts DEF LimitRange
<1>2. top.bid \in Int /\ Mid(top) \in Int /\ BestBid(top) \in Int /\ BestAsk(top) \in Int
  BY TopTypes, AgentIntentsAssumption
<1>3. 0 < BestBid(top)
  BY <1>2 DEF BestBid, Higher, Lower
<1>4. BestBid(top) < BestAsk(top)
  BY <1>2 DEF BestAsk, Higher
<1> QED BY <1>1, <1>3, <1>4 DEF ObservationHolds

LEMMA InitialHoldingKeepsToLimit ==
    ASSUME NEW type
    PROVE  InitialHolding(type) \in LimitRange
BY LimitFacts DEF InitialHolding, LimitRange

LEMMA AgentInitHolds == AgentInit => AgentInv
<1> SUFFICES ASSUME AgentInit PROVE AgentInv
  OBVIOUS
<1> USE DEF AgentInit
<1>1. PICK type \in Population, due \in Schedules :
         actor = [type |-> type, due |-> due] /\ holding = InitialHolding(type)
  OBVIOUS
<1>2. holding \in LimitRange /\ holding \in Int
  BY <1>1, InitialHoldingKeepsToLimit, LimitFacts DEF LimitRange
<1>3. flying \in Seq(OrderRecords)
  BY EmptySeq
<1>4. moment \in [step : 0..LastStep, acted : BOOLEAN, heard : BOOLEAN] /\ spent \in 0..SignalRounds
  BY AgentIntentsAssumption
<1>5. actor \in [type : Population, due : Schedules]
  BY <1>1
<1>6. AgentTypeOK
  BY <1>2, <1>3, <1>4, <1>5 DEF AgentTypeOK
<1>7. HoldingWithinLimit
  BY <1>2, WithinIsInRange DEF HoldingWithinLimit
<1>8. IntentsBounded
  BY DEF IntentsBounded
<1> QED BY <1>6, <1>7, <1>8 DEF AgentInv

\* The position and the rest of a state of the invariant.
LEMMA AgentFacts ==
    ASSUME AgentInv
    PROVE  /\ holding \in LimitRange /\ holding \in Int
           /\ resting # Nothing =>
                 /\ resting.side \in {"BUY", "SELL"} /\ resting.quantity \in Nat \ {0}
                 /\ holding + Signed(resting.side, resting.quantity) \in LimitRange
BY WithinIsInRange, LimitFacts DEF AgentInv, AgentTypeOK, HoldingWithinLimit, Signed, PassesLimit, Size

\* An action that leaves no intent formed keeps IntentsBounded; the types that it leaves alone.
LEMMA NothingFormed ==
    ASSUME formed' = Nothing
    PROVE  IntentsBounded'
BY DEF IntentsBounded

LEMMA ClockFacts ==
    ASSUME AgentInv
    PROVE  /\ moment \in [step : 0..LastStep, acted : BOOLEAN, heard : BOOLEAN]
           /\ moment.step \in 0..LastStep /\ LastStep \in Nat
           /\ spent \in 0..SignalRounds /\ SignalRounds \in Nat
BY AgentIntentsAssumption DEF AgentInv, AgentTypeOK

LEMMA HearsKeepsInv ==
    ASSUME AgentInv, Hears
    PROVE  AgentInv'
<1> USE DEF Hears, AgentInv
<1>1. moment' \in [step : 0..LastStep, acted : BOOLEAN, heard : BOOLEAN]
  BY DEF AgentTypeOK
<1>2. AgentTypeOK'
  BY <1>1 DEF AgentTypeOK
<1>3. HoldingWithinLimit'
  BY DEF HoldingWithinLimit, PassesLimit
<1>4. IntentsBounded'
  BY NothingFormed
<1> QED BY <1>2, <1>3, <1>4

LEMMA ActingOnSignalKeepsInv ==
    ASSUME AgentInv, NEW signal \in BeliefSignals, NEW depth \in Depths, NEW top \in Tops,
           ActsOnSignal(signal, depth, top)
    PROVE  AgentInv'
<1> DEFINE intent == SignalIntent(signal, holding, depth, top)
           holds == ObservationHolds(holding, top)
<1>1. holding \in LimitRange /\ holding' = holding
  BY AgentFacts DEF ActsOnSignal
<1>2. intent \in IntentRecords \cup {Nothing} /\ holds
  BY <1>1, SignalIntentsAreIntents, ObservationsHold
<1>3. formed' = [by |-> "SIGNAL", signal |-> signal, top |-> top, depth |-> depth,
                 holds |-> holds, intent |-> intent]
  BY DEF ActsOnSignal
<1>4. intent # Nothing =>
         /\ ~PassesLimit(intent.side, holding, intent.quantity)
         /\ signal.preference \notin Passive
         /\ intent.quantity <= Participation(depth)
         /\ \/ holding < After(intent, holding) /\ After(intent, holding) <= Target(signal, holding)
            \/ Target(signal, holding) <= After(intent, holding) /\ After(intent, holding) < holding
  BY <1>1, SignalsKeepToTarget
<1> HIDE DEF intent, holds
<1>5. /\ formed'.intent = intent /\ formed'.by = "SIGNAL" /\ formed'.signal = signal
      /\ formed'.depth = depth /\ formed'.holds = holds
  BY <1>3
<1>6. AgentTypeOK'
  <2>1. spent' \in 0..SignalRounds
    BY ClockFacts DEF ActsOnSignal, SignalReady
  <2>2. moment' \in [step : 0..LastStep, acted : BOOLEAN, heard : BOOLEAN]
    BY DEF ActsOnSignal, AgentInv, AgentTypeOK
  <2> QED BY <2>1, <2>2, <1>2, <1>5 DEF ActsOnSignal, AgentInv, AgentTypeOK
<1>7. HoldingWithinLimit'
  BY DEF ActsOnSignal, AgentInv, HoldingWithinLimit, PassesLimit
<1>8. IntentsBounded'
  BY <1>1, <1>2, <1>4, <1>5 DEF IntentsBounded, After, PassesLimit, Target
<1> QED BY <1>6, <1>7, <1>8 DEF AgentInv

LEMMA ActingByRuleKeepsInv ==
    ASSUME AgentInv, NEW side \in {"BUY", "SELL"}, NEW pressed \in BOOLEAN,
           NEW base \in BaseSizes, NEW patience \in {0, 2, 3}, NEW top \in Tops,
           ActsByRule(side, pressed, base, patience, top)
    PROVE  AgentInv'
BY AgentFacts, RuleIntentsAreIntents DEF ActsByRule, AgentInv, AgentTypeOK, HoldingWithinLimit,
   PassesLimit, IntentsBounded

LEMMA SendingKeepsInv ==
    ASSUME AgentInv, Sends \/ SendsNothing
    PROVE  AgentInv'
<1>1. formed' = Nothing /\ UNCHANGED <<actor, holding, moment, spent, resting>>
  BY DEF Sends, SendsNothing
<1>2. flying' \in Seq(OrderRecords)
  <2>1. flying \in Seq(OrderRecords)
    BY DEF AgentInv, AgentTypeOK
  <2>2. CASE Sends
    BY <2>2, <2>1, AppendProperties DEF Sends, AgentInv, AgentTypeOK, IntentRecords, OrderRecords
  <2>3. CASE SendsNothing
    BY <2>1, <2>3 DEF SendsNothing
  <2> QED BY <2>2, <2>3
<1>3. AgentTypeOK'
  BY <1>1, <1>2 DEF AgentInv, AgentTypeOK
<1>4. HoldingWithinLimit'
  BY <1>1 DEF AgentInv, HoldingWithinLimit, PassesLimit
<1> QED BY <1>1, <1>3, <1>4, NothingFormed DEF AgentInv

LEMMA HaltKeepsInv ==
    ASSUME AgentInv, ArrivesInHalt
    PROVE  AgentInv'
<1> USE DEF ArrivesInHalt, AgentInv
<1>1. flying' \in Seq(OrderRecords)
  BY HeadTailProperties DEF AgentTypeOK
<1>2. AgentTypeOK'
  BY <1>1 DEF AgentTypeOK
<1>3. HoldingWithinLimit'
  BY DEF HoldingWithinLimit, PassesLimit
<1>4. IntentsBounded'
  BY NothingFormed
<1> QED BY <1>2, <1>3, <1>4

LEMMA PassingKeepsInv ==
    ASSUME AgentInv, StepPasses
    PROVE  AgentInv'
<1> USE DEF StepPasses, AgentInv
<1>1. moment' \in [step : 0..LastStep, acted : BOOLEAN, heard : BOOLEAN]
  <2>1. /\ moment.step \in 0..LastStep /\ LastStep \in Int /\ moment.step < LastStep
        /\ moment \in [step : 0..LastStep, acted : BOOLEAN, heard : BOOLEAN]
    BY ClockFacts
  <2>2. moment.step + 1 \in 0..LastStep
    BY <2>1
  <2> QED BY <2>1, <2>2
<1>2. AgentTypeOK'
  BY <1>1 DEF AgentTypeOK
<1>3. HoldingWithinLimit'
  BY DEF HoldingWithinLimit, PassesLimit
<1>4. IntentsBounded'
  BY NothingFormed
<1> QED BY <1>2, <1>3, <1>4

\* A position and a rest that together stay within the limit.
LEMMA WithinLimitNext ==
    ASSUME holding' \in LimitRange,
           resting' # Nothing => holding' + Signed(resting'.side, resting'.quantity) \in LimitRange
    PROVE  HoldingWithinLimit'
<1>1. holding' \in Int /\ Size(holding') <= PositionLimit
  BY WithinIsInRange, LimitFacts DEF LimitRange
<1>2. ASSUME resting' # Nothing
      PROVE  ~PassesLimit(resting'.side, holding', resting'.quantity)
  BY <1>2, WithinIsInRange, LimitFacts DEF PassesLimit, LimitRange, Size
<1> QED BY <1>1, <1>2 DEF HoldingWithinLimit

LEMMA ReachingKeepsInv ==
    ASSUME AgentInv, NEW approved \in 0..(2 * PositionLimit), NEW filled \in 0..(2 * PositionLimit),
           NEW short \in BOOLEAN, OrderReaches(approved, filled, short)
    PROVE  AgentInv'
<1> DEFINE intent == Head(flying)
           room == Higher(0, Room(intent.side, short))
<1>1. flying \in Seq(OrderRecords) /\ flying # <<>>
  BY DEF OrderReaches, AgentInv, AgentTypeOK
<1>2. intent \in OrderRecords /\ Tail(flying) \in Seq(OrderRecords)
  BY <1>1, HeadTailProperties
<1>3. intent.side \in {"BUY", "SELL"} /\ intent.quantity \in Nat \ {0} /\ intent.lasting \in BOOLEAN
  BY <1>2 DEF OrderRecords
<1>4. /\ holding \in Int /\ -PositionLimit <= holding /\ holding <= PositionLimit
      /\ PositionLimit \in Nat /\ approved \in Nat /\ filled \in Nat
  BY AgentFacts, LimitFacts DEF LimitRange
<1>5. /\ approved <= Lower(intent.quantity, room) /\ filled <= approved
      /\ holding' = holding + Signed(intent.side, filled)
      /\ resting' = IF intent.lasting /\ filled < approved
                    THEN [side |-> intent.side, quantity |-> approved - filled]
                    ELSE Nothing
      /\ flying' = Tail(flying) /\ formed' = Nothing
      /\ UNCHANGED <<actor, moment, spent>>
  BY DEF OrderReaches
<1> HIDE DEF intent
<1>6. /\ intent.side = "BUY" => room = PositionLimit - holding
      /\ intent.side = "SELL" => room \in Int /\ 0 <= room /\ room <= PositionLimit + holding
  BY <1>4 DEF Room, Higher
<1> HIDE DEF room
<1>7. approved <= room
  BY <1>3, <1>4, <1>5, <1>6 DEF Lower
<1>8. /\ intent.side = "BUY" => holding' = holding + filled
      /\ intent.side = "SELL" => holding' = holding - filled
  BY <1>4, <1>5 DEF Signed
<1>9. holding' \in LimitRange
  BY <1>3, <1>4, <1>5, <1>6, <1>7, <1>8 DEF LimitRange
<1>10. ASSUME resting' # Nothing
       PROVE  /\ resting' = [side |-> intent.side, quantity |-> approved - filled]
              /\ approved - filled \in Nat \ {0}
              /\ holding' + Signed(resting'.side, resting'.quantity) \in LimitRange
  BY <1>5, <1>10, <1>4, <1>8, <1>3, <1>6, <1>7 DEF Signed, LimitRange
<1>11. resting' \in [side : {"BUY", "SELL"}, quantity : Nat \ {0}] \cup {Nothing}
  BY <1>3, <1>10
<1>12. AgentTypeOK'
  BY <1>2, <1>4, <1>5, <1>9, <1>11, LimitFacts DEF AgentInv, AgentTypeOK, LimitRange
<1>13. HoldingWithinLimit'
  BY <1>9, <1>10, WithinLimitNext
<1> QED BY <1>5, <1>12, <1>13, NothingFormed DEF AgentInv

LEMMA RestTradingKeepsInv ==
    ASSUME AgentInv, NEW filled \in 1..(2 * PositionLimit), RestTrades(filled)
    PROVE  AgentInv'
<1> DEFINE side == resting.side
           q == resting.quantity
<1>1. /\ resting # Nothing /\ filled \in 1..q /\ formed' = Nothing
      /\ holding' = holding + Signed(side, filled)
      /\ resting' = IF filled = q THEN Nothing ELSE [resting EXCEPT !.quantity = q - filled]
      /\ UNCHANGED <<actor, moment, spent, flying>>
  BY DEF RestTrades
<1>2. /\ side \in {"BUY", "SELL"} /\ q \in Nat \ {0} /\ holding + Signed(side, q) \in LimitRange
      /\ holding \in LimitRange
  BY <1>1, AgentFacts
<1>3. resting \in [side : {"BUY", "SELL"}, quantity : Nat \ {0}]
  BY <1>1 DEF AgentInv, AgentTypeOK
<1> HIDE DEF side, q
<1>4. holding \in Int /\ PositionLimit \in Nat /\ filled \in Nat /\ 1 <= filled /\ filled <= q
  BY <1>1, <1>2, LimitFacts DEF LimitRange
<1>5. /\ side = "BUY" => holding' = holding + filled /\ holding + q \in LimitRange
      /\ side = "SELL" => holding' = holding - filled /\ holding - q \in LimitRange
  BY <1>1, <1>2, <1>4 DEF Signed
<1>6. holding' \in LimitRange
  BY <1>2, <1>4, <1>5 DEF LimitRange
<1>7. ASSUME resting' # Nothing
      PROVE  /\ resting' \in [side : {"BUY", "SELL"}, quantity : Nat \ {0}]
             /\ holding' + Signed(resting'.side, resting'.quantity) \in LimitRange
  BY <1>1, <1>7, <1>2, <1>4, <1>3, <1>5 DEF side, Signed
<1>8. AgentTypeOK'
  BY <1>1, <1>6, <1>7, LimitFacts DEF AgentInv, AgentTypeOK, LimitRange
<1>9. HoldingWithinLimit'
  BY <1>6, <1>7, WithinLimitNext
<1> QED BY <1>1, <1>8, <1>9, NothingFormed DEF AgentInv

LEMMA AgentStepKeepsInv == AgentInv /\ [AgentNext]_intentVars => AgentInv'
<1> SUFFICES ASSUME AgentInv, [AgentNext]_intentVars PROVE AgentInv'
  OBVIOUS
<1>1. CASE UNCHANGED intentVars
  BY <1>1 DEF intentVars, AgentInv, AgentTypeOK, HoldingWithinLimit, PassesLimit, IntentsBounded,
     Target
<1>2. CASE AgentNext
  BY HearsKeepsInv, SendingKeepsInv, HaltKeepsInv, PassingKeepsInv, ActingOnSignalKeepsInv,
     ActingByRuleKeepsInv, ReachingKeepsInv, RestTradingKeepsInv, <1>2 DEF AgentNext
<1> QED BY <1>1, <1>2

\* What an intent may pay.  Prices snap to the grid without passing one another, and
\* a price of the grid stays.
LEMMA WholeParts ==
    ASSUME NEW k \in Int, NEW r \in 0..(Tick - 1)
    PROVE  (k * Tick + r) \div Tick = k /\ (k * Tick) % Tick = 0
BY LimitFacts

LEMMA SnapFacts ==
    ASSUME NEW price \in Int
    PROVE  /\ OnGrid(SnapUp(price)) /\ OnGrid(SnapDown(price))
           /\ price > 0 /\ price % Tick = 0 => SnapUp(price) = price /\ SnapDown(price) = price
           /\ \A q \in Int : price <= q => SnapUp(price) <= SnapUp(q) /\ SnapDown(price) <= SnapDown(q)
<1> DEFINE t == Tick
           up(p) == (p + t - 1) \div t
           down(p) == p \div t
<1>1. t \in Nat /\ t > 0
  BY LimitFacts
<1>2. \A p : SnapUp(p) = Higher(t, up(p) * t) /\ SnapDown(p) = Higher(t, down(p) * t)
  BY DEF SnapUp, SnapDown
<1>3. \A k \in Int : k * t \in Int /\ (k * t) % t = 0
  BY <1>1, WholeParts
<1>4. t % t = 0
  BY <1>1, <1>3
<1> HIDE DEF t
<1>5. \A p \in Int : up(p) \in Int /\ down(p) \in Int
  BY <1>1
<1>6. \A k \in Int : Higher(t, k * t) \in Int /\ Higher(t, k * t) > 0 /\ Higher(t, k * t) % t = 0
  BY <1>1, <1>3, <1>4 DEF Higher
<1>7. OnGrid(SnapUp(price)) /\ OnGrid(SnapDown(price))
  BY <1>5, <1>2, <1>6 DEF OnGrid, t
<1>8. ASSUME price > 0, price % Tick = 0 PROVE SnapUp(price) = price /\ SnapDown(price) = price
  BY <1>1, <1>8, WholeParts, <1>2 DEF t, Higher
<1>9. ASSUME NEW q \in Int, price <= q
      PROVE  SnapUp(price) <= SnapUp(q) /\ SnapDown(price) <= SnapDown(q)
  BY <1>1, <1>9, <1>5, <1>2 DEF Higher
<1> QED BY <1>7, <1>8, <1>9

\* The collar: a price moved outwards by less moves less, and never inwards.
LEMMA CollarFacts ==
    ASSUME NEW price \in Nat \ {0}, NEW bps \in Nat, bps <= PriceCollar
    PROVE  /\ price <= RaisedBy(price, bps) /\ RaisedBy(price, bps) <= RaisedBy(price, PriceCollar)
           /\ LoweredBy(price, bps) <= price /\ LoweredBy(price, PriceCollar) <= LoweredBy(price, bps)
           /\ {RaisedBy(price, bps), LoweredBy(price, bps)} \subseteq Int
           /\ {RaisedBy(price, PriceCollar), LoweredBy(price, PriceCollar)} \subseteq Int
BY AgentIntentsAssumption DEF RaisedBy, LoweredBy, Higher

LEMMA SlippageWithinCollar ==
    ASSUME NEW signal \in BeliefSignals
    PROVE  Slippage(signal) \in Nat /\ Slippage(signal) <= PriceCollar
BY AgentIntentsAssumption DEF Lower, Slippage, AwayRounded

\* The best quotes of a book that has both are its own; the invented ones are positive.
LEMMA QuoteFacts ==
    ASSUME NEW top \in Tops
    PROVE  /\ BestBid(top) \in Nat \ {0} /\ BestAsk(top) \in Nat \ {0} /\ BestBid(top) < BestAsk(top)
           /\ top.bid \in Nat /\ top.ask \in Nat /\ top.bid % Tick = 0 /\ top.ask % Tick = 0
           /\ top.bid # 0 /\ top.ask # 0 =>
                 /\ BestBid(top) = top.bid /\ BestAsk(top) = top.ask /\ top.bid < top.ask
<1>1. /\ top.bid \in Nat /\ top.ask \in Nat /\ top.bid % Tick = 0 /\ top.ask % Tick = 0
      /\ top.bid # 0 /\ top.ask # 0 => top.bid < top.ask
  BY AgentIntentsAssumption
<1>2. Mid(top) \in Int /\ BestBid(top) \in Int /\ BestAsk(top) \in Int
  BY TopTypes
<1>3. BestBid(top) > 0
  BY <1>1, <1>2 DEF BestBid, Higher, Lower
<1>4. BestAsk(top) > BestBid(top)
  BY <1>1, <1>2 DEF BestAsk, Higher
<1>5. ASSUME top.bid # 0, top.ask # 0 PROVE BestBid(top) = top.bid /\ BestAsk(top) = top.ask
  <2>1. Mid(top) = EvenRounded(top.bid + top.ask, 2)
    BY <1>5 DEF Mid
  <2>2. Mid(top) >= top.bid
    BY <1>1, <1>5, <2>1 DEF EvenRounded
  <2>3. BestBid(top) = top.bid
    BY <1>1, <1>2, <1>5, <2>2 DEF BestBid, Higher, Lower
  <2>4. BestAsk(top) = top.ask
    BY <1>1, <1>2, <1>5, <2>3 DEF BestAsk, Higher
  <2> QED BY <2>3, <2>4
<1> QED BY <1>1, <1>2, <1>3, <1>4, <1>5

\* What an intent formed by a signal may cost or bring.
LEMMA SignalPrices ==
    ASSUME NEW signal \in BeliefSignals, NEW held, NEW depth, NEW top \in Tops,
           NEW intent, intent = SignalIntent(signal, held, depth, top), intent # Nothing
    PROVE  /\ OnGrid(intent.price) /\ intent.side \in {"BUY", "SELL"}
           /\ intent.side = "BUY" => intent.price <= SnapUp(RaisedBy(BestAsk(top), PriceCollar))
           /\ intent.side = "SELL" => intent.price >= SnapDown(LoweredBy(BestBid(top), PriceCollar))
           /\ (Style(signal) = "PASSIVE_LIMIT" /\ top.bid # 0 /\ top.ask # 0)
                 => IF intent.side = "BUY" THEN intent.price < top.ask ELSE intent.price > top.bid
<1> DEFINE move == Target(signal, held) - held
           way == IF move > 0 THEN "BUY" ELSE "SELL"
           limit == LimitPrice(signal, way, top)
           high == RaisedBy(BestAsk(top), PriceCollar)
           low == LoweredBy(BestBid(top), PriceCollar)
<1>1. intent.side = way /\ intent.price = IF way = "BUY" THEN SnapUp(limit) ELSE SnapDown(limit)
  BY DEF SignalIntent
<1>2. way \in {"BUY", "SELL"}
  OBVIOUS
<1> HIDE DEF way
<1>3. Slippage(signal) \in Nat /\ Slippage(signal) <= PriceCollar /\ PriceCollar \in Nat
  BY SlippageWithinCollar, AgentIntentsAssumption
<1>4. BestBid(top) \in Nat \ {0} /\ BestAsk(top) \in Nat \ {0} /\ BestBid(top) < BestAsk(top)
  BY QuoteFacts
<1>5. /\ BestAsk(top) <= high /\ RaisedBy(BestAsk(top), Slippage(signal)) <= high
      /\ low <= BestBid(top) /\ low <= LoweredBy(BestBid(top), Slippage(signal))
      /\ high \in Int /\ low \in Int
  BY <1>3, <1>4, CollarFacts
<1>6. limit \in Int
  BY <1>2, LimitPriceTypes
<1>7. Style(signal) \in {"PASSIVE_LIMIT", "NEAR_TOUCH_LIMIT", "MARKETABLE_LIMIT"}
  BY AgentIntentsAssumption DEF Style
<1>8. /\ way = "BUY" => limit \in {BestBid(top), BestAsk(top), RaisedBy(BestAsk(top), Slippage(signal))}
      /\ way = "SELL" => limit \in {BestBid(top), BestAsk(top), LoweredBy(BestBid(top), Slippage(signal))}
      /\ Style(signal) = "PASSIVE_LIMIT" => limit = IF way = "BUY" THEN BestBid(top) ELSE BestAsk(top)
  BY <1>2, <1>7 DEF LimitPrice
<1> HIDE DEF limit, high, low
<1>9. (way = "BUY" => limit <= high) /\ (way = "SELL" => low <= limit)
  BY <1>4, <1>5, <1>6, <1>8
<1>10. way = "BUY" => SnapUp(limit) <= SnapUp(high)
  BY <1>5, <1>6, <1>9, SnapFacts
<1>11. way = "SELL" => SnapDown(limit) >= SnapDown(low)
  BY <1>5, <1>6, <1>9, SnapFacts, SnapTypes
<1>12. OnGrid(SnapUp(limit)) /\ OnGrid(SnapDown(limit))
  BY <1>6, SnapFacts
<1>13. ASSUME Style(signal) = "PASSIVE_LIMIT", top.bid # 0, top.ask # 0
       PROVE  IF way = "BUY" THEN SnapUp(limit) < top.ask ELSE SnapDown(limit) > top.bid
  BY <1>13, QuoteFacts, SnapFacts, <1>8
<1> QED BY <1>1, <1>2, <1>10, <1>11, <1>12, <1>13 DEF high, low

LEMMA RulePrices ==
    ASSUME NEW side \in {"BUY", "SELL"}, NEW reference \in Int, NEW patience \in {0, 2, 3}
    PROVE  OnGrid(RulePrice(side, reference, patience))
<1> DEFINE high == reference * (10000 + PriceCollar)
           low == reference * (10000 - PriceCollar)
<1>1. high \in Int /\ low \in Int
  BY AgentIntentsAssumption
<1>2. /\ RulePrice("BUY", reference, 0) = SnapUp(EvenRounded(high, 10000))
      /\ RulePrice("SELL", reference, 0) = SnapDown(Higher(1, EvenRounded(low, 10000)))
  BY DEF RulePrice
<1> HIDE DEF high, low
<1>3. EvenRounded(high, 10000) \in Int /\ Higher(1, EvenRounded(low, 10000)) \in Int
  BY <1>1 DEF EvenRounded, Higher
<1>4. OnGrid(RulePrice("BUY", reference, 0)) /\ OnGrid(RulePrice("SELL", reference, 0))
  BY <1>2, <1>3, SnapFacts
<1>5. ASSUME NEW p \in {2, 3}
      PROVE  OnGrid(RulePrice("BUY", reference, p)) /\ OnGrid(RulePrice("SELL", reference, p))
  BY LimitFacts, SnapFacts DEF Higher, RulePrice
<1> QED BY <1>4, <1>5

LEMMA PricesInitially == AgentInit => PricesProtected
  BY DEF AgentInit, PricesProtected

LEMMA PricesStep == AgentInv /\ PricesProtected /\ [AgentNext]_intentVars => PricesProtected'
<1> SUFFICES ASSUME AgentInv, PricesProtected, [AgentNext]_intentVars PROVE PricesProtected'
  OBVIOUS
<1>1. ASSUME UNCHANGED formed PROVE PricesProtected'
  BY <1>1 DEF PricesProtected
<1>2. ASSUME formed' = Nothing PROVE PricesProtected'
  BY <1>2 DEF PricesProtected
<1>3. ASSUME NEW signal \in BeliefSignals, NEW depth \in Depths, NEW top \in Tops,
             ActsOnSignal(signal, depth, top)
      PROVE  PricesProtected'
  BY <1>3, SignalPrices DEF ActsOnSignal, PricesProtected
<1>4. ASSUME NEW side \in {"BUY", "SELL"}, NEW pressed \in BOOLEAN, NEW base \in BaseSizes,
             NEW patience \in {0, 2, 3}, NEW top \in Tops,
             ActsByRule(side, pressed, base, patience, top)
      PROVE  PricesProtected'
  BY <1>4, TopTypes, RulePrices DEF ActsByRule, RuleIntent, RuleSide, PricesProtected
<1>5. CASE UNCHANGED intentVars
  BY <1>1, <1>5 DEF intentVars
<1>6. CASE Hears \/ StepPasses \/ ArrivesInHalt
  BY <1>1, <1>6 DEF Hears, StepPasses, ArrivesInHalt
<1>7. CASE Sends \/ SendsNothing
  BY <1>2, <1>7 DEF Sends, SendsNothing
<1>8. CASE \E approved, filled \in 0..(2 * PositionLimit), short \in BOOLEAN :
              OrderReaches(approved, filled, short)
  BY <1>1, <1>8 DEF OrderReaches
<1>9. CASE \E filled \in 1..(2 * PositionLimit) : RestTrades(filled)
  BY <1>1, <1>9 DEF RestTrades
<1> QED BY <1>3, <1>4, <1>5, <1>6, <1>7, <1>8, <1>9 DEF AgentNext

\* An intent of a rule or a signal has a price of the grid, a signal's within the collar
\* around the touch, and a passive one on its own side of a book that has both.
THEOREM PricesAreProtected == AgentSpec => []PricesProtected
<1> QED BY AgentInitHolds, AgentStepKeepsInv, PricesInitially, PricesStep, PTL DEF AgentSpec

\* Every variable of an agent has its type: what a rule or a signal forms is an order of a
\* positive size with a side and a price, or nothing.
THEOREM AgentIsTyped == AgentSpec => []AgentTypeOK
<1>1. AgentInv => AgentTypeOK
  BY DEF AgentInv
<1> QED BY <1>1, AgentInitHolds, AgentStepKeepsInv, PTL DEF AgentSpec

\* The agent never holds, rests or forms more than its limit lets it (maxAbsolutePosition,
\* PortfolioLedger's approval), whatever the market fills and however late: intents sized
\* for a position of the past are cut when they arrive.
THEOREM AgentsKeepToLimits == AgentSpec => [](HoldingWithinLimit /\ IntentsBounded)
<1>1. AgentInv => HoldingWithinLimit /\ IntentsBounded
  BY DEF AgentInv
<1> QED BY <1>1, AgentInitHolds, AgentStepKeepsInv, PTL DEF AgentSpec


-----------------------------------------------------------------------------
(* The cognition phase.  The rounds share out the planned calls: what is    *)
(* left of the plan and what was decided before the round are all of it,    *)
(* and a signal was made in the pilot of all the rounds before its own.     *)

Sources == {"model", "rule"}
SignalRow == [round : 1..DecisionRounds, agent : 0..Representatives, source : Sources,
              pilotSignals : Nat]
Codes == FailureReasons \cup {NoReason, "CONTINUATION", "CIRCUIT_OPEN"}
WorkerRow ==
    [step : WorkerSteps, round : 1..DecisionRounds, index : 0..Representatives,
     thisRound : 0..Representatives, remaining : Nat, attempted : Nat, signals : Seq(SignalRow),
     roundStart : Nat, pilotSignals : Nat, fallbacks : Nat,
     repeated : [FailureReasons -> 0..BreakerLimit], failureCode : Codes, continued : BOOLEAN]
RowType == [phase : {"COGNITION", "BASELINE"}, requested : BOOLEAN,
            status : {"NONE", "COMPLETED", "IN_PROGRESS", "RULE_CONTINUATION_REQUESTED",
                      "COMPLETED_WITH_RULE_CONTINUATION"}]

Rules(signals) == {i \in 1..Len(signals) : signals[i].source = "rule"}
Plan == PlannedCalls(policy.callBudget)

\* What holds of the signals at every step.
SignalsStand(w) ==
    /\ \A i \in 1..Len(w.signals) :
          /\ w.signals[i].pilotSignals <= Len(w.signals)
          /\ \A j \in 1..Len(w.signals) :
                w.signals[j].round < w.signals[i].round <=> j <= w.signals[i].pilotSignals
    /\ w.fallbacks = Cardinality(Rules(w.signals))
    /\ ~policy.fallbackToRules => Rules(w.signals) = {}

Before == {"starting", "pilot"}
Deciding == {"checking", "dispatching", "calling"}
Rounds == Deciding \cup {"feedback"}

Untouched(w) ==
    /\ w.signals = <<>> /\ w.attempted = 0 /\ w.round = 1 /\ w.failureCode = NoReason
    /\ w.roundStart = 0 /\ w.pilotSignals = 0 /\ w.fallbacks = 0
    /\ w.step = "pilot" => w.remaining = Plan /\ Plan > 0
    /\ w.step = "starting" => w.remaining = 0

\* Within a round: its share of the plan, and the signals of this round behind the others.
Share(w) == IF w.remaining < Representatives THEN w.remaining ELSE Representatives
RoundStands(w) ==
    /\ w.remaining + w.roundStart = Plan /\ 0 < w.remaining
    /\ w.remaining <= Representatives * (DecisionRounds - w.round) + Representatives
    /\ w.thisRound = Share(w) /\ 1 <= w.index /\ w.index <= w.thisRound
    /\ w.pilotSignals = w.roundStart
    /\ \A j \in 1..Len(w.signals) :
          /\ w.signals[j].round <= w.round
          /\ w.signals[j].round < w.round <=> j <= w.roundStart

Decided(w) ==
    /\ w.step \in Deciding => /\ Len(w.signals) = w.roundStart + w.index - 1
                              /\ w.failureCode = NoReason
    /\ w.step \in {"checking", "dispatching"} => w.attempted = Len(w.signals)
    /\ w.step = "calling" => w.attempted = Len(w.signals) + 1
    /\ w.step = "feedback" =>
          /\ Len(w.signals) \in {w.roundStart + w.index - 1, w.roundStart + w.index}
          /\ w.attempted <= w.roundStart + w.index
          /\ w.failureCode = NoReason => /\ Len(w.signals) = w.roundStart + w.thisRound
                                         /\ w.attempted = Len(w.signals)
                                         /\ \A r \in FailureReasons : w.repeated[r] < BreakerLimit

\* What the worker knows fits the step it is at.
WorkerStands(w) ==
    /\ w \in WorkerRow
    /\ SignalsStand(w)
    /\ w.attempted <= Plan /\ w.remaining <= Plan
    /\ w.step \in Before => Untouched(w)
    /\ w.step \in Rounds => RoundStands(w) /\ Decided(w)
    /\ w.step \in Before \cup Deciding => \A r \in FailureReasons : w.repeated[r] < BreakerLimit

TapeStands ==
    /\ worker.step \in Before \cup Rounds => tape = NoTape
    /\ ModeTellsTheTruth

\* A call that is begun after the request is the one that had passed its check.
RequestStands ==
    /\ lateCalls \in {0, 1}
    /\ lateCalls = 1 => row.requested /\ worker.step # "dispatching"

\* The inductive invariant of the phase.
PhaseInv ==
    /\ policy \in [fallbackToRules : BOOLEAN, callBudget : CallBudgets]
    /\ row \in RowType /\ handler \in BOOLEAN
    /\ WorkerStands(worker) /\ TapeStands /\ RequestStands

LEMMA PlanFacts ==
    ASSUME policy \in [fallbackToRules : BOOLEAN, callBudget : CallBudgets]
    PROVE  /\ Representatives \in Nat /\ 1 <= Representatives
           /\ DecisionRounds \in Nat /\ 1 <= DecisionRounds
           /\ BreakerLimit \in Nat /\ 1 <= BreakerLimit
           /\ policy.callBudget \in Nat /\ policy.fallbackToRules \in BOOLEAN
           /\ Representatives * DecisionRounds \in Nat
           /\ Plan \in Nat /\ Plan <= policy.callBudget
           /\ Plan <= Representatives * DecisionRounds
           /\ Representatives * DecisionRounds
                = Representatives * (DecisionRounds - 1) + Representatives
<1>1. /\ Representatives \in Nat /\ 1 <= Representatives
      /\ DecisionRounds \in Nat /\ 1 <= DecisionRounds
      /\ BreakerLimit \in Nat /\ 1 <= BreakerLimit
  BY CognitionAssumption
<1>2. policy.callBudget \in Nat /\ policy.fallbackToRules \in BOOLEAN
  BY CognitionAssumption
<1>3. Representatives * DecisionRounds \in Nat
  BY <1>1
<1>4. Representatives * DecisionRounds
                = Representatives * (DecisionRounds - 1) + Representatives
  BY <1>1
<1> QED BY <1>1, <1>2, <1>3, <1>4 DEF Plan, PlannedCalls

\* The signals of the rounds before one are counted.
LEMMA EarlierCounted ==
    ASSUME NEW w, w \in WorkerRow, SignalsStand(w), NEW i \in 1..Len(w.signals)
    PROVE  w.signals[i].pilotSignals =
               Cardinality({j \in 1..Len(w.signals) : w.signals[j].round < w.signals[i].round})
<1> DEFINE n == w.signals[i].pilotSignals
           E == {j \in 1..Len(w.signals) : w.signals[j].round < w.signals[i].round}
<1>1. w.signals \in Seq(SignalRow) /\ Len(w.signals) \in Nat
  BY DEF WorkerRow
<1>2. w.signals[i] \in SignalRow
  BY <1>1, ElementOfSeq
<1>3. n \in Nat /\ n <= Len(w.signals)
  BY <1>2 DEF SignalRow, SignalsStand
<1>4. E = 1..n
  BY <1>1, <1>3 DEF SignalsStand
<1> HIDE DEF n
<1>5. Cardinality(1..n) = n
  BY <1>3, FS_Interval
<1> QED BY <1>4, <1>5 DEF n

LEMMA SignalsFromInv == PhaseInv => CognitionTypeOK /\ SignalsAreHonest
<1> SUFFICES ASSUME PhaseInv PROVE CognitionTypeOK /\ SignalsAreHonest
  OBVIOUS
<1>1. worker \in WorkerRow /\ SignalsStand(worker) /\ worker.attempted <= Plan /\ worker.remaining <= Plan
  BY DEF PhaseInv, WorkerStands
<1>2. /\ policy \in [fallbackToRules : BOOLEAN, callBudget : CallBudgets]
      /\ row.requested \in BOOLEAN /\ handler \in BOOLEAN /\ lateCalls \in {0, 1}
  BY DEF PhaseInv, RowType, RequestStands
<1>3. /\ Plan \in Nat /\ Plan <= policy.callBudget /\ Plan <= Representatives * DecisionRounds
      /\ policy.callBudget \in Nat /\ Representatives * DecisionRounds \in Nat
  BY <1>2, PlanFacts
<1>4. /\ worker.step \in WorkerSteps /\ worker.round \in 1..DecisionRounds
      /\ {worker.index, worker.thisRound} \subseteq 0..Representatives
      /\ worker.remaining \in Nat /\ worker.attempted \in Nat
      /\ worker.repeated \in [FailureReasons -> 0..BreakerLimit]
      /\ worker.signals \in Seq(SignalRow)
  BY <1>1 DEF WorkerRow
<1>5. worker.remaining \in 0..Plan /\ worker.attempted \in 0..Representatives * DecisionRounds
      /\ worker.attempted <= policy.callBudget
  BY <1>1, <1>3, <1>4
<1>6. CognitionTypeOK
  BY <1>2, <1>4, <1>5 DEF CognitionTypeOK, Plan
<1>7. DOMAIN worker.signals = 1..Len(worker.signals)
  BY <1>4, LenProperties
<1>8. SignalsSeeEarlierRounds
  BY <1>1, <1>7, EarlierCounted DEF SignalsSeeEarlierRounds
<1>9. RequestStopsCalls
  BY <1>2 DEF RequestStopsCalls
<1> QED BY <1>5, <1>6, <1>8, <1>9
        DEF SignalsAreHonest, CallsWithinBudget, PhaseInv, TapeStands

-----------------------------------------------------------------------------
\* What stands of a worker stands of it after the step.
LEMMA Carried ==
    ASSUME NEW w, WorkerStands(w), worker' = w, policy' = policy
    PROVE  WorkerStands(worker)'
BY DEF WorkerStands, SignalsStand, Rules, Untouched, Plan, PlannedCalls, RoundStands, Decided, Share

\* A worker that has ended its phase.
LEMMA Ended ==
    ASSUME NEW w, WorkerStands(w), NEW step \in {"frozen", "paired", "raised"}
    PROVE  WorkerStands([w EXCEPT !.step = step])
BY DEF WorkerStands, WorkerSteps, WorkerRow, Before, Rounds, Deciding, SignalsStand

\* What a frozen sequence tells of its signals.
Truth(mode, signals, planned) ==
    /\ mode = "HYBRID_LLM" => Len(signals) = planned /\ Rules(signals) = {}
    /\ mode = "RULE_FALLBACK" => Rules(signals) = 1..Len(signals)
    /\ ~policy.fallbackToRules => Rules(signals) = {}

LEMMA TruthIsTold ==
    ASSUME NEW mode, NEW signals \in Seq(SignalRow), NEW planned, Truth(mode, signals, planned),
           policy' = policy,
           tape' = [mode |-> mode, signals |-> signals, planned |-> planned]
    PROVE  ModeTellsTheTruth'
<1>1. DOMAIN signals = 1..Len(signals) /\ \A i \in 1..Len(signals) : signals[i].source \in Sources
  <2>1. \A i \in 1..Len(signals) : signals[i] \in SignalRow
    BY ElementOfSeq
  <2>2. DOMAIN signals = 1..Len(signals)
    BY LenProperties
  <2> QED BY <2>1, <2>2 DEF SignalRow
<1> DEFINE told == {signals[i].source : i \in DOMAIN signals}
<1>2. Rules(signals) = {} => "rule" \notin told
  BY <1>1 DEF Rules
<1>3. Rules(signals) = 1..Len(signals) => "model" \notin told
  BY <1>1 DEF Rules
<1> QED BY <1>2, <1>3 DEF Truth, ModeTellsTheTruth

LEMMA NothingTold == Rules(<<>>) = {} /\ 1..Len(<<>>) = {} /\ <<>> \in Seq(SignalRow)
BY DEF Rules

\* A row written by the worker.
LEMMA Reported ==
    ASSUME row \in RowType,
           NEW status \in {"COMPLETED", "IN_PROGRESS", "RULE_CONTINUATION_REQUESTED",
                           "COMPLETED_WITH_RULE_CONTINUATION"},
           ReportProgress(status)
    PROVE  row' \in RowType /\ row'.requested = row.requested
BY DEF RowType, ReportProgress

\* The phase ends with a sequence whose mode tells the truth.
LEMMA Freezes ==
    ASSUME PhaseInv, NEW mode, NEW signals \in Seq(SignalRow),
           Truth(mode, signals, Plan),
           NEW status \in {"COMPLETED", "COMPLETED_WITH_RULE_CONTINUATION"},
           Freeze(mode, signals, status), worker.step \in Before \cup Rounds,
           UNCHANGED <<policy, handler, lateCalls>>
    PROVE  PhaseInv' /\ (tape # NoTape => tape' = tape)
<1>1. row' \in RowType /\ row'.requested = row.requested
  BY Reported DEF Freeze, PhaseInv
<1>2. worker' = [worker EXCEPT !.step = "frozen"] /\ WorkerStands(worker)
  BY DEF Freeze, PhaseInv
<1>3. WorkerStands(worker)'
  BY <1>2, Ended, Carried
<1>4. worker'.step = "frozen"
  BY <1>2 DEF WorkerStands, WorkerRow
<1>5. ModeTellsTheTruth'
  BY TruthIsTold DEF Freeze, Plan
<1>6. TapeStands' /\ RequestStands'
  BY <1>1, <1>4, <1>5 DEF TapeStands, RequestStands, PhaseInv, Before, Rounds, Deciding
<1>7. tape = NoTape
  BY DEF PhaseInv, TapeStands
<1> QED BY <1>1, <1>3, <1>6, <1>7 DEF PhaseInv

LEMMA Raises ==
    ASSUME PhaseInv, worker' = [worker EXCEPT !.step = "raised"],
           UNCHANGED <<policy, tape, row, handler, lateCalls>>
    PROVE  PhaseInv' /\ (tape # NoTape => tape' = tape)
<1>1. WorkerStands(worker)'
  BY Ended, Carried DEF PhaseInv
<1>2. worker'.step = "raised"
  BY DEF WorkerStands, WorkerRow, PhaseInv
<1>3. TapeStands' /\ RequestStands'
  BY <1>2 DEF TapeStands, RequestStands, PhaseInv, Before, Rounds, Deciding, ModeTellsTheTruth
<1> QED BY <1>1, <1>3 DEF PhaseInv

LEMMA FallsBack ==
    ASSUME PhaseInv, FallBackOrRaise(<<>>), worker.step \in Before \cup Rounds,
           UNCHANGED <<policy, handler, lateCalls>>
    PROVE  PhaseInv' /\ (tape # NoTape => tape' = tape)
BY NothingTold, Freezes, Raises DEF FallBackOrRaise, Truth

LEMMA EarlyEndsKeep ==
    ASSUME PhaseInv, NotAvailable \/ NothingPlanned \/ InitialPilotFails \/ FeedbackFails
    PROVE  PhaseInv' /\ (tape # NoTape => tape' = tape)
BY FallsBack, NothingTold, Freezes DEF NotAvailable, Before, InitialPilotFails, FeedbackFails, Rounds,
   NothingPlanned, Truth

\* The rules' signals of a sequence are finitely many.
LEMMA RulesCounted ==
    ASSUME NEW signals \in Seq(SignalRow)
    PROVE  /\ Len(signals) \in Nat
           /\ IsFiniteSet(1..Len(signals)) /\ Cardinality(1..Len(signals)) = Len(signals)
           /\ IsFiniteSet(Rules(signals)) /\ Cardinality(Rules(signals)) \in Nat
           /\ Rules(signals) \subseteq 1..Len(signals)
           /\ Cardinality(Rules(signals)) = 0 => Rules(signals) = {}
           /\ Cardinality(Rules(signals)) = Len(signals) => Rules(signals) = 1..Len(signals)
<1> DEFINE n == Len(signals)
<1>1. n \in Nat
  BY LenProperties
<1> HIDE DEF n
<1>2. IsFiniteSet(1..n) /\ Cardinality(1..n) = n
  BY <1>1, FS_Interval
<1>3. Rules(signals) \subseteq 1..n
  BY DEF Rules, n
<1>4. /\ IsFiniteSet(Rules(signals))
      /\ Cardinality(Rules(signals)) = Cardinality(1..n) => Rules(signals) = 1..n
  BY <1>2, <1>3, FS_Subset
<1>5. Cardinality(Rules(signals)) \in Nat /\ (Cardinality(Rules(signals)) = 0 => Rules(signals) = {})
  BY <1>4, FS_CardinalityType, FS_EmptySet
<1> QED BY <1>1, <1>2, <1>3, <1>4, <1>5 DEF n

\* The head of the loop shares out what is left of the plan.
LEMMA RoundEntered ==
    ASSUME policy \in [fallbackToRules : BOOLEAN, callBudget : CallBudgets],
           NEW w \in WorkerRow, NEW round \in 1..DecisionRounds, SignalsStand(w),
           0 < w.remaining, w.remaining + Len(w.signals) = Plan,
           w.pilotSignals = Len(w.signals), w.attempted = Len(w.signals),
           w.failureCode = NoReason,
           w.remaining <= Representatives * (DecisionRounds - round) + Representatives,
           \A j \in 1..Len(w.signals) : w.signals[j].round < round,
           \A r \in FailureReasons : w.repeated[r] < BreakerLimit
    PROVE  WorkerStands(EnterRound(w, round)) /\ EnterRound(w, round).step = "checking"
<1> DEFINE v == EnterRound(w, round)
<1>1. /\ Representatives \in Nat /\ 1 <= Representatives /\ Plan \in Nat
      /\ w.remaining \in Nat /\ Len(w.signals) \in Nat /\ w.signals \in Seq(SignalRow)
  BY PlanFacts DEF WorkerRow
<1>2. Share(w) \in 0..Representatives /\ 1 <= Share(w) /\ Share(w) = IF w.remaining < Representatives THEN w.remaining ELSE Representatives
  BY <1>1 DEF Share
<1>3. /\ v \in WorkerRow /\ v.step = "checking" /\ v.round = round /\ v.index = 1
      /\ v.thisRound = Share(w) /\ v.roundStart = Len(w.signals)
      /\ v.remaining = w.remaining /\ v.attempted = w.attempted /\ v.signals = w.signals
      /\ v.pilotSignals = w.pilotSignals /\ v.fallbacks = w.fallbacks
      /\ v.repeated = w.repeated /\ v.failureCode = w.failureCode
  <2>1. v = [w EXCEPT !.step = "checking", !.round = round, !.index = 1,
                      !.thisRound = Share(w), !.roundStart = Len(w.signals)]
    BY DEF EnterRound, Share
  <2>2. 1 \in 0..Representatives
    BY <1>1
  <2> QED BY <1>1, <1>2, <2>1, <2>2 DEF WorkerRow, WorkerSteps
<1> HIDE DEF v
<1>4. SignalsStand(v)
  BY <1>3 DEF SignalsStand
<1>5. \A j \in 1..Len(w.signals) : w.signals[j].round \in Nat
  <2>1. \A j \in 1..Len(w.signals) : w.signals[j] \in SignalRow
    BY <1>1, ElementOfSeq
  <2>2. \A j \in 1..Len(w.signals) : w.signals[j].round \in 1..DecisionRounds
    BY <2>1 DEF SignalRow
  <2> QED BY <2>2, PlanFacts
<1>6. RoundStands(v)
  BY <1>1, <1>2, <1>3, <1>5 DEF RoundStands, Share
<1>7. Decided(v)
  BY <1>1, <1>3 DEF Decided, Deciding
<1>8. WorkerStands(v)
  BY <1>1, <1>3, <1>4, <1>6, <1>7 DEF WorkerStands, Before
<1> QED BY <1>3, <1>8 DEF v

\* The call of a representative has ended with a signal.
LEMMA SignalAdded ==
    ASSUME policy \in [fallbackToRules : BOOLEAN, callBudget : CallBudgets],
           WorkerStands(worker), worker.step = "calling",
           NEW source \in Sources, source = "rule" => policy.fallbackToRules,
           NEW v \in WorkerRow, v.signals = Append(worker.signals, Signal(source)),
           v.fallbacks = worker.fallbacks + (IF source = "rule" THEN 1 ELSE 0),
           v.round = worker.round, v.index = worker.index, v.thisRound = worker.thisRound,
           v.remaining = worker.remaining, v.roundStart = worker.roundStart,
           v.pilotSignals = worker.pilotSignals
    PROVE  SignalsStand(v) /\ RoundStands(v) /\ Len(v.signals) = v.roundStart + v.index
<1> DEFINE s == worker.signals
           n == Len(worker.signals)
           t == v.signals
<1>1. worker \in WorkerRow /\ SignalsStand(worker) /\ RoundStands(worker) /\ Decided(worker)
  BY DEF WorkerStands, Rounds, Deciding
<1>2. /\ s \in Seq(SignalRow) /\ n \in Nat /\ worker.roundStart \in Nat /\ worker.index \in Nat
      /\ worker.round \in Nat /\ worker.fallbacks \in Nat
  <2>1. worker.round \in 1..DecisionRounds /\ worker.index \in 0..Representatives
    BY <1>1 DEF WorkerRow
  <2>2. worker.round \in Nat /\ worker.index \in Nat
    BY <2>1, PlanFacts
  <2> QED BY <1>1, <2>2, LenProperties DEF WorkerRow
<1>3. n = worker.roundStart + worker.index - 1 /\ 1 <= worker.index
  BY <1>1 DEF Decided, RoundStands, Deciding
<1>4. /\ Len(t) = n + 1 /\ t[n + 1] = Signal(source)
      /\ \A j \in 1..n : t[j] = s[j]
  BY <1>2, AppendProperties
<1>5. /\ Signal(source).round = worker.round /\ Signal(source).source = source
      /\ Signal(source).pilotSignals = worker.roundStart
  BY <1>1 DEF Signal, RoundStands
<1>6. \A j \in 1..n : s[j].round \in Nat /\ s[j].pilotSignals \in Nat
  <2>1. \A j \in 1..n : s[j] \in SignalRow
    BY <1>2, ElementOfSeq
  <2>2. \A j \in 1..n : s[j].round \in 1..DecisionRounds /\ s[j].pilotSignals \in Nat
    BY <2>1 DEF SignalRow
  <2> QED BY <2>2, PlanFacts
<1>7. /\ \A j \in 1..n : s[j].round <= worker.round /\ (s[j].round < worker.round <=> j <= worker.roundStart)
      /\ \A i \in 1..n : /\ s[i].pilotSignals <= n
                       /\ \A j \in 1..n : s[j].round < s[i].round <=> j <= s[i].pilotSignals
      /\ worker.fallbacks = Cardinality(Rules(s)) /\ (~policy.fallbackToRules => Rules(s) = {})
  BY <1>1 DEF SignalsStand, RoundStands
<1> HIDE DEF s, n, t
<1>8. \A j \in 1..(n + 1) : j \in 1..n \/ j = n + 1
  BY <1>2
<1>9. \A j \in 1..(n + 1) : t[j].round <= worker.round /\ (t[j].round < worker.round <=> j <= worker.roundStart)
  <2>1. worker.roundStart < n + 1
    BY <1>2, <1>3
  <2>2. t[n + 1].round = worker.round
    BY <1>4, <1>5
  <2>3. ~(worker.round < worker.round) /\ ~(n + 1 <= worker.roundStart) /\ worker.round <= worker.round
    BY <1>2, <2>1
  <2>4. \A j \in 1..n : t[j].round <= worker.round /\ (t[j].round < worker.round <=> j <= worker.roundStart)
    BY <1>4, <1>7
  <2> QED BY <1>8, <2>2, <2>3, <2>4
<1>10. ASSUME NEW i \in 1..(n + 1)
       PROVE  /\ t[i].pilotSignals <= n + 1
              /\ \A j \in 1..(n + 1) : t[j].round < t[i].round <=> j <= t[i].pilotSignals
  <2>1. CASE i = n + 1
    <3>1. t[i].pilotSignals = worker.roundStart /\ t[i].round = worker.round
      BY <1>4, <1>5, <2>1
    <3>2. worker.roundStart <= n + 1
      BY <1>2, <1>3
    <3> QED BY <1>9, <3>1, <3>2
  <2>2. CASE i \in 1..n
    <3>1. t[i] = s[i]
      BY <1>4, <2>2
    <3>2. t[i].pilotSignals \in Nat /\ t[i].pilotSignals <= n /\ t[i].round \in Nat /\ t[i].round <= worker.round
      BY <1>6, <1>7, <2>2, <3>1
    <3>3. ~(t[n + 1].round < t[i].round) /\ ~(n + 1 <= t[i].pilotSignals)
      BY <1>2, <1>4, <1>5, <3>2
    <3>4. \A j \in 1..n : t[j].round < t[i].round <=> j <= t[i].pilotSignals
      BY <1>4, <1>7, <2>2, <3>1
    <3> QED BY <1>2, <1>8, <3>2, <3>3, <3>4
  <2> QED BY <1>8, <2>1, <2>2
<1>11. /\ v.fallbacks = Cardinality(Rules(t))
       /\ ~policy.fallbackToRules => Rules(t) = {}
  <2>1. /\ IsFiniteSet(Rules(s)) /\ Cardinality(Rules(s)) \in Nat /\ Rules(s) \subseteq 1..n
    BY <1>2, RulesCounted DEF s, n
  <2>2. CASE source = "rule"
    <3>1. Rules(t) = Rules(s) \cup {n + 1} /\ n + 1 \notin Rules(s)
      BY <1>2, <1>4, <1>5, <1>8, <2>1, <2>2 DEF Rules, n, s
    <3>2. Cardinality(Rules(t)) = Cardinality(Rules(s)) + 1
      BY <2>1, <3>1, FS_AddElement
    <3> QED BY <1>7, <2>2, <3>2
  <2>3. CASE source # "rule"
    <3>1. Rules(t) = Rules(s)
      BY <1>2, <1>4, <1>5, <1>8, <2>3 DEF Rules, n, s
    <3> QED BY <1>2, <1>7, <2>3, <3>1
  <2> QED BY <2>2, <2>3
<1>12. SignalsStand(v)
  BY <1>4, <1>10, <1>11 DEF SignalsStand, t
<1>13. RoundStands(v)
  BY <1>1, <1>4, <1>9 DEF RoundStands, t, Share
<1>14. Len(v.signals) = v.roundStart + v.index
  BY <1>2, <1>3, <1>4 DEF t
<1> QED BY <1>12, <1>13, <1>14

\* The round goes on with the next representative, or ends.
LEMMA RoundGoesOn ==
    ASSUME policy \in [fallbackToRules : BOOLEAN, callBudget : CallBudgets],
           NEW w \in WorkerRow, SignalsStand(w), RoundStands(w),
           Len(w.signals) = w.roundStart + w.index, w.attempted = Len(w.signals),
           w.failureCode = NoReason,
           \A r \in FailureReasons : w.repeated[r] < BreakerLimit
    PROVE  /\ WorkerStands(NextRepresentative(w))
           /\ NextRepresentative(w).step \in {"checking", "feedback"}
<1>1. /\ Representatives \in Nat /\ Plan \in Nat /\ w.remaining \in Nat /\ w.roundStart \in Nat
      /\ w.index \in Nat /\ w.thisRound \in 0..Representatives /\ Len(w.signals) \in Nat
      /\ w.signals \in Seq(SignalRow)
  BY PlanFacts DEF WorkerRow
<1>2. /\ w.remaining + w.roundStart = Plan /\ w.index <= w.thisRound /\ w.thisRound = Share(w)
      /\ w.thisRound <= w.remaining /\ 1 <= w.index
  BY <1>1 DEF RoundStands, Share
<1>3. w.attempted <= Plan /\ w.remaining <= Plan
  BY <1>1, <1>2
<1>4. CASE w.index = w.thisRound
  <2> DEFINE v == [w EXCEPT !.step = "feedback"]
  <2>1. /\ v \in WorkerRow /\ v.step = "feedback" /\ v.round = w.round /\ v.index = w.index
        /\ v.thisRound = w.thisRound /\ v.roundStart = w.roundStart
        /\ v.remaining = w.remaining /\ v.attempted = w.attempted /\ v.signals = w.signals
        /\ v.pilotSignals = w.pilotSignals /\ v.fallbacks = w.fallbacks
        /\ v.repeated = w.repeated /\ v.failureCode = w.failureCode
    BY DEF WorkerRow, WorkerSteps
  <2>2. NextRepresentative(w) = v
    BY <1>4 DEF NextRepresentative
  <2> HIDE DEF v
  <2>3. SignalsStand(v) /\ RoundStands(v)
    BY <2>1 DEF SignalsStand, RoundStands, Share
  <2>4. Decided(v)
    BY <1>1, <1>2, <1>4, <2>1 DEF Decided, Deciding
  <2>5. WorkerStands(v)
    BY <1>3, <2>1, <2>3, <2>4 DEF WorkerStands, Before
  <2> QED BY <2>1, <2>2, <2>5
<1>5. CASE w.index # w.thisRound
  <2> DEFINE v == [w EXCEPT !.step = "checking", !.index = @ + 1]
  <2>0. w.index + 1 \in 0..Representatives /\ w.index + 1 <= w.thisRound
    BY <1>1, <1>2, <1>5
  <2>1. /\ v \in WorkerRow /\ v.step = "checking" /\ v.round = w.round /\ v.index = w.index + 1
        /\ v.thisRound = w.thisRound /\ v.roundStart = w.roundStart
        /\ v.remaining = w.remaining /\ v.attempted = w.attempted /\ v.signals = w.signals
        /\ v.pilotSignals = w.pilotSignals /\ v.fallbacks = w.fallbacks
        /\ v.repeated = w.repeated /\ v.failureCode = w.failureCode
    BY <2>0 DEF WorkerRow, WorkerSteps
  <2>2. NextRepresentative(w) = v
    BY <1>5 DEF NextRepresentative
  <2> HIDE DEF v
  <2>3. SignalsStand(v)
    BY <2>1 DEF SignalsStand
  <2>4. RoundStands(v)
    <3>1. Share(v) = Share(w)
      BY <2>1 DEF Share
    <3>2. /\ v.remaining + v.roundStart = Plan /\ 0 < v.remaining
          /\ v.remaining <= Representatives * (DecisionRounds - v.round) + Representatives
          /\ v.thisRound = Share(v)
      BY <2>1, <3>1 DEF RoundStands
    <3>3. 1 <= v.index /\ v.index <= v.thisRound
      BY <1>1, <1>2, <2>0, <2>1
    <3>4. v.pilotSignals = v.roundStart
      BY <2>1 DEF RoundStands
    <3>5. \A j \in 1..Len(v.signals) :
             /\ v.signals[j].round <= v.round
             /\ v.signals[j].round < v.round <=> j <= v.roundStart
      BY <2>1 DEF RoundStands
    <3> QED BY <3>2, <3>3, <3>4, <3>5 DEF RoundStands
  <2>5. Decided(v)
    BY <1>1, <1>2, <2>1 DEF Decided, Deciding
  <2>6. WorkerStands(v)
    BY <1>3, <2>1, <2>3, <2>4, <2>5 DEF WorkerStands, Before
  <2> QED BY <2>1, <2>2, <2>6
<1> QED BY <1>4, <1>5

\* A step of the worker that goes on.
LEMMA GoesOn ==
    ASSUME PhaseInv, NEW w, WorkerStands(w), worker' = w, row' \in RowType,
           tape = NoTape, UNCHANGED <<policy, tape, handler>>, RequestStands'
    PROVE  PhaseInv' /\ (tape # NoTape => tape' = tape)
BY Carried DEF TapeStands, ModeTellsTheTruth, PhaseInv

LEMMA WorkerAt ==
    ASSUME PhaseInv
    PROVE  /\ worker \in WorkerRow /\ SignalsStand(worker) /\ WorkerStands(worker)
           /\ worker.attempted <= Plan /\ worker.remaining <= Plan
           /\ worker.step \in Before => Untouched(worker) /\ tape = NoTape
           /\ worker.step \in Rounds => RoundStands(worker) /\ Decided(worker) /\ tape = NoTape
           /\ worker.step \in Before \cup Deciding =>
                 \A r \in FailureReasons : worker.repeated[r] < BreakerLimit
           /\ row \in RowType /\ RequestStands /\ row.requested \in BOOLEAN
           /\ policy \in [fallbackToRules : BOOLEAN, callBudget : CallBudgets]
BY DEF PhaseInv, WorkerStands, TapeStands, RowType

LEMMA InitializeKeeps == PhaseInv /\ Initialize => PhaseInv' /\ (tape # NoTape => tape' = tape)
<1> SUFFICES ASSUME PhaseInv, Initialize PROVE PhaseInv' /\ (tape # NoTape => tape' = tape)
  OBVIOUS
<1> DEFINE w == [worker EXCEPT !.step = "pilot", !.remaining = Plan]
<1>1. /\ worker \in WorkerRow /\ SignalsStand(worker) /\ Untouched(worker) /\ tape = NoTape
      /\ \A r \in FailureReasons : worker.repeated[r] < BreakerLimit
      /\ worker.attempted <= Plan /\ RequestStands
  BY WorkerAt DEF Initialize, Before
<1>2. Plan \in Nat /\ Plan > 0
  BY PlanFacts, WorkerAt DEF Initialize, Plan
<1>3. /\ w \in WorkerRow /\ w.step = "pilot" /\ w.remaining = Plan /\ w.attempted = worker.attempted
      /\ w.signals = worker.signals /\ w.fallbacks = worker.fallbacks /\ w.round = worker.round
      /\ w.repeated = worker.repeated /\ w.roundStart = worker.roundStart
      /\ w.pilotSignals = worker.pilotSignals /\ w.failureCode = worker.failureCode
  BY <1>1, <1>2 DEF WorkerRow, WorkerSteps
<1>4. worker' = w
  BY DEF Initialize, Plan
<1> HIDE DEF w
<1>5. SignalsStand(w) /\ Untouched(w)
  BY <1>1, <1>2, <1>3 DEF SignalsStand, Untouched
<1>6. WorkerStands(w)
  BY <1>1, <1>2, <1>3, <1>5 DEF WorkerStands, Before, Rounds, Deciding
<1>7. row' \in RowType /\ row'.requested = row.requested
  BY Reported, WorkerAt DEF Initialize
<1>8. RequestStands'
  BY <1>1, <1>3, <1>4, <1>7 DEF RequestStands, Initialize
<1> QED BY <1>1, <1>4, <1>6, <1>7, <1>8, GoesOn DEF Initialize

LEMMA PilotReadyKeeps == PhaseInv /\ PilotReady => PhaseInv' /\ (tape # NoTape => tape' = tape)
<1> SUFFICES ASSUME PhaseInv, PilotReady PROVE PhaseInv' /\ (tape # NoTape => tape' = tape)
  OBVIOUS
<1> DEFINE w == EnterRound(worker, 1)
<1>1. /\ worker \in WorkerRow /\ SignalsStand(worker) /\ Untouched(worker) /\ tape = NoTape
      /\ \A r \in FailureReasons : worker.repeated[r] < BreakerLimit
      /\ RequestStands /\ worker.step = "pilot"
  BY WorkerAt DEF PilotReady, Before
<1>2. /\ worker.signals = <<>> /\ Len(worker.signals) = 0 /\ worker.remaining = Plan /\ Plan > 0
      /\ worker.pilotSignals = 0 /\ worker.attempted = 0 /\ worker.failureCode = NoReason
  BY <1>1 DEF Untouched
<1>3. /\ Plan \in Nat /\ 1 \in 1..DecisionRounds
      /\ Plan <= Representatives * (DecisionRounds - 1) + Representatives
  BY PlanFacts, WorkerAt
<1>4. WorkerStands(w) /\ w.step = "checking"
  BY <1>2, <1>3, <1>1, RoundEntered, WorkerAt
<1>5. worker' = w
  BY DEF PilotReady
<1> HIDE DEF w
<1>6. row' \in RowType /\ row'.requested = row.requested
  BY Reported, WorkerAt DEF PilotReady
<1>7. RequestStands'
  BY <1>1, <1>4, <1>5, <1>6 DEF RequestStands, PilotReady
<1> QED BY <1>1, <1>4, <1>5, <1>6, <1>7, GoesOn DEF PilotReady

\* In a round the worker moves to another step, or notes why the round is to end.
LEMMA CheckKeeps == PhaseInv /\ CheckContinuation => PhaseInv' /\ (tape # NoTape => tape' = tape)
<1> SUFFICES ASSUME PhaseInv, CheckContinuation PROVE PhaseInv' /\ (tape # NoTape => tape' = tape)
  OBVIOUS
<1>1. /\ worker \in WorkerRow /\ SignalsStand(worker) /\ tape = NoTape
      /\ RoundStands(worker) /\ Decided(worker)
      /\ \A r \in FailureReasons : worker.repeated[r] < BreakerLimit
      /\ worker.attempted <= Plan /\ worker.remaining <= Plan
      /\ RequestStands /\ worker.step = "checking" /\ row \in RowType
  BY WorkerAt DEF CheckContinuation, Rounds, Deciding
<1>2. /\ Len(worker.signals) = worker.roundStart + worker.index - 1
      /\ worker.attempted = Len(worker.signals) /\ worker.failureCode = NoReason
      /\ worker.roundStart \in Nat /\ worker.index \in Nat
  BY <1>1, PlanFacts, WorkerAt DEF WorkerRow, Decided, Deciding
<1>3. CASE row.requested
  <2> DEFINE w == [worker EXCEPT !.step = "feedback", !.continued = TRUE,
                                        !.failureCode = "CONTINUATION"]
  <2>1. /\ w \in WorkerRow /\ w.step = "feedback" /\ w.round = worker.round
        /\ w.index = worker.index
        /\ w.thisRound = worker.thisRound /\ w.roundStart = worker.roundStart
        /\ w.remaining = worker.remaining /\ w.attempted = worker.attempted
        /\ w.signals = worker.signals /\ w.pilotSignals = worker.pilotSignals
        /\ w.fallbacks = worker.fallbacks /\ w.failureCode = "CONTINUATION"
    BY <1>1 DEF WorkerRow, WorkerSteps, Codes
  <2>2. worker' = w /\ ReportProgress("RULE_CONTINUATION_REQUESTED")
    BY <1>3 DEF CheckContinuation
  <2> HIDE DEF w
  <2>3. SignalsStand(w) /\ RoundStands(w)
    BY <1>1, <2>1 DEF SignalsStand, RoundStands, Share
  <2>4. Decided(w)
    BY CognitionAssumption, <1>2, <2>1 DEF Decided, Deciding
  <2>5. WorkerStands(w)
    BY <1>1, <2>1, <2>3, <2>4 DEF WorkerStands, Before, Deciding
  <2>6. row' \in RowType /\ row'.requested = row.requested
    BY <1>1, <2>2, Reported
  <2>7. RequestStands'
    BY <1>1, <2>1, <2>2, <2>6 DEF RequestStands, CheckContinuation
  <2> QED BY <1>1, <2>2, <2>5, <2>6, <2>7, GoesOn DEF CheckContinuation
<1>4. CASE ~row.requested
  <2> DEFINE w == [worker EXCEPT !.step = "dispatching"]
  <2>1. /\ w \in WorkerRow /\ w.step = "dispatching" /\ w.round = worker.round
        /\ w.index = worker.index
        /\ w.thisRound = worker.thisRound /\ w.roundStart = worker.roundStart
        /\ w.remaining = worker.remaining /\ w.attempted = worker.attempted
        /\ w.signals = worker.signals /\ w.pilotSignals = worker.pilotSignals
        /\ w.fallbacks = worker.fallbacks /\ w.failureCode = worker.failureCode
        /\ w.repeated = worker.repeated
    BY <1>1 DEF WorkerRow, WorkerSteps
  <2>2. worker' = w /\ row' = row
    BY <1>4 DEF CheckContinuation
  <2> HIDE DEF w
  <2>3. SignalsStand(w) /\ RoundStands(w)
    BY <1>1, <2>1 DEF SignalsStand, RoundStands, Share
  <2>4. Decided(w)
    BY <1>2, <2>1 DEF Decided, Deciding
  <2>5. WorkerStands(w)
    BY <1>1, <2>1, <2>3, <2>4 DEF WorkerStands, Before, Deciding
  <2>6. RequestStands'
    BY <1>1, <1>4, <2>2 DEF RequestStands, CheckContinuation
  <2> QED BY <1>1, <2>2, <2>5, <2>6, GoesOn DEF CheckContinuation
<1> QED BY <1>3, <1>4

LEMMA DispatchKeeps == PhaseInv /\ Dispatch => PhaseInv' /\ (tape # NoTape => tape' = tape)
<1> SUFFICES ASSUME PhaseInv, Dispatch PROVE PhaseInv' /\ (tape # NoTape => tape' = tape)
  OBVIOUS
<1> DEFINE w == [worker EXCEPT !.step = "calling", !.attempted = @ + 1]
<1>1. /\ worker \in WorkerRow /\ SignalsStand(worker) /\ tape = NoTape
      /\ RoundStands(worker) /\ Decided(worker)
      /\ \A r \in FailureReasons : worker.repeated[r] < BreakerLimit
      /\ worker.remaining <= Plan
      /\ RequestStands /\ worker.step = "dispatching" /\ row \in RowType
  BY WorkerAt DEF Dispatch, Rounds, Deciding
<1>2. /\ Len(worker.signals) = worker.roundStart + worker.index - 1
      /\ worker.attempted = Len(worker.signals) /\ worker.failureCode = NoReason
      /\ worker.roundStart \in Nat /\ worker.index \in Nat /\ worker.remaining \in Nat
      /\ worker.thisRound \in Nat /\ Plan \in Nat /\ Representatives \in Nat
      /\ worker.attempted \in Nat /\ worker.attempted + 1 \in Nat
  <2>1. worker.index \in 0..Representatives /\ worker.thisRound \in 0..Representatives
    BY <1>1 DEF WorkerRow
  <2>2. worker.index \in Nat /\ worker.thisRound \in Nat /\ Plan \in Nat /\ Representatives \in Nat
    BY <2>1, PlanFacts, WorkerAt
  <2>3. worker.attempted \in Nat
    BY <1>1 DEF WorkerRow
  <2> QED BY <1>1, <2>2, <2>3 DEF Decided, Deciding, WorkerRow
<1>3. worker.attempted + 1 <= Plan
  BY <1>1, <1>2 DEF RoundStands, Share
<1>4. /\ w \in WorkerRow /\ w.step = "calling" /\ w.round = worker.round
      /\ w.index = worker.index
      /\ w.thisRound = worker.thisRound /\ w.roundStart = worker.roundStart
      /\ w.remaining = worker.remaining /\ w.attempted = worker.attempted + 1
      /\ w.signals = worker.signals /\ w.pilotSignals = worker.pilotSignals
      /\ w.fallbacks = worker.fallbacks /\ w.failureCode = worker.failureCode
      /\ w.repeated = worker.repeated
  BY <1>1, <1>2 DEF WorkerRow, WorkerSteps
<1>5. worker' = w
  BY DEF Dispatch
<1> HIDE DEF w
<1>6. SignalsStand(w) /\ RoundStands(w)
  BY <1>1, <1>4 DEF SignalsStand, RoundStands, Share
<1>7. Decided(w)
  BY <1>2, <1>4 DEF Decided, Deciding
<1>8. WorkerStands(w)
  BY <1>1, <1>3, <1>4, <1>6, <1>7 DEF WorkerStands, Before, Deciding
<1>9. row' \in RowType /\ row'.requested = row.requested
  BY Reported, WorkerAt DEF Dispatch
<1>10. RequestStands'
  BY <1>1, <1>4, <1>5, <1>9 DEF RequestStands, Dispatch
<1> QED BY <1>1, <1>5, <1>8, <1>9, <1>10, GoesOn DEF Dispatch

\* What is known while a call is out.
LEMMA InCall ==
    ASSUME PhaseInv, worker.step = "calling"
    PROVE  /\ worker \in WorkerRow /\ SignalsStand(worker) /\ WorkerStands(worker) /\ tape = NoTape
           /\ RoundStands(worker) /\ RequestStands /\ row \in RowType
           /\ \A r \in FailureReasons : worker.repeated[r] \in Nat /\ worker.repeated[r] < BreakerLimit
           /\ worker.repeated \in [FailureReasons -> 0..BreakerLimit]
           /\ worker.attempted <= Plan /\ worker.remaining <= Plan
           /\ Len(worker.signals) = worker.roundStart + worker.index - 1
           /\ worker.attempted = Len(worker.signals) + 1 /\ worker.failureCode = NoReason
           /\ worker.roundStart \in Nat /\ worker.index \in Nat /\ worker.fallbacks \in Nat
           /\ worker.signals \in Seq(SignalRow) /\ Signal("model") \in SignalRow
           /\ Signal("rule") \in SignalRow
           /\ BreakerLimit \in Nat /\ 1 <= BreakerLimit
           /\ policy \in [fallbackToRules : BOOLEAN, callBudget : CallBudgets]
<1>1. /\ worker \in WorkerRow /\ SignalsStand(worker) /\ WorkerStands(worker) /\ tape = NoTape
      /\ RoundStands(worker) /\ Decided(worker) /\ RequestStands /\ row \in RowType
      /\ \A r \in FailureReasons : worker.repeated[r] < BreakerLimit
      /\ worker.attempted <= Plan /\ worker.remaining <= Plan
      /\ policy \in [fallbackToRules : BOOLEAN, callBudget : CallBudgets]
  BY WorkerAt DEF Rounds, Deciding
<1>2. /\ worker.index \in 0..Representatives /\ worker.roundStart \in Nat
      /\ worker.fallbacks \in Nat /\ worker.signals \in Seq(SignalRow)
      /\ worker.repeated \in [FailureReasons -> 0..BreakerLimit]
  BY <1>1 DEF WorkerRow
<1>3. worker.index \in Nat /\ BreakerLimit \in Nat /\ 1 <= BreakerLimit
  BY <1>1, <1>2, PlanFacts
<1>4. \A r \in FailureReasons : worker.repeated[r] \in Nat
  BY <1>2, <1>3
<1>5. Signal("model") \in SignalRow /\ Signal("rule") \in SignalRow
  BY <1>1 DEF Signal, SignalRow, Sources, WorkerRow
<1> QED BY <1>1, <1>2, <1>3, <1>4, <1>5 DEF Decided, Deciding

LEMMA ModelKeeps == PhaseInv /\ ModelDecides => PhaseInv' /\ (tape # NoTape => tape' = tape)
<1> SUFFICES ASSUME PhaseInv, ModelDecides PROVE PhaseInv' /\ (tape # NoTape => tape' = tape)
  OBVIOUS
<1> DEFINE t == Append(worker.signals, Signal("model"))
           v == [worker EXCEPT !.signals = t]
<1>0. worker.step = "calling"
  BY DEF ModelDecides
<1>1. t \in Seq(SignalRow)
  BY <1>0, InCall, AppendProperties
<1>2. worker' = NextRepresentative(v)
  BY DEF ModelDecides
<1> HIDE DEF t
<1>3. /\ v \in WorkerRow /\ v.step = "calling" /\ v.round = worker.round /\ v.index = worker.index
      /\ v.thisRound = worker.thisRound /\ v.roundStart = worker.roundStart
      /\ v.remaining = worker.remaining /\ v.attempted = worker.attempted
      /\ v.signals = t /\ v.pilotSignals = worker.pilotSignals
      /\ v.fallbacks = worker.fallbacks /\ v.failureCode = worker.failureCode
      /\ v.repeated = worker.repeated
  BY <1>0, <1>1, InCall DEF WorkerRow
<1> HIDE DEF v
<1>4. v.fallbacks = worker.fallbacks + (IF "model" = "rule" THEN 1 ELSE 0)
  BY <1>0, <1>3, InCall
<1>5. SignalsStand(v) /\ RoundStands(v) /\ Len(v.signals) = v.roundStart + v.index
  BY <1>0, <1>3, <1>4, InCall, SignalAdded DEF Sources, t
<1>6. v.attempted = Len(v.signals)
  BY <1>0, <1>3, <1>5, InCall
<1> DEFINE w == NextRepresentative(v)
<1>7. WorkerStands(w) /\ w.step \in {"checking", "feedback"}
  BY <1>0, <1>3, <1>5, <1>6, InCall, RoundGoesOn
<1>8. row' \in RowType /\ row'.requested = row.requested
  BY Reported, WorkerAt DEF ModelDecides
<1> HIDE DEF w
<1>9. worker' = w
  BY <1>2 DEF w
<1>10. RequestStands'
  BY <1>0, <1>7, <1>8, <1>9, InCall DEF RequestStands, ModelDecides
<1> QED BY <1>0, <1>7, <1>8, <1>9, <1>10, InCall, GoesOn DEF ModelDecides

\* A round that a failure ends, after its last call.
LEMMA RoundCut ==
    ASSUME PhaseInv, worker.step = "calling", NEW v, v \in WorkerRow,
           SignalsStand(v), RoundStands(v), v.failureCode # NoReason, v.step = "feedback",
           v.attempted = worker.attempted, v.roundStart = worker.roundStart,
           v.index = worker.index, v.remaining = worker.remaining,
           Len(v.signals) \in {worker.roundStart + worker.index - 1, worker.roundStart + worker.index}
    PROVE  WorkerStands(v)
<1>1. /\ worker.attempted = worker.roundStart + worker.index
      /\ worker.attempted <= Plan /\ worker.remaining <= Plan
  <2>1. /\ Len(worker.signals) = worker.roundStart + worker.index - 1
        /\ worker.attempted = Len(worker.signals) + 1
        /\ worker.roundStart \in Nat /\ worker.index \in Nat
        /\ worker.attempted <= Plan /\ worker.remaining <= Plan
    BY InCall
  <2> QED BY <2>1
<1>2. worker.attempted \in Nat /\ worker.attempted <= worker.attempted
  BY InCall DEF WorkerRow
<1>3. Decided(v)
  BY <1>1, <1>2 DEF Decided, Deciding
<1> QED BY <1>1, <1>3 DEF WorkerStands, Before, Deciding

LEMMA RuleKeeps ==
    ASSUME PhaseInv, NEW reason \in FailureReasons, RuleDecides(reason)
    PROVE  PhaseInv' /\ (tape # NoTape => tape' = tape)
<1> DEFINE t == Append(worker.signals, Signal("rule"))
           again == Again(reason)
           v == [worker EXCEPT !.signals = t, !.fallbacks = worker.fallbacks + 1,
                               !.repeated = again]
<1>0. worker.step = "calling" /\ policy.fallbackToRules
  BY DEF RuleDecides
<1>1. t \in Seq(SignalRow)
  BY <1>0, InCall, AppendProperties
<1>2. /\ again \in [FailureReasons -> 0..BreakerLimit]
      /\ again[reason] \in Nat
      /\ again[reason] < BreakerLimit => \A r \in FailureReasons : again[r] < BreakerLimit
  BY <1>0, InCall DEF Again
<1>3. worker' = IF CircuitOpens(v.repeated[reason])
                THEN [v EXCEPT !.step = "feedback", !.failureCode = "CIRCUIT_OPEN"]
                ELSE NextRepresentative(v)
  BY DEF RuleDecides
<1> HIDE DEF t, again
<1>4. /\ v \in WorkerRow /\ v.step = "calling" /\ v.round = worker.round /\ v.index = worker.index
      /\ v.thisRound = worker.thisRound /\ v.roundStart = worker.roundStart
      /\ v.remaining = worker.remaining /\ v.attempted = worker.attempted
      /\ v.signals = t /\ v.pilotSignals = worker.pilotSignals
      /\ v.fallbacks = worker.fallbacks + 1 /\ v.failureCode = worker.failureCode
      /\ v.repeated = again
  <2>1. worker \in WorkerRow /\ worker.fallbacks + 1 \in Nat
    BY <1>0, InCall
  <2> QED BY <1>0, <1>1, <1>2, <2>1 DEF WorkerRow
<1> HIDE DEF v
<1>5. v.fallbacks = worker.fallbacks + (IF "rule" = "rule" THEN 1 ELSE 0)
  BY <1>4
<1>6. SignalsStand(v) /\ RoundStands(v) /\ Len(v.signals) = v.roundStart + v.index
  BY <1>0, <1>4, <1>5, InCall, SignalAdded DEF Sources, t
<1>7. v.attempted = Len(v.signals)
  BY <1>0, <1>4, <1>6, InCall
<1>8. row' \in RowType /\ row'.requested = row.requested
  BY Reported, WorkerAt DEF RuleDecides
<1>9. CASE CircuitOpens(again[reason])
  <2> DEFINE w == [v EXCEPT !.step = "feedback", !.failureCode = "CIRCUIT_OPEN"]
  <2>1. /\ w \in WorkerRow /\ w.step = "feedback" /\ w.round = v.round /\ w.index = v.index
        /\ w.thisRound = v.thisRound /\ w.roundStart = v.roundStart
        /\ w.remaining = v.remaining /\ w.attempted = v.attempted
        /\ w.signals = v.signals /\ w.pilotSignals = v.pilotSignals
        /\ w.fallbacks = v.fallbacks /\ w.failureCode = "CIRCUIT_OPEN"
    BY <1>4 DEF WorkerRow, WorkerSteps, Codes
  <2>2. worker' = w
    BY <1>3, <1>4, <1>9
  <2> HIDE DEF w
  <2>3. SignalsStand(w) /\ RoundStands(w)
    BY <1>6, <2>1 DEF SignalsStand, RoundStands, Share
  <2>4. WorkerStands(w)
    BY CognitionAssumption, <1>0, <1>4, <1>6, <2>1, <2>3, RoundCut
  <2>5. RequestStands'
    BY <1>0, <1>8, <2>1, <2>2, InCall DEF RequestStands, RuleDecides
  <2> QED BY <1>0, <1>8, <2>2, <2>4, <2>5, InCall, GoesOn DEF RuleDecides
<1>10. CASE ~CircuitOpens(again[reason])
  <2> DEFINE w == NextRepresentative(v)
  <2>1. \A r \in FailureReasons : v.repeated[r] < BreakerLimit
    BY <1>0, <1>2, <1>4, <1>10, InCall DEF CircuitOpens
  <2>2. WorkerStands(w) /\ w.step \in {"checking", "feedback"}
    BY <1>0, <1>4, <1>6, <1>7, <2>1, InCall, RoundGoesOn
  <2> HIDE DEF w
  <2>3. worker' = w
    BY <1>3, <1>4, <1>10 DEF w
  <2>4. RequestStands'
    BY <1>0, <1>8, <2>2, <2>3, InCall DEF RequestStands, RuleDecides
  <2> QED BY <1>0, <1>8, <2>2, <2>3, <2>4, InCall, GoesOn DEF RuleDecides
<1> QED BY <1>9, <1>10

LEMMA FailureKeeps ==
    ASSUME PhaseInv, NEW reason \in FailureReasons, CallFails(reason)
    PROVE  PhaseInv' /\ (tape # NoTape => tape' = tape)
<1> DEFINE again == Again(reason)
           w == [worker EXCEPT !.step = "feedback", !.failureCode = reason, !.repeated = again]
<1>0. worker.step = "calling"
  BY DEF CallFails
<1>1. again \in [FailureReasons -> 0..BreakerLimit]
  BY <1>0, InCall DEF Again
<1>2. CASE policy.fallbackToRules
  <2>1. worker' = w /\ ReportProgress("IN_PROGRESS")
    BY <1>2 DEF CallFails
  <2> HIDE DEF again
  <2>2. /\ w \in WorkerRow /\ w.step = "feedback" /\ w.round = worker.round
        /\ w.index = worker.index
        /\ w.thisRound = worker.thisRound /\ w.roundStart = worker.roundStart
        /\ w.remaining = worker.remaining /\ w.attempted = worker.attempted
        /\ w.signals = worker.signals /\ w.pilotSignals = worker.pilotSignals
        /\ w.fallbacks = worker.fallbacks /\ w.failureCode = reason
    BY <1>0, <1>1, InCall DEF WorkerRow, WorkerSteps, Codes
  <2> HIDE DEF w
  <2>3. SignalsStand(w) /\ RoundStands(w)
    BY <1>0, <2>2, InCall DEF SignalsStand, RoundStands, Share
  <2>4. WorkerStands(w)
    BY CognitionAssumption, <1>0, <2>2, InCall, <2>3, RoundCut
  <2>5. row' \in RowType /\ row'.requested = row.requested
    BY <2>1, Reported, WorkerAt
  <2>6. RequestStands'
    BY <1>0, <2>1, <2>2, <2>5, InCall DEF RequestStands, CallFails
  <2> QED BY <1>0, <2>1, <2>4, <2>5, <2>6, InCall, GoesOn DEF CallFails
<1>3. CASE ~policy.fallbackToRules
  BY <1>3, Raises DEF CallFails
<1> QED BY <1>2, <1>3

LEMMA RaiseKeeps == PhaseInv /\ CallRaises => PhaseInv' /\ (tape # NoTape => tape' = tape)
BY Raises DEF CallRaises

LEMMA FeedbackKeeps == PhaseInv /\ Feedback => PhaseInv' /\ (tape # NoTape => tape' = tape)
<1> SUFFICES ASSUME PhaseInv, Feedback PROVE PhaseInv' /\ (tape # NoTape => tape' = tape)
  OBVIOUS
<1> DEFINE charged == AfterRound(worker)
           seen == IF Len(charged.signals) > charged.roundStart THEN PilotAfter(charged) ELSE charged
           n == Len(worker.signals)
           left == worker.remaining - (n - worker.roundStart)
<1>0. worker.step = "feedback" /\ UNCHANGED <<policy, handler, lateCalls>>
  BY DEF Feedback
<1>1. /\ worker \in WorkerRow /\ SignalsStand(worker) /\ tape = NoTape
      /\ RoundStands(worker) /\ Decided(worker) /\ RequestStands /\ row \in RowType
      /\ policy \in [fallbackToRules : BOOLEAN, callBudget : CallBudgets]
  BY <1>0, WorkerAt DEF Rounds
<1>2. /\ worker.signals \in Seq(SignalRow) /\ n \in Nat /\ worker.roundStart \in Nat
      /\ worker.remaining \in Nat /\ worker.attempted \in Nat /\ worker.index \in Nat
      /\ worker.thisRound \in Nat /\ worker.fallbacks \in Nat /\ worker.round \in 1..DecisionRounds
      /\ Representatives \in Nat /\ DecisionRounds \in Nat /\ Plan \in Nat
      /\ worker.failureCode \in Codes
  BY <1>1, PlanFacts DEF WorkerRow
<1>3. /\ n \in {worker.roundStart + worker.index - 1, worker.roundStart + worker.index}
      /\ worker.remaining + worker.roundStart = Plan /\ 1 <= worker.index
      /\ worker.index <= worker.thisRound /\ worker.thisRound <= worker.remaining
      /\ worker.failureCode = NoReason => n = worker.roundStart + worker.thisRound
                                         /\ worker.attempted = n
      /\ worker.pilotSignals = worker.roundStart
  BY <1>0, <1>1, <1>2 DEF Decided, RoundStands, Deciding, Share
<1>4. left \in Nat /\ left + n = Plan /\ worker.roundStart <= n
  <2> DEFINE start == worker.roundStart
             share == worker.remaining
             turn == worker.index
             shared == worker.thisRound
  <2>1. /\ n \in Nat /\ start \in Nat /\ share \in Nat /\ turn \in Nat /\ shared \in Nat
        /\ n = start + turn - 1 \/ n = start + turn
        /\ share + start = Plan /\ 1 <= turn /\ turn <= shared /\ shared <= share /\ Plan \in Nat
    BY <1>2, <1>3
  <2>2. left = share - (n - start)
    OBVIOUS
  <2> HIDE DEF n, start, share, turn, shared, left
  <2>3. left \in Nat /\ left + n = Plan /\ start <= n
    BY <2>1, <2>2
  <2> QED BY <2>3 DEF start
<1>5. /\ seen \in WorkerRow /\ seen.round = worker.round /\ seen.signals = worker.signals
      /\ seen.remaining = left /\ seen.attempted = worker.attempted
      /\ seen.fallbacks = worker.fallbacks /\ seen.failureCode = worker.failureCode
      /\ seen.repeated = worker.repeated /\ seen.pilotSignals = n
      /\ seen.continued = worker.continued
  <2> DEFINE w == [worker EXCEPT !.remaining = left]
  <2>1. charged = w
    BY <1>2 DEF AfterRound, Spent, WorkerRow
  <2> HIDE DEF left
  <2>2. /\ w \in WorkerRow /\ w.round = worker.round /\ w.signals = worker.signals
        /\ w.remaining = left /\ w.attempted = worker.attempted
        /\ w.fallbacks = worker.fallbacks /\ w.failureCode = worker.failureCode
        /\ w.repeated = worker.repeated /\ w.pilotSignals = worker.pilotSignals
        /\ w.continued = worker.continued /\ w.roundStart = worker.roundStart
    BY <1>1, <1>4 DEF WorkerRow
  <2> HIDE DEF w, charged
  <2>3. CASE n > worker.roundStart
    BY <2>1, <2>2, <2>3, <1>2 DEF PilotAfter, WorkerRow
  <2>4. CASE ~(n > worker.roundStart)
    BY <1>2, <1>4, <2>1, <2>2, <2>4, <1>3
  <2> QED BY <2>3, <2>4
<1>6. CASE Ends(seen)
  <2> DEFINE status == IF seen.continued THEN "COMPLETED_WITH_RULE_CONTINUATION" ELSE "COMPLETED"
  <2>1. Freeze(Mode(seen), seen.signals, status)
    BY <1>6 DEF Feedback
  <2>2. status \in {"COMPLETED", "COMPLETED_WITH_RULE_CONTINUATION"}
    OBVIOUS
  <2> HIDE DEF seen, charged, left, status
  <2> DEFINE mode == Mode(seen)
             k == Cardinality(Rules(worker.signals))
  <2>3. /\ worker.fallbacks = k /\ (~policy.fallbackToRules => Rules(worker.signals) = {})
        /\ k \in Nat /\ (k = 0 => Rules(worker.signals) = {})
        /\ k = n => Rules(worker.signals) = 1..n
    BY <1>1, <1>2, RulesCounted DEF SignalsStand
  <2>4. mode = IF n > 0 /\ worker.fallbacks = n THEN "RULE_FALLBACK"
               ELSE IF worker.fallbacks > 0 \/ (worker.failureCode # NoReason /\ n > 0)
                    THEN "HYBRID_LLM_PARTIAL_RULE_FALLBACK"
               ELSE IF worker.failureCode # NoReason THEN "RULE_FALLBACK"
               ELSE "HYBRID_LLM"
    BY <1>5 DEF Mode, ResolvedMode
  <2> HIDE DEF mode, k
  <2>5. ASSUME mode = "HYBRID_LLM" PROVE n = Plan /\ Rules(worker.signals) = {}
    <3>1. worker.failureCode = NoReason /\ ~(worker.fallbacks > 0)
      BY <2>4, <2>5
    <3>2. Rules(worker.signals) = {}
      BY <2>3, <3>1
    <3>3. worker.round = DecisionRounds \/ left = 0
      BY <1>5, <1>6, <3>1 DEF Ends
    <3>4. CASE left = 0
      BY <1>2, <1>4, <3>2, <3>4
    <3>5. CASE worker.round = DecisionRounds
      <4>1. Representatives * (DecisionRounds - worker.round) = 0
        BY <1>2, <3>5
      <4>2. worker.remaining <= Representatives
        <5>1. worker.remaining <= Representatives * (DecisionRounds - worker.round) + Representatives
          BY <1>1 DEF RoundStands
        <5> DEFINE m == Representatives * (DecisionRounds - worker.round)
        <5> HIDE DEF m
        <5>2. worker.remaining <= m + Representatives /\ m = 0
          BY <4>1, <5>1 DEF m
        <5> QED BY <1>2, <5>2
      <4>3. worker.thisRound = worker.remaining
        BY <1>1, <1>2, <4>2 DEF RoundStands, Share
      <4> QED BY <1>2, <1>3, <3>1, <3>2, <4>3
    <3> QED BY <3>3, <3>4, <3>5
  <2>6. ASSUME mode = "RULE_FALLBACK" PROVE Rules(worker.signals) = 1..n
    BY <2>3, <1>2, <2>4, <2>6
  <2>7. Truth(Mode(seen), worker.signals, Plan)
    BY <2>3, <2>5, <2>6 DEF Truth, n, mode
  <2>8. Freeze(Mode(seen), worker.signals, status)
    BY <1>5, <2>1
  <2> QED BY <1>0, <1>2, <2>2, <2>7, <2>8, Freezes DEF Rounds
<1>7. CASE ~Ends(seen)
  <2>1. worker' = EnterRound(seen, seen.round + 1) /\ row' = row /\ tape' = tape
    BY <1>7 DEF Feedback
  <2> HIDE DEF seen, charged
  <2>2. worker.failureCode = NoReason /\ worker.round # DecisionRounds /\ left # 0
    BY <1>5, <1>7 DEF Ends
  <2>3. n = worker.roundStart + worker.thisRound /\ worker.round + 1 \in 1..DecisionRounds
    <3>1. worker.round \in 1..DecisionRounds /\ DecisionRounds \in Nat /\ worker.round # DecisionRounds
      BY <1>2, <2>2
    <3>2. worker.round + 1 \in 1..DecisionRounds
      BY ONLY <3>1
    <3> QED BY <1>3, <2>2, <3>2
  <2>4. worker.attempted = n
    BY <1>3, <2>2
  <2>5. \A j \in 1..n : worker.signals[j].round < worker.round + 1
    <3>1. \A j \in 1..n : worker.signals[j] \in SignalRow
      BY <1>2, ElementOfSeq
    <3>2. \A j \in 1..n : worker.signals[j].round \in 1..DecisionRounds
      BY <3>1 DEF SignalRow
    <3>3. \A j \in 1..n : worker.signals[j].round <= worker.round
      BY <1>1 DEF RoundStands
    <3> QED BY <1>2, <3>2, <3>3
  <2>6. left <= Representatives * (DecisionRounds - (worker.round + 1)) + Representatives
    <3> DEFINE k == DecisionRounds - worker.round
               m == Representatives * k
    <3>1. worker.remaining <= m + Representatives
      BY <1>1 DEF RoundStands
    <3>0. worker.round \in 1..DecisionRounds /\ DecisionRounds \in Nat
              /\ worker.round + 1 \in 1..DecisionRounds
      BY <1>2, <2>3
    <3>2. k \in Nat /\ 1 <= k /\ DecisionRounds - (worker.round + 1) = k - 1
      BY ONLY <3>0
    <3>3. worker.thisRound = IF worker.remaining < Representatives THEN worker.remaining ELSE Representatives
      BY <1>1 DEF RoundStands, Share
    <3>4. left = worker.remaining - worker.thisRound
      BY <1>2, <2>3
    <3> HIDE DEF k
    <3>5. Representatives * (k - 1) + Representatives = m
      BY <1>2, <3>2
    <3>6. m \in Nat
      BY <1>2, <3>2
    <3>7. left <= m
      BY <1>2, <3>3, <3>4, <3>6, <3>1
    <3> QED BY <3>2, <3>5, <3>7
  <2> HIDE DEF left
  <2> DEFINE w == EnterRound(seen, worker.round + 1)
  <2>7. \A r \in FailureReasons : worker.repeated[r] < BreakerLimit
    BY <1>0, <1>1, <2>2 DEF Decided
  <2>8. SignalsStand(seen)
    BY <1>1, <1>5 DEF SignalsStand
  <2>9. WorkerStands(w) /\ w.step = "checking"
    BY <1>4, <2>2, <1>1, <1>5, <2>3, <2>4, <2>5, <2>6, <2>7, <2>8, RoundEntered
  <2> HIDE DEF w
  <2>10. worker' = w
    BY <1>5, <2>1 DEF w
  <2>11. RequestStands'
    BY <1>0, <1>1, <2>1, <2>9, <2>10 DEF RequestStands
  <2> QED BY <1>0, <1>1, <2>1, <2>9, <2>10, <2>11, GoesOn
<1> QED BY <1>6, <1>7

LEMMA PairKeeps == PhaseInv /\ StartPair => PhaseInv' /\ (tape # NoTape => tape' = tape)
<1> SUFFICES ASSUME PhaseInv, StartPair PROVE PhaseInv' /\ (tape # NoTape => tape' = tape)
  OBVIOUS
<1>1. WorkerStands(worker)'
  BY WorkerAt, Ended, Carried DEF StartPair
<1>2. worker'.step = "paired"
  BY WorkerAt DEF StartPair, WorkerRow
<1>3. row' \in RowType /\ row'.requested = row.requested
  BY WorkerAt DEF StartPair, RowType
<1>4. TapeStands' /\ RequestStands'
  BY <1>2, <1>3
     DEF TapeStands, RequestStands, PhaseInv, Before, Rounds, Deciding, ModeTellsTheTruth, StartPair
<1> QED BY <1>1, <1>3, <1>4 DEF PhaseInv, StartPair

LEMMA ContinueKeeps ==
    ASSUME PhaseInv, ContinueRead \/ ContinueWrite
    PROVE  PhaseInv' /\ (tape # NoTape => tape' = tape)
<1>1. worker' = worker /\ policy' = policy /\ tape' = tape /\ handler' \in BOOLEAN
  BY DEF ContinueRead, ContinueWrite
<1>2. WorkerStands(worker)' /\ TapeStands'
  BY <1>1, WorkerAt, Carried DEF PhaseInv, TapeStands, ModeTellsTheTruth
<1>3. row' \in RowType /\ RequestStands'
  <2>1. CASE ContinueRead
    BY <1>1, <2>1, WorkerAt DEF ContinueRead, RequestStands
  <2>2. CASE ContinueWrite
    BY <2>2 DEF ContinueWrite, RequestStands, RowType
  <2> QED BY <2>1, <2>2
<1> QED BY <1>1, <1>2, <1>3 DEF PhaseInv

\* A worker that has not begun, or finds the sequence of an earlier run.
LEMMA NewWorkerStands ==
    ASSUME policy \in [fallbackToRules : BOOLEAN, callBudget : CallBudgets]
    PROVE  /\ WorkerStands(NewWorker) /\ NewWorker.step = "starting"
           /\ WorkerStands([NewWorker EXCEPT !.step = "frozen"])
           /\ WorkerStands([NewWorker EXCEPT !.step = "starting"])
<1> DEFINE w == NewWorker
<1>1. /\ Representatives \in Nat /\ DecisionRounds \in Nat /\ 1 <= DecisionRounds
      /\ BreakerLimit \in Nat /\ 1 <= BreakerLimit /\ Plan \in Nat
  BY PlanFacts
<1>2. /\ 1 \in 1..DecisionRounds /\ 0 \in 0..Representatives /\ 0 \in 0..BreakerLimit
  BY <1>1
<1>3. /\ w \in WorkerRow /\ w.step = "starting" /\ w.round = 1 /\ w.remaining = 0
      /\ w.attempted = 0 /\ w.signals = <<>> /\ w.roundStart = 0 /\ w.pilotSignals = 0
      /\ w.fallbacks = 0 /\ w.failureCode = NoReason
      /\ \A r \in FailureReasons : w.repeated[r] = 0
  BY <1>2, NothingTold DEF NewWorker, WorkerRow, WorkerSteps, Codes
<1> HIDE DEF w
<1>4. SignalsStand(w)
  BY FS_EmptySet, <1>3, NothingTold DEF SignalsStand
<1>5. Untouched(w)
  BY <1>3 DEF Untouched
<1>6. WorkerStands(w)
  BY <1>1, <1>3, <1>4, <1>5 DEF WorkerStands, Rounds, Deciding
<1>7. [w EXCEPT !.step = "starting"] = w
  BY <1>3 DEF WorkerRow
<1> QED BY <1>3, <1>6, <1>7, Ended DEF w

LEMMA RestartKeepsPhase == PhaseInv /\ Restart => PhaseInv' /\ (tape # NoTape => tape' = tape)
<1> SUFFICES ASSUME PhaseInv, Restart PROVE PhaseInv' /\ (tape # NoTape => tape' = tape)
  OBVIOUS
<1>1. policy' = policy /\ tape' = tape /\ handler' \in BOOLEAN /\ row' = FreshRow /\ lateCalls' = 0
  BY DEF Restart
<1>2. PICK step \in {"starting", "frozen"} :
        worker' = [NewWorker EXCEPT !.step = step] /\ (step = "starting" => tape = NoTape)
  BY DEF Restart
<1> DEFINE w == [NewWorker EXCEPT !.step = step]
<1>3. WorkerStands(w)
  BY <1>2, NewWorkerStands, WorkerAt
<1>4. w.step = step
  BY DEF NewWorker
<1> HIDE DEF w
<1>5. WorkerStands(worker)'
  BY <1>1, <1>2, <1>3, Carried DEF w
<1>6. TapeStands'
  BY <1>1, <1>2, <1>4 DEF TapeStands, PhaseInv, Before, Rounds, Deciding, ModeTellsTheTruth, w
<1>7. row' \in RowType /\ RequestStands'
  BY <1>1 DEF RowType, FreshRow, RequestStands
<1> QED BY <1>1, <1>5, <1>6, <1>7 DEF PhaseInv

LEMMA PhaseInitially == CognitionInit => PhaseInv
<1> SUFFICES ASSUME CognitionInit PROVE PhaseInv
  OBVIOUS
<1>1. WorkerStands(worker) /\ worker.step = "starting"
  BY NewWorkerStands DEF CognitionInit
<1>2. TapeStands /\ RequestStands
  BY <1>1 DEF CognitionInit, TapeStands, ModeTellsTheTruth, RequestStands
<1> QED BY <1>1, <1>2 DEF PhaseInv, CognitionInit, RowType, FreshRow

LEMMA PhaseNext ==
    PhaseInv /\ [CognitionNext]_cognitionVars => PhaseInv' /\ (tape # NoTape => tape' = tape)
<1> SUFFICES ASSUME PhaseInv, [CognitionNext]_cognitionVars
             PROVE  PhaseInv' /\ (tape # NoTape => tape' = tape)
  OBVIOUS
<1>1. CASE UNCHANGED cognitionVars
  BY <1>1, WorkerAt, Carried DEF cognitionVars, PhaseInv, TapeStands, ModeTellsTheTruth, RequestStands
<1>2. CASE CognitionNext
  <2>1. CASE WorkerStep
    BY <2>1, EarlyEndsKeep, InitializeKeeps, PilotReadyKeeps, CheckKeeps, DispatchKeeps,
       ModelKeeps, RuleKeeps, FailureKeeps, RaiseKeeps, FeedbackKeeps, PairKeeps DEF WorkerStep
  <2> QED BY <1>2, <2>1, ContinueKeeps, RestartKeepsPhase DEF CognitionNext
<1> QED BY <1>1, <1>2

\* The cognition phase keeps its types, its calls within the plan and its breaker within its
\* limit (_prepareCognitiveSignals).
THEOREM PhaseTypes == CognitionSpec => []CognitionTypeOK
<1>1. PhaseInv /\ [CognitionNext]_cognitionVars => PhaseInv'
  BY PhaseNext
<1> QED BY PhaseInitially, SignalsFromInv, <1>1, PTL DEF CognitionSpec

\* For any budget, rounds and representatives: the signals of a sequence are within the
\* budget, each saw the rounds before it, none was begun after a request to stop but the one
\* under way, and the mode the result names is the one it was made in.
THEOREM SignalsHold == CognitionSpec => []SignalsAreHonest
<1>1. PhaseInv /\ [CognitionNext]_cognitionVars => PhaseInv'
  BY PhaseNext
<1> QED BY PhaseInitially, SignalsFromInv, <1>1, PTL DEF CognitionSpec

\* A frozen sequence is never changed, by no restart and no late handler.
THEOREM SequenceStays == CognitionSpec => TapeIsFrozen
<1>1. PhaseInv /\ [CognitionNext]_cognitionVars => PhaseInv'
  BY PhaseNext
<1>2. PhaseInv /\ [CognitionNext]_cognitionVars => [tape # NoTape => tape' = tape]_cognitionVars
  BY PhaseNext
<1> QED BY PhaseInitially, <1>1, <1>2, PTL DEF CognitionSpec, TapeIsFrozen

-----------------------------------------------------------------------------
(* The spread of the information.  A node that has it was told by the time  *)
(* of every offer that is still to be taken, and each neighbour it forwards *)
(* to has it by the time the link brings it there, or is offered it then.   *)

Link(n, m) == network[<<n, m>>]

SentBefore ==
    \A n \in DOMAIN receipts :
        receipts[n].sender # NoOne => receipts[receipts[n].sender].at <= receipts[n].at

\* The inductive invariant of the spread.
SpreadInv ==
    /\ PropagationTypeOK
    /\ NoFutureLeak /\ SentBefore
    /\ \A o \in offers :
          /\ o.at >= KnownAt
          /\ o.sender # NoOne => /\ o.sender \in DOMAIN receipts
                                 /\ receipts[o.sender].at + Link(o.sender, o.node) = o.at
                                 /\ receipts[o.sender].hop + 1 = o.hop
    /\ \A n \in DOMAIN receipts : \A o \in offers : receipts[n].at <= o.at
    /\ \A n \in DOMAIN receipts : \A m \in Nodes :
          m # n /\ Link(n, m) # NoDelay /\ receipts[n].hop < MaxHops =>
             \/ m \in DOMAIN receipts /\ receipts[m].at <= receipts[n].at + Link(n, m)
             \/ \E o \in offers : o.node = m /\ o.at = receipts[n].at + Link(n, m)

LEMMA InOrderFacts ==
    ASSUME NEW nodes \in SUBSET Nodes
    PROVE  /\ InOrder(nodes) \in Seq(nodes) /\ Len(InOrder(nodes)) \in Nat
           /\ DOMAIN InOrder(nodes) = 1..Len(InOrder(nodes))
           /\ \A m \in nodes : \E i \in 1..Len(InOrder(nodes)) : InOrder(nodes)[i] = m
<1> DEFINE who == InOrder(nodes)
           c == Cardinality(Nodes)
<1>1. c \in Nat
  BY FS_CardinalityType, PropagationAssumption
<1>2. NodeOrder \in Seq(Nodes)
  BY PropagationAssumption, <1>1
<1>3. Nodes \subseteq Range(NodeOrder)
  BY PropagationAssumption DEF Range
<1>4. SiftedIn(Nodes, NodeOrder, nodes)
  BY <1>2, FilteredTyped
<1>5. who \in Seq(Nodes) /\ Range(who) = nodes
  BY <1>3, <1>4, Zenon DEF SiftedIn, InOrder
<1> HIDE DEF who
<1>6. Len(who) \in Nat /\ DOMAIN who = 1..Len(who)
  BY <1>5
<1>7. \A i \in 1..Len(who) : who[i] \in nodes
  BY <1>5, <1>6 DEF Range
<1>8. who \in Seq(nodes)
  BY <1>5, <1>6, <1>7
<1>9. \A m \in nodes : \E i \in 1..Len(who) : who[i] = m
  BY <1>5, <1>6 DEF Range
<1> QED BY <1>6, <1>8, <1>9 DEF who

LEMMA SpreadInitially == PropagationInit => SpreadInv
<1> SUFFICES ASSUME PropagationInit PROVE SpreadInv
  OBVIOUS
<1> DEFINE told == InOrder(Seeds)
           start == Later(StartAt, KnownAt)
<1>1. /\ told \in Seq(Seeds) /\ DOMAIN told = 1..Len(told) /\ Len(told) \in Nat
      /\ Seeds \subseteq Nodes
  BY InOrderFacts, PropagationAssumption
<1>2. start \in Nat /\ start >= KnownAt /\ 0 \in 0..MaxHops
  BY PropagationAssumption DEF Later
<1>3. network \in Networks /\ receipts = <<>> /\ pushed = Cardinality(Seeds)
      /\ offers = {[at |-> start, hop |-> 0, seq |-> i, node |-> told[i], sender |-> NoOne] :
                      i \in DOMAIN told}
  BY DEF PropagationInit
<1>4. DOMAIN receipts = {}
  BY <1>3
<1>5. pushed \in Nat
  BY <1>3, FS_Subset, FS_CardinalityType, PropagationAssumption
<1> HIDE DEF told, start
<1>6. ASSUME NEW o \in offers
      PROVE  o \in Offer /\ o.at >= KnownAt /\ o.sender = NoOne
  BY <1>3, <1>1, <1>2 DEF Offer
<1> QED BY <1>3, <1>4, <1>5, <1>6 DEF SpreadInv, PropagationTypeOK, NoFutureLeak, SentBefore

LEMMA LinkTypes ==
    ASSUME PropagationTypeOK, NEW n \in Nodes, NEW m \in Nodes, Link(n, m) # NoDelay
    PROVE  Link(n, m) \in Nat
BY PropagationAssumption DEF PropagationTypeOK, Link

LEMMA SpreadKeeps == SpreadInv /\ Spread => SpreadInv'
<1> SUFFICES ASSUME SpreadInv, Spread PROVE SpreadInv'
  OBVIOUS
<1>0. MaxHops \in Nat /\ KnownAt \in Nat
  BY PropagationAssumption
<1>1. PICK o \in offers :
        /\ \A p \in offers \ {o} : Sooner(o, p)
        /\ UNCHANGED network
        /\ IF o.node \in DOMAIN receipts
           THEN offers' = offers \ {o} /\ UNCHANGED <<pushed, receipts>>
           ELSE LET to == IF HopsLeft(o) THEN Forwards(o.node) ELSE <<>>
                IN  /\ receipts' = [n \in DOMAIN receipts \cup {o.node} |->
                                        IF n = o.node THEN o ELSE receipts[n]]
                    /\ pushed' = pushed + Len(to)
                    /\ offers' = (offers \ {o}) \cup
                          {[at |-> o.at + network[<<o.node, to[i]>>], hop |-> o.hop + 1,
                            seq |-> pushed + i, node |-> to[i], sender |-> o.node]
                               : i \in DOMAIN to}
  BY DEF Spread
<1>2. \A p \in offers : /\ p \in Offer /\ p.at \in Nat /\ p.hop \in 0..MaxHops /\ p.node \in Nodes
                        /\ p.sender \in Nodes \cup {NoOne} /\ p.at >= KnownAt
  BY DEF SpreadInv, PropagationTypeOK, Offer
<1>3. \A p \in offers : o.at <= p.at
  BY <1>1, <1>2 DEF Sooner
<1>4. \A n, m : Link(n, m)' = Link(n, m)
  BY <1>1 DEF Link
<1>5. \A n \in DOMAIN receipts :
        /\ n \in Nodes /\ receipts[n] \in Offer /\ receipts[n].at \in Nat
        /\ receipts[n].hop \in 0..MaxHops /\ receipts[n].node = n
  BY DEF SpreadInv, PropagationTypeOK, Offer
<1>6. CASE o.node \in DOMAIN receipts
  <2>1. offers' = offers \ {o} /\ receipts' = receipts /\ pushed' = pushed /\ network' = network
    BY <1>1, <1>6
  <2>2. PropagationTypeOK'
    BY <2>1 DEF SpreadInv, PropagationTypeOK
  <2>3. NoFutureLeak' /\ SentBefore'
    BY <2>1 DEF SpreadInv, NoFutureLeak, SentBefore
  <2>4. ASSUME NEW n \in DOMAIN receipts, NEW m \in Nodes,
               m # n, Link(n, m) # NoDelay, receipts[n].hop < MaxHops
        PROVE  \/ m \in DOMAIN receipts /\ receipts[m].at <= receipts[n].at + Link(n, m)
               \/ \E p \in offers \ {o} : p.node = m /\ p.at = receipts[n].at + Link(n, m)
    BY <1>6, <2>4 DEF SpreadInv
  <2> QED BY <1>4, <2>1, <2>2, <2>3, <2>4 DEF SpreadInv
<1>7. CASE o.node \notin DOMAIN receipts
  <2> DEFINE to == IF HopsLeft(o) THEN Forwards(o.node) ELSE <<>>
             made(i) == [at |-> o.at + Link(o.node, to[i]), hop |-> o.hop + 1,
                         seq |-> pushed + i, node |-> to[i], sender |-> o.node]
             open == {m \in Nodes \ DOMAIN receipts : m # o.node /\ Link(o.node, m) # NoDelay}
  <2>1. /\ receipts' = [n \in DOMAIN receipts \cup {o.node} |-> IF n = o.node THEN o ELSE receipts[n]]
        /\ pushed' = pushed + Len(to) /\ network' = network
        /\ offers' = (offers \ {o}) \cup {made(i) : i \in DOMAIN to}
    BY <1>1, <1>7 DEF Link
  <2>2. /\ open \subseteq Nodes /\ to \in Seq(open) /\ Len(to) \in Nat /\ DOMAIN to = 1..Len(to)
        /\ o.hop < MaxHops => \A m \in open : \E i \in DOMAIN to : to[i] = m
    <3>1. open \in SUBSET Nodes
      OBVIOUS
    <3>2. Forwards(o.node) = InOrder(open)
      BY DEF Forwards, Link
    <3> HIDE DEF open
    <3>3. CASE HopsLeft(o)
      BY <3>2, <3>3, <3>1, InOrderFacts
    <3>4. CASE ~HopsLeft(o)
      BY <3>4, <3>1 DEF HopsLeft
    <3> QED BY <3>3, <3>4
  <2>3. \A i \in DOMAIN to : o.hop < MaxHops
    BY DEF HopsLeft
  <2>4. \A i \in DOMAIN to : /\ to[i] \in Nodes /\ to[i] \notin DOMAIN receipts /\ to[i] # o.node
                             /\ Link(o.node, to[i]) \in Nat /\ i \in Nat
    <3>1. \A i \in DOMAIN to : to[i] \in open /\ i \in Nat
      <4> HIDE DEF to, open
      <4> QED BY <2>2
    <3>2. \A m \in open : Link(o.node, m) \in Nat
      BY <1>2, LinkTypes DEF SpreadInv
    <3> HIDE DEF to
    <3> QED BY <3>1, <3>2
  <2> HIDE DEF to
  <2>5. \A i \in DOMAIN to :
          /\ made(i) \in Offer /\ made(i).at = o.at + Link(o.node, to[i]) /\ made(i).node = to[i]
          /\ made(i).sender = o.node /\ made(i).hop = o.hop + 1 /\ made(i).at \in Nat
          /\ made(i).at >= o.at
    <3> TAKE i \in DOMAIN to
    <3>1. pushed \in Nat
      BY DEF SpreadInv, PropagationTypeOK
    <3>2. o.hop + 1 \in 0..MaxHops /\ pushed + i \in Nat /\ o.at + Link(o.node, to[i]) \in Nat
      BY <1>0, <1>2, <2>3, <2>4, <3>1
    <3>3. to[i] \in Nodes /\ o.node \in Nodes
      BY <1>2, <2>4
    <3>4. o.at + Link(o.node, to[i]) >= o.at
      BY <1>2, <2>4
    <3> QED BY <3>2, <3>3, <3>4 DEF Offer
  <2> HIDE DEF made, open
  <2>6. /\ DOMAIN receipts' = DOMAIN receipts \cup {o.node} /\ receipts'[o.node] = o
        /\ \A n \in DOMAIN receipts : receipts'[n] = receipts[n] /\ n # o.node
    BY <1>7, <2>1
  <2>7. \A p \in offers' : p \in offers \ {o} \/ \E i \in DOMAIN to : p = made(i)
    BY <2>1
  <2>8. PropagationTypeOK'
    BY <2>1, <2>2, <1>2, <2>5, <2>7, <1>5, <2>6 DEF SpreadInv, PropagationTypeOK
  <2>9. NoFutureLeak'
    BY <2>6, <1>2, <2>1 DEF SpreadInv, NoFutureLeak, Link
  <2>10. ASSUME NEW p \in offers'
         PROVE  /\ p.at >= KnownAt /\ o.at <= p.at
                /\ p.sender # NoOne => /\ p.sender \in DOMAIN receipts'
                                       /\ receipts'[p.sender].at + Link(p.sender, p.node) = p.at
                                       /\ receipts'[p.sender].hop + 1 = p.hop
    BY <1>2, <1>3, <2>6, <2>5, <1>0, <2>7 DEF SpreadInv
  <2>11. ASSUME NEW n \in DOMAIN receipts', NEW p \in offers'
         PROVE  receipts'[n].at <= p.at
    BY <1>2, <1>5, <2>6, <2>5, <2>7, <2>10 DEF SpreadInv
  <2>12. ASSUME NEW n \in DOMAIN receipts', NEW m \in Nodes,
                m # n, Link(n, m) # NoDelay, receipts'[n].hop < MaxHops
         PROVE  \/ m \in DOMAIN receipts' /\ receipts'[m].at <= receipts'[n].at + Link(n, m)
                \/ \E p \in offers' : p.node = m /\ p.at = receipts'[n].at + Link(n, m)
    <3>1. CASE n = o.node
      <4>1. receipts'[n] = o /\ Link(n, m) \in Nat
        BY <1>2, <2>6, <2>12, <3>1, LinkTypes DEF SpreadInv
      <4>2. CASE m \in DOMAIN receipts
        BY <1>5, <2>6, <4>2, <1>2, <4>1 DEF SpreadInv
      <4>3. CASE m \notin DOMAIN receipts
        BY <2>12, <3>1, <4>3, <2>2, <4>1, <2>1, <2>5 DEF open
      <4> QED BY <4>2, <4>3
    <3>2. CASE n \in DOMAIN receipts
      BY <1>5, <2>6, <3>2, <2>12, <1>2, <2>1 DEF SpreadInv
    <3> QED BY <2>6, <3>1, <3>2
  <2>13. SentBefore'
    <3>1. ASSUME NEW n \in DOMAIN receipts', receipts'[n].sender # NoOne
          PROVE  receipts'[receipts'[n].sender].at <= receipts'[n].at
      <4>1. CASE n = o.node
        BY <2>6, <4>1, <3>1 DEF SpreadInv
      <4>2. CASE n \in DOMAIN receipts
        <5>1. receipts'[n] = receipts[n]
          BY <2>6, <4>2
        <5>2. /\ receipts[n].sender \in DOMAIN receipts
              /\ receipts[receipts[n].sender].at <= receipts[n].at
          BY <3>1, <4>2, <5>1 DEF SpreadInv, NoFutureLeak, SentBefore
        <5> QED BY <2>6, <5>1, <5>2
      <4> QED BY <2>6, <4>1, <4>2
    <3> QED BY <3>1 DEF SentBefore
  <2> QED BY <1>4, <2>8, <2>9, <2>10, <2>11, <2>12, <2>13 DEF SpreadInv
<1> QED BY <1>6, <1>7

LEMMA SpreadIsCausal == SpreadInv => NoFutureLeak /\ NoOfferMissed
BY DEF SpreadInv, NoOfferMissed, Spreading, Link
-----------------------------------------------------------------------------
(* The event loop.  Of the events that were laid out before the loop, those *)
(* are pending that come after the last one taken; all the others are       *)
(* arrivals of orders, one for each that was made and has not arrived.      *)

StepRange == 0..(Steps - 1)
RowKinds == {"market", "fact", "clarification", "agents", "flow", "metrics"}

LEMMA KindFacts ==
    /\ Kinds = RowKinds \cup {"delivery", "order"} /\ DOMAIN RowOf = RowKinds
    /\ Priority["market"] = 10 /\ Priority["fact"] = 20 /\ Priority["clarification"] = 20
    /\ Priority["delivery"] = 30 /\ Priority["agents"] = 40 /\ Priority["order"] = 50
    /\ Priority["flow"] = 50 /\ Priority["metrics"] = 80
    /\ \A k \in RowKinds : RowOf[k] \in 1..6
  BY DEF Kinds, Priority, RowKinds, RowOf

\* A step begins where the one before it ends, and what is in it is told from its time.
LEMMA StepTimes ==
    ASSUME NEW s \in StepRange
    PROVE  /\ s \in Nat /\ s < Steps /\ Steps - 1 \in StepRange /\ Steps \in Nat
           /\ StepLength \in Nat /\ StepLength > 0
           /\ Start(s) \in Nat /\ Start(s + 1) = Start(s) + StepLength
           /\ \A t \in Nat : s < t => Start(s) + StepLength <= Start(t)
           /\ Start(s) + StepLength <= EndOfRun /\ EndOfRun \in Nat
           /\ CaptureTime(s) = Start(s) + StepLength - 1 /\ CaptureTime(s) \in Nat
           /\ StepOf(Start(s)) = s
BY EngineAssumption DEF StepRange, StepOf, Lesser, Start, EndOfRun, CaptureTime

\* The order of the queue is strict.
Timed(x) == x.time \in Nat /\ x.priority \in Nat /\ x.seq \in Nat

LEMMA EarlierIsOrder ==
    ASSUME NEW a, NEW b, NEW c, Timed(a), Timed(b), Timed(c)
    PROVE  /\ ~Queue!Earlier(a, a)
           /\ Queue!Earlier(a, b) /\ Queue!Earlier(b, c) => Queue!Earlier(a, c)
           /\ Queue!Earlier(a, b) => ~Queue!Earlier(b, a) /\ a.time <= b.time
BY DEF Timed, Queue!Earlier

\* The events of the steps.
StepEvent(s, k) == Event(TimeOf(s, k), k, NoOne, NumberOf(<<s, k>>))
MarketOf(s) == StepEvent(s, "market")
AgentsOf(s) == StepEvent(s, "agents")
MetricsOf(s) == StepEvent(s, "metrics")
FactEvent == StepEvent(FactStep, "fact")

LEMMA EventFields ==
    \A t, k, n, i : /\ Event(t, k, n, i).time = t /\ Event(t, k, n, i).priority = Priority[k]
                    /\ Event(t, k, n, i).seq = i /\ Event(t, k, n, i).job.kind = k
                    /\ Event(t, k, n, i).job.of = n /\ Event(t, k, n, i).job.order = 0
  BY DEF Event

LEMMA EntriesFacts ==
    /\ IsFiniteSet(Entries) /\ Cardinality(Entries) \in Nat
    /\ \A e \in Entries : /\ e[1] \in StepRange /\ e[2] \in RowKinds /\ e = <<e[1], e[2]>>
                          /\ e[2] = "fact" => e[1] = FactStep
                          /\ e[2] = "flow" => Arrives(Start(e[1]))
                          /\ NumberOf(e) \in Nat \ {0} /\ NumberOf(e) <= Cardinality(Entries)
    /\ \A s \in StepRange : \A k \in {"market", "agents", "metrics"} : <<s, k>> \in Entries
    /\ FactStep < Steps => FactStep \in StepRange /\ <<FactStep, "fact">> \in Entries
<1>1. IsFiniteSet(StepRange \X RowKinds)
  <2>1. IsFiniteSet(StepRange)
    BY FS_Interval, EngineAssumption DEF StepRange
  <2>2. IsFiniteSet(RowKinds)
    <3>1. /\ IsFiniteSet({}) /\ IsFiniteSet({} \cup {"market"})
      BY FS_EmptySet, FS_AddElement
    <3>2. IsFiniteSet({"market"} \cup {"fact"})
      BY <3>1, FS_AddElement
    <3>3. IsFiniteSet(({"market"} \cup {"fact"}) \cup {"clarification"})
      BY <3>2, FS_AddElement
    <3>4. IsFiniteSet((({"market"} \cup {"fact"}) \cup {"clarification"}) \cup {"agents"})
      BY <3>3, FS_AddElement
    <3>5. IsFiniteSet(((({"market"} \cup {"fact"}) \cup {"clarification"}) \cup {"agents"})
                          \cup {"flow"})
      BY <3>4, FS_AddElement
    <3>6. IsFiniteSet((((({"market"} \cup {"fact"}) \cup {"clarification"}) \cup {"agents"})
                          \cup {"flow"}) \cup {"metrics"})
      BY <3>5, FS_AddElement
    <3>7. (((({"market"} \cup {"fact"}) \cup {"clarification"}) \cup {"agents"}) \cup {"flow"})
              \cup {"metrics"} = RowKinds
      BY DEF RowKinds
    <3> QED BY <3>6, <3>7
  <2> QED BY <2>1, <2>2, FS_Product
<1>2. Entries \subseteq StepRange \X RowKinds
  BY KindFacts DEF Entries, StepRange
<1>3. IsFiniteSet(Entries) /\ Cardinality(Entries) \in Nat
  BY <1>1, <1>2, FS_Subset, FS_CardinalityType
<1>4. ASSUME NEW e \in Entries
      PROVE  NumberOf(e) \in Nat \ {0} /\ NumberOf(e) <= Cardinality(Entries)
  <2> DEFINE before == {f \in Entries : f[1] < e[1] \/ (f[1] = e[1] /\ RowOf[f[2]] <= RowOf[e[2]])}
  <2>1. e[1] \in Nat /\ RowOf[e[2]] \in Nat
    BY <1>2, KindFacts DEF StepRange
  <2>2. e \in before /\ before \subseteq Entries
    BY <2>1
  <2>3. NumberOf(e) = Cardinality(before)
    BY DEF NumberOf
  <2> HIDE DEF before
  <2>4. IsFiniteSet(before) /\ Cardinality(before) \in Nat /\ Cardinality(before) <= Cardinality(Entries)
    BY <1>3, <2>2, FS_Subset, FS_CardinalityType
  <2>5. Cardinality(before) # 0
    BY <2>2, <2>4, FS_EmptySet
  <2> QED BY <2>3, <2>4, <2>5
<1>5. \A e \in Entries : /\ e[1] \in StepRange /\ e[2] \in RowKinds /\ e = <<e[1], e[2]>>
                         /\ e[2] = "fact" => e[1] = FactStep
                         /\ e[2] = "flow" => Arrives(Start(e[1]))
  BY <1>2 DEF Entries
<1>6. \A s \in StepRange : \A k \in {"market", "agents", "metrics"} : <<s, k>> \in Entries
  <2> TAKE s \in StepRange
  <2> TAKE k \in {"market", "agents", "metrics"}
  <2>1. k \in DOMAIN RowOf
    BY KindFacts DEF RowKinds
  <2> QED BY <2>1 DEF Entries, StepRange
<1>7. FactStep < Steps => FactStep \in StepRange /\ <<FactStep, "fact">> \in Entries
  BY EngineAssumption, KindFacts DEF StepRange, RowKinds, Entries
<1> QED BY <1>3, <1>4, <1>5, <1>6, <1>7

LEMMA RankType == \A n \in Nodes : Rank(n) \in Nat
BY PropagationAssumption, FS_CardinalityType DEF Rank

LEMMA ReceiptTypes ==
    ASSUME PropagationTypeOK, NEW n \in DOMAIN receipts
    PROVE  n \in Nodes /\ receipts[n].at \in Nat /\ receipts[n].hop \in Nat
BY PropagationAssumption DEF PropagationTypeOK, Offer

LEMMA ReachedFacts ==
    ASSUME PropagationTypeOK
    PROVE  /\ IsFiniteSet(Reached) /\ Cardinality(Reached) \in Nat /\ Reached \subseteq DOMAIN receipts
           /\ \A n \in Reached : /\ PlaceOf(n) \in Nat \ {0} /\ PlaceOf(n) <= Cardinality(Reached)
                                 /\ n \in Nodes /\ FactStep < Steps
           /\ \A m, n \in Reached : ReceiptOrder(m, n) => PlaceOf(m) < PlaceOf(n)
<1>1. Reached \subseteq DOMAIN receipts /\ Reached \subseteq Nodes
  BY DEF Reached, PropagationTypeOK
<1>2. IsFiniteSet(Reached) /\ Cardinality(Reached) \in Nat
  BY <1>1, FS_Subset, FS_CardinalityType, PropagationAssumption
<1> DEFINE before(n) == {m \in Reached : m = n \/ ReceiptOrder(m, n)}
<1>3. \A n \in Reached : n \in before(n) /\ before(n) \subseteq Reached /\ PlaceOf(n) = Cardinality(before(n))
  BY DEF PlaceOf
<1>4. \A n : IsFiniteSet(before(n)) /\ Cardinality(before(n)) \in Nat
             /\ Cardinality(before(n)) <= Cardinality(Reached)
  <2> TAKE n
  <2>1. before(n) \subseteq Reached
    OBVIOUS
  <2> HIDE DEF before
  <2> QED BY <1>2, <2>1, FS_Subset, FS_CardinalityType
<1>5. \A m \in Reached : /\ m \in Nodes /\ receipts[m].at \in Nat /\ receipts[m].hop \in Nat
                         /\ Rank(m) \in Nat
  BY <1>1, ReceiptTypes, RankType
<1>6. ASSUME NEW m \in Reached, NEW n \in Reached, ReceiptOrder(m, n)
      PROVE  before(m) \subseteq before(n) /\ n \notin before(m)
  BY <1>5, <1>6 DEF ReceiptOrder
<1>7. ASSUME NEW n \in Reached PROVE PlaceOf(n) \in Nat \ {0} /\ PlaceOf(n) <= Cardinality(Reached)
  BY <1>3, <1>4, FS_EmptySet
<1>8. ASSUME NEW m \in Reached, NEW n \in Reached, ReceiptOrder(m, n)
      PROVE  PlaceOf(m) < PlaceOf(n)
  <2>1. before(m) \subseteq before(n) /\ n \notin before(m) /\ n \in before(n)
        /\ PlaceOf(m) = Cardinality(before(m)) /\ PlaceOf(n) = Cardinality(before(n))
    BY <1>3, <1>6, <1>8
  <2> DEFINE b == before(n)
             a == before(m)
  <2>2. IsFiniteSet(b) /\ a \subseteq b /\ a # b /\ IsFiniteSet(a)
        /\ Cardinality(a) \in Nat /\ Cardinality(b) \in Nat
    BY <1>4, <2>1
  <2> HIDE DEF a, b
  <2>3. Cardinality(a) < Cardinality(b)
    BY <2>2, FS_Subset
  <2> QED BY <2>1, <2>3 DEF a, b
<1>9. \A n \in Reached : n \in Nodes /\ FactStep < Steps
  BY <1>1 DEF Reached
<1> QED BY <1>1, <1>2, <1>7, <1>8, <1>9

\* The step of a delivery is one of the run, not before the fact, and later for later receipts.
LEMMA DeliverySteps ==
    ASSUME PropagationTypeOK, FactStep < Steps, NEW m \in DOMAIN receipts, NEW n \in DOMAIN receipts,
           receipts[m].at >= KnownAt, receipts[n].at >= KnownAt
    PROVE  /\ DeliveryStep(n) \in StepRange /\ FactStep <= DeliveryStep(n)
           /\ receipts[m].at <= receipts[n].at => DeliveryStep(m) <= DeliveryStep(n)
<1> DEFINE l == StepLength
           a == receipts[m].at - KnownAt
           b == receipts[n].at - KnownAt
           ac == (a + l - 1) \div l
           bc == (b + l - 1) \div l
<1>1. receipts[m].at \in Nat /\ receipts[n].at \in Nat /\ KnownAt \in Nat
  BY ReceiptTypes, PropagationAssumption
<1>2. a \in Nat /\ b \in Nat /\ (receipts[m].at <= receipts[n].at => a <= b)
  BY <1>1
<1>3. l \in Nat /\ l > 0 /\ Steps \in Nat /\ FactStep \in Nat
  BY EngineAssumption
<1>4. DeliveryStep(m) = Lesser(Steps - 1, FactStep + ac) /\ DeliveryStep(n) = Lesser(Steps - 1, FactStep + bc)
  BY DEF DeliveryStep
<1>5. ac \in Nat /\ bc \in Nat /\ (a <= b => ac <= bc)
  <2> HIDE DEF a, b, l
  <2> QED BY <1>2, <1>3
<1> HIDE DEF a, b, l, ac, bc
<1> QED BY <1>2, <1>3, <1>4, <1>5 DEF Lesser, StepRange

LEMMA LaidOutFacts ==
    ASSUME PropagationTypeOK, NoFutureLeak, latency \in Latencies
    PROVE  /\ \A x \in LaidOut :
                 /\ Timed(x) /\ x \in Queue!Event /\ x.job.kind # "order"
                 /\ x.priority = Priority[x.job.kind] /\ x.priority > 0
                 /\ x.job.kind = "delivery" =>
                       x.job.of \in Reached /\ x = Delivery(x.job.of)
                 /\ x.job.kind # "delivery" =>
                       /\ x.job.kind \in RowKinds
                       /\ \E s \in StepRange : <<s, x.job.kind>> \in Entries /\ x = StepEvent(s, x.job.kind)
           /\ \A s \in StepRange : {MarketOf(s), AgentsOf(s), MetricsOf(s)} \subseteq LaidOut
           /\ \A n \in Reached : Delivery(n) \in LaidOut
           /\ FactStep < Steps => FactEvent \in LaidOut
<1>1. ASSUME NEW e \in Entries
      PROVE  /\ TimeOf(e[1], e[2]) \in Times
             /\ e[2] \in RowKinds /\ e[1] \in StepRange /\ e = <<e[1], e[2]>>
             /\ NumberOf(e) \in Nat \ {0}
  BY EntriesFacts, StepTimes, EngineAssumption DEF EndOfRun, Times, TimeOf, Arrives
<1>2. \A k \in RowKinds \cup {"delivery"} :
        /\ k \in Kinds /\ Priority[k] \in {Priority[j] : j \in Kinds} /\ Priority[k] \in Nat
        /\ Priority[k] > 0 /\ k # "order"
  BY KindFacts DEF RowKinds
<1>3. Times \subseteq Nat
  BY DEF Times
<1>4. ASSUME NEW t \in Times, NEW k \in RowKinds \cup {"delivery"}, NEW n \in Nodes \cup {NoOne},
             NEW i \in Nat \ {0}, NEW x, x = Event(t, k, n, i)
      PROVE  /\ Timed(x) /\ x \in Queue!Event /\ x.job.kind = k /\ x.job.of = n
             /\ x.priority = Priority[k]
  BY <1>4, EventFields, <1>2, <1>3 DEF Timed, Jobs, Queue!Event, Event
<1>5. ASSUME NEW n \in Reached
      PROVE  /\ Start(DeliveryStep(n)) \in Times /\ n \in Nodes
             /\ Cardinality(Entries) + PlaceOf(n) \in Nat \ {0}
  <2>1. n \in DOMAIN receipts /\ n \in Nodes /\ FactStep < Steps /\ PlaceOf(n) \in Nat \ {0}
    BY ReachedFacts
  <2>2. receipts[n].at >= KnownAt
    BY <2>1 DEF NoFutureLeak
  <2>3. DeliveryStep(n) \in StepRange
    BY <2>1, <2>2, DeliverySteps
  <2> DEFINE st == Start(DeliveryStep(n))
             end == EndOfRun
  <2>4. /\ st \in Nat /\ StepLength \in Nat /\ StepLength > 0 /\ st + StepLength <= end
        /\ end \in Nat /\ end = Steps * StepLength
    BY <2>3, StepTimes DEF EndOfRun
  <2>5. Times = 0..(end - 1)
    BY <2>4 DEF Times
  <2> HIDE DEF st, end
  <2>6. st \in Times
    BY <2>4, <2>5
  <2>7. Cardinality(Entries) + PlaceOf(n) \in Nat \ {0}
    BY <2>1, EntriesFacts
  <2> QED BY <2>1, <2>6, <2>7 DEF st
<1>6. ASSUME NEW x \in LaidOut
      PROVE  \/ \E e \in Entries : x = StepEvent(e[1], e[2])
             \/ \E n \in Reached : x = Delivery(n)
  BY <1>1 DEF LaidOut, StepEvent
<1>7. ASSUME NEW x \in LaidOut
      PROVE  /\ Timed(x) /\ x \in Queue!Event /\ x.job.kind # "order"
             /\ x.priority = Priority[x.job.kind] /\ x.priority > 0
             /\ x.job.kind = "delivery" =>
                   x.job.of \in Reached /\ x = Delivery(x.job.of)
             /\ x.job.kind # "delivery" =>
                   /\ x.job.kind \in RowKinds
                   /\ \E s \in StepRange : <<s, x.job.kind>> \in Entries /\ x = StepEvent(s, x.job.kind)
  <2>1. CASE \E e \in Entries : x = StepEvent(e[1], e[2])
    <3>1. PICK e \in Entries : x = StepEvent(e[1], e[2])
      BY <2>1
    <3>2. /\ e[2] \in RowKinds /\ e[1] \in StepRange /\ e = <<e[1], e[2]>>
          /\ TimeOf(e[1], e[2]) \in Times /\ NumberOf(e) \in Nat \ {0}
      BY <1>1
    <3>3. x = Event(TimeOf(e[1], e[2]), e[2], NoOne, NumberOf(e))
      BY <3>1, <3>2 DEF StepEvent
    <3>4. /\ Timed(x) /\ x \in Queue!Event /\ x.job.kind = e[2] /\ x.priority = Priority[e[2]]
      BY <1>4, <3>2, <3>3
    <3>5. e[2] # "delivery" /\ Priority[e[2]] > 0 /\ e[2] # "order"
      BY <1>2, <3>2 DEF RowKinds
    <3>6. <<e[1], e[2]>> \in Entries
      BY <3>2
    <3> QED BY <3>1, <3>2, <3>4, <3>5, <3>6
  <2>2. CASE \E n \in Reached : x = Delivery(n)
    BY <2>2, <1>4, <1>5, <1>2 DEF Delivery
  <2> QED BY <1>6, <2>1, <2>2
<1>8. ASSUME NEW s \in StepRange, NEW k \in RowKinds, <<s, k>> \in Entries
      PROVE  StepEvent(s, k) \in LaidOut
  BY <1>8 DEF LaidOut, StepEvent
<1>9. \A s \in StepRange : {MarketOf(s), AgentsOf(s), MetricsOf(s)} \subseteq LaidOut
  <2> TAKE s \in StepRange
  <2>1. \A k \in {"market", "agents", "metrics"} : k \in RowKinds /\ <<s, k>> \in Entries
    BY EntriesFacts DEF RowKinds
  <2> QED BY <1>8, <2>1 DEF MarketOf, AgentsOf, MetricsOf
<1>10. \A n \in Reached : Delivery(n) \in LaidOut
  BY DEF LaidOut
<1>11. FactStep < Steps => FactEvent \in LaidOut
  BY EntriesFacts, <1>8 DEF RowKinds, FactEvent
<1> QED BY <1>7, <1>9, <1>10, <1>11

\* The events of one step and kind, by their time and priority.
LEMMA StepEventFields ==
    ASSUME NEW s \in StepRange
    PROVE  /\ MarketOf(s).time = Start(s) /\ MarketOf(s).priority = 10
           /\ MarketOf(s).job.kind = "market"
           /\ AgentsOf(s).time = Start(s) /\ AgentsOf(s).priority = 40
           /\ AgentsOf(s).job.kind = "agents"
           /\ MetricsOf(s).time = Start(s) + StepLength - 1 /\ MetricsOf(s).priority = 80
           /\ MetricsOf(s).job.kind = "metrics"
           /\ Start(s) \in Nat /\ s \in Nat /\ StepLength \in Nat /\ StepLength > 0
           /\ \A t \in StepRange : s < t => Start(s) + StepLength <= Start(t)
BY StepTimes, EngineAssumption, KindFacts, EventFields DEF TimeOf, StepRange, StepEvent, MarketOf,
   AgentsOf, MetricsOf

LEMMA FactAndDeliveries ==
    ASSUME SpreadInv, latency \in Latencies, NEW n \in Reached
    PROVE  /\ FactStep < Steps /\ Queue!Earlier(FactEvent, Delivery(n))
           /\ receipts[n].sender # NoOne => /\ receipts[n].sender \in Reached
                                            /\ Queue!Earlier(Delivery(receipts[n].sender), Delivery(n))
<1>0. PropagationTypeOK /\ NoFutureLeak /\ SentBefore
  BY DEF SpreadInv
<1>1. n \in DOMAIN receipts /\ n \in Nodes /\ FactStep < Steps /\ Reached = DOMAIN receipts
  BY <1>0, ReachedFacts DEF Reached
<1>2. \A m \in Reached : receipts[m].at >= KnownAt
  BY <1>0, <1>1 DEF NoFutureLeak
<1>3. /\ FactStep \in StepRange /\ DeliveryStep(n) \in StepRange /\ FactStep <= DeliveryStep(n)
  BY <1>0, <1>1, <1>2, DeliverySteps, EntriesFacts
<1>4. \A s, t \in StepRange : s <= t => Start(s) \in Nat /\ Start(t) \in Nat /\ Start(s) <= Start(t)
  <2> TAKE s, t \in StepRange
  <2>1. /\ s \in Nat /\ t \in Nat /\ Start(s) \in Nat /\ Start(t) \in Nat /\ StepLength \in Nat
        /\ s < t => Start(s) + StepLength <= Start(t)
    BY StepEventFields
  <2> QED BY <2>1
<1>5. /\ FactEvent.time = Start(FactStep) /\ FactEvent.priority = 20
      /\ \A m : /\ Delivery(m).time = Start(DeliveryStep(m)) /\ Delivery(m).priority = 30
                /\ Delivery(m).seq = Cardinality(Entries) + PlaceOf(m)
  BY KindFacts, EventFields DEF TimeOf, FactEvent, StepEvent, Delivery
<1>6. Queue!Earlier(FactEvent, Delivery(n))
  BY <1>3, <1>4, <1>5 DEF Queue!Earlier
<1>7. ASSUME receipts[n].sender # NoOne
      PROVE  /\ receipts[n].sender \in Reached
             /\ Queue!Earlier(Delivery(receipts[n].sender), Delivery(n))
  <2> DEFINE m == receipts[n].sender
  <2>1. /\ m \in DOMAIN receipts /\ receipts[m].at + Link(m, n) = receipts[n].at
        /\ receipts[m].hop + 1 = receipts[n].hop
    BY <1>0, <1>1, <1>7 DEF NoFutureLeak, Link
  <2>2. /\ m \in Nodes /\ m \in Reached /\ receipts[m].at \in Nat /\ receipts[n].at \in Nat
        /\ receipts[m].hop \in Nat /\ receipts[n].hop \in Nat
    BY <1>0, <1>1, <2>1, ReceiptTypes
  <2>3. receipts[m].at <= receipts[n].at
    BY <1>0, <1>1, <1>7 DEF SentBefore
  <2> HIDE DEF m
  <2>5. ReceiptOrder(m, n)
    BY <2>1, <2>2, <2>3 DEF ReceiptOrder
  <2>6. PlaceOf(m) < PlaceOf(n) /\ PlaceOf(m) \in Nat /\ PlaceOf(n) \in Nat
        /\ Cardinality(Entries) \in Nat
    BY <1>0, <1>1, <2>2, <2>5, ReachedFacts, EntriesFacts
  <2>7. DeliveryStep(m) \in StepRange /\ DeliveryStep(m) <= DeliveryStep(n)
    BY <1>0, <1>1, <1>2, <2>1, <2>2, <2>3, DeliverySteps
  <2>8. Start(DeliveryStep(m)) <= Start(DeliveryStep(n)) /\ Start(DeliveryStep(m)) \in Nat
        /\ Start(DeliveryStep(n)) \in Nat
    BY <1>3, <1>4, <2>7
  <2>9. Queue!Earlier(Delivery(m), Delivery(n))
    BY <1>5, <2>6, <2>8 DEF Queue!Earlier
  <2> QED BY <2>2, <2>9 DEF m
<1> QED BY <1>1, <1>6, <1>7

-----------------------------------------------------------------------------
(* The invariant of the loop.                                               *)

NothingYet ==
    /\ pending = {} /\ captured = 0 /\ haltedSteps = 0 /\ haltedCaptures = 0
    /\ intents = <<>> /\ traced = {} /\ fact = FALSE /\ market = "CONTINUOUS"
    /\ last = [time |-> 0, priority |-> 0, seq |-> 0]

AgendaStands ==
    /\ \A x \in LaidOut : x \in pending <=> Queue!Earlier(last, x)
    /\ \A x \in pending : x \in LaidOut \/ x.job.kind = "order"
    /\ \A x \in pending : Queue!Earlier(last, x)

OrdersStand ==
    /\ \A x \in pending : x.job.kind = "order" =>
          /\ x.priority = 50 /\ x.job.order \in 1..Len(intents)
          /\ intents[x.job.order].state = "SCHEDULED"
    /\ \A i \in 1..Len(intents) : intents[i].state = "SCHEDULED" =>
          \E x \in pending : x.job.kind = "order" /\ x.job.order = i
    /\ \A x, y \in pending :
          x.job.kind = "order" /\ y.job.kind = "order" /\ x.job.order = y.job.order => x = y

CountsStand ==
    /\ \A s \in StepRange : MetricsOf(s) \in pending <=> captured <= s
    /\ \A s \in StepRange : MarketOf(s) \in pending => haltedSteps <= s
    /\ haltedCaptures <= captured

TracesStand ==
    /\ traced \subseteq Reached
    /\ \A n \in Reached : n \in traced <=> Delivery(n) \notin pending
    /\ FactStep < Steps => (fact <=> FactEvent \notin pending)

HaltStands ==
    phase = "running" /\ market = "HALTED" =>
    \A s \in StepRange : AgentsOf(s) \in pending /\ MarketOf(s) \notin pending =>
        s < haltUntil \/ s = Steps - 1

RunStands == AgendaStands /\ OrdersStand /\ CountsStand /\ TracesStand /\ HaltStands

\* The inductive invariant of the loop.
LoopInv ==
    /\ EngineTypeOK /\ SpreadInv
    /\ intents \in Seq(Order) /\ last.time = now
    /\ phase \in {"idle", "network"} => NothingYet
    /\ phase \notin {"idle", "network"} => RunStands
    /\ phase = "done" => pending = {}

LEMMA LoopInitially == EngineInit => LoopInv
<1> SUFFICES ASSUME EngineInit PROVE LoopInv
  OBVIOUS
<1>1. SpreadInv
  BY SpreadInitially DEF EngineInit
<1>2. NothingYet /\ phase = "idle" /\ now = 0 /\ sequence = 0 /\ haltUntil = 0 /\ haltCount = 0
      /\ informed = {} /\ signalsUsed = {} /\ latency \in Latencies
  BY DEF EngineInit, NothingYet
<1>3. 0 \in Times /\ 0 \in 0..Steps /\ 0 \in 0..MaxHalts
  BY EngineAssumption, StepTimes DEF StepRange, Times, EndOfRun
<1>4. EngineTypeOK
  <2>1. last \in [time : Nat, priority : Nat, seq : Nat] /\ DOMAIN intents = {}
    BY <1>2 DEF NothingYet
  <2> QED BY <1>1, <1>2, <1>3, <2>1 DEF EngineTypeOK, NothingYet, SpreadInv
<1>5. intents \in Seq(Order) /\ last.time = now
  BY <1>2 DEF NothingYet
<1> QED BY <1>1, <1>2, <1>4, <1>5 DEF LoopInv

\* While nothing else moves, the events laid out stay what they are.
LEMMA LaidOutStays ==
    ASSUME UNCHANGED <<latency, networkVars>>
    PROVE  /\ LaidOut' = LaidOut /\ Reached' = Reached /\ FactEvent' = FactEvent
           /\ \A s : MarketOf(s)' = MarketOf(s) /\ AgentsOf(s)' = AgentsOf(s)
                     /\ MetricsOf(s)' = MetricsOf(s)
           /\ \A n : Delivery(n)' = Delivery(n)
<1>1. latency' = latency /\ receipts' = receipts
  BY DEF networkVars
<1>2. Entries' = Entries /\ Reached' = Reached
  BY <1>1 DEF Entries, Arrives, Reached, Start
<1>3. \A s, k : TimeOf(s, k)' = TimeOf(s, k)
  BY <1>1 DEF TimeOf
<1>4. \A e : NumberOf(e)' = NumberOf(e)
  BY <1>2 DEF NumberOf
<1>5. \A n : PlaceOf(n)' = PlaceOf(n) /\ DeliveryStep(n)' = DeliveryStep(n)
  BY <1>1, <1>2 DEF PlaceOf, DeliveryStep, ReceiptOrder
<1>6. \A n : Delivery(n)' = Delivery(n)
  BY <1>2, <1>5 DEF Delivery, Event, Start
<1>7. LaidOut' = LaidOut
  BY <1>2, <1>3, <1>4, <1>6 DEF LaidOut, Event
<1>8. \A s, k : StepEvent(s, k)' = StepEvent(s, k)
  BY <1>3, <1>4 DEF StepEvent, Event
<1> QED BY <1>2, <1>6, <1>7, <1>8 DEF MarketOf, AgentsOf, MetricsOf, FactEvent

LEMMA SpreadStays == ASSUME SpreadInv, UNCHANGED networkVars PROVE SpreadInv'
BY DEF networkVars, SpreadInv, PropagationTypeOK, NoFutureLeak, SentBefore, Link

LEMMA RunScenarioKeeps == LoopInv /\ RunScenario => LoopInv'
BY SpreadStays DEF RunScenario, LoopInv, EngineTypeOK, SpreadInv, NothingYet

LEMMA SpreadingKeeps == LoopInv /\ SpreadInformation => LoopInv'
BY SpreadKeeps DEF SpreadInformation, engineVars, LoopInv, EngineTypeOK, SpreadInv, NothingYet

LEMMA LayOutKeeps == LoopInv /\ LayOut => LoopInv'
<1> SUFFICES ASSUME LoopInv, LayOut PROVE LoopInv'
  OBVIOUS
<1>1. /\ phase = "network" /\ phase' = "running" /\ pending' = LaidOut
      /\ sequence' = Cardinality(Entries) + Cardinality(Reached)
      /\ UNCHANGED <<latency, networkVars>>
      /\ UNCHANGED <<now, last, market, haltUntil, haltCount, haltedSteps, intents, informed,
                     traced, fact, signalsUsed, captured, haltedCaptures>>
  BY DEF LayOut
<1>2. NothingYet /\ SpreadInv /\ PropagationTypeOK /\ NoFutureLeak /\ latency \in Latencies
  BY <1>1 DEF LoopInv, SpreadInv, EngineTypeOK
<1>3. SpreadInv'
  BY <1>1, <1>2, SpreadStays
<1>4. \A x \in LaidOut : Timed(x) /\ x \in Queue!Event /\ x.job.kind # "order" /\ x.priority > 0
  BY <1>2, LaidOutFacts
<1>5. last = [time |-> 0, priority |-> 0, seq |-> 0] /\ last' = last
  BY <1>1, <1>2 DEF NothingYet
<1>6. \A x \in LaidOut : Queue!Earlier(last, x)
  BY <1>4, <1>5 DEF Queue!Earlier, Timed
<1>7. /\ LaidOut' = LaidOut /\ Reached' = Reached /\ FactEvent' = FactEvent
      /\ \A s : MarketOf(s)' = MarketOf(s) /\ AgentsOf(s)' = AgentsOf(s)
                /\ MetricsOf(s)' = MetricsOf(s)
      /\ \A n : Delivery(n)' = Delivery(n)
  BY <1>1, LaidOutStays
<1>8. AgendaStands'
  BY <1>1, <1>5, <1>6, <1>7 DEF AgendaStands, Queue!Earlier
<1>9. OrdersStand'
  BY <1>1, <1>2, <1>4 DEF NothingYet, OrdersStand
<1>10. CountsStand'
  BY <1>2, LaidOutFacts, <1>1, <1>7 DEF NothingYet, StepRange, CountsStand
<1>11. TracesStand'
  BY <1>1, <1>2, LaidOutFacts, <1>7 DEF NothingYet, TracesStand
<1>12. HaltStands'
  BY <1>1, <1>2 DEF HaltStands, NothingYet
<1>13. sequence' \in Nat
  BY <1>1, <1>2, EntriesFacts, ReachedFacts
<1>14. pending' \subseteq Queue!Event
  BY <1>1, <1>4
<1>15. EngineTypeOK'
  BY <1>1, <1>3, <1>13, <1>14 DEF LoopInv, EngineTypeOK, SpreadInv
<1>16. (intents \in Seq(Order) /\ last.time = now)'
  BY <1>1 DEF LoopInv
<1> QED BY <1>1, <1>3, <1>8, <1>9, <1>10, <1>11, <1>12, <1>15, <1>16 DEF LoopInv, RunStands

LEMMA FinishKeeps == LoopInv /\ Finish => LoopInv'
<1> SUFFICES ASSUME LoopInv, Finish PROVE LoopInv'
  OBVIOUS
<1>1. /\ phase = "running" /\ phase' = "done" /\ pending = {} /\ RunStands
      /\ UNCHANGED <<latency, networkVars>>
      /\ UNCHANGED <<now, sequence, pending, last, market, haltUntil, haltCount, haltedSteps,
                     intents, informed, traced, fact, signalsUsed, captured, haltedCaptures>>
  BY DEF Finish, LoopInv
<1>2. SpreadInv'
  BY <1>1, SpreadStays DEF LoopInv
<1>3. /\ LaidOut' = LaidOut /\ Reached' = Reached /\ FactEvent' = FactEvent
      /\ \A s : MarketOf(s)' = MarketOf(s) /\ AgentsOf(s)' = AgentsOf(s)
                /\ MetricsOf(s)' = MetricsOf(s)
      /\ \A n : Delivery(n)' = Delivery(n)
  BY <1>1, LaidOutStays
<1>4. AgendaStands' /\ OrdersStand'
  BY <1>1, <1>3 DEF RunStands, AgendaStands, OrdersStand, Queue!Earlier
<1>5. CountsStand' /\ TracesStand' /\ HaltStands'
  BY <1>1, <1>3 DEF RunStands, CountsStand, TracesStand, HaltStands
<1>6. EngineTypeOK'
  BY <1>1, <1>2 DEF LoopInv, EngineTypeOK, SpreadInv
<1>7. (intents \in Seq(Order) /\ last.time = now)' /\ pending' = {}
  BY <1>1 DEF LoopInv
<1> QED BY <1>1, <1>2, <1>4, <1>5, <1>6, <1>7 DEF LoopInv, RunStands

-----------------------------------------------------------------------------
(* The steps of the loop.                                                   *)

\* An event is taken, and orders are scheduled after it.
Advances(e) ==
    /\ e \in pending /\ Timed(e) /\ Queue!Earlier(last, e) /\ phase = "running"
    /\ UNCHANGED <<latency, networkVars>>
    /\ LaidOut' = LaidOut /\ AgendaStands' /\ SpreadInv'
    /\ pending' \subseteq Queue!Event /\ now' \in Times /\ last'.time = now'
    /\ last' = [time |-> e.time, priority |-> e.priority, seq |-> e.seq]
    /\ \A x \in LaidOut : x \in pending' <=> x \in pending /\ x # e
    /\ \A x \in pending : Timed(x) /\ (x = e \/ Queue!Earlier(e, x))

LEMMA ProcessAdvances ==
    ASSUME LoopInv, NEW kind, NEW e, Process(e, kind), NEW New,
           pending' = (pending \ {e}) \cup New,
           \A x \in New : x.job.kind = "order" /\ x \in Queue!Event /\ Queue!Earlier(e, x)
    PROVE  Advances(e)
<1>1. /\ phase = "running" /\ e \in pending /\ e.job.kind = kind
      /\ \A f \in pending \ {e} : Queue!Earlier(e, f)
      /\ now' = e.time /\ last' = [time |-> e.time, priority |-> e.priority, seq |-> e.seq]
      /\ UNCHANGED <<latency, networkVars>>
  BY DEF Process, Queue!IsNext
<1>2. /\ RunStands /\ SpreadInv /\ PropagationTypeOK /\ NoFutureLeak /\ latency \in Latencies
      /\ pending \subseteq Queue!Event /\ last \in [time : Nat, priority : Nat, seq : Nat]
  BY <1>1 DEF LoopInv, SpreadInv, EngineTypeOK
<1>3. \A x \in Queue!Event : Timed(x) /\ x.time \in Times
  BY KindFacts DEF Times, RowKinds, Queue!Event, Timed
<1>4. Timed(last) /\ Timed(last')
  BY <1>1, <1>2, <1>3 DEF Timed
<1>5. Queue!Earlier(last, e) /\ \A x \in pending : Queue!Earlier(last, x)
  BY <1>1, <1>2 DEF RunStands, AgendaStands
<1>6. \A x : Queue!Earlier(last', x) <=> Queue!Earlier(e, x)
  BY <1>1 DEF Queue!Earlier
<1>7. LaidOut' = LaidOut
  BY <1>1, LaidOutStays
<1>8. \A x \in LaidOut : Timed(x) /\ x.job.kind # "order"
  BY <1>2, LaidOutFacts
<1>9. \A x \in LaidOut : x \in pending' <=> x \in pending /\ x # e
  BY <1>8
<1>10. \A x \in LaidOut : x \in pending' <=> Queue!Earlier(e, x)
  <2> TAKE x \in LaidOut
  <2>1. x \in pending /\ x # e => Queue!Earlier(e, x)
    BY <1>1
  <2>2. Timed(e) /\ Timed(x)
    BY <1>1, <1>2, <1>3, <1>8
  <2>3. Queue!Earlier(e, x) => Queue!Earlier(last, x) /\ x # e
    BY <1>4, <1>5, <2>2, EarlierIsOrder
  <2>4. x \in pending <=> Queue!Earlier(last, x)
    BY <1>2 DEF RunStands, AgendaStands
  <2> QED BY <1>9, <2>1, <2>3, <2>4
<1>11. \A x \in pending' : (x \in LaidOut \/ x.job.kind = "order") /\ Queue!Earlier(e, x)
  <2> TAKE x \in pending'
  <2>1. CASE x \in pending \ {e}
    BY <1>1, <1>2, <2>1 DEF RunStands, AgendaStands
  <2>2. CASE x \in New
    BY <2>2
  <2> QED BY <2>1, <2>2
<1>12. AgendaStands'
  BY <1>6, <1>7, <1>10, <1>11 DEF AgendaStands, Queue!Earlier
<1>13. SpreadInv'
  BY <1>1, <1>2, SpreadStays
<1>14. pending' \subseteq Queue!Event /\ now' \in Times /\ last'.time = now'
  BY <1>1, <1>2, <1>3
<1>15. \A x \in pending : Timed(x) /\ (x = e \/ Queue!Earlier(e, x))
  BY <1>1, <1>2, <1>3
<1>16. Timed(e)
  BY <1>1, <1>15
<1> QED BY <1>1, <1>5, <1>7, <1>9, <1>12, <1>13, <1>14, <1>15, <1>16 DEF Advances

LEMMA TakenAdvances ==
    ASSUME LoopInv, NEW kind, NEW e, Process(e, kind), pending' = pending \ {e}
    PROVE  Advances(e)
<1> DEFINE New == {}
<1>1. /\ pending' = (pending \ {e}) \cup New
      /\ \A x \in New : x.job.kind = "order" /\ x \in Queue!Event /\ Queue!Earlier(e, x)
  OBVIOUS
<1> HIDE DEF New
<1> QED BY <1>1, ProcessAdvances

\* What is pending is of its step, its node, or an order.
LEMMA PendingFacts ==
    ASSUME LoopInv, phase = "running", NEW e \in pending
    PROVE  /\ e.job.kind \in {"market", "agents", "metrics"} =>
                 \E s \in StepRange : e = StepEvent(s, e.job.kind)
           /\ e.job.kind = "fact" => FactStep < Steps /\ e = FactEvent
           /\ e.job.kind = "delivery" => e.job.of \in Reached /\ e = Delivery(e.job.of)
           /\ e.job.kind # "order" => e \in LaidOut
<1>1. AgendaStands /\ PropagationTypeOK /\ NoFutureLeak /\ latency \in Latencies
  BY DEF LoopInv, RunStands, SpreadInv, EngineTypeOK
<1>2. e.job.kind # "order" => e \in LaidOut
  BY <1>1 DEF AgendaStands
<1>3. ASSUME e.job.kind # "order", e.job.kind # "delivery"
      PROVE  \E s \in StepRange : <<s, e.job.kind>> \in Entries /\ e = StepEvent(s, e.job.kind)
  BY <1>1, <1>2, <1>3, LaidOutFacts
<1>4. e.job.kind = "delivery" => e.job.of \in Reached /\ e = Delivery(e.job.of)
  BY <1>1, <1>2, LaidOutFacts
<1>5. ASSUME e.job.kind = "fact" PROVE FactStep < Steps /\ e = FactEvent
  BY <1>3, <1>5, EntriesFacts, StepTimes DEF FactEvent
<1>6. ASSUME e.job.kind \in {"market", "agents", "metrics"}
      PROVE  \E s \in StepRange : e = StepEvent(s, e.job.kind)
  BY <1>3, <1>6
<1> QED BY <1>2, <1>4, <1>5, <1>6

\* The parts of the invariant that a step leaves alone.
LEMMA OrdersKept ==
    ASSUME LoopInv, NEW e, Advances(e), pending' = pending \ {e}, e.job.kind # "order",
           intents' = intents
    PROVE  OrdersStand'
<1>1. OrdersStand
  BY DEF LoopInv, RunStands, Advances
<1> QED BY <1>1 DEF OrdersStand

LEMMA CountsKept ==
    ASSUME LoopInv, NEW e, Advances(e), e.job.kind \notin {"market", "metrics"},
           UNCHANGED <<captured, haltedSteps, haltedCaptures>>
    PROVE  CountsStand'
<1>1. /\ CountsStand /\ PropagationTypeOK /\ NoFutureLeak /\ latency \in Latencies
      /\ UNCHANGED <<latency, networkVars>>
      /\ \A x \in LaidOut : x \in pending' <=> x \in pending /\ x # e
  BY DEF LoopInv, RunStands, Advances, SpreadInv, EngineTypeOK
<1>2. \A s : MarketOf(s)' = MarketOf(s) /\ MetricsOf(s)' = MetricsOf(s)
  BY <1>1, LaidOutStays
<1>3. \A s \in StepRange : /\ MarketOf(s) \in LaidOut /\ MetricsOf(s) \in LaidOut
                           /\ MarketOf(s) # e /\ MetricsOf(s) # e
  <2> TAKE s \in StepRange
  <2>1. MarketOf(s) \in LaidOut /\ MetricsOf(s) \in LaidOut
    BY <1>1, LaidOutFacts
  <2> QED BY <2>1, StepEventFields
<1> QED BY <1>1, <1>2, <1>3 DEF CountsStand

LEMMA TracesKept ==
    ASSUME LoopInv, NEW e, Advances(e), e.job.kind \notin {"fact", "delivery"},
           UNCHANGED <<traced, fact>>
    PROVE  TracesStand'
BY LaidOutStays, EventFields, LaidOutFacts DEF LoopInv, RunStands, Advances, SpreadInv, EngineTypeOK,
   Delivery, FactEvent, StepEvent, TracesStand

LEMMA HaltKept ==
    ASSUME LoopInv, NEW e, Advances(e), e.job.kind # "market", UNCHANGED <<market, haltUntil>>
    PROVE  HaltStands'
<1>1. /\ HaltStands /\ PropagationTypeOK /\ NoFutureLeak /\ latency \in Latencies
      /\ UNCHANGED <<latency, networkVars>> /\ phase = "running"
      /\ \A x \in LaidOut : x \in pending' <=> x \in pending /\ x # e
  BY DEF LoopInv, RunStands, Advances, SpreadInv, EngineTypeOK
<1>2. \A s : MarketOf(s)' = MarketOf(s) /\ AgentsOf(s)' = AgentsOf(s)
  BY <1>1, LaidOutStays
<1>3. \A s \in StepRange : MarketOf(s) \in LaidOut /\ AgentsOf(s) \in LaidOut /\ MarketOf(s) # e
  <2> TAKE s \in StepRange
  <2>1. MarketOf(s) \in LaidOut /\ AgentsOf(s) \in LaidOut
    BY <1>1, LaidOutFacts
  <2> QED BY <2>1, StepEventFields
<1> QED BY <1>1, <1>2, <1>3 DEF HaltStands

\* What a step of the loop is to keep, with what it may write apart.
LEMMA LoopTypes ==
    ASSUME LoopInv, NEW e, Advances(e), sequence' \in Nat,
           phase' \in {"running", "cancelled"}, market' \in {"CONTINUOUS", "HALTED"},
           haltUntil' \in 0..Steps, haltCount' \in 0..MaxHalts,
           {haltedSteps', haltedCaptures', captured'} \subseteq 0..Steps,
           intents' \in Seq(Order), informed' \subseteq Nodes, traced' \subseteq Nodes,
           fact' \in BOOLEAN, signalsUsed' \subseteq Cognitive
    PROVE  EngineTypeOK'
<1>1. /\ latency \in Latencies /\ latency' = latency /\ SpreadInv'
      /\ now' \in Times /\ pending' \subseteq Queue!Event
      /\ last' = [time |-> e.time, priority |-> e.priority, seq |-> e.seq] /\ Timed(e)
  BY DEF LoopInv, EngineTypeOK, Advances
<1>2. last' \in [time : Nat, priority : Nat, seq : Nat]
  BY <1>1 DEF Timed
<1>3. \A i \in DOMAIN intents' : intents'[i] \in Order
  OBVIOUS
<1> QED BY <1>1, <1>2, <1>3 DEF EngineTypeOK, SpreadInv

LEMMA LoopKept ==
    ASSUME LoopInv, NEW e, Advances(e), EngineTypeOK', intents' \in Seq(Order),
           phase' \in {"running", "cancelled"},
           OrdersStand', CountsStand', TracesStand', HaltStands'
    PROVE  LoopInv'
BY DEF LoopInv, RunStands, Advances

LEMMA LoopFacts ==
    ASSUME LoopInv
    PROVE  /\ sequence \in Nat /\ market \in {"CONTINUOUS", "HALTED"} /\ haltUntil \in 0..Steps
           /\ haltCount \in 0..MaxHalts
           /\ haltedSteps \in 0..Steps /\ haltedCaptures \in 0..Steps /\ captured \in 0..Steps
           /\ intents \in Seq(Order) /\ informed \subseteq Nodes /\ traced \subseteq Nodes
           /\ fact \in BOOLEAN /\ signalsUsed \subseteq Cognitive
           /\ phase = "running" =>
                 AgendaStands /\ OrdersStand /\ CountsStand /\ TracesStand /\ HaltStands
BY DEF LoopInv, EngineTypeOK, RunStands

\* A step that only takes its event, of a kind that nothing counts.
LEMMA QuietStep ==
    ASSUME LoopInv, NEW e, NEW kind \in {"clarification", "flow", "agents"}, Process(e, kind), Taken(e),
           UNCHANGED <<market, haltUntil, haltCount, haltedSteps, intents, informed, traced, fact,
                       captured, haltedCaptures>>,
           signalsUsed' \subseteq Cognitive
    PROVE  LoopInv'
BY TakenAdvances, LoopFacts, LoopTypes, OrdersKept, CountsKept, TracesKept, HaltKept, LoopKept DEF
   Process, Taken

LEMMA ClarificationKeeps == ASSUME LoopInv, NEW e, ClarificationReleased(e) PROVE LoopInv'
BY LoopFacts, QuietStep DEF ClarificationReleased

LEMMA FlowKeeps == ASSUME LoopInv, NEW e, FlowArrived(e) PROVE LoopInv'
BY LoopFacts, QuietStep DEF FlowArrived

LEMMA FactKeeps == ASSUME LoopInv, NEW e, FactReleased(e) PROVE LoopInv'
<1>1. /\ phase = "running" /\ phase' = phase /\ sequence' = sequence /\ pending' = pending \ {e}
      /\ Process(e, "fact") /\ e.job.kind = "fact" /\ fact' = TRUE /\ e \in pending
      /\ UNCHANGED <<market, haltUntil, haltCount, haltedSteps, intents, informed, traced,
                     signalsUsed, captured, haltedCaptures>>
  BY DEF FactReleased, Process, Taken, Queue!IsNext
<1>2. Advances(e)
  BY <1>1, TakenAdvances
<1>3. EngineTypeOK'
  BY <1>1, <1>2, LoopFacts, LoopTypes
<1>4. OrdersStand' /\ CountsStand' /\ HaltStands'
  BY <1>1, <1>2, OrdersKept, CountsKept, HaltKept
<1>5. TracesStand'
  <2>1. /\ TracesStand /\ PropagationTypeOK /\ NoFutureLeak /\ latency \in Latencies
        /\ UNCHANGED <<latency, networkVars>>
        /\ \A x \in LaidOut : x \in pending' <=> x \in pending /\ x # e
    BY <1>1, <1>2 DEF LoopInv, RunStands, Advances, SpreadInv, EngineTypeOK
  <2>2. Reached' = Reached /\ FactEvent' = FactEvent /\ \A n : Delivery(n)' = Delivery(n)
    BY <2>1, LaidOutStays
  <2>3. e = FactEvent
    BY <1>1, PendingFacts
  <2>4. \A n \in Reached : Delivery(n) \in LaidOut /\ Delivery(n) # e
    BY EventFields, <2>1, LaidOutFacts, <1>1 DEF Delivery
  <2> QED BY <1>1, <2>1, <2>2, <2>3, <2>4 DEF TracesStand
<1>6. intents' \in Seq(Order) /\ phase' \in {"running", "cancelled"}
  BY <1>1, LoopFacts
<1> QED BY <1>2, <1>3, <1>4, <1>5, <1>6, LoopKept

LEMMA DeliveryKeeps == ASSUME LoopInv, NEW e, Delivered(e) PROVE LoopInv'
<1> DEFINE m == e.job.of
<1>1. /\ phase = "running" /\ phase' = phase /\ sequence' = sequence /\ pending' = pending \ {e}
      /\ Process(e, "delivery") /\ e.job.kind = "delivery" /\ e \in pending
      /\ traced' = traced \cup {m} /\ informed' = informed \cup {m}
      /\ UNCHANGED <<market, haltUntil, haltCount, haltedSteps, intents, fact,
                     signalsUsed, captured, haltedCaptures>>
  BY DEF Delivered, Process, Taken, Queue!IsNext
<1>2. Advances(e)
  BY <1>1, TakenAdvances
<1>3. m \in Reached /\ e = Delivery(m)
  BY <1>1, PendingFacts
<1>4. /\ TracesStand /\ PropagationTypeOK /\ NoFutureLeak /\ latency \in Latencies
      /\ UNCHANGED <<latency, networkVars>>
      /\ \A x \in LaidOut : x \in pending' <=> x \in pending /\ x # e
  BY <1>1, <1>2 DEF LoopInv, RunStands, Advances, SpreadInv, EngineTypeOK
<1>5. m \in Nodes
  BY <1>3, <1>4, ReachedFacts
<1>6. EngineTypeOK'
  BY <1>1, <1>2, <1>5, LoopFacts, LoopTypes
<1>7. OrdersStand' /\ CountsStand' /\ HaltStands'
  BY <1>1, <1>2, OrdersKept, CountsKept, HaltKept
<1>8. TracesStand'
  <2>1. Reached' = Reached /\ FactEvent' = FactEvent /\ \A n : Delivery(n)' = Delivery(n)
    BY <1>4, LaidOutStays
  <2>2. \A n \in Reached : Delivery(n) \in LaidOut /\ (Delivery(n) = e => n = m)
    BY EventFields, <1>4, LaidOutFacts, <1>3 DEF Delivery
  <2>3. FactStep < Steps => FactEvent \in LaidOut /\ FactEvent # e
    BY EventFields, <1>4, LaidOutFacts, <1>1 DEF FactEvent, StepEvent
  <2>4. \A n \in Reached : n \in traced' <=> Delivery(n) \notin pending'
    <3> TAKE n \in Reached
    <3>1. n \in traced <=> Delivery(n) \notin pending
      BY <1>4 DEF TracesStand
    <3>2. Delivery(n) \in pending' <=> Delivery(n) \in pending /\ Delivery(n) # e
      BY <1>4, <2>2
    <3> HIDE DEF m
    <3> QED BY <1>1, <1>3, <2>2, <3>1, <3>2
  <2>5. traced' \subseteq Reached
    BY <1>1, <1>3, <1>4 DEF TracesStand
  <2>6. FactStep < Steps => (fact' <=> FactEvent \notin pending')
    BY <1>1, <1>4, <2>3 DEF TracesStand
  <2> QED BY <2>1, <2>4, <2>5, <2>6 DEF TracesStand
<1>9. intents' \in Seq(Order) /\ phase' \in {"running", "cancelled"}
  BY <1>1, LoopFacts
<1> QED BY <1>2, <1>6, <1>7, <1>8, <1>9, LoopKept

\* What has passed and what is to come when an event at the start of a step is taken.
LEMMA StepsOrdered ==
    ASSUME NEW s \in StepRange, NEW t \in StepRange
    PROVE  /\ Queue!Earlier(MarketOf(s), AgentsOf(t)) => s <= t
           /\ s < t => /\ Queue!Earlier(MarketOf(s), MarketOf(t))
                       /\ Queue!Earlier(MetricsOf(s), MarketOf(t))
                       /\ Queue!Earlier(MetricsOf(s), MetricsOf(t))
           /\ s < t => /\ ~Queue!Earlier(MarketOf(t), MarketOf(s))
                       /\ ~Queue!Earlier(MetricsOf(t), MetricsOf(s))
           /\ ~Queue!Earlier(MarketOf(s), MarketOf(s)) /\ ~Queue!Earlier(MetricsOf(s), MetricsOf(s))
<1> DEFINE a == Start(s)
           b == Start(t)
<1>1. /\ MarketOf(s).time = a /\ MarketOf(s).priority = 10 /\ MarketOf(t).time = b
      /\ MarketOf(t).priority = 10 /\ AgentsOf(t).time = b /\ AgentsOf(t).priority = 40
      /\ MetricsOf(s).time = a + StepLength - 1 /\ MetricsOf(t).time = b + StepLength - 1
      /\ MetricsOf(s).priority = 80 /\ MetricsOf(t).priority = 80
      /\ a \in Nat /\ b \in Nat /\ s \in Nat /\ t \in Nat /\ StepLength \in Nat /\ StepLength > 0
      /\ (s < t => a + StepLength <= b) /\ (t < s => b + StepLength <= a)
  BY StepEventFields
<1>2. MarketOf(s).seq \in Nat /\ MetricsOf(s).seq \in Nat
  <2>1. <<s, "market">> \in Entries /\ <<s, "metrics">> \in Entries
    BY EntriesFacts
  <2>2. NumberOf(<<s, "market">>) \in Nat /\ NumberOf(<<s, "metrics">>) \in Nat
    BY <2>1, EntriesFacts
  <2> QED BY <2>2, EventFields DEF MarketOf, MetricsOf, StepEvent
<1> HIDE DEF a, b
<1> QED BY <1>1, <1>2 DEF Queue!Earlier

\* The update of a step counts it as halted at most once.
LEMMA MarketCounts ==
    ASSUME LoopInv, NEW e, Advances(e), e.job.kind = "market",
           UNCHANGED <<captured, haltedCaptures>>, haltedSteps' \in {haltedSteps, haltedSteps + 1}
    PROVE  CountsStand'
<1>1. /\ CountsStand /\ PropagationTypeOK /\ NoFutureLeak /\ latency \in Latencies
      /\ UNCHANGED <<latency, networkVars>> /\ e \in pending /\ phase = "running"
      /\ \A x \in LaidOut : x \in pending' <=> x \in pending /\ x # e
      /\ \A x \in pending : x = e \/ Queue!Earlier(e, x)
      /\ haltedSteps \in Nat
  BY LoopFacts DEF LoopInv, RunStands, Advances, SpreadInv, EngineTypeOK
<1>2. PICK s \in StepRange : e = MarketOf(s)
  BY <1>1, PendingFacts DEF MarketOf
<1>3. haltedSteps <= s /\ s \in Nat
  BY <1>1, <1>2, StepEventFields DEF CountsStand
<1>4. \A t : MarketOf(t)' = MarketOf(t) /\ MetricsOf(t)' = MetricsOf(t)
  BY <1>1, LaidOutStays
<1>5. \A t \in StepRange : /\ MarketOf(t) \in LaidOut /\ MetricsOf(t) \in LaidOut
                           /\ MetricsOf(t) # e
  <2> TAKE t \in StepRange
  <2>1. MarketOf(t) \in LaidOut /\ MetricsOf(t) \in LaidOut
    BY <1>1, LaidOutFacts
  <2> QED BY <2>1, StepEventFields
<1>6. \A t \in StepRange : MarketOf(t) \in pending' => haltedSteps' <= t
  BY <1>1, <1>5, StepEventFields, <1>2, StepsOrdered, <1>3
<1>7. (\A t \in StepRange : MetricsOf(t) \in pending' <=> captured' <= t)
      /\ haltedCaptures' <= captured'
  BY <1>1, <1>5 DEF CountsStand
<1> QED BY <1>4, <1>6, <1>7 DEF CountsStand

LEMMA CancelKeeps == ASSUME LoopInv, NEW e, Cancelled(e) PROVE LoopInv'
BY TakenAdvances, LoopFacts, LoopTypes, OrdersKept, TracesKept, MarketCounts, LoopKept DEF Cancelled,
   Process, Queue!IsNext, HaltStands

LEMMA UpdateKeeps == ASSUME LoopInv, NEW e, NEW moved, MarketUpdated(e, moved) PROVE LoopInv'
<1>1. /\ phase = "running" /\ phase' = phase /\ sequence' = sequence /\ pending' = pending \ {e}
      /\ Process(e, "market") /\ e.job.kind = "market" /\ e \in pending
      /\ UNCHANGED <<intents, informed, traced, fact, signalsUsed, captured, haltedCaptures>>
  BY DEF MarketUpdated, Process, Taken, Queue!IsNext
<1>2. Advances(e)
  BY <1>1, TakenAdvances
<1>3. PICK s \in StepRange : e = MarketOf(s)
  BY <1>1, PendingFacts DEF MarketOf
<1>4. StepOf(e.time) = s /\ s \in Nat /\ s < Steps /\ Steps \in Nat
  BY <1>3, StepEventFields, StepTimes
<1>5. haltedSteps <= s /\ haltedSteps \in Nat
  BY <1>1, <1>3, LoopFacts DEF CountsStand
<1>6. haltedSteps' \in {haltedSteps, haltedSteps + 1}
  BY DEF MarketUpdated
<1>7. \/ market' = "CONTINUOUS" /\ haltUntil' \in {0, haltUntil} /\ haltCount' = haltCount
      \/ /\ market' = "HALTED" /\ haltUntil' = haltUntil /\ haltCount' = haltCount /\ s < haltUntil
      \/ /\ market' = "HALTED" /\ haltCount < MaxHalts /\ haltCount' = haltCount + 1
         /\ haltUntil' = Lesser(Steps - 1, s + HaltDuration)
  BY <1>4, LoopFacts DEF MarketUpdated, Resumes
<1>8. Lesser(Steps - 1, s + HaltDuration) \in 0..Steps
      /\ (s < Lesser(Steps - 1, s + HaltDuration) \/ s = Steps - 1)
  BY <1>4, EngineAssumption DEF Lesser
<1>9. /\ haltUntil' \in 0..Steps /\ haltCount' \in 0..MaxHalts /\ market' \in {"CONTINUOUS", "HALTED"}
      /\ market' = "HALTED" => s < haltUntil' \/ s = Steps - 1
  <2> DEFINE later == Lesser(Steps - 1, s + HaltDuration)
  <2>1. haltUntil \in 0..Steps /\ haltCount \in 0..MaxHalts /\ 0 \in 0..Steps
    BY <1>4, LoopFacts
  <2>2. haltCount < MaxHalts => haltCount + 1 \in 0..MaxHalts
    BY <2>1, EngineAssumption
  <2> HIDE DEF later
  <2>3. CASE market' = "CONTINUOUS" /\ haltUntil' \in {0, haltUntil} /\ haltCount' = haltCount
    BY <2>1, <2>3
  <2>4. CASE /\ market' = "HALTED" /\ haltUntil' = haltUntil /\ haltCount' = haltCount
             /\ s < haltUntil
    BY <2>1, <2>4
  <2>5. CASE /\ market' = "HALTED" /\ haltCount < MaxHalts /\ haltCount' = haltCount + 1
             /\ haltUntil' = later
    BY <1>8, <2>2, <2>5 DEF later
  <2> QED BY <1>7, <2>3, <2>4, <2>5 DEF later
<1>10. EngineTypeOK'
  BY <1>4, <1>5, <1>6, <1>1, <1>2, <1>9, LoopFacts, LoopTypes
<1>11. OrdersStand' /\ TracesStand'
  BY <1>1, <1>2, OrdersKept, TracesKept
<1>12. CountsStand'
  BY <1>1, <1>2, <1>3, <1>6, MarketCounts
<1>13. HaltStands'
  <2>1. /\ AgendaStands' /\ LaidOut' = LaidOut /\ UNCHANGED <<latency, networkVars>>
        /\ last' = [time |-> e.time, priority |-> e.priority, seq |-> e.seq]
        /\ PropagationTypeOK /\ NoFutureLeak /\ latency \in Latencies
    BY <1>2 DEF Advances, LoopInv, SpreadInv, EngineTypeOK
  <2>2. \A x : Queue!Earlier(last', x) <=> Queue!Earlier(e, x)
    BY <2>1 DEF Queue!Earlier
  <2>3. /\ \A x \in LaidOut : x \in pending' <=> Queue!Earlier(e, x)
        /\ \A x \in pending' : Queue!Earlier(e, x)
    <3>1. /\ \A x \in LaidOut' : x \in pending' <=> Queue!Earlier(last', x)
          /\ \A x \in pending' : Queue!Earlier(last', x)
      <4> HIDE DEF LaidOut
      <4> QED BY <2>1 DEF AgendaStands, Queue!Earlier
    <3> QED BY <2>1, <2>2, <3>1
  <2>4. \A t \in StepRange : AgentsOf(t) \in pending' /\ MarketOf(t) \notin pending' => t = s
    <3> TAKE t \in StepRange
    <3>1. AgentsOf(t) \in pending' => s <= t
      BY <1>3, <2>3, StepsOrdered
    <3>2. s < t => MarketOf(t) \in pending'
      BY <2>1, LaidOutFacts, <1>3, <2>3, StepsOrdered
    <3>3. s \in Nat /\ t \in Nat
      BY StepEventFields
    <3> QED BY <3>1, <3>2, <3>3
  <2>5. \A t : MarketOf(t)' = MarketOf(t) /\ AgentsOf(t)' = AgentsOf(t)
    BY <2>1, LaidOutStays
  <2> QED BY <1>9, <2>4, <2>5 DEF HaltStands
<1>14. intents' \in Seq(Order) /\ phase' \in {"running", "cancelled"}
  BY <1>1, LoopFacts
<1> QED BY <1>2, <1>10, <1>11, <1>12, <1>13, <1>14, LoopKept

LEMMA CaptureKeeps == ASSUME LoopInv, NEW e, MetricsCaptured(e) PROVE LoopInv'
<1>1. /\ phase = "running" /\ phase' = phase /\ sequence' = sequence /\ pending' = pending \ {e}
      /\ Process(e, "metrics") /\ e.job.kind = "metrics" /\ e \in pending
      /\ captured' = captured + 1 /\ haltedCaptures' \in {haltedCaptures, haltedCaptures + 1}
      /\ UNCHANGED <<market, haltUntil, haltCount, haltedSteps, intents, informed, traced, fact,
                     signalsUsed>>
  BY DEF MetricsCaptured, Process, Taken, Queue!IsNext
<1>2. Advances(e)
  BY <1>1, TakenAdvances
<1>3. PICK s \in StepRange : e = MetricsOf(s)
  BY <1>1, PendingFacts DEF MetricsOf
<1>4. s \in Nat /\ s < Steps /\ Steps \in Nat
  BY StepTimes
<1>5. /\ CountsStand /\ captured \in Nat /\ haltedCaptures \in Nat /\ haltedCaptures <= captured
      /\ PropagationTypeOK /\ NoFutureLeak /\ latency \in Latencies
      /\ UNCHANGED <<latency, networkVars>>
      /\ \A x \in LaidOut : x \in pending' <=> x \in pending /\ x # e
      /\ \A x \in pending : x = e \/ Queue!Earlier(e, x)
  BY <1>1, <1>2, LoopFacts DEF CountsStand, Advances, LoopInv, SpreadInv, EngineTypeOK
<1>6. captured = s
  BY <1>1, <1>3, <1>5, <1>4, StepsOrdered DEF CountsStand, StepRange
<1>7. EngineTypeOK'
  BY <1>1, <1>4, <1>5, <1>6, <1>2, LoopFacts, LoopTypes
<1>8. OrdersStand' /\ TracesStand' /\ HaltStands'
  BY <1>1, <1>2, OrdersKept, TracesKept, HaltKept
<1>9. CountsStand'
  <2>1. \A t : MarketOf(t)' = MarketOf(t) /\ MetricsOf(t)' = MetricsOf(t)
    BY <1>5, LaidOutStays
  <2>2. \A t \in StepRange : /\ MarketOf(t) \in LaidOut /\ MetricsOf(t) \in LaidOut
                             /\ MarketOf(t) # e /\ (MetricsOf(t) = e <=> t = s)
    <3> TAKE t \in StepRange
    <3>1. MarketOf(t) \in LaidOut /\ MetricsOf(t) \in LaidOut
      BY <1>5, LaidOutFacts
    <3>2. MarketOf(t) # e
      BY <1>1, StepEventFields
    <3>3. MetricsOf(t) = e => t = s
      BY StepEventFields, StepsOrdered, <1>3, <1>4
    <3> QED BY <1>3, <3>1, <3>2, <3>3
  <2>3. \A t \in StepRange : MetricsOf(t) \in pending' <=> captured' <= t
    <3> TAKE t \in StepRange
    <3>1. t \in Nat
      BY StepEventFields
    <3>2. MetricsOf(t) \in pending <=> captured <= t
      BY <1>5 DEF CountsStand
    <3>3. MetricsOf(t) \in pending' <=> captured <= t /\ t # s
      BY <1>5, <2>2, <3>2
    <3> QED BY <1>1, <1>4, <1>6, <3>1, <3>3
  <2>4. \A t \in StepRange : MarketOf(t) \in pending' => haltedSteps' <= t
    BY <1>1, <1>5, <2>2 DEF CountsStand
  <2>5. haltedCaptures' <= captured'
    BY <1>1, <1>5
  <2> QED BY <2>1, <2>3, <2>4, <2>5 DEF CountsStand
<1>10. intents' \in Seq(Order) /\ phase' \in {"running", "cancelled"}
  BY <1>1, LoopFacts
<1> QED BY <1>2, <1>7, <1>8, <1>9, <1>10, LoopKept

LEMMA ArrivalKeeps == ASSUME LoopInv, NEW e, OrderArrived(e) PROVE LoopInv'
<1> DEFINE o == e.job.order
           new == [intents EXCEPT ![o].state = Outcome(o)]
<1>1. /\ phase = "running" /\ phase' = phase /\ sequence' = sequence /\ pending' = pending \ {e}
      /\ Process(e, "order") /\ e.job.kind = "order" /\ e \in pending /\ intents' = new
      /\ UNCHANGED <<market, haltUntil, haltCount, haltedSteps, informed, traced, fact,
                     signalsUsed, captured, haltedCaptures>>
  BY DEF OrderArrived, Process, Taken, Queue!IsNext
<1>2. Advances(e)
  BY <1>1, TakenAdvances
<1>3. /\ intents \in Seq(Order) /\ OrdersStand
      /\ Outcome(o) \in OrderStates \ {"SCHEDULED"}
  BY <1>1, LoopFacts DEF OrderStates, Outcome
<1>4. o \in 1..Len(intents) /\ Len(intents) \in Nat
  BY <1>1, <1>3 DEF OrdersStand
<1>5. /\ new \in Seq(Order) /\ Len(new) = Len(intents) /\ new[o].state # "SCHEDULED"
      /\ \A i \in 1..Len(intents) : i # o => new[i] = intents[i]
  <2> DEFINE out == Outcome(o)
             n == Len(intents)
  <2> HIDE DEF out
  <2>1. DOMAIN intents = 1..n /\ \A i \in 1..n : intents[i] \in Order
    BY <1>3
  <2>2. DOMAIN new = 1..n /\ (\A i \in 1..n : i # o => new[i] = intents[i])
        /\ new[o] = [intents[o] EXCEPT !.state = out]
    BY <1>4, <2>1 DEF out
  <2>3. [intents[o] EXCEPT !.state = out] \in Order
        /\ [intents[o] EXCEPT !.state = out].state = out
    BY <1>3, <1>4, <2>1 DEF Order, out
  <2> DEFINE g == [intents[o] EXCEPT !.state = out]
  <2>4. new = [intents EXCEPT ![o] = g]
    BY DEF out
  <2> HIDE DEF g, new, n, o
  <2>5. g \in Order
    BY <2>3 DEF g
  <2>6. new \in Seq(Order) /\ Len(new) = n
    BY <1>3, <1>4, <2>4, <2>5 DEF n
  <2> QED BY <1>3, <2>2, <2>3, <2>6 DEF out, n, g
<1> HIDE DEF new
<1>6. EngineTypeOK'
  BY <1>1, <1>2, <1>5, LoopFacts, LoopTypes
<1>7. CountsStand' /\ TracesStand' /\ HaltStands'
  BY <1>1, <1>2, CountsKept, TracesKept, HaltKept
<1>8. OrdersStand'
  <2>1. \A x \in pending' : x.job.kind = "order" =>
           /\ x.priority = 50 /\ x.job.order \in 1..Len(new)
           /\ new[x.job.order].state = "SCHEDULED"
    BY <1>1, <1>3, <1>5 DEF OrdersStand
  <2>2. \A i \in 1..Len(new) : new[i].state = "SCHEDULED" =>
           \E x \in pending' : x.job.kind = "order" /\ x.job.order = i
    BY <1>5, <1>3, <1>1 DEF OrdersStand
  <2>3. \A x, y \in pending' :
           x.job.kind = "order" /\ y.job.kind = "order" /\ x.job.order = y.job.order => x = y
    BY <1>1, <1>3 DEF OrdersStand
  <2> QED BY <1>1, <2>1, <2>2, <2>3 DEF OrdersStand
<1>9. intents' \in Seq(Order) /\ phase' \in {"running", "cancelled"}
  BY <1>1, <1>5
<1> QED BY <1>2, <1>6, <1>7, <1>8, <1>9, LoopKept

\* The arrivals that an activation schedules.
ArrivalOf(e, who, i) ==
    Queue!At(e.time + latency, Priority.order,
             [kind |-> "order", of |-> who[i], order |-> Len(intents) + i], i)
Arrivals(e, who) == {ArrivalOf(e, who, i) : i \in DOMAIN who}
Made(e, who) ==
    [i \in DOMAIN who |->
        [agent |-> who[i], made |-> e.time,
         state |-> IF Arrives(e.time) THEN "SCHEDULED" ELSE "EXPIRED"]]

LEMMA ArrivalFacts ==
    ASSUME LoopInv, NEW e \in pending, e.time \in Nat, e.priority = 40, Arrives(e.time),
           NEW who \in Seq(Traders), NEW i \in 1..Len(who)
    PROVE  /\ ArrivalOf(e, who, i).job.kind = "order" /\ ArrivalOf(e, who, i).priority = 50
           /\ ArrivalOf(e, who, i).job.order = Len(intents) + i
           /\ ArrivalOf(e, who, i) \in Queue!Event
           /\ Queue!Earlier(e, ArrivalOf(e, who, i))
<1> DEFINE due == e.time + latency
           n == Len(intents)
           end == EndOfRun
           l == StepLength
<1>1. latency \in Nat /\ due \in Nat /\ e.time <= due
  <2>1. latency \in Latencies
    BY DEF LoopInv, EngineTypeOK
  <2>2. latency \in Nat
    BY <2>1, EngineAssumption
  <2> QED BY <2>2
<1>2. n \in Nat /\ i \in Nat \ {0} /\ sequence \in Nat /\ Len(who) \in Nat
  BY LoopFacts
<1>3. who[i] \in Nodes /\ who[i] \in Traders
  BY EngineAssumption
<1>4. due \in Times
  BY EngineAssumption, StepTimes, <1>1 DEF StepRange, Times, EndOfRun, Arrives
<1>5. Priority.order = 50 /\ 50 \in {Priority[k] : k \in Kinds} /\ "order" \in Kinds
  BY KindFacts
<1> HIDE DEF due, n, end
<1>6. [kind |-> "order", of |-> who[i], order |-> n + i] \in Jobs
  BY <1>2, <1>3, <1>5 DEF Jobs
<1>7. ArrivalOf(e, who, i) = [time |-> due, priority |-> 50, seq |-> sequence + i,
                              job |-> [kind |-> "order", of |-> who[i], order |-> n + i]]
  BY <1>5 DEF ArrivalOf, Queue!At, due, n
<1>8. sequence + i \in Nat \ {0}
  BY <1>2
<1>9. ArrivalOf(e, who, i) \in Queue!Event
  BY <1>4, <1>5, <1>6, <1>7, <1>8 DEF Queue!Event
<1>10. Queue!Earlier(e, ArrivalOf(e, who, i))
  BY <1>1, <1>7 DEF Queue!Earlier
<1> QED BY <1>7, <1>9, <1>10 DEF n

LEMMA ActivationKeeps ==
    ASSUME LoopInv, NEW e, NEW acting \in SUBSET Traders, AgentsActivated(e, acting)
    PROVE  LoopInv'
<1> DEFINE who == InOrder(acting)
           n == Len(intents)
           made == Made(e, who)
<1>1. /\ phase = "running" /\ Process(e, "agents") /\ e.job.kind = "agents" /\ e \in pending
      /\ UNCHANGED <<market, haltUntil, haltCount, haltedSteps, informed, traced, fact,
                     captured, haltedCaptures>>
  BY DEF AgentsActivated, Process, Queue!IsNext
<1>2. signalsUsed' \subseteq Cognitive
  BY LoopFacts DEF AgentsActivated, Ready
<1>3. CASE market = "HALTED"
  BY <1>3, <1>1, <1>2, QuietStep DEF AgentsActivated
<1>4. CASE market # "HALTED"
  <2>1. PICK s \in StepRange : e = AgentsOf(s)
    BY <1>1, PendingFacts DEF AgentsOf
  <2>2. e.time \in Nat /\ e.priority = 40
    BY <2>1, StepEventFields
  <2>3. /\ who \in Seq(Traders) /\ Len(who) \in Nat /\ DOMAIN who = 1..Len(who)
    BY EngineAssumption, InOrderFacts
  <2>4. /\ intents' = intents \o made
        /\ Arrives(e.time) => /\ pending' = (pending \ {e}) \cup Arrivals(e, who)
                              /\ sequence' = sequence + Len(who) /\ phase' = phase
        /\ ~Arrives(e.time) => pending' = pending \ {e} /\ sequence' = sequence /\ phase' = phase
    BY <1>4 DEF AgentsActivated, Made, Arrivals, ArrivalOf, Taken
  <2> HIDE DEF who
  <2>5. /\ made \in Seq(Order) /\ Len(made) = Len(who)
        /\ \A i \in 1..Len(who) :
              made[i].state = IF Arrives(e.time) THEN "SCHEDULED" ELSE "EXPIRED"
    <3> DEFINE state == IF Arrives(e.time) THEN "SCHEDULED" ELSE "EXPIRED"
    <3>1. state \in OrderStates
      BY DEF OrderStates
    <3> HIDE DEF state
    <3>2. made = [i \in 1..Len(who) |-> [agent |-> who[i], made |-> e.time, state |-> state]]
      BY <2>3 DEF Made, state
    <3>3. \A i \in 1..Len(who) : made[i] = [agent |-> who[i], made |-> e.time, state |-> state]
      BY <3>2
    <3>4. \A i \in 1..Len(who) : made[i] \in Order /\ made[i].state = state
      <4> SUFFICES ASSUME NEW i \in 1..Len(who) PROVE made[i] \in Order /\ made[i].state = state
        OBVIOUS
      <4>1. who[i] \in Traders
        BY <2>3
      <4>2. made[i] = [agent |-> who[i], made |-> e.time, state |-> state]
        BY <3>3
      <4> HIDE DEF made
      <4> QED BY <2>2, <3>1, <4>1, <4>2 DEF Order
    <3>5. made \in Seq(Order) /\ Len(made) = Len(who)
      BY <2>3, <3>2, <3>4
    <3> QED BY <3>4, <3>5 DEF state
  <2> HIDE DEF made
  <2>6. intents \in Seq(Order) /\ n \in Nat /\ OrdersStand
    BY <1>1, LoopFacts
  <2>7. /\ intents' \in Seq(Order) /\ Len(intents') = n + Len(who)
        /\ \A i \in 1..n : intents'[i] = intents[i]
        /\ \A i \in 1..Len(who) : intents'[n + i] = made[i]
    <3> DEFINE m == Len(who)
               all == intents \o made
    <3>1. intents' = all /\ Len(made) = m /\ made \in Seq(Order) /\ m \in Nat
      BY <2>3, <2>4, <2>5
    <3> HIDE DEF m
    <3>2. all \in Seq(Order) /\ Len(all) = n + m
      <4>1. intents \in Seq(Order) /\ made \in Seq(Order)
        BY <2>6, <3>1
      <4>2. all \in Seq(Order)
        BY <4>1
      <4>3. Len(all) = Len(intents) + Len(made)
        BY <4>1
      <4> QED BY <3>1, <4>2, <4>3
    <3>3. \A i \in 1..n : all[i] = intents[i]
      BY <2>6, <3>1
    <3>4. \A i \in 1..m : all[n + i] = made[i]
      BY <2>6, <3>1
    <3> QED BY <3>1, <3>2, <3>3, <3>4 DEF m
  <2> HIDE DEF n
  <2>8. Advances(e)
    <3>1. CASE Arrives(e.time)
      <4>1. \A x \in Arrivals(e, who) :
               x.job.kind = "order" /\ x \in Queue!Event /\ Queue!Earlier(e, x)
        BY <2>3, <1>1, <2>2, <3>1, ArrivalFacts DEF Arrivals
      <4>2. pending' = (pending \ {e}) \cup Arrivals(e, who)
        BY <2>4, <3>1
      <4> DEFINE New == Arrivals(e, who)
      <4> HIDE DEF New
      <4>3. /\ pending' = (pending \ {e}) \cup New
            /\ \A x \in New : x.job.kind = "order" /\ x \in Queue!Event /\ Queue!Earlier(e, x)
        BY <4>1, <4>2 DEF New
      <4> QED BY <1>1, <4>3, ProcessAdvances
    <3>2. CASE ~Arrives(e.time)
      BY <1>1, <2>4, <3>2, TakenAdvances
    <3> QED BY <3>1, <3>2
  <2>9. phase' = "running" /\ sequence' \in Nat
    BY <1>1, <2>3, <2>4, LoopFacts
  <2>10. EngineTypeOK'
    BY <1>1, <1>2, <2>7, <2>8, <2>9, LoopFacts, LoopTypes
  <2>11. CountsStand' /\ TracesStand' /\ HaltStands'
    BY <1>1, <2>8, CountsKept, TracesKept, HaltKept
  <2>12. OrdersStand'
    <3> DEFINE old == pending \ {e}
    <3>1. \A x \in old : x.job.kind = "order" =>
             /\ x.priority = 50 /\ x.job.order \in 1..n /\ intents[x.job.order].state = "SCHEDULED"
      BY <2>6 DEF OrdersStand, n
    <3>2. \A i \in 1..n : intents[i].state = "SCHEDULED" =>
             \E x \in old : x.job.kind = "order" /\ x.job.order = i
      BY <1>1, <2>6 DEF OrdersStand, n
    <3>3. \A x, y \in old :
             x.job.kind = "order" /\ y.job.kind = "order" /\ x.job.order = y.job.order => x = y
      BY <2>6 DEF OrdersStand
    <3> HIDE DEF old
    <3>4. CASE ~Arrives(e.time)
      <4>1. pending' = old
        BY <2>4, <3>4 DEF old
      <4>2. \A i \in 1..(n + Len(who)) : intents'[i].state = "SCHEDULED" => i \in 1..n
        <5> SUFFICES ASSUME NEW i \in 1..(n + Len(who)), i > n
                     PROVE  intents'[i].state # "SCHEDULED"
          BY <2>3, <2>6 DEF n
        <5>1. i - n \in 1..Len(who) /\ n + (i - n) = i
          BY <2>3, <2>6 DEF n
        <5>2. intents'[i] = made[i - n]
          BY <2>7, <5>1
        <5> QED BY <2>5, <3>4, <5>1, <5>2
      <4>3. \A i \in 1..n : i \in 1..(n + Len(who))
        BY <2>3, <2>6 DEF n
      <4> QED BY <2>7, <3>1, <3>2, <3>3, <4>1, <4>2, <4>3 DEF OrdersStand
    <3>5. CASE Arrives(e.time)
      <4> DEFINE A(i) == ArrivalOf(e, who, i)
      <4>1. pending' = old \cup {A(i) : i \in 1..Len(who)}
        BY <2>3, <2>4, <3>5 DEF old, Arrivals
      <4>2. \A i \in 1..Len(who) : /\ A(i).job.kind = "order" /\ A(i).priority = 50
                                   /\ A(i).job.order = n + i
        BY <1>1, <2>2, <2>3, <3>5, ArrivalFacts DEF n
      <4> HIDE DEF A
      <4>3. \A i \in 1..Len(who) : /\ n + i \in 1..(n + Len(who)) /\ n + i \notin 1..n
                                   /\ intents'[n + i].state = "SCHEDULED"
        <5>1. \A i \in 1..Len(who) : n + i \in 1..(n + Len(who)) /\ n + i \notin 1..n
          BY <2>3, <2>6 DEF n
        <5> QED BY <2>5, <2>7, <3>5, <5>1
      <4>4. \A i \in 1..n : i \in 1..(n + Len(who)) /\ intents'[i] = intents[i]
        <5>1. n \in Nat /\ Len(who) \in Nat
          BY <2>3, <2>6 DEF n
        <5>2. \A i \in 1..n : i \in 1..(n + Len(who))
          BY <5>1
        <5> QED BY <2>7, <5>2
      <4>5. \A x \in pending' : x.job.kind = "order" =>
               /\ x.priority = 50 /\ x.job.order \in 1..Len(intents')
               /\ intents'[x.job.order].state = "SCHEDULED"
        BY <2>7, <3>1, <4>4, <4>2, <4>3, <4>1
      <4>6. \A i \in 1..Len(intents') : intents'[i].state = "SCHEDULED" =>
               \E x \in pending' : x.job.kind = "order" /\ x.job.order = i
        <5> SUFFICES ASSUME NEW i \in 1..(n + Len(who)), intents'[i].state = "SCHEDULED"
                     PROVE  \E x \in pending' : x.job.kind = "order" /\ x.job.order = i
          BY <2>7
        <5>1. CASE i \in 1..n
          BY <3>2, <4>4, <5>1, <4>1
        <5>2. CASE i \notin 1..n
          <6>1. i - n \in 1..Len(who) /\ n + (i - n) = i
            BY <2>3, <2>6, <5>2 DEF n
          <6>2. A(i - n) \in pending' /\ A(i - n).job.kind = "order" /\ A(i - n).job.order = i
            BY <4>1, <4>2, <6>1
          <6> QED BY <6>2
        <5> QED BY <5>1, <5>2
      <4>7. \A x, y \in pending' :
               x.job.kind = "order" /\ y.job.kind = "order" /\ x.job.order = y.job.order => x = y
        BY <3>3, <3>1, <4>2, <4>3, <2>3, <2>6, <4>1 DEF n
      <4> QED BY <4>5, <4>6, <4>7 DEF OrdersStand
    <3> QED BY <3>4, <3>5
  <2> QED BY <2>7, <2>8, <2>9, <2>10, <2>11, <2>12, LoopKept
<1> QED BY <1>3, <1>4

LEMMA LoopStep == LoopInv /\ [EngineNext]_loopVars => LoopInv'
<1> SUFFICES ASSUME LoopInv, [EngineNext]_loopVars PROVE LoopInv'
  OBVIOUS
<1>1. CASE UNCHANGED loopVars
  <2>1. UNCHANGED <<latency, networkVars>> /\ UNCHANGED engineVars
    BY <1>1 DEF loopVars, engineVars
  <2>2. SpreadInv'
    BY <2>1, SpreadStays DEF LoopInv
  <2>3. LaidOut' = LaidOut /\ Reached' = Reached /\ FactEvent' = FactEvent
        /\ (\A s : MarketOf(s)' = MarketOf(s) /\ AgentsOf(s)' = AgentsOf(s)
                     /\ MetricsOf(s)' = MetricsOf(s))
        /\ (\A n : Delivery(n)' = Delivery(n))
    BY <2>1, LaidOutStays
  <2>4. EngineTypeOK'
    BY <2>1, <2>2 DEF LoopInv, EngineTypeOK, SpreadInv, engineVars
  <2>5. NothingYet => NothingYet'
    BY <2>1 DEF NothingYet, engineVars
  <2>6. RunStands => AgendaStands'
    <3> HIDE DEF LaidOut
    <3> QED BY <2>1, <2>3 DEF RunStands, AgendaStands, engineVars, Queue!Earlier
  <2>7. RunStands => OrdersStand'
    BY <2>1 DEF RunStands, OrdersStand, engineVars
  <2>8. RunStands => CountsStand' /\ TracesStand' /\ HaltStands'
    BY <2>1, <2>3 DEF RunStands, CountsStand, TracesStand, HaltStands, engineVars
  <2> QED BY <2>1, <2>2, <2>4, <2>5, <2>6, <2>7, <2>8 DEF LoopInv, RunStands, engineVars
<1>2. CASE RunScenario \/ SpreadInformation \/ LayOut \/ Finish
  BY <1>2, RunScenarioKeeps, SpreadingKeeps, LayOutKeeps, FinishKeeps
<1>3. ASSUME NEW e \in pending,
             \/ Cancelled(e) \/ FactReleased(e) \/ ClarificationReleased(e) \/ Delivered(e)
             \/ OrderArrived(e) \/ FlowArrived(e) \/ MetricsCaptured(e)
      PROVE  LoopInv'
  BY <1>3, CancelKeeps, FactKeeps, ClarificationKeeps, DeliveryKeeps, ArrivalKeeps, FlowKeeps,
     CaptureKeeps
<1>4. ASSUME NEW e \in pending, NEW moved \in BOOLEAN, MarketUpdated(e, moved) PROVE LoopInv'
  BY <1>4, UpdateKeeps
<1>5. ASSUME NEW e \in pending, NEW acting \in SUBSET Traders, AgentsActivated(e, acting)
      PROVE  LoopInv'
  BY <1>5, ActivationKeeps
<1> QED BY <1>1, <1>2, <1>3, <1>4, <1>5 DEF EngineNext

-----------------------------------------------------------------------------
(* What the invariant says of the run.                                      *)

LEMMA TracesAreCausal == LoopInv => CausalTraces
<1> SUFFICES ASSUME LoopInv, NEW n \in traced
             PROVE  fact /\ (receipts[n].sender # NoOne => receipts[n].sender \in traced)
  BY DEF CausalTraces
<1>1. phase \notin {"idle", "network"}
  BY DEF LoopInv, NothingYet
<1>2. /\ SpreadInv /\ PropagationTypeOK /\ NoFutureLeak /\ latency \in Latencies
      /\ AgendaStands /\ TracesStand /\ last \in [time : Nat, priority : Nat, seq : Nat]
  BY <1>1 DEF LoopInv, RunStands, SpreadInv, EngineTypeOK
<1>3. n \in Reached /\ Delivery(n) \notin pending
  BY <1>2 DEF TracesStand
<1>4. \A x \in LaidOut : Timed(x) /\ (x \in pending <=> Queue!Earlier(last, x))
  BY <1>2, LaidOutFacts DEF AgendaStands
<1>5. Timed(last)
  BY <1>2 DEF Timed
<1>6. \A x \in LaidOut : Queue!Earlier(x, Delivery(n)) => x \notin pending
  BY <1>2, <1>3, LaidOutFacts, <1>4, <1>5, EarlierIsOrder
<1>7. /\ FactStep < Steps /\ Queue!Earlier(FactEvent, Delivery(n))
      /\ receipts[n].sender # NoOne => /\ receipts[n].sender \in Reached
                                       /\ Queue!Earlier(Delivery(receipts[n].sender), Delivery(n))
  BY <1>2, <1>3, FactAndDeliveries
<1>8. fact
  BY <1>2, <1>7, LaidOutFacts, <1>6 DEF TracesStand
<1>9. ASSUME receipts[n].sender # NoOne PROVE receipts[n].sender \in traced
  BY <1>7, <1>9, <1>2, LaidOutFacts, <1>6 DEF TracesStand
<1> QED BY <1>8, <1>9

LEMMA CapturedIsStep ==
    ASSUME LoopInv, NEW e, MetricsCaptured(e)
    PROVE  \E s \in StepRange : e = MetricsOf(s) /\ captured = s
<1>1. /\ phase = "running" /\ Process(e, "metrics") /\ e.job.kind = "metrics" /\ e \in pending
      /\ pending' = pending \ {e}
  BY DEF MetricsCaptured, Process, Taken, Queue!IsNext
<1>2. PICK s \in StepRange : e = MetricsOf(s)
  BY <1>1, PendingFacts DEF MetricsOf
<1>3. /\ CountsStand /\ captured \in Nat /\ \A x \in pending : x = e \/ Queue!Earlier(e, x)
  BY <1>1, LoopFacts DEF Process, Queue!IsNext
<1>4. captured <= s /\ s \in Nat /\ s < Steps /\ Steps \in Nat
  BY <1>1, <1>2, <1>3, StepTimes DEF CountsStand
<1>5. ASSUME captured < s PROVE FALSE
  BY <1>3, <1>4, <1>5, StepsOrdered, <1>2 DEF StepRange, CountsStand
<1> QED BY <1>2, <1>3, <1>4, <1>5

LEMMA CapturesComplete ==
    ASSUME LoopInv, NEW e, MetricsCaptured(e) PROVE MetricsComplete
<1>1. PICK s \in StepRange : e = MetricsOf(s) /\ captured = s
  BY CapturedIsStep
<1>2. /\ phase = "running" /\ e \in pending /\ pending' = pending \ {e} /\ captured' = s + 1
      /\ \A x \in pending : x = e \/ Queue!Earlier(e, x)
  BY <1>1 DEF MetricsCaptured, Process, Taken, Queue!IsNext
<1>3. /\ PropagationTypeOK /\ NoFutureLeak /\ latency \in Latencies /\ pending \subseteq Queue!Event
      /\ AgendaStands /\ OrdersStand
  BY <1>2, LoopFacts DEF LoopInv, SpreadInv, EngineTypeOK
<1> DEFINE begin == Start(s)
           next == Start(s + 1)
<1>4. /\ e.time = begin + StepLength - 1 /\ e.priority = 80 /\ begin \in Nat /\ StepLength \in Nat
      /\ StepLength > 0 /\ next = begin + StepLength
  BY <1>1, StepEventFields, StepTimes
<1>5. ASSUME NEW x \in pending, x # e PROVE x.time >= next
  <2>1. Queue!Earlier(e, x)
    BY <1>2, <1>5
  <2>2. x.time \in Nat
    BY <1>3 DEF Times, Queue!Event
  <2>3. CASE x.job.kind = "order"
    BY <1>3, <2>3, <1>4, <2>1, <2>2 DEF OrdersStand, Queue!Earlier
  <2>4. CASE x.job.kind # "order" /\ x.job.kind # "metrics"
    BY <1>2, <2>4, PendingFacts, <1>3, LaidOutFacts, KindFacts, <1>4, <2>1, <2>2 DEF RowKinds,
       Queue!Earlier
  <2>5. CASE x.job.kind = "metrics"
    <3>1. PICK t \in StepRange : x = MetricsOf(t)
      BY <1>2, <2>5, PendingFacts DEF MetricsOf
    <3>2. s < t
      BY StepEventFields, <1>1, <1>5, <2>1, <3>1, StepsOrdered
    <3>3. begin + StepLength <= Start(t) /\ Start(t) \in Nat /\ x.time = Start(t) + StepLength - 1
      BY <3>1, <3>2, StepEventFields
    <3> HIDE DEF begin, next
    <3> QED BY <1>4, <3>3
  <2> QED BY <2>3, <2>4, <2>5
<1> QED BY <1>2, <1>5 DEF MetricsComplete

\* What a step of the run keeps to.
LEMMA StepsAreOrderly ==
    ASSUME LoopInv, [EngineNext]_loopVars PROVE ProcessedInOrder /\ MetricsComplete
<1>1. CASE UNCHANGED loopVars
  BY <1>1 DEF loopVars, engineVars, ProcessedInOrder, MetricsComplete
<1>2. CASE RunScenario \/ SpreadInformation \/ LayOut \/ Finish
  BY <1>2 DEF RunScenario, SpreadInformation, LayOut, Finish, engineVars, ProcessedInOrder,
              MetricsComplete
<1>3. ASSUME NEW e, NEW kind, Process(e, kind) PROVE ProcessedInOrder
  BY <1>3, LoopFacts DEF Process, Queue!IsNext, AgendaStands, ProcessedInOrder, Queue!Earlier
<1>4. ASSUME NEW e \in pending,
             \/ Cancelled(e) \/ FactReleased(e) \/ ClarificationReleased(e) \/ Delivered(e)
             \/ OrderArrived(e) \/ FlowArrived(e)
      PROVE  ProcessedInOrder /\ MetricsComplete
  BY <1>4, <1>3 DEF Cancelled, FactReleased, ClarificationReleased, Delivered, OrderArrived,
     FlowArrived, MetricsComplete
<1>5. ASSUME NEW e \in pending, MetricsCaptured(e) PROVE ProcessedInOrder /\ MetricsComplete
  BY <1>3, <1>5, CapturesComplete DEF MetricsCaptured
<1>6. ASSUME NEW e \in pending, NEW moved \in BOOLEAN, MarketUpdated(e, moved)
      PROVE  ProcessedInOrder /\ MetricsComplete
  BY <1>3, <1>6 DEF MarketUpdated, MetricsComplete
<1>7. ASSUME NEW e \in pending, NEW acting \in SUBSET Traders, AgentsActivated(e, acting)
      PROVE  ProcessedInOrder /\ MetricsComplete
  BY <1>3, <1>7 DEF AgentsActivated, MetricsComplete
<1> QED BY <1>1, <1>2, <1>4, <1>5, <1>6, <1>7 DEF EngineNext

LEMMA OrdersAreAccounted == LoopInv => OrdersAccounted
<1> SUFFICES ASSUME LoopInv, phase \notin {"idle", "network"}
             PROVE  /\ {i \in DOMAIN intents : intents[i].state = "SCHEDULED"}
                           = {e.job.order : e \in {f \in pending : f.job.kind = "order"}}
                    /\ phase = "done" => captured = Steps /\ last.time = CaptureTime(Steps - 1)
  BY DEF OrdersAccounted
<1>1. RunStands /\ intents \in Seq(Order)
  BY DEF LoopInv
<1>2. {i \in DOMAIN intents : intents[i].state = "SCHEDULED"}
          = {e.job.order : e \in {f \in pending : f.job.kind = "order"}}
  BY <1>1 DEF RunStands, OrdersStand
<1>3. ASSUME phase = "done" PROVE captured = Steps /\ last.time = CaptureTime(Steps - 1)
  <2> DEFINE final == Steps - 1
  <2>1. pending = {} /\ last.time = now /\ now \in Times /\ captured \in 0..Steps
        /\ last \in [time : Nat, priority : Nat, seq : Nat]
        /\ PropagationTypeOK /\ NoFutureLeak /\ latency \in Latencies
    BY <1>3 DEF LoopInv, SpreadInv, EngineTypeOK
  <2>2. final \in StepRange /\ Steps \in Nat /\ Steps > 0
    BY EngineAssumption DEF StepRange
  <2>3. captured = Steps
    BY <1>1, <2>1, <2>2 DEF RunStands, CountsStand
  <2>4. ~Queue!Earlier(last, MetricsOf(final))
    BY <2>1, <2>2, LaidOutFacts, <1>1 DEF RunStands, AgendaStands
  <2>5. last.time >= CaptureTime(final)
    BY <2>2, StepEventFields, StepTimes, <2>1, <2>4 DEF Queue!Earlier
  <2>6. last.time <= CaptureTime(final)
    BY <2>2, StepTimes, <2>1 DEF Start, Times
  <2>7. CaptureTime(final) \in Nat /\ last.time \in Nat
    BY <2>1, <2>2, StepTimes
  <2> HIDE DEF final
  <2>8. last.time = CaptureTime(final)
    BY <2>5, <2>6, <2>7
  <2> QED BY <2>3, <2>8 DEF final
<1> QED BY <1>2, <1>3

LEMMA HaltsDoResume == LoopInv => HaltsResume
<1> SUFFICES ASSUME LoopInv, phase = "running", NEW e \in pending, e.job.kind = "agents",
                    Queue!IsNext(e), market = "HALTED"
             PROVE  StepOf(e.time) < haltUntil \/ StepOf(e.time) = Steps - 1
  BY DEF HaltsResume
<1>1. PICK s \in StepRange : e = AgentsOf(s)
  BY PendingFacts DEF AgentsOf
<1>2. e.time = Start(s) /\ e.priority = 40 /\ MarketOf(s).time = Start(s)
      /\ MarketOf(s).priority = 10 /\ MarketOf(s) # e /\ Start(s) \in Nat
  BY <1>1, StepEventFields
<1>3. MarketOf(s) \notin pending
  BY <1>2 DEF Queue!IsNext, Queue!Earlier
<1>4. s < haltUntil \/ s = Steps - 1
  BY <1>1, <1>3, LoopFacts DEF HaltStands
<1> QED BY <1>2, <1>4, StepTimes

LEMMA LoopInvHolds == EngineSpec => []LoopInv
<1>1. EngineInit => LoopInv
  BY LoopInitially
<1>2. LoopInv /\ [EngineNext]_loopVars => LoopInv'
  BY LoopStep
<1> QED BY <1>1, <1>2, PTL DEF EngineSpec

\* Every record, queue, counter and set of the run stays what it is meant to be.
THEOREM EngineTypes == EngineSpec => []EngineTypeOK
<1>1. LoopInv => EngineTypeOK
  BY DEF LoopInv
<1> QED BY <1>1, LoopInvHolds, PTL

\* Nobody hears a fact before it is public or before the neighbour it comes from,
\* nobody misses a path, and the traces of the run follow that order.
THEOREM InformationFollowsCauses == EngineSpec => []InformationIsCausal
<1>1. LoopInv => InformationIsCausal
  BY SpreadIsCausal, TracesAreCausal DEF LoopInv, InformationIsCausal
<1> QED BY <1>1, LoopInvHolds, PTL

\* Events come in order, steps are measured when they are over, every order
\* arrives or expires, and agents find no halt that should have ended.
THEOREM RunsAreOrderly == EngineSpec => RunIsOrderly
<1>1. LoopInv /\ LoopInv' /\ [EngineNext]_loopVars =>
         [ProcessedInOrder /\ MetricsComplete /\ OrdersAccounted' /\ HaltsResume']_loopVars
  <2> SUFFICES ASSUME LoopInv, LoopInv', [EngineNext]_loopVars
               PROVE  ProcessedInOrder /\ MetricsComplete /\ OrdersAccounted' /\ HaltsResume'
    OBVIOUS
  <2>1. (LoopInv => OrdersAccounted)'
    BY OrdersAreAccounted, PTL
  <2>2. (LoopInv => HaltsResume)'
    BY HaltsDoResume, PTL
  <2> QED BY <2>1, <2>2, StepsAreOrderly
<1> QED BY <1>1, LoopInvHolds, PTL DEF EngineSpec, RunIsOrderly

-----------------------------------------------------------------------------
(* The parts of a run beside one another, as they are checked: each step is *)
(* a step of one part and leaves the others alone.                          *)

PartsInv == LoopInv /\ BookInv /\ QueueInv /\ AgentInv /\ PricesProtected /\ PhaseInv

LEMMA PartsInitially == SimulationInit => PartsInv
BY LoopInitially, BookInitially, QueueInitInv, AgentInitHolds, PricesInitially, PhaseInitially
   DEF SimulationInit, PartsInv

LEMMA PartsMove ==
    [SimulationNext]_simulationVars =>
        /\ [EngineNext]_loopVars /\ [Next]_vars /\ [QueueNext]_queueVars /\ [AgentNext]_intentVars
        /\ [CognitionNext]_cognitionVars
BY DEF SimulationNext, simulationVars, Looping, Preparing

LEMMA PartsStep == PartsInv /\ [SimulationNext]_simulationVars => PartsInv'
BY PartsMove, LoopStep, BookNextStep, QueueStep, AgentStepKeepsInv, PricesStep, PhaseNext DEF PartsInv,
   BookStep

LEMMA PartsInvHolds == SimulationSpec => []PartsInv
BY PartsInitially, PartsStep, PTL DEF SimulationSpec

\* Every value of the loop, the book, the queue, the agent and the phase has its type.
THEOREM SimulationTypes == SimulationSpec => []SimulationTypeOK
<1>1. PartsInv => SimulationTypeOK
  BY SoundFromBookInv, SignalsFromInv DEF PartsInv, LoopInv, QueueInv, AgentInv, SimulationTypeOK
<1> QED BY <1>1, PartsInvHolds, PTL

\* What the agents act upon is what it says it is, and what they do keeps to their limits:
\* for any network, population, market and answers of the model.
THEOREM AgentsAreSound == SimulationSpec => []AgentsActSoundly
<1>1. PartsInv => AgentsActSoundly
  BY SpreadIsCausal, TracesAreCausal, SignalsFromInv DEF PartsInv, LoopInv, InformationIsCausal,
     AgentInv, AgentsActSoundly
<1> QED BY <1>1, PartsInvHolds, PTL
=============================================================================
