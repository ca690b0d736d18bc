---------------------------- MODULE Propagation -----------------------------
(***************************************************************************)
(* InformationNetwork.propagate of information/network.py: one item of     *)
(* information spreads from the seed nodes along the links that forward    *)
(* it.  Offers wait in a heap by arrival, hop count and order of pushing;  *)
(* a node takes the first offer it is made and forwards it unless the hop  *)
(* count is exhausted.  Whether a link forwards and after how long is a    *)
(* stable hash of the link in the code and an input here (Networks).       *)
(***************************************************************************)
EXTENDS Integers, FiniteSets, Filters

CONSTANTS
    Nodes,      \* the nodes of the graph, one for each agent
    NodeOrder,  \* their ids in order, which sorts what ties otherwise
    Seeds,      \* the nodes that hear of the item first
    Networks,   \* what propagate may meet: a delay for each link, None if it does not forward
    NoDelay,    \* stands for a link that does not forward
    StartAt, KnownAt,   \* when the seeds are told, and when the item is known
    MaxHops

ASSUME PropagationAssumption ==
    /\ IsFiniteSet(Nodes) /\ NodeOrder \in [1..Cardinality(Nodes) -> Nodes]
    /\ \A n \in Nodes : \E i \in DOMAIN NodeOrder : NodeOrder[i] = n
    /\ Seeds \subseteq Nodes /\ Seeds # {}
    /\ Networks \subseteq [Nodes \X Nodes -> Nat \cup {NoDelay}]
    /\ StartAt \in Nat /\ KnownAt \in Nat /\ MaxHops \in Nat

VARIABLES
    network,    \* the links of this run
    offers,     \* the heap of offers
    pushed,     \* how many offers have been pushed
    receipts    \* localReceipts, by node

networkVars == <<network, offers, pushed, receipts>>

Rank(n) == CHOOSE i \in DOMAIN NodeOrder : NodeOrder[i] = n
InOrder(nodes) == Filtered(NodeOrder, nodes)

NoOne == "none"
Offer == [at : Nat, hop : 0..MaxHops, seq : Nat, node : Nodes, sender : Nodes \cup {NoOne}]

PropagationTypeOK ==
    /\ network \in Networks /\ offers \subseteq Offer /\ pushed \in Nat
    /\ DOMAIN receipts \subseteq Nodes
    /\ \A n \in DOMAIN receipts : receipts[n] \in Offer /\ receipts[n].node = n

Later(a, b) == IF a >= b THEN a ELSE b

PropagationInit ==
    /\ network \in Networks /\ receipts = <<>>
    /\ pushed = Cardinality(Seeds)
    /\ LET told == InOrder(Seeds)
       IN  offers = {[at |-> Later(StartAt, KnownAt), hop |-> 0, seq |-> i, node |-> told[i],
                      sender |-> NoOne] : i \in DOMAIN told}

\* mutant: the order of pushing decides
FirstPushed(x, y) == x.seq < y.seq

Sooner(x, y) ==
    \/ x.at < y.at
    \/ x.at = y.at /\ x.hop < y.hop
    \/ x.at = y.at /\ x.hop = y.hop /\ x.seq < y.seq

Forwards(n) == InOrder({m \in Nodes \ DOMAIN receipts :
                            m # n /\ network[<<n, m>>] # NoDelay})

HopsLeft(o) == o.hop < MaxHops

Spread ==
    \E o \in offers :
        /\ \A p \in offers \ {o} : Sooner(o, p)
        /\ UNCHANGED network
        /\ IF o.node \in DOMAIN receipts
           THEN offers' = offers \ {o} /\ UNCHANGED <<pushed, receipts>>
           ELSE LET to == IF HopsLeft(o) THEN Forwards(o.node) ELSE <<>>
                IN  /\ receipts' = [n \in DOMAIN receipts \cup {o.node} |->
                                        IF n = o.node THEN o ELSE receipts[n]]
                    /\ pushed' = pushed + Len(to)
                    /\ offers' = (offers \ {o}) \cup
                          {[at |-> o.at + network[<<o.node, to[i]>>], hop |-> o.hop + 1,
                            seq |-> pushed + i, node |-> to[i], sender |-> o.node]
                               : i \in DOMAIN to}

Spreading == offers # {}

PropagationSpec == PropagationInit /\ [][Spread]_networkVars
-----------------------------------------------------------------------------
\* assertNoFutureLeaks: no node hears of the item before it is known, and
\* none before the node it hears it from.
NoFutureLeak ==
    \A n \in DOMAIN receipts :
        LET r == receipts[n]
        IN  /\ r.at >= KnownAt
            /\ r.sender # NoOne => /\ r.sender \in DOMAIN receipts
                                   /\ receipts[r.sender].at + network[<<r.sender, n>>] = r.at
                                   /\ receipts[r.sender].hop + 1 = r.hop

\* Once it has spread, no node that could forward it has left a neighbour
\* without it or with a later arrival: the first offer a node took was the
\* best one, though it was taken before all offers were known.
NoOfferMissed ==
    ~Spreading => \A n \in DOMAIN receipts, m \in Nodes :
        m # n /\ network[<<n, m>>] # NoDelay /\ receipts[n].hop < MaxHops
        => m \in DOMAIN receipts /\ receipts[m].at <= receipts[n].at + network[<<n, m>>]
=============================================================================
