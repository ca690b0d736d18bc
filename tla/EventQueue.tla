----------------------------- MODULE EventQueue -----------------------------
(***************************************************************************)
(* DeterministicEventQueue of simulation/event_queue.py.  A cancelled      *)
(* event stays in the heap until it comes to the head, where the next peek *)
(* or pop throws it away; three sets of event ids say what is active, what *)
(* is cancelled and which ids may not be used again.  heapq keeps its      *)
(* least element at the head, so the heap is a set here.                   *)
(***************************************************************************)
EXTENDS Naturals, FiniteSets

CONSTANTS
    EventTimes, EventPriorities,
    EventIds            \* the ids events may be given; an event is known by its id

ASSUME QueueAssumption == EventTimes \subseteq Nat /\ EventPriorities \subseteq Nat

VARIABLES
    clock,      \* SimulationClock.now
    heap,       \* _heap
    scheduled,  \* _sequence
    active, cancelled, used     \* _activeEventIds, _cancelledEventIds, _usedEventIds

queueVars == <<clock, heap, scheduled, active, cancelled, used>>

HeapEntry == [time : EventTimes, priority : EventPriorities, seq : Nat \ {0}, job : EventIds]

QueueTypeOK ==
    /\ clock \in {0} \cup EventTimes /\ scheduled = Cardinality(used)
    /\ heap \subseteq HeapEntry
    /\ active \cup cancelled = {e.job : e \in heap} /\ active \cap cancelled = {}
    /\ active \subseteq used /\ used \subseteq EventIds

QueueInit ==
    /\ clock = 0 /\ heap = {} /\ scheduled = 0
    /\ active = {} /\ cancelled = {} /\ used = {}

\* mutant: only time and order of scheduling count
HeapByTime(x, y) == x.time < y.time \/ (x.time = y.time /\ x.seq < y.seq)

HeapOrder(x, y) ==
    \/ x.time < y.time
    \/ x.time = y.time /\ x.priority < y.priority
    \/ x.time = y.time /\ x.priority = y.priority /\ x.seq < y.seq

Heads(h) == {e \in h : \A f \in h \ {e} : HeapOrder(e, f)}

\* mutant: an id may be used again once it is taken or cancelled
Inactive(id) == id \notin active

Unused(id) == id \notin used

\* schedule: not before the clock, not under an id that was ever used
ScheduleEvent(time, priority, id) ==
    /\ time >= clock /\ Unused(id)
    /\ scheduled' = scheduled + 1
    /\ heap' = heap \cup {[time |-> time, priority |-> priority, seq |-> scheduled + 1, job |-> id]}
    /\ active' = active \cup {id} /\ used' = used \cup {id}
    /\ UNCHANGED <<clock, cancelled>>

\* cancel: False the second time
CancelEvent(id) ==
    /\ id \in active
    /\ active' = active \ {id} /\ cancelled' = cancelled \cup {id}
    /\ UNCHANGED <<clock, heap, scheduled, used>>

\* _discardCancelledHead: the cancelled events before the first active one
Discarded == {e \in heap : \A f \in heap : e = f \/ HeapOrder(f, e) => f.job \in cancelled}

Discard ==
    /\ cancelled' = cancelled \ {e.job : e \in Discarded}
    /\ UNCHANGED <<scheduled, used>>

PeekNext ==
    /\ Discard /\ heap' = heap \ Discarded
    /\ UNCHANGED <<clock, active>>

\* popNext; an empty queue raises IndexError after the discarding
PopNext ==
    /\ Discard
    /\ LET left == heap \ Discarded
       IN  /\ heap' = left \ Heads(left)
           /\ active' = active \ {e.job : e \in Heads(left)}
           /\ clock' \in IF left = {} THEN {clock} ELSE {e.time : e \in Heads(left)}

QueueNext ==
    \/ \E time \in EventTimes, priority \in EventPriorities, id \in EventIds :
          ScheduleEvent(time, priority, id)
    \/ \E id \in EventIds : CancelEvent(id)
    \/ PeekNext \/ PopNext

QueueSpec == QueueInit /\ [][QueueNext]_queueVars
-----------------------------------------------------------------------------
Visible == INSTANCE Agenda WITH Times <- EventTimes, Priorities <- EventPriorities,
                                Jobs <- EventIds, now <- clock, sequence <- scheduled,
                                pending <- {e \in heap : e.job \in active}

\* The heap with its cancelled entries behaves as the set of events that are
\* neither taken nor cancelled: what is taken is the first of them, and a
\* cancelled event neither comes out nor delays the others.
ImplementsAgenda == Visible!AgendaSpec
=============================================================================
