------------------------------- MODULE Agenda -------------------------------
(***************************************************************************)
(* What the event queue of the simulation promises: the pending events are *)
(* a set, the next one is the first by time, priority and order of         *)
(* scheduling, and taking it moves the clock to its time.  EventQueue      *)
(* shows that the heap of event_queue.py with its lazily cancelled entries *)
(* keeps this promise; EngineLoop builds on it.                            *)
(***************************************************************************)
EXTENDS Naturals, FiniteSets

CONSTANTS
    Times, Priorities,  \* numbers that may be scheduled
    Jobs                \* what an event is about: its type and payload

VARIABLES
    now,        \* SimulationClock.now
    sequence,   \* how many events have been scheduled
    pending     \* the events that are scheduled, neither taken nor cancelled

agendaVars == <<now, sequence, pending>>

Event == [time : Times, priority : Priorities, seq : Nat \ {0}, job : Jobs]

AgendaInit == now = 0 /\ sequence = 0 /\ pending = {}

\* ScheduledEvent is ordered by its first three fields
Earlier(x, y) ==
    \/ x.time < y.time
    \/ x.time = y.time /\ x.priority < y.priority
    \/ x.time = y.time /\ x.priority = y.priority /\ x.seq < y.seq

IsNext(e) == e \in pending /\ \A f \in pending \ {e} : Earlier(e, f)

\* an event as it is written into the queue when n others go before it
At(time, priority, job, n) ==
    [time |-> time, priority |-> priority, seq |-> sequence + n, job |-> job]

Schedule(time, priority, job) ==
    /\ time >= now
    /\ sequence' = sequence + 1
    /\ pending' = pending \cup {At(time, priority, job, 1)}
    /\ UNCHANGED now

Take(e) ==
    /\ IsNext(e)
    /\ pending' = pending \ {e} /\ now' = e.time
    /\ UNCHANGED sequence

Withdraw(e) ==
    /\ e \in pending /\ pending' = pending \ {e}
    /\ UNCHANGED <<now, sequence>>

AgendaNext ==
    \/ \E time \in Times, priority \in Priorities, job \in Jobs : Schedule(time, priority, job)
    \/ \E e \in pending : Take(e) \/ Withdraw(e)

AgendaSpec == AgendaInit /\ [][AgendaNext]_agendaVars
=============================================================================
