---------------------------- MODULE SingleFlight ----------------------------
(***************************************************************************)
(* ResultInterpretationSingleFlight (single_flight.py): requests for an    *)
(* interpretation of a result that carry the same account and the same     *)
(* clientRequestId share one call of the model provider, which is paid for.*)
(*                                                                         *)
(* Everything runs on one event loop.  _stateLock is never held across an  *)
(* await, so what a coroutine does between two awaits is one step here:    *)
(* a request up to its await, a provider call's two ends, the resumption   *)
(* of a waiter with its cleanup, the cleanup task of the done callback.    *)
(* The loop runs ready steps in some order; the model allows any.          *)
(***************************************************************************)
EXTENDS Naturals, Sequences, FiniteSets

CONSTANTS
    Principals,     \* accounts (principalKey)
    Keys,           \* pairs of an account and a clientRequestId
    PrincipalOf,    \* [Keys -> Principals]
    Hashes,         \* requestHash, a digest of the request's content
    Callers,        \* HTTP requests, one coroutine each
    MaxTasks,       \* bound on the flights that are ever created
    MaxActive,      \* maxActiveFlights
    MaxCompleted,   \* maxCompletedFlights
    Ttl,            \* completedTtlSeconds
    MaxTime         \* bound on the clock

ASSUME KeyAssumption == PrincipalOf \in [Keys -> Principals]
ASSUME BoundAssumption ==
    /\ MaxTasks \in Nat /\ MaxTime \in Nat
    /\ MaxActive \in Nat \ {0} /\ MaxCompleted \in Nat \ {0} /\ Ttl \in Nat \ {0}

Tasks == 1..MaxTasks
None == 0
\* a result or a failure that can be told again, or an exception that cannot be
Outcomes == {"replayable", "unreplayable"}

VARIABLES
    tasks,      \* the asyncio tasks, in the order they were created
    active,     \* _activeFlights: the task and the hash of each key
    completed,  \* _completedFlights: hash, task whose outcome it keeps, expiresAt
    locks,      \* _principalLocks: a lock is named after the task it was made for
    cleanups,   \* done tasks whose _scheduleCleanup has not run its cleanup yet
    callers,    \* the requests
    now,        \* the monotonic clock
    charged     \* history: keys with a provider call a repeat must not pay again

flightVars == <<tasks, active, completed, locks, cleanups, callers, now, charged>>

TaskRecords ==
    [pc : {"waiting", "calling", "done"}, key : Keys, hash : Hashes,
     lock : Tasks, outcome : Outcomes \cup {"pending"}]
NoFlight == [task |-> None]
Flights == [task : Tasks, hash : Hashes] \cup {NoFlight}
NoEntry == [expiresAt |-> None]
Entries == [task : Tasks, hash : Hashes, expiresAt : 1..(MaxTime + Ttl)] \cup {NoEntry}
Idle == [pc |-> "idle"]
CallerRecords == {Idle} \cup
    [pc : {"waiting", "answered", "conflict", "busy", "gone"},
     key : Keys, hash : Hashes, task : 0..MaxTasks]

ActiveKeys == {k \in Keys : active[k] # NoFlight}
Created == 1..Len(tasks)
Done(t) == tasks[t].pc = "done"
Locked(l) == \E t \in Created : tasks[t].lock = l /\ tasks[t].pc = "calling"

FlightInit ==
    /\ tasks = <<>>
    /\ active = [k \in Keys |-> NoFlight]
    /\ completed = [k \in Keys |-> NoEntry]
    /\ locks = [p \in Principals |-> None]
    /\ cleanups = {}
    /\ callers = [c \in Callers |-> Idle]
    /\ now = 0
    /\ charged = {}

-----------------------------------------------------------------------------
(* Completed flights.                                                       *)

\* _purgeCompletedLocked
Purged == [k \in Keys |-> IF completed[k] # NoEntry /\ completed[k].expiresAt <= now
                          THEN NoEntry ELSE completed[k]]

\* the window of these keys is over in this step: a repeat may pay again
Forgotten == {k \in Keys : completed[k] # NoEntry /\ completed'[k] = NoEntry}

\* what the capacity leaves of the entries when one more is stored: the one that
\* expires first makes room
Trimmed(entries) ==
    LET kept == {k \in Keys : entries[k] # NoEntry}
        oldest == {k \in kept : \A o \in kept : entries[k].expiresAt <= entries[o].expiresAt}
    IN  IF Cardinality(kept) < MaxCompleted THEN {entries}
        ELSE {[entries EXCEPT ![k] = NoEntry] : k \in oldest}

\* mutant: whatever flight the key has now is taken for the task's own
IsFlightOfAny(k, t) == active[k] # NoFlight

IsFlightOf(k, t) == active[k].task = t

\* _CachedFailure.fromError: an exception that cannot be rebuilt is not kept
Replayable(t) == tasks[t].outcome = "replayable"

\* mutant: nobody holds the lock, but a task may be waiting for it
LockUnlocked(k) == ~Locked(locks[PrincipalOf[k]])

\* the account of k has no other flight and nobody holds its lock
LockUnused(k) ==
    /\ \A o \in ActiveKeys \ {k} : PrincipalOf[o] # PrincipalOf[k]
    /\ ~Locked(locks[PrincipalOf[k]])

\* _cleanup, started with these completed entries: only the flight that is this
\* very task is taken out, its outcome kept, and an account without flights loses
\* its lock
Cleanup(k, t, entries) ==
    IF ~IsFlightOf(k, t)
    THEN active' = active /\ completed' = entries /\ locks' = locks
    ELSE /\ active' = [active EXCEPT ![k] = NoFlight]
         /\ IF ~Replayable(t) THEN completed' = entries
            ELSE \E kept \in Trimmed(entries) :
                    completed' = [kept EXCEPT ![k] =
                        [task |-> t, hash |-> active[k].hash, expiresAt |-> now + Ttl]]
         /\ locks' = IF LockUnused(k) THEN [locks EXCEPT ![PrincipalOf[k]] = None]
                     ELSE locks

-----------------------------------------------------------------------------
(* execute, up to its await.  Each starts with the purge.                   *)

Full == Cardinality(ActiveKeys) >= MaxActive

Became(c, pc, k, h, t) ==
    callers' = [callers EXCEPT ![c] = [pc |-> pc, key |-> k, hash |-> h, task |-> t]]

\* a recent outcome of the key: it is replayed, or the request is refused
Replay(c, k, h) ==
    /\ callers[c].pc = "idle"
    /\ Purged[k] # NoEntry
    /\ completed' = Purged
    /\ Became(c, IF Purged[k].hash = h THEN "answered" ELSE "conflict", k, h,
              Purged[k].task)
    /\ charged' = charged \ Forgotten
    /\ UNCHANGED <<tasks, active, locks, cleanups, now>>

\* a flight of the key: the request is refused, waits for it, or, when it has
\* landed already, has its outcome at once (an await on a done future does not
\* yield) and cleans up
Join(c, k, h) ==
    /\ callers[c].pc = "idle"
    /\ Purged[k] = NoEntry
    /\ active[k] # NoFlight
    /\ LET t == active[k].task
       IN  IF active[k].hash # h
           THEN /\ Became(c, "conflict", k, h, None)
                /\ completed' = Purged /\ UNCHANGED <<active, locks>>
           ELSE IF Done(t)
           THEN Became(c, "answered", k, h, t) /\ Cleanup(k, t, Purged)
           ELSE /\ Became(c, "waiting", k, h, t)
                /\ completed' = Purged /\ UNCHANGED <<active, locks>>
    /\ charged' = charged \ Forgotten
    /\ UNCHANGED <<tasks, cleanups, now>>

\* no trace of the key, and no room
Refuse(c, k, h) ==
    /\ callers[c].pc = "idle"
    /\ Purged[k] = NoEntry /\ active[k] = NoFlight
    /\ Full
    /\ completed' = Purged
    /\ Became(c, "busy", k, h, None)
    /\ charged' = charged \ Forgotten
    /\ UNCHANGED <<tasks, active, locks, cleanups, now>>

\* no trace of the key: a task that waits for the lock of the account
Launch(c, k, h) ==
    /\ callers[c].pc = "idle"
    /\ Purged[k] = NoEntry /\ active[k] = NoFlight
    /\ ~Full
    /\ Len(tasks) < MaxTasks
    /\ LET t == Len(tasks) + 1
           p == PrincipalOf[k]
           lock == IF locks[p] = None THEN t ELSE locks[p]
       IN  /\ locks' = [locks EXCEPT ![p] = lock]
           /\ tasks' = Append(tasks, [pc |-> "waiting", key |-> k, hash |-> h,
                                      lock |-> lock, outcome |-> "pending"])
           /\ active' = [active EXCEPT ![k] = [task |-> t, hash |-> h]]
           /\ Became(c, "waiting", k, h, t)
    /\ completed' = Purged
    /\ charged' = charged \ Forgotten
    /\ UNCHANGED <<cleanups, now>>

-----------------------------------------------------------------------------
(* _runForPrincipal: the provider call, under the lock of the account.      *)

\* asyncio.Lock serves its waiters in order
StartCall(t) ==
    /\ t \in Created /\ tasks[t].pc = "waiting"
    /\ ~Locked(tasks[t].lock)
    /\ \A o \in 1..(t - 1) : tasks[o].lock = tasks[t].lock => tasks[o].pc # "waiting"
    /\ tasks' = [tasks EXCEPT ![t].pc = "calling"]
    /\ charged' = charged \cup {tasks[t].key}
    /\ UNCHANGED <<active, completed, locks, cleanups, callers, now>>

\* mutant: no done callback
EndCallWithoutCallback(t) ==
    /\ t \in Created /\ tasks[t].pc = "calling"
    /\ \E outcome \in Outcomes :
        /\ tasks' = [tasks EXCEPT ![t].pc = "done", ![t].outcome = outcome]
        /\ charged' = IF outcome = "unreplayable" THEN charged \ {tasks[t].key} ELSE charged
    /\ UNCHANGED <<active, completed, locks, cleanups, callers, now>>

\* the provider answers or fails
EndCall(t) ==
    /\ t \in Created /\ tasks[t].pc = "calling"
    /\ \E outcome \in Outcomes :
        /\ tasks' = [tasks EXCEPT ![t].pc = "done", ![t].outcome = outcome]
        /\ charged' = IF outcome = "unreplayable" THEN charged \ {tasks[t].key} ELSE charged
    /\ cleanups' = cleanups \cup {t}
    /\ UNCHANGED <<active, completed, locks, callers, now>>

\* the cleanup task of the done callback
RunCleanup(t) ==
    /\ t \in cleanups
    /\ cleanups' = cleanups \ {t}
    /\ Cleanup(tasks[t].key, t, completed)
    /\ charged' = charged \ Forgotten
    /\ UNCHANGED <<tasks, callers, now>>

-----------------------------------------------------------------------------
(* A waiter.                                                                *)

\* the await returns or raises; the finally clause cleans up
ResumeCaller(c) ==
    /\ callers[c].pc = "waiting"
    /\ Done(callers[c].task)
    /\ callers' = [callers EXCEPT ![c].pc = "answered"]
    /\ Cleanup(callers[c].key, callers[c].task, completed)
    /\ charged' = charged \ Forgotten
    /\ UNCHANGED <<tasks, cleanups, now>>

\* mutant: the task is awaited without asyncio.shield
DisconnectUnshielded(c) ==
    /\ callers[c].pc = "waiting"
    /\ ~Done(callers[c].task)
    /\ callers' = [callers EXCEPT ![c].pc = "gone"]
    /\ tasks' = [tasks EXCEPT ![callers[c].task].pc = "cancelled"]
    /\ UNCHANGED <<active, completed, locks, cleanups, now, charged>>

\* the client is gone: the wait is cancelled, the shielded task is not
Disconnect(c) ==
    /\ callers[c].pc = "waiting"
    /\ callers' = [callers EXCEPT ![c].pc = "gone"]
    /\ IF Done(callers[c].task)
       THEN Cleanup(callers[c].key, callers[c].task, completed)
       ELSE UNCHANGED <<active, completed, locks>>
    /\ charged' = charged \ Forgotten
    /\ UNCHANGED <<tasks, cleanups, now>>

-----------------------------------------------------------------------------
(* Time, the purge every minute, and logout.                                *)

Tick ==
    /\ now < MaxTime
    /\ now' = now + 1
    /\ UNCHANGED <<tasks, active, completed, locks, cleanups, callers, charged>>

PurgeExpired ==
    /\ Purged # completed
    /\ completed' = Purged
    /\ charged' = charged \ Forgotten
    /\ UNCHANGED <<tasks, active, locks, cleanups, callers, now>>

\* clearPrincipal: only what has completed; flights in the air land as usual
ClearPrincipal(p) ==
    /\ \E k \in Keys : PrincipalOf[k] = p /\ completed[k] # NoEntry
    /\ completed' = [k \in Keys |-> IF PrincipalOf[k] = p THEN NoEntry ELSE completed[k]]
    /\ charged' = charged \ Forgotten
    /\ UNCHANGED <<tasks, active, locks, cleanups, callers, now>>

-----------------------------------------------------------------------------
Request(c) ==
    \E k \in Keys, h \in Hashes :
        Replay(c, k, h) \/ Join(c, k, h) \/ Refuse(c, k, h) \/ Launch(c, k, h)

FlightNext ==
    \/ \E c \in Callers : Request(c) \/ ResumeCaller(c) \/ Disconnect(c)
    \/ \E t \in Tasks : StartCall(t) \/ EndCall(t) \/ RunCleanup(t)
    \/ \E p \in Principals : ClearPrincipal(p)
    \/ Tick \/ PurgeExpired

FlightSpec == FlightInit /\ [][FlightNext]_flightVars

\* The loop runs what is ready, and a provider call ends: it has a timeout.
FlightFairness ==
    /\ \A c \in Callers : WF_flightVars(ResumeCaller(c))
    /\ \A t \in Tasks : WF_flightVars(StartCall(t)) /\ WF_flightVars(EndCall(t)) /\ WF_flightVars(RunCleanup(t))
FairFlightSpec == FlightSpec /\ FlightFairness

-----------------------------------------------------------------------------
(* Properties.                                                              *)

FlightTypeOK ==
    /\ tasks \in Seq(TaskRecords) /\ Len(tasks) <= MaxTasks
    /\ active \in [Keys -> Flights]
    /\ completed \in [Keys -> Entries]
    /\ locks \in [Principals -> 0..MaxTasks]
    /\ cleanups \subseteq Tasks
    /\ callers \in [Callers -> CallerRecords]
    /\ now \in 0..MaxTime
    /\ charged \subseteq Keys

\* An account has at most one provider call in progress, although its lock is
\* thrown away and made again as its flights come and go (_runForPrincipal, the
\* last lines of _cleanup).
OneCallPerPrincipal ==
    \A s, t \in Created :
        tasks[s].pc = "calling" /\ tasks[t].pc = "calling"
            /\ PrincipalOf[tasks[s].key] = PrincipalOf[tasks[t].key] => s = t

\* Whoever is answered, by its own flight, a flight it joined or a kept outcome,
\* gets the outcome of a call made for the very request it sent, and that ended.
AnswersMatchRequest ==
    \A c \in Callers : callers[c].pc = "answered" =>
        LET t == callers[c].task
        IN  Done(t) /\ tasks[t].key = callers[c].key /\ tasks[t].hash = callers[c].hash

\* No call is paid twice: while a call of a key is in progress, or its outcome is
\* still within the retry window, no other call starts under that key.  The window
\* ends with the time to live, an eviction, a logout, or an outcome that cannot be
\* replayed.
NoSecondCharge ==
    [][\A t \in Tasks :
        t \in Created /\ tasks[t].pc = "waiting" /\ tasks'[t].pc = "calling"
            => tasks[t].key \notin charged]_flightVars

\* Nothing is left behind in memory: an account has a lock exactly as long as it
\* has a flight, and all its flights hold or wait for that one lock.
LocksMatchFlights ==
    /\ \A p \in Principals :
        locks[p] # None <=> \E k \in ActiveKeys : PrincipalOf[k] = p
    /\ \A k \in ActiveKeys : tasks[active[k].task].lock = locks[PrincipalOf[k]]

\* The flights and the kept outcomes stay within their capacities, and no key has
\* both (execute looks at the kept outcomes first).
WithinCapacity ==
    /\ Cardinality(ActiveKeys) <= MaxActive
    /\ Cardinality({k \in Keys : completed[k] # NoEntry}) <= MaxCompleted
    /\ \A k \in ActiveKeys : completed[k] = NoEntry

\* One provider call at a time per account, because the tables of flights, locks
\* and outcomes tell the same story at every await, within their capacities.
FlightsMatchTables == OneCallPerPrincipal /\ LocksMatchFlights /\ WithinCapacity

\* The tables of a flight match its task, and a caller gets the answer to the request it
\* made (execute, _acquireFlight).
FlightsSound == FlightsMatchTables /\ AnswersMatchRequest

\* Every flight lands and leaves the table, even when all its callers are gone
\* (the done callback).
FlightsDrain ==
    \A t \in Tasks :
        (\E k \in Keys : active[k].task = t) ~> (\A k \in Keys : active[k].task # t)

\* A caller that stays is answered, whatever the other callers of the flight do
\* (asyncio.shield).
StayingCallerAnswered ==
    \A c \in Callers : (callers[c].pc = "waiting") ~> (callers[c].pc \in {"answered", "gone"})

=============================================================================
