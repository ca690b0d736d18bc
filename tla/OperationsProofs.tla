-------------------------- MODULE OperationsProofs --------------------------
(***************************************************************************)
(* Proofs about what surrounds the experiments, and about all of it        *)
(* together as MCOperations composes it.                                   *)
(*                                                                         *)
(* SingleFlight, for any accounts, keys, callers, capacities and           *)
(* lifetimes: one provider call per account at a time, tables that agree,  *)
(* answers that belong to the request, no call paid for twice.             *)
(*                                                                         *)
(* AuditChain, for any accounts, packs, threads and bounds: a stored pack  *)
(* keeps its audit event, and the chains of one process stay valid.        *)
(*                                                                         *)
(* SiteRegistration, for any container networks and numbers of failures    *)
(* and starts: a network that is let through stays let through, and the    *)
(* script ends with everything as it was or as it should be.               *)
(*                                                                         *)
(* ValidationLadder, for any number of levels and pieces of evidence: what *)
(* a level claims rests on evidence, and an invalidation reaches up.       *)
(*                                                                         *)
(* Studies, for any requests, owners, designs and limits: one study runs   *)
(* at a time, the table holds whole studies within its limits, and a study *)
(* that was answered is stored.                                            *)
(***************************************************************************)
EXTENDS MCOperations, SumProofs

-----------------------------------------------------------------------------
(* The result interpretation.                                               *)

KeptKeys == {k \in Keys : completed[k] # NoEntry}

\* A flight in the table is the task of its key, under the lock of its account.
FlightsAreTasks ==
    \A k \in ActiveKeys :
        LET t == active[k].task
        IN  /\ t \in Created /\ tasks[t].key = k /\ tasks[t].hash = active[k].hash
            /\ tasks[t].lock = locks[PrincipalOf[k]]

\* A task that has not ended is in the table: its callers may leave, it may not.
UnendedAreFlights == \A t \in Created : ~Done(t) => active[tasks[t].key].task = t

\* A lock is made for a task of the account that uses it, and held by one task.
LocksAreNamed ==
    \A t \in Created :
        /\ tasks[t].lock \in Created
        /\ PrincipalOf[tasks[tasks[t].lock].key] = PrincipalOf[tasks[t].key]

LocksAreHeldOnce ==
    \A s, t \in Created :
        tasks[s].pc = "calling" /\ tasks[t].pc = "calling" /\ tasks[s].lock = tasks[t].lock
            => s = t

LocksAreUsed ==
    \A p \in Principals : locks[p] # None <=> \E k \in ActiveKeys : PrincipalOf[k] = p

\* What is kept of a key is the outcome of a task of that key that can be told again.
KeptAreOutcomes ==
    \A k \in KeptKeys :
        LET t == completed[k].task
        IN  /\ t \in Created /\ Done(t)
            /\ tasks[t].key = k /\ tasks[t].hash = completed[k].hash

\* A key that is charged is in flight, called and not lost, or its outcome is kept.
ChargedAreHeld ==
    \A k \in charged :
        \/ k \in KeptKeys
        \/ /\ k \in ActiveKeys
           /\ LET t == active[k].task
              IN  tasks[t].pc # "waiting" /\ (Done(t) => Replayable(t))

\* the tables
TableInv ==
    /\ FlightsAreTasks /\ UnendedAreFlights
    /\ LocksAreNamed /\ LocksAreHeldOnce /\ LocksAreUsed
    /\ KeptAreOutcomes /\ ChargedAreHeld
    /\ IsFiniteSet(ActiveKeys) /\ IsFiniteSet(KeptKeys) /\ WithinCapacity

\* who waits for a task
WaitersInv ==
    /\ \A t \in cleanups : t \in Created /\ Done(t)
    /\ \A c \in Callers : callers[c].pc \in {"waiting", "answered"} =>
          LET t == callers[c].task
          IN  /\ t \in Created /\ (callers[c].pc = "answered" => Done(t))
              /\ tasks[t].key = callers[c].key /\ tasks[t].hash = callers[c].hash

FlightInv == FlightTypeOK /\ TableInv /\ WaitersInv

\* what every step finds
LEMMA FlightFacts ==
    ASSUME FlightTypeOK
    PROVE  /\ MaxTasks \in Nat /\ MaxTime \in Nat /\ MaxActive \in Nat /\ MaxCompleted \in Nat
           /\ MaxActive > 0 /\ MaxCompleted > 0 /\ Ttl \in Nat /\ Ttl > 0
           /\ now \in Nat /\ Len(tasks) \in Nat /\ Len(tasks) <= MaxTasks
           /\ Created \subseteq Tasks /\ \A t \in Created : t \in Nat /\ t # None
           /\ \A t \in Created : tasks[t] \in TaskRecords
           /\ \A k \in Keys : PrincipalOf[k] \in Principals
           /\ \A k \in ActiveKeys : /\ active[k] \in [task : Tasks, hash : Hashes]
                                    /\ active[k].task # None
           /\ \A k \in Keys \ ActiveKeys : active[k] = NoFlight /\ active[k].task = None
           /\ \A k \in KeptKeys :
                 completed[k] \in [task : Tasks, hash : Hashes, expiresAt : 1..(MaxTime + Ttl)]
<1>1. /\ MaxTasks \in Nat /\ MaxTime \in Nat /\ MaxActive \in Nat /\ MaxCompleted \in Nat
      /\ MaxActive > 0 /\ MaxCompleted > 0 /\ Ttl \in Nat /\ Ttl > 0
      /\ \A k \in Keys : PrincipalOf[k] \in Principals
  BY BoundAssumption, KeyAssumption
<1>2. /\ now \in Nat /\ Len(tasks) \in Nat /\ Len(tasks) <= MaxTasks
      /\ \A t \in Created : tasks[t] \in TaskRecords
  BY <1>1 DEF FlightTypeOK, Created
<1>3. Created \subseteq Tasks /\ \A t \in Created : t \in Nat /\ t # None
  BY <1>1, <1>2 DEF Created, Tasks, None
<1>4. /\ \A k \in ActiveKeys : active[k] \in [task : Tasks, hash : Hashes]
      /\ \A k \in Keys \ ActiveKeys : active[k] = NoFlight
      /\ \A k \in KeptKeys :
            completed[k] \in [task : Tasks, hash : Hashes, expiresAt : 1..(MaxTime + Ttl)]
  BY DEF FlightTypeOK, ActiveKeys, KeptKeys, Flights, Entries
<1>5. \A k \in ActiveKeys : active[k].task # None
  BY <1>1, <1>4 DEF Tasks, None
<1>6. \A k \in Keys \ ActiveKeys : active[k].task = None
  BY <1>4 DEF NoFlight
<1> QED BY <1>1, <1>2, <1>3, <1>4, <1>5, <1>6

LEMMA OneCall == FlightInv => OneCallPerPrincipal
<1> SUFFICES ASSUME FlightInv, NEW s \in Created, NEW t \in Created,
                    tasks[s].pc = "calling", tasks[t].pc = "calling",
                    PrincipalOf[tasks[s].key] = PrincipalOf[tasks[t].key]
             PROVE  s = t
  BY DEF OneCallPerPrincipal
<1>1. \A u \in Created : tasks[u].pc = "calling"
        => tasks[u].key \in ActiveKeys /\ active[tasks[u].key].task = u
  <2> SUFFICES ASSUME NEW u \in Created, tasks[u].pc = "calling"
               PROVE  tasks[u].key \in ActiveKeys /\ active[tasks[u].key].task = u
    OBVIOUS
  <2>1. tasks[u].key \in Keys /\ u # None
    BY FlightFacts DEF FlightInv, TaskRecords
  <2>2. active[tasks[u].key].task = u
    BY DEF FlightInv, TableInv, UnendedAreFlights, Done
  <2> QED BY <2>1, <2>2, FlightFacts DEF FlightInv
<1>2. tasks[s].lock = tasks[t].lock
  BY <1>1 DEF FlightInv, TableInv, FlightsAreTasks
<1> QED BY <1>2 DEF FlightInv, TableInv, LocksAreHeldOnce

\* The invariant says what the run checks of a state.
LEMMA SoundFromInv == FlightInv => FlightTypeOK /\ FlightsMatchTables /\ AnswersMatchRequest
<1> SUFFICES ASSUME FlightInv PROVE FlightsMatchTables /\ AnswersMatchRequest
  BY DEF FlightInv
<1>1. LocksMatchFlights
  BY DEF LocksMatchFlights, FlightInv, TableInv, LocksAreUsed, FlightsAreTasks
<1>2. AnswersMatchRequest
  BY DEF AnswersMatchRequest, FlightInv, WaitersInv
<1> QED BY <1>1, <1>2, OneCall DEF FlightsMatchTables, FlightInv, TableInv

-----------------------------------------------------------------------------
(* What is kept.                                                            *)

\* Outcomes are only forgotten, and what is forgotten is no longer charged.
LEMMA OutcomesForgotten ==
    ASSUME FlightInv, UNCHANGED <<tasks, active, locks>>,
           completed' \in [Keys -> Entries],
           \A k \in Keys : completed'[k] = completed[k] \/ completed'[k] = NoEntry,
           charged' = charged \ Forgotten
    PROVE  TableInv'
<1> USE DEF FlightInv, TableInv
<1>1. KeptKeys' \subseteq KeptKeys /\ ActiveKeys' = ActiveKeys /\ Created' = Created
      /\ \A t : Done(t)' = Done(t) /\ Replayable(t)' = Replayable(t)
  BY DEF KeptKeys, ActiveKeys, Created, Done, Replayable
<1>2. /\ FlightsAreTasks' /\ UnendedAreFlights'
      /\ LocksAreNamed' /\ LocksAreHeldOnce' /\ LocksAreUsed'
  BY <1>1 DEF FlightsAreTasks, UnendedAreFlights, LocksAreNamed, LocksAreHeldOnce, LocksAreUsed
<1>3. KeptAreOutcomes'
  BY <1>1 DEF KeptAreOutcomes, KeptKeys
<1>4. ChargedAreHeld'
  BY <1>1 DEF ChargedAreHeld, KeptKeys, Forgotten, FlightTypeOK
<1>5. IsFiniteSet(ActiveKeys') /\ IsFiniteSet(KeptKeys')
      /\ Cardinality(KeptKeys') <= Cardinality(KeptKeys)
  BY <1>1, FS_Subset
<1>6. WithinCapacity'
  <2>1. Cardinality(KeptKeys') \in Nat /\ Cardinality(KeptKeys) \in Nat
    BY <1>5, FS_CardinalityType
  <2>2. Cardinality(KeptKeys) <= MaxCompleted
    BY DEF WithinCapacity, KeptKeys
  <2>3. Cardinality(KeptKeys') <= MaxCompleted
    BY <1>5, <2>1, <2>2, FlightFacts
  <2> QED BY <1>1, <2>3 DEF WithinCapacity, KeptKeys, ActiveKeys
<1> QED BY <1>1, <1>2, <1>3, <1>4, <1>5, <1>6

LEMMA PurgedFacts ==
    ASSUME FlightTypeOK
    PROVE  /\ Purged \in [Keys -> Entries]
           /\ \A k \in Keys : Purged[k] = completed[k] \/ Purged[k] = NoEntry
BY DEF FlightTypeOK, Purged, Entries

\* One more element makes a finite set at most one larger.
LEMMA OneMore ==
    ASSUME NEW S, IsFiniteSet(S), NEW x
    PROVE  /\ IsFiniteSet(S \cup {x}) /\ Cardinality(S) \in Nat
           /\ Cardinality(S \cup {x}) \in Nat
           /\ Cardinality(S \cup {x}) <= Cardinality(S) + 1
BY FS_AddElement, FS_CardinalityType

\* What the capacity leaves has room for one more.
LEMMA TrimmedFacts ==
    ASSUME FlightInv, NEW entries \in [Keys -> Entries],
           \A k \in Keys : entries[k] = completed[k] \/ entries[k] = NoEntry,
           NEW kept \in Trimmed(entries)
    PROVE  /\ kept \in [Keys -> Entries]
           /\ \A k \in Keys : kept[k] = completed[k] \/ kept[k] = NoEntry
           /\ IsFiniteSet({k \in Keys : kept[k] # NoEntry})
           /\ Cardinality({k \in Keys : kept[k] # NoEntry}) + 1 <= MaxCompleted
<1> DEFINE held == {k \in Keys : entries[k] # NoEntry}
           left == {k \in Keys : kept[k] # NoEntry}
<1>1. IsFiniteSet(held) /\ Cardinality(held) \in Nat /\ Cardinality(held) <= MaxCompleted
  <2>1. IsFiniteSet(KeptKeys) /\ Cardinality(KeptKeys) <= MaxCompleted
    BY DEF FlightInv, TableInv, WithinCapacity, KeptKeys
  <2>2. held \subseteq KeptKeys
    BY DEF KeptKeys
  <2>3. IsFiniteSet(held) /\ Cardinality(held) <= Cardinality(KeptKeys)
    BY <2>1, <2>2, FS_Subset
  <2>4. Cardinality(held) \in Nat /\ Cardinality(KeptKeys) \in Nat
    BY <2>1, <2>3, FS_CardinalityType
  <2> QED BY <2>1, <2>3, <2>4, FlightFacts DEF FlightInv
<1>2. CASE Cardinality(held) < MaxCompleted
  <2>1. kept = entries
    BY <1>2 DEF Trimmed
  <2> QED BY <1>1, <1>2, <2>1, FlightFacts DEF FlightInv
<1>3. CASE ~(Cardinality(held) < MaxCompleted)
  <2>1. PICK k \in held : kept = [entries EXCEPT ![k] = NoEntry]
    BY <1>3 DEF Trimmed
  <2>2. kept \in [Keys -> Entries] /\ left = held \ {k}
    BY <2>1 DEF Entries
  <2> HIDE DEF held, left
  <2>3. IsFiniteSet(left) /\ Cardinality(left) \in Nat /\ Cardinality(left) = Cardinality(held) - 1
    BY <1>1, <2>2, FS_RemoveElement, FS_CardinalityType
  <2>4. Cardinality(left) + 1 <= MaxCompleted
    BY <1>1, <2>3, FlightFacts DEF FlightInv
  <2> QED BY <2>1, <2>2, <2>3, <2>4 DEF left
<1> QED BY <1>2, <1>3

\* When the last flight of an account goes, so does its lock, and only then.
LEMMA LockIsUnused ==
    ASSUME FlightInv, NEW k \in ActiveKeys, Done(active[k].task)
    PROVE  LockUnused(k) <=> \A o \in ActiveKeys \ {k} : PrincipalOf[o] # PrincipalOf[k]
<1> SUFFICES ASSUME Locked(locks[PrincipalOf[k]])
             PROVE  \E o \in ActiveKeys \ {k} : PrincipalOf[o] = PrincipalOf[k]
  BY DEF LockUnused
<1>1. PICK u \in Created : tasks[u].lock = locks[PrincipalOf[k]] /\ tasks[u].pc = "calling"
  BY DEF Locked
<1>2. u # None /\ tasks[u].key \in Keys
  BY FlightFacts DEF FlightInv, TaskRecords
<1>3. active[tasks[u].key].task = u /\ tasks[u].key \in ActiveKeys
  <2>1. active[tasks[u].key].task = u
    BY <1>1 DEF FlightInv, TableInv, UnendedAreFlights, Done
  <2> QED BY <1>2, <2>1, FlightFacts DEF FlightInv
<1>4. tasks[u].key # k
  BY <1>1, <1>3 DEF Done
<1>5. /\ tasks[active[k].task].lock = tasks[u].lock /\ tasks[active[k].task].key = k
      /\ active[k].task \in Created
  BY <1>1 DEF FlightInv, TableInv, FlightsAreTasks
<1>6. PrincipalOf[tasks[u].key] = PrincipalOf[k]
  BY <1>5 DEF FlightInv, TableInv, LocksAreNamed
<1> QED BY <1>3, <1>4, <1>6

\* The cleanup of a task keeps the tables in agreement, whichever coroutine runs it
\* and however often.
LEMMA CleanupKeeps ==
    ASSUME FlightInv, NEW k \in Keys, NEW t \in Created, Done(t), tasks[t].key = k,
           NEW entries \in [Keys -> Entries],
           \A j \in Keys : entries[j] = completed[j] \/ entries[j] = NoEntry,
           Cleanup(k, t, entries), UNCHANGED <<tasks, now>>, charged' = charged \ Forgotten
    PROVE  /\ TableInv' /\ active' \in [Keys -> Flights] /\ completed' \in [Keys -> Entries]
           /\ locks' \in [Principals -> 0..MaxTasks]
<1> USE DEF FlightInv
<1>1. CASE ~IsFlightOf(k, t)
  <2>1. active' = active /\ completed' = entries /\ locks' = locks
    BY <1>1 DEF Cleanup
  <2>2. TableInv'
    BY <2>1, OutcomesForgotten
  <2> QED BY <2>1, <2>2 DEF FlightTypeOK
<1>2. CASE IsFlightOf(k, t)
  <2> DEFINE new == [task |-> t, hash |-> active[k].hash, expiresAt |-> now + Ttl]
             p == PrincipalOf[k]
  <2>1. /\ active' = [active EXCEPT ![k] = NoFlight]
        /\ IF ~Replayable(t) THEN completed' = entries
           ELSE \E kept \in Trimmed(entries) : completed' = [kept EXCEPT ![k] = new]
        /\ locks' = IF LockUnused(k) THEN [locks EXCEPT ![p] = None] ELSE locks
    BY <1>2 DEF Cleanup
  <2>2. k \in ActiveKeys /\ active[k].task = t /\ k \notin KeptKeys /\ p \in Principals
    BY <1>2, FlightFacts DEF IsFlightOf, TableInv, WithinCapacity, KeptKeys
  <2>3. /\ active' \in [Keys -> Flights] /\ ActiveKeys' = ActiveKeys \ {k}
        /\ \A j \in ActiveKeys' : active'[j] = active[j]
        /\ \A j \in Keys \ {k} : active'[j] = active[j]
    BY <2>1 DEF FlightTypeOK, ActiveKeys, Flights
  <2>4. new \in [task : Tasks, hash : Hashes, expiresAt : 1..(MaxTime + Ttl)]
        /\ new \in Entries /\ new # NoEntry
    <3>1. now + Ttl \in 1..(MaxTime + Ttl) /\ now + Ttl # None
      BY FlightFacts DEF FlightTypeOK, None
    <3>2. t \in Tasks /\ active[k].hash \in Hashes
      BY <2>2, FlightFacts
    <3> HIDE DEF new
    <3>3. new = [task |-> t, hash |-> active[k].hash, expiresAt |-> now + Ttl]
      BY DEF new
    <3>4. new \in [task : Tasks, hash : Hashes, expiresAt : 1..(MaxTime + Ttl)]
      BY <3>1, <3>2, <3>3
    <3>5. new # NoEntry
      BY <3>1, <3>3 DEF NoEntry
    <3> QED BY <3>4, <3>5 DEF Entries
  <2> HIDE DEF new
  <2>5. /\ completed' \in [Keys -> Entries]
        /\ \A j \in Keys \ {k} : completed'[j] = completed[j] \/ completed'[j] = NoEntry
        /\ Replayable(t) => completed'[k] = new
        /\ ~Replayable(t) => completed'[k] = NoEntry
        /\ IsFiniteSet(KeptKeys') /\ Cardinality(KeptKeys') <= MaxCompleted
    <3>1. CASE ~Replayable(t)
      <4>1. completed' = entries
        BY <2>1, <3>1
      <4>2. KeptKeys' \subseteq KeptKeys /\ completed'[k] = NoEntry
        BY <2>2, <4>1 DEF KeptKeys
      <4>3. IsFiniteSet(KeptKeys) /\ Cardinality(KeptKeys) <= MaxCompleted
        BY DEF TableInv, WithinCapacity, KeptKeys
      <4>4. IsFiniteSet(KeptKeys') /\ Cardinality(KeptKeys') <= Cardinality(KeptKeys)
        BY <4>2, <4>3, FS_Subset
      <4>5. Cardinality(KeptKeys') \in Nat /\ Cardinality(KeptKeys) \in Nat
        BY <4>3, <4>4, FS_CardinalityType
      <4> QED BY <3>1, <4>1, <4>2, <4>3, <4>4, <4>5, FlightFacts
    <3>2. CASE Replayable(t)
      <4>1. PICK kept \in Trimmed(entries) : completed' = [kept EXCEPT ![k] = new]
        BY <2>1, <3>2
      <4> DEFINE left == {j \in Keys : kept[j] # NoEntry}
      <4>2. /\ kept \in [Keys -> Entries]
            /\ \A j \in Keys : kept[j] = completed[j] \/ kept[j] = NoEntry
            /\ IsFiniteSet(left) /\ Cardinality(left) + 1 <= MaxCompleted
        BY TrimmedFacts
      <4>3. /\ completed' \in [Keys -> Entries] /\ completed'[k] = new
            /\ \A j \in Keys \ {k} : completed'[j] = completed[j] \/ completed'[j] = NoEntry
        BY <2>4, <4>1, <4>2
      <4>4. KeptKeys' \subseteq left \cup {k}
        BY <4>1, <4>2 DEF KeptKeys
      <4> HIDE DEF left
      <4>5. /\ IsFiniteSet(left \cup {k}) /\ Cardinality(left) \in Nat
            /\ Cardinality(left \cup {k}) <= Cardinality(left) + 1
        <5>1. IsFiniteSet(left)
          BY <4>2 DEF left
        <5> QED BY <5>1, OneMore
      <4>6. IsFiniteSet(KeptKeys') /\ Cardinality(KeptKeys') <= Cardinality(left \cup {k})
        BY <4>4, <4>5, FS_Subset
      <4>7. Cardinality(KeptKeys') \in Nat /\ Cardinality(left \cup {k}) \in Nat
        BY <4>5, <4>6, FS_CardinalityType
      <4>8. Cardinality(KeptKeys') <= MaxCompleted
        <5>1. Cardinality(left) + 1 <= MaxCompleted
          BY <4>2 DEF left
        <5> QED BY <4>5, <4>6, <4>7, <5>1, FlightFacts
      <4> QED BY <3>2, <4>3, <4>6, <4>8
    <3> QED BY <3>1, <3>2
  <2>6. /\ locks' \in [Principals -> 0..MaxTasks]
        /\ \A q \in Principals \ {p} : locks'[q] = locks[q]
        /\ IF \E o \in ActiveKeys \ {k} : PrincipalOf[o] = p
           THEN locks'[p] = locks[p] ELSE locks'[p] = None
    <3>1. LockUnused(k) <=> \A o \in ActiveKeys \ {k} : PrincipalOf[o] # p
      BY <2>2, LockIsUnused
    <3>2. None \in 0..MaxTasks
      BY FlightFacts DEF None
    <3> QED BY <2>1, <2>2, <3>1, <3>2 DEF FlightTypeOK
  <2>7. Created' = Created /\ \A u : Done(u)' = Done(u) /\ Replayable(u)' = Replayable(u)
    BY DEF Created, Done, Replayable
  <2>8. FlightsAreTasks'
    <3> SUFFICES ASSUME NEW j \in ActiveKeys'
                 PROVE  LET u == active'[j].task
                        IN  /\ u \in Created /\ tasks[u].key = j
                            /\ tasks[u].hash = active'[j].hash
                            /\ tasks[u].lock = locks'[PrincipalOf[j]]
      BY <2>7 DEF FlightsAreTasks
    <3>1. active'[j] = active[j] /\ j \in ActiveKeys \ {k} /\ PrincipalOf[j] \in Principals
      BY <2>3, FlightFacts DEF ActiveKeys
    <3>2. locks'[PrincipalOf[j]] = locks[PrincipalOf[j]]
      BY <2>6, <3>1
    <3> QED BY <3>1, <3>2 DEF FlightsAreTasks, TableInv
  <2>9. UnendedAreFlights'
    <3> SUFFICES ASSUME NEW u \in Created, ~Done(u) PROVE active'[tasks[u].key].task = u
      BY <2>7 DEF UnendedAreFlights
    <3>1. active[tasks[u].key].task = u /\ tasks[u].key \in Keys
      BY FlightFacts DEF TableInv, UnendedAreFlights, TaskRecords
    <3>2. tasks[u].key # k
      BY <2>2, <3>1
    <3> QED BY <2>3, <3>1, <3>2
  <2>10. LocksAreNamed' /\ LocksAreHeldOnce'
    BY <2>7 DEF TableInv, LocksAreNamed, LocksAreHeldOnce
  <2>11. LocksAreUsed'
    BY <2>2, <2>3, <2>6 DEF TableInv, LocksAreUsed
  <2>12. KeptAreOutcomes'
    <3>1. \A j \in KeptKeys' : IF j = k THEN completed'[j] = new ELSE completed'[j] = completed[j] /\ j \in KeptKeys
      BY <2>5 DEF KeptKeys
    <3>2. new.task = t /\ new.hash = tasks[t].hash
      BY <2>2 DEF new, TableInv, FlightsAreTasks
    <3> QED BY <2>7, <3>1, <3>2 DEF TableInv, KeptAreOutcomes
  <2>13. ChargedAreHeld'
    <3> SUFFICES ASSUME NEW j \in charged, j \notin Forgotten, j \notin KeptKeys'
                 PROVE  /\ j \in ActiveKeys'
                        /\ LET u == active'[j].task
                           IN  tasks[u].pc # "waiting" /\ (Done(u) => Replayable(u))
      BY <2>7 DEF ChargedAreHeld
    <3>1. j \in Keys
      BY DEF FlightTypeOK
    <3>2. j \notin KeptKeys
      BY <3>1 DEF Forgotten, KeptKeys
    <3>3. /\ j \in ActiveKeys
          /\ LET u == active[j].task IN tasks[u].pc # "waiting" /\ (Done(u) => Replayable(u))
      BY <3>2 DEF TableInv, ChargedAreHeld
    <3>4. j # k
      BY <2>2, <2>4, <2>5, <3>1, <3>3 DEF KeptKeys
    <3> QED BY <2>3, <3>3, <3>4
  <2>14. IsFiniteSet(ActiveKeys') /\ WithinCapacity'
    <3>1. IsFiniteSet(ActiveKeys) /\ Cardinality(ActiveKeys) <= MaxActive
      BY DEF TableInv, WithinCapacity
    <3>2. IsFiniteSet(ActiveKeys') /\ Cardinality(ActiveKeys') <= Cardinality(ActiveKeys)
      BY <2>3, <3>1, FS_Subset
    <3>3. Cardinality(ActiveKeys') \in Nat /\ Cardinality(ActiveKeys) \in Nat
      BY <3>1, <3>2, FS_CardinalityType
    <3>4. Cardinality(ActiveKeys') <= MaxActive
      BY <3>1, <3>2, <3>3, FlightFacts
    <3>5. \A j \in ActiveKeys' : completed'[j] = NoEntry
      BY <2>3, <2>5, FlightFacts DEF TableInv, WithinCapacity, ActiveKeys
    <3> QED BY <2>5, <3>2, <3>4, <3>5 DEF WithinCapacity, KeptKeys
  <2> QED BY <2>3, <2>5, <2>6, <2>8, <2>9, <2>10, <2>11, <2>12, <2>13, <2>14 DEF TableInv
<1> QED BY <1>1, <1>2

-----------------------------------------------------------------------------
(* Who waits.                                                               *)

\* what a caller record claims of the tasks
Claims(r) ==
    r.pc \in {"waiting", "answered"} =>
        LET t == r.task
        IN  /\ t \in Created /\ (r.pc = "answered" => Done(t))
            /\ tasks[t].key = r.key /\ tasks[t].hash = r.hash

\* Tasks are added, and end, but stay what they are; then claims stay true.
TasksGrow ==
    /\ Created \subseteq Created'
    /\ \A t \in Created : /\ tasks'[t].key = tasks[t].key /\ tasks'[t].hash = tasks[t].hash
                          /\ Done(t) => tasks'[t].pc = "done"

LEMMA WaitersKeep ==
    ASSUME FlightInv, TasksGrow,
           \A t \in cleanups' : t \in cleanups \/ (t \in Created' /\ tasks'[t].pc = "done"),
           callers' \in [Callers -> CallerRecords],
           \A c \in Callers : callers'[c] = callers[c] \/ Claims(callers[c])'
    PROVE  WaitersInv'
<1>1. \A t \in cleanups' : t \in Created' /\ Done(t)'
  BY DEF FlightInv, WaitersInv, TasksGrow, Done
<1>2. \A c \in Callers : Claims(callers[c])
  BY DEF FlightInv, WaitersInv, Claims
<1>3. \A c \in Callers : callers'[c] = callers[c] => Claims(callers[c])'
  BY <1>2 DEF TasksGrow, Claims, Done
<1>4. \A c \in Callers : Claims(callers[c])'
  BY <1>3
<1> QED BY <1>1, <1>4 DEF WaitersInv, Claims

LEMMA TasksStay == ASSUME UNCHANGED tasks PROVE TasksGrow /\ Created' = Created
BY DEF TasksGrow, Created, Done

LEMMA BecameFacts ==
    ASSUME FlightTypeOK, NEW c \in Callers, NEW k \in Keys, NEW h \in Hashes, NEW t \in 0..MaxTasks,
           NEW pc \in {"waiting", "answered", "conflict", "busy"}, Became(c, pc, k, h, t)
    PROVE  /\ callers' \in [Callers -> CallerRecords]
           /\ callers'[c] = [pc |-> pc, key |-> k, hash |-> h, task |-> t]
           /\ \A d \in Callers \ {c} : callers'[d] = callers[d]
BY DEF FlightTypeOK, Became, CallerRecords

-----------------------------------------------------------------------------
(* The steps.                                                               *)

\* no task starts a provider call
NoStart == \A t \in Tasks : t \in Created /\ tasks[t].pc = "waiting" => tasks'[t].pc # "calling"

FlightStep ==
    /\ FlightInv'
    /\ \A t \in Tasks : t \in Created /\ tasks[t].pc = "waiting" /\ tasks'[t].pc = "calling"
         => tasks[t].key \notin charged

LEMMA TypesOfTables ==
    ASSUME FlightInv, UNCHANGED <<tasks, now>>, active' \in [Keys -> Flights],
           completed' \in [Keys -> Entries], locks' \in [Principals -> 0..MaxTasks],
           cleanups' \subseteq cleanups, callers' \in [Callers -> CallerRecords],
           charged' \subseteq charged
    PROVE  FlightTypeOK' /\ NoStart
BY DEF FlightInv, FlightTypeOK, NoStart

\* A step that touches no task, and leaves the tables in agreement.
LEMMA QuietStep ==
    ASSUME FlightInv, UNCHANGED <<tasks, now>>, TableInv',
           active' \in [Keys -> Flights],
           completed' \in [Keys -> Entries], locks' \in [Principals -> 0..MaxTasks],
           cleanups' \subseteq cleanups, callers' \in [Callers -> CallerRecords],
           charged' \subseteq charged,
           \A c \in Callers : callers'[c] = callers[c] \/ Claims(callers'[c])
    PROVE  FlightStep
<1>1. FlightTypeOK' /\ NoStart
  BY TypesOfTables
<1>2. \A c \in Callers : Claims(callers'[c]) => Claims(callers[c])'
  BY DEF Claims, Created, Done
<1>3. WaitersInv'
  BY <1>2, TasksStay, WaitersKeep
<1> QED BY <1>1, <1>3 DEF FlightStep, FlightInv, NoStart

LEMMA ForgetStep ==
    ASSUME FlightInv,
           \/ PurgeExpired
           \/ \E p \in Principals : ClearPrincipal(p)
    PROVE  FlightStep
<1>1. /\ completed' \in [Keys -> Entries]
      /\ \A k \in Keys : completed'[k] = completed[k] \/ completed'[k] = NoEntry
  <2>1. CASE PurgeExpired
    BY <2>1, PurgedFacts DEF PurgeExpired, FlightInv
  <2>2. CASE \E p \in Principals : ClearPrincipal(p)
    BY <2>2 DEF ClearPrincipal, FlightInv, FlightTypeOK, Entries
  <2> QED BY <2>1, <2>2
<1>2. UNCHANGED <<tasks, active, locks, cleanups, callers, now>> /\ charged' = charged \ Forgotten
  BY DEF PurgeExpired, ClearPrincipal
<1>3. TableInv'
  BY <1>1, <1>2, OutcomesForgotten
<1> QED BY <1>1, <1>2, <1>3, QuietStep DEF FlightInv, FlightTypeOK

LEMMA ReplayStep ==
    ASSUME FlightInv, NEW c \in Callers, NEW k \in Keys, NEW h \in Hashes, Replay(c, k, h)
    PROVE  FlightStep
<1> DEFINE pc == IF Purged[k].hash = h THEN "answered" ELSE "conflict"
           t == Purged[k].task
<1>1. /\ completed' = Purged /\ charged' = charged \ Forgotten
      /\ UNCHANGED <<tasks, active, locks, cleanups, now>>
      /\ Purged[k] # NoEntry /\ Became(c, pc, k, h, t)
  BY DEF Replay
<1>2. /\ Purged \in [Keys -> Entries] /\ k \in KeptKeys /\ Purged[k] = completed[k]
      /\ \A j \in Keys : Purged[j] = completed[j] \/ Purged[j] = NoEntry
  BY <1>1, PurgedFacts DEF FlightInv, KeptKeys
<1>3. TableInv'
  BY <1>1, <1>2, OutcomesForgotten
<1>4. t \in Created /\ Done(t) /\ tasks[t].key = k /\ tasks[t].hash = Purged[k].hash
  BY <1>2 DEF FlightInv, TableInv, KeptAreOutcomes
<1>5. t \in 0..MaxTasks
  BY <1>4, FlightFacts DEF FlightInv, Tasks
<1>6. /\ callers' \in [Callers -> CallerRecords]
      /\ callers'[c] = [pc |-> pc, key |-> k, hash |-> h, task |-> t]
      /\ \A d \in Callers \ {c} : callers'[d] = callers[d]
  BY <1>1, <1>5, BecameFacts DEF FlightInv
<1>7. Claims(callers'[c])
  BY <1>4, <1>6 DEF Claims
<1> QED BY <1>1, <1>2, <1>3, <1>6, <1>7, QuietStep DEF FlightInv, FlightTypeOK

LEMMA RefuseStep ==
    ASSUME FlightInv, NEW c \in Callers, NEW k \in Keys, NEW h \in Hashes, Refuse(c, k, h)
    PROVE  FlightStep
<1>1. /\ completed' = Purged /\ charged' = charged \ Forgotten
      /\ UNCHANGED <<tasks, active, locks, cleanups, now>>
      /\ Became(c, "busy", k, h, None)
  BY DEF Refuse
<1>2. TableInv'
  BY <1>1, PurgedFacts, OutcomesForgotten DEF FlightInv
<1>3. None \in 0..MaxTasks
  BY FlightFacts DEF FlightInv, None
<1>4. /\ callers' \in [Callers -> CallerRecords]
      /\ callers'[c] = [pc |-> "busy", key |-> k, hash |-> h, task |-> None]
      /\ \A d \in Callers \ {c} : callers'[d] = callers[d]
  BY <1>1, <1>3, BecameFacts DEF FlightInv
<1>5. Claims(callers'[c])
  BY <1>4 DEF Claims
<1> QED BY <1>1, <1>2, <1>4, <1>5, PurgedFacts, QuietStep DEF FlightInv, FlightTypeOK

LEMMA JoinStep ==
    ASSUME FlightInv, NEW c \in Callers, NEW k \in Keys, NEW h \in Hashes, Join(c, k, h)
    PROVE  FlightStep
<1> DEFINE t == active[k].task
<1>1. k \in ActiveKeys /\ charged' = charged \ Forgotten /\ UNCHANGED <<tasks, cleanups, now>>
  BY DEF Join, ActiveKeys
<1>2. t \in Created /\ tasks[t].key = k /\ tasks[t].hash = active[k].hash /\ t \in 0..MaxTasks
  BY <1>1, FlightFacts DEF FlightInv, TableInv, FlightsAreTasks, Tasks
<1>3. /\ Purged \in [Keys -> Entries]
      /\ \A j \in Keys : Purged[j] = completed[j] \/ Purged[j] = NoEntry
  BY PurgedFacts DEF FlightInv
<1>4. CASE active[k].hash = h /\ Done(t)
  <2>1. Became(c, "answered", k, h, t) /\ Cleanup(k, t, Purged)
    BY <1>4 DEF Join
  <2>2. /\ TableInv' /\ active' \in [Keys -> Flights] /\ completed' \in [Keys -> Entries]
        /\ locks' \in [Principals -> 0..MaxTasks]
    BY <1>1, <1>2, <1>3, <1>4, <2>1, CleanupKeeps
  <2>3. /\ callers' \in [Callers -> CallerRecords]
        /\ callers'[c] = [pc |-> "answered", key |-> k, hash |-> h, task |-> t]
        /\ \A d \in Callers \ {c} : callers'[d] = callers[d]
    BY <1>2, <2>1, BecameFacts DEF FlightInv
  <2>4. Claims(callers'[c])
    BY <1>2, <1>4, <2>3 DEF Claims
  <2> QED BY <1>1, <2>2, <2>3, <2>4, QuietStep
<1>5. CASE ~(active[k].hash = h /\ Done(t))
  <2>1. PICK pc \in {"waiting", "conflict"}, u \in {t, None} :
          /\ Became(c, pc, k, h, u) /\ completed' = Purged /\ UNCHANGED <<active, locks>>
          /\ pc = "waiting" => active[k].hash = h /\ u = t
    BY <1>5 DEF Join
  <2>2. TableInv'
    BY <1>1, <1>3, <2>1, OutcomesForgotten
  <2>3. u \in 0..MaxTasks
    BY <1>2, FlightFacts DEF FlightInv, None
  <2>4. /\ callers' \in [Callers -> CallerRecords]
        /\ callers'[c] = [pc |-> pc, key |-> k, hash |-> h, task |-> u]
        /\ \A d \in Callers \ {c} : callers'[d] = callers[d]
    <3>1. CASE pc = "waiting"
      BY <2>1, <2>3, <3>1, BecameFacts DEF FlightInv
    <3>2. CASE pc = "conflict"
      BY <2>1, <2>3, <3>2, BecameFacts DEF FlightInv
    <3> QED BY <3>1, <3>2
  <2>5. Claims(callers'[c])
    BY <1>2, <2>1, <2>4 DEF Claims
  <2> QED BY <1>1, <1>3, <2>1, <2>2, <2>4, <2>5, QuietStep DEF FlightInv, FlightTypeOK
<1> QED BY <1>4, <1>5

LEMMA RunCleanupStep ==
    ASSUME FlightInv, NEW t \in Tasks, RunCleanup(t) PROVE FlightStep
<1>1. /\ t \in Created /\ Done(t) /\ tasks[t].key \in Keys /\ cleanups' \subseteq cleanups
      /\ Cleanup(tasks[t].key, t, completed) /\ charged' = charged \ Forgotten
      /\ UNCHANGED <<tasks, callers, now>>
  BY FlightFacts DEF RunCleanup, FlightInv, WaitersInv, TaskRecords
<1>2. /\ TableInv' /\ active' \in [Keys -> Flights] /\ completed' \in [Keys -> Entries]
      /\ locks' \in [Principals -> 0..MaxTasks]
  BY <1>1, CleanupKeeps DEF FlightInv, FlightTypeOK
<1> QED BY <1>1, <1>2, QuietStep DEF FlightInv, FlightTypeOK

LEMMA LeaveSteps ==
    ASSUME FlightInv, NEW c \in Callers, ResumeCaller(c) \/ Disconnect(c)
    PROVE  FlightStep
<1> DEFINE t == callers[c].task
           k == callers[c].key
<1>1. /\ callers[c].pc = "waiting" /\ charged' = charged \ Forgotten
      /\ UNCHANGED <<tasks, cleanups, now>>
      /\ IF Done(t) THEN Cleanup(k, t, completed) ELSE UNCHANGED <<active, completed, locks>>
      /\ \E pc \in {"answered", "gone"} :
            /\ callers' = [callers EXCEPT ![c].pc = pc]
            /\ pc = "answered" => Done(t)
  BY DEF ResumeCaller, Disconnect
<1>2. /\ callers[c] \in [pc : {"waiting", "answered", "conflict", "busy", "gone"},
                         key : Keys, hash : Hashes, task : 0..MaxTasks]
      /\ t \in Created /\ tasks[t].key = k /\ tasks[t].hash = callers[c].hash
  BY <1>1 DEF FlightInv, FlightTypeOK, CallerRecords, Idle, WaitersInv
<1>3. PICK pc \in {"answered", "gone"} :
         callers' = [callers EXCEPT ![c].pc = pc] /\ (pc = "answered" => Done(t))
  BY <1>1
<1> DEFINE new == [callers[c] EXCEPT !.pc = pc]
<1>4. /\ new \in CallerRecords /\ new.pc = pc /\ new.task = t /\ new.key = k
      /\ new.hash = callers[c].hash
  BY <1>2 DEF CallerRecords
<1>5. callers' = [callers EXCEPT ![c] = new]
  BY <1>3
<1> HIDE DEF new, t, k
<1>6. /\ callers' \in [Callers -> CallerRecords] /\ callers'[c] = new
      /\ \A d \in Callers \ {c} : callers'[d] = callers[d]
  BY <1>4, <1>5 DEF FlightInv, FlightTypeOK
<1>7. Claims(callers'[c])
  BY <1>2, <1>3, <1>4, <1>6 DEF Claims
<1>8. /\ TableInv' /\ active' \in [Keys -> Flights] /\ completed' \in [Keys -> Entries]
      /\ locks' \in [Principals -> 0..MaxTasks]
  <2>1. k \in Keys
    BY <1>2 DEF k
  <2>2. CASE Done(t)
    BY <1>1, <1>2, <2>1, <2>2, CleanupKeeps DEF FlightInv, FlightTypeOK
  <2>3. CASE ~Done(t)
    BY <1>1, <2>3, OutcomesForgotten DEF FlightInv, FlightTypeOK
  <2> QED BY <2>2, <2>3
<1> QED BY <1>1, <1>6, <1>7, <1>8, QuietStep

\* A launch puts a task behind the others, into the table, under the lock of the
\* account, which is made for it when the account has no other flight.
LEMMA LaunchStep ==
    ASSUME FlightInv, NEW c \in Callers, NEW k \in Keys, NEW h \in Hashes, Launch(c, k, h)
    PROVE  FlightStep
<1> DEFINE t == Len(tasks) + 1
           p == PrincipalOf[k]
           lock == IF locks[p] = None THEN t ELSE locks[p]
           task == [pc |-> "waiting", key |-> k, hash |-> h, lock |-> lock, outcome |-> "pending"]
           flight == [task |-> t, hash |-> h]
<1> USE DEF FlightInv
<1>1. /\ active[k] = NoFlight /\ Purged[k] = NoEntry /\ Len(tasks) < MaxTasks
      /\ Cardinality(ActiveKeys) < MaxActive
      /\ locks' = [locks EXCEPT ![p] = lock] /\ tasks' = Append(tasks, task)
      /\ active' = [active EXCEPT ![k] = flight] /\ Became(c, "waiting", k, h, t)
      /\ completed' = Purged /\ charged' = charged \ Forgotten /\ UNCHANGED <<cleanups, now>>
      /\ Cardinality(ActiveKeys) \in Nat
  <2>1. Cardinality(ActiveKeys) \in Nat /\ MaxActive \in Nat
    BY FlightFacts, FS_CardinalityType DEF TableInv
  <2> QED BY <2>1 DEF Launch, Full
<1>2. /\ t \in Tasks /\ t # None /\ t \in 0..MaxTasks /\ t \notin Created /\ p \in Principals
      /\ k \notin ActiveKeys
  BY <1>1, FlightFacts DEF Tasks, None, Created, ActiveKeys
<1>3. lock \in Tasks /\ lock # None /\ (locks[p] # None => lock = locks[p])
      /\ (locks[p] = None => lock = t)
  BY <1>2, FlightFacts DEF FlightTypeOK, Tasks, None
<1>4. /\ task \in TaskRecords /\ task.pc = "waiting" /\ task.key = k /\ task.hash = h
      /\ task.lock = lock
  BY <1>3 DEF TaskRecords
<1>5. /\ flight \in Flights /\ flight # NoFlight /\ flight.task = t /\ flight.hash = h
  BY <1>2 DEF Flights, NoFlight
<1> HIDE DEF task, flight, lock
<1>6. /\ tasks' \in Seq(TaskRecords) /\ Len(tasks') = t /\ tasks'[t] = task
      /\ Created' = Created \cup {t} /\ \A u \in Created : tasks'[u] = tasks[u]
      /\ Len(tasks') <= MaxTasks
  <2>1. tasks \in Seq(TaskRecords) /\ Len(tasks) \in Nat /\ MaxTasks \in Nat
    BY FlightFacts DEF FlightTypeOK
  <2>2. /\ tasks' \in Seq(TaskRecords) /\ Len(tasks') = t /\ tasks'[t] = task
        /\ \A u \in 1..Len(tasks) : tasks'[u] = tasks[u]
    BY <1>1, <1>4, <2>1, AppendProperties
  <2>3. 1..t = (1..Len(tasks)) \cup {t}
    BY <2>1
  <2> QED BY <1>1, <2>1, <2>2, <2>3 DEF Created
<1> HIDE DEF t
<1>7. /\ active' \in [Keys -> Flights] /\ active'[k] = flight
      /\ \A j \in Keys \ {k} : active'[j] = active[j]
      /\ ActiveKeys' = ActiveKeys \cup {k}
  BY <1>1, <1>5 DEF FlightTypeOK, ActiveKeys
<1>8. /\ locks' \in [Principals -> 0..MaxTasks] /\ locks'[p] = lock
      /\ \A q \in Principals \ {p} : locks'[q] = locks[q]
  BY <1>1, <1>2, <1>3, FlightFacts DEF FlightTypeOK, Tasks
<1>9. /\ completed' \in [Keys -> Entries] /\ completed'[k] = NoEntry
      /\ \A j \in Keys : completed'[j] = completed[j] \/ completed'[j] = NoEntry
      /\ KeptKeys' \subseteq KeptKeys
  BY <1>1, PurgedFacts DEF KeptKeys
<1>10. \A j \in ActiveKeys : PrincipalOf[j] = p => lock = locks[p]
  BY <1>2, <1>3 DEF TableInv, LocksAreUsed
<1>11. FlightsAreTasks'
  <2> SUFFICES ASSUME NEW j \in ActiveKeys'
               PROVE  LET u == active'[j].task
                      IN  /\ u \in Created' /\ tasks'[u].key = j
                          /\ tasks'[u].hash = active'[j].hash
                          /\ tasks'[u].lock = locks'[PrincipalOf[j]]
    BY DEF FlightsAreTasks
  <2>1. CASE j = k
    BY <1>4, <1>5, <1>6, <1>7, <1>8, <2>1
  <2>2. CASE j \in ActiveKeys /\ j # k
    <3>1. active'[j] = active[j] /\ PrincipalOf[j] \in Principals
      BY <1>7, <2>2, FlightFacts DEF ActiveKeys
    <3>2. locks'[PrincipalOf[j]] = locks[PrincipalOf[j]]
      BY <1>8, <1>10, <2>2, <3>1
    <3> QED BY <1>6, <2>2, <3>1, <3>2 DEF TableInv, FlightsAreTasks
  <2> QED BY <1>7, <2>1, <2>2
<1>12. UnendedAreFlights'
  <2> SUFFICES ASSUME NEW u \in Created', tasks'[u].pc # "done"
               PROVE  active'[tasks'[u].key].task = u
    BY DEF UnendedAreFlights, Done
  <2>1. CASE u = t
    BY <1>4, <1>5, <1>6, <1>7, <2>1
  <2>2. CASE u \in Created
    <3>1. tasks[u].key \in Keys /\ u # None /\ tasks'[u] = tasks[u]
      BY <1>6, <2>2, FlightFacts DEF TaskRecords
    <3>2. active[tasks[u].key].task = u
      BY <2>2, <3>1 DEF TableInv, UnendedAreFlights, Done
    <3>3. tasks[u].key # k
      BY <1>1, <3>1, <3>2 DEF NoFlight
    <3> QED BY <1>7, <3>1, <3>2, <3>3
  <2> QED BY <1>6, <2>1, <2>2
<1>13. LocksAreNamed'
  <2>1. \A u \in Created : tasks[u].lock \in Created
        /\ PrincipalOf[tasks[tasks[u].lock].key] = PrincipalOf[tasks[u].key]
    BY DEF TableInv, LocksAreNamed
  <2>2. lock \in Created' /\ PrincipalOf[tasks'[lock].key] = p
    <3>1. CASE locks[p] = None
      BY <1>3, <1>4, <1>6, <3>1
    <3>2. CASE locks[p] # None
      <4>1. PICK j \in ActiveKeys : PrincipalOf[j] = p
        BY <1>2, <3>2 DEF TableInv, LocksAreUsed
      <4>2. /\ active[j].task \in Created /\ tasks[active[j].task].key = j
            /\ tasks[active[j].task].lock = lock
        BY <1>3, <3>2, <4>1 DEF TableInv, FlightsAreTasks
      <4>3. lock \in Created /\ PrincipalOf[tasks[lock].key] = p
        BY <2>1, <4>1, <4>2
      <4> QED BY <1>6, <4>3
    <3> QED BY <3>1, <3>2
  <2>3. \A u \in Created' : tasks'[u].lock \in Created'
        /\ PrincipalOf[tasks'[tasks'[u].lock].key] = PrincipalOf[tasks'[u].key]
    BY <1>4, <1>6, <2>1, <2>2
  <2> QED BY <2>3 DEF LocksAreNamed
<1>14. LocksAreHeldOnce'
  BY <1>4, <1>6 DEF TableInv, LocksAreHeldOnce
<1>15. LocksAreUsed'
  BY <1>3, <1>7, <1>8, <1>10 DEF TableInv, LocksAreUsed
<1>16. KeptAreOutcomes'
  BY <1>6, <1>9 DEF TableInv, KeptAreOutcomes, KeptKeys, Done
<1>17. ChargedAreHeld'
  <2> SUFFICES ASSUME NEW j \in charged, j \notin Forgotten, j \notin KeptKeys'
               PROVE  /\ j \in ActiveKeys'
                      /\ LET u == active'[j].task
                         IN /\ tasks'[u].pc # "waiting"
                            /\ tasks'[u].pc = "done" => tasks'[u].outcome = "replayable"
    BY <1>1 DEF ChargedAreHeld, Done, Replayable
  <2>1. j \in Keys /\ j \notin KeptKeys
    BY DEF FlightTypeOK, Forgotten, KeptKeys
  <2>2. /\ j \in ActiveKeys
        /\ LET u == active[j].task IN tasks[u].pc # "waiting" /\ (Done(u) => Replayable(u))
    BY <2>1 DEF TableInv, ChargedAreHeld
  <2>3. active[j].task \in Created /\ j # k
    BY <1>2, <2>2 DEF TableInv, FlightsAreTasks
  <2> QED BY <1>6, <1>7, <2>1, <2>2, <2>3 DEF Done, Replayable
<1>18. IsFiniteSet(ActiveKeys') /\ IsFiniteSet(KeptKeys') /\ WithinCapacity'
  <2>1. /\ IsFiniteSet(ActiveKeys) /\ IsFiniteSet(KeptKeys)
        /\ Cardinality(KeptKeys) <= MaxCompleted
    BY DEF TableInv, WithinCapacity, KeptKeys
  <2>2. IsFiniteSet(ActiveKeys') /\ Cardinality(ActiveKeys') <= Cardinality(ActiveKeys) + 1
        /\ Cardinality(ActiveKeys') \in Nat
    BY <1>7, <2>1, OneMore
  <2>3. IsFiniteSet(KeptKeys') /\ Cardinality(KeptKeys') <= Cardinality(KeptKeys)
    BY <1>9, <2>1, FS_Subset
  <2>4. Cardinality(KeptKeys') \in Nat /\ Cardinality(KeptKeys) \in Nat
    BY <2>1, <2>3, FS_CardinalityType
  <2>5. Cardinality(ActiveKeys') <= MaxActive /\ Cardinality(KeptKeys') <= MaxCompleted
    BY <1>1, <2>1, <2>2, <2>3, <2>4, FlightFacts
  <2>6. \A j \in ActiveKeys' : completed'[j] = NoEntry
    <3>1. ActiveKeys \subseteq Keys /\ \A j \in ActiveKeys : completed[j] = NoEntry
      BY DEF TableInv, WithinCapacity, ActiveKeys
    <3> QED BY <1>7, <1>9, <3>1
  <2> QED BY <2>2, <2>3, <2>5, <2>6 DEF WithinCapacity, KeptKeys
<1>19. /\ callers' \in [Callers -> CallerRecords]
       /\ callers'[c] = [pc |-> "waiting", key |-> k, hash |-> h, task |-> t]
       /\ \A d \in Callers \ {c} : callers'[d] = callers[d]
  BY <1>1, <1>2, BecameFacts
<1>20. WaitersInv'
  <2>1. TasksGrow
    BY <1>6 DEF TasksGrow, Done
  <2>2. Claims(callers[c])'
    BY <1>4, <1>6, <1>19 DEF Claims
  <2>3. \A d \in Callers : callers'[d] = callers[d] \/ Claims(callers[d])'
    BY <1>19, <2>2
  <2>4. \A u \in cleanups' : u \in cleanups
    BY <1>1
  <2> QED BY <1>19, <2>1, <2>3, <2>4, WaitersKeep
<1>21. FlightTypeOK'
  BY <1>1, <1>6, <1>7, <1>8, <1>9, <1>19 DEF FlightTypeOK
<1>22. NoStart
  BY <1>6 DEF NoStart
<1> QED BY <1>11, <1>12, <1>13, <1>14, <1>15, <1>16, <1>17, <1>18, <1>20, <1>21, <1>22
        DEF TableInv, FlightStep, NoStart

\* A task replaced by one of the same key, hash and lock.
LEMMA TaskUpdate ==
    ASSUME FlightInv, NEW t \in Created, NEW task \in TaskRecords,
           tasks' = [tasks EXCEPT ![t] = task],
           task.key = tasks[t].key, task.hash = tasks[t].hash, task.lock = tasks[t].lock,
           Done(t) => task.pc = "done"
    PROVE  /\ tasks' \in Seq(TaskRecords) /\ Len(tasks') = Len(tasks) /\ Created' = Created
           /\ tasks'[t] = task /\ \A u \in Created \ {t} : tasks'[u] = tasks[u]
           /\ \A u \in Created : /\ tasks'[u].key = tasks[u].key /\ tasks'[u].hash = tasks[u].hash
                                 /\ tasks'[u].lock = tasks[u].lock
           /\ TasksGrow
<1>1. /\ tasks' \in Seq(TaskRecords) /\ Len(tasks') = Len(tasks) /\ Created' = Created
      /\ \A u \in Created : tasks'[u] = IF u = t THEN task ELSE tasks[u]
  BY ExceptSeq DEF FlightInv, FlightTypeOK, Created
<1> QED BY <1>1 DEF TasksGrow, Done

\* The parts of the invariant that a task replaced in this way keeps, when the
\* tables stay as they are.
LEMMA TaskUpdateKeeps ==
    ASSUME FlightInv, NEW t \in Created, NEW task \in TaskRecords, ~Done(t),
           tasks' = [tasks EXCEPT ![t] = task],
           task.key = tasks[t].key, task.hash = tasks[t].hash, task.lock = tasks[t].lock,
           UNCHANGED <<active, completed, locks, callers, now>>, cleanups' \subseteq Tasks,
           \A u \in cleanups' : u \in cleanups \/ (u = t /\ task.pc = "done"),
           charged' \subseteq Keys, LocksAreHeldOnce', ChargedAreHeld'
    PROVE  FlightInv'
<1>1. /\ tasks' \in Seq(TaskRecords) /\ Len(tasks') = Len(tasks) /\ Created' = Created
      /\ tasks'[t] = task /\ \A u \in Created \ {t} : tasks'[u] = tasks[u]
      /\ \A u \in Created : /\ tasks'[u].key = tasks[u].key /\ tasks'[u].hash = tasks[u].hash
                            /\ tasks'[u].lock = tasks[u].lock
      /\ TasksGrow
  BY TaskUpdate
<1>2. ActiveKeys' = ActiveKeys /\ KeptKeys' = KeptKeys
  BY DEF ActiveKeys, KeptKeys
<1>3. FlightsAreTasks' /\ LocksAreUsed'
  BY <1>1, <1>2 DEF FlightInv, TableInv, FlightsAreTasks, LocksAreUsed
<1>4. UnendedAreFlights'
  BY <1>1 DEF FlightInv, TableInv, UnendedAreFlights, Done
<1>5. LocksAreNamed'
  BY <1>1 DEF FlightInv, TableInv, LocksAreNamed
<1>6. KeptAreOutcomes'
  BY <1>1, <1>2 DEF FlightInv, TableInv, KeptAreOutcomes, Done
<1>7. IsFiniteSet(ActiveKeys') /\ IsFiniteSet(KeptKeys') /\ WithinCapacity'
  BY <1>2 DEF FlightInv, TableInv, WithinCapacity
<1>8. FlightTypeOK'
  BY <1>1 DEF FlightInv, FlightTypeOK
<1>9. WaitersInv'
  <2>1. \A u \in cleanups' : u \in cleanups \/ (u \in Created' /\ tasks'[u].pc = "done")
    BY <1>1
  <2> QED BY <1>1, <1>8, <2>1, WaitersKeep DEF FlightTypeOK
<1> QED BY <1>3, <1>4, <1>5, <1>6, <1>7, <1>8, <1>9 DEF FlightInv, TableInv

\* A task that waits is called under its lock; nobody has paid for its key yet.
LEMMA StartCallStep ==
    ASSUME FlightInv, NEW t \in Tasks, StartCall(t) PROVE FlightStep
<1> DEFINE task == [tasks[t] EXCEPT !.pc = "calling"]
<1>1. /\ t \in Created /\ tasks[t].pc = "waiting" /\ ~Locked(tasks[t].lock)
      /\ tasks' = [tasks EXCEPT ![t] = task] /\ charged' = charged \cup {tasks[t].key}
      /\ UNCHANGED <<active, completed, locks, cleanups, callers, now>>
  BY DEF StartCall
<1>2. /\ tasks[t] \in TaskRecords /\ tasks[t].key \in Keys /\ ~Done(t) /\ t # None
  BY <1>1, FlightFacts DEF FlightInv, TaskRecords, Done
<1>3. /\ task \in TaskRecords /\ task.pc = "calling" /\ task.key = tasks[t].key
      /\ task.hash = tasks[t].hash /\ task.lock = tasks[t].lock
  BY <1>2 DEF TaskRecords
<1> HIDE DEF task
<1>4. /\ Created' = Created /\ tasks'[t] = task
      /\ \A u \in Created \ {t} : tasks'[u] = tasks[u]
  BY <1>1, <1>2, <1>3, TaskUpdate
<1>5. active[tasks[t].key].task = t /\ tasks[t].key \in ActiveKeys
  <2>1. active[tasks[t].key].task = t
    BY <1>1, <1>2 DEF FlightInv, TableInv, UnendedAreFlights
  <2> QED BY <1>2, <2>1, FlightFacts DEF FlightInv
<1>6. tasks[t].key \notin charged
  BY <1>1, <1>5 DEF FlightInv, TableInv, ChargedAreHeld, WithinCapacity, KeptKeys
<1>7. LocksAreHeldOnce'
  <2>1. \A u \in Created : tasks[u].pc = "calling" => tasks[u].lock # tasks[t].lock
    BY <1>1 DEF Locked
  <2> QED BY <1>3, <1>4, <2>1 DEF FlightInv, TableInv, LocksAreHeldOnce
<1>8. ChargedAreHeld'
  <2> SUFFICES ASSUME NEW j \in charged', j \notin KeptKeys
               PROVE  /\ j \in ActiveKeys
                      /\ LET u == active[j].task
                         IN /\ tasks'[u].pc # "waiting"
                            /\ tasks'[u].pc = "done" => tasks'[u].outcome = "replayable"
    BY <1>1 DEF ChargedAreHeld, Done, Replayable, KeptKeys, ActiveKeys
  <2>1. CASE j = tasks[t].key
    BY <1>3, <1>4, <1>5, <2>1
  <2>2. CASE j \in charged
    <3>1. /\ j \in ActiveKeys
          /\ LET u == active[j].task IN tasks[u].pc # "waiting" /\ (Done(u) => Replayable(u))
      BY <2>2 DEF FlightInv, TableInv, ChargedAreHeld
    <3>2. active[j].task \in Created /\ active[j].task # t
      BY <1>1, <3>1 DEF FlightInv, TableInv, FlightsAreTasks
    <3> QED BY <1>4, <3>1, <3>2 DEF Done, Replayable
  <2> QED BY <1>1, <2>1, <2>2
<1>9. FlightInv'
  BY <1>1, <1>2, <1>3, <1>7, <1>8, TaskUpdateKeeps DEF FlightInv, FlightTypeOK
<1> QED BY <1>1, <1>4, <1>6, <1>9 DEF FlightStep

LEMMA EndCallStep ==
    ASSUME FlightInv, NEW t \in Tasks, EndCall(t) PROVE FlightStep
<1>1. PICK outcome \in Outcomes :
        /\ tasks' = [tasks EXCEPT ![t] = [tasks[t] EXCEPT !.pc = "done", !.outcome = outcome]]
        /\ charged' = IF outcome = "unreplayable" THEN charged \ {tasks[t].key} ELSE charged
  <2>1. PICK outcome \in Outcomes :
        /\ tasks' = [tasks EXCEPT ![t].pc = "done", ![t].outcome = outcome]
        /\ charged' = IF outcome = "unreplayable" THEN charged \ {tasks[t].key} ELSE charged
    BY DEF EndCall
  <2>2. t \in Created
    BY DEF EndCall
  <2>3. tasks \in Seq(TaskRecords) /\ t \in 1..Len(tasks)
    BY <2>2 DEF FlightInv, FlightTypeOK, Created
  <2>4. [tasks EXCEPT ![t].pc = "done", ![t].outcome = outcome]
          = [tasks EXCEPT ![t] = [tasks[t] EXCEPT !.pc = "done", !.outcome = outcome]]
    BY <2>3
  <2> QED BY <2>1, <2>4
<1> DEFINE task == [tasks[t] EXCEPT !.pc = "done", !.outcome = outcome]
<1>2. /\ t \in Created /\ tasks[t].pc = "calling" /\ cleanups' = cleanups \cup {t}
      /\ UNCHANGED <<active, completed, locks, callers, now>>
  BY DEF EndCall
<1>3. tasks[t] \in TaskRecords /\ tasks[t].key \in Keys /\ ~Done(t) /\ t # None
  BY <1>2, FlightFacts DEF FlightInv, TaskRecords, Done
<1>4. /\ task \in TaskRecords /\ task.pc = "done" /\ task.key = tasks[t].key
      /\ task.hash = tasks[t].hash /\ task.lock = tasks[t].lock /\ task.outcome = outcome
  BY <1>3 DEF TaskRecords
<1>5. tasks' = [tasks EXCEPT ![t] = task]
  BY <1>1
<1> HIDE DEF task
<1>6. /\ Created' = Created /\ tasks'[t] = task
      /\ \A u \in Created \ {t} : tasks'[u] = tasks[u]
  BY <1>2, <1>3, <1>4, <1>5, TaskUpdate
<1>7. LocksAreHeldOnce'
  BY <1>2, <1>4, <1>6 DEF FlightInv, TableInv, LocksAreHeldOnce
<1>8. ChargedAreHeld'
  <2> SUFFICES ASSUME NEW j \in charged', j \notin KeptKeys
               PROVE  /\ j \in ActiveKeys
                      /\ LET u == active[j].task
                         IN /\ tasks'[u].pc # "waiting"
                            /\ tasks'[u].pc = "done" => tasks'[u].outcome = "replayable"
    BY <1>2 DEF ChargedAreHeld, Done, Replayable, KeptKeys, ActiveKeys
  <2>1. /\ j \in ActiveKeys
        /\ LET u == active[j].task IN tasks[u].pc # "waiting" /\ (Done(u) => Replayable(u))
    BY <1>1 DEF FlightInv, TableInv, ChargedAreHeld
  <2>2. active[j].task \in Created /\ tasks[active[j].task].key = j
    BY <2>1 DEF FlightInv, TableInv, FlightsAreTasks
  <2>3. CASE active[j].task = t
    <3>1. outcome = "replayable"
      BY <1>1, <2>2, <2>3 DEF Outcomes
    <3> QED BY <1>4, <1>6, <2>1, <2>3, <3>1
  <2>4. CASE active[j].task # t
    BY <1>6, <2>1, <2>2, <2>4 DEF Done, Replayable
  <2> QED BY <2>3, <2>4
<1>9. FlightInv'
  <2>1. charged' \subseteq Keys /\ cleanups' \subseteq Tasks
    BY <1>1, <1>2 DEF FlightInv, FlightTypeOK
  <2>2. \A u \in cleanups' : u \in cleanups \/ (u = t /\ task.pc = "done")
    BY <1>2, <1>4
  <2> QED BY <1>2, <1>3, <1>4, <1>5, <1>7, <1>8, <2>1, <2>2, TaskUpdateKeeps
<1>10. NoStart
  BY <1>4, <1>6 DEF NoStart
<1> QED BY <1>9, <1>10 DEF FlightStep, NoStart

LEMMA TickStep ==
    ASSUME FlightInv, Tick \/ UNCHANGED flightVars PROVE FlightStep
<1>1. /\ UNCHANGED <<tasks, active, completed, locks, cleanups, callers, charged>>
      /\ now' \in 0..MaxTime
  BY FlightFacts DEF Tick, flightVars, FlightInv, FlightTypeOK
<1>2. FlightTypeOK' /\ WaitersInv' /\ NoStart
  BY <1>1 DEF FlightInv, FlightTypeOK, WaitersInv, Created, Done, NoStart
<1>3. TableInv'
  <2>1. charged' = charged \ Forgotten
    BY <1>1 DEF Forgotten
  <2> QED BY <1>1, <2>1, OutcomesForgotten DEF FlightInv, FlightTypeOK
<1> QED BY <1>2, <1>3 DEF FlightStep, FlightInv, NoStart

LEMMA FlightNextStep ==
    ASSUME FlightInv, [FlightNext]_flightVars PROVE FlightStep
<1>1. CASE \E c \in Callers : Request(c) \/ ResumeCaller(c) \/ Disconnect(c)
  BY <1>1, ReplayStep, JoinStep, RefuseStep, LaunchStep, LeaveSteps DEF Request
<1>2. CASE \E t \in Tasks : StartCall(t) \/ EndCall(t) \/ RunCleanup(t)
  BY <1>2, StartCallStep, EndCallStep, RunCleanupStep
<1>3. CASE (\E p \in Principals : ClearPrincipal(p)) \/ PurgeExpired
  BY <1>3, ForgetStep
<1>4. CASE Tick \/ UNCHANGED flightVars
  BY <1>4, TickStep
<1> QED BY <1>1, <1>2, <1>3, <1>4 DEF FlightNext

LEMMA FlightInvHolds == FlightSpec => []FlightInv
<1>1. FlightInit => FlightInv
  <2> SUFFICES ASSUME FlightInit PROVE FlightInv
    OBVIOUS
  <2>1. /\ tasks = <<>> /\ active = [k \in Keys |-> NoFlight]
        /\ completed = [k \in Keys |-> NoEntry] /\ locks = [p \in Principals |-> None]
        /\ cleanups = {} /\ callers = [c \in Callers |-> Idle] /\ now = 0 /\ charged = {}
    BY DEF FlightInit
  <2>2. Created = {} /\ ActiveKeys = {} /\ KeptKeys = {}
    BY <2>1 DEF Created, ActiveKeys, KeptKeys
  <2>3. None \in 0..MaxTasks /\ 0 \in 0..MaxTime /\ 0 <= MaxTasks
    BY BoundAssumption DEF None
  <2>4. FlightTypeOK
    <3>1. tasks \in Seq(TaskRecords) /\ Len(tasks) = 0
      BY <2>1
    <3> QED BY <2>1, <2>3, <3>1 DEF FlightTypeOK, Flights, Entries, CallerRecords
  <2>5. IsFiniteSet(ActiveKeys) /\ IsFiniteSet(KeptKeys) /\ WithinCapacity
    <3>1. 0 <= MaxActive /\ 0 <= MaxCompleted
      BY BoundAssumption
    <3> QED BY <2>2, <3>1, FS_EmptySet DEF WithinCapacity, KeptKeys
  <2>6. LocksAreUsed
    BY <2>1, <2>2 DEF LocksAreUsed
  <2>7. WaitersInv
    BY <2>1 DEF WaitersInv, Idle
  <2>8. /\ FlightsAreTasks /\ UnendedAreFlights /\ LocksAreNamed /\ LocksAreHeldOnce
        /\ KeptAreOutcomes /\ ChargedAreHeld
    BY <2>1, <2>2 DEF FlightsAreTasks, UnendedAreFlights, LocksAreNamed, LocksAreHeldOnce,
       KeptAreOutcomes, ChargedAreHeld
  <2> QED BY <2>4, <2>5, <2>6, <2>7, <2>8 DEF FlightInv, TableInv
<1>2. FlightInv /\ [FlightNext]_flightVars => FlightInv'
  BY FlightNextStep DEF FlightStep
<1> QED BY <1>1, <1>2, PTL DEF FlightSpec

\* Every value of a flight has its type.
THEOREM FlightTypes == FlightSpec => []FlightTypeOK
BY FlightInvHolds, SoundFromInv, PTL

\* One provider call at a time per account, tables that agree within their
\* capacities, and answers that belong to the request, whoever joins, leaves,
\* cleans up or logs out in between, for any number of accounts, keys and callers.
THEOREM FlightsAgree == FlightSpec => []FlightsSound
<1>1. FlightInv => FlightsSound
  BY SoundFromInv DEF FlightsSound
<1> QED BY FlightInvHolds, <1>1, PTL

\* No call is paid for twice within the window of its key.
THEOREM PaidOnce == FlightSpec => NoSecondCharge
<1>1. FlightInv /\ [FlightNext]_flightVars
        => [\A t \in Tasks :
              t \in Created /\ tasks[t].pc = "waiting" /\ tasks'[t].pc = "calling"
                => tasks[t].key \notin charged]_flightVars
  BY FlightNextStep DEF FlightStep
<1> QED BY <1>1, FlightInvHolds, PTL DEF FlightSpec, NoSecondCharge

-----------------------------------------------------------------------------
(* The audit chain.                                                        *)

\* An event as the writers make it.
EventFacts(e, day) ==
    /\ e.session \in AuditSessions /\ e.owner \in AuditAccounts \cup {Unowned}
    /\ e.action \in EventActions /\ e.pack \in Packs /\ e.at \in 0 .. day
    /\ e = [session |-> e.session, owner |-> e.owner, action |-> e.action, pack |-> e.pack,
            previous |-> e.previous, at |-> e.at, hash |-> e.hash]
    /\ e.hash = EventHash(e.session, e.action, e.pack, e.previous, e.at)

WorkFacts(w, day) ==
    /\ w.account \in AuditAccounts /\ w.action \in EventActions /\ w.pack \in Packs
    /\ w.at \in 0 .. day /\ w.locked \in BOOLEAN
    /\ w = [account |-> w.account, action |-> w.action, pack |-> w.pack, at |-> w.at,
            locked |-> w.locked, previous |-> w.previous]

\* The rows of a chain have one owner: that of the session, or who claimed it.
OneOwner ==
    /\ \A i \in DOMAIN events :
          events[i].session \in AuditAccounts => events[i].owner = events[i].session
    /\ \A i, j \in DOMAIN events :
          events[i].session = events[j].session => events[i].owner = events[j].owner

\* The chain of a session, the hash of its newest row, and the walk over it, in any events.
ChainRows(evs, session) == {i \in DOMAIN evs : evs[i].session = session}
LastHash(evs, ids) == IF ids = {} THEN NoHash ELSE evs[NewestRow(ids)].hash
Chained(evs, ids) == \A i \in ids : evs[i].previous = LastHash(evs, {j \in ids : j < i})

\* What a thread that holds the lock has read is still the head of its chain.
Holds(w) == w # NoWork /\ w.locked
HeadsAreCurrent ==
    \A t \in Threads : Holds(writing[t])
        => writing[t].previous = LastHash(events, ChainRows(events, writing[t].account))

OneHolder == \A t, u \in Threads : (Holds(writing[t]) /\ Holds(writing[u])) => t = u

ChainsLinked == \A s \in AuditSessions : Chained(events, ChainRows(events, s))

AuditTypes ==
    /\ lastId \in Nat /\ today \in Nat
    /\ DOMAIN events \subseteq 1 .. lastId
    /\ \A i \in DOMAIN events : EventFacts(events[i], today)
    /\ packRows \in [PackKeys -> (0 .. today) \cup {NoPackRow}]
    /\ draftRows \in [PackKeys -> (0 .. today) \cup {NoPackRow}]
    /\ DOMAIN writing = Threads
    /\ \A t \in Threads : Busy(t) => WorkFacts(writing[t], today)

\* What holds however many processes write, and what one lock adds.
AuditInv == AuditTypes /\ OneOwner /\ PacksHaveHistory
LockInv == HeadsAreCurrent /\ OneHolder /\ ChainsLinked

LEMMA TypesAgree == AuditTypes => AuditTypeOK
<1> SUFFICES ASSUME AuditTypes PROVE AuditTypeOK
  OBVIOUS
<1>1. ASSUME NEW i \in DOMAIN events
      PROVE  \E s \in AuditSessions, o \in AuditAccounts \cup {Unowned}, a \in EventActions,
                p \in Packs, at \in 0 .. today :
                events[i] = NewEvent(s, o, a, p, events[i].previous, at)
  <2>1. EventFacts(events[i], today)
    BY <1>1 DEF AuditTypes
  <2>2. events[i] = NewEvent(events[i].session, events[i].owner, events[i].action,
                             events[i].pack, events[i].previous, events[i].at)
    BY <2>1 DEF EventFacts, NewEvent
  <2> QED BY <2>1, <2>2 DEF EventFacts
<1>2. ASSUME NEW t \in DOMAIN writing, Busy(t)
      PROVE  \E a \in AuditAccounts, action \in EventActions, p \in Packs, at \in 0 .. today,
                locked \in BOOLEAN :
                writing[t] = [account |-> a, action |-> action, pack |-> p, at |-> at,
                              locked |-> locked, previous |-> writing[t].previous]
  BY <1>2 DEF AuditTypes, WorkFacts
<1> QED BY <1>1, <1>2 DEF AuditTypes, AuditTypeOK

\* The newest row of some is one of them.
LEMMA NewestIsOne ==
    ASSUME NEW n \in Nat, NEW ids \in SUBSET (1 .. n), ids # {}
    PROVE  NewestRow(ids) \in ids /\ \A j \in ids : j <= NewestRow(ids)
<1> DEFINE Below == {n - i : i \in ids}
<1>1. Below \in SUBSET Nat /\ Below # {}
  <2>1. \A i \in ids : n - i \in Nat
    OBVIOUS
  <2>2. \E i \in ids : TRUE
    OBVIOUS
  <2> QED BY <2>1, <2>2
<1>2. PICK b \in Below : \A y \in Below : ~(<<y, b>> \in OpToRel(<, Nat))
  BY <1>1, NatLessThanWellFounded, WFMin
<1>3. \A y \in Below : ~(y < b)
  BY <1>1, <1>2 DEF OpToRel
<1>4. PICK i \in ids : b = n - i
  BY <1>2
<1>5. ASSUME NEW j \in ids PROVE j <= i
  <2>1. ~(n - j < n - i)
    BY <1>3, <1>4, <1>5
  <2> QED BY <2>1
<1> QED BY <1>5 DEF NewestRow

\* Rows whose hashes stay have the same last hash, and a chain of them stays one.
LEMMA LastHashKept ==
    ASSUME NEW n \in Nat, NEW ids \in SUBSET (1 .. n), NEW evs, NEW new,
           \A i \in ids : new[i].hash = evs[i].hash
    PROVE  LastHash(new, ids) = LastHash(evs, ids)
<1>1. CASE ids = {}
  BY <1>1 DEF LastHash
<1>2. CASE ids # {}
  <2>1. NewestRow(ids) \in ids
    BY <1>2, NewestIsOne
  <2> QED BY <1>2, <2>1 DEF LastHash
<1> QED BY <1>1, <1>2

LEMMA ChainKept ==
    ASSUME NEW n \in Nat, NEW ids \in SUBSET (1 .. n), NEW evs, NEW new, Chained(evs, ids),
           \A i \in ids : new[i].hash = evs[i].hash /\ new[i].previous = evs[i].previous
    PROVE  Chained(new, ids)
<1>1. ASSUME NEW i \in ids PROVE new[i].previous = LastHash(new, {j \in ids : j < i})
  <2> DEFINE before == {j \in ids : j < i}
  <2>1. evs[i].previous = LastHash(evs, before)
    BY <1>1 DEF Chained
  <2>2. before \in SUBSET (1 .. n) /\ \A j \in before : new[j].hash = evs[j].hash
    OBVIOUS
  <2> HIDE DEF before
  <2>3. LastHash(new, before) = LastHash(evs, before)
    BY <2>2, LastHashKept
  <2> QED BY <1>1, <2>1, <2>3 DEF before
<1> QED BY <1>1 DEF Chained

\* A row behind the last one continues the chain.
LEMMA ChainGrows ==
    ASSUME NEW n \in Nat, NEW ids \in SUBSET (1 .. n), NEW evs, NEW new, Chained(evs, ids),
           \A i \in ids : new[i].hash = evs[i].hash /\ new[i].previous = evs[i].previous,
           new[n + 1].previous = LastHash(evs, ids)
    PROVE  Chained(new, ids \cup {n + 1})
<1>1. ASSUME NEW i \in ids
      PROVE  new[i].previous = LastHash(new, {j \in ids \cup {n + 1} : j < i})
  <2>1. {j \in ids \cup {n + 1} : j < i} = {j \in ids : j < i}
    <3>1. i \in 1 .. n /\ ~(n + 1 < i)
      OBVIOUS
    <3> QED BY <3>1
  <2>2. new[i].previous = LastHash(new, {j \in ids : j < i})
    <3>1. Chained(new, ids)
      BY ChainKept
    <3> QED BY <3>1 DEF Chained
  <2> QED BY <2>1, <2>2
<1>2. new[n + 1].previous = LastHash(new, {j \in ids \cup {n + 1} : j < n + 1})
  <2>1. {j \in ids \cup {n + 1} : j < n + 1} = ids
    <3>1. \A j \in ids : j \in 1 .. n /\ j < n + 1
      OBVIOUS
    <3>2. ~(n + 1 < n + 1)
      OBVIOUS
    <3> QED BY <3>1, <3>2
  <2>2. LastHash(new, ids) = LastHash(evs, ids)
    BY LastHashKept
  <2> QED BY <2>1, <2>2
<1> QED BY <1>1, <1>2 DEF Chained

\* A row is inserted behind the greatest id; the others stay.
LEMMA RowInserted ==
    ASSUME AuditTypes, NEW t \in Threads, Busy(t), NEW previous, InsertRow(t, previous),
           today' = today
    PROVE  /\ lastId' \in Nat /\ lastId' = lastId + 1
           /\ DOMAIN events' = DOMAIN events \cup {lastId'} /\ lastId' \notin DOMAIN events
           /\ DOMAIN events' \subseteq 1 .. lastId'
           /\ \A i \in DOMAIN events : events'[i] = events[i] /\ i < lastId'
           /\ events'[lastId'] = RowOf(t, previous)
           /\ \A i \in DOMAIN events' : EventFacts(events'[i], today')
<1>1. lastId \in Nat /\ DOMAIN events \subseteq 1 .. lastId
  BY DEF AuditTypes
<1>2. lastId' = lastId + 1 /\ lastId' \in Nat /\ lastId' \notin DOMAIN events
  BY <1>1 DEF InsertRow
<1>3. \A i \in DOMAIN events : i < lastId' /\ i \in 1 .. lastId'
  BY <1>1, <1>2
<1>4. /\ DOMAIN events' = DOMAIN events \cup {lastId'}
      /\ \A i \in DOMAIN events : events'[i] = events[i]
      /\ events'[lastId'] = RowOf(t, previous)
  BY <1>2 DEF InsertRow
<1>5. EventFacts(RowOf(t, previous), today)
  <2>1. WorkFacts(writing[t], today)
    BY DEF AuditTypes
  <2>2. RowOf(t, previous) =
           NewEvent(writing[t].account, writing[t].account, writing[t].action,
                    writing[t].pack, previous, writing[t].at)
    BY DEF RowOf
  <2> QED
    BY <2>1, <2>2 DEF EventFacts, WorkFacts, NewEvent, AuditSessions
<1>6. ASSUME NEW i \in DOMAIN events' PROVE EventFacts(events'[i], today')
  <2>1. CASE i = lastId'
    BY <1>4, <1>5, <2>1
  <2>2. CASE i \in DOMAIN events
    BY <1>4, <2>2 DEF AuditTypes
  <2> QED BY <1>4, <2>1, <2>2
<1>7. DOMAIN events' \subseteq 1 .. lastId'
  BY <1>1, <1>2, <1>3, <1>4
<1> QED BY <1>2, <1>3, <1>4, <1>6, <1>7

\* What t asked for has the account, the action and the time of its row.
LEMMA RowAsAsked ==
    ASSUME AuditTypes, NEW t \in Threads, Busy(t), NEW previous
    PROVE  /\ writing[t].account \in AuditAccounts /\ writing[t].pack \in Packs
           /\ writing[t].at \in 0 .. today
           /\ RowOf(t, previous).session = writing[t].account
           /\ RowOf(t, previous).owner = writing[t].account
           /\ RowOf(t, previous).action = writing[t].action
           /\ RowOf(t, previous).pack = writing[t].pack
           /\ RowOf(t, previous).at = writing[t].at
           /\ RowOf(t, previous).previous = previous
BY DEF AuditTypes, WorkFacts, RowOf, NewEvent

\* Owners and recorded events are kept by an insertion.
LEMMA InsertKeepsOwners ==
    ASSUME AuditTypes, OneOwner, NEW t \in Threads, Busy(t), NEW previous,
           InsertRow(t, previous), today' = today
    PROVE  OneOwner'
<1>1. /\ DOMAIN events' = DOMAIN events \cup {lastId'} /\ lastId' \notin DOMAIN events
      /\ \A i \in DOMAIN events : events'[i] = events[i]
      /\ events'[lastId'].session = writing[t].account
      /\ events'[lastId'].owner = writing[t].account
      /\ writing[t].account \in AuditAccounts
  <2>1. /\ DOMAIN events' = DOMAIN events \cup {lastId'} /\ lastId' \notin DOMAIN events
        /\ \A i \in DOMAIN events : events'[i] = events[i]
        /\ events'[lastId'] = RowOf(t, previous)
    BY RowInserted
  <2> QED BY <2>1, RowAsAsked
<1>2. \A i \in DOMAIN events' :
         events'[i].session \in AuditAccounts => events'[i].owner = events'[i].session
  BY <1>1 DEF OneOwner
<1>3. ASSUME NEW i \in DOMAIN events', NEW j \in DOMAIN events',
             events'[i].session = events'[j].session
      PROVE  events'[i].owner = events'[j].owner
  BY <1>1, <1>2, <1>3 DEF OneOwner
<1> QED BY <1>2, <1>3 DEF OneOwner

LEMMA InsertKeepsRecords ==
    ASSUME AuditTypes, NEW t \in Threads, Busy(t), NEW previous, InsertRow(t, previous),
           today' = today, NEW k, NEW actions, NEW at, Recorded(k, actions, at)
    PROVE  Recorded(k, actions, at)'
BY RowInserted DEF Recorded

\* The event of a transaction is recorded with what it saves.
LEMMA InsertRecords ==
    ASSUME AuditTypes, NEW t \in Threads, Busy(t), NEW previous, InsertRow(t, previous),
           today' = today, NEW actions, writing[t].action \in actions
    PROVE  \E i \in DOMAIN events' :
              /\ events'[i].session = writing[t].account /\ events'[i].pack = writing[t].pack
              /\ events'[i].action \in actions /\ events'[i].at = writing[t].at
<1>1. lastId' \in DOMAIN events' /\ events'[lastId'] = RowOf(t, previous)
  BY RowInserted
<1> QED BY <1>1, RowAsAsked

\* A row that is saved again, with its event, and rows that stay.
LEMMA UpsertKeepsHistory ==
    ASSUME AuditTypes, NEW t \in Threads, Busy(t), NEW previous, InsertRow(t, previous),
           today' = today, NEW rows \in [PackKeys -> (0 .. today) \cup {NoPackRow}], NEW actions,
           writing[t].action \in actions,
           \A k \in PackKeys : rows[k] # NoPackRow => Recorded(k, actions, rows[k]),
           NEW new, new = Upsert(t, rows)
    PROVE  /\ new \in [PackKeys -> (0 .. today) \cup {NoPackRow}]
           /\ \A k \in PackKeys : new[k] # NoPackRow =>
                 \E i \in DOMAIN events' :
                     /\ events'[i].session = k[1] /\ events'[i].pack = k[2]
                     /\ events'[i].action \in actions /\ events'[i].at = new[k]
<1> DEFINE key == <<writing[t].account, writing[t].pack>>
<1>1. key \in PackKeys /\ writing[t].at \in 0 .. today
  BY RowAsAsked DEF PackKeys
<1>2. new = [rows EXCEPT ![key] = writing[t].at]
  BY DEF Upsert
<1>3. new \in [PackKeys -> (0 .. today) \cup {NoPackRow}]
  BY <1>1, <1>2
<1>4. ASSUME NEW k \in PackKeys, new[k] # NoPackRow
      PROVE  \E i \in DOMAIN events' :
                 /\ events'[i].session = k[1] /\ events'[i].pack = k[2]
                 /\ events'[i].action \in actions /\ events'[i].at = new[k]
  <2>1. CASE k = key
    <3>1. new[k] = writing[t].at
      BY <1>1, <1>2, <2>1
    <3>2. k[1] = writing[t].account /\ k[2] = writing[t].pack
      BY <2>1
    <3> QED BY <3>1, <3>2, InsertRecords
  <2>2. CASE k # key
    <3>1. new[k] = rows[k]
      BY <1>1, <1>2, <2>2
    <3>2. Recorded(k, actions, rows[k])
      BY <1>4, <3>1
    <3>3. PICK i \in DOMAIN events : /\ events[i].session = k[1] /\ events[i].pack = k[2]
                                     /\ events[i].action \in actions /\ events[i].at = rows[k]
      BY <3>2 DEF Recorded
    <3>4. i \in DOMAIN events' /\ events'[i] = events[i]
      BY RowInserted
    <3> QED BY <3>1, <3>3, <3>4
  <2> QED BY <2>1, <2>2
<1> QED BY <1>3, <1>4

\* The history of the packs, by the actions that a pack and a draft may rest on.
LEMMA HistoryParts ==
    PacksHaveHistory <=>
        /\ \A k \in PackKeys : packRows[k] # NoPackRow =>
              Recorded(k, {"CREATED", "CLAIMS_EXTRACTED"}, packRows[k])
        /\ \A k \in PackKeys : draftRows[k] # NoPackRow =>
              Recorded(k, {"CLAIMS_EXTRACTED", "REVIEWED"}, draftRows[k])
BY DEF PacksHaveHistory

\* Rows that stay keep their events when one is inserted.
LEMMA InsertKeepsHistory ==
    ASSUME AuditTypes, NEW t \in Threads, Busy(t), NEW previous, InsertRow(t, previous),
           today' = today, NEW rows, NEW actions,
           \A k \in PackKeys : rows[k] # NoPackRow => Recorded(k, actions, rows[k])
    PROVE  \A k \in PackKeys : rows[k] # NoPackRow =>
              \E i \in DOMAIN events' :
                  /\ events'[i].session = k[1] /\ events'[i].pack = k[2]
                  /\ events'[i].action \in actions /\ events'[i].at = rows[k]
BY RowInserted DEF Recorded

\* A thread that goes back to rest, or asks, leaves the others as they are.
LEMMA WorkKept ==
    ASSUME AuditTypes, NEW t \in Threads, NEW w,
           w = NoWork \/ WorkFacts(w, today), writing' = [writing EXCEPT ![t] = w],
           today' = today
    PROVE  /\ DOMAIN writing' = Threads
           /\ \A u \in Threads : Busy(u)' => WorkFacts(writing'[u], today')
<1>1. DOMAIN writing = Threads /\ \A u \in Threads : Busy(u) => WorkFacts(writing[u], today)
  BY DEF AuditTypes
<1>2. ASSUME NEW u \in Threads, writing'[u] # NoWork PROVE WorkFacts(writing'[u], today')
  <2>1. CASE u = t
    <3>1. writing'[u] = w
      BY <1>1, <2>1
    <3> QED BY <1>2, <3>1
  <2>2. CASE u # t
    <3>1. writing'[u] = writing[u]
      BY <1>1, <2>2
    <3> QED BY <1>1, <1>2, <3>1 DEF Busy
  <2> QED BY <2>1, <2>2
<1>3. DOMAIN writing' = Threads
  BY <1>1
<1> QED BY <1>2, <1>3 DEF Busy

\* An insertion by t, with what t saves: types, owners and history.
LEMMA InsertKeepsInv ==
    ASSUME AuditInv, NEW t \in Threads, Busy(t), NEW previous, InsertRow(t, previous),
           Finished(t), today' = today,
           \/ packRows' = packRows
           \/ packRows' = Upsert(t, packRows)
                 /\ writing[t].action \in {"CREATED", "CLAIMS_EXTRACTED"},
           \/ draftRows' = draftRows
           \/ draftRows' = Upsert(t, draftRows)
                 /\ writing[t].action \in {"CLAIMS_EXTRACTED", "REVIEWED"}
    PROVE  AuditInv'
<1> DEFINE ForPacks == {"CREATED", "CLAIMS_EXTRACTED"}
           ForDrafts == {"CLAIMS_EXTRACTED", "REVIEWED"}
           Backed(rows, actions) ==
               \A k \in PackKeys : rows[k] # NoPackRow =>
                  \E i \in DOMAIN events' :
                      /\ events'[i].session = k[1] /\ events'[i].pack = k[2]
                      /\ events'[i].action \in actions /\ events'[i].at = rows[k]
<1>1. AuditTypes /\ OneOwner /\ PacksHaveHistory
  BY DEF AuditInv
<1>2. /\ packRows \in [PackKeys -> (0 .. today) \cup {NoPackRow}]
      /\ draftRows \in [PackKeys -> (0 .. today) \cup {NoPackRow}]
  BY <1>1 DEF AuditTypes
<1>3. /\ packRows' \in [PackKeys -> (0 .. today) \cup {NoPackRow}]
      /\ Backed(packRows', ForPacks)
  <2>0. \A k \in PackKeys : packRows[k] # NoPackRow => Recorded(k, ForPacks, packRows[k])
    BY <1>1, HistoryParts
  <2>1. CASE packRows' = packRows
    <3>1. Backed(packRows, ForPacks)
      BY <1>1, <2>0, InsertKeepsHistory
    <3> QED BY <1>2, <2>1, <3>1
  <2>2. CASE packRows' = Upsert(t, packRows) /\ writing[t].action \in ForPacks
    <3>1. packRows \in [PackKeys -> (0 .. today) \cup {NoPackRow}] /\ AuditTypes
      BY <1>1, <1>2
    <3> HIDE DEF ForPacks
    <3> QED BY <2>0, <2>2, <3>1, UpsertKeepsHistory
  <2> QED BY <2>1, <2>2
<1>4. /\ draftRows' \in [PackKeys -> (0 .. today) \cup {NoPackRow}]
      /\ Backed(draftRows', ForDrafts)
  <2>0. \A k \in PackKeys : draftRows[k] # NoPackRow => Recorded(k, ForDrafts, draftRows[k])
    BY <1>1, HistoryParts
  <2>1. CASE draftRows' = draftRows
    <3>1. Backed(draftRows, ForDrafts)
      BY <1>1, <2>0, InsertKeepsHistory
    <3> QED BY <1>2, <2>1, <3>1
  <2>2. CASE draftRows' = Upsert(t, draftRows) /\ writing[t].action \in ForDrafts
    <3>1. draftRows \in [PackKeys -> (0 .. today) \cup {NoPackRow}] /\ AuditTypes
      BY <1>1, <1>2
    <3> HIDE DEF ForDrafts
    <3> QED BY <2>0, <2>2, <3>1, UpsertKeepsHistory
  <2> QED BY <2>1, <2>2
<1>5. PacksHaveHistory'
  BY <1>3, <1>4 DEF PacksHaveHistory, Recorded
<1>6. OneOwner'
  BY <1>1, InsertKeepsOwners
<1>7. DOMAIN writing' = Threads /\ \A u \in Threads : Busy(u)' => WorkFacts(writing'[u], today')
  BY <1>1, WorkKept DEF Finished
<1>8. AuditTypes'
  <2>1. /\ lastId' \in Nat /\ DOMAIN events' \subseteq 1 .. lastId'
        /\ \A i \in DOMAIN events' : EventFacts(events'[i], today')
    BY <1>1, RowInserted
  <2>2. today' \in Nat
    BY <1>1 DEF AuditTypes
  <2> QED BY <1>3, <1>4, <1>7, <2>1, <2>2 DEF AuditTypes
<1> QED BY <1>5, <1>6, <1>8 DEF AuditInv

\* Deletions: chains that go as a whole, with the rows that rest on them.
LEMMA DropKeepsInv ==
    ASSUME AuditInv, NEW ids \in SUBSET DOMAIN events, KeepEvents(ids),
           NEW gone1 \in SUBSET PackKeys, NEW gone2 \in SUBSET PackKeys,
           packRows' = Without(packRows, gone1), draftRows' = Without(draftRows, gone2),
           UNCHANGED <<lastId, writing, today>>,
           \A i \in DOMAIN events : i \in ids
              \/ \A k \in PackKeys : events[i].session = k[1] =>
                    /\ packRows[k] = events[i].at => k \in gone1
                    /\ draftRows[k] = events[i].at => k \in gone2
    PROVE  AuditInv'
<1>1. AuditTypes /\ OneOwner /\ PacksHaveHistory
  BY DEF AuditInv
<1>2. DOMAIN events' = ids /\ \A i \in ids : events'[i] = events[i]
  BY DEF KeepEvents
<1>3. AuditTypes'
  <2>1. /\ packRows' \in [PackKeys -> (0 .. today) \cup {NoPackRow}]
        /\ draftRows' \in [PackKeys -> (0 .. today) \cup {NoPackRow}]
    BY <1>1 DEF AuditTypes, Without
  <2>2. /\ lastId' \in Nat /\ today' \in Nat /\ DOMAIN events' \subseteq 1 .. lastId'
        /\ \A i \in DOMAIN events' : EventFacts(events'[i], today')
    BY <1>1, <1>2 DEF AuditTypes
  <2>3. DOMAIN writing' = Threads /\ \A t \in Threads : Busy(t)' => WorkFacts(writing'[t], today')
    BY <1>1 DEF AuditTypes, Busy
  <2> QED BY <2>1, <2>2, <2>3 DEF AuditTypes
<1>4. OneOwner'
  BY <1>1, <1>2 DEF OneOwner
<1>5. ASSUME NEW k \in PackKeys, packRows'[k] # NoPackRow
      PROVE  Recorded(k, {"CREATED", "CLAIMS_EXTRACTED"}, packRows[k])' /\ packRows'[k] = packRows[k]
  <2>1. k \notin gone1 /\ packRows'[k] = packRows[k]
    BY <1>5 DEF Without
  <2>2. PICK i \in DOMAIN events :
           /\ events[i].session = k[1] /\ events[i].pack = k[2]
           /\ events[i].action \in {"CREATED", "CLAIMS_EXTRACTED"} /\ events[i].at = packRows[k]
    BY <1>1, <1>5, <2>1 DEF PacksHaveHistory, Recorded
  <2>3. i \in ids
    BY <2>1, <2>2
  <2> QED BY <1>2, <2>1, <2>2, <2>3 DEF Recorded
<1>6. ASSUME NEW k \in PackKeys, draftRows'[k] # NoPackRow
      PROVE  Recorded(k, {"CLAIMS_EXTRACTED", "REVIEWED"}, draftRows[k])' /\ draftRows'[k] = draftRows[k]
  <2>1. k \notin gone2 /\ draftRows'[k] = draftRows[k]
    BY <1>6 DEF Without
  <2>2. PICK i \in DOMAIN events :
           /\ events[i].session = k[1] /\ events[i].pack = k[2]
           /\ events[i].action \in {"CLAIMS_EXTRACTED", "REVIEWED"} /\ events[i].at = draftRows[k]
    BY <1>1, <1>6, <2>1 DEF PacksHaveHistory, Recorded
  <2>3. i \in ids
    BY <2>1, <2>2
  <2> QED BY <1>2, <2>1, <2>2, <2>3 DEF Recorded
<1>7. PacksHaveHistory'
  BY <1>5, <1>6 DEF PacksHaveHistory, Recorded
<1> QED BY <1>3, <1>4, <1>7 DEF AuditInv

\* The work of one thread changes, and nothing else.
LEMMA WorkKeepsInv ==
    ASSUME AuditInv, NEW t \in Threads, NEW w, w = NoWork \/ WorkFacts(w, today),
           writing' = [writing EXCEPT ![t] = w],
           UNCHANGED <<events, lastId, packRows, draftRows, today>>
    PROVE  AuditInv'
<1>1. AuditTypes /\ OneOwner /\ PacksHaveHistory
  BY DEF AuditInv
<1>2. DOMAIN writing' = Threads /\ \A u \in Threads : Busy(u)' => WorkFacts(writing'[u], today)
  BY <1>1, WorkKept
<1>3. AuditTypes'
  BY <1>1, <1>2 DEF AuditTypes
<1> QED BY <1>1, <1>3 DEF AuditInv, OneOwner, PacksHaveHistory, Recorded

\* deleteAccountData takes the account's chain with everything that rests on it.
LEMMA DeletionKeepsInv ==
    ASSUME AuditInv, NEW account \in AuditAccounts, DeleteAccountData(account) PROVE AuditInv'
<1> DEFINE ids == {i \in DOMAIN events : events[i].owner # account}
           dropped == {account} \X Packs
<1>1. AuditTypes /\ OneOwner
  BY DEF AuditInv
<1>2. ASSUME NEW i \in DOMAIN events, i \notin ids, NEW k \in PackKeys, events[i].session = k[1]
      PROVE  k \in dropped
  <2>1. k[1] \in AuditAccounts /\ k[2] \in Packs /\ k = <<k[1], k[2]>>
    BY DEF PackKeys
  <2>2. events[i].owner = k[1]
    BY <1>1, <1>2, <2>1 DEF OneOwner
  <2> QED BY <1>2, <2>1, <2>2
<1>3. dropped \in SUBSET PackKeys /\ ids \in SUBSET DOMAIN events
  BY DEF PackKeys
<1>4. /\ KeepEvents(ids) /\ packRows' = Without(packRows, dropped)
      /\ draftRows' = Without(draftRows, dropped) /\ UNCHANGED <<lastId, writing, today>>
  BY DEF DeleteAccountData
<1> QED BY <1>2, <1>3, <1>4, DropKeepsInv

\* enforceRetention: a row that is not old keeps the chain of its event.
LEMMA RetentionKeepsInv ==
    ASSUME AuditInv, EnforceRetention PROVE AuditInv'
<1>1. ASSUME NEW i \in DOMAIN events, i \notin FreshChains, NEW k \in PackKeys,
             events[i].session = k[1]
      PROVE  /\ packRows[k] = events[i].at => k \in ExpiredRows(packRows)
             /\ draftRows[k] = events[i].at => k \in ExpiredRows(draftRows)
  <2>1. i \in ChainOf(events[i].session)
    BY <1>1 DEF ChainOf
  <2>2. Expired(events[i].at)
    BY <1>1, <2>1 DEF FreshChains
  <2>3. events[i].at # NoPackRow
    BY <1>1, AuditAssumption DEF AuditInv, AuditTypes, EventFacts
  <2> QED BY <2>2, <2>3 DEF ExpiredRows
<1>2. /\ FreshChains \in SUBSET DOMAIN events
      /\ ExpiredRows(packRows) \in SUBSET PackKeys /\ ExpiredRows(draftRows) \in SUBSET PackKeys
  BY DEF FreshChains, ExpiredRows
<1>3. /\ KeepEvents(FreshChains) /\ packRows' = Without(packRows, ExpiredRows(packRows))
      /\ draftRows' = Without(draftRows, ExpiredRows(draftRows))
      /\ UNCHANGED <<lastId, writing, today>>
  BY DEF EnforceRetention
<1> QED BY <1>1, <1>2, <1>3, DropKeepsInv

\* A claim changes the owner of whole chains.
LEMMA ClaimKeepsInv ==
    ASSUME AuditInv, ClaimLegacyRecords PROVE AuditInv'
<1>1. AuditTypes /\ OneOwner /\ PacksHaveHistory
  BY DEF AuditInv
<1> DEFINE NowOwnedBy(o) == IF o = Unowned THEN Administrator ELSE o
<1>2. /\ DOMAIN events' = DOMAIN events
      /\ \A i \in DOMAIN events :
            events'[i] = [events[i] EXCEPT !.owner = NowOwnedBy(events[i].owner)]
  BY DEF ClaimLegacyRecords
<1>3. ASSUME NEW i \in DOMAIN events
      PROVE  /\ EventFacts(events'[i], today) /\ events'[i].owner = NowOwnedBy(events[i].owner)
             /\ events'[i].session = events[i].session /\ events'[i].pack = events[i].pack
             /\ events'[i].action = events[i].action /\ events'[i].at = events[i].at
             /\ events'[i].previous = events[i].previous /\ events'[i].hash = events[i].hash
  <2>1. EventFacts(events[i], today)
    BY <1>1 DEF AuditTypes
  <2> QED BY <1>2, <2>1, AuditAssumption DEF EventFacts
<1>4. AuditTypes'
  BY <1>1, <1>2, <1>3 DEF AuditTypes, ClaimLegacyRecords, Busy
<1>5. OneOwner'
  BY <1>1, <1>2, <1>3, AuditAssumption DEF OneOwner
<1>6. ASSUME NEW k, NEW actions, NEW at, Recorded(k, actions, at)
      PROVE  \E i \in DOMAIN events' :
                 /\ events'[i].session = k[1] /\ events'[i].pack = k[2]
                 /\ events'[i].action \in actions /\ events'[i].at = at
  <2>1. PICK i \in DOMAIN events : /\ events[i].session = k[1] /\ events[i].pack = k[2]
                                   /\ events[i].action \in actions /\ events[i].at = at
    BY <1>6 DEF Recorded
  <2>2. i \in DOMAIN events'
    BY <1>2
  <2> QED BY <1>3, <2>1, <2>2
<1>7. PacksHaveHistory'
  <2> DEFINE ForPacks == {"CREATED", "CLAIMS_EXTRACTED"}
             ForDrafts == {"CLAIMS_EXTRACTED", "REVIEWED"}
  <2>1. packRows' = packRows /\ draftRows' = draftRows
    BY DEF ClaimLegacyRecords
  <2>2. ASSUME NEW k \in PackKeys, packRows[k] # NoPackRow
        PROVE  \E i \in DOMAIN events' :
                   /\ events'[i].session = k[1] /\ events'[i].pack = k[2]
                   /\ events'[i].action \in ForPacks /\ events'[i].at = packRows[k]
    <3>1. Recorded(k, ForPacks, packRows[k])
      BY <1>1, <2>2, HistoryParts
    <3> HIDE DEF ForPacks
    <3> QED BY <1>6, <3>1
  <2>3. ASSUME NEW k \in PackKeys, draftRows[k] # NoPackRow
        PROVE  \E i \in DOMAIN events' :
                   /\ events'[i].session = k[1] /\ events'[i].pack = k[2]
                   /\ events'[i].action \in ForDrafts /\ events'[i].at = draftRows[k]
    <3>1. Recorded(k, ForDrafts, draftRows[k])
      BY <1>1, <2>3, HistoryParts
    <3> HIDE DEF ForDrafts
    <3> QED BY <1>6, <3>1
  <2> QED BY <2>1, <2>2, <2>3 DEF PacksHaveHistory, Recorded
<1> QED BY <1>4, <1>5, <1>7 DEF AuditInv

LEMMA InitHasInv == AuditInit => AuditInv
<1> SUFFICES ASSUME AuditInit PROVE AuditInv
  OBVIOUS
<1>1. CASE events = [i \in {} |-> NoHash] /\ lastId = 0
  <2>1. DOMAIN events = {}
    BY <1>1
  <2> QED BY <1>1, <2>1
          DEF AuditInit, AuditInv, AuditTypes, OneOwner, PacksHaveHistory, Busy
<1>2. CASE \E p \in Packs : events = LegacyChain(p) /\ lastId = 2
  <2>1. PICK p \in Packs : events = LegacyChain(p) /\ lastId = 2
    BY <1>2
  <2>2. /\ DOMAIN events = {1, 2} /\ today = 0
        /\ \A i \in {1, 2} : \E previous : events[i] = LegacyEvent(p, previous)
    BY <2>1 DEF LegacyChain, AuditInit
  <2>3. ASSUME NEW i \in {1, 2}
        PROVE  /\ EventFacts(events[i], today) /\ events[i].session = LegacySession
               /\ events[i].owner = Unowned
    BY <2>2 DEF LegacyEvent, NewEvent, EventFacts, AuditSessions, EventActions
  <2>4. AuditTypes
    BY <2>1, <2>2, <2>3 DEF AuditTypes, AuditInit, Busy
  <2>5. OneOwner
    BY <2>2, <2>3, AuditAssumption DEF OneOwner
  <2> QED BY <2>4, <2>5 DEF AuditInv, PacksHaveHistory, AuditInit
<1> QED BY <1>1, <1>2 DEF AuditInit

\* Every step keeps types, owners and history, whatever processes there are.
LEMMA StepKeepsInv == AuditInv /\ [AuditNext]_auditVars => AuditInv'
<1> SUFFICES ASSUME AuditInv, [AuditNext]_auditVars PROVE AuditInv'
  OBVIOUS
<1>0. AuditTypes
  BY DEF AuditInv
<1>1. ASSUME NEW t \in Threads, NEW a \in AuditAccounts, NEW action \in EventActions,
             NEW p \in Packs, Ask(t, a, action, p)
      PROVE  AuditInv'
  <2> DEFINE w == [account |-> a, action |-> action, pack |-> p, at |-> today,
                   locked |-> FALSE, previous |-> NoHash]
  <2>1. WorkFacts(w, today)
    <3>1. today \in 0 .. today
      BY <1>0 DEF AuditTypes
    <3> QED BY <3>1 DEF WorkFacts
  <2>2. writing' = [writing EXCEPT ![t] = w]
    BY <1>1 DEF Ask
  <2> HIDE DEF w
  <2> QED BY <1>1, <2>1, <2>2, WorkKeepsInv DEF Ask
<1>2. ASSUME NEW t \in Threads, ReadHead(t) PROVE AuditInv'
  <2> DEFINE head == HashOf(ChainOf(writing[t].account))
             w == [writing[t] EXCEPT !.locked = TRUE, !.previous = head]
  <2>1. WorkFacts(writing[t], today)
    BY <1>0, <1>2 DEF ReadHead, Locks, AuditTypes
  <2>3. writing' = [writing EXCEPT ![t] = w]
    BY <1>2 DEF ReadHead
  <2> HIDE DEF head
  <2>2. WorkFacts(w, today)
    <3>1. PICK a \in AuditAccounts, action \in EventActions, p \in Packs, at \in 0 .. today,
               locked \in BOOLEAN, previous \in {writing[t].previous} :
               writing[t] = [account |-> a, action |-> action, pack |-> p, at |-> at,
                             locked |-> locked, previous |-> previous]
      BY <2>1 DEF WorkFacts
    <3>2. /\ DOMAIN w = {"account", "action", "pack", "at", "locked", "previous"}
          /\ w.account = a /\ w.action = action /\ w.pack = p /\ w.at = at
          /\ w.locked = TRUE /\ w.previous = head
      BY <3>1
    <3>3. w = [x \in {"account", "action", "pack", "at", "locked", "previous"} |-> w[x]]
      BY <3>1
    <3> HIDE DEF w
    <3> QED BY <3>2, <3>3 DEF WorkFacts
  <2> HIDE DEF w
  <2> QED BY <1>2, <2>2, <2>3, WorkKeepsInv DEF ReadHead
<1>3. ASSUME NEW t \in Threads, InsertEvent(t) PROVE AuditInv'
  BY <1>3, InsertKeepsInv DEF InsertEvent
<1>4. ASSUME NEW t \in Threads, SaveNewPack(t) PROVE AuditInv'
  <2>1. CASE packRows[<<writing[t].account, writing[t].pack>>] = NoPackRow
    BY <1>4, <2>1, InsertKeepsInv DEF SaveNewPack, Locks, InsertInTransaction
  <2>2. CASE packRows[<<writing[t].account, writing[t].pack>>] # NoPackRow
    BY <1>4, <2>2, WorkKeepsInv DEF SaveNewPack, Finished
  <2> QED BY <2>1, <2>2
<1>5. ASSUME NEW t \in Threads, SaveExtracted(t) PROVE AuditInv'
  BY <1>5, InsertKeepsInv DEF SaveExtracted, Locks, InsertInTransaction
<1>6. ASSUME NEW t \in Threads, SaveDraft(t) PROVE AuditInv'
  BY <1>6, InsertKeepsInv DEF SaveDraft, Locks, InsertInTransaction
<1>7. ASSUME NEW t \in Threads, WriteFails(t) PROVE AuditInv'
  BY <1>7, WorkKeepsInv DEF WriteFails, Finished
<1>8. ASSUME NextDay PROVE AuditInv'
  <2>1. today \in Nat /\ today' = today + 1 /\ today' \in Nat
    BY <1>0, <1>8 DEF NextDay, AuditTypes
  <2>2. 0 .. today \subseteq 0 .. today'
    BY <2>1
  <2>3. /\ \A e : EventFacts(e, today) => EventFacts(e, today')
        /\ \A w : WorkFacts(w, today) => WorkFacts(w, today')
    BY <2>2 DEF EventFacts, WorkFacts
  <2>4. AuditTypes'
    BY <1>0, <1>8, <2>1, <2>2, <2>3 DEF AuditTypes, NextDay, Busy
  <2> QED BY <1>8, <2>4 DEF AuditInv, NextDay, OneOwner, PacksHaveHistory, Recorded
<1>9. ASSUME UNCHANGED auditVars PROVE AuditInv'
  <2>1. AuditTypes'
    BY <1>0, <1>9 DEF AuditTypes, auditVars, Busy
  <2> QED BY <1>9, <2>1 DEF AuditInv, auditVars, OneOwner, PacksHaveHistory, Recorded
<1> QED BY <1>1, <1>2, <1>3, <1>4, <1>5, <1>6, <1>7, <1>8, <1>9, DeletionKeepsInv,
           RetentionKeepsInv, ClaimKeepsInv DEF AuditNext

LEMMA AuditInvHolds == AuditSpec => []AuditInv
BY InitHasInv, StepKeepsInv, PTL DEF AuditSpec

-----------------------------------------------------------------------------
(* One process: nobody writes while a thread holds the lock.               *)

OneProcess == Threads \subseteq ServerThreads

LEMMA ReadIsLastHash ==
    \A s : HashOf(ChainOf(s)) = LastHash(events, ChainRows(events, s))
BY DEF HashOf, ChainOf, LastHash, ChainRows

LEMMA NobodyHolds ==
    ASSUME OneProcess, NEW t \in Threads, LockFree(t) PROVE \A u \in Threads : ~Holds(writing[u])
BY DEF OneProcess, LockFree, SameProcess, Busy, Holds

\* An insertion behind the head of the chain, after which nobody holds the lock.
LEMMA InsertKeepsLinks ==
    ASSUME AuditTypes, LockInv, NEW t \in Threads, Busy(t), NEW previous, InsertRow(t, previous),
           Finished(t), today' = today,
           previous = LastHash(events, ChainRows(events, writing[t].account)),
           \A u \in Threads : Holds(writing[u]) => u = t
    PROVE  LockInv'
<1> DEFINE n == lastId
<1>1. /\ n \in Nat /\ DOMAIN events \subseteq 1 .. n /\ n + 1 \notin DOMAIN events
      /\ DOMAIN events' = DOMAIN events \cup {n + 1}
      /\ \A i \in DOMAIN events : events'[i] = events[i]
      /\ events'[n + 1].session = writing[t].account /\ events'[n + 1].previous = previous
  <2>1. n \in Nat /\ DOMAIN events \subseteq 1 .. n
    BY DEF AuditTypes
  <2>2. /\ lastId' = n + 1 /\ DOMAIN events' = DOMAIN events \cup {lastId'}
        /\ lastId' \notin DOMAIN events
        /\ \A i \in DOMAIN events : events'[i] = events[i]
        /\ events'[lastId'] = RowOf(t, previous)
    BY RowInserted
  <2>3. /\ RowOf(t, previous).session = writing[t].account
        /\ RowOf(t, previous).previous = previous
    BY RowAsAsked
  <2> QED BY <2>1, <2>2, <2>3
<1>2. ASSUME NEW s \in AuditSessions PROVE Chained(events', ChainRows(events', s))
  <2> DEFINE ids == ChainRows(events, s)
  <2>1. /\ Chained(events, ids) /\ ids \in SUBSET (1 .. n)
        /\ \A i \in ids : /\ events'[i].hash = events[i].hash
                          /\ events'[i].previous = events[i].previous
    BY <1>1 DEF LockInv, ChainsLinked, ChainRows
  <2>2. CASE s = writing[t].account
    <3>1. ChainRows(events', s) = ids \cup {n + 1}
      BY <1>1, <2>2 DEF ChainRows
    <3>2. events'[n + 1].previous = LastHash(events, ids)
      BY <1>1, <2>2
    <3> HIDE DEF ids, n
    <3> QED BY <1>1, <2>1, <3>1, <3>2, ChainGrows
  <2>3. CASE s # writing[t].account
    <3>1. ChainRows(events', s) = ids
      BY <1>1, <2>3 DEF ChainRows
    <3> HIDE DEF ids, n
    <3> QED BY <1>1, <2>1, <3>1, ChainKept
  <2> QED BY <2>2, <2>3
<1>3. \A u \in Threads : ~Holds(writing'[u])
  <2>1. DOMAIN writing = Threads
    BY DEF AuditTypes
  <2> QED BY <2>1 DEF Finished, Holds
<1> QED BY <1>2, <1>3 DEF LockInv, HeadsAreCurrent, OneHolder, ChainsLinked

\* Rows that go or stay as whole chains, while nobody holds the lock or no hash changes.
LEMMA WholeChainsKeepLinks ==
    ASSUME AuditTypes, LockInv, DOMAIN events' \subseteq DOMAIN events,
           \A i \in DOMAIN events' :
               /\ events'[i].session = events[i].session /\ events'[i].hash = events[i].hash
               /\ events'[i].previous = events[i].previous,
           \A i, j \in DOMAIN events :
               (events[i].session = events[j].session /\ i \in DOMAIN events')
                   => j \in DOMAIN events',
           writing' = writing,
           DOMAIN events' = DOMAIN events \/ \A u \in Threads : ~Holds(writing[u])
    PROVE  LockInv'
<1>0. lastId \in Nat /\ DOMAIN events \subseteq 1 .. lastId
  BY DEF AuditTypes
<1>1. ASSUME NEW s \in AuditSessions PROVE Chained(events', ChainRows(events', s))
  <2> DEFINE ids == ChainRows(events, s)
  <2>1. CASE ChainRows(events', s) = {}
    BY <2>1 DEF Chained
  <2>2. CASE ChainRows(events', s) # {}
    <3>1. PICK i \in DOMAIN events' : events'[i].session = s
      BY <2>2 DEF ChainRows
    <3>2. \A j \in ids : j \in DOMAIN events'
      BY <3>1 DEF ChainRows
    <3>3. ChainRows(events', s) = ids
      BY <3>2 DEF ChainRows
    <3>4. /\ Chained(events, ids) /\ ids \in SUBSET (1 .. lastId)
          /\ \A j \in ids : /\ events'[j].hash = events[j].hash
                            /\ events'[j].previous = events[j].previous
      BY <1>0, <3>2 DEF LockInv, ChainsLinked, ChainRows
    <3> HIDE DEF ids
    <3> QED BY <1>0, <3>3, <3>4, ChainKept
  <2> QED BY <2>1, <2>2
<1>2. ASSUME NEW t \in Threads, Holds(writing[t])
      PROVE  writing[t].previous = LastHash(events', ChainRows(events', writing[t].account))
  <2> DEFINE ids == ChainRows(events, writing[t].account)
  <2>1. DOMAIN events' = DOMAIN events
    BY <1>2
  <2>2. ChainRows(events', writing[t].account) = ids
    BY <2>1 DEF ChainRows
  <2>3. /\ writing[t].previous = LastHash(events, ids) /\ ids \in SUBSET (1 .. lastId)
        /\ \A j \in ids : events'[j].hash = events[j].hash
    BY <1>0, <1>2, <2>1 DEF LockInv, HeadsAreCurrent, ChainRows
  <2> HIDE DEF ids
  <2> QED BY <1>0, <2>2, <2>3, LastHashKept
<1> QED BY <1>1, <1>2 DEF LockInv, HeadsAreCurrent, OneHolder, ChainsLinked

\* The work of t changes, to none or to a head that it has just read.
LEMMA WorkKeepsLinks ==
    ASSUME AuditTypes, LockInv, NEW t \in Threads, NEW w, writing' = [writing EXCEPT ![t] = w],
           events' = events,
           \/ ~Holds(w)
           \/ /\ \A u \in Threads : ~Holds(writing[u])
              /\ w.previous = LastHash(events, ChainRows(events, w.account))
    PROVE  LockInv'
<1>1. /\ DOMAIN writing = Threads /\ writing'[t] = w
      /\ \A u \in Threads : u # t => writing'[u] = writing[u]
  BY DEF AuditTypes
<1>2. HeadsAreCurrent'
  BY <1>1 DEF LockInv, HeadsAreCurrent
<1>3. OneHolder'
  BY <1>1 DEF LockInv, OneHolder
<1> QED BY <1>2, <1>3 DEF LockInv, ChainsLinked

LEMMA InitHasLinks == AuditInit => LockInv
<1> SUFFICES ASSUME AuditInit PROVE LockInv
  OBVIOUS
<1>1. \A t \in Threads : ~Holds(writing[t])
  BY DEF AuditInit, Holds
<1>2. ASSUME NEW s \in AuditSessions PROVE Chained(events, ChainRows(events, s))
  <2>1. CASE events = [i \in {} |-> NoHash]
    BY <2>1 DEF Chained, ChainRows
  <2>2. CASE \E p \in Packs : events = LegacyChain(p)
    <3>1. PICK p \in Packs : events = LegacyChain(p)
      BY <2>2
    <3> DEFINE first == LegacyEvent(p, NoHash)
    <3>2. /\ DOMAIN events = {1, 2} /\ events[1] = first
          /\ events[2] = LegacyEvent(p, first.hash)
      BY <3>1 DEF LegacyChain
    <3> HIDE DEF first
    <3>3. first.previous = NoHash /\ first.session = LegacySession
      BY DEF first, LegacyEvent, NewEvent
    <3>4. events[2].previous = first.hash /\ events[2].session = LegacySession
      BY <3>2 DEF LegacyEvent, NewEvent
    <3>5. CASE s # LegacySession
      BY <3>2, <3>3, <3>4, <3>5 DEF Chained, ChainRows
    <3>6. CASE s = LegacySession
      <4>1. ChainRows(events, s) = {1, 2}
        BY <3>2, <3>3, <3>4, <3>6 DEF ChainRows
      <4>2. {j \in {1, 2} : j < 1} = {} /\ {j \in {1, 2} : j < 2} = {1}
        OBVIOUS
      <4>3. NewestRow({1}) = 1
        BY DEF NewestRow
      <4>4. LastHash(events, {}) = NoHash /\ LastHash(events, {1}) = first.hash
        BY <3>2, <4>3 DEF LastHash
      <4> QED BY <3>2, <3>3, <3>4, <4>1, <4>2, <4>4 DEF Chained
    <3> QED BY <3>5, <3>6
  <2> QED BY <2>1, <2>2 DEF AuditInit
<1> QED BY <1>1, <1>2 DEF LockInv, HeadsAreCurrent, OneHolder, ChainsLinked

\* Every step of one process keeps the chains linked.
LEMMA StepKeepsLinks ==
    ASSUME OneProcess PROVE AuditInv /\ LockInv /\ [AuditNext]_auditVars => LockInv'
<1> SUFFICES ASSUME AuditInv, LockInv, [AuditNext]_auditVars PROVE LockInv'
  OBVIOUS
<1>0. AuditTypes /\ OneOwner
  BY DEF AuditInv
<1>1. ASSUME NEW t \in Threads, NEW a \in AuditAccounts, NEW action \in EventActions,
             NEW p \in Packs, Ask(t, a, action, p)
      PROVE  LockInv'
  <2> DEFINE w == [account |-> a, action |-> action, pack |-> p, at |-> today,
                   locked |-> FALSE, previous |-> NoHash]
  <2>1. ~Holds(w)
    BY DEF Holds
  <2>2. writing' = [writing EXCEPT ![t] = w] /\ events' = events
    BY <1>1 DEF Ask
  <2> HIDE DEF w
  <2> QED BY <1>0, <2>1, <2>2, WorkKeepsLinks
<1>2. ASSUME NEW t \in Threads, ReadHead(t) PROVE LockInv'
  <2> DEFINE head == HashOf(ChainOf(writing[t].account))
             w == [writing[t] EXCEPT !.locked = TRUE, !.previous = head]
  <2>1. WorkFacts(writing[t], today)
    BY <1>0, <1>2 DEF ReadHead, Locks, AuditTypes
  <2>2. head = LastHash(events, ChainRows(events, writing[t].account))
    BY ReadIsLastHash
  <2>3. writing' = [writing EXCEPT ![t] = w] /\ events' = events
    BY <1>2 DEF ReadHead
  <2>4. \A u \in Threads : ~Holds(writing[u])
    BY <1>2, NobodyHolds DEF ReadHead, Locks
  <2> HIDE DEF head
  <2>5. w.account = writing[t].account /\ w.previous = head
    BY <2>1 DEF WorkFacts
  <2> HIDE DEF w
  <2> QED BY <1>0, <2>2, <2>3, <2>4, <2>5, WorkKeepsLinks
<1>3. ASSUME NEW t \in Threads, InsertEvent(t) PROVE LockInv'
  <2>1. Holds(writing[t]) /\ Busy(t)
    BY <1>3 DEF InsertEvent, Busy, Holds
  <2>2. /\ writing[t].previous = LastHash(events, ChainRows(events, writing[t].account))
        /\ \A u \in Threads : Holds(writing[u]) => u = t
    BY <2>1 DEF LockInv, HeadsAreCurrent, OneHolder
  <2> QED BY <1>0, <1>3, <2>1, <2>2, InsertKeepsLinks DEF InsertEvent
<1>4. ASSUME NEW t \in Threads, Busy(t), LockFree(t), InsertInTransaction(t), Finished(t),
             today' = today
      PROVE  LockInv'
  <2>1. /\ \A u \in Threads : ~Holds(writing[u])
        /\ HashOf(ChainOf(writing[t].account)) =
               LastHash(events, ChainRows(events, writing[t].account))
    BY <1>4, NobodyHolds, ReadIsLastHash
  <2> QED BY <1>0, <1>4, <2>1, InsertKeepsLinks DEF InsertInTransaction
<1>5. ASSUME NEW t \in Threads, Finished(t), events' = events PROVE LockInv'
  BY <1>0, <1>5, WorkKeepsLinks DEF Finished, Holds
<1>6. ASSUME NEW t \in Threads, SaveNewPack(t) PROVE LockInv'
  <2>1. CASE packRows[<<writing[t].account, writing[t].pack>>] = NoPackRow
    BY <1>4, <1>6, <2>1 DEF SaveNewPack, Locks
  <2>2. CASE packRows[<<writing[t].account, writing[t].pack>>] # NoPackRow
    BY <1>5, <1>6, <2>2 DEF SaveNewPack
  <2> QED BY <2>1, <2>2
<1>7. ASSUME NEW t \in Threads, SaveExtracted(t) PROVE LockInv'
  BY <1>4, <1>7 DEF SaveExtracted, Locks
<1>8. ASSUME NEW t \in Threads, SaveDraft(t) PROVE LockInv'
  BY <1>4, <1>8 DEF SaveDraft, Locks
<1>9. ASSUME NEW t \in Threads, WriteFails(t) PROVE LockInv'
  BY <1>5, <1>9 DEF WriteFails
<1>10. ASSUME LoopHasLock PROVE \A u \in Threads : ~Holds(writing[u])
  BY <1>10, AuditAssumption, NobodyHolds DEF LoopHasLock
<1>11. ASSUME NEW account \in AuditAccounts, DeleteAccountData(account) PROVE LockInv'
  <2> DEFINE ids == {i \in DOMAIN events : events[i].owner # account}
  <2>1. DOMAIN events' = ids /\ \A i \in ids : events'[i] = events[i]
    BY <1>11 DEF DeleteAccountData, KeepEvents
  <2>2. \A i, j \in DOMAIN events :
           (events[i].session = events[j].session /\ i \in ids) => j \in ids
    BY <1>0 DEF OneOwner
  <2>3. writing' = writing /\ \A u \in Threads : ~Holds(writing[u])
    BY <1>10, <1>11 DEF DeleteAccountData
  <2>4. ids \subseteq DOMAIN events
    OBVIOUS
  <2> HIDE DEF ids
  <2> QED BY <1>0, <2>1, <2>2, <2>3, <2>4, WholeChainsKeepLinks
<1>12. ASSUME EnforceRetention PROVE LockInv'
  <2>1. DOMAIN events' = FreshChains /\ \A i \in FreshChains : events'[i] = events[i]
    BY <1>12 DEF EnforceRetention, KeepEvents
  <2>2. /\ FreshChains \subseteq DOMAIN events
        /\ \A i, j \in DOMAIN events :
              (events[i].session = events[j].session /\ i \in FreshChains) => j \in FreshChains
    BY DEF FreshChains
  <2>3. writing' = writing /\ \A u \in Threads : ~Holds(writing[u])
    BY <1>10, <1>12 DEF EnforceRetention
  <2> QED BY <1>0, <2>1, <2>2, <2>3, WholeChainsKeepLinks
<1>13. ASSUME ClaimLegacyRecords PROVE LockInv'
  <2> DEFINE NowOwnedBy(o) == IF o = Unowned THEN Administrator ELSE o
  <2>1. /\ DOMAIN events' = DOMAIN events /\ writing' = writing
        /\ \A i \in DOMAIN events :
              events'[i] = [events[i] EXCEPT !.owner = NowOwnedBy(events[i].owner)]
    BY <1>13 DEF ClaimLegacyRecords
  <2>2. ASSUME NEW i \in DOMAIN events'
        PROVE  /\ events'[i].session = events[i].session /\ events'[i].hash = events[i].hash
               /\ events'[i].previous = events[i].previous
    <3>1. EventFacts(events[i], today)
      BY <1>0, <2>1, <2>2 DEF AuditTypes
    <3> QED BY <2>1, <2>2, <3>1 DEF EventFacts
  <2> QED BY <1>0, <2>1, <2>2, WholeChainsKeepLinks
<1>14. ASSUME NextDay PROVE LockInv'
  BY <1>14 DEF NextDay, LockInv, HeadsAreCurrent, OneHolder, ChainsLinked
<1>15. ASSUME UNCHANGED auditVars PROVE LockInv'
  BY <1>15 DEF auditVars, LockInv, HeadsAreCurrent, OneHolder, ChainsLinked
<1> QED BY <1>1, <1>2, <1>3, <1>6, <1>7, <1>8, <1>9, <1>11, <1>12, <1>13, <1>14, <1>15
        DEF AuditNext

\* What an account owns of a chain is all of it or nothing, so the walk finds it valid.
LEMMA LinksVerify == AuditInv /\ LockInv => ChainsVerify
<1> SUFFICES ASSUME AuditInv, LockInv, NEW a \in AuditAccounts, NEW s \in AuditSessions
             PROVE  Linked(OwnedRows(a, s))
  BY DEF ChainsVerify, ChainsValid
<1>1. AuditTypes /\ OneOwner /\ Chained(events, ChainRows(events, s))
  BY DEF AuditInv, LockInv, ChainsLinked
<1>2. CASE OwnedRows(a, s) = {}
  BY <1>2 DEF Linked
<1>3. CASE OwnedRows(a, s) # {}
  <2>1. OwnedRows(a, s) = ChainOf(s)
    BY <1>1, <1>3 DEF OwnedRows, ChainOf, OwnerOf, OneOwner
  <2>2. ASSUME NEW i \in ChainOf(s)
        PROVE  /\ events[i].previous = HashOf({j \in ChainOf(s) : j < i})
               /\ events[i].hash = EventHash(events[i].session, events[i].action,
                      events[i].pack, events[i].previous, events[i].at)
    <3>1. i \in ChainRows(events, s) /\ ChainRows(events, s) = ChainOf(s)
      BY DEF ChainOf, ChainRows
    <3>2. EventFacts(events[i], today)
      BY <1>1 DEF AuditTypes, ChainOf
    <3> QED BY <1>1, <3>1, <3>2 DEF Chained, HashOf, LastHash, EventFacts
  <2> QED BY <2>1, <2>2 DEF Linked
<1> QED BY <1>2, <1>3

\* The types of the audit chain, of the packs and drafts saved with it, and of what each
\* thread is writing.
THEOREM AuditTypesHold == AuditSpec => []AuditTypeOK
<1>1. AuditInv => AuditTypeOK
  BY TypesAgree DEF AuditInv
<1> QED BY <1>1, AuditInvHolds, PTL

\* A stored pack or draft always has an audit event of its last change, whatever was
\* deleted, claimed or expired, and whatever processes write.
THEOREM PacksKeepHistory == AuditSpec => []PacksHaveHistory
<1>1. AuditInv => PacksHaveHistory
  BY DEF AuditInv
<1> QED BY <1>1, AuditInvHolds, PTL

\* When one process writes, verifyAuditChain finds every chain of every account valid.
THEOREM ChainsStayValid == ASSUME OneProcess PROVE AuditSpec => []ChainsVerify
<1>1. AuditInit => LockInv
  BY InitHasLinks
<1>2. AuditInv /\ LockInv /\ [AuditNext]_auditVars => LockInv'
  BY StepKeepsLinks
<1>3. AuditInv /\ LockInv => ChainsVerify
  BY LinksVerify
<1> QED BY <1>1, <1>2, <1>3, AuditInvHolds, PTL DEF AuditSpec

-----------------------------------------------------------------------------
(* The registration of the site.                                           *)

\* What the files of the site hold, where nginx listens, the rules there are, and the steps.
Contents == {"public", "loopback", "none", "file", "inner", "raw", "safe"}
Listeners == {"888", "loopback", "80", "18080", "inner"}
AllRules == Networks \cup {Foreign}
Steps == Trying \cup Undoing \cup {"idle", "clean"}

\* The types, with what the files hold.
SiteRows ==
    /\ disk \in [Files -> Contents]
    /\ panel \in [site : BOOLEAN, proxy : BOOLEAN, opened : BOOLEAN]
    /\ nginx \in [running : BOOLEAN, unit : BOOLEAN, listens : SUBSET Listeners, logs : Contents]
    /\ script \in [pc : Steps, expected : AllRules, wasRunning : BOOLEAN,
                   snapshot : [Files -> Contents] \cup {<<>>}, before : SUBSET AllRules,
                   mutated : BOOLEAN, restored : 0..7]
    /\ rules \subseteq AllRules
    /\ faults \in 0..MaxFaults /\ starts \in 0..MaxStarts /\ spoiled \in BOOLEAN

\* The rules the script may touch, and the steps before and after it has added its own.
Own(set) == set \ {Foreign}
Early == {"clean", "default", "config", "status", "vhost", "check", "proxy", "vhostAgain", "traffic",
          "safeLog", "checkAgain", "rule"}
Late == {"prune", "nginx", "probe"}

\* the script can be run on these files
Startable(d) == ~(d["default"] = "file" /\ d["defaultOff"] = "file") /\ d["status"] # d["statusOff"]

\* Where the script is tells which rules are there: untouched before its own is added, its
\* own from then on, those it found once it has undone what it did.
RulesStand ==
    /\ script.pc \in Early => ~script.mutated /\ Own(rules) = Own(script.before)
    /\ script.pc \in Late => script.expected \in rules
    /\ script.pc \in Late /\ ~script.mutated =>
          script.before = {script.expected} /\ Own(rules) = {script.expected}
    /\ script.pc \in {"nginx", "probe"} => rules \subseteq {script.expected, Foreign}
    /\ script.pc = "undoDelete" /\ ~spoiled => script.before \subseteq rules
    /\ script.pc \in {"restore", "restoreNginx"} /\ ~spoiled => Own(rules) = Own(script.before)
    /\ script.pc \notin {"idle"} => script.expected \in Networks

\* The files can be started on, and so is the snapshot they are restored from; the managed
\* files are restored one after the other.
FilesStand ==
    /\ script.pc \in Trying \cup {"idle", "clean"} /\ ~spoiled => Startable(disk)
    /\ script.pc \in Trying \cup Undoing => script.snapshot \in [Files -> Contents]
    /\ script.pc \in Trying \cup Undoing /\ ~spoiled => Startable(script.snapshot)
    /\ script.pc \notin {"idle", "restore", "restoreNginx"} => script.restored = 0
    /\ script.pc = "restore" =>
          /\ script.restored < 7
          /\ \A i \in 1..script.restored : disk[Managed[i]] = script.snapshot[Managed[i]]
    /\ script.pc = "restoreNginx" => disk = script.snapshot

\* What the steps already done have left in the files is what nginx serves.
ServesInside ==
    /\ script.pc \in {"checkAgain", "rule", "prune", "nginx"} => disk["log"] = "safe"
    /\ script.pc \in {"rule", "prune", "nginx"} => Closed(disk)
    /\ script.pc = "probe" => nginx.listens = {"loopback", "inner"} /\ nginx.logs = "safe"
    /\ script.pc \in Trying => ~panel.opened

\* The inductive invariant of the registration.
SiteInv == SiteRows /\ RulesStand /\ FilesStand /\ ServesInside

\* a step that only moves the script keeps the other fields
LEMMA Moved ==
    ASSUME SiteRows, NEW pc \in Steps, GotoStep(pc)
    PROVE  /\ script'.pc = pc /\ script'.expected = script.expected
           /\ script'.wasRunning = script.wasRunning /\ script'.snapshot = script.snapshot
           /\ script'.before = script.before /\ script'.mutated = script.mutated
           /\ script'.restored = script.restored
           /\ script' \in [pc : Steps, expected : AllRules, wasRunning : BOOLEAN,
                   snapshot : [Files -> Contents] \cup {<<>>}, before : SUBSET AllRules,
                   mutated : BOOLEAN, restored : 0..7]
BY DEF SiteRows, GotoStep

\* the listeners of a configuration are among those there are
LEMMA EndpointsAre == \A d : Endpoints(d) \subseteq Listeners
BY DEF Endpoints, Listeners

\* a step of the try block that keeps the files startable, or is the first of the undoing
LEMMA TryingFiles ==
    ASSUME SiteRows, FilesStand, script.pc \in Trying, NEW pc \in Steps, GotoStep(pc),
           UNCHANGED spoiled, pc \in Trying \cup {"idle", "undoAdd", "restore"},
           pc = "restore" => script.restored = 0,
           pc \in Trying \cup {"idle"} /\ ~spoiled => Startable(disk')
    PROVE  FilesStand'
<1> USE DEF Trying, Undoing
<1>1. /\ script'.pc = pc /\ script'.snapshot = script.snapshot
      /\ script'.restored = script.restored /\ spoiled' = spoiled
  BY Moved
<1>2. script.restored = 0 /\ script.snapshot \in [Files -> Contents]
  BY DEF FilesStand
<1>3. script.pc \in Trying /\ ~spoiled => Startable(script.snapshot)
  BY DEF FilesStand
<1> QED BY <1>1, <1>2, <1>3 DEF FilesStand

LEMMA DisableDefaultFiles == ASSUME SiteRows, FilesStand, DisableDefault PROVE FilesStand'
<1> DEFINE c == IF disk["default"] = "file" THEN MovedAside("default", "defaultOff") ELSE disk
<1>0. Undo \in {"undoAdd", "restore"} /\ script.pc = "default" /\ "default" \in Trying
  BY DEF Undo, DisableDefault, Try, AtStep, Trying
<1>1. /\ UNCHANGED spoiled
      /\ \/ GotoStep("config") /\ disk' = c
            /\ ~(disk["default"] = "file" /\ disk["defaultOff"] = "file")
         \/ GotoStep(Undo)
  BY DEF DisableDefault, Try
<1>2. ~spoiled /\ disk' = c => Startable(disk')
  BY <1>0 DEF FilesStand, Startable, SiteRows, MovedAside, Files, Trying
<1>3. script.restored = 0
  BY <1>0 DEF FilesStand
<1>4. {"config", "undoAdd", "restore"} \subseteq Steps /\ "config" \in Trying
  BY DEF Steps, Trying, Undoing
<1>5. CASE GotoStep("config") /\ disk' = c
  BY <1>0, <1>1, <1>2, <1>4, <1>5, TryingFiles
<1>6. CASE GotoStep(Undo)
  BY <1>0, <1>1, <1>3, <1>4, <1>6, TryingFiles DEF Trying
<1> QED BY <1>1, <1>5, <1>6

LEMMA DisableStatusFiles == ASSUME SiteRows, FilesStand, DisableStatus PROVE FilesStand'
<1> DEFINE c == IF disk["status"] = "file" THEN MovedAside("status", "statusOff") ELSE disk
<1>0. Undo \in {"undoAdd", "restore"} /\ script.pc = "status" /\ "status" \in Trying
  BY DEF Undo, DisableStatus, Try, AtStep, Trying
<1>1. /\ UNCHANGED spoiled
      /\ \/ GotoStep("vhost") /\ disk' = c
         \/ GotoStep(Undo)
  BY DEF DisableStatus, Try
<1>2. ~spoiled /\ disk' = c => Startable(disk')
  BY <1>0 DEF FilesStand, Startable, SiteRows, MovedAside, Files, Trying
<1>3. script.restored = 0
  BY <1>0 DEF FilesStand
<1>4. {"vhost", "undoAdd", "restore"} \subseteq Steps /\ "vhost" \in Trying
  BY DEF Steps, Trying, Undoing
<1>5. CASE GotoStep("vhost") /\ disk' = c
  BY <1>0, <1>1, <1>2, <1>4, <1>5, TryingFiles
<1>6. CASE GotoStep(Undo)
  BY <1>0, <1>1, <1>3, <1>4, <1>6, TryingFiles DEF Trying
<1> QED BY <1>1, <1>5, <1>6

LEMMA LogFiles == ASSUME SiteRows, FilesStand, EnableTraffic \/ InstallSafeLog PROVE FilesStand'
<1>0. script.pc \in {"traffic", "safeLog"} /\ script.pc \in Trying
  BY DEF EnableTraffic, InstallSafeLog, Try, AtStep, Trying
<1>1. /\ UNCHANGED spoiled
      /\ GotoStep("safeLog") \/ GotoStep("checkAgain")
      /\ \/ disk' = disk \/ \E logs \in {"raw", "safe"} : disk' = [disk EXCEPT !["log"] = logs]
  BY DEF EnableTraffic, InstallSafeLog, Try
<1>2. ~spoiled => Startable(disk')
  BY <1>0, <1>1 DEF FilesStand, Startable, SiteRows, Files
<1>3. {"safeLog", "checkAgain"} \subseteq Steps \cap Trying
  BY DEF Steps, Trying
<1> QED BY <1>0, <1>1, <1>2, <1>3, TryingFiles

LEMMA AddRuleRows == ASSUME SiteRows, AddRule PROVE SiteRows'
<1>1. CASE Foreign \in rules
  <2>1. GotoStep("restore") /\ "restore" \in Steps /\ UNCHANGED <<disk, panel, nginx, rules, faults, starts, spoiled>>
    BY <1>1 DEF AddRule, Steps, Undoing
  <2> QED BY <2>1, Moved DEF SiteRows
<1>2. CASE Foreign \notin rules
  <2>1. /\ rules' = rules \union {script.expected}
        /\ script' = [script EXCEPT !.pc = "prune", !.before = rules,
                                    !.mutated = rules # {script.expected}]
        /\ UNCHANGED <<disk, panel, nginx, faults, starts, spoiled>>
    BY <1>2 DEF AddRule
  <2>2. "prune" \in Steps /\ rules \in SUBSET AllRules /\ script.expected \in AllRules
        /\ (rules # {script.expected}) \in BOOLEAN
    BY DEF Steps, Trying, SiteRows
  <2> QED BY <2>1, <2>2 DEF SiteRows
<1> QED BY <1>1, <1>2

LEMMA AddRuleFiles == ASSUME SiteRows, FilesStand, AddRule PROVE FilesStand'
<1>0. script.pc = "rule" /\ script.pc \in Trying
  BY DEF AddRule, AtStep, Trying
<1>1. CASE Foreign \in rules
  <2>1. GotoStep("restore") /\ "restore" \in Steps /\ UNCHANGED <<disk, spoiled>>
    BY <1>1 DEF AddRule, Steps, Undoing
  <2>2. script.restored = 0
    BY <1>0 DEF FilesStand
  <2> QED BY <1>0, <2>1, <2>2, TryingFiles DEF Trying
<1>2. CASE Foreign \notin rules
  <2>1. /\ script' = [script EXCEPT !.pc = "prune", !.before = rules,
                                    !.mutated = rules # {script.expected}]
        /\ UNCHANGED <<disk, spoiled>>
    BY <1>2 DEF AddRule
  <2>2. /\ script'.pc = "prune" /\ script'.snapshot = script.snapshot
        /\ script'.restored = script.restored
    BY <2>1 DEF SiteRows
  <2> QED BY <1>0, <2>1, <2>2 DEF FilesStand, Trying, Undoing
<1> QED BY <1>1, <1>2

LEMMA AddRuleRules == ASSUME SiteRows, RulesStand, AddRule PROVE RulesStand' /\ NoFirewallGap
<1>0. script.pc = "rule" /\ spoiled' = spoiled /\ ~script.mutated /\ Own(rules) = Own(script.before)
      /\ script.expected \in Networks
  BY DEF AddRule, AtStep, RulesStand, Early
<1>1. CASE Foreign \in rules
  <2>1. GotoStep("restore") /\ "restore" \in Steps /\ UNCHANGED rules
    BY <1>1 DEF AddRule, Steps, Undoing
  <2>2. /\ script'.pc = "restore" /\ script'.before = script.before
        /\ script'.expected = script.expected
    BY <2>1, Moved
  <2> QED BY <1>0, <2>1, <2>2 DEF RulesStand, NoFirewallGap, Early, Late
<1>2. CASE Foreign \notin rules
  <2>1. /\ rules' = rules \union {script.expected}
        /\ script' = [script EXCEPT !.pc = "prune", !.before = rules,
                                    !.mutated = rules # {script.expected}]
    BY <1>2 DEF AddRule
  <2>2. /\ script'.pc = "prune" /\ script'.before = rules /\ script'.expected = script.expected
        /\ script'.mutated = (rules # {script.expected})
    BY <2>1 DEF SiteRows
  <2>3. script.expected # Foreign
    BY <1>0, SiteAssumption
  <2>4. ~script'.mutated => script'.before = {script'.expected} /\ Own(rules') = {script'.expected}
    BY <2>1, <2>2, <2>3 DEF Own
  <2> QED BY <1>0, <2>1, <2>2, <2>4 DEF RulesStand, NoFirewallGap, Early, Late
<1> QED BY <1>1, <1>2

LEMMA EnsureProxyRows == ASSUME SiteRows, EnsureProxy PROVE SiteRows'
<1>1. GotoStep("vhostAgain") /\ "vhostAgain" \in Steps /\ UNCHANGED <<rules, faults, starts, spoiled>>
  BY DEF EnsureProxy, Steps, Trying
<1>2. disk' \in [Files -> Contents]
  BY DEF EnsureProxy, SiteRows, Write, Files, Contents
<1>3. panel' \in [site : BOOLEAN, proxy : BOOLEAN, opened : BOOLEAN]
  BY DEF EnsureProxy, SiteRows
<1>4. nginx' = nginx \/ nginx' = Loaded(disk, nginx)
  BY DEF EnsureProxy
<1>5. disk["log"] \in Contents /\ Endpoints(disk) \in SUBSET Listeners
  BY EndpointsAre DEF SiteRows, Files
<1>6. nginx' \in [running : BOOLEAN, unit : BOOLEAN, listens : SUBSET Listeners, logs : Contents]
  BY <1>4, <1>5 DEF SiteRows, Loaded
<1> QED BY <1>1, <1>2, <1>3, <1>6, Moved DEF SiteRows

LEMMA StartNginxRows == ASSUME SiteRows, StartNginx PROVE SiteRows'
<1>1. /\ UNCHANGED <<disk, panel, rules, faults, starts, spoiled>>
      /\ script' = script \/ GotoStep("probe")
      /\ "probe" \in Steps
  BY DEF StartNginx, Steps, Trying
<1>4. \/ nginx' = [nginx EXCEPT !.running = FALSE, !.listens = {}]
      \/ nginx' = Loaded(disk, [nginx EXCEPT !.running = TRUE, !.unit = TRUE])
  BY DEF StartNginx
<1>5. disk["log"] \in Contents /\ Endpoints(disk) \in SUBSET Listeners
  BY EndpointsAre DEF SiteRows, Files
<1>6. nginx' \in [running : BOOLEAN, unit : BOOLEAN, listens : SUBSET Listeners, logs : Contents]
  BY <1>4, <1>5 DEF SiteRows, Loaded
<1> QED BY <1>1, <1>6, Moved DEF SiteRows

LEMMA StartNginxInside == ASSUME SiteRows, ServesInside, StartNginx PROVE ServesInside'
<1>0. script.pc = "nginx" /\ disk["log"] = "safe" /\ Closed(disk) /\ ~panel.opened
      /\ disk' = disk /\ panel' = panel
  BY DEF StartNginx, AtStep, ServesInside, Trying
<1>1. CASE script' = script
  BY <1>0, <1>1 DEF ServesInside
<1>2. CASE script' # script
  <2>1. /\ nginx' = Loaded(disk, [nginx EXCEPT !.running = TRUE, !.unit = TRUE])
        /\ GotoStep("probe") /\ "probe" \in Steps
    BY <1>2 DEF StartNginx, Steps, Trying
  <2>2. script'.pc = "probe"
    BY <2>1, Moved
  <2>3. nginx'.listens = Endpoints(disk) /\ nginx'.logs = disk["log"]
    BY <2>1 DEF Loaded, SiteRows
  <2> QED BY <1>0, <2>2, <2>3 DEF ServesInside, Closed
<1> QED BY <1>1, <1>2

LEMMA RestoreFileRows == ASSUME SiteRows, FilesStand, RestoreFile PROVE SiteRows'
<1> DEFINE n == script.restored + 1
<1>1. /\ UNCHANGED <<panel, rules, nginx, faults, starts, spoiled>>
      /\ Write(Managed[n], PutBack(Managed[n]))
      /\ script' = [script EXCEPT !.restored = n,
                                  !.pc = IF n = Len(Managed) THEN "restoreNginx" ELSE "restore"]
      /\ script.pc = "restore"
  BY DEF RestoreFile, AtStep
<1>2. n \in 1..7 /\ script.snapshot \in [Files -> Contents]
  BY <1>1 DEF FilesStand, SiteRows, Undoing
<1>3. Managed[n] \in Files /\ Len(Managed) = 7
  BY <1>2 DEF Managed, Files
<1>4. disk' \in [Files -> Contents]
  BY <1>1, <1>2, <1>3 DEF Write, PutBack, Restored, SiteRows
<1>5. {"restoreNginx", "restore"} \subseteq Steps
  BY DEF Steps, Undoing
<1>6. n \in 0..7
  BY <1>2
<1> HIDE DEF n
<1>7. script' \in [pc : Steps, expected : AllRules, wasRunning : BOOLEAN,
                   snapshot : [Files -> Contents] \cup {<<>>}, before : SUBSET AllRules,
                   mutated : BOOLEAN, restored : 0..7]
  BY <1>1, <1>5, <1>6 DEF SiteRows
<1> QED BY <1>1, <1>4, <1>7 DEF SiteRows

LEMMA RestoreNginxEnds == ASSUME SiteInv, RestoreNginx PROVE EndsCleanly
<1>1. /\ script.pc = "restoreNginx" /\ spoiled' = spoiled
      /\ disk = script.snapshot /\ (~spoiled => Own(rules) = Own(script.before))
  BY DEF RestoreNginx, AtStep, SiteInv, FilesStand, RulesStand
<1>2. nginx'.running = script.wasRunning
  BY DEF RestoreNginx, Loaded, SiteInv, SiteRows
<1> QED BY <1>1, <1>2 DEF EndsCleanly, Own, AtStep

LEMMA AdminInterferesRows == ASSUME SiteRows, AdminInterferes PROVE SiteRows'
<1>1. rules' \subseteq AllRules
  BY DEF AdminInterferes, SiteRows, AllRules
<1>2. nginx' \in [running : BOOLEAN, unit : BOOLEAN, listens : SUBSET Listeners, logs : Contents]
  BY DEF AdminInterferes, SiteRows
<1> QED BY <1>1, <1>2 DEF AdminInterferes, SiteRows

LEMMA BeginRows ==
    ASSUME SiteRows, NEW network \in Networks, Begin(network) PROVE SiteRows'
<1>0. starts' \in 0..MaxStarts
  <2>1. starts < MaxStarts /\ starts' = starts + 1 /\ starts \in 0..MaxStarts /\ MaxStarts \in Nat
    BY SiteAssumption DEF Begin, SiteRows
  <2> QED BY ONLY <2>1
<1>1. /\ UNCHANGED <<rules, nginx, faults, spoiled>>
      /\ script' = [NoScript EXCEPT !.pc = "clean", !.expected = network,
                        !.wasRunning = nginx.running, !.before = rules]
  BY DEF Begin
<1>2. disk' \in [Files -> Contents]
  <2>1. disk' = disk \/ disk' = [disk EXCEPT !["vhost"] = "public"]
    BY DEF Begin, Write
  <2>2. "vhost" \in Files /\ "public" \in Contents /\ disk \in [Files -> Contents]
    BY DEF Files, Contents, SiteRows
  <2> QED BY ONLY <2>1, <2>2
<1>3. panel' \in [site : BOOLEAN, proxy : BOOLEAN, opened : BOOLEAN]
  BY DEF Begin, SiteRows
<1>4. script' = [pc |-> "clean", expected |-> network, wasRunning |-> nginx.running,
                 snapshot |-> <<>>, before |-> rules, mutated |-> FALSE, restored |-> 0]
  BY <1>1 DEF NoScript
<1>5. /\ "clean" \in Steps /\ network \in AllRules /\ nginx.running \in BOOLEAN
      /\ rules \in SUBSET AllRules /\ 0 \in 0..7
  BY DEF Steps, AllRules, SiteRows
<1>6. script' \in [pc : Steps, expected : AllRules, wasRunning : BOOLEAN,
                   snapshot : [Files -> Contents] \cup {<<>>}, before : SUBSET AllRules,
                   mutated : BOOLEAN, restored : 0..7]
  BY <1>4, <1>5
<1>7. rules' \subseteq AllRules
      /\ nginx' \in [running : BOOLEAN, unit : BOOLEAN, listens : SUBSET Listeners, logs : Contents]
      /\ faults' \in 0..MaxFaults /\ spoiled' \in BOOLEAN
  BY <1>1 DEF SiteRows
<1> QED BY <1>0, <1>2, <1>3, <1>6, <1>7 DEF SiteRows

LEMMA BeginFiles ==
    ASSUME SiteRows, FilesStand, NEW network \in Networks, Begin(network) PROVE FilesStand'
<1>1. /\ script.pc = "idle" /\ spoiled' = spoiled
      /\ script' = [pc |-> "clean", expected |-> network, wasRunning |-> nginx.running,
                 snapshot |-> <<>>, before |-> rules, mutated |-> FALSE, restored |-> 0]
      /\ disk' = disk \/ disk' = [disk EXCEPT !["vhost"] = "public"]
  BY DEF Begin, NoScript, Write, AtStep
<1>2. script'.pc = "clean" /\ script'.restored = 0
  BY <1>1
<1>3. ~spoiled => Startable(disk')
  BY <1>1 DEF FilesStand, Startable, SiteRows, Files
<1> QED BY <1>1, <1>2, <1>3 DEF FilesStand, Trying, Undoing

LEMMA RestoreFileFiles == ASSUME SiteRows, FilesStand, RestoreFile PROVE FilesStand'
<1> DEFINE n == script.restored + 1
<1>1. /\ UNCHANGED spoiled /\ disk' = [disk EXCEPT ![Managed[n]] = script.snapshot[Managed[n]]]
      /\ script' = [script EXCEPT !.restored = n,
                                  !.pc = IF n = Len(Managed) THEN "restoreNginx" ELSE "restore"]
      /\ script.pc = "restore"
  BY DEF RestoreFile, AtStep, Write, PutBack, Restored
<1>2. /\ script.restored \in 0..6 /\ n \in 1..7 /\ script.snapshot \in [Files -> Contents]
      /\ \A i \in 1..script.restored : disk[Managed[i]] = script.snapshot[Managed[i]]
  BY <1>1 DEF FilesStand, SiteRows, Undoing
<1>3. /\ Len(Managed) = 7 /\ \A i \in 1..7 : Managed[i] \in Files
      /\ \A f \in Files : \E i \in 1..7 : Managed[i] = f
  BY DEF Managed, Files
<1>4. \A i, j \in 1..7 : Managed[i] = Managed[j] => i = j
  BY DEF Managed
<1>5. /\ script'.snapshot = script.snapshot /\ script'.restored = n
      /\ script'.pc = IF n = 7 THEN "restoreNginx" ELSE "restore"
  BY <1>1, <1>3 DEF SiteRows
<1>6. ASSUME NEW i \in 1..n PROVE disk'[Managed[i]] = script.snapshot[Managed[i]]
  <2>1. i \in 1..7 /\ (i # n => i \in 1..script.restored)
    BY <1>2
  <2>2. disk \in [Files -> Contents]
    BY DEF SiteRows
  <2> QED BY <1>1, <1>2, <1>3, <1>4, <2>1, <2>2
<1>7. n = 7 => disk' = script.snapshot
  <2> SUFFICES ASSUME n = 7 PROVE disk' = script.snapshot
    OBVIOUS
  <2>1. disk' \in [Files -> Contents]
    BY <1>1, <1>2, <1>3 DEF SiteRows
  <2>2. \A f \in Files : disk'[f] = script.snapshot[f]
    BY <1>3, <1>6
  <2> QED BY <1>2, <2>1, <2>2
<1>8. ~spoiled => Startable(script.snapshot)
  BY <1>1 DEF FilesStand, Undoing
<1> HIDE DEF n
<1>9. n # 7 => n < 7
  BY <1>2
<1>10. CASE n = 7
  BY <1>1, <1>2, <1>5, <1>7, <1>8, <1>10 DEF FilesStand, Trying, Undoing
<1>11. CASE n # 7
  BY <1>1, <1>2, <1>5, <1>6, <1>8, <1>9, <1>11 DEF FilesStand, Trying, Undoing
<1> QED BY <1>10, <1>11

LEMMA KilledFiles == ASSUME SiteRows, FilesStand, Killed PROVE FilesStand'
<1>1. /\ script.pc # "idle" /\ GotoStep("idle") /\ disk' = disk
      /\ spoiled' = (spoiled \/ script.pc \in Undoing)
  BY DEF Killed, AtStep, world
<1>2. script'.pc = "idle"
  BY <1>1, Moved DEF Steps
<1>3. ~spoiled' => ~spoiled /\ script.pc \in Trying \cup {"idle", "clean"}
  BY <1>1 DEF SiteRows, Steps
<1>4. ~spoiled' => Startable(disk')
  BY <1>1, <1>3 DEF FilesStand
<1> QED BY <1>2, <1>4 DEF FilesStand, Trying, Undoing

LEMMA BeginInside ==
    ASSUME SiteRows, ServesInside, NEW network \in Networks, Begin(network) PROVE ServesInside'
<1>1. script' = [pc |-> "clean", expected |-> network, wasRunning |-> nginx.running,
                 snapshot |-> <<>>, before |-> rules, mutated |-> FALSE, restored |-> 0]
  BY DEF Begin, NoScript
<1>2. script'.pc = "clean"
  BY <1>1
<1> QED BY <1>2 DEF ServesInside, Trying

LEMMA ValidateConfigInside == ASSUME SiteRows, ServesInside, ValidateConfig PROVE ServesInside'
<1>1. /\ UNCHANGED <<disk, panel, nginx>>
      /\ \/ script.pc = "check" /\ GotoStep("proxy")
         \/ script.pc = "checkAgain" /\ GotoStep("rule") /\ Closed(disk)
         \/ script.pc \in {"check", "checkAgain"} /\ GotoStep(Undo)
  BY DEF ValidateConfig, Try, AtStep
<1>2. {"proxy", "rule", "undoAdd", "restore"} \subseteq Steps /\ Undo \in {"undoAdd", "restore"}
  BY DEF Steps, Trying, Undoing, Undo
<1>3. ~panel.opened /\ (script.pc = "checkAgain" => disk["log"] = "safe")
  BY <1>1 DEF ServesInside, Trying
<1>4. CASE script.pc = "check" /\ GotoStep("proxy")
  <2>1. script'.pc = "proxy"
    BY <1>2, <1>4, Moved
  <2> QED BY <1>1, <1>3, <2>1 DEF ServesInside
<1>5. CASE script.pc = "checkAgain" /\ GotoStep("rule") /\ Closed(disk)
  <2>1. script'.pc = "rule" /\ disk' = disk /\ Closed(disk')
    BY <1>1, <1>2, <1>5, Moved DEF Closed, Endpoints
  <2> QED BY <1>1, <1>3, <1>5, <2>1 DEF ServesInside
<1>6. CASE GotoStep(Undo)
  <2>1. script'.pc \in {"undoAdd", "restore"}
    BY <1>2, <1>6, Moved
  <2> QED BY <2>1 DEF ServesInside, Trying
<1> QED BY <1>1, <1>4, <1>5, <1>6

LEMMA ProbeEnds == ASSUME SiteInv, Probe PROVE EndsCleanly
<1>1. script.pc = "probe" /\ "probe" \in Trying
  BY DEF Probe, AtStep, Trying
<1>2. nginx.listens = {"loopback", "inner"} /\ nginx.logs = "safe" /\ ~panel.opened
  BY <1>1 DEF SiteInv, ServesInside
<1>3. script.expected \in rules /\ rules \subseteq {script.expected, Foreign}
  BY <1>1 DEF SiteInv, RulesStand, Late
<1> QED BY <1>1, <1>2, <1>3 DEF EndsCleanly, AtStep

LEMMA RestrictVhostFiles == ASSUME SiteRows, FilesStand, RestrictVhost PROVE FilesStand'
<1>0. script.pc \in {"vhost", "vhostAgain"} /\ script.pc \in Trying /\ spoiled' = spoiled
  BY DEF RestrictVhost, Try, AtStep, Trying
<1>1. /\ disk' = disk \/ disk' = [disk EXCEPT !["vhost"] = "inner"]
      /\ GotoStep("check") \/ GotoStep("traffic") \/ GotoStep(Undo)
  BY DEF RestrictVhost, Try
<1>2. ~spoiled => Startable(disk')
  BY <1>0, <1>1 DEF FilesStand, Startable, SiteRows, Files
<1>3. /\ {"check", "traffic", "undoAdd", "restore"} \subseteq Steps /\ {"check", "traffic"} \subseteq Trying
      /\ Undo \in {"undoAdd", "restore"} /\ script.restored = 0
  BY <1>0 DEF Steps, Trying, Undoing, Undo, FilesStand
<1>4. CASE GotoStep("check") \/ GotoStep("traffic")
  BY <1>0, <1>2, <1>3, <1>4, TryingFiles
<1>5. CASE GotoStep(Undo)
  BY <1>0, <1>3, <1>5, TryingFiles DEF Trying
<1> QED BY <1>1, <1>4, <1>5

LEMMA AddRuleInside == ASSUME SiteRows, ServesInside, AddRule PROVE ServesInside'
<1>1. /\ script.pc = "rule" /\ UNCHANGED <<disk, panel, nginx>>
      /\ disk["log"] = "safe" /\ Closed(disk) /\ ~panel.opened
  BY DEF AddRule, AtStep, ServesInside, Trying
<1>2. script'.pc \in {"restore", "prune"}
  BY DEF AddRule, GotoStep, SiteRows
<1>3. Closed(disk')
  BY <1>1 DEF Closed, Endpoints
<1> QED BY <1>1, <1>2, <1>3 DEF ServesInside, Trying

\* The rows keep their types in every step.
LEMMA RowsKept ==
    ASSUME SiteRows, FilesStand, SiteNext PROVE SiteRows'
<1>1. CASE \E network \in Networks : Begin(network)
  BY <1>1, BeginRows
<1>2. CASE CleanUp
  BY <1>2, SiteAssumption DEF SiteRows, CleanUp, AtStep, GotoStep, Steps, Trying, Undoing,
    AllRules
<1>3. CASE DisableDefault
  BY <1>3, SiteAssumption DEF SiteRows, DisableDefault, Try, Undo, MovedAside, AtStep,
    GotoStep, Steps, Trying, Undoing, AllRules, Files, Contents
<1>4. CASE RestrictPanel
  BY <1>4, SiteAssumption DEF SiteRows, RestrictPanel, Try, Undo, AtStep, GotoStep, Steps,
    Trying, Undoing, AllRules, Files, Contents, MovedAside
<1>5. CASE DisableStatus
  BY <1>5, SiteAssumption DEF SiteRows, DisableStatus, Try, Undo, MovedAside, AtStep, GotoStep,
    Steps, Trying, Undoing, AllRules, Files, Contents
<1>6. CASE RestrictVhost
  BY <1>6, SiteAssumption DEF SiteRows, RestrictVhost, Try, Undo, AtStep, GotoStep, Steps,
    Trying, Undoing, AllRules, Files, Contents, MovedAside
<1>7. CASE ValidateConfig
  BY <1>7, SiteAssumption DEF SiteRows, ValidateConfig, Try, Undo, AtStep, GotoStep, Steps,
    Trying, Undoing, AllRules, Files, Contents, MovedAside
<1>8. CASE EnsureProxy
  BY <1>8, EnsureProxyRows
<1>9. CASE EnableTraffic
  BY <1>9, SiteAssumption DEF SiteRows, EnableTraffic, Try, Undo, AtStep, GotoStep, Steps,
    Trying, Undoing, AllRules, Files, Contents, MovedAside
<1>10. CASE InstallSafeLog
  BY <1>10, SiteAssumption DEF SiteRows, InstallSafeLog, Try, Undo, AtStep, GotoStep, Steps,
    Trying, Undoing, AllRules, Files, Contents, MovedAside
<1>11. CASE AddRule
  BY <1>11, AddRuleRows
<1>12. CASE PruneRules
  BY <1>12, SiteAssumption DEF SiteRows, PruneRules, AtStep, GotoStep, Steps, Trying, Undoing,
    AllRules
<1>13. CASE StartNginx
  BY <1>13, StartNginxRows
<1>14. CASE Probe
  BY <1>14, SiteAssumption DEF SiteRows, Probe, world, AtStep, GotoStep, Steps, Trying,
    Undoing, AllRules
<1>15. CASE StepFails
  BY <1>15, SiteAssumption DEF SiteRows, StepFails, Undo, world, AtStep, GotoStep, Steps,
    Trying, Undoing, AllRules
<1>16. CASE CleanUpFails
  BY <1>16, SiteAssumption DEF SiteRows, CleanUpFails, world, AtStep, GotoStep, Steps, Trying,
    Undoing, AllRules
<1>17. CASE RestoreRules
  BY <1>17, SiteAssumption DEF SiteRows, RestoreRules, AtStep, GotoStep, Steps, Trying,
    Undoing, AllRules
<1>18. CASE RemoveAddedRules
  BY <1>18, SiteAssumption DEF SiteRows, RemoveAddedRules, AtStep, GotoStep, Steps, Trying,
    Undoing, AllRules
<1>19. CASE RestoreFile
  BY <1>19, RestoreFileRows
<1>20. CASE RestoreNginx
  BY <1>20, SiteAssumption DEF SiteRows, RestoreNginx, AtStep, GotoStep, Steps, Trying,
    Undoing, AllRules, Loaded, Endpoints, Listeners, Contents, Files
<1>21. CASE UndoFails
  BY <1>21, SiteAssumption DEF SiteRows, UndoFails, world, AtStep, GotoStep, Steps, Trying,
    Undoing, AllRules
<1>22. CASE Killed
  BY <1>22, SiteAssumption DEF SiteRows, Killed, world, AtStep, GotoStep, Steps, Trying,
    Undoing, AllRules
<1>23. CASE AdminInterferes
  BY <1>23, AdminInterferesRows
<1> QED BY <1>1, <1>2, <1>3, <1>4, <1>5, <1>6, <1>7, <1>8, <1>9, <1>10, <1>11, <1>12, <1>13,
        <1>14, <1>15, <1>16, <1>17, <1>18, <1>19, <1>20, <1>21, <1>22, <1>23 DEF SiteNext

\* The rules stand, and every step leaves one if there was one.
LEMMA RulesKept ==
    ASSUME SiteRows, RulesStand, SiteNext PROVE RulesStand' /\ NoFirewallGap
<1>1. CASE \E network \in Networks : Begin(network)
  BY <1>1, SiteAssumption DEF SiteRows, RulesStand, NoFirewallGap, Own, Begin, AtStep,
    GotoStep, Write, NoScript, Early, Late, Trying, Undoing, Undo
<1>2. CASE CleanUp
  BY <1>2, SiteAssumption DEF SiteRows, RulesStand, NoFirewallGap, Own, CleanUp, AtStep,
    GotoStep, Early, Late, Trying, Undoing, Undo
<1>3. CASE DisableDefault
  BY <1>3, SiteAssumption DEF SiteRows, RulesStand, NoFirewallGap, Own, DisableDefault, Try,
    Undo, MovedAside, AtStep, GotoStep, Early, Late, Trying, Undoing
<1>4. CASE RestrictPanel
  BY <1>4, SiteAssumption DEF SiteRows, RulesStand, NoFirewallGap, Own, RestrictPanel, Try,
    Undo, AtStep, GotoStep, Early, Late, Trying, Undoing
<1>5. CASE DisableStatus
  BY <1>5, SiteAssumption DEF SiteRows, RulesStand, NoFirewallGap, Own, DisableStatus, Try,
    Undo, MovedAside, AtStep, GotoStep, Early, Late, Trying, Undoing
<1>6. CASE RestrictVhost
  BY <1>6, SiteAssumption DEF SiteRows, RulesStand, NoFirewallGap, Own, RestrictVhost, Try,
    Undo, AtStep, GotoStep, Early, Late, Trying, Undoing
<1>7. CASE ValidateConfig
  BY <1>7, SiteAssumption DEF SiteRows, RulesStand, NoFirewallGap, Own, ValidateConfig, Try,
    Undo, AtStep, GotoStep, Early, Late, Trying, Undoing
<1>8. CASE EnsureProxy
  BY <1>8, SiteAssumption DEF SiteRows, RulesStand, NoFirewallGap, Own, EnsureProxy, Write,
    AtStep, GotoStep, Early, Late, Trying, Undoing, Undo
<1>9. CASE EnableTraffic
  BY <1>9, SiteAssumption DEF SiteRows, RulesStand, NoFirewallGap, Own, EnableTraffic, Try,
    Undo, AtStep, GotoStep, Early, Late, Trying, Undoing
<1>10. CASE InstallSafeLog
  BY <1>10, SiteAssumption DEF SiteRows, RulesStand, NoFirewallGap, Own, InstallSafeLog, Try,
    Undo, AtStep, GotoStep, Early, Late, Trying, Undoing
<1>11. CASE AddRule
  BY <1>11, AddRuleRules
<1>12. CASE PruneRules
  BY <1>12, SiteAssumption DEF SiteRows, RulesStand, NoFirewallGap, Own, PruneRules, AtStep,
    GotoStep, Early, Late, Trying, Undoing, Undo
<1>13. CASE StartNginx
  BY <1>13, SiteAssumption DEF SiteRows, RulesStand, NoFirewallGap, Own, StartNginx, AtStep,
    GotoStep, Early, Late, Trying, Undoing, Undo
<1>14. CASE Probe
  BY <1>14, SiteAssumption DEF SiteRows, RulesStand, NoFirewallGap, Own, Probe, world, AtStep,
    GotoStep, Early, Late, Trying, Undoing, Undo
<1>15. CASE StepFails
  BY <1>15, SiteAssumption DEF SiteRows, RulesStand, NoFirewallGap, Own, StepFails, Undo,
    world, AtStep, GotoStep, Early, Late, Trying, Undoing
<1>16. CASE CleanUpFails
  BY <1>16, SiteAssumption DEF SiteRows, RulesStand, NoFirewallGap, Own, CleanUpFails, world,
    AtStep, GotoStep, Early, Late, Trying, Undoing, Undo
<1>17. CASE RestoreRules
  BY <1>17, SiteAssumption DEF SiteRows, RulesStand, NoFirewallGap, Own, RestoreRules, AtStep,
    GotoStep, Early, Late, Trying, Undoing, Undo
<1>18. CASE RemoveAddedRules
  BY <1>18, SiteAssumption DEF SiteRows, RulesStand, NoFirewallGap, Own, RemoveAddedRules,
    AtStep, GotoStep, Early, Late, Trying, Undoing, Undo
<1>19. CASE RestoreFile
  BY <1>19, SiteAssumption DEF SiteRows, RulesStand, NoFirewallGap, Own, RestoreFile, Write,
    PutBack, Restored, Managed, AtStep, GotoStep, Early, Late, Trying, Undoing, Undo
<1>20. CASE RestoreNginx
  BY <1>20, SiteAssumption DEF SiteRows, RulesStand, NoFirewallGap, Own, RestoreNginx, AtStep,
    GotoStep, Early, Late, Trying, Undoing, Undo
<1>21. CASE UndoFails
  BY <1>21, SiteAssumption DEF SiteRows, RulesStand, NoFirewallGap, Own, UndoFails, world,
    AtStep, GotoStep, Early, Late, Trying, Undoing, Undo
<1>22. CASE Killed
  BY <1>22, SiteAssumption DEF SiteRows, RulesStand, NoFirewallGap, Own, Killed, world, AtStep,
    GotoStep, Early, Late, Trying, Undoing, Undo
<1>23. CASE AdminInterferes
  BY <1>23, SiteAssumption DEF SiteRows, RulesStand, NoFirewallGap, Own, AdminInterferes,
    AtStep, GotoStep, Early, Late, Trying, Undoing, Undo
<1> QED BY <1>1, <1>2, <1>3, <1>4, <1>5, <1>6, <1>7, <1>8, <1>9, <1>10, <1>11, <1>12, <1>13,
        <1>14, <1>15, <1>16, <1>17, <1>18, <1>19, <1>20, <1>21, <1>22, <1>23 DEF SiteNext

\* The files stand.
LEMMA FilesKept ==
    ASSUME SiteRows, FilesStand, SiteNext PROVE FilesStand'
<1>1. CASE \E network \in Networks : Begin(network)
  BY <1>1, BeginFiles
<1>2. CASE CleanUp
  BY <1>2, SiteAssumption DEF SiteRows, FilesStand, Startable, CleanUp, AtStep, GotoStep,
    Trying, Undoing, Files, Undo, Managed
<1>3. CASE DisableDefault
  BY <1>3, DisableDefaultFiles
<1>4. CASE RestrictPanel
  BY <1>4, SiteAssumption DEF SiteRows, FilesStand, Startable, RestrictPanel, Try, Undo,
    AtStep, GotoStep, Trying, Undoing, Files, Managed
<1>5. CASE DisableStatus
  BY <1>5, DisableStatusFiles
<1>6. CASE RestrictVhost
  BY <1>6, RestrictVhostFiles
<1>7. CASE ValidateConfig
  <2>1. \E pc \in {"proxy", "rule", "undoAdd", "restore"} : GotoStep(pc)
    BY <1>7 DEF ValidateConfig, Try, Undo
  <2>2. disk' = disk /\ spoiled' = spoiled /\ script.pc \in {"check", "checkAgain"}
    BY <1>7 DEF ValidateConfig, Try, AtStep
  <2>3. PICK pc \in {"proxy", "rule", "undoAdd", "restore"} : GotoStep(pc)
    BY <2>1
  <2>4. script.pc \in Trying /\ script.restored = 0 /\ (~spoiled => Startable(disk))
    BY <2>2 DEF FilesStand, Trying
  <2>5. pc \in Steps /\ pc \in Trying \cup {"idle", "undoAdd", "restore"}
    BY DEF Steps, Trying, Undoing
  <2>6. ~spoiled => Startable(disk')
    BY <2>2, <2>4
  <2> QED BY <2>2, <2>3, <2>4, <2>5, <2>6, TryingFiles
<1>8. CASE EnsureProxy
  BY <1>8, SiteAssumption DEF SiteRows, FilesStand, Startable, EnsureProxy, Write, AtStep,
    GotoStep, Trying, Undoing, Files, Undo, Managed
<1>9. CASE EnableTraffic
  BY <1>9, LogFiles
<1>10. CASE InstallSafeLog
  BY <1>10, LogFiles
<1>11. CASE AddRule
  BY <1>11, AddRuleFiles
<1>12. CASE PruneRules
  BY <1>12, SiteAssumption DEF SiteRows, FilesStand, Startable, PruneRules, AtStep, GotoStep,
    Trying, Undoing, Files, Undo, Managed
<1>13. CASE StartNginx
  BY <1>13, SiteAssumption DEF SiteRows, FilesStand, Startable, StartNginx, AtStep, GotoStep,
    Trying, Undoing, Files, Undo, Managed
<1>14. CASE Probe
  BY <1>14, SiteAssumption DEF SiteRows, FilesStand, Startable, Probe, world, AtStep, GotoStep,
    Trying, Undoing, Files, Undo, Managed
<1>15. CASE StepFails
  BY <1>15, SiteAssumption DEF SiteRows, FilesStand, Startable, StepFails, Undo, world, AtStep,
    GotoStep, Trying, Undoing, Files, Managed
<1>16. CASE CleanUpFails
  BY <1>16, SiteAssumption DEF SiteRows, FilesStand, Startable, CleanUpFails, world, AtStep,
    GotoStep, Trying, Undoing, Files, Undo, Managed
<1>17. CASE RestoreRules
  BY <1>17, SiteAssumption DEF SiteRows, FilesStand, Startable, RestoreRules, AtStep, GotoStep,
    Trying, Undoing, Files, Undo, Managed
<1>18. CASE RemoveAddedRules
  BY <1>18, SiteAssumption DEF SiteRows, FilesStand, Startable, RemoveAddedRules, AtStep,
    GotoStep, Trying, Undoing, Files, Undo, Managed
<1>19. CASE RestoreFile
  BY <1>19, RestoreFileFiles
<1>20. CASE RestoreNginx
  BY <1>20, SiteAssumption DEF SiteRows, FilesStand, Startable, RestoreNginx, AtStep, GotoStep,
    Trying, Undoing, Files, Undo, Managed
<1>21. CASE UndoFails
  BY <1>21, SiteAssumption DEF SiteRows, FilesStand, Startable, UndoFails, world, AtStep,
    GotoStep, Trying, Undoing, Files, Undo, Managed
<1>22. CASE Killed
  BY <1>22, KilledFiles
<1>23. CASE AdminInterferes
  BY <1>23, SiteAssumption DEF SiteRows, FilesStand, Startable, AdminInterferes, AtStep,
    GotoStep, Trying, Undoing, Files, Undo, Managed
<1> QED BY <1>1, <1>2, <1>3, <1>4, <1>5, <1>6, <1>7, <1>8, <1>9, <1>10, <1>11, <1>12, <1>13,
        <1>14, <1>15, <1>16, <1>17, <1>18, <1>19, <1>20, <1>21, <1>22, <1>23 DEF SiteNext

\* What is about to be served is closed.
LEMMA InsideKept ==
    ASSUME SiteRows, ServesInside, SiteNext PROVE ServesInside'
<1>1. CASE \E network \in Networks : Begin(network)
  BY <1>1, BeginInside
<1>2. CASE CleanUp
  BY <1>2, SiteAssumption DEF SiteRows, ServesInside, CleanUp, AtStep, GotoStep, Trying,
    Undoing, Undo, Files, Closed, Endpoints, Contents
<1>3. CASE DisableDefault
  BY <1>3, SiteAssumption DEF SiteRows, ServesInside, DisableDefault, Try, Undo, MovedAside,
    AtStep, GotoStep, Trying, Undoing, Files, Closed, Endpoints, Contents
<1>4. CASE RestrictPanel
  BY <1>4, SiteAssumption DEF SiteRows, ServesInside, RestrictPanel, Try, Undo, AtStep,
    GotoStep, Trying, Undoing, Files, Closed, Endpoints, Contents
<1>5. CASE DisableStatus
  BY <1>5, SiteAssumption DEF SiteRows, ServesInside, DisableStatus, Try, Undo, MovedAside,
    AtStep, GotoStep, Trying, Undoing, Files, Closed, Endpoints, Contents
<1>6. CASE RestrictVhost
  BY <1>6, SiteAssumption DEF SiteRows, ServesInside, RestrictVhost, Try, Undo, AtStep,
    GotoStep, Trying, Undoing, Files, Closed, Endpoints, Contents
<1>7. CASE ValidateConfig
  BY <1>7, ValidateConfigInside
<1>8. CASE EnsureProxy
  BY <1>8, SiteAssumption DEF SiteRows, ServesInside, EnsureProxy, Write, AtStep, GotoStep,
    Trying, Undoing, Undo, Files, Closed, Endpoints, Contents, Loaded
<1>9. CASE EnableTraffic
  BY <1>9, SiteAssumption DEF SiteRows, ServesInside, EnableTraffic, Try, Undo, AtStep,
    GotoStep, Trying, Undoing, Files, Closed, Endpoints, Contents
<1>10. CASE InstallSafeLog
  BY <1>10, SiteAssumption DEF SiteRows, ServesInside, InstallSafeLog, Try, Undo, AtStep,
    GotoStep, Trying, Undoing, Files, Closed, Endpoints, Contents
<1>11. CASE AddRule
  BY <1>11, AddRuleInside
<1>12. CASE PruneRules
  BY <1>12, SiteAssumption DEF SiteRows, ServesInside, PruneRules, AtStep, GotoStep, Trying,
    Undoing, Undo, Files, Closed, Endpoints, Contents
<1>13. CASE StartNginx
  BY <1>13, StartNginxInside
<1>14. CASE Probe
  BY <1>14, SiteAssumption DEF SiteRows, ServesInside, Probe, world, AtStep, GotoStep, Trying,
    Undoing, Undo, Files, Closed, Endpoints, Contents
<1>15. CASE StepFails
  BY <1>15, SiteAssumption DEF SiteRows, ServesInside, StepFails, Undo, world, AtStep,
    GotoStep, Trying, Undoing, Files, Closed, Endpoints, Contents
<1>16. CASE CleanUpFails
  BY <1>16, SiteAssumption DEF SiteRows, ServesInside, CleanUpFails, world, AtStep, GotoStep,
    Trying, Undoing, Undo, Files, Closed, Endpoints, Contents
<1>17. CASE RestoreRules
  BY <1>17, SiteAssumption DEF SiteRows, ServesInside, RestoreRules, AtStep, GotoStep, Trying,
    Undoing, Undo, Files, Closed, Endpoints, Contents
<1>18. CASE RemoveAddedRules
  BY <1>18, SiteAssumption DEF SiteRows, ServesInside, RemoveAddedRules, AtStep, GotoStep,
    Trying, Undoing, Undo, Files, Closed, Endpoints, Contents
<1>19. CASE RestoreFile
  BY <1>19, SiteAssumption DEF SiteRows, ServesInside, RestoreFile, Write, PutBack, Restored,
    Managed, AtStep, GotoStep, Trying, Undoing, Undo, Files, Closed, Endpoints, Contents
<1>20. CASE RestoreNginx
  BY <1>20, SiteAssumption DEF SiteRows, ServesInside, RestoreNginx, AtStep, GotoStep, Trying,
    Undoing, Undo, Files, Closed, Endpoints, Contents, Loaded
<1>21. CASE UndoFails
  BY <1>21, SiteAssumption DEF SiteRows, ServesInside, UndoFails, world, AtStep, GotoStep,
    Trying, Undoing, Undo, Files, Closed, Endpoints, Contents
<1>22. CASE Killed
  BY <1>22, SiteAssumption DEF SiteRows, ServesInside, Killed, world, AtStep, GotoStep, Trying,
    Undoing, Undo, Files, Closed, Endpoints, Contents
<1>23. CASE AdminInterferes
  BY <1>23, SiteAssumption DEF SiteRows, ServesInside, AdminInterferes, AtStep, GotoStep,
    Trying, Undoing, Undo, Files, Closed, Endpoints, Contents
<1> QED BY <1>1, <1>2, <1>3, <1>4, <1>5, <1>6, <1>7, <1>8, <1>9, <1>10, <1>11, <1>12, <1>13,
        <1>14, <1>15, <1>16, <1>17, <1>18, <1>19, <1>20, <1>21, <1>22, <1>23 DEF SiteNext

\* A registration ends in one of the four ways.
LEMMA EndsKept ==
    ASSUME SiteInv, SiteNext PROVE EndsCleanly
<1>1. CASE \E network \in Networks : Begin(network)
  BY <1>1, SiteAssumption DEF SiteInv, SiteRows, RulesStand, FilesStand, ServesInside,
    EndsCleanly, Own, Begin, AtStep, GotoStep, Write, NoScript, Trying, Undoing, Undo
<1>2. CASE CleanUp
  BY <1>2, SiteAssumption DEF SiteInv, SiteRows, RulesStand, FilesStand, ServesInside,
    EndsCleanly, Own, CleanUp, AtStep, GotoStep, Trying, Undoing, Undo
<1>3. CASE DisableDefault
  BY <1>3, SiteAssumption DEF SiteInv, SiteRows, RulesStand, FilesStand, ServesInside,
    EndsCleanly, Own, DisableDefault, Try, Undo, MovedAside, AtStep, GotoStep, Trying, Undoing
<1>4. CASE RestrictPanel
  BY <1>4, SiteAssumption DEF SiteInv, SiteRows, RulesStand, FilesStand, ServesInside,
    EndsCleanly, Own, RestrictPanel, Try, Undo, AtStep, GotoStep, Trying, Undoing
<1>5. CASE DisableStatus
  BY <1>5, SiteAssumption DEF SiteInv, SiteRows, RulesStand, FilesStand, ServesInside,
    EndsCleanly, Own, DisableStatus, Try, Undo, MovedAside, AtStep, GotoStep, Trying, Undoing
<1>6. CASE RestrictVhost
  BY <1>6, SiteAssumption DEF SiteInv, SiteRows, RulesStand, FilesStand, ServesInside,
    EndsCleanly, Own, RestrictVhost, Try, Undo, AtStep, GotoStep, Trying, Undoing
<1>7. CASE ValidateConfig
  BY <1>7, SiteAssumption DEF SiteInv, SiteRows, RulesStand, FilesStand, ServesInside,
    EndsCleanly, Own, ValidateConfig, Try, Undo, AtStep, GotoStep, Trying, Undoing
<1>8. CASE EnsureProxy
  BY <1>8, SiteAssumption DEF SiteInv, SiteRows, RulesStand, FilesStand, ServesInside,
    EndsCleanly, Own, EnsureProxy, Write, AtStep, GotoStep, Trying, Undoing, Undo
<1>9. CASE EnableTraffic
  BY <1>9, SiteAssumption DEF SiteInv, SiteRows, RulesStand, FilesStand, ServesInside,
    EndsCleanly, Own, EnableTraffic, Try, Undo, AtStep, GotoStep, Trying, Undoing
<1>10. CASE InstallSafeLog
  BY <1>10, SiteAssumption DEF SiteInv, SiteRows, RulesStand, FilesStand, ServesInside,
    EndsCleanly, Own, InstallSafeLog, Try, Undo, AtStep, GotoStep, Trying, Undoing
<1>11. CASE AddRule
  BY <1>11, SiteAssumption DEF SiteInv, SiteRows, RulesStand, FilesStand, ServesInside,
    EndsCleanly, Own, AddRule, AtStep, GotoStep, Trying, Undoing, Undo
<1>12. CASE PruneRules
  BY <1>12, SiteAssumption DEF SiteInv, SiteRows, RulesStand, FilesStand, ServesInside,
    EndsCleanly, Own, PruneRules, AtStep, GotoStep, Trying, Undoing, Undo
<1>13. CASE StartNginx
  BY <1>13, SiteAssumption DEF SiteInv, SiteRows, RulesStand, FilesStand, ServesInside,
    EndsCleanly, Own, StartNginx, AtStep, GotoStep, Trying, Undoing, Undo
<1>14. CASE Probe
  BY <1>14, ProbeEnds
<1>15. CASE StepFails
  BY <1>15, SiteAssumption DEF SiteInv, SiteRows, RulesStand, FilesStand, ServesInside,
    EndsCleanly, Own, StepFails, Undo, world, AtStep, GotoStep, Trying, Undoing
<1>16. CASE CleanUpFails
  BY <1>16, SiteAssumption DEF SiteInv, SiteRows, RulesStand, FilesStand, ServesInside,
    EndsCleanly, Own, CleanUpFails, world, AtStep, GotoStep, Trying, Undoing, Undo
<1>17. CASE RestoreRules
  BY <1>17, SiteAssumption DEF SiteInv, SiteRows, RulesStand, FilesStand, ServesInside,
    EndsCleanly, Own, RestoreRules, AtStep, GotoStep, Trying, Undoing, Undo
<1>18. CASE RemoveAddedRules
  BY <1>18, SiteAssumption DEF SiteInv, SiteRows, RulesStand, FilesStand, ServesInside,
    EndsCleanly, Own, RemoveAddedRules, AtStep, GotoStep, Trying, Undoing, Undo
<1>19. CASE RestoreFile
  BY <1>19, SiteAssumption DEF SiteInv, SiteRows, RulesStand, FilesStand, ServesInside,
    EndsCleanly, Own, RestoreFile, Write, PutBack, Restored, Managed, AtStep, GotoStep, Trying,
    Undoing, Undo
<1>20. CASE RestoreNginx
  BY <1>20, RestoreNginxEnds
<1>21. CASE UndoFails
  BY <1>21, SiteAssumption DEF SiteInv, SiteRows, RulesStand, FilesStand, ServesInside,
    EndsCleanly, Own, UndoFails, world, AtStep, GotoStep, Trying, Undoing, Undo
<1>22. CASE Killed
  BY <1>22, SiteAssumption DEF SiteInv, SiteRows, RulesStand, FilesStand, ServesInside,
    EndsCleanly, Own, Killed, world, AtStep, GotoStep, Trying, Undoing, Undo
<1>23. CASE AdminInterferes
  BY <1>23, SiteAssumption DEF SiteInv, SiteRows, RulesStand, FilesStand, ServesInside,
    EndsCleanly, Own, AdminInterferes, AtStep, GotoStep, Trying, Undoing, Undo
<1> QED BY <1>1, <1>2, <1>3, <1>4, <1>5, <1>6, <1>7, <1>8, <1>9, <1>10, <1>11, <1>12, <1>13,
        <1>14, <1>15, <1>16, <1>17, <1>18, <1>19, <1>20, <1>21, <1>22, <1>23 DEF SiteNext

LEMMA SiteInitially == SiteInit => SiteInv
<1> SUFFICES ASSUME SiteInit PROVE SiteInv
  OBVIOUS
<1>1. script = NoScript /\ rules = {} /\ faults = 0 /\ starts = 0 /\ spoiled = FALSE
  BY DEF SiteInit
<1>2. /\ script.pc = "idle" /\ script.expected = Foreign /\ script.wasRunning = FALSE
      /\ script.snapshot = <<>> /\ script.before = {} /\ script.mutated = FALSE
      /\ script.restored = 0
  BY <1>1 DEF NoScript
<1>3. /\ disk \in [Files -> Contents]
      /\ disk["default"] = "file" /\ disk["defaultOff"] = "none"
      /\ disk["status"] = "file" /\ disk["statusOff"] = "none"
  BY DEF SiteInit, Files, Contents
<1>4. nginx \in [running : BOOLEAN, unit : BOOLEAN, listens : SUBSET Listeners, logs : Contents]
  <2>1. PICK up \in BOOLEAN : nginx = [running |-> up, unit |-> up,
            listens |-> IF up THEN Endpoints(disk) ELSE {}, logs |-> "none"]
    BY DEF SiteInit
  <2>2. (IF up THEN Endpoints(disk) ELSE {}) \in SUBSET Listeners /\ "none" \in Contents
    BY EndpointsAre DEF Contents
  <2> QED BY <2>1, <2>2
<1>5. script \in [pc : Steps, expected : AllRules, wasRunning : BOOLEAN,
                  snapshot : [Files -> Contents] \cup {<<>>}, before : SUBSET AllRules,
                  mutated : BOOLEAN, restored : 0..7]
  <2>1. "idle" \in Steps /\ Foreign \in AllRules /\ {} \in SUBSET AllRules /\ 0 \in 0..7
    BY DEF Steps, AllRules
  <2> QED BY <1>1, <2>1 DEF NoScript
<1>6. panel \in [site : BOOLEAN, proxy : BOOLEAN, opened : BOOLEAN]
  BY DEF SiteInit
<1>7. SiteRows
  <2>1. MaxFaults \in Nat /\ MaxStarts \in Nat
    BY SiteAssumption
  <2>2. 0 \in 0..MaxFaults /\ 0 \in 0..MaxStarts
    BY ONLY <2>1
  <2>3. faults \in 0..MaxFaults /\ starts \in 0..MaxStarts /\ spoiled \in BOOLEAN
        /\ rules \subseteq AllRules
    BY <1>1, <2>2
  <2> QED BY <1>3, <1>4, <1>5, <1>6, <2>3 DEF SiteRows
<1>8. RulesStand
  BY <1>2 DEF RulesStand, Early, Late
<1>9. FilesStand
  BY <1>2, <1>3 DEF FilesStand, Startable, Trying, Undoing
<1>10. ServesInside
  BY <1>2 DEF ServesInside, Trying
<1> QED BY <1>7, <1>8, <1>9, <1>10 DEF SiteInv

LEMMA SiteRestarts == SiteInv => CanRegister
BY DEF SiteInv, FilesStand, Startable, CanRegister, AtStep

LEMMA SiteStutters ==
    ASSUME SiteInv, UNCHANGED siteVars PROVE SiteInv' /\ NoFirewallGap /\ EndsCleanly
BY DEF SiteInv, SiteRows, RulesStand, FilesStand, ServesInside, siteVars, NoFirewallGap, EndsCleanly, AtStep

LEMMA SiteStep ==
    ASSUME SiteInv, [SiteNext]_siteVars PROVE SiteInv' /\ NoFirewallGap /\ EndsCleanly
<1>1. CASE SiteNext
  BY <1>1, RowsKept, RulesKept, FilesKept, InsideKept, EndsKept DEF SiteInv
<1> QED BY <1>1, SiteStutters

\* The types of the script, of what the panel and the firewall hold and of what is spoiled.
THEOREM SiteTyped == SiteSpec => []SiteTypeOK
<1>1. SiteInv => SiteTypeOK
  BY DEF SiteInv, SiteRows, SiteTypeOK, Contents, Listeners, AllRules, Steps
<1> QED BY <1>1, SiteInitially, SiteStep, PTL DEF SiteSpec

\* For any container networks and bounds: unless an undoing has failed, the script can be run
\* again wherever it was, a network that was let through is let through at every moment, and
\* a run that ends has served inside or put everything back.
THEOREM RegistrationHolds == SiteSpec => RegistrationIsSafe
<1>1. SiteInv /\ [SiteNext]_siteVars => [SiteInv' /\ NoFirewallGap /\ EndsCleanly]_siteVars
  BY SiteStep
<1>2. SiteInv' => CanRegister'
  <2>1. SiteInv => CanRegister
    BY SiteRestarts
  <2> QED BY <2>1, PTL
<1>3. SiteInv /\ [SiteNext]_siteVars => [CanRegister' /\ NoFirewallGap /\ EndsCleanly]_siteVars
  BY <1>1, <1>2
<1>4. SiteSpec => []SiteInv
  BY SiteInitially, SiteStep, PTL DEF SiteSpec
<1> QED BY <1>3, <1>4, PTL DEF SiteSpec, RegistrationIsSafe

-----------------------------------------------------------------------------
(* The validation ladder.                                                  *)

\* What stands has evidence of its own, and blockers are noted of what is blocked.
\* A level that passed, with or without warnings, has verified evidence; blocked is a status.
LadderStands ==
    \A l \in ValidationLevels :
        /\ levels[l].status \in {"PASS", "WARN"} => HasVerified(evidence, l)
        /\ levels[l].blocked <=> levels[l].status = "BLOCKED"

\* The inductive invariant of the ladder.
LadderInv == LadderTypeOK /\ LadderStands

\* There is a highest level passed without a gap, whatever has passed.
LEMMA HighestThereIs ==
    /\ HighestPassedLevel \in -1..TopLevel
    /\ \A m \in 0..HighestPassedLevel : Passed(m)
    /\ HighestPassedLevel < TopLevel => ~Passed(HighestPassedLevel + 1)
<1> DEFINE Gaps == {m \in 0..TopLevel : ~Passed(m)}
<1>1. TopLevel \in Nat
  BY TopLevelAssumption
<1>2. \E h \in -1..TopLevel :
        /\ \A m \in 0..h : Passed(m)
        /\ h < TopLevel => ~Passed(h + 1)
  <2>1. CASE Gaps = {}
    <3>1. \A m \in 0..TopLevel : Passed(m)
      BY <2>1
    <3>2. TopLevel \in -1..TopLevel /\ ~(TopLevel < TopLevel)
      BY <1>1
    <3> QED BY <3>1, <3>2
  <2>2. CASE Gaps # {}
    <3>1. Gaps \in SUBSET Nat
      BY <1>1
    <3>2. PICK g \in Gaps : \A m \in Gaps : ~(<<m, g>> \in OpToRel(<, Nat))
      BY <2>2, <3>1, NatLessThanWellFounded, WFMin
    <3>3. \A m \in Gaps : ~(m < g)
      BY <3>1, <3>2 DEF OpToRel
    <3>4. /\ g - 1 \in -1..TopLevel /\ (g - 1) + 1 = g
          /\ \A m \in 0..(g - 1) : m \in 0..TopLevel /\ m < g
      BY <1>1
    <3>5. \A m \in 0..(g - 1) : Passed(m)
      BY <3>3, <3>4
    <3>6. ~Passed((g - 1) + 1)
      BY <3>4
    <3> QED BY <3>4, <3>5, <3>6
  <2> QED BY <2>1, <2>2
<1> QED BY <1>2 DEF HighestPassedLevel

\* What may be interpreted is exactly what is up to that level.
LEMMA InterpretedUpToHighest ==
    ASSUME NEW l \in ValidationLevels PROVE CanInterpret(l) <=> l <= HighestPassedLevel
<1> DEFINE h == HighestPassedLevel
<1>1. /\ h \in -1..TopLevel /\ \A m \in 0..h : Passed(m)
      /\ h < TopLevel => ~Passed(h + 1)
  BY HighestThereIs
<1>2. TopLevel \in Nat /\ l \in 0..TopLevel
  BY TopLevelAssumption DEF ValidationLevels
<1> HIDE DEF h
<1>3. ASSUME l <= h PROVE CanInterpret(l)
  <2>1. \A m \in 0..l : m \in 0..h
    BY <1>1, <1>2, <1>3
  <2> QED BY <1>1, <2>1 DEF CanInterpret
<1>4. ASSUME CanInterpret(l), ~(l <= h) PROVE FALSE
  <2>1. h < TopLevel /\ h + 1 \in 0..l
    BY <1>1, <1>2, <1>4
  <2> QED BY <1>1, <1>4, <2>1 DEF CanInterpret
<1>5. CanInterpret(l) <=> l <= h
  <2>1. CASE l <= h
    BY <1>3, <2>1
  <2>2. CASE ~(l <= h)
    BY <1>4, <2>2
  <2> QED BY <2>1, <2>2
<1> QED BY <1>5 DEF h

LEMMA ClaimsFromInv == LadderInv => ClaimsRestOnEvidence
BY InterpretedUpToHighest DEF LadderInv, LadderStands, ClaimsRestOnEvidence

LEMMA LadderInitially == LadderInit => LadderInv
BY DEF LadderInit, LadderInv, LadderTypeOK, LadderStands, LevelStatuses

\* A step on the ladder.
LEMMA AddEvidenceStep ==
    ASSUME LadderInv, NEW l \in ValidationLevels, NEW e \in EvidenceIds,
           NEW s \in {"VERIFIED", "UNVERIFIED"}, AddEvidence(l, e, s)
    PROVE  LadderInv' /\ InvalidationReachesUp
<1> DEFINE new == [level |-> l, status |-> s]
<1>1. /\ evidence[e] = NoEvidence /\ evidence' = [evidence EXCEPT ![e] = new]
      /\ levels' = levels
  BY DEF AddEvidence
<1>2. new \in [level: ValidationLevels, status: EvidenceStatuses] /\ new.status # "INVALIDATED"
  BY DEF EvidenceStatuses
<1>3. /\ evidence'[e] = new
      /\ \A d \in EvidenceIds : d # e => evidence'[d] = evidence[d]
  BY <1>1 DEF LadderInv, LadderTypeOK
<1>4. LadderTypeOK'
  BY <1>1, <1>2 DEF LadderInv, LadderTypeOK
<1>5. evidence[e].status = "ABSENT"
  BY <1>1 DEF NoEvidence
<1>6. \A m \in ValidationLevels : HasVerified(evidence, m) => HasVerified(evidence', m)
  BY <1>3, <1>5 DEF HasVerified
<1>7. LadderStands'
  BY <1>1, <1>6 DEF LadderInv, LadderStands, HasVerified
<1> HIDE DEF new
<1>8. InvalidationReachesUp
  BY <1>2, <1>3 DEF InvalidationReachesUp
<1> QED BY <1>4, <1>7, <1>8 DEF LadderInv

LEMMA UpdateStatusStep ==
    ASSUME LadderInv, NEW l \in ValidationLevels, NEW s \in LevelStatuses, UpdateStatus(l, s)
    PROVE  LadderInv' /\ InvalidationReachesUp
<1> DEFINE new == [status |-> s, blocked |-> s = "BLOCKED"]
<1>1. /\ MayBecome(l, s) /\ levels' = [levels EXCEPT ![l] = new] /\ evidence' = evidence
  BY DEF UpdateStatus
<1>2. /\ new \in [status: LevelStatuses, blocked: BOOLEAN]
      /\ new.status = s /\ (new.blocked <=> s = "BLOCKED")
  OBVIOUS
<1>3. s \in {"PASS", "WARN"} => HasVerified(evidence, l)
  BY <1>1 DEF MayBecome
<1>4. levels'[l] = new /\ \A m \in ValidationLevels : m # l => levels'[m] = levels[m]
  BY <1>1 DEF LadderInv, LadderTypeOK
<1>5. LadderTypeOK'
  BY <1>1, <1>2 DEF LadderInv, LadderTypeOK
<1> HIDE DEF new
<1>6. \A m \in ValidationLevels :
        /\ levels'[m].status \in {"PASS", "WARN"} => HasVerified(evidence, m)
        /\ levels'[m].blocked <=> levels'[m].status = "BLOCKED"
  BY <1>2, <1>3, <1>4 DEF LadderInv, LadderStands
<1>7. LadderStands'
  BY <1>1, <1>6 DEF LadderStands, HasVerified
<1>8. InvalidationReachesUp
  BY <1>1 DEF InvalidationReachesUp
<1> QED BY <1>5, <1>7, <1>8 DEF LadderInv

LEMMA InvalidateStep ==
    ASSUME LadderInv, NEW e \in EvidenceIds, InvalidateEvidence(e)
    PROVE  LadderInv' /\ InvalidationReachesUp
<1> DEFINE at == evidence[e].level
<1>0. at \in ValidationLevels /\ evidence[e] \in [level: ValidationLevels, status: EvidenceStatuses]
  BY DEF InvalidateEvidence, LadderInv, LadderTypeOK
<1>1. /\ evidence' = [evidence EXCEPT ![e].status = "INVALIDATED"]
      /\ levels' = AfterInvalidation(evidence', at)
  BY DEF InvalidateEvidence
<1>2. /\ evidence'[e].level = at /\ evidence'[e].status = "INVALIDATED"
      /\ evidence'[e] \in [level: ValidationLevels, status: EvidenceStatuses]
      /\ \A d \in EvidenceIds : d # e => evidence'[d] = evidence[d]
  BY <1>0, <1>1 DEF LadderInv, LadderTypeOK, EvidenceStatuses
<1>3. evidence' \in [EvidenceIds -> [level: ValidationLevels, status: EvidenceStatuses]
                                        \cup {NoEvidence}]
  BY <1>1, <1>2 DEF LadderInv, LadderTypeOK
<1>4. \A l \in ValidationLevels : l # at => (HasVerified(evidence', l) <=> HasVerified(evidence, l))
  <2> SUFFICES ASSUME NEW l \in ValidationLevels, l # at
               PROVE  HasVerified(evidence', l) <=> HasVerified(evidence, l)
    OBVIOUS
  <2>1. evidence'[e] # [level |-> l, status |-> "VERIFIED"]
        /\ evidence[e] # [level |-> l, status |-> "VERIFIED"]
    BY <1>2
  <2> QED BY <1>2, <2>1 DEF HasVerified
<1> HIDE DEF at
<1>5. ASSUME NEW l \in ValidationLevels
      PROVE  /\ levels'[l] \in [status: LevelStatuses, blocked: BOOLEAN]
             /\ levels'[l].status \in {"PASS", "WARN"} => HasVerified(evidence', l)
             /\ levels'[l].blocked <=> levels'[l].status = "BLOCKED"
             /\ l > at => levels'[l].status # "PASS"
  <2>1. /\ levels[l] \in [status: LevelStatuses, blocked: BOOLEAN]
        /\ levels[l].status \in {"PASS", "WARN"} => HasVerified(evidence, l)
        /\ levels[l].blocked <=> levels[l].status = "BLOCKED"
    BY DEF LadderInv, LadderTypeOK, LadderStands
  <2>2. l > at => l # at
    BY <1>0 DEF ValidationLevels
  <2>3. levels'[l] =
          IF l = at /\ levels[l].status \in {"PASS", "WARN"} /\ ~HasVerified(evidence', l)
          THEN [levels[l] EXCEPT !.status = "FAIL"]
          ELSE IF l > at /\ Passed(l) THEN [status |-> "BLOCKED", blocked |-> TRUE]
          ELSE levels[l]
    BY <1>1 DEF AfterInvalidation
  <2>4. CASE l = at /\ levels[l].status \in {"PASS", "WARN"} /\ ~HasVerified(evidence', l)
    <3>1. levels'[l] = [levels[l] EXCEPT !.status = "FAIL"]
      BY <2>3, <2>4
    <3>2. /\ levels'[l].status = "FAIL" /\ levels'[l].blocked = levels[l].blocked
          /\ levels'[l] \in [status: LevelStatuses, blocked: BOOLEAN]
      BY <2>1, <3>1 DEF LevelStatuses
    <3> QED BY <2>1, <2>2, <2>4, <3>2
  <2>5. CASE l > at /\ Passed(l)
    <3>1. levels'[l] = [status |-> "BLOCKED", blocked |-> TRUE]
      BY <2>2, <2>3, <2>5
    <3> QED BY <3>1 DEF LevelStatuses
  <2>6. CASE ~(l > at /\ Passed(l))
             /\ ~(l = at /\ levels[l].status \in {"PASS", "WARN"} /\ ~HasVerified(evidence', l))
    <3>1. levels'[l] = levels[l]
      BY <2>3, <2>6
    <3> QED BY <1>4, <2>1, <2>6, <3>1 DEF Passed
  <2> QED BY <2>4, <2>5, <2>6
<1>6. levels' \in [ValidationLevels -> [status: LevelStatuses, blocked: BOOLEAN]]
  BY <1>1, <1>5 DEF AfterInvalidation
<1>7. InvalidationReachesUp
  BY <1>2, <1>5 DEF InvalidationReachesUp, at
<1> QED BY <1>3, <1>5, <1>6, <1>7 DEF LadderInv, LadderTypeOK, LadderStands, HasVerified

LEMMA LadderStep ==
    ASSUME LadderInv, [LadderNext]_ladderVars PROVE LadderInv' /\ InvalidationReachesUp
<1>1. CASE LadderNext
  BY <1>1, AddEvidenceStep, UpdateStatusStep, InvalidateStep DEF LadderNext
<1>2. CASE UNCHANGED ladderVars
  BY <1>2 DEF ladderVars, LadderInv, LadderTypeOK, LadderStands, HasVerified, InvalidationReachesUp
<1> QED BY <1>1, <1>2

\* Every level that may be interpreted rests on verified evidence, its own and that of each
\* level below it, for any number of levels and whatever is added, set or invalidated.
THEOREM ClaimsHold == LadderSpec => [](LadderTypeOK /\ ClaimsRestOnEvidence)
<1>1. LadderInv => LadderTypeOK /\ ClaimsRestOnEvidence
  BY ClaimsFromInv DEF LadderInv
<1> QED BY <1>1, LadderInitially, LadderStep, PTL DEF LadderSpec

\* An invalidation leaves no level above the invalidated one passed.
THEOREM InvalidationHolds == LadderSpec => [][InvalidationReachesUp]_ladderVars
<1>1. LadderInv /\ [LadderNext]_ladderVars => LadderInv' /\ [InvalidationReachesUp]_ladderVars
  BY LadderStep
<1> QED BY <1>1, LadderInitially, PTL DEF LadderSpec

-----------------------------------------------------------------------------
(* The studies.                                                            *)

\* The pairs some study can plan, and the rows of runs and table.
PairsPlanned == UNION {Range(Schedule(c)) : c \in 0..Cells}
RunRow ==
    [stage : Stages, owner : Owners \cup {NoOwner}, frozen : BOOLEAN, cells : 0..Cells,
     done : Seq(PairsPlanned)]
StudyRows ==
    /\ runs \in [Runs -> RunRow]
    /\ executing \in BOOLEAN /\ stored \in Seq(Runs)
    /\ audited \subseteq Runs /\ gone \subseteq Owners

\* The runs that hold the lock, and the runner as they leave it.
Holding == {r \in Runs : runs[r].stage \in {"executing", "computed", "saved", "audited"}}
RunnerStands ==
    /\ \A r, q \in Holding : q = r
    /\ executing <=> Holding # {}
Planned(r) == runs[r].cells * SeedCount

\* What a run has computed, saved and audited at each of its stages.
RunStands(r) ==
    /\ Len(runs[r].done) <= Planned(r)
    /\ \A k \in 1..Len(runs[r].done) : runs[r].done[k] = Schedule(runs[r].cells)[k]
    /\ runs[r].stage \in {"computed", "saved", "audited", "completed"}
       => Len(runs[r].done) = Planned(r)
    /\ runs[r].stage \in {"unsent", "queued", "refused"} => runs[r].done = <<>>
    /\ runs[r].stage \in {"saved", "audited"}
       => runs[r].owner \in gone \/ (stored # <<>> /\ Last(stored) = r)
    /\ runs[r].stage = "audited" => r \in audited \/ runs[r].owner \in gone
    /\ runs[r].stage # "unsent" => runs[r].owner \in Owners

\* A stored run is whole, and audited unless its run has failed.
StoredStands(r) ==
    /\ runs[r].stage \in {"saved", "audited", "completed", "failed", "lost"}
    /\ Len(runs[r].done) = Planned(r)
    /\ r \in audited \/ runs[r].stage \in {"saved", "failed", "lost"}

\* The table keeps to the limit of an owner and of all.
WithinLimits ==
    /\ Len(stored) <= KeptInTotal
    /\ \A o \in Owners : Len(OwnedBy(stored, o)) <= KeptPerOwner
    /\ IsInjective(stored)

\* The inductive invariant of the studies.
StudiesInv ==
    /\ StudyRows
    /\ RunnerStands
    /\ \A r \in Runs : RunStands(r)
    /\ \A r \in Range(stored) : StoredStands(r)
    /\ WithinLimits

\* The design of a study has a number of runs, and no more than the largest design.
LEMMA PlannedRuns ==
    ASSUME NEW c \in 0..Cells
    PROVE  c * SeedCount \in Nat /\ c * SeedCount <= Cells * SeedCount
<1>1. Cells \in Nat /\ SeedCount \in Nat /\ c \in Nat /\ c <= Cells
  BY StudiesAssumption
<1> DEFINE G == {n \in Nat : c * n \in Nat /\ c * n <= Cells * n}
<1>2. 0 \in G
  BY <1>1
<1>3. ASSUME NEW n \in Nat, n \in G PROVE n + 1 \in G
  <2>1. c * (n + 1) = c * n + c /\ Cells * (n + 1) = Cells * n + Cells /\ Cells * n \in Nat
    BY <1>1
  <2> QED BY <1>1, <1>3, <2>1
<1> HIDE DEF G
<1>4. Nat \subseteq G
  BY <1>2, <1>3, CountingUp
<1> QED BY <1>1, <1>4 DEF G

\* What the newest of a table are.
LEMMA KeptFacts ==
    ASSUME NEW T, NEW t \in Seq(T), NEW n \in Nat \ {0}
    PROVE  /\ Kept(t, n) \in Seq(T) /\ Len(Kept(t, n)) <= n
           /\ \E p \in Seq(T) : t = p \o Kept(t, n)
           /\ t # <<>> => Kept(t, n) # <<>>
<1> DEFINE k == Len(t) - n
<1>1. Len(t) \in Nat
  OBVIOUS
<1>2. CASE Len(t) <= n
  <2>1. Kept(t, n) = t
    BY <1>2 DEF Kept
  <2>2. <<>> \in Seq(T) /\ t = <<>> \o t
    OBVIOUS
  <2> QED BY <1>2, <2>1, <2>2
<1>3. CASE ~(Len(t) <= n)
  <2> DEFINE p == SubSeq(t, 1, k)
             q == SubSeq(t, k + 1, Len(t))
  <2>1. k \in Nat /\ k <= Len(t) /\ Len(t) = k + n /\ n \in Nat /\ n # 0
    BY <1>1, <1>3
  <2>2. Kept(t, n) = q
    BY <1>3 DEF Kept, Newest
  <2> HIDE DEF k
  <2>3. p \in Seq(T) /\ Len(p) = k /\ \A i \in 1..k : p[i] = t[i]
    BY <2>1, SubSeqProperties DEF p
  <2>3a. q \in Seq(T) /\ Len(q) = n /\ \A i \in 1..n : q[i] = t[k + i]
    <3>1. k + 1 \in 1..Len(t) + 1 /\ Len(t) \in 0..Len(t) /\ Len(t) - (k + 1) + 1 = n
      BY <2>1
    <3>2. q = SubSeq(t, k + 1, Len(t))
      OBVIOUS
    <3> HIDE DEF q
    <3>3. q \in Seq(T) /\ Len(q) = n
      BY <2>1, <3>1, <3>2
    <3>4. ASSUME NEW i \in 1..n PROVE q[i] = t[k + i]
      <4>1. k + 1 + i - 1 = k + i
        BY <2>1
      <4> QED BY <2>1, <3>1, <3>2, <4>1
    <3> QED BY <3>3, <3>4
  <2> HIDE DEF p, q
  <2>4. t = p \o q
    <3>0. /\ p \o q \in Seq(T) /\ Len(p \o q) = Len(p) + Len(q)
          /\ \A i \in 1..Len(p) + Len(q) :
                 (p \o q)[i] = IF i <= Len(p) THEN p[i] ELSE q[i - Len(p)]
      BY ONLY <2>3, <2>3a, ConcatProperties
    <3>1. p \o q \in Seq(T) /\ Len(p \o q) = Len(t) /\ Len(p) + Len(q) = Len(t)
      BY <2>1, <2>3, <2>3a, <3>0
    <3>2. ASSUME NEW i \in 1..Len(t) PROVE (p \o q)[i] = t[i]
      <4>1. CASE i <= k
        <5>1. i \in 1..k /\ i <= Len(p)
          BY <2>1, <2>3, <4>1
        <5> QED BY <2>3, <3>0, <3>1, <5>1
      <4>2. CASE ~(i <= k)
        <5>1. i - k \in 1..n /\ k + (i - k) = i
          BY <2>1, <4>2
        <5>2. (p \o q)[i] = q[i - k]
          BY <2>3, <3>0, <3>1, <4>2
        <5>3. q[i - k] = t[k + (i - k)]
          BY <2>3a, <5>1
        <5> QED BY <5>1, <5>2, <5>3
      <4> QED BY <4>1, <4>2
    <3> QED BY <3>1, <3>2, SeqEqual
  <2>5. q # <<>>
    <3>1. Len(q) # 0
      BY <2>1, <2>3a
    <3> QED BY <2>3a, <3>1, EmptySeq
  <2>6. Kept(t, n) \in Seq(T) /\ Len(Kept(t, n)) <= n
    BY <2>1, <2>2, <2>3a
  <2>7. \E before \in Seq(T) : t = before \o Kept(t, n)
    BY <2>2, <2>3, <2>4
  <2> QED BY <2>2, <2>5, <2>6, <2>7
<1> QED BY <1>2, <1>3

LEMMA KeptElements ==
    ASSUME NEW T, NEW t \in Seq(T), NEW n \in Nat \ {0}
    PROVE  /\ Range(Kept(t, n)) \subseteq Range(t)
           /\ IsInjective(t) => IsInjective(Kept(t, n))
           /\ t # <<>> => Last(Kept(t, n)) = Last(t)
           /\ \A kept : Len(Filtered(Kept(t, n), kept)) <= Len(Filtered(t, kept))
<1> DEFINE q == Kept(t, n)
<1>1. q \in Seq(T) /\ (t # <<>> => q # <<>>)
  BY KeptFacts
<1>2. PICK p \in Seq(T) : t = p \o q
  BY KeptFacts
<1> HIDE DEF q
<1>3. ASSUME NEW kept PROVE Len(Filtered(q, kept)) <= Len(Filtered(t, kept))
  <2> DEFINE fp == Filtered(p, kept)
             fq == Filtered(q, kept)
  <2>1. Filtered(t, kept) = fp \o fq
    BY <1>1, <1>2, FilteredConcat
  <2>2. fp \in Seq(T) /\ fq \in Seq(T)
    BY <1>1, FilteredTyped DEF SiftedIn
  <2> HIDE DEF fp, fq
  <2>3. Len(fp \o fq) = Len(fp) + Len(fq) /\ Len(fp) \in Nat /\ Len(fq) \in Nat
    BY <2>2
  <2>4. Len(fq) <= Len(fp \o fq)
    BY ONLY <2>3
  <2> QED BY <2>1, <2>4 DEF fq
<1>4. /\ Range(t) = Range(p) \cup Range(q)
      /\ IsInjective(t) => IsInjective(q)
      /\ q # <<>> => Last(t) = Last(q)
  BY <1>1, <1>2, ConcatFacts
<1> QED BY <1>1, <1>3, <1>4 DEF q

\* Of a table without repetitions, those that are among its newest are its newest.
LEMMA AmongNewest ==
    ASSUME NEW T, NEW t \in Seq(T), NEW n \in Nat \ {0}, IsInjective(t)
    PROVE  Filtered(t, Range(Kept(t, n))) = Kept(t, n)
<1> DEFINE q == Kept(t, n)
<1>1. q \in Seq(T)
  BY KeptFacts
<1>2. PICK p \in Seq(T) : t = p \o q
  BY KeptFacts
<1> HIDE DEF q
<1>3. Range(p) \cap Range(q) = {}
  BY <1>1, <1>2, ConcatFacts
<1>4. Filtered(p, Range(q)) = <<>> /\ Filtered(q, Range(q)) = q
  BY <1>1, <1>3, FilteredNone, FilteredAll
<1>5. Filtered(p \o q, Range(q)) = Filtered(p, Range(q)) \o Filtered(q, Range(q))
  BY <1>1, FilteredConcat
<1>6. <<>> \o q = q
  BY <1>1
<1> QED BY <1>2, <1>4, <1>5, <1>6 DEF q

\* What saving leaves of the table: what is kept of it ends with the run that is saved,
\* and is within the limits.
LEMMA SavedTable ==
    ASSUME StudyRows, WithinLimits, NEW r \in Runs, r \notin Range(stored), runs[r].owner \in Owners,
           NEW table, table = Kept(PrunedForOwner(Append(stored, r), runs[r].owner), KeptInTotal)
    PROVE  /\ table \in Seq(Runs) /\ Len(table) <= KeptInTotal /\ IsInjective(table)
           /\ Range(table) \subseteq Range(stored) \cup {r}
           /\ table # <<>> /\ Last(table) = r
           /\ \A o \in Owners : Len(OwnedBy(table, o)) <= KeptPerOwner
<1> DEFINE own == runs[r].owner
           t == Append(stored, r)
           w == OwnedBy(t, own)
           news == Kept(w, KeptPerOwner)
           A == (Runs \ RunsOf(own)) \cup Range(news)
           u == Filtered(t, A)
<1>0. KeptPerOwner \in Nat \ {0} /\ KeptInTotal \in Nat \ {0} /\ KeptPerOwner \in Nat
  BY StudiesAssumption
<1>1. /\ stored \in Seq(Runs) /\ t \in Seq(Runs) /\ t # <<>>
      /\ Range(t) = Range(stored) \cup {r} /\ IsInjective(t)
  <2>1. stored \in Seq(Runs) /\ IsInjective(stored)
    BY DEF StudyRows, WithinLimits
  <2>2. t \in Seq(Runs) /\ Len(t) = Len(stored) + 1 /\ Len(stored) \in Nat
    BY <2>1
  <2>3. t # <<>>
    BY <2>1, AppendLast
  <2> QED BY <2>1, <2>2, <2>3, RangeOfAppend, InjectiveAppend
<1>2. table = Kept(u, KeptInTotal)
  BY DEF PrunedForOwner
<1>3. r \in RunsOf(own)
  BY DEF RunsOf
<1>4. w = Append(Filtered(stored, RunsOf(own)), r)
  BY <1>1, <1>3, FilteredGrows DEF OwnedBy
<1>5. Filtered(stored, RunsOf(own)) \in Seq(Runs)
  BY <1>1, FilteredTyped DEF SiftedIn
<1>6. w \in Seq(Runs) /\ w # <<>> /\ Last(w) = r /\ IsInjective(w)
  <2> DEFINE f == Filtered(stored, RunsOf(own))
  <2> HIDE DEF f
  <2>1. Append(f, r) \in Seq(Runs) /\ Append(f, r) # <<>> /\ Last(Append(f, r)) = r
    <3>1. f \in Seq(Runs)
      BY <1>5 DEF f
    <3>2. /\ Append(f, r) \in Seq(Runs) /\ Len(Append(f, r)) = Len(f) + 1 /\ Len(f) \in Nat
          /\ Append(f, r)[Len(f) + 1] = r
      BY <3>1
    <3> QED BY <3>2, EmptySeq DEF Last
  <2>2. IsInjective(w)
    BY <1>1, FilteredInjective DEF OwnedBy
  <2> QED BY <1>4, <2>1, <2>2 DEF f
<1> HIDE DEF t, w
<1>7. /\ news \in Seq(Runs) /\ Len(news) <= KeptPerOwner /\ news # <<>> /\ Last(news) = r
      /\ Range(news) \subseteq Range(w)
  BY <1>0, <1>6, KeptFacts, KeptElements
<1>8. r \in Range(news)
  BY <1>7, LastSplit
<1> HIDE DEF news
<1>9. u = Append(Filtered(stored, A), r)
  <2>1. r \in A
    BY <1>8
  <2> HIDE DEF A
  <2> QED BY <1>1, <2>1, FilteredGrows DEF t
<1>10. /\ u \in Seq(Runs) /\ Range(u) = Range(t) \cap A /\ IsInjective(u)
       /\ Filtered(stored, A) \in Seq(Runs)
  BY <1>1, FilteredTyped, FilteredInjective DEF SiftedIn
<1>11. u # <<>> /\ Last(u) = r
  <2> DEFINE f == Filtered(stored, A)
  <2> HIDE DEF f
  <2>1. f \in Seq(Runs) /\ u = Append(f, r)
    BY <1>9, <1>10 DEF f
  <2>2. /\ Len(Append(f, r)) = Len(f) + 1 /\ Len(f) \in Nat
        /\ Append(f, r)[Len(f) + 1] = r /\ Append(f, r) \in Seq(Runs)
    BY <2>1
  <2> QED BY <2>1, <2>2, EmptySeq DEF Last
<1> HIDE DEF u
<1>12. /\ table \in Seq(Runs) /\ Len(table) <= KeptInTotal /\ table # <<>> /\ Last(table) = r
       /\ Range(table) \subseteq Range(u) /\ IsInjective(table)
       /\ \A kept : Len(Filtered(table, kept)) <= Len(Filtered(u, kept))
  <2>1. /\ table \in Seq(Runs) /\ Len(table) <= KeptInTotal /\ table # <<>>
    BY <1>0, <1>2, <1>10, <1>11, KeptFacts
  <2>2. Last(table) = r /\ Range(table) \subseteq Range(u) /\ IsInjective(table)
    BY <1>0, <1>2, <1>10, <1>11, KeptElements
  <2>3. \A kept : Len(Filtered(table, kept)) <= Len(Filtered(u, kept))
    BY <1>0, <1>2, <1>10, KeptElements
  <2> QED BY <2>1, <2>2, <2>3
<1>13. ASSUME NEW o \in Owners PROVE Len(Filtered(u, RunsOf(o))) <= KeptPerOwner
  <2>1. Filtered(u, RunsOf(o)) = Filtered(t, A \cap RunsOf(o))
    BY <1>1, FilteredTwice DEF u
  <2>2. CASE o = own
    <3>1. A \cap RunsOf(o) = RunsOf(own) \cap Range(news)
      <4>1. RunsOf(own) \subseteq Runs
        BY DEF RunsOf
      <4> QED BY <2>2, <4>1
    <3>2. Filtered(t, RunsOf(own) \cap Range(news)) = Filtered(w, Range(news))
      BY <1>1, FilteredTwice DEF w, OwnedBy
    <3>3. Filtered(w, Range(news)) = news
      BY <1>0, <1>6, AmongNewest DEF news
    <3> QED BY <1>7, <2>1, <3>1, <3>2, <3>3
  <2>3. CASE o # own
    <3>1. RunsOf(o) \subseteq Runs \ RunsOf(own)
      BY <2>3 DEF RunsOf
    <3>2. A \cap RunsOf(o) = RunsOf(o)
      BY <3>1
    <3>3. r \notin RunsOf(o)
      BY <2>3 DEF RunsOf
    <3>4. Filtered(t, RunsOf(o)) = Filtered(stored, RunsOf(o))
      BY <1>1, <3>3, FilteredGrows DEF t
    <3>5. Len(Filtered(stored, RunsOf(o))) <= KeptPerOwner
      BY DEF WithinLimits, OwnedBy
    <3> QED BY <2>1, <3>2, <3>4, <3>5
  <2> QED BY <2>2, <2>3
<1>14. ASSUME NEW o \in Owners PROVE Len(OwnedBy(table, o)) <= KeptPerOwner
  <2> DEFINE ft == Filtered(table, RunsOf(o))
             fu == Filtered(u, RunsOf(o))
  <2>1. ft \in Seq(Runs) /\ fu \in Seq(Runs)
    BY <1>10, <1>12, FilteredTyped DEF SiftedIn
  <2>2. Len(ft) <= Len(fu) /\ Len(fu) <= KeptPerOwner
    BY <1>12, <1>13
  <2> HIDE DEF ft, fu
  <2>3. Len(ft) \in Nat /\ Len(fu) \in Nat
    BY <2>1
  <2>4. Len(ft) <= KeptPerOwner
    BY ONLY <1>0, <2>2, <2>3
  <2> QED BY <2>4 DEF ft, OwnedBy
<1> QED BY <1>1, <1>10, <1>12, <1>14

\* A step that changes only the stage of a run.
LEMMA Staged ==
    ASSUME StudyRows, NEW r \in Runs, NEW to \in Stages, runs' = [runs EXCEPT ![r].stage = to]
    PROVE  /\ runs' \in [Runs -> RunRow]
           /\ runs'[r].stage = to
           /\ \A q \in Runs : /\ runs'[q].owner = runs[q].owner /\ runs'[q].cells = runs[q].cells
                              /\ runs'[q].done = runs[q].done
                              /\ q # r => runs'[q].stage = runs[q].stage
           /\ \A o : RunsOf(o)' = RunsOf(o)
<1>1. runs \in [Runs -> RunRow]
  BY DEF StudyRows
<1>2. [runs[r] EXCEPT !.stage = to] \in RunRow
  BY <1>1 DEF RunRow
<1>3. runs' = [runs EXCEPT ![r] = [runs[r] EXCEPT !.stage = to]]
  OBVIOUS
<1>4. runs' \in [Runs -> RunRow]
  BY <1>1, <1>2, <1>3
<1>5. runs'[r] = [runs[r] EXCEPT !.stage = to] /\ \A q \in Runs : q # r => runs'[q] = runs[q]
  BY <1>1, <1>3
<1>6. /\ runs'[r].stage = to /\ runs'[r].owner = runs[r].owner
      /\ runs'[r].cells = runs[r].cells /\ runs'[r].done = runs[r].done
  BY <1>1, <1>5 DEF RunRow
<1>7. \A q \in Runs : runs'[q].owner = runs[q].owner
  BY <1>5, <1>6
<1> QED BY <1>4, <1>5, <1>6, <1>7 DEF RunsOf

HoldingStages == {"executing", "computed", "saved", "audited"}

LEMMA StagedHolding ==
    ASSUME StudiesInv, NEW r \in Runs, NEW to \in Stages, runs' = [runs EXCEPT ![r].stage = to]
    PROVE  Holding' = (Holding \ {r}) \cup {q \in {r} : to \in HoldingStages}
<1>1. /\ runs'[r].stage = to
      /\ \A q \in Runs : q # r => runs'[q].stage = runs[q].stage
  BY Staged DEF StudiesInv
<1>2. ASSUME NEW q \in Runs
      PROVE  q \in Holding' <=> q \in (Holding \ {r}) \cup {w \in {r} : to \in HoldingStages}
  <2>1. q \in Holding' <=> runs'[q].stage \in HoldingStages
    BY DEF Holding, HoldingStages
  <2>2. q \in Holding <=> runs[q].stage \in HoldingStages
    BY DEF Holding, HoldingStages
  <2>3. CASE q = r
    BY <1>1, <2>1, <2>3
  <2>4. CASE q # r
    BY <1>1, <2>1, <2>2, <2>4
  <2> QED BY <2>3, <2>4
<1>3. Holding' \subseteq Runs /\ Holding \subseteq Runs
  BY DEF Holding
<1> QED BY <1>2, <1>3

\* What the step says of the other runs, as long as none of them awaits its answer when
\* the table changes.
LEMMA OthersStand ==
    ASSUME StudiesInv, NEW r \in Runs, NEW to \in Stages, runs' = [runs EXCEPT ![r].stage = to],
           UNCHANGED gone, audited \subseteq audited',
           stored' = stored \/ Holding \subseteq {r}
    PROVE  /\ \A q \in Runs \ {r} : RunStands(q)'
           /\ \A q \in Runs \ {r} : StoredStands(q) => StoredStands(q)'
<1>1. \A q \in Runs \ {r} : runs'[q] = runs[q]
  BY DEF StudiesInv, StudyRows
<1> SUFFICES ASSUME NEW q \in Runs \ {r}
             PROVE  RunStands(q)' /\ (StoredStands(q) => StoredStands(q)')
  OBVIOUS
<1>2. Planned(q)' = Planned(q) /\ RunStands(q)
  BY <1>1 DEF Planned, StudiesInv
<1>3. StoredStands(q) => StoredStands(q)'
  BY <1>1, <1>2 DEF StoredStands
<1>4. runs[q].stage \in {"saved", "audited"} => stored' = stored
  BY DEF Holding
<1>5. runs'[q].stage \in {"saved", "audited"}
      => runs'[q].owner \in gone' \/ (stored' # <<>> /\ Last(stored') = q)
  BY <1>1, <1>2, <1>4 DEF RunStands
<1>6. RunStands(q)'
  BY <1>1, <1>2, <1>5 DEF RunStands
<1> QED BY <1>3, <1>6

\* And of the run itself.
LEMMA SelfStands ==
    ASSUME StudiesInv, NEW r \in Runs, NEW to \in Stages, runs' = [runs EXCEPT ![r].stage = to],
           UNCHANGED gone, audited \subseteq audited',
           runs[r].stage # "unsent",
           to \in {"computed", "saved", "audited", "completed"} => Len(runs[r].done) = Planned(r),
           to \in {"unsent", "queued", "refused"} => runs[r].done = <<>>,
           to \in {"saved", "audited"}
           => runs[r].owner \in gone \/ (stored' # <<>> /\ Last(stored') = r),
           to = "audited" => r \in audited' \/ runs[r].owner \in gone
    PROVE  RunStands(r)'
<1>1. /\ runs'[r].stage = to /\ runs'[r].owner = runs[r].owner
      /\ runs'[r].cells = runs[r].cells /\ runs'[r].done = runs[r].done
  BY Staged DEF StudiesInv
<1>2. Planned(r)' = Planned(r) /\ RunStands(r)
  BY <1>1 DEF Planned, StudiesInv
<1>3. Len(runs[r].done)' = Len(runs[r].done) /\ Schedule(runs[r].cells)' = Schedule(runs[r].cells)
  BY <1>1 DEF Schedule
<1> QED BY <1>1, <1>2, <1>3 DEF RunStands

\* The table does not change, and a run of it has ended its computation.
LEMMA TableStands ==
    ASSUME StudiesInv, NEW r \in Runs, NEW to \in Stages, runs' = [runs EXCEPT ![r].stage = to],
           UNCHANGED <<stored, gone>>, audited \subseteq audited',
           r \in Range(stored)
           => /\ to \in {"saved", "audited", "completed", "failed", "lost"}
              /\ r \in audited' \/ to \in {"saved", "failed", "lost"}
    PROVE  /\ WithinLimits'
           /\ \A q \in Range(stored)' : StoredStands(q)'
<1>1. /\ \A o : RunsOf(o)' = RunsOf(o)
      /\ runs'[r].stage = to /\ runs'[r].cells = runs[r].cells /\ runs'[r].done = runs[r].done
  BY Staged DEF StudiesInv
<1>2. WithinLimits'
  BY <1>1 DEF WithinLimits, OwnedBy, StudiesInv
<1>3. Range(stored)' = Range(stored) /\ Range(stored) \subseteq Runs
  BY DEF StudiesInv, StudyRows, Range
<1>4. ASSUME NEW q \in Range(stored) PROVE StoredStands(q)'
  <2>1. StoredStands(q) /\ q \in Runs
    BY <1>3 DEF StudiesInv
  <2>2. CASE q # r
    BY <1>3, <2>1, <2>2, OthersStand
  <2>3. CASE q = r
    BY <1>1, <2>1, <2>3 DEF StoredStands, Planned
  <2> QED BY <2>2, <2>3
<1> QED BY <1>2, <1>3, <1>4

\* A run that holds the lock is the only one.
LEMMA OneHolds ==
    ASSUME StudiesInv, NEW r \in Runs, runs[r].stage \in HoldingStages
    PROVE  Holding = {r} /\ executing
<1>1. r \in Holding
  BY DEF Holding, HoldingStages
<1> QED BY <1>1 DEF StudiesInv, RunnerStands

LEMMA NoneStored ==
    ASSUME StudiesInv, NEW r \in Runs,
           runs[r].stage \notin {"saved", "audited", "completed", "failed", "lost"}
    PROVE  r \notin Range(stored)
BY DEF StudiesInv, StoredStands

LEMMA RefuseStands ==
    ASSUME StudiesInv, NEW r \in Runs, runs[r].stage = "queued",
           runs' = [runs EXCEPT ![r].stage = "refused"],
           UNCHANGED <<executing, stored, audited, gone>>
    PROVE  StudiesInv'
<1>0. "refused" \in Stages /\ "refused" \notin HoldingStages
      /\ "queued" \notin HoldingStages /\ RunStands(r)
  BY DEF Stages, HoldingStages, StudiesInv
<1>1. StudyRows'
  BY <1>0, Staged DEF StudiesInv, StudyRows
<1>2. RunnerStands'
  <2>1. Holding' = Holding
    BY <1>0, StagedHolding DEF Holding, HoldingStages
  <2> QED BY <2>1 DEF StudiesInv, RunnerStands
<1>3. \A q \in Runs : RunStands(q)'
  <2>1. RunStands(r)'
    BY <1>0, SelfStands DEF RunStands
  <2> QED BY <1>0, <2>1, OthersStand
<1>4. WithinLimits' /\ \A q \in Range(stored)' : StoredStands(q)'
  BY <1>0, NoneStored, TableStands
<1> QED BY <1>1, <1>2, <1>3, <1>4 DEF StudiesInv

LEMMA AcquireStands ==
    ASSUME StudiesInv, NEW r \in Runs, runs[r].stage = "queued", ~executing,
           runs' = [runs EXCEPT ![r].stage = "executing"], executing' = TRUE,
           UNCHANGED <<stored, audited, gone>>
    PROVE  StudiesInv'
<1>0. "executing" \in Stages /\ "executing" \in HoldingStages /\ RunStands(r)
  BY DEF Stages, HoldingStages, StudiesInv
<1>1. StudyRows'
  BY <1>0, Staged DEF StudiesInv, StudyRows
<1>2. RunnerStands'
  <2>1. Holding = {}
    BY DEF StudiesInv, RunnerStands
  <2>2. Holding' = {r}
    BY <1>0, <2>1, StagedHolding
  <2> QED BY <2>2 DEF RunnerStands
<1>3. \A q \in Runs : RunStands(q)'
  <2>1. RunStands(r)'
    BY <1>0, SelfStands DEF RunStands
  <2> QED BY <1>0, <2>1, OthersStand
<1>4. WithinLimits' /\ \A q \in Range(stored)' : StoredStands(q)'
  BY <1>0, NoneStored, TableStands
<1> QED BY <1>1, <1>2, <1>3, <1>4 DEF StudiesInv

LEMMA AnalyseStands ==
    ASSUME StudiesInv, NEW r \in Runs, runs[r].stage = "executing", ~Unfinished(r),
           runs' = [runs EXCEPT ![r].stage = "computed"],
           UNCHANGED <<executing, stored, audited, gone>>
    PROVE  StudiesInv'
<1>0. "computed" \in Stages /\ "computed" \in HoldingStages /\ RunStands(r)
  BY DEF Stages, HoldingStages, StudiesInv
<1>1. StudyRows'
  BY <1>0, Staged DEF StudiesInv, StudyRows
<1>2. RunnerStands'
  <2>1. Holding = {r} /\ executing
    BY OneHolds DEF HoldingStages
  <2>2. Holding' = {r}
    BY <1>0, <2>1, StagedHolding
  <2> QED BY <2>1, <2>2 DEF RunnerStands
<1>3. \A q \in Runs : RunStands(q)'
  <2>1. Len(runs[r].done) = Planned(r)
    <3>1. runs[r].done \in Seq(PairsPlanned) /\ runs[r].cells \in 0..Cells
      BY DEF StudiesInv, StudyRows, RunRow
    <3>2. Len(runs[r].done) \in Nat
      BY <3>1
    <3>3. Planned(r) \in Nat
      BY <3>1, PlannedRuns DEF Planned
    <3>4. ~(Len(runs[r].done) < Planned(r)) /\ Len(runs[r].done) <= Planned(r)
      BY <1>0 DEF Unfinished, Planned, RunStands
    <3> QED BY ONLY <3>2, <3>3, <3>4
  <2>2. RunStands(r)'
    BY <1>0, <2>1, SelfStands
  <2> QED BY <1>0, <2>2, OthersStand
<1>4. WithinLimits' /\ \A q \in Range(stored)' : StoredStands(q)'
  BY <1>0, NoneStored, TableStands
<1> QED BY <1>1, <1>2, <1>3, <1>4 DEF StudiesInv

LEMMA FailStands ==
    ASSUME StudiesInv, NEW r \in Runs, runs[r].stage \in {"executing", "computed", "saved"},
           runs' = [runs EXCEPT ![r].stage = "failed"], executing' = FALSE,
           UNCHANGED <<stored, audited, gone>>
    PROVE  StudiesInv'
<1>0. "failed" \in Stages /\ "failed" \notin HoldingStages /\ RunStands(r)
  BY DEF Stages, HoldingStages, StudiesInv
<1>1. StudyRows'
  BY <1>0, Staged DEF StudiesInv, StudyRows
<1>2. RunnerStands'
  <2>1. Holding = {r}
    BY OneHolds DEF HoldingStages
  <2>2. Holding' = {}
    <3>1. Holding' = (Holding \ {r}) \cup {q \in {r} : FALSE}
      BY <1>0, StagedHolding
    <3> QED BY <2>1, <3>1
  <2> QED BY <2>2 DEF RunnerStands
<1>3. \A q \in Runs : RunStands(q)'
  <2>1. RunStands(r)'
    BY <1>0, SelfStands
  <2> QED BY <1>0, <2>1, OthersStand
<1>4. WithinLimits' /\ \A q \in Range(stored)' : StoredStands(q)'
  BY <1>0, TableStands
<1> QED BY <1>1, <1>2, <1>3, <1>4 DEF StudiesInv

LEMMA AuditStands ==
    ASSUME StudiesInv, NEW r \in Runs, runs[r].stage = "saved",
           runs' = [runs EXCEPT ![r].stage = "audited"], audited' = audited \cup {r},
           UNCHANGED <<executing, stored, gone>>
    PROVE  StudiesInv'
<1>0. "audited" \in Stages /\ "audited" \in HoldingStages /\ RunStands(r)
      /\ audited \subseteq audited' /\ r \in audited'
  BY DEF Stages, HoldingStages, StudiesInv
<1>1. StudyRows'
  BY <1>0, Staged DEF StudiesInv, StudyRows
<1>2. RunnerStands'
  <2>1. Holding = {r} /\ executing
    BY OneHolds DEF HoldingStages
  <2>2. Holding' = {r}
    BY <1>0, <2>1, StagedHolding
  <2> QED BY <2>1, <2>2 DEF RunnerStands
<1>3. \A q \in Runs : RunStands(q)'
  <2>1. /\ Len(runs[r].done) = Planned(r)
        /\ runs[r].owner \in gone \/ (stored' # <<>> /\ Last(stored') = r)
    BY <1>0 DEF RunStands
  <2>2. RunStands(r)'
    BY <1>0, <2>1, SelfStands
  <2> QED BY <1>0, <2>2, OthersStand
<1>4. WithinLimits' /\ \A q \in Range(stored)' : StoredStands(q)'
  BY <1>0, TableStands
<1> QED BY <1>1, <1>2, <1>3, <1>4 DEF StudiesInv

LEMMA FinishStands ==
    ASSUME StudiesInv, NEW r \in Runs, runs[r].stage = "audited",
           runs' = [runs EXCEPT ![r].stage = "completed"], executing' = FALSE,
           UNCHANGED <<stored, audited, gone>>
    PROVE  StudiesInv'
<1>0. "completed" \in Stages /\ "completed" \notin HoldingStages /\ RunStands(r)
  BY DEF Stages, HoldingStages, StudiesInv
<1>1. StudyRows'
  BY <1>0, Staged DEF StudiesInv, StudyRows
<1>2. RunnerStands'
  <2>1. Holding = {r}
    BY OneHolds DEF HoldingStages
  <2>2. Holding' = {}
    <3>1. Holding' = (Holding \ {r}) \cup {q \in {r} : FALSE}
      BY <1>0, StagedHolding
    <3> QED BY <2>1, <3>1
  <2> QED BY <2>2 DEF RunnerStands
<1>3. \A q \in Runs : RunStands(q)'
  <2>1. Len(runs[r].done) = Planned(r)
    BY <1>0 DEF RunStands
  <2>2. RunStands(r)'
    BY <1>0, <2>1, SelfStands
  <2> QED BY <1>0, <2>2, OthersStand
<1>4. WithinLimits' /\ \A q \in Range(stored)' : StoredStands(q)'
  <2>1. r \in Range(stored) => r \in audited
    BY DEF StudiesInv, StoredStands
  <2> QED BY <1>0, <2>1, TableStands
<1> QED BY <1>1, <1>2, <1>3, <1>4 DEF StudiesInv

\* The end of the table is kept by the pruning, and the new row is of a whole study.
LEMMA SaveStands ==
    ASSUME StudiesInv, NEW r \in Runs, runs[r].stage = "computed",
           runs' = [runs EXCEPT ![r].stage = "saved"],
           stored' = Kept(PrunedForOwner(Append(stored, r), runs[r].owner), KeptInTotal),
           UNCHANGED <<executing, audited, gone>>
    PROVE  StudiesInv'
<1>0. "saved" \in Stages /\ "saved" \in HoldingStages /\ "computed" \in HoldingStages
      /\ RunStands(r)
  BY DEF Stages, HoldingStages, StudiesInv
<1>1. r \notin Range(stored) /\ runs[r].owner \in Owners
  BY <1>0, NoneStored DEF RunStands
<1> DEFINE table == Kept(PrunedForOwner(Append(stored, r), runs[r].owner), KeptInTotal)
<1>2. /\ table \in Seq(Runs) /\ Len(table) <= KeptInTotal /\ IsInjective(table)
      /\ Range(table) \subseteq Range(stored) \cup {r}
      /\ table # <<>> /\ Last(table) = r
      /\ \A o \in Owners : Len(OwnedBy(table, o)) <= KeptPerOwner
  <2>1. StudyRows /\ WithinLimits
    BY DEF StudiesInv
  <2> QED BY <1>1, <2>1, SavedTable
<1> HIDE DEF table
<1>3. stored' = table
  BY DEF table
<1>4. StudyRows'
  BY <1>0, <1>2, <1>3, Staged DEF StudiesInv, StudyRows
<1>5. Holding = {r} /\ executing
  BY <1>0, OneHolds
<1>6. RunnerStands'
  <2>1. Holding' = {r}
    BY <1>0, <1>5, StagedHolding
  <2> QED BY <1>5, <2>1 DEF RunnerStands
<1>7. /\ \A q \in Runs \ {r} : RunStands(q)'
      /\ \A q \in Runs \ {r} : StoredStands(q) => StoredStands(q)'
  BY <1>0, <1>5, OthersStand
<1>8. Len(runs[r].done) = Planned(r)
  BY <1>0 DEF RunStands
<1>9. RunStands(r)'
  BY <1>0, <1>2, <1>3, <1>8, SelfStands
<1>10. runs'[r].stage = "saved" /\ Planned(r)' = Planned(r) /\ runs'[r].done = runs[r].done
       /\ \A o : RunsOf(o)' = RunsOf(o)
  BY <1>0, Staged DEF StudiesInv, Planned
<1>11. StoredStands(r)'
  BY <1>8, <1>10 DEF StoredStands
<1>12. ASSUME NEW q \in Range(table) PROVE StoredStands(q)'
  <2>1. CASE q = r
    BY <1>11, <2>1
  <2>2. CASE q # r
    <3>1. q \in Range(stored)
      BY <1>2, <2>2
    <3>1a. Range(stored) \subseteq Runs
      BY DEF StudiesInv, StudyRows, Range
    <3>2. StoredStands(q) /\ q \in Runs
      BY <3>1, <3>1a DEF StudiesInv
    <3> QED BY <1>7, <2>2, <3>2
  <2> QED BY <2>1, <2>2
<1>13. WithinLimits'
  <2>1. \A o \in Owners : OwnedBy(stored, o)' = OwnedBy(table, o)
    BY <1>3, <1>10 DEF OwnedBy
  <2> QED BY <1>2, <1>3, <2>1 DEF WithinLimits
<1> QED BY <1>3, <1>4, <1>6, <1>7, <1>9, <1>12, <1>13 DEF StudiesInv

\* A request that arrives is of no owner before, and not stored.
LEMMA ArriveStands ==
    ASSUME StudiesInv, NEW r \in Runs, NEW o \in Owners, NEW f \in BOOLEAN, NEW c \in 1..Cells,
           RunStudy(r, o, f, c)
    PROVE  StudiesInv'
<1> DEFINE row == [Unsent EXCEPT !.stage = "queued", !.owner = o, !.frozen = f, !.cells = c]
<1>1. /\ runs[r].stage = "unsent" /\ runs' = [runs EXCEPT ![r] = row]
      /\ UNCHANGED <<executing, stored, audited, gone>>
  BY DEF RunStudy
<1>2a. /\ row.stage = "queued" /\ row.owner = o /\ row.frozen = f /\ row.cells = c
       /\ row.done = <<>>
  BY DEF Unsent
<1>3. c \in 0..Cells
  BY StudiesAssumption
<1>4. row \in RunRow
  <2>1. Unsent \in RunRow
    <3>1. 0 \in 0..Cells /\ <<>> \in Seq(PairsPlanned)
      BY StudiesAssumption
    <3> QED BY <3>1 DEF Unsent, RunRow, Stages
  <2>2. "queued" \in Stages
    BY DEF Stages
  <2> QED BY <1>3, <2>1, <2>2 DEF RunRow
<1> HIDE DEF row
<1>5. /\ runs \in [Runs -> RunRow] /\ stored \in Seq(Runs)
      /\ runs'[r] = row /\ \A q \in Runs : q # r => runs'[q] = runs[q]
  BY <1>1 DEF StudiesInv, StudyRows
<1>6. StudyRows'
  BY <1>1, <1>4, <1>5 DEF StudiesInv, StudyRows
<1>7. RunnerStands'
  <2>1. ASSUME NEW q \in Runs PROVE q \in Holding' <=> q \in Holding
    BY <1>1, <1>2a, <1>5 DEF Holding
  <2>2. Holding' \subseteq Runs /\ Holding \subseteq Runs
    BY DEF Holding
  <2>3. Holding' = Holding
    BY <2>1, <2>2
  <2> QED BY <1>1, <2>3 DEF StudiesInv, RunnerStands
<1>8. ASSUME NEW q \in Runs, q # r
      PROVE  RunStands(q)' /\ (StoredStands(q) => StoredStands(q)')
  <2>1. RunStands(q) /\ runs'[q] = runs[q] /\ Planned(q)' = Planned(q)
    BY <1>5, <1>8 DEF StudiesInv, Planned
  <2>2. RunStands(q)'
    BY <1>1, <2>1 DEF RunStands
  <2> QED BY <1>1, <2>1, <2>2 DEF StoredStands
<1>9. RunStands(r)'
  <2>1. Planned(r)' \in Nat /\ Len(<<>>) = 0 /\ Planned(r)' = c * SeedCount
    BY <1>2a, <1>3, <1>5, PlannedRuns DEF Planned
  <2>2. 0 <= Planned(r)' /\ \A k \in 1..0 : FALSE
    BY <2>1
  <2> QED BY <1>2a, <1>5, <2>1, <2>2 DEF RunStands
<1>10. r \notin Range(stored) /\ Range(stored) \subseteq Runs
  BY <1>1, <1>5, NoneStored DEF Range
<1>11. \A q \in Range(stored)' : StoredStands(q)'
  <2>1. Range(stored)' = Range(stored)
    BY <1>1
  <2> QED BY <1>8, <1>10, <2>1 DEF StudiesInv
<1>12. WithinLimits'
  <2>1. ASSUME NEW w \in Owners PROVE OwnedBy(stored, w)' = OwnedBy(stored, w)
    <3>1. Range(stored) \cap RunsOf(w)' = Range(stored) \cap RunsOf(w)
      BY <1>5, <1>10 DEF RunsOf
    <3> DEFINE one == RunsOf(w)
               two == RunsOf(w)'
    <3>2. OwnedBy(stored, w) = Filtered(stored, one) /\ OwnedBy(stored, w)' = Filtered(stored, two)
      BY <1>1 DEF OwnedBy
    <3>3. Range(stored) \cap one = Range(stored) \cap two
      BY <3>1
    <3> HIDE DEF one, two
    <3>4. Filtered(stored, one) = Filtered(stored, two)
      BY <1>5, <3>3, FilteredSame
    <3> QED BY <3>2, <3>4
  <2> QED BY <1>1, <2>1 DEF StudiesInv, WithinLimits
<1> QED BY <1>6, <1>7, <1>8, <1>9, <1>11, <1>12 DEF StudiesInv

\* The next cell and seed of the schedule are done after those before them.
LEMMA CellStands ==
    ASSUME StudiesInv, NEW r \in Runs, RunCell(r)
    PROVE  StudiesInv'
<1> DEFINE d == runs[r].done
           n == Len(runs[r].done)
           c == runs[r].cells
           x == Schedule(c)[n + 1]
           e == Append(d, x)
<1>1. /\ runs[r].stage = "executing" /\ n < Planned(r)
      /\ runs' = [runs EXCEPT ![r].done = e]
      /\ UNCHANGED <<executing, stored, audited, gone>>
  BY DEF RunCell, Unfinished, Planned
<1>2. /\ runs \in [Runs -> RunRow] /\ runs[r] \in RunRow
      /\ d \in Seq(PairsPlanned) /\ n \in Nat /\ c \in 0..Cells /\ RunStands(r)
  <2>1. runs \in [Runs -> RunRow] /\ runs[r] \in RunRow /\ RunStands(r)
    BY DEF StudiesInv, StudyRows
  <2>2. d \in Seq(PairsPlanned) /\ c \in 0..Cells
    BY <2>1 DEF RunRow
  <2> QED BY <2>1, <2>2
<1>3. Planned(r) \in Nat /\ Planned(r) = c * SeedCount
  BY <1>2, PlannedRuns DEF Planned
<1>4. n + 1 \in 1..Planned(r) /\ n + 1 <= Planned(r)
  BY <1>1, <1>2, <1>3
<1>5. x \in PairsPlanned
  <2>1. n + 1 \in DOMAIN Schedule(c)
    BY <1>3, <1>4 DEF Schedule
  <2>2. x \in Range(Schedule(c))
    BY <2>1 DEF Range
  <2> QED BY <1>2, <2>2 DEF PairsPlanned
<1> HIDE DEF x
<1>6. /\ e \in Seq(PairsPlanned) /\ Len(e) = n + 1 /\ e[n + 1] = x
      /\ \A k \in 1..n : e[k] = d[k]
  BY <1>2, <1>5
<1> HIDE DEF e
<1> DEFINE row == [runs[r] EXCEPT !.done = e]
<1>7. /\ row \in RunRow /\ row.stage = runs[r].stage /\ row.owner = runs[r].owner
      /\ row.cells = c /\ row.done = e
  BY <1>2, <1>6 DEF RunRow
<1> HIDE DEF row
<1>8. runs'[r] = row /\ runs' = [runs EXCEPT ![r] = row] /\ \A q \in Runs : q # r => runs'[q] = runs[q]
  BY <1>1, <1>2 DEF row
<1>9. StudyRows'
  BY <1>1, <1>2, <1>7, <1>8 DEF StudiesInv, StudyRows
<1>10. \A q \in Runs : runs'[q].stage = runs[q].stage /\ runs'[q].owner = runs[q].owner
  BY <1>7, <1>8
<1>11. RunnerStands'
  <2>1. Holding' = Holding
    BY <1>10 DEF Holding
  <2> QED BY <1>1, <2>1 DEF StudiesInv, RunnerStands
<1>12. ASSUME NEW q \in Runs, q # r
      PROVE  RunStands(q)' /\ (StoredStands(q) => StoredStands(q)')
  <2>1. RunStands(q) /\ runs'[q] = runs[q] /\ Planned(q)' = Planned(q)
    BY <1>8, <1>12 DEF StudiesInv, Planned
  <2>2. RunStands(q)'
    <3>1. stored' = stored /\ gone' = gone /\ audited' = audited
      BY <1>1
    <3>2. Schedule(runs[q].cells)' = Schedule(runs[q].cells)
      BY <2>1 DEF Schedule
    <3> QED BY <2>1, <3>1, <3>2 DEF RunStands
  <2> QED BY <1>1, <2>1, <2>2 DEF StoredStands
<1>13. RunStands(r)'
  <2>1. /\ runs'[r].done = e /\ runs'[r].cells = c /\ Planned(r)' = Planned(r)
        /\ Len(e) = n + 1 /\ runs'[r].stage = "executing"
    BY <1>1, <1>6, <1>7, <1>8 DEF Planned
  <2>2. ASSUME NEW k \in 1..(n + 1) PROVE e[k] = Schedule(c)[k]
    <3>1. CASE k \in 1..n
      BY <1>2, <1>6, <3>1 DEF RunStands
    <3>2. CASE k \notin 1..n
      <4>1. k = n + 1
        BY <1>2, <3>2
      <4> QED BY <1>6, <4>1 DEF x
    <3> QED BY <3>1, <3>2
  <2>3. Schedule(runs[r].cells)' = Schedule(c)
    BY <2>1 DEF Schedule
  <2>4. runs'[r].owner \in Owners
    BY <1>1, <1>2, <1>10 DEF RunStands
  <2> HIDE DEF n, c
  <2> QED BY <1>4, <2>1, <2>2, <2>3, <2>4 DEF RunStands
<1>14. r \notin Range(stored) /\ Range(stored) \subseteq Runs
  BY <1>1, <1>2, NoneStored DEF Range, StudiesInv, StudyRows
<1>15. \A q \in Range(stored)' : StoredStands(q)'
  <2>1. Range(stored)' = Range(stored)
    BY <1>1
  <2> QED BY <1>12, <1>14, <2>1 DEF StudiesInv
<1>16. WithinLimits'
  <2>1. \A o : RunsOf(o)' = RunsOf(o)
    BY <1>10 DEF RunsOf
  <2> QED BY <1>1, <2>1 DEF StudiesInv, WithinLimits, OwnedBy
<1> QED BY <1>9, <1>11, <1>12, <1>13, <1>15, <1>16 DEF StudiesInv

\* Of the table the runs of others stay; a run that awaits its answer lost its row only
\* with its owner.
LEMMA DeleteStands ==
    ASSUME StudiesInv, NEW o \in Owners, DeleteAccount(o)
    PROVE  StudiesInv'
<1> DEFINE others == Runs \ RunsOf(o)
           left == Filtered(stored, others)
<1>1. /\ gone' = gone \cup {o} /\ stored' = left /\ audited' = audited \ RunsOf(o)
      /\ UNCHANGED <<runs, executing>>
  BY DEF DeleteAccount
<1>2. stored \in Seq(Runs) /\ IsInjective(stored) /\ audited \subseteq Runs
  BY DEF StudiesInv, StudyRows, WithinLimits
<1>3. /\ left \in Seq(Runs) /\ Len(left) <= Len(stored)
      /\ Range(left) = Range(stored) \cap others /\ IsInjective(left)
  BY <1>2, FilteredTyped, FilteredInjective DEF SiftedIn
<1>4. StudyRows'
  BY <1>1, <1>3 DEF StudiesInv, StudyRows
<1>5. RunnerStands'
  BY <1>1 DEF StudiesInv, RunnerStands, Holding
<1>6. ASSUME NEW q \in Runs PROVE RunStands(q)'
  <2>1. RunStands(q) /\ runs'[q] = runs[q] /\ Planned(q)' = Planned(q)
    BY <1>1 DEF StudiesInv, Planned
  <2>2. runs[q].owner = o => runs[q].owner \in gone'
    BY <1>1
  <2>3. ASSUME runs[q].owner # o, stored # <<>>, Last(stored) = q
        PROVE  stored' # <<>> /\ Last(stored') = q
    <3>1. Last(stored) \in others
      BY <2>3 DEF RunsOf
    <3> HIDE DEF others
    <3>2. Filtered(stored, others) # <<>> /\ Last(Filtered(stored, others)) = Last(stored)
      BY <1>2, <2>3, <3>1, FilteredLast
    <3> QED BY <1>1, <2>3, <3>2
  <2>4. runs[q].stage \in {"saved", "audited"}
        => runs[q].owner \in gone' \/ (stored' # <<>> /\ Last(stored') = q)
    BY <1>1, <2>1, <2>2, <2>3 DEF RunStands
  <2>5. runs[q].stage = "audited" => q \in audited' \/ runs[q].owner \in gone'
    BY <1>1, <2>1, <2>2 DEF RunStands, RunsOf
  <2> QED BY <2>1, <2>4, <2>5 DEF RunStands
<1>7. ASSUME NEW q \in Range(stored)' PROVE StoredStands(q)'
  <2>1. q \in Range(stored) /\ q \in others
    BY <1>1, <1>3
  <2>2. StoredStands(q) /\ runs'[q] = runs[q] /\ Planned(q)' = Planned(q)
    BY <1>1, <2>1 DEF StudiesInv, Planned
  <2>3. q \in audited => q \in audited'
    BY <1>1, <2>1
  <2> QED BY <2>2, <2>3 DEF StoredStands
<1>8. WithinLimits'
  <2>1. Len(left) <= KeptInTotal
    <3>1. Len(stored) <= KeptInTotal /\ KeptInTotal \in Nat
      BY StudiesAssumption DEF StudiesInv, WithinLimits
    <3>2. Len(left) \in Nat /\ Len(stored) \in Nat
      BY <1>2, <1>3
    <3> HIDE DEF left
    <3> QED BY <1>3, <3>1, <3>2
  <2>2. ASSUME NEW w \in Owners PROVE Len(OwnedBy(stored, w)') <= KeptPerOwner
    <3> DEFINE before == OwnedBy(stored, w)
               after == OwnedBy(stored, w)'
    <3>1. RunsOf(w)' = RunsOf(w)
      BY <1>1 DEF RunsOf
    <3>2. after = Filtered(left, RunsOf(w))
      BY <1>1, <3>1 DEF OwnedBy
    <3>3. after = Filtered(stored, others \cap RunsOf(w))
      BY <1>2, <3>2, FilteredTwice
    <3>4. after = Filtered(before, others)
      <4>1. Filtered(Filtered(stored, RunsOf(w)), others) = Filtered(stored, RunsOf(w) \cap others)
        BY <1>2, FilteredTwice
      <4>2. RunsOf(w) \cap others = others \cap RunsOf(w)
        OBVIOUS
      <4> QED BY <3>3, <4>1, <4>2 DEF OwnedBy
    <3>5. before \in Seq(Runs)
      BY <1>2, FilteredTyped DEF SiftedIn, OwnedBy
    <3>6. Len(before) <= KeptPerOwner
      BY DEF StudiesInv, WithinLimits
    <3> HIDE DEF before, after, others
    <3>7. Len(after) <= Len(before) /\ after \in Seq(Runs)
      BY <3>4, <3>5, FilteredTyped DEF SiftedIn
    <3>8. Len(after) \in Nat /\ Len(before) \in Nat /\ KeptPerOwner \in Nat
      BY <3>5, <3>7, StudiesAssumption
    <3>9. Len(after) <= KeptPerOwner
      BY ONLY <3>6, <3>7, <3>8
    <3> QED BY <3>9 DEF after
  <2> HIDE DEF left
  <2>3. IsInjective(stored)' /\ (Len(stored) <= KeptInTotal)'
    BY <1>1, <1>3, <2>1
  <2> QED BY <2>2, <2>3 DEF WithinLimits
<1> QED BY <1>4, <1>5, <1>6, <1>7, <1>8 DEF StudiesInv

\* The runs under way are lost, what is stored stays.
LEMMA RestartStands ==
    ASSUME StudiesInv, Restart
    PROVE  StudiesInv'
<1>1. /\ runs' = [q \in Runs |-> IF runs[q].stage \in InFlight
                                THEN [runs[q] EXCEPT !.stage = "lost"] ELSE runs[q]]
      /\ executing' = FALSE /\ UNCHANGED <<stored, audited, gone>>
  BY DEF Restart
<1>2. runs \in [Runs -> RunRow]
  BY DEF StudiesInv, StudyRows
<1>3. ASSUME NEW q \in Runs
      PROVE  /\ runs'[q] \in RunRow
             /\ runs'[q].stage = IF runs[q].stage \in InFlight THEN "lost" ELSE runs[q].stage
             /\ runs'[q].owner = runs[q].owner /\ runs'[q].cells = runs[q].cells
             /\ runs'[q].done = runs[q].done
  <2> DEFINE row == [runs[q] EXCEPT !.stage = "lost"]
  <2>1. /\ row \in RunRow /\ row.stage = "lost" /\ row.owner = runs[q].owner
        /\ row.cells = runs[q].cells /\ row.done = runs[q].done
    BY <1>2 DEF RunRow, Stages
  <2>2. runs'[q] = IF runs[q].stage \in InFlight THEN row ELSE runs[q]
    BY <1>1
  <2> HIDE DEF row
  <2> QED BY <1>2, <2>1, <2>2
<1>4. StudyRows'
  <2>1. runs' \in [Runs -> RunRow]
    BY <1>1, <1>3
  <2> QED BY <1>1, <2>1 DEF StudiesInv, StudyRows
<1>5. RunnerStands'
  <2>1. Holding' = {}
    BY <1>3 DEF Holding, InFlight
  <2> QED BY <1>1, <2>1 DEF RunnerStands
<1>6. ASSUME NEW q \in Runs
      PROVE  RunStands(q)' /\ (StoredStands(q) => StoredStands(q)')
  <2>1. RunStands(q) /\ Planned(q)' = Planned(q)
    BY <1>3 DEF StudiesInv, Planned
  <2>2. /\ runs'[q].stage = "lost" \/ runs'[q].stage = runs[q].stage
        /\ runs'[q].owner = runs[q].owner /\ runs'[q].cells = runs[q].cells
        /\ runs'[q].done = runs[q].done
    BY <1>3
  <2>3. Schedule(runs[q].cells)' = Schedule(runs[q].cells)
    BY <2>2 DEF Schedule
  <2>4. runs[q].stage = "unsent" => runs'[q].stage = "unsent"
    BY <1>3 DEF InFlight
  <2>5. runs'[q].stage # "unsent" => runs[q].owner \in Owners
    <3>1. CASE runs[q].stage = "unsent"
      BY <2>4, <3>1
    <3>2. CASE runs[q].stage # "unsent"
      BY <2>1, <3>2 DEF RunStands
    <3> QED BY <3>1, <3>2
  <2>6. RunStands(q)'
    BY <1>1, <2>1, <2>2, <2>3, <2>5 DEF RunStands
  <2>7. StoredStands(q) => StoredStands(q)'
    BY <1>1, <2>1, <2>2 DEF StoredStands
  <2> QED BY <2>6, <2>7
<1>7. \A q \in Range(stored)' : StoredStands(q)'
  <2>1. Range(stored)' = Range(stored) /\ Range(stored) \subseteq Runs
    BY <1>1 DEF StudiesInv, StudyRows, Range
  <2> QED BY <1>6, <2>1 DEF StudiesInv
<1>8. WithinLimits'
  <2>1. \A w : RunsOf(w)' = RunsOf(w)
    BY <1>3 DEF RunsOf
  <2> QED BY <1>1, <2>1 DEF StudiesInv, WithinLimits, OwnedBy
<1> QED BY <1>4, <1>5, <1>6, <1>7, <1>8 DEF StudiesInv

LEMMA StudiesStart == StudiesInit => StudiesInv
<1> SUFFICES ASSUME StudiesInit PROVE StudiesInv
  OBVIOUS
<1>1. /\ runs = [r \in Runs |-> Unsent] /\ executing = FALSE /\ stored = <<>>
      /\ audited = {} /\ gone = {}
  BY DEF StudiesInit
<1>2. Unsent \in RunRow
  <2>1. 0 \in 0..Cells /\ <<>> \in Seq(PairsPlanned)
    BY StudiesAssumption
  <2> QED BY <2>1 DEF Unsent, RunRow, Stages
<1>3. \A r \in Runs : runs[r] = Unsent
  BY <1>1
<1>4. StudyRows
  <2>1. <<>> \in Seq(Runs) /\ runs \in [Runs -> RunRow]
    BY <1>1, <1>2
  <2> QED BY <1>1, <2>1 DEF StudyRows
<1>5. RunnerStands
  <2>1. Holding = {}
    BY <1>3 DEF Holding, Unsent
  <2> QED BY <1>1, <2>1 DEF RunnerStands
<1>6. ASSUME NEW r \in Runs PROVE RunStands(r)
  <2>1. /\ runs[r].stage = "unsent" /\ runs[r].done = <<>> /\ runs[r].cells = 0
    BY <1>3 DEF Unsent
  <2>2. Len(<<>>) = 0 /\ 0 * SeedCount = 0 /\ \A k \in 1..0 : FALSE
    BY StudiesAssumption
  <2>3. Planned(r) = 0
    BY <2>1, <2>2 DEF Planned
  <2> QED BY <2>1, <2>2, <2>3 DEF RunStands
<1>7. \A r \in Range(stored) : StoredStands(r)
  BY <1>1, RangeOfEmpty
<1>8. WithinLimits
  <2>1. /\ KeptPerOwner \in Nat /\ KeptInTotal \in Nat /\ Len(<<>>) = 0
    BY StudiesAssumption
  <2>2. \A o \in Owners : OwnedBy(stored, o) = <<>>
    BY <1>1, FilteredIsEmpty, Zenon DEF OwnedBy
  <2>3. Len(stored) <= KeptInTotal
    BY <1>1, <2>1
  <2>4. \A o \in Owners : Len(OwnedBy(stored, o)) <= KeptPerOwner
    BY <2>1, <2>2
  <2>5. IsInjective(stored)
    BY <1>1 DEF IsInjective
  <2> QED BY <2>3, <2>4, <2>5 DEF WithinLimits
<1> QED BY <1>4, <1>5, <1>6, <1>7, <1>8 DEF StudiesInv

LEMMA StudiesStep == StudiesInv /\ [StudiesNext]_studyVars => StudiesInv'
<1> SUFFICES ASSUME StudiesInv, [StudiesNext]_studyVars PROVE StudiesInv'
  OBVIOUS
<1>1. CASE \E r \in Runs, o \in Owners, f \in BOOLEAN, c \in 1..Cells : RunStudy(r, o, f, c)
  BY <1>1, ArriveStands
<1>2. ASSUME NEW r \in Runs,
             RefuseStudy(r) \/ Acquire(r) \/ RunCell(r) \/ Analyse(r) \/ Fail(r)
      PROVE  StudiesInv'
  <2>1. CASE RefuseStudy(r)
    BY <2>1, RefuseStands DEF RefuseStudy, Stage
  <2>2. CASE Acquire(r)
    <3>1. ~executing /\ UNCHANGED <<stored, audited, gone>>
      BY <2>2 DEF Acquire, Admitted
    <3>2. CASE WithinBudget(runs[r].cells) /\ Stage(r, "queued", "executing") /\ executing' = TRUE
      BY <3>1, <3>2, AcquireStands DEF Stage
    <3>3. CASE ~WithinBudget(runs[r].cells) /\ Stage(r, "queued", "refused")
               /\ UNCHANGED executing
      BY <3>1, <3>3, RefuseStands DEF Stage
    <3> QED BY <2>2, <3>2, <3>3 DEF Acquire
  <2>3. CASE RunCell(r)
    BY <2>3, CellStands
  <2>4. CASE Analyse(r)
    BY <2>4, AnalyseStands DEF Analyse, Stage
  <2>5. CASE Fail(r)
    BY <2>5, FailStands DEF Fail
  <2> QED BY <1>2, <2>1, <2>2, <2>3, <2>4, <2>5
<1>3. ASSUME NEW r \in Runs, SaveStudyRun(r) \/ AppendAuditEvent(r) \/ Finish(r)
      PROVE  StudiesInv'
  <2>1. CASE SaveStudyRun(r)
    BY <2>1, SaveStands DEF SaveStudyRun, Stage
  <2>2. CASE AppendAuditEvent(r)
    BY <2>2, AuditStands DEF AppendAuditEvent, Stage
  <2>3. CASE Finish(r)
    BY <2>3, FinishStands DEF Finish, Stage
  <2> QED BY <1>3, <2>1, <2>2, <2>3
<1>4. CASE \E o \in Owners : DeleteAccount(o)
  BY <1>4, DeleteStands
<1>5. CASE Restart
  BY <1>5, RestartStands
<1>6. CASE UNCHANGED studyVars
  <2>1. /\ runs' = runs /\ executing' = executing /\ stored' = stored
        /\ audited' = audited /\ gone' = gone
    BY <1>6 DEF studyVars
  <2>2. StudyRows' /\ RunnerStands'
    BY <2>1 DEF StudiesInv, StudyRows, RunnerStands, Holding
  <2>3. \A r \in Runs : RunStands(r)'
    BY <2>1 DEF StudiesInv, RunStands, Planned, Schedule
  <2>4. \A r \in Range(stored)' : StoredStands(r)'
    BY <2>1 DEF StudiesInv, StoredStands, Planned
  <2>5. WithinLimits'
    BY <2>1 DEF StudiesInv, WithinLimits, OwnedBy, RunsOf
  <2> QED BY <2>2, <2>3, <2>4, <2>5 DEF StudiesInv
<1> QED BY <1>1, <1>2, <1>3, <1>4, <1>5, <1>6 DEF StudiesNext

LEMMA StudiesAgree == StudiesInv => StudiesTypeOK /\ StudiesSound
<1> SUFFICES ASSUME StudiesInv PROVE StudiesTypeOK /\ StudiesSound
  OBVIOUS
<1>1. ASSUME NEW r \in Runs
      PROVE  /\ runs[r] \in RunRow /\ RunStands(r)
             /\ Len(runs[r].done) \in Nat /\ Planned(r) \in Nat
             /\ Len(runs[r].done) <= Cells * SeedCount
  <2>1. runs[r] \in RunRow /\ RunStands(r)
    BY DEF StudiesInv, StudyRows
  <2>2. runs[r].done \in Seq(PairsPlanned) /\ runs[r].cells \in 0..Cells
    BY <2>1 DEF RunRow
  <2>3. Len(runs[r].done) \in Nat
    BY <2>2
  <2>4. Planned(r) \in Nat /\ Planned(r) <= Cells * SeedCount
    BY <2>2, PlannedRuns DEF Planned
  <2>5. Cells * SeedCount \in Nat
    BY StudiesAssumption, PlannedRuns
  <2>6. Len(runs[r].done) <= Planned(r)
    BY <2>1 DEF RunStands
  <2>7. Len(runs[r].done) <= Cells * SeedCount
    BY ONLY <2>3, <2>4, <2>5, <2>6
  <2> QED BY <2>1, <2>3, <2>4, <2>7
<1>2. StudiesTypeOK
  <2>1. ASSUME NEW r \in Runs
        PROVE  /\ runs[r].stage \in Stages /\ runs[r].owner \in Owners \cup {NoOwner}
               /\ runs[r].frozen \in BOOLEAN /\ runs[r].cells \in 0..Cells
               /\ Len(runs[r].done) <= Cells * SeedCount
    BY <1>1 DEF RunRow
  <2> QED BY <2>1 DEF StudiesTypeOK, StudiesInv, StudyRows
<1>3. ASSUME NEW r \in Runs PROVE runs[r].stage \in InFlight \ {"queued"} <=> r \in Holding
  BY DEF InFlight, Holding
<1>4. /\ \A r, q \in Runs :
            runs[r].stage \in InFlight \ {"queued"}
            => executing /\ (runs[q].stage \in InFlight \ {"queued"} => q = r)
      /\ executing => \E r \in Runs : runs[r].stage \in InFlight \ {"queued"}
  <2>1. Holding \subseteq Runs
    BY DEF Holding
  <2>2. (executing <=> Holding # {}) /\ \A r, q \in Holding : q = r
    BY DEF StudiesInv, RunnerStands
  <2>3. ASSUME NEW r \in Runs, NEW q \in Runs, runs[r].stage \in InFlight \ {"queued"}
        PROVE  executing /\ (runs[q].stage \in InFlight \ {"queued"} => q = r)
    <3>1. r \in Holding /\ executing
      BY <1>3, <2>2, <2>3
    <3> QED BY <1>3, <2>2, <3>1
  <2>4. ASSUME executing PROVE \E r \in Runs : runs[r].stage \in InFlight \ {"queued"}
    <3>1. PICK r \in Holding : TRUE
      BY <2>2, <2>4
    <3> QED BY <1>3, <2>1, <3>1
  <2> QED BY <2>3, <2>4
<1>5. ASSUME NEW r \in Range(stored)
      PROVE  /\ runs[r].done = Schedule(runs[r].cells)
             /\ r \in audited \/ runs[r].stage \in {"saved", "failed", "lost"}
  <2>1. r \in Runs /\ StoredStands(r)
    BY DEF StudiesInv, StudyRows, Range
  <2> DEFINE d == runs[r].done
             w == Schedule(runs[r].cells)
             n == Planned(r)
  <2>2. d \in Seq(PairsPlanned) /\ Len(d) = n /\ n \in Nat
    BY <1>1, <2>1 DEF RunRow, StoredStands
  <2>3. \A k \in 1..n : d[k] = w[k]
    BY <1>1, <2>1, <2>2 DEF RunStands
  <2>4. w = [k \in 1..n |-> w[k]]
    BY DEF Schedule, Planned
  <2> HIDE DEF d, w, n
  <2>5. d = [k \in 1..n |-> d[k]]
    BY <2>2
  <2>6. d = w
    BY <2>3, <2>4, <2>5
  <2> QED BY <2>1, <2>6 DEF d, w, StoredStands
<1>6. StudiesSound
  BY <1>4, <1>5 DEF StudiesSound, StudiesInv, WithinLimits
<1> QED BY <1>2, <1>6

\* The newest row is that of the run that is answered, as long as its owner is there: no
\* other run holds the lock between the save and the answer.
LEMMA AnswerStep == StudiesInv /\ [StudiesNext]_studyVars => AnsweredIsStored
<1> SUFFICES ASSUME StudiesInv, [StudiesNext]_studyVars, NEW r \in Runs,
                    runs[r].stage # "completed", runs'[r].stage = "completed",
                    runs[r].owner \notin gone
             PROVE  /\ OwnedBy(stored', runs[r].owner) # <<>>
                    /\ Last(OwnedBy(stored', runs[r].owner)) = r /\ r \in audited'
  BY DEF AnsweredIsStored
<1>0. runs \in [Runs -> RunRow]
  BY DEF StudiesInv, StudyRows
<1>1. runs[r].stage = "audited" /\ UNCHANGED <<stored, audited, gone>>
  <2>1. ASSUME NEW q \in Runs, NEW o \in Owners, NEW f \in BOOLEAN, NEW c \in 1..Cells,
               RunStudy(q, o, f, c)
        PROVE  FALSE
    <3> DEFINE row == [Unsent EXCEPT !.stage = "queued", !.owner = o, !.frozen = f, !.cells = c]
    <3>1. row.stage = "queued"
      BY DEF Unsent
    <3>2. runs' = [runs EXCEPT ![q] = row]
      BY <2>1 DEF RunStudy
    <3> HIDE DEF row
    <3> QED BY <1>0, <3>1, <3>2
  <2>2. ASSUME NEW q \in Runs, NEW from, NEW to, Stage(q, from, to)
        PROVE  q = r /\ to = "completed"
    BY <1>0, <2>2 DEF Stage, RunRow
  <2>3. ASSUME NEW q \in Runs,
               RefuseStudy(q) \/ Acquire(q) \/ RunCell(q) \/ Analyse(q) \/ Fail(q)
        PROVE  FALSE
    <3>1. CASE RefuseStudy(q) \/ Acquire(q) \/ Analyse(q)
      BY <2>2, <3>1 DEF RefuseStudy, Acquire, Analyse
    <3>2. CASE RunCell(q)
      <4> DEFINE e == Append(runs[q].done, Schedule(runs[q].cells)[Len(runs[q].done) + 1])
      <4>1. runs' = [runs EXCEPT ![q].done = e]
        BY <3>2 DEF RunCell
      <4> HIDE DEF e
      <4> QED BY <1>0, <4>1 DEF RunRow
    <3>3. CASE Fail(q)
      BY <1>0, <3>3 DEF Fail, RunRow
    <3> QED BY <2>3, <3>1, <3>2, <3>3
  <2>4. ASSUME NEW q \in Runs, SaveStudyRun(q) \/ AppendAuditEvent(q) PROVE FALSE
    BY <2>2, <2>4 DEF SaveStudyRun, AppendAuditEvent
  <2>5. ASSUME NEW q \in Runs, Finish(q)
        PROVE  runs[r].stage = "audited" /\ UNCHANGED <<stored, audited, gone>>
    BY <2>2, <2>5 DEF Finish, Stage
  <2>6. ASSUME NEW o \in Owners, DeleteAccount(o) PROVE FALSE
    BY <2>6 DEF DeleteAccount
  <2>7. ASSUME Restart PROVE FALSE
    BY <1>0, <2>7 DEF Restart, RunRow
  <2>8. ~UNCHANGED studyVars
    BY DEF studyVars
  <2> QED BY <2>1, <2>3, <2>4, <2>5, <2>6, <2>7, <2>8 DEF StudiesNext
<1>2. stored \in Seq(Runs) /\ stored # <<>> /\ Last(stored) = r /\ r \in audited
  <2>1. RunStands(r)
    BY DEF StudiesInv
  <2> QED BY <1>1, <2>1 DEF RunStands, StudiesInv, StudyRows
<1> DEFINE kept == RunsOf(runs[r].owner)
<1>3. Last(stored) \in kept
  BY <1>2 DEF RunsOf
<1>4. OwnedBy(stored', runs[r].owner) = Filtered(stored, kept)
  BY <1>1 DEF OwnedBy
<1> HIDE DEF kept
<1>5. Filtered(stored, kept) # <<>> /\ Last(Filtered(stored, kept)) = Last(stored)
  BY <1>2, <1>3, FilteredLast
<1> QED BY <1>1, <1>2, <1>4, <1>5

\* The types of the runs of the runner and of the table of stored runs.
THEOREM StudiesTyped == StudiesSpec => []StudiesTypeOK
<1>1. StudiesSpec => []StudiesInv
  BY StudiesStart, StudiesStep, PTL DEF StudiesSpec
<1> QED BY <1>1, StudiesAgree, PTL

\* At most one run computes, the table keeps to its limits and holds whole studies, whichever
\* step of a run fails, for any number of runs, owners and cells.
THEOREM StudiesHold == StudiesSpec => []StudiesSound
<1>1. StudiesSpec => []StudiesInv
  BY StudiesStart, StudiesStep, PTL DEF StudiesSpec
<1> QED BY <1>1, StudiesAgree, PTL

\* A run that is answered is in the table at that moment, the newest of its owner.
THEOREM AnswersHold == StudiesSpec => [][AnsweredIsStored]_studyVars
<1>1. StudiesSpec => []StudiesInv
  BY StudiesStart, StudiesStep, PTL DEF StudiesSpec
<1>2. StudiesInv /\ [StudiesNext]_studyVars => [AnsweredIsStored]_studyVars
  BY AnswerStep
<1> QED BY <1>1, <1>2, PTL DEF StudiesSpec

-----------------------------------------------------------------------------
(* All of it.  A behaviour of MCOperations is one of each part, which either *)
(* takes its steps or stands still.                                          *)

LEMMA PartsBegin ==
    OperationsInit => /\ FlightInit /\ SiteInit /\ StudiesInit /\ LadderInit /\ AuditInit
                      /\ StatisticsTypeOK
BY DEF OperationsInit, StatisticsTypeOK

LEMMA PartsStep ==
    [OperationsNext]_operationVars
    => /\ [FlightNext]_flightVars /\ [SiteNext]_siteVars /\ [StudiesNext]_studyVars
       /\ [LadderNext]_ladderVars /\ [AuditNext]_auditVars
       /\ UNCHANGED sample
<1> SUFFICES ASSUME [OperationsNext]_operationVars
             PROVE  /\ [FlightNext]_flightVars /\ [SiteNext]_siteVars /\ [StudiesNext]_studyVars
                    /\ [LadderNext]_ladderVars /\ [AuditNext]_auditVars
                    /\ UNCHANGED sample
  OBVIOUS
<1>1. CASE OperationsNext
  BY <1>1, Zenon DEF OperationsNext
<1>2. CASE UNCHANGED operationVars
  <2>1. /\ flightVars' = flightVars /\ siteVars' = siteVars /\ studyVars' = studyVars
        /\ ladderVars' = ladderVars /\ auditVars' = auditVars /\ sample' = sample
    BY <1>2 DEF operationVars
  <2> QED BY <2>1
<1> QED BY <1>1, <1>2

LEMMA PartsBehave ==
    OperationsSpec => /\ FlightSpec /\ SiteSpec /\ StudiesSpec /\ LadderSpec /\ AuditSpec
                      /\ []StatisticsTypeOK
<1>1. StatisticsTypeOK /\ UNCHANGED sample => StatisticsTypeOK'
  BY DEF StatisticsTypeOK
<1> QED BY <1>1, PartsBegin, PartsStep, PTL
        DEF OperationsSpec, FlightSpec, SiteSpec, StudiesSpec, LadderSpec, AuditSpec

\* The types of all parts.
THEOREM OperationsTypes == OperationsSpec => []OperationsTypeOK
BY PartsBehave, FlightTypes, SiteTyped, StudiesTyped, ClaimsHold, AuditTypesHold, PTL
   DEF OperationsTypeOK

\* When one process serves: studies run one at a time and are stored whole, no level
\* passes without evidence, every chain verifies, and what is stored has its event.
THEOREM EvidenceHolds == ASSUME OneProcess PROVE OperationsSpec => []EvidenceIsKept
BY PartsBehave, StudiesHold, ClaimsHold, ChainsStayValid, PacksKeepHistory, PTL
   DEF EvidenceIsKept

\* A study that was answered is stored, and an invalidation takes the levels above along.
THEOREM AnswersStandFirm == OperationsSpec => AnswersStand
<1>1. [AnsweredIsStored]_studyVars /\ [InvalidationReachesUp]_ladderVars
      /\ [OperationsNext]_operationVars
      => [AnsweredIsStored /\ InvalidationReachesUp]_operationVars
  <2> SUFFICES ASSUME [AnsweredIsStored]_studyVars, [InvalidationReachesUp]_ladderVars
               PROVE  AnsweredIsStored /\ InvalidationReachesUp
    OBVIOUS
  <2>1. ASSUME UNCHANGED studyVars PROVE AnsweredIsStored
    BY <2>1 DEF studyVars, AnsweredIsStored
  <2>2. ASSUME UNCHANGED ladderVars PROVE InvalidationReachesUp
    BY <2>2 DEF ladderVars, InvalidationReachesUp
  <2> QED BY <2>1, <2>2
<1> QED BY <1>1, PartsBehave, AnswersHold, InvalidationHolds, PTL
        DEF OperationsSpec, AnswersStand
=============================================================================
