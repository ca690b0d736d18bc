---------------------- MODULE ExperimentLifecycleProofs ----------------------
(***************************************************************************)
(* Proofs about ExperimentLifecycle, for any number of experiments, users, *)
(* pairs, queue slots and faults.                                          *)
(*                                                                         *)
(* The inductive invariant ties four things together: what a row may hold  *)
(* (RowOK), which rows have a work item (QueueOK), what the handler that   *)
(* is under way may rely on (HandlerOK), and what the simulation thread    *)
(* has in memory compared with the row it writes (WorkerOK).  RInv         *)
(* strengthens it by what an experiment is owed between two runs: nothing  *)
(* waits for ever, what failed can be taken up, completed pairs are never  *)
(* forgotten and a settled status stays.                                   *)
(***************************************************************************)
EXTENDS ExperimentLifecycle, TLAPS

MemoryPcs == {"resume", "check", "baseline", "intervention", "save", "record",
              "aggregate", "represent", "publish"}

\* the thread may still write the row of e
HoldPcs == RunPcs \cup ClosingPcs \cup {"audit"}
Holding(e) == worker.exp = e /\ worker.pc \in HoldPcs
InUse(e) == row[e].status \in ActiveStatuses \cup {"DELETED"}

\* n pairs simulated under the signals c
Prefix(c, n) == [i \in 1..MaxPairs |-> IF i <= n THEN c ELSE NoCog]

RowOK(e) ==
    /\ row[e].status \in {"NONE", "READY", "DELETED"} => row[e] = NewRow(row[e].status)
    /\ row[e].result # NoResult =>
         /\ row[e].ckpt = NoCheckpoint
         /\ row[e].pairs > 0
         /\ \E c \in Cognitions : row[e].result = Uninterrupted(c)
    /\ PairsMatch(e)

QueueOK ==
    /\ \A i, j \in 1..Len(queue) : queue[i] = queue[j] => i = j
    /\ \A i \in 1..Len(queue) : InUse(queue[i]) /\ ~Holding(queue[i])

HandlerOK ==
    /\ handler.op # "idle" => handler.exp \in Experiments
    /\ handler.op = "submit" =>
         /\ row[handler.exp].status \in ActiveStatuses
         /\ ~Holding(handler.exp)
         /\ \A i \in 1..Len(queue) : queue[i] # handler.exp
    /\ handler.op = "cancel" /\ handler.seen = "READY" => row[handler.exp].status = "READY"

\* the thread's memory: n pairs under cog, and the row's checkpoint agrees with it
MemoryOK ==
    LET e == worker.exp
        c == worker.cog
        n == worker.n
    IN  /\ c \in Cognitions
        /\ n <= StopAt[c]
        /\ worker.runs = Prefix(c, n)
        /\ worker.stop <=> n = StopAt[c]
        /\ worker.pc \in {"check", "baseline", "intervention", "save"} => ~worker.stop
        /\ worker.pc \in {"aggregate", "represent", "publish"} => worker.stop
        /\ worker.pc = "record" => n > 0
        /\ Exists(e) =>
             IF worker.pc = "record"
             THEN /\ row[e].ckpt = [pairs |-> n - 1, cog |-> c, stop |-> FALSE]
                  /\ pairRows[e][n] = c
             ELSE row[e].ckpt = CheckpointNow

WorkerOK ==
    /\ worker.pc # "idle" => worker.exp \in Experiments
    /\ worker.pc \in RunPcs \cup {"cancelled", "failRetryable"} => InUse(worker.exp)
    /\ worker.pc \in {"load", "fresh", "cognition"} =>
         worker.n = 0 /\ worker.runs = NoPairs /\ worker.stop = FALSE
    /\ worker.pc \in {"failFinal", "audit"} =>
         row[worker.exp].status \notin {"NONE", "READY", "FAILED_RETRYABLE"}
    /\ worker.pc \in {"fresh", "cognition"} /\ Exists(worker.exp) =>
         /\ row[worker.exp].pairs = 0
         /\ row[worker.exp].ckpt = NoCheckpoint
         /\ row[worker.exp].result = NoResult
    /\ worker.pc = "cancelled" /\ Exists(worker.exp) => row[worker.exp].result = NoResult
    /\ worker.pc \in MemoryPcs => MemoryOK

IInv ==
    /\ TypeOK
    /\ \A e \in Experiments : RowOK(e)
    /\ QueueOK
    /\ HandlerOK
    /\ WorkerOK

-----------------------------------------------------------------------------
(* The values the actions build have their types.                           *)

LEMMA NewRowType == \A s \in Statuses : NewRow(s) \in Rows
BY PairsAssumption DEF NewRow, Rows

LEMMA NoPairsType == NoPairs \in PairTables
BY DEF NoPairs, PairTables

LEMMA IdleType == IdleWorker \in Workers /\ IdleHandler \in Handlers
BY NoPairsType, PairsAssumption
DEF IdleWorker, IdleHandler, Workers, Handlers, Statuses, ActiveStatuses, PrunableStatuses

LEMMA StopType == \A c \in Cognitions : StopAt[c] \in 1..MaxPairs
BY StopAssumption

LEMMA PrefixType ==
    \A c \in Cognitions : \A n \in Nat : Prefix(c, n) \in PairTables
BY DEF Prefix, PairTables

-----------------------------------------------------------------------------
LEMMA InitInv == Init => IInv
<1> SUFFICES ASSUME Init PROVE IInv
  OBVIOUS
<1> USE DEF Init
<1>1. TypeOK
  BY NewRowType, NoPairsType, IdleType, LimitAssumption DEF TypeOK, Statuses
<1>2. \A e \in Experiments : RowOK(e)
  BY DEF RowOK, PairsMatch, NewRow
<1>3. QueueOK
  BY DEF QueueOK
<1>4. HandlerOK
  BY DEF HandlerOK, IdleHandler
<1>5. WorkerOK
  BY DEF WorkerOK, IdleWorker, RunPcs, MemoryPcs
<1> QED BY <1>1, <1>2, <1>3, <1>4, <1>5 DEF IInv

-----------------------------------------------------------------------------
(* A step of the thread that leaves the other rows alone disturbs neither   *)
(* them nor the queue nor the handler.                                      *)

LEMMA WorkerFrame ==
    ASSUME IInv, worker.pc \in HoldPcs, worker'.exp = worker.exp,
           UNCHANGED <<queue, handler>>,
           \A x \in Experiments \ {worker.exp} :
              row'[x] = row[x] /\ pairRows'[x] = pairRows[x]
    PROVE  /\ QueueOK'
           /\ HandlerOK'
           /\ \A x \in Experiments \ {worker.exp} : RowOK(x)'
<1> USE DEF IInv
<1>1. \A i \in 1..Len(queue) : queue[i] \in Experiments /\ queue[i] # worker.exp
  BY DEF QueueOK, Holding, TypeOK
<1>2. QueueOK'
  BY <1>1 DEF QueueOK, Holding, InUse
<1>3. handler.op = "submit" => handler.exp # worker.exp
  BY DEF HandlerOK, Holding
<1>4. handler.op = "cancel" /\ handler.seen = "READY" => handler.exp # worker.exp
  BY DEF HandlerOK, WorkerOK, HoldPcs, ClosingPcs, InUse, ActiveStatuses
<1>5. HandlerOK'
  <2>1. handler.op # "idle" => handler.exp \in Experiments
    BY DEF HandlerOK
  <2>2. handler.op = "submit" => ~Holding(handler.exp)'
    BY <1>3 DEF Holding
  <2> QED BY <1>3, <1>4, <2>1, <2>2 DEF HandlerOK, Handlers, TypeOK
<1>6. \A x \in Experiments \ {worker.exp} : RowOK(x)'
  BY DEF RowOK, PairsMatch
<1> QED BY <1>2, <1>5, <1>6

-----------------------------------------------------------------------------
(* The handlers.                                                            *)

LEMMA CreateInv == ASSUME IInv, NEW e \in Experiments, Create(e) PROVE IInv'
<1> USE DEF IInv
<1>0. PICK gone \in SUBSET Prunable :
        /\ \A x \in Experiments :
             /\ row'[x] = IF x \in gone THEN NewRow("DELETED") ELSE
                          IF x = e THEN row'[e] ELSE row[x]
             /\ pairRows'[x] = IF x \in gone THEN NoPairs ELSE pairRows[x]
        /\ row'[e] \in {row[e], NewRow("READY")}
        /\ row' \in [Experiments -> Rows]
        /\ pairRows' \in [Experiments -> PairTables]
        /\ e \notin gone
        /\ row[e].status = "NONE"
  <2>1. PICK gone \in SUBSET Prunable :
        /\ \E room \in BOOLEAN : row' = [x \in Experiments |->
                            IF x \in gone THEN NewRow("DELETED")
                            ELSE IF x = e /\ room THEN NewRow("READY") ELSE row[x]]
        /\ pairRows' = [x \in Experiments |-> IF x \in gone THEN NoPairs ELSE pairRows[x]]
    BY DEF Create
  <2>2. row[e].status = "NONE" /\ e \notin gone
    BY <2>1 DEF Create, Prunable, PrunableStatuses, FinalStatuses, StartableStatuses
  <2>3. row' \in [Experiments -> Rows] /\ pairRows' \in [Experiments -> PairTables]
    BY <2>1, NewRowType, NoPairsType
    DEF TypeOK, Statuses, PrunableStatuses, StartableStatuses
  <2> QED BY <2>1, <2>2, <2>3
<1>1. /\ UNCHANGED <<queue, registered, worker, handler, accepting, deletedUsers,
                     faults, overwritten>>
      /\ handler = IdleHandler
  BY DEF Create, HandlerFree
<1>2. TypeOK'
  <2>1. audited' \subseteq Users
    BY OwnerAssumption DEF Create, TypeOK
  <2> QED BY <1>0, <1>1, <2>1 DEF TypeOK
<1>3. ASSUME NEW x \in Experiments PROVE RowOK(x)'
  <2>1. CASE x \in gone
    BY <1>0, <2>1 DEF RowOK, PairsMatch, NewRow
  <2>2. CASE x \notin gone /\ row'[x] = row[x]
    BY <1>0, <2>2 DEF RowOK, PairsMatch
  <2>3. CASE x = e /\ row'[e] = NewRow("READY")
    <3>1. row[e] = NewRow("NONE")
      BY <1>0 DEF RowOK
    <3>2. pairRows'[e] = NoPairs
      BY <1>0, <3>1 DEF RowOK, PairsMatch, NewRow
    <3> QED BY <2>3, <3>2 DEF RowOK, PairsMatch, NewRow
  <2>4. x \in gone \/ row'[x] = row[x] \/ (x = e /\ row'[e] = NewRow("READY"))
    BY <1>0
  <2> QED BY <2>1, <2>2, <2>3, <2>4
<1>4. \A x \in Experiments : InUse(x) => row'[x] = row[x] /\ pairRows'[x] = pairRows[x]
  BY <1>0 DEF InUse, Prunable, PrunableStatuses, FinalStatuses, StartableStatuses,
     ActiveStatuses
<1>5. QueueOK'
  BY <1>1, <1>4 DEF QueueOK, InUse, Holding, TypeOK
<1>6. HandlerOK'
  BY <1>1 DEF HandlerOK, IdleHandler
<1>7. WorkerOK'
  <2> DEFINE h == worker.exp
  <2>1. CASE worker.pc \in RunPcs \cup {"cancelled", "failRetryable"}
    <3>1. h \in Experiments /\ row'[h] = row[h] /\ pairRows'[h] = pairRows[h]
      BY <1>4, <2>1 DEF WorkerOK, RunPcs
    <3> QED BY <1>1, <2>1, <3>1
        DEF WorkerOK, MemoryOK, CheckpointNow, InUse, Exists, RunPcs
  <2>2. CASE worker.pc \in {"failFinal", "audit"}
    <3>1. h \in Experiments /\ row[h].status # "NONE"
      BY <2>2 DEF WorkerOK
    <3>2. row'[h] \in {row[h], NewRow("DELETED")}
      BY <1>0, <3>1
    <3> QED BY <1>1, <2>2, <3>1, <3>2 DEF WorkerOK, MemoryPcs, RunPcs, NewRow
  <2>3. CASE worker.pc \in {"auditFail", "callback", "idle"}
    BY <1>1, <2>3 DEF WorkerOK, MemoryPcs, RunPcs
  <2> QED BY <2>1, <2>2, <2>3 DEF TypeOK, Workers, ClosingPcs, TailPcs
<1> QED BY <1>2, <1>3, <1>5, <1>6, <1>7

LEMMA StartClaimInv == ASSUME IInv, NEW e \in Experiments, StartClaim(e) PROVE IInv'
<1> USE DEF IInv
<1>0. /\ row[e].status \in StartableStatuses
      /\ row[e] \in Rows /\ handler = IdleHandler
      /\ handler' = [op |-> "submit", exp |-> e, seen |-> row[e].status]
      /\ UNCHANGED <<queue, registered, worker, accepting, deletedUsers, audited,
                     faults, overwritten>>
      /\ \A x \in Experiments \ {e} : row'[x] = row[x] /\ pairRows'[x] = pairRows[x]
  BY DEF StartClaim, TypeOK, HandlerFree
<1>1. row' = [row EXCEPT ![e] =
                [row[e] EXCEPT
                    !.status = "QUEUED", !.cancel = FALSE,
                    !.pairs = IF row[e].status = "READY" THEN 0 ELSE row[e].pairs,
                    !.ckpt = IF row[e].status = "READY" THEN NoCheckpoint
                             ELSE row[e].ckpt]]
  BY DEF StartClaim
<1>2. pairRows' = IF row[e].status = "READY"
                  THEN [pairRows EXCEPT ![e] = NoPairs] ELSE pairRows
  BY DEF StartClaim
<1>3. ~InUse(e) /\ ~Holding(e) /\ \A i \in 1..Len(queue) : queue[i] # e
  BY <1>0 DEF InUse, StartableStatuses, ActiveStatuses, Holding, QueueOK, WorkerOK,
     HoldPcs, ClosingPcs
<1>4. TypeOK'
  <2>1. "QUEUED" \in Statuses
    BY DEF Statuses, ActiveStatuses
  <2>2. row' \in [Experiments -> Rows]
    <3> DEFINE p == IF row[e].status = "READY" THEN 0 ELSE row[e].pairs
               k == IF row[e].status = "READY" THEN NoCheckpoint ELSE row[e].ckpt
               new == [row[e] EXCEPT !.status = "QUEUED", !.cancel = FALSE,
                                     !.pairs = p, !.ckpt = k]
    <3>1. p \in 0..MaxPairs /\ k \in Checkpoints \cup {NoCheckpoint}
      BY <1>0, PairsAssumption DEF Rows
    <3>2. new \in Rows
      <4> HIDE DEF p, k
      <4> QED BY <1>0, <2>1, <3>1 DEF Rows
    <3>3. row' = [row EXCEPT ![e] = new]
      BY <1>1
    <3> QED BY <3>2, <3>3 DEF TypeOK
  <2>3. pairRows' \in [Experiments -> PairTables]
    BY <1>2, NoPairsType DEF TypeOK
  <2>4. handler' \in Handlers
    BY <1>0 DEF Handlers, Rows
  <2> QED BY <1>0, <2>2, <2>3, <2>4 DEF TypeOK
<1>5. ASSUME NEW x \in Experiments PROVE RowOK(x)'
  <2>1. CASE x # e
    BY <1>0, <2>1 DEF RowOK, PairsMatch
  <2>2. CASE x = e /\ row[e].status = "READY"
    <3>1. row[e] = NewRow("READY")
      BY <2>2 DEF RowOK
    <3>2. /\ row'[e].status = "QUEUED" /\ row'[e].ckpt = NoCheckpoint
          /\ row'[e].result = NoResult /\ pairRows'[e] = NoPairs
      BY <1>1, <1>2, <2>2, <3>1 DEF NewRow, TypeOK
    <3> QED BY <2>2, <3>2 DEF RowOK, PairsMatch
  <2>3. CASE x = e /\ row[e].status # "READY"
    <3>1. /\ row'[e].status = "QUEUED" /\ row'[e].ckpt = row[e].ckpt
          /\ row'[e].result = row[e].result /\ row'[e].pairs = row[e].pairs
          /\ pairRows'[e] = pairRows[e]
      BY <1>0, <1>1, <1>2, <2>3 DEF TypeOK, Rows
    <3>2. PairsMatch(e)'
      BY <3>1 DEF RowOK, PairsMatch
    <3> QED BY <2>3, <3>1, <3>2 DEF RowOK
  <2> QED BY <1>0, <2>1, <2>2, <2>3
<1>6. QueueOK'
  BY <1>0, <1>3 DEF QueueOK, InUse, Holding, TypeOK
<1>7. HandlerOK'
  <2>1. row'[e].status = "QUEUED"
    BY <1>0, <1>1 DEF TypeOK, Rows
  <2> QED BY <1>0, <1>3, <2>1 DEF HandlerOK, Holding, ActiveStatuses
<1>8. WorkerOK'
  <2>1. CASE worker.pc \in HoldPcs
    <3>1. worker.exp # e /\ worker.exp \in Experiments
      BY <1>3, <2>1 DEF Holding, WorkerOK, HoldPcs, RunPcs, ClosingPcs
    <3> QED BY <1>0, <2>1, <3>1
        DEF WorkerOK, MemoryOK, CheckpointNow, InUse, Exists
  <2>2. CASE worker.pc \notin HoldPcs
    BY <1>0, <2>2 DEF WorkerOK, MemoryPcs, RunPcs, HoldPcs, ClosingPcs
  <2> QED BY <2>1, <2>2
<1> QED BY <1>4, <1>5, <1>6, <1>7, <1>8

\* nothing the invariant speaks of changes but the handler
LEMMA HandlerOnly ==
    ASSUME IInv, UNCHANGED <<row, pairRows, queue, worker>>, TypeOK', HandlerOK'
    PROVE  IInv'
<1> USE DEF IInv
<1>1. ASSUME NEW x \in Experiments PROVE RowOK(x)'
  BY DEF RowOK, PairsMatch
<1>2. QueueOK'
  BY DEF QueueOK, InUse, Holding
<1>3. WorkerOK'
  BY DEF WorkerOK, MemoryOK, CheckpointNow, InUse, Exists
<1> QED BY <1>1, <1>2, <1>3

LEMMA StartSubmitInv == ASSUME IInv, StartSubmit PROVE IInv'
<1> USE DEF IInv
<1> DEFINE e == handler.exp
<1>0. /\ e \in Experiments /\ ~Holding(e) /\ row[e].status \in ActiveStatuses
      /\ \A i \in 1..Len(queue) : queue[i] # e
      /\ queue' = Append(queue, e) /\ handler' = IdleHandler
      /\ UNCHANGED <<row, pairRows, worker, accepting, deletedUsers, faults, overwritten>>
  BY DEF StartSubmit, HandlerOK
<1>1. TypeOK'
  BY <1>0, IdleType, OwnerAssumption DEF TypeOK, StartSubmit, Audit
<1>2. ASSUME NEW x \in Experiments PROVE RowOK(x)'
  BY <1>0 DEF RowOK, PairsMatch
<1>3. QueueOK'
  <2>1. /\ Len(queue') = Len(queue) + 1 /\ Len(queue) \in Nat
        /\ \A i \in 1..Len(queue') :
             queue'[i] = IF i <= Len(queue) THEN queue[i] ELSE e
    BY <1>0 DEF TypeOK
  <2> HIDE DEF e
  <2>2. \A i, j \in 1..Len(queue') : queue'[i] = queue'[j] => i = j
    BY <1>0, <2>1 DEF QueueOK
  <2>3. \A i \in 1..Len(queue') : InUse(queue[i])' /\ ~Holding(queue[i])'
    BY <1>0, <2>1 DEF QueueOK, InUse, Holding
  <2> QED BY <2>2, <2>3 DEF QueueOK
<1>4. HandlerOK'
  BY <1>0 DEF HandlerOK, IdleHandler
<1>5. WorkerOK'
  BY <1>0 DEF WorkerOK, MemoryOK, CheckpointNow, InUse, Exists
<1> QED BY <1>1, <1>2, <1>3, <1>4, <1>5

LEMMA StartSubmitRaisesInv == ASSUME IInv, StartSubmitRaises PROVE IInv'
<1>1. TypeOK'
  BY IdleType, LimitAssumption DEF IInv, TypeOK, StartSubmitRaises
<1>2. HandlerOK'
  BY DEF StartSubmitRaises, HandlerOK, IdleHandler
<1> QED BY <1>1, <1>2, HandlerOnly DEF StartSubmitRaises

LEMMA CancelReadInv == ASSUME IInv, NEW e \in Experiments, CancelRead(e) PROVE IInv'
<1>1. TypeOK'
  <2>1. handler' \in Handlers
    BY DEF IInv, TypeOK, CancelRead, Handlers, Rows
  <2> QED BY <2>1 DEF IInv, TypeOK, CancelRead
<1>2. HandlerOK'
  BY DEF CancelRead, HandlerOK
<1> QED BY <1>1, <1>2, HandlerOnly DEF CancelRead

\* the columns of a row that a cancel or an invalidation leaves alone
LEMMA RowStatusOnly ==
    ASSUME IInv, NEW e \in Experiments, pairRows'[e] = pairRows[e],
           row'[e].status \notin {"NONE", "READY", "DELETED"},
           row'[e].ckpt = row[e].ckpt, row'[e].pairs = row[e].pairs,
           row'[e].result = row[e].result
    PROVE  RowOK(e)'
<1>1. PairsMatch(e)'
  BY DEF IInv, RowOK, PairsMatch
<1> QED BY <1>1 DEF IInv, RowOK

LEMMA CancelWriteInv == ASSUME IInv, CancelWrite PROVE IInv'
<1> USE DEF IInv
<1> DEFINE e == handler.exp
           status == IF handler.seen = "READY" THEN "CANCELLED" ELSE "CANCEL_REQUESTED"
<1>0. /\ e \in Experiments /\ row[e] \in Rows
      /\ row' = IF Exists(e)
                THEN [row EXCEPT ![e] = [row[e] EXCEPT !.status = status, !.cancel = TRUE]]
                ELSE row
      /\ handler' = IdleHandler
      /\ UNCHANGED <<pairRows, queue, registered, worker, accepting, deletedUsers, faults>>
  BY DEF CancelWrite, Update, HandlerOK, TypeOK
<1>1. status \in {"CANCELLED", "CANCEL_REQUESTED"} /\ status \in Statuses
  BY DEF Statuses, ActiveStatuses, PrunableStatuses, FinalStatuses
<1>2. status = "CANCELLED" => row[e].status = "READY"
  BY DEF CancelWrite, HandlerOK
<1> HIDE DEF status
<1>3. \A x \in Experiments \ {e} : row'[x] = row[x]
  BY <1>0 DEF TypeOK
<1>4. Exists(e) => /\ row'[e].status = status /\ row'[e].ckpt = row[e].ckpt
                   /\ row'[e].pairs = row[e].pairs /\ row'[e].result = row[e].result
  BY <1>0 DEF TypeOK, Rows
<1>5. ~Exists(e) => row' = row
  BY <1>0
<1>6. TypeOK'
  <2>1. row' \in [Experiments -> Rows]
    BY <1>0, <1>1 DEF TypeOK, Rows
  <2>2. audited' \subseteq Users /\ overwritten' \subseteq Experiments
    BY <1>0, OwnerAssumption DEF CancelWrite, Audit, TypeOK
  <2> QED BY <1>0, <2>1, <2>2, IdleType DEF TypeOK
<1>7. ASSUME NEW x \in Experiments PROVE RowOK(x)'
  <2>1. CASE x = e /\ Exists(e)
    BY <1>0, <1>1, <1>4, <2>1, RowStatusOnly
  <2>2. CASE x # e \/ ~Exists(e)
    BY <1>0, <1>3, <1>5, <2>2, ZenonT(60) DEF RowOK, PairsMatch
  <2> QED BY <2>1, <2>2
<1>8. \A x \in Experiments : InUse(x) => InUse(x)'
  BY <1>1, <1>2, <1>3, <1>4, <1>5 DEF InUse, ActiveStatuses
<1>9. QueueOK'
  BY <1>0, <1>8 DEF QueueOK, Holding, TypeOK
<1>10. HandlerOK'
  BY <1>0 DEF HandlerOK, IdleHandler
<1>11. WorkerOK'
  <2>1. \A x \in Experiments : Exists(x)' = Exists(x)
    BY <1>1, <1>3, <1>4, <1>5 DEF Exists
  <2>2. \A x \in Experiments : Exists(x) =>
           /\ row'[x].ckpt = row[x].ckpt /\ row'[x].pairs = row[x].pairs
           /\ row'[x].result = row[x].result
    BY <1>3, <1>4
  <2>3. worker.pc \in {"failFinal", "audit"} =>
           row'[worker.exp].status \notin {"NONE", "READY", "FAILED_RETRYABLE"}
    BY <1>1, <1>3, <1>4, <1>5 DEF WorkerOK
  <2>4. worker.pc \in MemoryPcs => MemoryOK'
    BY <1>0, <2>1, <2>2 DEF WorkerOK, MemoryOK, CheckpointNow, MemoryPcs
  <2>5. worker.pc \in RunPcs \cup {"cancelled", "failRetryable"} => InUse(worker.exp)'
    BY <1>0, <1>8 DEF WorkerOK, RunPcs
  <2> QED BY <1>0, <2>1, <2>2, <2>3, <2>4, <2>5 DEF WorkerOK
<1> QED BY <1>6, <1>7, <1>9, <1>10, <1>11

LEMMA InvalidateInv == ASSUME IInv, NEW e \in Experiments, Invalidate(e) PROVE IInv'
<1> USE DEF IInv
<1>0. /\ row[e] \in Rows /\ row[e].status = "COMPLETED" /\ handler = IdleHandler
      /\ row' = [row EXCEPT ![e] = [row[e] EXCEPT !.status = "INVALIDATED"]]
      /\ UNCHANGED <<pairRows, queue, registered, worker, handler, accepting,
                     deletedUsers, faults, overwritten>>
  BY DEF Invalidate, HandlerFree, TypeOK
<1>1. \A x \in Experiments \ {e} : row'[x] = row[x]
  BY <1>0 DEF TypeOK
<1>2. /\ row'[e].status = "INVALIDATED" /\ row'[e].ckpt = row[e].ckpt
      /\ row'[e].pairs = row[e].pairs /\ row'[e].result = row[e].result
  BY <1>0 DEF TypeOK, Rows
<1>3. ~InUse(e)
  BY <1>0 DEF InUse, ActiveStatuses
<1>4. TypeOK'
  <2>1. row' \in [Experiments -> Rows]
    BY <1>0 DEF TypeOK, Rows, Statuses, PrunableStatuses, FinalStatuses
  <2> QED BY <1>0, <2>1, OwnerAssumption DEF TypeOK, Invalidate, Audit
<1>5. ASSUME NEW x \in Experiments PROVE RowOK(x)'
  <2>1. CASE x = e
    BY <1>0, <1>2, <2>1, RowStatusOnly
  <2>2. CASE x # e
    BY <1>0, <1>1, <2>2 DEF RowOK, PairsMatch
  <2> QED BY <2>1, <2>2
<1>6. QueueOK'
  BY <1>0, <1>1, <1>3 DEF QueueOK, InUse, Holding, TypeOK
<1>7. HandlerOK'
  BY <1>0 DEF HandlerOK, IdleHandler
<1>8. WorkerOK'
  <2>1. CASE worker.pc \in RunPcs \cup {"cancelled", "failRetryable"}
    <3>1. worker.exp \in Experiments \ {e}
      BY <1>3, <2>1 DEF WorkerOK, RunPcs
    <3> QED BY <1>0, <1>1, <2>1, <3>1
        DEF WorkerOK, MemoryOK, CheckpointNow, InUse, Exists, RunPcs
  <2>2. CASE worker.pc \notin RunPcs \cup {"cancelled", "failRetryable"}
    BY <1>0, <1>1, <1>2, <2>2 DEF WorkerOK, MemoryPcs, RunPcs
  <2> QED BY <2>1, <2>2
<1> QED BY <1>4, <1>5, <1>6, <1>7, <1>8

LEMMA DeleteAccountInv == ASSUME IInv, NEW u \in Users, DeleteAccount(u) PROVE IInv'
<1> USE DEF IInv
<1>0. /\ row' = [x \in Experiments |-> IF x \in OwnedBy(u) THEN NewRow("DELETED") ELSE row[x]]
      /\ pairRows' = [x \in Experiments |-> IF x \in OwnedBy(u) THEN NoPairs ELSE pairRows[x]]
      /\ handler = IdleHandler
      /\ UNCHANGED <<queue, registered, worker, handler, accepting, faults, overwritten>>
  BY DEF DeleteAccount, DeleteRows, HandlerFree
<1>1. TypeOK'
  BY <1>0, NewRowType, NoPairsType DEF TypeOK, DeleteAccount, Statuses
<1>2. ASSUME NEW x \in Experiments PROVE RowOK(x)'
  <2>1. CASE x \in OwnedBy(u)
    BY <1>0, <2>1 DEF RowOK, PairsMatch, NewRow
  <2>2. CASE x \notin OwnedBy(u)
    BY <1>0, <2>2 DEF RowOK, PairsMatch
  <2> QED BY <2>1, <2>2
<1>3. \A x \in Experiments : InUse(x) => InUse(x)'
  BY <1>0 DEF InUse, NewRow
<1>4. QueueOK'
  BY <1>0, <1>3 DEF QueueOK, Holding, TypeOK
<1>5. HandlerOK'
  BY <1>0 DEF HandlerOK, IdleHandler
<1>6. WorkerOK'
  <2> DEFINE h == worker.exp
  <2>1. CASE h \in Experiments /\ h \in OwnedBy(u)
    <3>1. row'[h] = NewRow("DELETED") /\ ~Exists(h)' /\ InUse(h)'
      BY <1>0, <2>1 DEF NewRow, Exists, InUse
    <3> QED BY <1>0, <2>1, <3>1
        DEF WorkerOK, MemoryOK, CheckpointNow, NewRow, MemoryPcs, RunPcs
  <2>2. CASE h \in Experiments /\ h \notin OwnedBy(u)
    <3>1. row'[h] = row[h] /\ pairRows'[h] = pairRows[h]
      BY <1>0, <2>2
    <3> QED BY <1>0, <2>2, <3>1 DEF WorkerOK, MemoryOK, CheckpointNow, InUse, Exists
  <2>3. CASE h \notin Experiments
    BY <1>0, <2>3 DEF WorkerOK, MemoryPcs, RunPcs
  <2> QED BY <2>1, <2>2, <2>3
<1> QED BY <1>1, <1>2, <1>4, <1>5, <1>6

-----------------------------------------------------------------------------
(* Steps of the thread that write no row.                                   *)

LEMMA WorkerOnly ==
    ASSUME IInv, UNCHANGED <<row, pairRows, queue, handler>>, TypeOK', WorkerOK',
           \A e \in Experiments : Holding(e)' => Holding(e)
    PROVE  IInv'
<1> USE DEF IInv
<1>1. ASSUME NEW x \in Experiments PROVE RowOK(x)'
  BY DEF RowOK, PairsMatch
<1>2. QueueOK'
  <2>1. \A i \in 1..Len(queue) : queue[i] \in Experiments
    BY DEF TypeOK
  <2> QED BY <2>1 DEF QueueOK, InUse
<1>3. HandlerOK'
  BY DEF HandlerOK
<1> QED BY <1>1, <1>2, <1>3

\* a new program counter is a type-correct worker
LEMMA GotoType ==
    ASSUME TypeOK, NEW pc \in RunPcs \cup ClosingPcs \cup TailPcs \cup {"idle"}, Goto(pc)
    PROVE  /\ worker' \in Workers
           /\ worker'.pc = pc /\ worker'.exp = worker.exp /\ worker'.cog = worker.cog
           /\ worker'.n = worker.n /\ worker'.runs = worker.runs
           /\ worker'.stop = worker.stop
BY DEF TypeOK, Workers, Goto

LEMMA TakeInv == ASSUME IInv, Take PROVE IInv'
<1> USE DEF IInv
<1> DEFINE e == Head(queue)
<1>0. /\ worker.pc = "idle" /\ queue # <<>> /\ queue \in Seq(Experiments)
      /\ queue' = Tail(queue)
      /\ UNCHANGED <<row, pairRows, registered, handler, accepting, deletedUsers,
                     audited, faults, overwritten>>
  BY DEF Take, TypeOK
<1>1. /\ e \in Experiments /\ e = queue[1] /\ 1 \in 1..Len(queue)
      /\ queue' \in Seq(Experiments) /\ Len(queue') = Len(queue) - 1
      /\ \A i \in 1..Len(queue') : i + 1 \in 1..Len(queue) /\ queue'[i] = queue[i + 1]
  BY <1>0
<1>2. /\ worker' \in Workers /\ worker'.pc = "load" /\ worker'.exp = e
      /\ worker'.n = 0 /\ worker'.runs = NoPairs /\ worker'.stop = FALSE
  BY <1>1, IdleType DEF Take, Workers, IdleWorker, RunPcs
<1> HIDE DEF e
<1>3. TypeOK'
  BY <1>0, <1>1, <1>2 DEF TypeOK
<1>4. ASSUME NEW x \in Experiments PROVE RowOK(x)'
  BY <1>0 DEF RowOK, PairsMatch
<1>5. QueueOK'
  <2>1. \A i, j \in 1..Len(queue') : queue'[i] = queue'[j] => i = j
    BY <1>1 DEF QueueOK
  <2>2. \A i \in 1..Len(queue') : queue'[i] # e
    BY <1>1 DEF QueueOK
  <2>3. \A i \in 1..Len(queue') : InUse(queue[i])'
    BY <1>0, <1>1 DEF QueueOK, InUse
  <2>4. \A i \in 1..Len(queue') : ~Holding(queue[i])'
    BY <1>2, <2>2 DEF Holding
  <2> QED BY <2>1, <2>3, <2>4 DEF QueueOK
<1>6. HandlerOK'
  <2>1. handler.op = "submit" => handler.exp # e
    BY <1>1 DEF HandlerOK
  <2>2. handler.op = "submit" => \A i \in 1..Len(queue') : queue'[i] # handler.exp
    BY <1>1 DEF HandlerOK
  <2> QED BY <1>0, <1>2, <2>1, <2>2 DEF HandlerOK, Holding
<1>7. WorkerOK'
  BY <1>0, <1>1, <1>2 DEF WorkerOK, QueueOK, InUse, MemoryPcs
<1> QED BY <1>3, <1>4, <1>5, <1>6, <1>7

LEMMA LoadInv == ASSUME IInv, Load PROVE IInv'
<1> USE DEF IInv
<1> DEFINE e == worker.exp
           c == row[e].ckpt
           resumed == [worker EXCEPT !.pc = "resume", !.cog = c.cog, !.n = c.pairs,
                          !.stop = c.stop,
                          !.runs = [i \in 1..MaxPairs |->
                                      IF i <= c.pairs THEN pairRows[e][i] ELSE NoCog]]
<1>0. /\ worker.pc = "load" /\ e \in Experiments /\ InUse(e) /\ RowOK(e)
      /\ row[e] \in Rows /\ pairRows[e] \in PairTables /\ worker \in Workers
      /\ UNCHANGED <<row, pairRows, queue, registered, handler, accepting, deletedUsers,
                     audited, faults, overwritten>>
  BY DEF Load, WorkerOK, RunPcs, TypeOK
<1>1. \/ ~Exists(e) /\ worker' = [worker EXCEPT !.pc = "failFinal"]
      \/ Exists(e) /\ Restorable(e) /\ worker' = resumed
      \/ Exists(e) /\ ~Restorable(e) /\ row[e].pairs > 0
           /\ worker' = [worker EXCEPT !.pc = "failFinal"]
      \/ Exists(e) /\ ~Restorable(e) /\ ~(row[e].pairs > 0)
           /\ worker' = [worker EXCEPT !.pc = "fresh"]
  BY DEF Load
<1>2. CASE worker' = [worker EXCEPT !.pc = "failFinal"]
  <2>1. worker' \in Workers /\ worker'.pc = "failFinal" /\ worker'.exp = e
    BY <1>0, <1>2 DEF Workers, ClosingPcs
  <2>2. WorkerOK'
    BY <1>0, <2>1 DEF WorkerOK, InUse, ActiveStatuses, RunPcs, MemoryPcs
  <2>3. TypeOK' /\ \A x \in Experiments : Holding(x)' => Holding(x)
    BY <1>0, <2>1 DEF TypeOK, Holding, HoldPcs, RunPcs
  <2> QED BY <1>0, <2>2, <2>3, WorkerOnly
<1>3. CASE Exists(e) /\ ~Restorable(e) /\ ~(row[e].pairs > 0)
             /\ worker' = [worker EXCEPT !.pc = "fresh"]
  <2>1. /\ worker' \in Workers /\ worker'.pc = "fresh" /\ worker'.exp = e
        /\ worker'.n = 0 /\ worker'.runs = NoPairs /\ worker'.stop = FALSE
    BY <1>0, <1>3 DEF Workers, RunPcs, WorkerOK
  <2>2. row[e].pairs = 0
    BY <1>0, <1>3, PairsAssumption DEF Rows
  <2>3. row[e].ckpt = NoCheckpoint
    BY <1>0, <1>3, <2>2, PairsAssumption DEF Restorable, RowOK, PairsMatch, Rows
  <2>4. row[e].result = NoResult
    BY <1>0, <2>2 DEF RowOK
  <2>5. WorkerOK'
    BY <1>0, <2>1, <2>2, <2>3, <2>4 DEF WorkerOK, InUse, RunPcs, MemoryPcs
  <2>6. TypeOK' /\ \A x \in Experiments : Holding(x)' => Holding(x)
    BY <1>0, <2>1 DEF TypeOK, Holding, HoldPcs, RunPcs
  <2> QED BY <1>0, <2>5, <2>6, WorkerOnly
<1>4. CASE Exists(e) /\ Restorable(e) /\ worker' = resumed
  <2>1. c \in Checkpoints /\ c.cog \in Cognitions /\ c.pairs \in 0..MaxPairs
        /\ c.stop \in BOOLEAN
    BY <1>0, <1>4 DEF Restorable, Rows, Checkpoints
  <2>2. /\ c.pairs <= StopAt[c.cog]
        /\ c.stop <=> c.pairs = StopAt[c.cog]
        /\ \A i \in 1..MaxPairs : i <= c.pairs => pairRows[e][i] = c.cog
        /\ row[e].pairs = c.pairs /\ c # NoCheckpoint
    BY <1>0, <1>4 DEF Restorable, RowOK, PairsMatch
  <2>3. [i \in 1..MaxPairs |-> IF i <= c.pairs THEN pairRows[e][i] ELSE NoCog]
          = Prefix(c.cog, c.pairs)
    BY <2>2 DEF Prefix
  <2>4. Prefix(c.cog, c.pairs) \in PairTables
    BY <2>1, PrefixType, PairsAssumption
  <2>5. c = [pairs |-> c.pairs, cog |-> c.cog, stop |-> c.stop]
    BY <2>1 DEF Checkpoints
  <2> HIDE DEF c
  <2>6. /\ worker' \in Workers /\ worker'.pc = "resume" /\ worker'.exp = e
        /\ worker'.cog = c.cog /\ worker'.n = c.pairs /\ worker'.stop = c.stop
        /\ worker'.runs = Prefix(c.cog, c.pairs)
    BY <1>0, <1>4, <2>1, <2>3, <2>4 DEF Workers, RunPcs
  <2>7. CheckpointNow' = c
    BY <2>5, <2>6 DEF CheckpointNow
  <2>8. MemoryOK'
    <3>1. row'[e].ckpt = c
      BY <1>0 DEF c
    <3> QED BY <2>1, <2>2, <2>6, <2>7, <3>1 DEF MemoryOK
  <2>9. WorkerOK'
    BY <1>0, <2>6, <2>8 DEF WorkerOK, InUse
  <2>10. TypeOK' /\ \A x \in Experiments : Holding(x)' => Holding(x)
    BY <1>0, <2>6 DEF TypeOK, Holding, HoldPcs, RunPcs
  <2> QED BY <1>0, <2>9, <2>10, WorkerOnly
<1> QED BY <1>1, <1>2, <1>3, <1>4

LEMMA PrepareSignalsFailsInv == ASSUME IInv, PrepareSignalsFails PROVE IInv'
<1> USE DEF IInv
<1>0. PICK pc \in {"failRetryable", "failFinal"} : Goto(pc)
  BY DEF PrepareSignalsFails
<1>1. /\ worker' \in Workers /\ worker'.pc = pc /\ worker'.exp = worker.exp
      /\ worker.pc = "cognition"
  BY <1>0, GotoType DEF PrepareSignalsFails, ClosingPcs
<1>2. WorkerOK'
  BY <1>1 DEF WorkerOK, PrepareSignalsFails, RunPcs, MemoryPcs, InUse, ActiveStatuses
<1>3. TypeOK' /\ \A x \in Experiments : Holding(x)' => Holding(x)
  BY <1>1 DEF PrepareSignalsFails, TypeOK, Holding, HoldPcs, RunPcs
<1> QED BY <1>2, <1>3, WorkerOnly DEF PrepareSignalsFails

LEMMA PollInv ==
    ASSUME IInv, NEW here, NEW next, Poll(here, next),
           here \in {"check", "baseline", "intervention"},
           next \in {"baseline", "intervention", "save"}
    PROVE  IInv'
<1> USE DEF IInv
<1> DEFINE pc == IF row[worker.exp].cancel THEN "cancelled" ELSE next
<1>0. /\ worker.pc \in {"check", "baseline", "intervention"} /\ Goto(pc)
      /\ UNCHANGED <<row, pairRows, queue, registered, handler, accepting,
                     deletedUsers, audited, faults, overwritten>>
  BY DEF Poll
<1>1. pc \in {"baseline", "intervention", "save", "cancelled"}
  OBVIOUS
<1> HIDE DEF pc
<1>2. /\ worker' \in Workers /\ worker'.pc = pc /\ worker'.exp = worker.exp
      /\ worker'.cog = worker.cog /\ worker'.n = worker.n
      /\ worker'.runs = worker.runs /\ worker'.stop = worker.stop
  <2>1. pc \in RunPcs \cup ClosingPcs \cup TailPcs \cup {"idle"}
    BY <1>1 DEF RunPcs, ClosingPcs
  <2> QED BY <1>0, <2>1, GotoType
<1>3. MemoryOK /\ InUse(worker.exp) /\ worker.exp \in Experiments
  BY <1>0 DEF WorkerOK, MemoryPcs, RunPcs
<1>4. CheckpointNow' = CheckpointNow
  BY <1>2 DEF CheckpointNow
<1>5. pc \in MemoryPcs => MemoryOK'
  BY <1>0, <1>1, <1>2, <1>3, <1>4 DEF MemoryOK, Exists, MemoryPcs
<1>6. pc = "cancelled" /\ Exists(worker.exp) => row[worker.exp].result = NoResult
  <2>1. Exists(worker.exp) => row[worker.exp].ckpt = CheckpointNow
    BY <1>0, <1>3 DEF MemoryOK
  <2>2. CheckpointNow \in Checkpoints
    BY <1>3 DEF CheckpointNow, Checkpoints, MemoryOK, TypeOK, Workers
  <2> QED BY <1>3, <2>1, <2>2, NoneAssumption DEF RowOK
<1>7. WorkerOK'
  BY <1>0, <1>1, <1>2, <1>3, <1>5, <1>6 DEF WorkerOK, RunPcs, InUse, Exists
<1>8. TypeOK' /\ \A x \in Experiments : Holding(x)' => Holding(x)
  BY <1>0, <1>2 DEF TypeOK, Holding, HoldPcs, RunPcs
<1> QED BY <1>0, <1>7, <1>8, WorkerOnly

LEMMA SavePairFailsInv == ASSUME IInv, SavePairFails PROVE IInv'
<1> USE DEF IInv
<1>1. /\ worker' \in Workers /\ worker'.pc = "failRetryable"
      /\ worker'.exp = worker.exp /\ worker.pc = "save"
  BY GotoType DEF SavePairFails, ClosingPcs
<1>2. WorkerOK'
  BY <1>1 DEF WorkerOK, SavePairFails, RunPcs, MemoryPcs, InUse
<1>3. TypeOK' /\ \A x \in Experiments : Holding(x)' => Holding(x)
  BY <1>1 DEF SavePairFails, TypeOK, Holding, HoldPcs, RunPcs
<1> QED BY <1>2, <1>3, WorkerOnly DEF SavePairFails

LEMMA LoadRepresentativeInv == ASSUME IInv, LoadRepresentative PROVE IInv'
<1> USE DEF IInv
<1>0. PICK pc \in {"failRetryable", "publish"} : Goto(pc)
  BY DEF LoadRepresentative
<1>1. /\ worker' \in Workers /\ worker'.pc = pc /\ worker'.exp = worker.exp
      /\ worker'.cog = worker.cog /\ worker'.n = worker.n
      /\ worker'.runs = worker.runs /\ worker'.stop = worker.stop
      /\ worker.pc = "represent"
      /\ UNCHANGED <<row, pairRows, queue, registered, handler, accepting,
                     deletedUsers, audited, faults, overwritten>>
  <2>1. pc \in RunPcs \cup ClosingPcs \cup TailPcs \cup {"idle"}
    BY <1>0 DEF RunPcs, ClosingPcs
  <2> QED BY <1>0, <2>1, GotoType DEF LoadRepresentative
<1>2. MemoryOK /\ InUse(worker.exp) /\ worker.exp \in Experiments
  BY <1>1 DEF WorkerOK, MemoryPcs, RunPcs
<1>3. CheckpointNow' = CheckpointNow
  BY <1>1 DEF CheckpointNow
<1>4. pc = "publish" => MemoryOK'
  BY <1>1, <1>2, <1>3 DEF MemoryOK, Exists
<1>5. WorkerOK'
  BY <1>0, <1>1, <1>2, <1>4 DEF WorkerOK, RunPcs, MemoryPcs, InUse
<1>6. TypeOK' /\ \A x \in Experiments : Holding(x)' => Holding(x)
  BY <1>1 DEF TypeOK, Holding, HoldPcs, RunPcs
<1> QED BY <1>1, <1>5, <1>6, WorkerOnly

LEMMA CloseRunInv == ASSUME IInv, CloseRun PROVE IInv'
<1> USE DEF IInv
<1>1. /\ worker' \in Workers /\ worker'.pc = "callback" /\ worker'.exp = worker.exp
  BY GotoType DEF CloseRun, TailPcs
<1>2. worker.exp \in Experiments
  BY DEF WorkerOK, CloseRun
<1>3. WorkerOK'
  BY <1>1, <1>2 DEF WorkerOK, MemoryPcs, RunPcs
<1>4. TypeOK' /\ \A x \in Experiments : Holding(x)' => Holding(x)
  BY <1>1, <1>2, OwnerAssumption
  DEF CloseRun, Audit, TypeOK, Holding, HoldPcs, RunPcs, ClosingPcs
<1> QED BY <1>3, <1>4, WorkerOnly DEF CloseRun

LEMMA RemoveFutureInv == ASSUME IInv, RemoveFuture PROVE IInv'
<1>1. WorkerOK'
  BY DEF RemoveFuture, IdleWorker, WorkerOK, MemoryPcs, RunPcs
<1>2. TypeOK' /\ \A x \in Experiments : Holding(x)' => Holding(x)
  BY IdleType DEF IInv, RemoveFuture, IdleWorker, TypeOK, Holding, HoldPcs, RunPcs, ClosingPcs
<1> QED BY <1>1, <1>2, WorkerOnly DEF RemoveFuture

LEMMA RaiseInv == ASSUME IInv, Raise PROVE IInv'
<1> USE DEF IInv
<1>0. /\ worker.exp \in Experiments /\ faults' \in 0..MaxFaults
      /\ UNCHANGED <<row, pairRows, queue, registered, handler, accepting,
                     deletedUsers, audited, overwritten>>
  BY LimitAssumption DEF Raise, WorkerOK, RunPcs, TypeOK
<1>1. CASE worker.pc \in RunPcs \cup {"cancelled", "audit"} /\ Goto("failFinal")
  <2>1. worker' \in Workers /\ worker'.pc = "failFinal" /\ worker'.exp = worker.exp
    BY <1>1, GotoType DEF ClosingPcs
  <2>2. WorkerOK'
    BY <1>0, <1>1, <2>1
    DEF WorkerOK, RunPcs, MemoryPcs, InUse, ActiveStatuses
  <2>3. TypeOK' /\ \A x \in Experiments : Holding(x)' => Holding(x)
    BY <1>0, <1>1, <2>1 DEF TypeOK, Holding, HoldPcs, ClosingPcs
  <2> QED BY <1>0, <2>2, <2>3, WorkerOnly
<1>2. CASE worker.pc \in {"failRetryable", "failFinal", "auditFail"} /\ Goto("callback")
  <2>1. worker' \in Workers /\ worker'.pc = "callback" /\ worker'.exp = worker.exp
    BY <1>2, GotoType DEF TailPcs
  <2>2. WorkerOK'
    BY <1>0, <2>1 DEF WorkerOK, RunPcs, MemoryPcs
  <2>3. TypeOK' /\ \A x \in Experiments : Holding(x)' => Holding(x)
    BY <1>0, <2>1 DEF TypeOK, Holding, HoldPcs, RunPcs, ClosingPcs
  <2> QED BY <1>0, <2>2, <2>3, WorkerOnly
<1> QED BY <1>1, <1>2 DEF Raise

-----------------------------------------------------------------------------
(* Steps of the thread that write the row of its experiment.                *)

\* an UPDATE of the thread: the other rows stay, and its own if it was deleted
LEMMA UpdateFacts ==
    ASSUME TypeOK, NEW e \in Experiments, NEW new \in Rows, Update(e, new)
    PROVE  /\ row' \in [Experiments -> Rows]
           /\ \A x \in Experiments \ {e} : row'[x] = row[x]
           /\ row'[e] = IF Exists(e) THEN new ELSE row[e]
<1>1. CASE Exists(e)
  BY <1>1 DEF TypeOK, Update
<1>2. CASE ~Exists(e)
  BY <1>2 DEF TypeOK, Update
<1> QED BY <1>1, <1>2

LEMMA WorkerStep1 ==
    ASSUME IInv, worker.pc \in HoldPcs, worker'.exp = worker.exp,
           UNCHANGED <<queue, handler>>,
           \A x \in Experiments \ {worker.exp} :
              row'[x] = row[x] /\ pairRows'[x] = pairRows[x],
           TypeOK', RowOK(worker.exp)', WorkerOK'
    PROVE  IInv'
<1>1. QueueOK' /\ HandlerOK' /\ \A x \in Experiments \ {worker.exp} : RowOK(x)'
  BY WorkerFrame
<1>2. \A x \in Experiments : RowOK(x)'
  BY <1>1
<1> QED BY <1>1, <1>2 DEF IInv

\* what the thread has in memory is well typed
LEMMA MemoryType ==
    ASSUME IInv, worker.pc \in MemoryPcs
    PROVE  /\ MemoryOK /\ InUse(worker.exp) /\ worker.exp \in Experiments
           /\ worker.cog \in Cognitions /\ worker.n \in 0..MaxPairs
           /\ worker.stop \in BOOLEAN /\ worker.runs \in PairTables
           /\ StopAt[worker.cog] \in 1..MaxPairs
           /\ CheckpointNow \in Checkpoints
           /\ row[worker.exp] \in Rows /\ pairRows[worker.exp] \in PairTables
           /\ RowOK(worker.exp)
<1>1. worker.pc \in RunPcs
  BY DEF MemoryPcs, RunPcs
<1>2. MemoryOK /\ InUse(worker.exp) /\ worker.exp \in Experiments
  BY <1>1 DEF IInv, WorkerOK, RunPcs
<1>3. worker.cog \in Cognitions
  BY <1>2 DEF MemoryOK
<1> QED BY <1>2, <1>3, StopType DEF IInv, TypeOK, Workers, CheckpointNow, Checkpoints

LEMMA ResumeInv ==
    ASSUME IInv, NEW e \in Experiments, e = worker.exp, Resume PROVE IInv'
<1> USE DEF IInv
<1> DEFINE new == [row[e] EXCEPT !.status = "RUNNING", !.pairs = worker.n,
                                 !.ckpt = CheckpointNow]
           pc == IF worker.stop THEN "aggregate" ELSE "check"
<1>0. /\ worker.pc = "resume" /\ Update(e, new) /\ Goto(pc) /\ Audit(e)
      /\ UNCHANGED <<pairRows, queue, registered, handler, accepting, deletedUsers,
                     faults, overwritten>>
  BY DEF Resume
<1>1. /\ MemoryOK /\ InUse(e) /\ e \in Experiments /\ worker.n \in 0..MaxPairs
      /\ CheckpointNow \in Checkpoints /\ row[e] \in Rows /\ RowOK(e)
  BY <1>0, MemoryType DEF MemoryPcs
<1>2. /\ new \in Rows /\ new.status = "RUNNING" /\ new.pairs = worker.n
      /\ new.ckpt = CheckpointNow /\ new.result = row[e].result
  BY <1>1 DEF Rows, Statuses, ActiveStatuses
<1>3. pc \in {"check", "aggregate"} /\ (pc = "aggregate" <=> worker.stop)
  BY DEF MemoryPcs
<1> HIDE DEF new, pc
<1>4. /\ row' \in [Experiments -> Rows]
      /\ \A x \in Experiments \ {e} : row'[x] = row[x]
      /\ row'[e] = IF Exists(e) THEN new ELSE row[e]
  BY <1>0, <1>1, <1>2, UpdateFacts
<1>5. /\ worker' \in Workers /\ worker'.pc = pc /\ worker'.exp = e
      /\ worker'.cog = worker.cog /\ worker'.n = worker.n
      /\ worker'.runs = worker.runs /\ worker'.stop = worker.stop
  <2>1. pc \in RunPcs \cup ClosingPcs \cup TailPcs \cup {"idle"}
    BY <1>3 DEF RunPcs
  <2> QED BY <1>0, <2>1, GotoType
<1>6. Exists(e) => row[e].ckpt = CheckpointNow
  BY <1>0, <1>1 DEF MemoryOK
<1>7. Exists(e)' = Exists(e) /\ InUse(e)'
  BY <1>1, <1>2, <1>4 DEF Exists, InUse, ActiveStatuses
<1>8. TypeOK'
  BY <1>0, <1>1, <1>4, <1>5, OwnerAssumption DEF TypeOK, Audit
<1>9. RowOK(e)'
  <2>1. CASE Exists(e)
    <3>1. CheckpointNow # NoCheckpoint /\ row[e].ckpt = CheckpointNow
      BY <1>1, <1>6, <2>1, NoneAssumption
    <3>2. row[e].result = NoResult
      BY <1>1, <3>1 DEF RowOK
    <3>3. row[e].pairs = CheckpointNow.pairs /\ CheckpointNow.pairs = worker.n
      BY <1>1, <3>1 DEF RowOK, PairsMatch, CheckpointNow
    <3>4. PairsMatch(e)'
      BY <1>0, <1>1, <1>2, <1>4, <2>1, <3>1, <3>3 DEF RowOK, PairsMatch
    <3> QED BY <1>2, <1>4, <2>1, <3>2, <3>4 DEF RowOK
  <2>2. CASE ~Exists(e)
    BY <1>0, <1>1, <1>4, <2>2 DEF RowOK, PairsMatch
  <2> QED BY <2>1, <2>2
<1>10. CheckpointNow' = CheckpointNow
  BY <1>5 DEF CheckpointNow
<1>11. MemoryOK'
  BY <1>0, <1>1, <1>2, <1>3, <1>4, <1>5, <1>7, <1>10 DEF MemoryOK
<1>12. WorkerOK'
  BY <1>1, <1>3, <1>5, <1>7, <1>11 DEF WorkerOK
<1> QED BY <1>0, <1>4, <1>5, <1>8, <1>9, <1>12, WorkerStep1
    DEF HoldPcs, RunPcs

LEMMA FreshInv ==
    ASSUME IInv, NEW e \in Experiments, e = worker.exp, Fresh PROVE IInv'
<1> USE DEF IInv
<1> DEFINE new == [row[e] EXCEPT !.status = "RUNNING", !.pairs = 0]
<1>0. /\ worker.pc = "fresh" /\ Update(e, new) /\ Goto("cognition")
      /\ UNCHANGED <<pairRows, queue, registered, handler, accepting, deletedUsers,
                     audited, faults, overwritten>>
      /\ InUse(e) /\ e \in Experiments /\ row[e] \in Rows /\ RowOK(e)
  BY DEF Fresh, WorkerOK, RunPcs, TypeOK
<1>1. Exists(e) => row[e].pairs = 0 /\ row[e].ckpt = NoCheckpoint /\ row[e].result = NoResult
  BY <1>0 DEF WorkerOK
<1>2. /\ new \in Rows /\ new.status = "RUNNING" /\ new.pairs = 0
      /\ new.ckpt = row[e].ckpt /\ new.result = row[e].result
  <2>1. 0 \in 0..MaxPairs /\ "RUNNING" \in Statuses
    BY PairsAssumption DEF Statuses, ActiveStatuses
  <2> QED BY <1>0, <2>1 DEF Rows
<1>3. /\ worker' \in Workers /\ worker'.pc = "cognition" /\ worker'.exp = e
      /\ worker'.n = 0 /\ worker'.runs = NoPairs /\ worker'.stop = FALSE
  BY <1>0, GotoType DEF RunPcs, WorkerOK
<1> HIDE DEF new
<1>4. /\ row' \in [Experiments -> Rows]
      /\ \A x \in Experiments \ {e} : row'[x] = row[x]
      /\ row'[e] = IF Exists(e) THEN new ELSE row[e]
  BY <1>0, <1>2, UpdateFacts
<1>5. Exists(e)' = Exists(e) /\ InUse(e)'
  BY <1>0, <1>2, <1>4 DEF Exists, InUse, ActiveStatuses
<1>6. TypeOK'
  BY <1>0, <1>3, <1>4 DEF TypeOK
<1>7. RowOK(e)'
  <2>1. CASE Exists(e)
    <3>1. /\ row'[e].status = "RUNNING" /\ row'[e].result = NoResult
          /\ row'[e].ckpt = NoCheckpoint /\ row[e].ckpt = NoCheckpoint
      BY <1>1, <1>2, <1>4, <2>1
    <3>2. pairRows'[e] = NoPairs
      BY <1>0, <3>1 DEF RowOK, PairsMatch
    <3> QED BY <3>1, <3>2 DEF RowOK, PairsMatch
  <2>2. CASE ~Exists(e)
    <3>1. row'[e] = row[e] /\ pairRows' = pairRows
      BY <1>0, <1>4, <2>2
    <3> QED BY <1>0, <3>1 DEF RowOK, PairsMatch
  <2> QED BY <2>1, <2>2
<1>8. WorkerOK'
  BY <1>0, <1>1, <1>2, <1>3, <1>4, <1>5 DEF WorkerOK, MemoryPcs
<1> QED BY <1>0, <1>3, <1>4, <1>6, <1>7, <1>8, WorkerStep1 DEF HoldPcs, RunPcs

LEMMA PrepareSignalsInv ==
    ASSUME IInv, NEW e \in Experiments, e = worker.exp, PrepareSignals PROVE IInv'
<1> USE DEF IInv
<1> DEFINE k(c) == [pairs |-> 0, cog |-> c, stop |-> FALSE]
           new(c) == [row[e] EXCEPT !.ckpt = k(c)]
<1>0. PICK c \in Cognitions :
        /\ worker' = [worker EXCEPT !.pc = "check", !.cog = c]
        /\ Update(e, new(c))
  BY DEF PrepareSignals
<1>1. /\ worker.pc = "cognition" /\ Audit(e)
      /\ UNCHANGED <<pairRows, queue, registered, handler, accepting, deletedUsers,
                     faults, overwritten>>
      /\ InUse(e) /\ e \in Experiments /\ row[e] \in Rows /\ RowOK(e)
      /\ worker \in Workers
  BY DEF PrepareSignals, WorkerOK, RunPcs, TypeOK
<1>2. worker.n = 0 /\ worker.runs = NoPairs /\ worker.stop = FALSE
  BY <1>1 DEF WorkerOK
<1>3. Exists(e) => row[e].pairs = 0 /\ row[e].ckpt = NoCheckpoint /\ row[e].result = NoResult
  BY <1>1 DEF WorkerOK
<1>4. k(c) \in Checkpoints /\ k(c).pairs = 0 /\ k(c).cog = c /\ k(c).stop = FALSE
  BY PairsAssumption DEF Checkpoints
<1>5. /\ new(c) \in Rows /\ new(c).status = row[e].status /\ new(c).pairs = row[e].pairs
      /\ new(c).ckpt = k(c) /\ new(c).result = row[e].result
  BY <1>1, <1>4 DEF Rows
<1>6. /\ worker' \in Workers /\ worker'.pc = "check" /\ worker'.exp = e
      /\ worker'.cog = c /\ worker'.n = 0
      /\ worker'.runs = NoPairs /\ worker'.stop = FALSE
  BY <1>0, <1>1, <1>2 DEF Workers, RunPcs
<1>7. CheckpointNow' = k(c)
  BY <1>6 DEF CheckpointNow
<1>8. Prefix(c, 0) = NoPairs
  BY DEF Prefix, NoPairs
<1> HIDE DEF k, new
<1>9. /\ row' \in [Experiments -> Rows]
      /\ \A x \in Experiments \ {e} : row'[x] = row[x]
      /\ row'[e] = IF Exists(e) THEN new(c) ELSE row[e]
  BY <1>0, <1>1, <1>5, UpdateFacts
<1>10. Exists(e)' = Exists(e) /\ InUse(e)'
  BY <1>1, <1>5, <1>9 DEF Exists, InUse
<1>11. TypeOK'
  BY <1>1, <1>6, <1>9, OwnerAssumption DEF TypeOK, Audit
<1>12. StopAt[c] \in Nat \ {0}
  BY StopType
<1>13. RowOK(e)'
  <2>1. CASE Exists(e)
    <3>1. pairRows[e] = NoPairs
      BY <1>1, <1>3, <2>1 DEF RowOK, PairsMatch
    <3>2. /\ row'[e].status = row[e].status /\ row'[e].pairs = 0
          /\ row'[e].ckpt = k(c) /\ row'[e].result = NoResult /\ k(c) # NoCheckpoint
      BY <1>3, <1>4, <1>5, <1>9, <2>1, NoneAssumption
    <3>3. PairsMatch(e)'
      BY <1>1, <1>4, <1>12, <3>1, <3>2 DEF PairsMatch, NoPairs
    <3>4. row[e].status \notin {"NONE", "READY", "DELETED"}
      BY <1>1, <2>1 DEF InUse, Exists, ActiveStatuses
    <3> QED BY <3>2, <3>3, <3>4 DEF RowOK
  <2>2. CASE ~Exists(e)
    BY <1>1, <1>9, <2>2 DEF RowOK, PairsMatch
  <2> QED BY <2>1, <2>2
<1>14. MemoryOK'
  BY <1>5, <1>6, <1>7, <1>8, <1>9, <1>10, <1>12 DEF MemoryOK
<1>15. WorkerOK'
  BY <1>1, <1>6, <1>10, <1>14 DEF WorkerOK
<1> QED BY <1>1, <1>6, <1>9, <1>11, <1>13, <1>15, WorkerStep1 DEF HoldPcs, RunPcs

LEMMA SavePairInv ==
    ASSUME IInv, NEW e \in Experiments, e = worker.exp, SavePair PROVE IInv'
<1> USE DEF IInv
<1> DEFINE i == worker.n + 1
           c == worker.cog
<1>0. /\ worker.pc = "save" /\ Exists(e)
      /\ worker' = [worker EXCEPT !.pc = "record", !.n = i,
                      !.runs = [worker.runs EXCEPT ![i] = c], !.stop = i >= StopAt[c]]
      /\ pairRows' = [pairRows EXCEPT ![e][i] = c]
      /\ UNCHANGED <<row, queue, registered, handler, accepting, deletedUsers,
                     audited, faults, overwritten>>
  BY DEF SavePair
<1>1. /\ MemoryOK /\ InUse(e) /\ RowOK(e) /\ c \in Cognitions
      /\ worker.n \in 0..MaxPairs /\ worker.stop \in BOOLEAN
      /\ worker.runs \in PairTables /\ StopAt[c] \in 1..MaxPairs
      /\ row[e] \in Rows /\ pairRows[e] \in PairTables
      /\ CheckpointNow \in Checkpoints /\ worker \in Workers
      /\ worker.exp \in Experiments
  BY <1>0, MemoryType DEF MemoryPcs, TypeOK
<1>2. /\ worker.n < StopAt[c] /\ worker.stop = FALSE
      /\ worker.runs = Prefix(c, worker.n) /\ row[e].ckpt = CheckpointNow
  BY <1>0, <1>1 DEF MemoryOK
<1>3. /\ i \in 1..MaxPairs /\ i \in 0..MaxPairs /\ i \in Nat
      /\ i <= StopAt[c] /\ i - 1 = worker.n
      /\ StopAt[c] \in Nat /\ MaxPairs \in Nat
  BY <1>1, <1>2, PairsAssumption
<1> HIDE DEF i, c
<1>4. [worker.runs EXCEPT ![i] = c] = Prefix(c, i)
  <2>1. \A j \in 1..MaxPairs : [worker.runs EXCEPT ![i] = c][j] = Prefix(c, i)[j]
    BY <1>1, <1>2, <1>3 DEF PairTables, Prefix
  <2> QED BY <1>1, <2>1 DEF PairTables, Prefix
<1>5. Prefix(c, i) \in PairTables
  BY <1>1, <1>3, PrefixType
<1>6. /\ worker' \in Workers /\ worker'.pc = "record" /\ worker'.exp = e
      /\ worker'.cog = c /\ worker'.n = i /\ worker'.runs = Prefix(c, i)
      /\ worker'.stop = (i >= StopAt[c])
  <2> DEFINE b == i >= StopAt[c]
  <2>1. b \in BOOLEAN /\ "record" \in RunPcs
    BY DEF RunPcs
  <2>2. worker' = [worker EXCEPT !.pc = "record", !.n = i, !.runs = Prefix(c, i), !.stop = b]
    BY <1>0, <1>4
  <2>3. worker.cog = c
    BY DEF c
  <2> HIDE DEF b
  <2>4. /\ worker' \in Workers /\ worker'.pc = "record" /\ worker'.exp = e
        /\ worker'.cog = c /\ worker'.n = i /\ worker'.runs = Prefix(c, i)
        /\ worker'.stop = b
    BY <1>1, <1>3, <1>5, <2>1, <2>2, <2>3 DEF Workers
  <2> QED BY <2>4 DEF b
<1>7. /\ \A x \in Experiments \ {e} : pairRows'[x] = pairRows[x]
      /\ pairRows'[e] = [pairRows[e] EXCEPT ![i] = c]
      /\ pairRows' \in [Experiments -> PairTables]
  BY <1>0, <1>1, <1>3 DEF TypeOK, PairTables
<1>8. TypeOK'
  BY <1>0, <1>6, <1>7 DEF TypeOK
<1>9. /\ row[e].ckpt = [pairs |-> i - 1, cog |-> c, stop |-> FALSE]
      /\ row[e].ckpt # NoCheckpoint
  BY <1>1, <1>2, <1>3, NoneAssumption DEF CheckpointNow, c
<1>10. RowOK(e)'
  <2>1. PairsMatch(e)'
    BY <1>0, <1>1, <1>3, <1>7, <1>9 DEF RowOK, PairsMatch, PairTables
  <2> QED BY <1>0, <1>1, <2>1 DEF RowOK
<1>11. MemoryOK'
  <2>1. (i >= StopAt[c]) <=> i = StopAt[c]
    BY <1>3
  <2>2. worker'.stop <=> i = StopAt[c]
    BY <1>6, <2>1
  <2>3. pairRows'[e][i] = c /\ i > 0
    BY <1>1, <1>3, <1>7 DEF PairTables
  <2> QED BY <1>0, <1>1, <1>3, <1>6, <1>9, <2>2, <2>3 DEF MemoryOK
<1>12. WorkerOK'
  BY <1>0, <1>1, <1>6, <1>11 DEF WorkerOK, InUse
<1> QED BY <1>0, <1>6, <1>7, <1>8, <1>10, <1>12, WorkerStep1 DEF HoldPcs, RunPcs

LEMMA RecordPairInv ==
    ASSUME IInv, NEW e \in Experiments, e = worker.exp, RecordPair PROVE IInv'
<1> USE DEF IInv
<1> DEFINE new == [row[e] EXCEPT !.pairs = worker.n, !.ckpt = CheckpointNow]
           pc == IF worker.stop THEN "aggregate" ELSE "check"
<1>0. /\ worker.pc = "record" /\ Update(e, new) /\ Goto(pc)
      /\ audited' = IF worker.stop THEN audited \cup {Owner[e]} ELSE audited
      /\ UNCHANGED <<pairRows, queue, registered, handler, accepting, deletedUsers,
                     faults, overwritten>>
  BY DEF RecordPair
<1>1. /\ MemoryOK /\ InUse(e) /\ worker.n \in 0..MaxPairs /\ worker.cog \in Cognitions
      /\ CheckpointNow \in Checkpoints /\ row[e] \in Rows /\ RowOK(e)
  BY <1>0, MemoryType DEF MemoryPcs
<1>2. /\ new \in Rows /\ new.status = row[e].status /\ new.pairs = worker.n
      /\ new.ckpt = CheckpointNow /\ new.result = row[e].result
  BY <1>1 DEF Rows
<1>3. pc \in {"check", "aggregate"} /\ (pc = "aggregate" <=> worker.stop)
  OBVIOUS
<1> HIDE DEF new, pc
<1>4. /\ row' \in [Experiments -> Rows]
      /\ \A x \in Experiments \ {e} : row'[x] = row[x]
      /\ row'[e] = IF Exists(e) THEN new ELSE row[e]
  BY <1>0, <1>2, UpdateFacts
<1>5. /\ worker' \in Workers /\ worker'.pc = pc /\ worker'.exp = e
      /\ worker'.cog = worker.cog /\ worker'.n = worker.n
      /\ worker'.runs = worker.runs /\ worker'.stop = worker.stop
  <2>1. pc \in RunPcs \cup ClosingPcs \cup TailPcs \cup {"idle"}
    BY <1>3 DEF RunPcs
  <2> QED BY <1>0, <2>1, GotoType
<1>6. Exists(e) =>
        /\ row[e].ckpt = [pairs |-> worker.n - 1, cog |-> worker.cog, stop |-> FALSE]
        /\ row[e].ckpt # NoCheckpoint
        /\ pairRows[e][worker.n] = worker.cog
        /\ worker.n > 0 /\ worker.n <= StopAt[worker.cog]
        /\ worker.stop <=> worker.n = StopAt[worker.cog]
  <2>1. worker.n > 0 => [pairs |-> worker.n - 1, cog |-> worker.cog, stop |-> FALSE]
          \in Checkpoints
    BY <1>1, PairsAssumption DEF Checkpoints
  <2> QED BY <1>0, <1>1, <2>1, NoneAssumption DEF MemoryOK
<1>7. Exists(e)' = Exists(e) /\ InUse(e)'
  BY <1>1, <1>2, <1>4 DEF Exists, InUse
<1>8. TypeOK'
  BY <1>0, <1>4, <1>5, OwnerAssumption DEF TypeOK
<1>9. RowOK(e)'
  <2>1. CASE Exists(e)
    <3>1. row[e].result = NoResult
      BY <1>1, <1>6, <2>1 DEF RowOK
    <3>2. /\ row'[e].status = row[e].status /\ row'[e].pairs = worker.n
          /\ row'[e].ckpt = CheckpointNow /\ row'[e].result = NoResult
          /\ CheckpointNow # NoCheckpoint
      BY <1>1, <1>2, <1>4, <2>1, <3>1, NoneAssumption
    <3>3. /\ CheckpointNow.pairs = worker.n /\ CheckpointNow.cog = worker.cog
          /\ CheckpointNow.stop = worker.stop
      BY DEF CheckpointNow
    <3>4. ASSUME NEW i \in 1..MaxPairs
          PROVE  /\ i <= worker.n => pairRows[e][i] = worker.cog
                 /\ i > worker.n => pairRows[e][i] = NoCog
      BY <1>1, <1>6, <2>1, PairsAssumption DEF RowOK, PairsMatch
    <3>5. \A i \in 1..MaxPairs : i > worker.n + 1 => i > worker.n
      BY <1>1, PairsAssumption
    <3>6. PairsMatch(e)'
      <4>1. worker.n + 1 > worker.n
        BY <1>1, PairsAssumption
      <4> QED BY <1>0, <1>6, <2>1, <3>2, <3>3, <3>4, <3>5, <4>1 DEF PairsMatch
    <3>7. row[e].status \notin {"NONE", "READY", "DELETED"}
      BY <1>1, <2>1 DEF InUse, Exists, ActiveStatuses
    <3> QED BY <3>2, <3>6, <3>7 DEF RowOK
  <2>2. CASE ~Exists(e)
    BY <1>0, <1>1, <1>4, <2>2 DEF RowOK, PairsMatch
  <2> QED BY <2>1, <2>2
<1>10. CheckpointNow' = CheckpointNow
  BY <1>5 DEF CheckpointNow
<1>11. MemoryOK'
  BY <1>0, <1>1, <1>2, <1>3, <1>4, <1>5, <1>7, <1>10 DEF MemoryOK
<1>12. WorkerOK'
  BY <1>1, <1>3, <1>5, <1>7, <1>11 DEF WorkerOK
<1> QED BY <1>0, <1>4, <1>5, <1>8, <1>9, <1>12, WorkerStep1 DEF HoldPcs, RunPcs

LEMMA AggregateInv ==
    ASSUME IInv, NEW e \in Experiments, e = worker.exp, Aggregate PROVE IInv'
<1> USE DEF IInv
<1> DEFINE new == [row[e] EXCEPT !.status = "AGGREGATING"]
<1>0. /\ worker.pc = "aggregate" /\ Update(e, new) /\ Goto("represent")
      /\ UNCHANGED <<pairRows, queue, registered, handler, accepting, deletedUsers,
                     audited, faults, overwritten>>
  BY DEF Aggregate
<1>1. MemoryOK /\ InUse(e) /\ row[e] \in Rows /\ RowOK(e)
  BY <1>0, MemoryType DEF MemoryPcs
<1>2. /\ new \in Rows /\ new.status = "AGGREGATING" /\ new.pairs = row[e].pairs
      /\ new.ckpt = row[e].ckpt /\ new.result = row[e].result
  BY <1>1 DEF Rows, Statuses, ActiveStatuses
<1> HIDE DEF new
<1>3. /\ row' \in [Experiments -> Rows]
      /\ \A x \in Experiments \ {e} : row'[x] = row[x]
      /\ row'[e] = IF Exists(e) THEN new ELSE row[e]
  BY <1>0, <1>2, UpdateFacts
<1>4. /\ worker' \in Workers /\ worker'.pc = "represent" /\ worker'.exp = e
      /\ worker'.cog = worker.cog /\ worker'.n = worker.n
      /\ worker'.runs = worker.runs /\ worker'.stop = worker.stop
  BY <1>0, GotoType DEF RunPcs
<1>5. Exists(e)' = Exists(e) /\ InUse(e)'
  BY <1>1, <1>2, <1>3 DEF Exists, InUse, ActiveStatuses
<1>6. TypeOK'
  BY <1>0, <1>3, <1>4 DEF TypeOK
<1>7. RowOK(e)'
  <2>1. CASE Exists(e)
    BY <1>0, <1>2, <1>3, <2>1, RowStatusOnly
  <2>2. CASE ~Exists(e)
    BY <1>0, <1>1, <1>3, <2>2 DEF RowOK, PairsMatch
  <2> QED BY <2>1, <2>2
<1>8. CheckpointNow' = CheckpointNow
  BY <1>4 DEF CheckpointNow
<1>9. MemoryOK'
  BY <1>0, <1>1, <1>2, <1>3, <1>4, <1>5, <1>8 DEF MemoryOK
<1>10. WorkerOK'
  BY <1>4, <1>5, <1>9 DEF WorkerOK
<1> QED BY <1>0, <1>3, <1>4, <1>6, <1>7, <1>10, WorkerStep1 DEF HoldPcs, RunPcs

\* the run is over and leaves no checkpoint behind: a result, or a cancellation
LEMMA PublishInv ==
    ASSUME IInv, NEW e \in Experiments, e = worker.exp, Publish PROVE IInv'
<1> USE DEF IInv
<1> DEFINE result == [cog |-> worker.cog, pairs |-> worker.n, runs |-> worker.runs]
           new == [row[e] EXCEPT !.status = "COMPLETED", !.pairs = worker.n,
                                 !.ckpt = NoCheckpoint, !.result = result]
<1>0. /\ worker.pc = "publish" /\ Update(e, new) /\ Goto("audit")
      /\ pairRows' = [pairRows EXCEPT ![e] = NoPairs]
      /\ UNCHANGED <<queue, registered, handler, accepting, deletedUsers, audited,
                     faults, overwritten>>
  BY DEF Publish
<1>1. /\ MemoryOK /\ InUse(e) /\ row[e] \in Rows /\ RowOK(e)
      /\ worker.cog \in Cognitions /\ worker.n \in 0..MaxPairs
      /\ worker.runs \in PairTables /\ StopAt[worker.cog] \in 1..MaxPairs
  BY <1>0, MemoryType DEF MemoryPcs
<1>2. worker.n = StopAt[worker.cog] /\ worker.runs = Prefix(worker.cog, worker.n)
  BY <1>0, <1>1 DEF MemoryOK
<1>3. result = Uninterrupted(worker.cog)
  BY <1>2 DEF Uninterrupted, Prefix
<1>4. result \in Results
  BY <1>1 DEF Results
<1> HIDE DEF result
<1>5. /\ new \in Rows /\ new.status = "COMPLETED" /\ new.pairs = worker.n
      /\ new.ckpt = NoCheckpoint /\ new.result = result
  BY <1>1, <1>4 DEF Rows, Statuses, PrunableStatuses, FinalStatuses
<1> HIDE DEF new
<1>6. /\ row' \in [Experiments -> Rows]
      /\ \A x \in Experiments \ {e} : row'[x] = row[x]
      /\ row'[e] = IF Exists(e) THEN new ELSE row[e]
  BY <1>0, <1>5, UpdateFacts
<1>7. worker' \in Workers /\ worker'.pc = "audit" /\ worker'.exp = e
  BY <1>0, GotoType DEF TailPcs
<1>8. /\ pairRows' \in [Experiments -> PairTables] /\ pairRows'[e] = NoPairs
      /\ \A x \in Experiments \ {e} : pairRows'[x] = pairRows[x]
  BY <1>0, NoPairsType DEF TypeOK
<1>9. TypeOK'
  BY <1>0, <1>6, <1>7, <1>8 DEF TypeOK
<1>10. RowOK(e)'
  <2>1. CASE Exists(e)
    <3>1. worker.n > 0
      BY <1>1, <1>2, PairsAssumption
    <3> QED BY <1>1, <1>3, <1>5, <1>6, <1>8, <2>1, <3>1 DEF RowOK, PairsMatch
  <2>2. CASE ~Exists(e)
    <3>1. row[e] = NewRow("DELETED")
      BY <1>1, <2>2 DEF InUse, Exists, RowOK, ActiveStatuses
    <3> QED BY <1>6, <1>8, <2>2, <3>1 DEF RowOK, PairsMatch, NewRow
  <2> QED BY <2>1, <2>2
<1>11. WorkerOK'
  <2>1. row'[e].status \notin {"NONE", "READY", "FAILED_RETRYABLE"}
    BY <1>1, <1>5, <1>6 DEF InUse, Exists, ActiveStatuses
  <2> QED BY <1>7, <2>1 DEF WorkerOK, RunPcs, MemoryPcs
<1> QED BY <1>0, <1>6, <1>7, <1>8, <1>9, <1>10, <1>11, WorkerStep1 DEF HoldPcs, RunPcs

LEMMA FinishCancelledInv ==
    ASSUME IInv, NEW e \in Experiments, e = worker.exp, FinishCancelled PROVE IInv'
<1> USE DEF IInv
<1> DEFINE new == [row[e] EXCEPT !.status = "CANCELLED", !.pairs = worker.n,
                                 !.ckpt = NoCheckpoint]
<1>0. /\ worker.pc = "cancelled" /\ Update(e, new) /\ Goto("audit")
      /\ pairRows' = [pairRows EXCEPT ![e] = NoPairs]
      /\ UNCHANGED <<queue, registered, handler, accepting, deletedUsers, audited,
                     faults, overwritten>>
  BY DEF FinishCancelled
<1>1. /\ InUse(e) /\ row[e] \in Rows /\ RowOK(e) /\ worker.n \in 0..MaxPairs
      /\ Exists(e) => row[e].result = NoResult
  BY <1>0 DEF WorkerOK, TypeOK, Workers
<1>2. /\ new \in Rows /\ new.status = "CANCELLED" /\ new.pairs = worker.n
      /\ new.ckpt = NoCheckpoint /\ new.result = row[e].result
  BY <1>1 DEF Rows, Statuses, PrunableStatuses, FinalStatuses
<1> HIDE DEF new
<1>3. /\ row' \in [Experiments -> Rows]
      /\ \A x \in Experiments \ {e} : row'[x] = row[x]
      /\ row'[e] = IF Exists(e) THEN new ELSE row[e]
  BY <1>0, <1>2, UpdateFacts
<1>4. worker' \in Workers /\ worker'.pc = "audit" /\ worker'.exp = e
  BY <1>0, GotoType DEF TailPcs
<1>5. /\ pairRows' \in [Experiments -> PairTables] /\ pairRows'[e] = NoPairs
      /\ \A x \in Experiments \ {e} : pairRows'[x] = pairRows[x]
  BY <1>0, NoPairsType DEF TypeOK
<1>6. TypeOK'
  BY <1>0, <1>3, <1>4, <1>5 DEF TypeOK
<1>7. RowOK(e)'
  <2>1. CASE Exists(e)
    BY <1>1, <1>2, <1>3, <1>5, <2>1 DEF RowOK, PairsMatch
  <2>2. CASE ~Exists(e)
    <3>1. row[e] = NewRow("DELETED")
      BY <1>1, <2>2 DEF InUse, Exists, RowOK, ActiveStatuses
    <3> QED BY <1>3, <1>5, <2>2, <3>1 DEF RowOK, PairsMatch, NewRow
  <2> QED BY <2>1, <2>2
<1>8. WorkerOK'
  <2>1. row'[e].status \notin {"NONE", "READY", "FAILED_RETRYABLE"}
    BY <1>1, <1>2, <1>3 DEF InUse, Exists, ActiveStatuses
  <2> QED BY <1>4, <2>1 DEF WorkerOK, RunPcs, MemoryPcs
<1> QED BY <1>0, <1>3, <1>4, <1>5, <1>6, <1>7, <1>8, WorkerStep1 DEF HoldPcs, ClosingPcs

LEMMA FinishFailedInv ==
    ASSUME IInv, NEW e \in Experiments, e = worker.exp, FinishFailed PROVE IInv'
<1> USE DEF IInv
<1> DEFINE s == IF worker.pc = "failFinal" THEN "FAILED_FINAL" ELSE "FAILED_RETRYABLE"
           new == [row[e] EXCEPT !.status = s]
<1>0. /\ worker.pc \in {"failRetryable", "failFinal"} /\ Update(e, new) /\ Goto("auditFail")
      /\ UNCHANGED <<pairRows, queue, registered, handler, accepting, deletedUsers,
                     audited, faults, overwritten>>
  BY DEF FinishFailed
<1>1. row[e] \in Rows /\ RowOK(e)
  BY DEF TypeOK
<1>2. s \in {"FAILED_FINAL", "FAILED_RETRYABLE"} /\ s \in Statuses
  BY DEF Statuses, PrunableStatuses, FinalStatuses, StartableStatuses
<1> HIDE DEF s
<1>3. /\ new \in Rows /\ new.status = s /\ new.pairs = row[e].pairs
      /\ new.ckpt = row[e].ckpt /\ new.result = row[e].result
  BY <1>1, <1>2 DEF Rows
<1> HIDE DEF new
<1>4. /\ row' \in [Experiments -> Rows]
      /\ \A x \in Experiments \ {e} : row'[x] = row[x]
      /\ row'[e] = IF Exists(e) THEN new ELSE row[e]
  BY <1>0, <1>3, UpdateFacts
<1>5. worker' \in Workers /\ worker'.pc = "auditFail" /\ worker'.exp = e
  BY <1>0, GotoType DEF TailPcs
<1>6. TypeOK'
  BY <1>0, <1>4, <1>5 DEF TypeOK
<1>7. RowOK(e)'
  <2>1. CASE Exists(e)
    BY <1>0, <1>2, <1>3, <1>4, <2>1, RowStatusOnly
  <2>2. CASE ~Exists(e)
    BY <1>0, <1>1, <1>4, <2>2 DEF RowOK, PairsMatch
  <2> QED BY <2>1, <2>2
<1>8. WorkerOK'
  BY <1>5 DEF WorkerOK, RunPcs, MemoryPcs
<1> QED BY <1>0, <1>4, <1>5, <1>6, <1>7, <1>8, WorkerStep1 DEF HoldPcs, ClosingPcs

-----------------------------------------------------------------------------
(* The process.                                                             *)

LEMMA ShutdownInv == ASSUME IInv, Shutdown PROVE IInv'
<1> USE DEF IInv
<1>0. /\ queue' = <<>> /\ handler = IdleHandler
      /\ UNCHANGED <<row, pairRows, worker, handler, deletedUsers, audited, faults,
                     overwritten>>
  BY DEF Shutdown, HandlerFree
<1>1. TypeOK'
  <2>1. registered' \subseteq Experiments /\ accepting' \in BOOLEAN
    BY DEF Shutdown, TypeOK
  <2>2. queue' \in Seq(Experiments)
    BY <1>0
  <2> QED BY <1>0, <2>1, <2>2 DEF TypeOK
<1>2. ASSUME NEW x \in Experiments PROVE RowOK(x)'
  BY <1>0 DEF RowOK, PairsMatch
<1>3. QueueOK'
  BY <1>0 DEF QueueOK
<1>4. HandlerOK'
  BY <1>0 DEF HandlerOK, IdleHandler
<1>5. WorkerOK'
  BY <1>0 DEF WorkerOK, MemoryOK, CheckpointNow, InUse, Exists
<1> QED BY <1>1, <1>2, <1>3, <1>4, <1>5

LEMMA RestartInv == ASSUME IInv, Restart PROVE IInv'
<1> USE DEF IInv
<1> DEFINE recovered == [e \in Experiments |-> Recovered(e)]
<1>0. PICK gone \in SUBSET Experiments :
        /\ row' = [e \in Experiments |->
                     IF e \in gone THEN NewRow("DELETED") ELSE recovered[e]]
        /\ pairRows' = [e \in Experiments |->
                          IF e \in gone THEN NoPairs ELSE pairRows[e]]
  BY DEF Restart
<1>1. /\ queue' = <<>> /\ worker' = IdleWorker /\ handler' = IdleHandler
      /\ registered' = {} /\ accepting' = TRUE
      /\ UNCHANGED <<deletedUsers, audited, faults, overwritten>>
  BY DEF Restart
<1>2. recovered \in [Experiments -> Rows]
  <2>1. "FAILED_RETRYABLE" \in Statuses
    BY DEF Statuses, PrunableStatuses, StartableStatuses
  <2>2. ASSUME NEW e \in Experiments
        PROVE [row[e] EXCEPT !.status = "FAILED_RETRYABLE"] \in Rows
    BY <2>1 DEF TypeOK, Rows
  <2> QED BY <2>2 DEF TypeOK, Recovered
<1>3. ASSUME NEW e \in Experiments
      PROVE  \/ recovered[e] = row[e]
             \/ /\ recovered[e].status = "FAILED_RETRYABLE"
                /\ recovered[e].ckpt = row[e].ckpt /\ recovered[e].pairs = row[e].pairs
                /\ recovered[e].result = row[e].result
  BY DEF TypeOK, Rows, Recovered
<1> HIDE DEF recovered
<1>4. TypeOK'
  <2>1. NewRow("DELETED") \in Rows
    BY NewRowType DEF Statuses
  <2>2. row' \in [Experiments -> Rows]
    BY <1>0, <1>2, <2>1
  <2>3. pairRows' \in [Experiments -> PairTables]
    BY <1>0, NoPairsType DEF TypeOK
  <2>4. queue' \in Seq(Experiments)
    BY <1>1
  <2> QED BY <1>1, <2>2, <2>3, <2>4, IdleType DEF TypeOK
<1>5. ASSUME NEW x \in Experiments PROVE RowOK(x)'
  <2>1. CASE x \in gone
    BY <1>0, <2>1 DEF RowOK, PairsMatch, NewRow
  <2>2. CASE x \notin gone
    <3>1. row'[x] = recovered[x] /\ pairRows'[x] = pairRows[x]
      BY <1>0, <2>2
    <3>2. CASE recovered[x] = row[x]
      BY <3>1, <3>2 DEF RowOK, PairsMatch
    <3>3. CASE recovered[x] # row[x]
      BY <1>3, <3>1, <3>3, RowStatusOnly
    <3> QED BY <3>2, <3>3
  <2> QED BY <2>1, <2>2
<1>6. QueueOK'
  BY <1>1 DEF QueueOK
<1>7. HandlerOK'
  BY <1>1 DEF HandlerOK, IdleHandler
<1>8. WorkerOK'
  BY <1>1 DEF WorkerOK, IdleWorker, RunPcs, MemoryPcs
<1> QED BY <1>4, <1>5, <1>6, <1>7, <1>8

-----------------------------------------------------------------------------
(* The inductive invariant, and the properties that follow from it.         *)

LEMMA StutterInv == ASSUME IInv, UNCHANGED vars PROVE IInv'
<1> USE DEF IInv, vars
<1>1. TypeOK'
  BY DEF TypeOK
<1>2. HandlerOK'
  BY DEF HandlerOK, Holding
<1> QED BY <1>1, <1>2, HandlerOnly

LEMMA WorkerStepInv == ASSUME IInv, WorkerStep PROVE IInv'
<1>1. CASE worker.exp \in Experiments
  <2>1. PICK e \in Experiments : e = worker.exp
    BY <1>1
  <2>2. CheckCancel \/ BaselineArm \/ InterventionArm => IInv'
    BY PollInv DEF CheckCancel, BaselineArm, InterventionArm
  <2> QED
    BY <2>1, <2>2, TakeInv, LoadInv, ResumeInv, FreshInv, PrepareSignalsInv,
       PrepareSignalsFailsInv, SavePairInv, SavePairFailsInv, RecordPairInv,
       AggregateInv, LoadRepresentativeInv, PublishInv, FinishCancelledInv,
       FinishFailedInv, CloseRunInv, RemoveFutureInv
    DEF WorkerStep
<1>2. CASE worker.exp \notin Experiments
  <2>1. worker.pc = "idle"
    BY <1>2 DEF IInv, WorkerOK
  <2>2. Take
    BY <2>1
    DEF WorkerStep, Load, Resume, Fresh, PrepareSignals, PrepareSignalsFails,
        CheckCancel, BaselineArm, InterventionArm, Poll, SavePair, SavePairFails,
        RecordPair, Aggregate, LoadRepresentative, Publish, FinishCancelled,
        FinishFailed, CloseRun, RemoveFuture
  <2> QED BY <2>2, TakeInv
<1> QED BY <1>1, <1>2

LEMMA NextInv == IInv /\ [Next]_vars => IInv'
<1> SUFFICES ASSUME IInv, [Next]_vars PROVE IInv'
  OBVIOUS
<1>1. CASE \E e \in Experiments :
             Create(e) \/ StartClaim(e) \/ CancelRead(e) \/ Invalidate(e)
  BY <1>1, CreateInv, StartClaimInv, CancelReadInv, InvalidateInv
<1>2. CASE \E u \in Users : DeleteAccount(u)
  BY <1>2, DeleteAccountInv
<1>3. CASE HandlerStep \/ StartSubmitRaises
  BY <1>3, StartSubmitInv, CancelWriteInv, StartSubmitRaisesInv DEF HandlerStep
<1>4. CASE WorkerStep \/ Raise
  BY <1>4, WorkerStepInv, RaiseInv
<1>5. CASE Shutdown \/ Restart
  BY <1>5, ShutdownInv, RestartInv
<1>6. CASE UNCHANGED vars
  BY <1>6, StutterInv
<1> QED BY <1>1, <1>2, <1>3, <1>4, <1>5, <1>6 DEF Next

LEMMA InvariantHolds == Spec => []IInv
<1>1. Init => IInv
  BY InitInv
<1>2. IInv /\ [Next]_vars => IInv'
  BY NextInv
<1> QED BY <1>1, <1>2, PTL DEF Spec

\* Every variable keeps its type; in particular the pair table never gets an
\* index beyond MaxPairs and a checkpoint never counts more pairs than that.
THEOREM TypeCorrect == Spec => []TypeOK
<1>1. IInv => TypeOK
  BY DEF IInv
<1> QED BY <1>1, InvariantHolds, PTL

\* Whatever crashes, retries, cancels and failures a run went through, what it
\* publishes is the result of an uninterrupted run under one set of signals.
THEOREM ResultsSound == Spec => []ResultsAreUninterrupted
<1>1. IInv => ResultsAreUninterrupted
  BY DEF IInv, RowOK, ResultsAreUninterrupted
<1> QED BY <1>1, InvariantHolds, PTL

\* The stored pairs and the checkpoint agree between any two transactions.
THEOREM CheckpointSound == Spec => []PairsMatchCheckpoint
<1>1. IInv => PairsMatchCheckpoint
  BY DEF IInv, RowOK, PairsMatchCheckpoint
<1> QED BY <1>1, InvariantHolds, PTL

\* At most one work item of an experiment may still write its row.
THEOREM SingleRun == Spec => []OneRunPerExperiment
<1>1. IInv => OneRunPerExperiment
  BY DEF IInv, QueueOK, Holding, HoldPcs, InQueue, OneRunPerExperiment
<1> QED BY <1>1, InvariantHolds, PTL

-----------------------------------------------------------------------------
(* The service implements ResultRegister.  Three kinds of step: Publish     *)
(* writes one register, deletions erase some, and the rest leave them all.  *)

outcomes == [e \in Experiments |-> Outcome(e)]

\* a row whose result stays, and that was and is not deleted or stays so
Kept(e) ==
    /\ row'[e].status = "DELETED" <=> row[e].status = "DELETED"
    /\ row'[e].result = row[e].result

LEMMA KeptStutters ==
    ASSUME \A e \in Experiments : Kept(e) PROVE outcomes' = outcomes
<1>1. \A e \in Experiments : Outcome(e)' = Outcome(e)
  BY DEF Kept, Outcome
<1> QED BY <1>1 DEF outcomes

\* an UPDATE that neither touches the result nor marks the row deleted
LEMMA UpdateKeeps ==
    ASSUME IInv, NEW e \in Experiments, NEW new, Update(e, new),
           new.result = row[e].result, Exists(e) => new.status # "DELETED"
    PROVE  outcomes' = outcomes
<1>1. ASSUME NEW x \in Experiments PROVE Kept(x)
  <2>1. CASE Exists(e) /\ x = e
    BY <2>1 DEF Update, Kept, Exists, IInv, TypeOK
  <2>2. CASE ~Exists(e) \/ x # e
    <3>1. row'[x] = row[x]
      BY <2>2 DEF Update, IInv, TypeOK
    <3> QED BY <3>1 DEF Kept
  <2> QED BY <2>1, <2>2
<1> QED BY <1>1, KeptStutters

LEMMA EraseStep ==
    ASSUME IInv, NEW gone \in SUBSET Experiments,
           \A e \in Experiments : IF e \in gone THEN row'[e] = NewRow("DELETED") ELSE Kept(e)
    PROVE  Register!Erase(gone)
<1>1. \A e \in Experiments : Outcome(e)' = IF e \in gone THEN NoExperiment ELSE Outcome(e)
  BY DEF Kept, Outcome, NewRow
<1> QED BY <1>1 DEF Register!Erase

LEMMA CreateErases ==
    ASSUME IInv, NEW e \in Experiments, Create(e)
    PROVE  \E S \in SUBSET Experiments : Register!Erase(S)
<1>1. PICK gone \in SUBSET Prunable :
        \E room \in BOOLEAN : row' = [x \in Experiments |->
                            IF x \in gone THEN NewRow("DELETED")
                            ELSE IF x = e /\ room THEN NewRow("READY") ELSE row[x]]
  BY DEF Create
<1>2. gone \in SUBSET Experiments
  BY <1>1 DEF Prunable
<1>3. row[e] = NewRow("NONE")
  BY DEF Create, IInv, RowOK
<1>4. ASSUME NEW x \in Experiments
      PROVE  IF x \in gone THEN row'[x] = NewRow("DELETED") ELSE Kept(x)
  <2>1. CASE x \in gone
    BY <1>1, <2>1
  <2>2. CASE x \notin gone
    <3>1. row'[x] = row[x] \/ (x = e /\ row'[x] = NewRow("READY"))
      BY <1>1, <2>2
    <3> QED BY <1>3, <2>2, <3>1 DEF Kept, NewRow
  <2> QED BY <2>1, <2>2
<1> QED BY <1>2, <1>4, EraseStep

LEMMA DeleteAccountErases ==
    ASSUME IInv, NEW u \in Users, DeleteAccount(u)
    PROVE  \E S \in SUBSET Experiments : Register!Erase(S)
<1>1. row' = [x \in Experiments |-> IF x \in OwnedBy(u) THEN NewRow("DELETED") ELSE row[x]]
  BY DEF DeleteAccount, DeleteRows
<1>2. OwnedBy(u) \in SUBSET Experiments
  BY DEF OwnedBy, Stored
<1>3. \A x \in Experiments :
        IF x \in OwnedBy(u) THEN row'[x] = NewRow("DELETED") ELSE Kept(x)
  BY <1>1 DEF Kept
<1> QED BY <1>2, <1>3, EraseStep

LEMMA RestartErases ==
    ASSUME IInv, Restart
    PROVE  \E S \in SUBSET Experiments : Register!Erase(S)
<1> DEFINE recovered == [e \in Experiments |-> Recovered(e)]
<1>1. PICK gone \in SUBSET Experiments :
        row' = [e \in Experiments |->
                  IF e \in gone THEN NewRow("DELETED") ELSE recovered[e]]
  BY DEF Restart
<1>2. ASSUME NEW e \in Experiments
      PROVE  /\ recovered[e].result = row[e].result
             /\ recovered[e].status = "DELETED" <=> row[e].status = "DELETED"
  BY DEF IInv, TypeOK, Rows, ActiveStatuses, Recovered
<1> HIDE DEF recovered
<1>3. \A e \in Experiments :
        IF e \in gone THEN row'[e] = NewRow("DELETED") ELSE Kept(e)
  BY <1>1, <1>2 DEF Kept
<1> QED BY <1>3, EraseStep

LEMMA PublishPublishes ==
    ASSUME IInv, Publish
    PROVE  \/ \E e \in Experiments : Register!Publish(e)
           \/ outcomes' = outcomes
<1> DEFINE e == worker.exp
           result == [cog |-> worker.cog, pairs |-> worker.n, runs |-> worker.runs]
           new == [row[e] EXCEPT !.status = "COMPLETED", !.pairs = worker.n,
                                 !.ckpt = NoCheckpoint, !.result = result]
<1>1. worker.pc \in MemoryPcs /\ worker.pc = "publish" /\ Update(e, new)
  BY DEF Publish, MemoryPcs
<1>2. /\ MemoryOK /\ e \in Experiments /\ worker.cog \in Cognitions /\ RowOK(e)
      /\ CheckpointNow \in Checkpoints /\ row[e] \in Rows
  BY <1>1, MemoryType
<1>3. result = Uninterrupted(worker.cog)
  <2>1. worker.n = StopAt[worker.cog] /\ worker.runs = Prefix(worker.cog, worker.n)
    BY <1>1, <1>2 DEF MemoryOK
  <2> QED BY <2>1 DEF Uninterrupted, Prefix
<1>4. CASE Exists(e)
  <2>1. row[e].result = NoResult
    BY <1>1, <1>2, <1>4, NoneAssumption DEF MemoryOK, RowOK
  <2>2. Outcome(e) = NoResult
    BY <1>4, <2>1 DEF Outcome, Exists
  <2>3. new.status = "COMPLETED" /\ new.result = result
    BY <1>2 DEF Rows
  <2> HIDE DEF new, result
  <2>4. row' = [row EXCEPT ![e] = new] /\ row \in [Experiments -> Rows]
    BY <1>1, <1>4 DEF Update, IInv, TypeOK
  <2>5. \A x \in Experiments : row'[x] = IF x = e THEN new ELSE row[x]
    BY <2>4
  <2>6. \A x \in Experiments :
          Outcome(x)' = IF x = e THEN Uninterrupted(worker.cog) ELSE Outcome(x)
    BY <1>3, <2>3, <2>5 DEF Outcome
  <2>7. outcomes' = [outcomes EXCEPT ![e] = Uninterrupted(worker.cog)]
    BY <2>6 DEF outcomes
  <2>8. outcomes[e] = NoResult
    BY <1>2, <2>2 DEF outcomes
  <2>9. Uninterrupted(worker.cog) \in {Uninterrupted(c) : c \in Cognitions}
    BY <1>2
  <2>10. Register!Publish(e)
    BY <2>7, <2>8, <2>9 DEF Register!Publish, outcomes
  <2> QED BY <1>2, <2>10
<1>5. CASE ~Exists(e)
  <2>1. row' = row
    BY <1>1, <1>5 DEF Update
  <2> QED BY <2>1, KeptStutters DEF Kept
<1> QED BY <1>4, <1>5

\* the steps of the thread other than Publish
LEMMA WorkerStutters ==
    ASSUME IInv, WorkerStep, ~Publish PROVE outcomes' = outcomes
<1>1. row' = row => outcomes' = outcomes
  BY KeptStutters DEF Kept
<1>2. CASE Take \/ Load \/ PrepareSignalsFails \/ CheckCancel \/ BaselineArm
           \/ InterventionArm \/ SavePair \/ SavePairFails \/ LoadRepresentative
           \/ CloseRun \/ RemoveFuture
  BY <1>1, <1>2 DEF Take, Load, PrepareSignalsFails, CheckCancel, BaselineArm,
     InterventionArm, Poll, SavePair, SavePairFails, LoadRepresentative, CloseRun,
     RemoveFuture
<1> DEFINE e == worker.exp
<1>3. worker.pc # "idle" => e \in Experiments /\ row[e] \in Rows
  BY DEF IInv, WorkerOK, TypeOK
<1>4. CASE Resume
  <2> DEFINE new == [row[e] EXCEPT !.status = "RUNNING", !.pairs = worker.n,
                                   !.ckpt = CheckpointNow]
  <2>1. worker.pc = "resume" /\ Update(e, new)
    BY <1>4 DEF Resume
  <2>2. new.result = row[e].result /\ new.status # "DELETED"
    BY <1>3, <2>1 DEF Rows
  <2> QED BY <1>3, <2>1, <2>2, UpdateKeeps
<1>5. CASE Fresh
  <2> DEFINE new == [row[e] EXCEPT !.status = "RUNNING", !.pairs = 0]
  <2>1. worker.pc = "fresh" /\ Update(e, new)
    BY <1>5 DEF Fresh
  <2>2. new.result = row[e].result /\ new.status # "DELETED"
    BY <1>3, <2>1 DEF Rows
  <2> QED BY <1>3, <2>1, <2>2, UpdateKeeps
<1>6. CASE PrepareSignals
  <2>1. PICK c \in Cognitions :
          Update(e, [row[e] EXCEPT !.ckpt = [pairs |-> 0, cog |-> c, stop |-> FALSE]])
    BY <1>6 DEF PrepareSignals
  <2> DEFINE new == [row[e] EXCEPT !.ckpt = [pairs |-> 0, cog |-> c, stop |-> FALSE]]
  <2>2. worker.pc = "cognition"
    BY <1>6 DEF PrepareSignals
  <2>3. new.result = row[e].result /\ new.status = row[e].status
    BY <1>3, <2>2 DEF Rows
  <2> QED BY <1>3, <2>1, <2>2, <2>3, UpdateKeeps DEF Exists
<1>7. CASE RecordPair
  <2> DEFINE new == [row[e] EXCEPT !.pairs = worker.n, !.ckpt = CheckpointNow]
  <2>1. worker.pc = "record" /\ Update(e, new)
    BY <1>7 DEF RecordPair
  <2>2. new.result = row[e].result /\ new.status = row[e].status
    BY <1>3, <2>1 DEF Rows
  <2> QED BY <1>3, <2>1, <2>2, UpdateKeeps DEF Exists
<1>8. CASE Aggregate
  <2> DEFINE new == [row[e] EXCEPT !.status = "AGGREGATING"]
  <2>1. worker.pc = "aggregate" /\ Update(e, new)
    BY <1>8 DEF Aggregate
  <2>2. new.result = row[e].result /\ new.status # "DELETED"
    BY <1>3, <2>1 DEF Rows
  <2> QED BY <1>3, <2>1, <2>2, UpdateKeeps
<1>9. CASE FinishCancelled
  <2> DEFINE new == [row[e] EXCEPT !.status = "CANCELLED", !.pairs = worker.n,
                                   !.ckpt = NoCheckpoint]
  <2>1. worker.pc = "cancelled" /\ Update(e, new)
    BY <1>9 DEF FinishCancelled
  <2>2. new.result = row[e].result /\ new.status # "DELETED"
    BY <1>3, <2>1 DEF Rows
  <2> QED BY <1>3, <2>1, <2>2, UpdateKeeps
<1>10. CASE FinishFailed
  <2> DEFINE s == IF worker.pc = "failFinal" THEN "FAILED_FINAL" ELSE "FAILED_RETRYABLE"
             new == [row[e] EXCEPT !.status = s]
  <2>1. worker.pc # "idle" /\ Update(e, new)
    BY <1>10 DEF FinishFailed
  <2>2. s # "DELETED"
    OBVIOUS
  <2> HIDE DEF s
  <2>3. new.result = row[e].result /\ new.status # "DELETED"
    BY <1>3, <2>1, <2>2 DEF Rows
  <2> QED BY <1>3, <2>1, <2>3, UpdateKeeps
<1> QED BY <1>2, <1>4, <1>5, <1>6, <1>7, <1>8, <1>9, <1>10 DEF WorkerStep

\* the handlers that write a row and delete none
LEMMA StartClaimStutters ==
    ASSUME IInv, NEW e \in Experiments, StartClaim(e) PROVE outcomes' = outcomes
<1> DEFINE p == IF row[e].status = "READY" THEN 0 ELSE row[e].pairs
           k == IF row[e].status = "READY" THEN NoCheckpoint ELSE row[e].ckpt
           new == [row[e] EXCEPT !.status = "QUEUED", !.cancel = FALSE,
                                 !.pairs = p, !.ckpt = k]
<1>1. row' = [row EXCEPT ![e] = new] /\ Exists(e) /\ row[e] \in Rows
  BY DEF StartClaim, Reachable, IInv, TypeOK
<1>2. new.result = row[e].result /\ new.status # "DELETED"
  <2> HIDE DEF p, k
  <2> QED BY <1>1 DEF Rows
<1> HIDE DEF new
<1> QED BY <1>1, <1>2, UpdateKeeps DEF Update

LEMMA CancelWriteStutters ==
    ASSUME IInv, CancelWrite PROVE outcomes' = outcomes
<1> DEFINE e == handler.exp
           s == IF handler.seen = "READY" THEN "CANCELLED" ELSE "CANCEL_REQUESTED"
           new == [row[e] EXCEPT !.status = s, !.cancel = TRUE]
<1>1. Update(e, new) /\ e \in Experiments /\ row[e] \in Rows
  BY DEF CancelWrite, IInv, HandlerOK, TypeOK
<1>2. s # "DELETED"
  OBVIOUS
<1>3. new.result = row[e].result /\ new.status # "DELETED"
  <2> HIDE DEF s
  <2> QED BY <1>1, <1>2 DEF Rows
<1> HIDE DEF new, e
<1> QED BY <1>1, <1>3, UpdateKeeps

LEMMA InvalidateStutters ==
    ASSUME IInv, NEW e \in Experiments, Invalidate(e) PROVE outcomes' = outcomes
<1> DEFINE new == [row[e] EXCEPT !.status = "INVALIDATED"]
<1>1. row' = [row EXCEPT ![e] = new] /\ Exists(e) /\ row[e] \in Rows
  BY DEF Invalidate, Reachable, IInv, TypeOK
<1>2. new.result = row[e].result /\ new.status # "DELETED"
  BY <1>1 DEF Rows
<1> QED BY <1>1, <1>2, UpdateKeeps DEF Update

LEMMA RegisterStep ==
    IInv /\ [Next]_vars => [Register!Next]_outcomes
<1> SUFFICES ASSUME IInv, [Next]_vars PROVE Register!Next \/ outcomes' = outcomes
  OBVIOUS
<1>0. row' = row => outcomes' = outcomes
  BY KeptStutters DEF Kept
<1>1. CASE \E e \in Experiments :
             Create(e) \/ StartClaim(e) \/ CancelRead(e) \/ Invalidate(e)
  <2>1. PICK e \in Experiments :
          Create(e) \/ StartClaim(e) \/ CancelRead(e) \/ Invalidate(e)
    BY <1>1
  <2>2. CancelRead(e) => outcomes' = outcomes
    BY <1>0 DEF CancelRead
  <2> QED BY <2>1, <2>2, CreateErases, StartClaimStutters, InvalidateStutters
          DEF Register!Next
<1>2. CASE \E u \in Users : DeleteAccount(u)
  BY <1>2, DeleteAccountErases DEF Register!Next
<1>3. CASE HandlerStep \/ StartSubmitRaises
  BY <1>0, <1>3, CancelWriteStutters DEF HandlerStep, StartSubmit, StartSubmitRaises
<1>4. CASE WorkerStep
  <2>1. CASE Publish
    BY <2>1, PublishPublishes DEF Register!Next
  <2>2. CASE ~Publish
    BY <1>4, <2>2, WorkerStutters
  <2> QED BY <2>1, <2>2
<1>5. CASE Raise \/ Shutdown
  BY <1>0, <1>5 DEF Raise, Shutdown
<1>6. CASE Restart
  BY <1>6, RestartErases DEF Register!Next
<1>7. CASE UNCHANGED vars
  BY <1>0, <1>7 DEF vars
<1> QED BY <1>1, <1>2, <1>3, <1>4, <1>5, <1>6, <1>7 DEF Next

\* The service implements the register of results: whatever is interleaved with
\* a run, its result is published at most once, is never replaced, and only a
\* deletion takes it away.
THEOREM ServiceImplementsRegister == Spec => ImplementsRegister
<1>1. Init => Register!Init
  BY DEF Init, Register!Init, Outcome, NewRow
<1>2. IInv /\ [Next]_vars => [Register!Next]_outcomes
  BY RegisterStep
<1> QED BY <1>1, <1>2, InvariantHolds, PTL DEF Spec, ImplementsRegister, Register!Spec, outcomes

-----------------------------------------------------------------------------
(* What an experiment is owed between two runs and from one step to the     *)
(* next.                                                                    *)

\* a run that goes on, now or later, finds a checkpoint for what it completed
Covered(e) ==
    (/\ e \notin overwritten
     /\ row[e].status \in ActiveStatuses \cup {"FAILED_RETRYABLE"}
     /\ row[e].pairs > 0)
        => row[e].ckpt # NoCheckpoint

\* a run about to be written off as cancelled has its row's pairs in memory
CancelledCounts ==
    worker.pc = "cancelled" /\ Exists(worker.exp) => row[worker.exp].pairs = worker.n

\* only an exception takes a settled run to another closing status
FailsOnce ==
    worker.pc = "failFinal" /\ row[worker.exp].status \in FinalStatuses => faults > 0

RInv ==
    /\ NoLostRun
    /\ \A e \in Experiments : Covered(e)
    /\ CancelledCounts
    /\ FailsOnce

\* a cancel under way read an unsettled row
SeenOpen == handler.op = "cancel" => handler.seen \notin FinalStatuses

\* the step of SettledUnlessLateCancel
SettledStep ==
    \A e \in Experiments :
        row[e].status \in FinalStatuses /\ row'[e].status # row[e].status =>
            \/ row'[e].status = "DELETED"
            \/ row[e].status = "COMPLETED" /\ row'[e].status = "INVALIDATED"
            \/ /\ handler.op = "cancel" /\ handler.exp = e
               /\ handler.seen \notin FinalStatuses
            \/ faults' > 0

Promise == RInv' /\ RetentionSparesRunning /\ PairsNeverLost /\ SettledStep

-----------------------------------------------------------------------------
(* Steps that write no row.                                                 *)

LEMMA QuietStep ==
    ASSUME IInv, RInv, row' = row, overwritten' = overwritten,
           NoLostRun', CancelledCounts', FailsOnce'
    PROVE  Promise
<1>1. \A e \in Experiments : row[e].pairs \in Nat
  BY DEF IInv, TypeOK, Rows
<1>2. RetentionSparesRunning /\ PairsNeverLost /\ SettledStep
  BY <1>1 DEF RetentionSparesRunning, PairsNeverLost, SettledStep, Exists
<1>3. \A e \in Experiments : Covered(e)'
  BY DEF RInv, Covered
<1> QED BY <1>2, <1>3 DEF Promise, RInv

\* a thread that stays at work, or is where no row waits for it
LEMMA QuietWorkerStep ==
    ASSUME IInv, RInv, UNCHANGED <<row, queue, handler, accepting, overwritten>>,
           worker'.exp = worker.exp, faults' \in Nat, faults' = 0 => faults = 0,
           worker.pc \in RunPcs \cup ClosingPcs =>
              worker'.pc \in RunPcs \cup ClosingPcs \/ faults' > 0,
           CancelledCounts', FailsOnce'
    PROVE  Promise
<1>1. NoLostRun'
  <2> SUFFICES ASSUME faults' = 0, accepting', NEW e \in Experiments,
                      row[e].status \in ActiveStatuses \ {"CANCEL_REQUESTED"}
               PROVE  \/ InQueue(e)'
                      \/ worker'.exp = e /\ worker'.pc \in RunPcs \cup ClosingPcs
                      \/ handler'.op = "submit" /\ handler'.exp = e
    BY DEF NoLostRun
  <2>1. \/ InQueue(e)
        \/ worker.exp = e /\ worker.pc \in RunPcs \cup ClosingPcs
        \/ handler.op = "submit" /\ handler.exp = e
    BY DEF RInv, NoLostRun
  <2> QED BY <2>1 DEF InQueue
<1> QED BY <1>1, QuietStep

LEMMA TakePromise == ASSUME IInv, RInv, Take PROVE Promise
<1>1. /\ worker.pc = "idle" /\ queue # <<>> /\ queue \in Seq(Experiments)
      /\ worker'.pc = "load" /\ worker'.exp = Head(queue) /\ queue' = Tail(queue)
      /\ UNCHANGED <<row, handler, accepting, faults, overwritten>>
  BY DEF Take, IdleWorker, IInv, TypeOK
<1>2. \A e \in Experiments : InQueue(e) => InQueue(e)' \/ worker'.exp = e
  <2> SUFFICES ASSUME NEW e \in Experiments, NEW i \in 1..Len(queue), queue[i] = e, i # 1
               PROVE  \E j \in 1..Len(queue') : queue'[j] = e
    BY <1>1 DEF InQueue
  <2>1. i - 1 \in 1..Len(Tail(queue)) /\ Tail(queue)[i - 1] = queue[i]
    BY <1>1
  <2> QED BY <1>1, <2>1
<1>3. NoLostRun'
  BY <1>1, <1>2 DEF RInv, NoLostRun, RunPcs, ClosingPcs
<1>4. CancelledCounts' /\ FailsOnce'
  BY <1>1 DEF CancelledCounts, FailsOnce
<1> QED BY <1>1, <1>3, <1>4, QuietStep

LEMMA LoadPromise == ASSUME IInv, RInv, Load PROVE Promise
<1>1. /\ worker.pc = "load" /\ worker.exp \in Experiments /\ InUse(worker.exp)
      /\ UNCHANGED <<row, queue, handler, accepting, faults, overwritten>>
      /\ faults \in Nat
  BY LimitAssumption DEF Load, IInv, WorkerOK, RunPcs, TypeOK
<1>2. worker'.exp = worker.exp /\ worker'.pc \in {"failFinal", "resume", "fresh"}
  <2> DEFINE e == worker.exp
             c == row[e].ckpt
             runs == [i \in 1..MaxPairs |-> IF i <= c.pairs THEN pairRows[e][i] ELSE NoCog]
  <2>1. \/ worker' = [worker EXCEPT !.pc = "failFinal"]
        \/ worker' = [worker EXCEPT !.pc = "resume", !.cog = c.cog, !.n = c.pairs,
                                    !.stop = c.stop, !.runs = runs]
        \/ worker' = [worker EXCEPT !.pc = "fresh"]
    BY DEF Load
  <2> HIDE DEF runs, c
  <2>2. worker \in Workers
    BY DEF IInv, TypeOK
  <2> QED BY <2>1, <2>2 DEF Workers
<1>3. CancelledCounts' /\ FailsOnce'
  BY <1>1, <1>2 DEF CancelledCounts, FailsOnce, InUse, ActiveStatuses, FinalStatuses
<1> QED BY <1>1, <1>2, <1>3, QuietWorkerStep DEF RunPcs, ClosingPcs

\* the thread goes on to another program counter, and nothing else happens
LEMMA GotoPromise ==
    ASSUME IInv, RInv, NEW pc \in RunPcs \cup ClosingPcs, Goto(pc),
           UNCHANGED <<row, queue, handler, accepting, overwritten, faults>>,
           pc = "cancelled" /\ Exists(worker.exp) => row[worker.exp].pairs = worker.n,
           pc = "failFinal" => row[worker.exp].status \notin FinalStatuses
    PROVE  Promise
<1>1. worker'.pc = pc /\ worker'.exp = worker.exp /\ worker'.n = worker.n
  BY GotoType DEF IInv
<1>2. CancelledCounts' /\ FailsOnce'
  BY <1>1 DEF CancelledCounts, FailsOnce, Exists
<1>3. faults \in Nat
  BY LimitAssumption DEF IInv, TypeOK
<1> QED BY <1>1, <1>2, <1>3, QuietWorkerStep

LEMMA PollPromise ==
    ASSUME IInv, RInv, NEW here \in {"check", "baseline", "intervention"},
           NEW next \in {"baseline", "intervention", "save"}, Poll(here, next)
    PROVE  Promise
<1> DEFINE pc == IF row[worker.exp].cancel THEN "cancelled" ELSE next
<1>1. /\ worker.pc = here /\ Goto(pc) /\ pc \in RunPcs \cup ClosingPcs
      /\ UNCHANGED <<row, queue, handler, accepting, overwritten, faults>>
  BY DEF Poll, RunPcs, ClosingPcs
<1>2. /\ MemoryOK /\ worker.exp \in Experiments /\ RowOK(worker.exp)
      /\ CheckpointNow \in Checkpoints
  BY <1>1, MemoryType DEF MemoryPcs
<1>3. Exists(worker.exp) => row[worker.exp].pairs = worker.n
  <2> SUFFICES ASSUME Exists(worker.exp) PROVE row[worker.exp].pairs = worker.n
    OBVIOUS
  <2>1. row[worker.exp].ckpt = CheckpointNow /\ CheckpointNow # NoCheckpoint
    BY <1>1, <1>2, NoneAssumption DEF MemoryOK
  <2> QED BY <1>2, <2>1 DEF RowOK, PairsMatch, CheckpointNow
<1>4. pc # "failFinal"
  OBVIOUS
<1> HIDE DEF pc
<1> QED BY <1>1, <1>3, <1>4, GotoPromise

LEMMA PrepareSignalsFailsPromise ==
    ASSUME IInv, RInv, PrepareSignalsFails PROVE Promise
<1>1. PICK pc \in {"failRetryable", "failFinal"} : Goto(pc)
  BY DEF PrepareSignalsFails
<1>2. /\ worker.pc = "cognition" /\ InUse(worker.exp) /\ pc \in RunPcs \cup ClosingPcs
      /\ UNCHANGED <<row, queue, handler, accepting, overwritten, faults>>
  BY DEF PrepareSignalsFails, IInv, WorkerOK, RunPcs, ClosingPcs
<1>3. row[worker.exp].status \notin FinalStatuses
  BY <1>2 DEF InUse, ActiveStatuses, FinalStatuses
<1> QED BY <1>1, <1>2, <1>3, GotoPromise

LEMMA SavePairPromise == ASSUME IInv, RInv, SavePair \/ SavePairFails PROVE Promise
<1>1. CASE SavePair
  <2>1. /\ worker'.exp = worker.exp /\ worker'.pc = "record" /\ faults \in Nat
        /\ UNCHANGED <<row, queue, handler, accepting, overwritten, faults>>
    <3> DEFINE runs == [worker.runs EXCEPT ![worker.n + 1] = worker.cog]
               stop == worker.n + 1 >= StopAt[worker.cog]
    <3>1. worker' = [worker EXCEPT !.pc = "record", !.n = worker.n + 1,
                                   !.runs = runs, !.stop = stop]
      BY <1>1 DEF SavePair
    <3> HIDE DEF runs, stop
    <3> QED BY <1>1, <3>1, LimitAssumption DEF SavePair, IInv, TypeOK, Workers
  <2>2. CancelledCounts' /\ FailsOnce'
    BY <2>1 DEF CancelledCounts, FailsOnce
  <2> QED BY <2>1, <2>2, QuietWorkerStep DEF RunPcs
<1>2. CASE SavePairFails
  <2>1. Goto("failRetryable") /\ "failRetryable" \in RunPcs \cup ClosingPcs
    BY <1>2 DEF SavePairFails, ClosingPcs
  <2> QED BY <1>2, <2>1, GotoPromise DEF SavePairFails
<1> QED BY <1>1, <1>2

LEMMA LoadRepresentativePromise ==
    ASSUME IInv, RInv, LoadRepresentative PROVE Promise
<1>1. PICK pc \in {"failRetryable", "publish"} : Goto(pc)
  BY DEF LoadRepresentative
<1>2. pc \in RunPcs \cup ClosingPcs
  BY DEF RunPcs, ClosingPcs
<1> QED BY <1>1, <1>2, GotoPromise DEF LoadRepresentative

\* the run is closed, an exception is caught, or its future is removed
LEMMA EndOfRunPromise ==
    ASSUME IInv, RInv, CloseRun \/ RemoveFuture \/ Raise PROVE Promise
<1> USE LimitAssumption
<1>1. CASE CloseRun
  <2>1. worker'.exp = worker.exp /\ worker'.pc = "callback"
    BY <1>1, GotoType DEF CloseRun, IInv, TailPcs
  <2>2. CancelledCounts' /\ FailsOnce'
    BY <2>1 DEF CancelledCounts, FailsOnce
  <2>3. worker.pc \notin RunPcs \cup ClosingPcs
    BY <1>1 DEF CloseRun, RunPcs, ClosingPcs
  <2> QED BY <1>1, <2>1, <2>2, <2>3, QuietWorkerStep DEF CloseRun, IInv, TypeOK
<1>2. CASE RemoveFuture
  <2>1. /\ worker'.pc = "idle" /\ worker.pc = "callback"
        /\ UNCHANGED <<row, queue, handler, accepting, overwritten, faults>>
    BY <1>2 DEF RemoveFuture, IdleWorker
  <2>2. CancelledCounts' /\ FailsOnce'
    BY <2>1 DEF CancelledCounts, FailsOnce
  <2>3. NoLostRun'
    BY <2>1 DEF RInv, NoLostRun, InQueue, RunPcs, ClosingPcs
  <2> QED BY <2>1, <2>2, <2>3, QuietStep
<1>3. CASE Raise
  <2>1. faults' > 0 /\ UNCHANGED <<row, queue, handler, accepting, overwritten>>
        /\ faults' \in Nat
    BY <1>3 DEF Raise, IInv, TypeOK
  <2>2. worker'.exp = worker.exp /\ worker'.pc \in {"failFinal", "callback"}
    <3>1. PICK pc \in {"failFinal", "callback"} : Goto(pc)
      BY <1>3 DEF Raise
    <3> QED BY <3>1, GotoType DEF IInv, ClosingPcs, TailPcs
  <2>3. CancelledCounts' /\ FailsOnce'
    BY <2>1, <2>2 DEF CancelledCounts, FailsOnce
  <2> QED BY <2>1, <2>2, <2>3, QuietWorkerStep
<1> QED BY <1>1, <1>2, <1>3

\* the handlers and the process, where they write no row
LEMMA QuietHandlerPromise ==
    ASSUME IInv, RInv,
           StartSubmit \/ StartSubmitRaises \/ Shutdown
              \/ \E e \in Experiments : CancelRead(e)
    PROVE  Promise
<1>1. /\ UNCHANGED <<row, worker, overwritten>> /\ faults' \in Nat /\ faults \in Nat
      /\ faults' >= faults
  BY LimitAssumption DEF StartSubmit, StartSubmitRaises, Shutdown, CancelRead, IInv, TypeOK
<1>2. CancelledCounts' /\ FailsOnce'
  BY <1>1 DEF RInv, CancelledCounts, FailsOnce, Exists
<1>3. NoLostRun'
  <2>1. CASE StartSubmit
    <3>1. /\ handler.op = "submit" /\ handler.exp \in Experiments
          /\ queue' = Append(queue, handler.exp) /\ queue \in Seq(Experiments)
          /\ UNCHANGED <<accepting, faults>>
      BY <2>1 DEF StartSubmit, IInv, HandlerOK, TypeOK
    <3>2. \A e \in Experiments : InQueue(e) \/ e = handler.exp => InQueue(e)'
      BY <3>1 DEF InQueue
    <3> QED BY <1>1, <3>1, <3>2 DEF RInv, NoLostRun
  <2>2. CASE StartSubmitRaises
    BY <1>1, <2>2 DEF StartSubmitRaises, NoLostRun
  <2>3. CASE Shutdown
    BY <2>3 DEF Shutdown, NoLostRun
  <2>4. CASE \E e \in Experiments : CancelRead(e)
    <3>1. handler.op # "submit" /\ UNCHANGED <<queue, accepting, faults>>
      BY <2>4 DEF CancelRead, HandlerFree, IdleHandler
    <3> QED BY <1>1, <3>1 DEF RInv, NoLostRun, InQueue
  <2> QED BY <2>1, <2>2, <2>3, <2>4
<1> QED BY <1>1, <1>2, <1>3, QuietStep

-----------------------------------------------------------------------------
(* Steps that write rows.                                                   *)

\* the thread writes the row of its experiment, unless it was deleted
LEMMA RunStepPromise ==
    ASSUME IInv, RInv, NEW e \in Experiments, e = worker.exp, worker'.exp = e,
           NEW new \in Rows, Update(e, new), new.status \notin {"NONE", "DELETED"},
           UNCHANGED <<queue, handler, accepting, deletedUsers, faults, overwritten>>,
           worker'.pc \notin {"cancelled", "failFinal"},
           Exists(e) => new.pairs >= row[e].pairs,
           (/\ Exists(e) /\ e \notin overwritten /\ new.pairs > 0
            /\ new.status \in ActiveStatuses \cup {"FAILED_RETRYABLE"})
              => new.ckpt # NoCheckpoint,
           Exists(e) /\ row[e].status \in FinalStatuses => faults > 0,
           \/ worker'.pc \in RunPcs \cup ClosingPcs
           \/ new.status \notin ActiveStatuses
    PROVE  Promise
<1>0. /\ \A x \in Experiments : row[x] \in Rows
      /\ \A x \in Experiments \ {e} : row'[x] = row[x]
      /\ row'[e] = IF Exists(e) THEN new ELSE row[e]
  BY UpdateFacts DEF IInv, TypeOK
<1>1. NoLostRun'
  <2> SUFFICES ASSUME faults' = 0, accepting', NEW x \in Experiments,
                      row'[x].status \in ActiveStatuses \ {"CANCEL_REQUESTED"}
               PROVE  \/ InQueue(x)'
                      \/ worker'.exp = x /\ worker'.pc \in RunPcs \cup ClosingPcs
                      \/ handler'.op = "submit" /\ handler'.exp = x
    BY DEF NoLostRun
  <2>1. CASE x = e
    BY <1>0, <2>1 DEF Exists, ActiveStatuses
  <2>2. CASE x # e
    BY <1>0, <2>2 DEF RInv, NoLostRun, InQueue
  <2> QED BY <2>1, <2>2
<1>2. \A x \in Experiments : Covered(x)'
  <2> TAKE x \in Experiments
  <2>1. CASE x = e
    BY <1>0, <2>1 DEF Covered, Exists, ActiveStatuses
  <2>2. CASE x # e
    BY <1>0, <2>2 DEF RInv, Covered
  <2> QED BY <2>1, <2>2
<1>3. CancelledCounts' /\ FailsOnce'
  BY DEF CancelledCounts, FailsOnce
<1>4. RetentionSparesRunning
  BY <1>0 DEF RetentionSparesRunning, Exists
<1>5. PairsNeverLost
  BY <1>0 DEF PairsNeverLost, Rows
<1>6. SettledStep
  BY <1>0 DEF SettledStep, Exists, FinalStatuses
<1> QED BY <1>1, <1>2, <1>3, <1>4, <1>5, <1>6 DEF Promise, RInv

\* where the thread holds a checkpoint, its row has the pairs it has in memory
LEMMA MemoryPairs ==
    ASSUME IInv, worker.pc \in MemoryPcs, worker.pc # "record", Exists(worker.exp)
    PROVE  /\ row[worker.exp].pairs = worker.n
           /\ row[worker.exp].ckpt = CheckpointNow /\ CheckpointNow # NoCheckpoint
<1>1. MemoryOK /\ RowOK(worker.exp) /\ CheckpointNow \in Checkpoints
  BY MemoryType
<1>2. row[worker.exp].ckpt = CheckpointNow /\ CheckpointNow # NoCheckpoint
  BY <1>1, NoneAssumption DEF MemoryOK
<1> QED BY <1>1, <1>2 DEF RowOK, PairsMatch, CheckpointNow

\* a run under way is not settled
LEMMA RunningFacts ==
    ASSUME IInv, worker.pc \in RunPcs \cup {"cancelled", "failRetryable"}
    PROVE  /\ worker.exp \in Experiments /\ row[worker.exp] \in Rows
           /\ row[worker.exp].status \notin FinalStatuses
           /\ Exists(worker.exp) => row[worker.exp].status \in ActiveStatuses
           /\ worker.n \in 0..MaxPairs
<1>1. worker.exp \in Experiments /\ InUse(worker.exp)
  BY DEF IInv, WorkerOK, RunPcs
<1> QED BY <1>1 DEF IInv, TypeOK, Workers, InUse, Exists, ActiveStatuses, FinalStatuses

LEMMA StartRunPromise == ASSUME IInv, RInv, Resume \/ Fresh PROVE Promise
<1> DEFINE e == worker.exp
<1>1. /\ worker.pc \in {"resume", "fresh"} /\ worker.pc \in RunPcs
      /\ UNCHANGED <<queue, handler, accepting, deletedUsers, faults, overwritten>>
  BY DEF Resume, Fresh, RunPcs
<1>2. /\ e \in Experiments /\ row[e] \in Rows /\ row[e].status \notin FinalStatuses
      /\ worker.n \in 0..MaxPairs
  BY <1>1, RunningFacts
<1>3. CASE Resume
  <2> DEFINE new == [row[e] EXCEPT !.status = "RUNNING", !.pairs = worker.n,
                                   !.ckpt = CheckpointNow]
             pc == IF worker.stop THEN "aggregate" ELSE "check"
  <2>1. Update(e, new) /\ Goto(pc) /\ worker.pc = "resume"
    BY <1>3 DEF Resume
  <2>2. CheckpointNow \in Checkpoints /\ CheckpointNow # NoCheckpoint
    BY <2>1, MemoryType, NoneAssumption DEF MemoryPcs
  <2>3. /\ new \in Rows /\ new.status = "RUNNING" /\ new.pairs = worker.n
        /\ new.ckpt = CheckpointNow
    BY <1>2, <2>2 DEF Rows, Statuses, ActiveStatuses
  <2>4. Exists(e) => new.pairs >= row[e].pairs
    BY <1>2, <2>1, <2>3, MemoryPairs DEF MemoryPcs
  <2>5. pc \in {"aggregate", "check"}
    OBVIOUS
  <2> HIDE DEF new, pc
  <2>6. worker'.pc \in {"aggregate", "check"} /\ worker'.exp = e
    BY <2>1, <2>5, GotoType DEF IInv, RunPcs
  <2> QED
    BY <1>1, <1>2, <2>1, <2>2, <2>3, <2>4, <2>6, RunStepPromise DEF RunPcs
<1>4. CASE Fresh
  <2> DEFINE new == [row[e] EXCEPT !.status = "RUNNING", !.pairs = 0]
  <2>1. Update(e, new) /\ Goto("cognition") /\ worker.pc = "fresh"
    BY <1>4 DEF Fresh
  <2>2. Exists(e) => row[e].pairs = 0
    BY <2>1 DEF IInv, WorkerOK
  <2>3. new \in Rows /\ new.status = "RUNNING" /\ new.pairs = 0
    <3>1. 0 \in 0..MaxPairs /\ "RUNNING" \in Statuses
      BY PairsAssumption DEF Statuses, ActiveStatuses
    <3> QED BY <1>2, <3>1 DEF Rows
  <2> HIDE DEF new
  <2>4. worker'.pc = "cognition" /\ worker'.exp = e
    BY <2>1, GotoType DEF IInv, RunPcs
  <2> QED BY <1>1, <1>2, <2>1, <2>2, <2>3, <2>4, RunStepPromise DEF RunPcs
<1> QED BY <1>3, <1>4

LEMMA PrepareSignalsPromise == ASSUME IInv, RInv, PrepareSignals PROVE Promise
<1> DEFINE e == worker.exp
<1>1. /\ worker.pc = "cognition" /\ worker.pc \in RunPcs
      /\ UNCHANGED <<queue, handler, accepting, deletedUsers, faults, overwritten>>
  BY DEF PrepareSignals, RunPcs
<1>2. /\ e \in Experiments /\ row[e] \in Rows /\ row[e].status \notin FinalStatuses
      /\ Exists(e) => row[e].status \in ActiveStatuses
  BY <1>1, RunningFacts
<1>3. PICK c \in Cognitions :
        /\ worker' = [worker EXCEPT !.pc = "check", !.cog = c]
        /\ Update(e, [row[e] EXCEPT !.ckpt = [pairs |-> 0, cog |-> c, stop |-> FALSE]])
  BY DEF PrepareSignals
<1> DEFINE k == [pairs |-> 0, cog |-> c, stop |-> FALSE]
           new == [row[e] EXCEPT !.ckpt = k]
<1>4. k \in Checkpoints /\ k # NoCheckpoint
  <2>1. k \in Checkpoints
    BY PairsAssumption DEF Checkpoints
  <2> QED BY <2>1, NoneAssumption
<1>5. worker'.pc = "check" /\ worker'.exp = e
  BY <1>3 DEF IInv, TypeOK, Workers
<1> HIDE DEF k
<1>6. /\ new \in Rows /\ new.ckpt = k /\ new.pairs = row[e].pairs
      /\ new.status = row[e].status
  BY <1>2, <1>4 DEF Rows
<1>7. Update(e, new)
  BY <1>3 DEF k
<1> HIDE DEF new
<1>8. CASE Exists(e)
  <2>1. new.status \notin {"NONE", "DELETED"} /\ new.pairs >= row[e].pairs
    BY <1>2, <1>6, <1>8 DEF Exists, Rows
  <2> QED BY <1>1, <1>2, <1>4, <1>5, <1>6, <1>7, <2>1, RunStepPromise DEF RunPcs
<1>9. CASE ~Exists(e)
  <2>1. row' = row
    BY <1>7, <1>9 DEF Update
  <2>2. CancelledCounts' /\ FailsOnce'
    BY <1>5 DEF CancelledCounts, FailsOnce
  <2>3. faults \in Nat
    BY LimitAssumption DEF IInv, TypeOK
  <2> QED BY <1>1, <1>5, <2>1, <2>2, <2>3, QuietWorkerStep DEF RunPcs
<1> QED BY <1>8, <1>9

LEMMA RecordPairPromise == ASSUME IInv, RInv, RecordPair PROVE Promise
<1> DEFINE e == worker.exp
           new == [row[e] EXCEPT !.pairs = worker.n, !.ckpt = CheckpointNow]
           pc == IF worker.stop THEN "aggregate" ELSE "check"
<1>1. /\ worker.pc = "record" /\ worker.pc \in RunPcs /\ Update(e, new) /\ Goto(pc)
      /\ UNCHANGED <<queue, handler, accepting, deletedUsers, faults, overwritten>>
  BY DEF RecordPair, RunPcs
<1>2. /\ e \in Experiments /\ row[e] \in Rows /\ row[e].status \notin FinalStatuses
      /\ worker.n \in 0..MaxPairs
  BY <1>1, RunningFacts
<1>3. /\ CheckpointNow \in Checkpoints /\ CheckpointNow # NoCheckpoint
      /\ MemoryOK /\ RowOK(e)
  BY <1>1, MemoryType, NoneAssumption DEF MemoryPcs
<1>4. /\ new \in Rows /\ new.status = row[e].status /\ new.pairs = worker.n
      /\ new.ckpt = CheckpointNow
  BY <1>2, <1>3 DEF Rows
<1>5. pc \in {"aggregate", "check"}
  OBVIOUS
<1> HIDE DEF new, pc
<1>6. worker'.pc \in {"aggregate", "check"} /\ worker'.exp = e
  BY <1>1, <1>5, GotoType DEF IInv, RunPcs
<1>7. CASE Exists(e)
  <2> DEFINE before == [pairs |-> worker.n - 1, cog |-> worker.cog, stop |-> FALSE]
  <2>1. row[e].ckpt = before /\ worker.n > 0 /\ worker.cog \in Cognitions
    BY <1>1, <1>3, <1>7 DEF MemoryOK
  <2>2. before \in Checkpoints /\ before.pairs = worker.n - 1
    <3>1. worker.n - 1 \in 0..MaxPairs
      BY <1>2, <2>1, PairsAssumption
    <3> QED BY <2>1, <3>1 DEF Checkpoints
  <2> HIDE DEF before
  <2>3. row[e].pairs = worker.n - 1
    BY <1>3, <2>1, <2>2, NoneAssumption DEF RowOK, PairsMatch
  <2>4. new.status \notin {"NONE", "DELETED"} /\ new.pairs >= row[e].pairs
    BY <1>2, <1>4, <1>7, <2>3 DEF Exists
  <2> QED BY <1>1, <1>2, <1>3, <1>4, <1>6, <2>4, RunStepPromise DEF RunPcs
<1>8. CASE ~Exists(e)
  <2>1. row' = row
    BY <1>1, <1>8 DEF Update
  <2>2. CancelledCounts' /\ FailsOnce'
    BY <1>6 DEF CancelledCounts, FailsOnce
  <2>3. faults \in Nat
    BY LimitAssumption DEF IInv, TypeOK
  <2> QED BY <1>1, <1>6, <2>1, <2>2, <2>3, QuietWorkerStep DEF RunPcs
<1> QED BY <1>7, <1>8

LEMMA AggregatePromise == ASSUME IInv, RInv, Aggregate PROVE Promise
<1> DEFINE e == worker.exp
           new == [row[e] EXCEPT !.status = "AGGREGATING"]
<1>1. /\ worker.pc = "aggregate" /\ worker.pc \in RunPcs /\ Update(e, new)
      /\ Goto("represent")
      /\ UNCHANGED <<queue, handler, accepting, deletedUsers, faults, overwritten>>
  BY DEF Aggregate, RunPcs
<1>2. e \in Experiments /\ row[e] \in Rows /\ row[e].status \notin FinalStatuses
  BY <1>1, RunningFacts
<1>3. /\ new \in Rows /\ new.status = "AGGREGATING" /\ new.pairs = row[e].pairs
      /\ new.ckpt = row[e].ckpt
  BY <1>2 DEF Rows, Statuses, ActiveStatuses
<1>4. Exists(e) => row[e].ckpt # NoCheckpoint
  BY <1>1, MemoryPairs DEF MemoryPcs
<1> HIDE DEF new
<1>5. worker'.pc = "represent" /\ worker'.exp = e
  BY <1>1, GotoType DEF IInv, RunPcs
<1>6. new.pairs >= row[e].pairs
  BY <1>2, <1>3 DEF Rows
<1> QED BY <1>1, <1>2, <1>3, <1>4, <1>5, <1>6, RunStepPromise DEF RunPcs

\* the closing writes of a run that ended
LEMMA EndRunPromise == ASSUME IInv, RInv, Publish \/ FinishCancelled PROVE Promise
<1> DEFINE e == worker.exp
<1>1. /\ worker.pc \in {"publish", "cancelled"} /\ Goto("audit")
      /\ worker.pc \in RunPcs \cup {"cancelled", "failRetryable"}
      /\ UNCHANGED <<queue, handler, accepting, deletedUsers, faults, overwritten>>
  BY DEF Publish, FinishCancelled, RunPcs
<1>2. /\ e \in Experiments /\ row[e] \in Rows /\ row[e].status \notin FinalStatuses
      /\ worker.n \in 0..MaxPairs
  BY <1>1, RunningFacts
<1>3. worker'.pc = "audit" /\ worker'.exp = e
  BY <1>1, GotoType DEF IInv, TailPcs
<1>4. Exists(e) => row[e].pairs = worker.n
  BY <1>1, MemoryPairs DEF MemoryPcs, RInv, CancelledCounts
<1>5. CASE Publish
  <2> DEFINE result == [cog |-> worker.cog, pairs |-> worker.n, runs |-> worker.runs]
             new == [row[e] EXCEPT !.status = "COMPLETED", !.pairs = worker.n,
                                   !.ckpt = NoCheckpoint, !.result = result]
  <2>1. Update(e, new) /\ worker.pc = "publish"
    BY <1>5 DEF Publish
  <2>2. result \in Results
    BY <1>2, <2>1, MemoryType DEF MemoryPcs, Results
  <2> HIDE DEF result
  <2>3. new \in Rows /\ new.status = "COMPLETED" /\ new.pairs = worker.n
    BY <1>2, <2>2 DEF Rows, Statuses, PrunableStatuses, FinalStatuses
  <2> HIDE DEF new
  <2>4. Exists(e) => new.pairs >= row[e].pairs
    BY <1>2, <1>4, <2>3 DEF Rows
  <2> QED BY <1>1, <1>2, <1>3, <2>1, <2>3, <2>4, RunStepPromise DEF ActiveStatuses
<1>6. CASE FinishCancelled
  <2> DEFINE new == [row[e] EXCEPT !.status = "CANCELLED", !.pairs = worker.n,
                                   !.ckpt = NoCheckpoint]
  <2>1. Update(e, new)
    BY <1>6 DEF FinishCancelled
  <2>2. new \in Rows /\ new.status = "CANCELLED" /\ new.pairs = worker.n
    BY <1>2 DEF Rows, Statuses, PrunableStatuses, FinalStatuses
  <2> HIDE DEF new
  <2>3. Exists(e) => new.pairs >= row[e].pairs
    BY <1>2, <1>4, <2>2 DEF Rows
  <2> QED BY <1>1, <1>2, <1>3, <2>1, <2>2, <2>3, RunStepPromise DEF ActiveStatuses
<1> QED BY <1>5, <1>6

LEMMA FinishFailedPromise == ASSUME IInv, RInv, FinishFailed PROVE Promise
<1> DEFINE e == worker.exp
           s == IF worker.pc = "failFinal" THEN "FAILED_FINAL" ELSE "FAILED_RETRYABLE"
           new == [row[e] EXCEPT !.status = s]
<1>1. /\ worker.pc \in {"failRetryable", "failFinal"} /\ Update(e, new) /\ Goto("auditFail")
      /\ UNCHANGED <<queue, handler, accepting, deletedUsers, faults, overwritten>>
  BY DEF FinishFailed
<1>2. e \in Experiments /\ row[e] \in Rows
  BY <1>1 DEF IInv, WorkerOK, TypeOK
<1>3. /\ s \in {"FAILED_FINAL", "FAILED_RETRYABLE"}
      /\ worker.pc = "failFinal" => s = "FAILED_FINAL"
  OBVIOUS
<1> HIDE DEF s
<1>4. /\ new \in Rows /\ new.status = s /\ new.pairs = row[e].pairs
      /\ new.ckpt = row[e].ckpt
  BY <1>2, <1>3 DEF Rows, Statuses, PrunableStatuses, FinalStatuses, StartableStatuses
<1> HIDE DEF new
<1>5. worker'.pc = "auditFail" /\ worker'.exp = e
  BY <1>1, GotoType DEF IInv, TailPcs
<1>6. /\ new.pairs >= row[e].pairs
      /\ row[e].status \in FinalStatuses => faults > 0
  BY <1>1, <1>2, <1>4, RunningFacts DEF Rows, RInv, FailsOnce
<1>7. s = "FAILED_RETRYABLE" /\ Exists(e) => row[e].status \in ActiveStatuses
  BY <1>1, <1>3, RunningFacts
<1>8. (/\ Exists(e) /\ e \notin overwritten /\ new.pairs > 0
       /\ new.status \in ActiveStatuses \cup {"FAILED_RETRYABLE"})
         => new.ckpt # NoCheckpoint
  BY <1>2, <1>3, <1>4, <1>7 DEF RInv, Covered, ActiveStatuses
<1>9. s \notin ActiveStatuses /\ s \notin {"NONE", "DELETED"}
  BY <1>3 DEF ActiveStatuses
<1> QED BY <1>1, <1>2, <1>4, <1>5, <1>6, <1>8, <1>9, RunStepPromise

-----------------------------------------------------------------------------
(* The handlers and the process, where they write rows.                     *)

\* rows come or go, and the rest stay: what is gone was settled, or its owner went,
\* or its run went with the process
LEMMA ErasePromise ==
    ASSUME IInv, RInv,
           \A x \in Experiments :
              row'[x] = row[x] \/ row'[x] = NewRow("DELETED")
                 \/ (row'[x] = NewRow("READY") /\ row[x].status = "NONE"),
           \A x \in Experiments : row'[x] = NewRow("DELETED") /\ InFlight(x) /\ Exists(x)
              => Owner[x] \in deletedUsers',
           UNCHANGED <<queue, worker, handler, accepting, faults, overwritten>>
    PROVE  Promise
<1>1. \A x \in Experiments : row[x].pairs \in Nat /\ row[x].status \in Statuses
  BY DEF IInv, TypeOK, Rows
<1>2. /\ NewRow("DELETED").status = "DELETED" /\ NewRow("READY").status = "READY"
      /\ NewRow("DELETED").pairs = 0 /\ NewRow("READY").pairs = 0
  BY DEF NewRow
<1>3. NoLostRun'
  BY <1>2 DEF RInv, NoLostRun, InQueue, ActiveStatuses
<1>4. \A x \in Experiments : Covered(x)'
  BY <1>2 DEF RInv, Covered
<1>5. worker.pc \in {"cancelled", "failFinal"} => worker.exp \in Experiments
  BY DEF IInv, WorkerOK
<1>6. CancelledCounts' /\ FailsOnce'
  <2>1. worker.pc = "cancelled" => row[worker.exp].status # "NONE"
    BY RunningFacts DEF IInv, WorkerOK, InUse, ActiveStatuses
  <2> QED BY <1>2, <1>5, <2>1 DEF RInv, CancelledCounts, FailsOnce, Exists, FinalStatuses
<1>7. RetentionSparesRunning
  BY <1>2 DEF RetentionSparesRunning, Exists
<1>8. PairsNeverLost
  BY <1>1, <1>2 DEF PairsNeverLost, Exists
<1>9. SettledStep
  BY <1>1, <1>2 DEF SettledStep, FinalStatuses
<1> QED BY <1>3, <1>4, <1>6, <1>7, <1>8, <1>9 DEF Promise, RInv

LEMMA CreatePromise == ASSUME IInv, RInv, NEW e \in Experiments, Create(e) PROVE Promise
<1>1. PICK gone \in SUBSET Prunable :
        \E room \in BOOLEAN : row' = [x \in Experiments |->
                            IF x \in gone THEN NewRow("DELETED")
                            ELSE IF x = e /\ room THEN NewRow("READY") ELSE row[x]]
  BY DEF Create
<1>2. /\ row[e].status = "NONE" /\ gone \in SUBSET Experiments
      /\ UNCHANGED <<queue, worker, handler, accepting, faults, overwritten>>
  BY <1>1 DEF Create, Prunable
<1>3. ASSUME NEW x \in Experiments, InFlight(x), Exists(x)
      PROVE  row[x].status \notin PrunableStatuses
  <2>1. worker.pc \in RunPcs \cup {"cancelled", "failRetryable"} /\ worker.exp = x
    BY <1>3 DEF InFlight
  <2> QED BY <1>3, <2>1, RunningFacts
          DEF ActiveStatuses, PrunableStatuses, FinalStatuses, StartableStatuses
<1>4. ASSUME NEW x \in Experiments, row'[x] = NewRow("DELETED"), InFlight(x), Exists(x)
      PROVE  FALSE
  <2>1. x \notin gone
    BY <1>3, <1>4 DEF Prunable
  <2> QED BY <1>1, <1>4, <2>1 DEF NewRow, Exists
<1>5. \A x \in Experiments :
        row'[x] = row[x] \/ row'[x] = NewRow("DELETED")
           \/ (row'[x] = NewRow("READY") /\ row[x].status = "NONE")
  <2> TAKE x \in Experiments
  <2>1. CASE x \in gone
    BY <1>1, <2>1
  <2>2. CASE x \notin gone
    <3>1. row'[x] = row[x] \/ (x = e /\ row'[x] = NewRow("READY"))
      BY <1>1, <2>2
    <3> QED BY <1>2, <3>1
  <2> QED BY <2>1, <2>2
<1>6. \A x \in Experiments : row'[x] = NewRow("DELETED") /\ InFlight(x) /\ Exists(x)
        => Owner[x] \in deletedUsers'
  BY <1>4
<1> QED BY <1>2, <1>5, <1>6, ErasePromise

LEMMA DeleteAccountPromise ==
    ASSUME IInv, RInv, NEW u \in Users, DeleteAccount(u) PROVE Promise
<1>1. /\ row' = [x \in Experiments |-> IF x \in OwnedBy(u) THEN NewRow("DELETED") ELSE row[x]]
      /\ UNCHANGED <<queue, worker, handler, accepting, faults, overwritten>>
      /\ deletedUsers' = deletedUsers \cup {u}
  BY DEF DeleteAccount, DeleteRows
<1>2. ASSUME NEW x \in Experiments, row'[x] = NewRow("DELETED"), Exists(x)
      PROVE  Owner[x] \in deletedUsers'
  <2>1. x \in OwnedBy(u)
    BY <1>1, <1>2 DEF NewRow, Exists
  <2> QED BY <1>1, <2>1 DEF OwnedBy
<1>3. \A x \in Experiments : row'[x] = row[x] \/ row'[x] = NewRow("DELETED")
  BY <1>1
<1>4. \A x \in Experiments : row'[x] = NewRow("DELETED") /\ InFlight(x) /\ Exists(x)
        => Owner[x] \in deletedUsers'
  BY <1>2
<1> QED BY <1>1, <1>3, <1>4, ErasePromise

\* a handler writes the row of e, which the thread does not hold or goes on with
LEMMA HandlerStepPromise ==
    ASSUME IInv, RInv, NEW e \in Experiments, NEW new \in Rows,
           row' = [row EXCEPT ![e] = new], new.status \notin {"NONE", "DELETED"},
           UNCHANGED <<queue, worker, accepting, faults>>,
           overwritten \subseteq overwritten',
           new.pairs >= row[e].pairs,
           (/\ e \notin overwritten' /\ new.pairs > 0
            /\ new.status \in ActiveStatuses \cup {"FAILED_RETRYABLE"})
              => new.ckpt # NoCheckpoint,
           worker.pc = "cancelled" /\ worker.exp = e => new.pairs = row[e].pairs /\ Exists(e),
           worker.pc = "failFinal" /\ worker.exp = e /\ new.status \in FinalStatuses
              => row[e].status \in FinalStatuses,
           NoLostRun', SettledStep
    PROVE  Promise
<1>1. /\ \A x \in Experiments : row[x] \in Rows
      /\ \A x \in Experiments : row'[x] = IF x = e THEN new ELSE row[x]
  BY DEF IInv, TypeOK
<1>2. \A x \in Experiments : Covered(x)'
  <2> TAKE x \in Experiments
  <2>1. CASE x = e
    BY <1>1, <2>1 DEF Covered
  <2>2. CASE x # e
    BY <1>1, <2>2 DEF RInv, Covered
  <2> QED BY <2>1, <2>2
<1>3. worker.pc \in {"cancelled", "failFinal"} => worker.exp \in Experiments
  BY DEF IInv, WorkerOK
<1>4. CancelledCounts' /\ FailsOnce'
  BY <1>1, <1>3 DEF RInv, CancelledCounts, FailsOnce, Exists
<1>5. RetentionSparesRunning
  BY <1>1 DEF RetentionSparesRunning, Exists
<1>6. PairsNeverLost
  BY <1>1 DEF PairsNeverLost, Rows
<1> QED BY <1>2, <1>4, <1>5, <1>6 DEF Promise, RInv

\* a row that is ready is as new
LEMMA ReadyRow ==
    ASSUME IInv, NEW e \in Experiments, row[e].status = "READY"
    PROVE  row[e].pairs = 0 /\ row[e].ckpt = NoCheckpoint
<1>1. row[e] = NewRow("READY")
  BY DEF IInv, RowOK
<1> QED BY <1>1 DEF NewRow

LEMMA StartClaimPromise ==
    ASSUME IInv, RInv, NEW e \in Experiments, StartClaim(e) PROVE Promise
<1> DEFINE p == IF row[e].status = "READY" THEN 0 ELSE row[e].pairs
           k == IF row[e].status = "READY" THEN NoCheckpoint ELSE row[e].ckpt
           new == [row[e] EXCEPT !.status = "QUEUED", !.cancel = FALSE,
                                 !.pairs = p, !.ckpt = k]
<1>1. /\ row' = [row EXCEPT ![e] = new] /\ row[e].status \in {"READY", "FAILED_RETRYABLE"}
      /\ row[e] \in Rows /\ handler.op = "idle" /\ Exists(e)
      /\ handler' = [op |-> "submit", exp |-> e, seen |-> row[e].status]
      /\ UNCHANGED <<queue, worker, accepting, faults, overwritten>>
  BY DEF StartClaim, Reachable, StartableStatuses, IInv, TypeOK, HandlerFree, IdleHandler
<1>2. row[e].status = "READY" => row[e].pairs = 0 /\ row[e].ckpt = NoCheckpoint
  BY ReadyRow
<1>3. p = row[e].pairs /\ k = row[e].ckpt
  BY <1>2
<1> HIDE DEF p, k
<1>4. /\ new \in Rows /\ new.status = "QUEUED" /\ new.pairs = row[e].pairs
      /\ new.ckpt = row[e].ckpt
  BY <1>1, <1>3 DEF Rows, Statuses, ActiveStatuses
<1> HIDE DEF new
<1>5. worker.exp = e => worker.pc # "cancelled"
  <2>1. worker.pc = "cancelled" /\ worker.exp = e => row[e].status \in ActiveStatuses
    BY <1>1, RunningFacts
  <2> QED BY <1>1, <2>1 DEF ActiveStatuses
<1>6. \A x \in Experiments : row'[x] = IF x = e THEN new ELSE row[x]
  BY <1>1 DEF IInv, TypeOK
<1>7. NoLostRun'
  BY <1>1, <1>6 DEF RInv, NoLostRun, InQueue
<1>8. SettledStep
  BY <1>1, <1>6 DEF SettledStep, FinalStatuses
<1>9. e \notin overwritten /\ new.pairs > 0 => new.ckpt # NoCheckpoint
  BY <1>1, <1>2, <1>4 DEF RInv, Covered, Rows
<1>10. new.pairs >= row[e].pairs
  BY <1>1, <1>4 DEF Rows
<1> QED BY <1>1, <1>4, <1>5, <1>7, <1>8, <1>9, <1>10, HandlerStepPromise DEF FinalStatuses

LEMMA InvalidatePromise ==
    ASSUME IInv, RInv, NEW e \in Experiments, Invalidate(e) PROVE Promise
<1> DEFINE new == [row[e] EXCEPT !.status = "INVALIDATED"]
<1>1. /\ row' = [row EXCEPT ![e] = new] /\ row[e].status = "COMPLETED" /\ row[e] \in Rows
      /\ UNCHANGED <<queue, worker, handler, accepting, faults, overwritten>>
  BY DEF Invalidate, IInv, TypeOK
<1>2. new \in Rows /\ new.status = "INVALIDATED" /\ new.pairs = row[e].pairs
  BY <1>1 DEF Rows, Statuses, PrunableStatuses, FinalStatuses
<1> HIDE DEF new
<1>3. \A x \in Experiments : row'[x] = IF x = e THEN new ELSE row[x]
  BY <1>1 DEF IInv, TypeOK
<1>4. NoLostRun'
  BY <1>1, <1>2, <1>3 DEF RInv, NoLostRun, InQueue, ActiveStatuses
<1>5. SettledStep
  BY <1>1, <1>2, <1>3 DEF SettledStep
<1>6. Exists(e) /\ new.pairs >= row[e].pairs
  BY <1>1, <1>2 DEF Exists, Rows
<1> QED BY <1>1, <1>2, <1>4, <1>5, <1>6, HandlerStepPromise DEF ActiveStatuses, FinalStatuses

LEMMA CancelWritePromise ==
    ASSUME IInv, RInv, SeenOpen, CancelWrite PROVE Promise
<1> DEFINE e == handler.exp
           s == IF handler.seen = "READY" THEN "CANCELLED" ELSE "CANCEL_REQUESTED"
           new == [row[e] EXCEPT !.status = s, !.cancel = TRUE]
<1>1. /\ Update(e, new) /\ e \in Experiments /\ row[e] \in Rows /\ handler.op = "cancel"
      /\ handler' = IdleHandler /\ UNCHANGED <<queue, worker, accepting, faults>>
      /\ overwritten' = IF row[e].status \in FinalStatuses
                        THEN overwritten \cup {e} ELSE overwritten
  BY DEF CancelWrite, IInv, HandlerOK, TypeOK
<1>2. /\ s \in {"CANCELLED", "CANCEL_REQUESTED"}
      /\ s = "CANCELLED" => row[e].status = "READY"
  BY <1>1 DEF IInv, HandlerOK
<1> HIDE DEF s
<1>3. /\ new \in Rows /\ new.status = s /\ new.pairs = row[e].pairs
      /\ new.ckpt = row[e].ckpt
  BY <1>1, <1>2 DEF Rows, Statuses, ActiveStatuses, PrunableStatuses, FinalStatuses
<1> HIDE DEF new, e
<1>4. \A x \in Experiments : row'[x] = IF x = e /\ Exists(e) THEN new ELSE row[x]
  BY <1>1 DEF Update, IInv, TypeOK
<1>5. NoLostRun'
  BY <1>1, <1>2, <1>3, <1>4 DEF RInv, NoLostRun, InQueue, ActiveStatuses, IdleHandler
<1>6. SettledStep
  <2>1. handler.exp = e
    BY DEF e
  <2> QED BY <1>1, <1>4, <2>1 DEF SettledStep, SeenOpen
<1>7. worker.exp = e /\ worker.pc = "cancelled" => row[e].status # "READY"
  BY RunningFacts DEF IInv, WorkerOK, InUse, ActiveStatuses
<1>8. worker.exp = e /\ worker.pc = "failFinal" => row[e].status # "READY"
  BY DEF IInv, WorkerOK
<1>9. CASE Exists(e)
  <2>1. row' = [row EXCEPT ![e] = new] /\ new.pairs >= row[e].pairs
    BY <1>1, <1>3, <1>9 DEF Update, Rows
  <2>2. (/\ e \notin overwritten' /\ new.pairs > 0
         /\ new.status \in ActiveStatuses \cup {"FAILED_RETRYABLE"})
           => new.ckpt # NoCheckpoint
    <3>1. row[e].status = "READY" => row[e].pairs = 0
      BY <1>1, ReadyRow
    <3>2. row[e].status \in FinalStatuses => e \in overwritten'
      BY <1>1
    <3>3. row[e].status \in FinalStatuses \cup ActiveStatuses \cup {"READY", "FAILED_RETRYABLE"}
      BY <1>1, <1>9 DEF Exists, Rows, Statuses, PrunableStatuses, StartableStatuses
    <3>4. e \notin overwritten' => e \notin overwritten
      BY <1>1
    <3> QED BY <1>1, <1>3, <3>1, <3>2, <3>3, <3>4 DEF RInv, Covered
  <2>3. worker.pc = "failFinal" /\ worker.exp = e /\ new.status \in FinalStatuses
          => row[e].status \in FinalStatuses
    BY <1>2, <1>3, <1>8 DEF FinalStatuses
  <2> QED BY <1>1, <1>2, <1>3, <1>5, <1>6, <1>9, <2>1, <2>2, <2>3, HandlerStepPromise
<1>10. CASE ~Exists(e)
  <2>1. row' = row
    BY <1>1, <1>10 DEF Update
  <2>2. overwritten' = overwritten
    BY <1>1, <1>10 DEF Exists, FinalStatuses
  <2>3. CancelledCounts' /\ FailsOnce'
    BY <1>1, <2>1 DEF RInv, CancelledCounts, FailsOnce, Exists
  <2> QED BY <1>5, <2>1, <2>2, <2>3, QuietStep
<1> QED BY <1>9, <1>10

LEMMA RestartPromise == ASSUME IInv, RInv, Restart PROVE Promise
<1> DEFINE recovered == [e \in Experiments |-> Recovered(e)]
<1>1. PICK gone \in SUBSET Experiments :
        row' = [e \in Experiments |->
                  IF e \in gone THEN NewRow("DELETED") ELSE recovered[e]]
  BY DEF Restart
<1>2. ASSUME NEW e \in Experiments
      PROVE  /\ recovered[e].ckpt = row[e].ckpt /\ recovered[e].pairs = row[e].pairs
             /\ recovered[e].status = IF row[e].status \in ActiveStatuses
                                      THEN "FAILED_RETRYABLE" ELSE row[e].status
             /\ row[e] \in Rows
  BY DEF IInv, TypeOK, Rows, Recovered
<1> HIDE DEF recovered
<1>3. /\ worker'.pc = "idle" /\ worker'.exp = NoExperiment
      /\ UNCHANGED <<faults, overwritten>>
  BY DEF Restart, IdleWorker
<1>4. NewRow("DELETED").status = "DELETED" /\ NewRow("DELETED").pairs = 0
  BY DEF NewRow
<1>5. ASSUME NEW e \in Experiments
      PROVE  /\ row'[e].status \notin ActiveStatuses
             /\ Covered(e)'
             /\ row'[e].status # "DELETED" => row'[e].pairs = row[e].pairs
             /\ row[e].status \in FinalStatuses => row'[e].status \in {"DELETED", row[e].status}
  <2>1. CASE e \in gone
    BY <1>1, <1>4, <2>1 DEF Covered, ActiveStatuses
  <2>2. CASE e \notin gone
    BY <1>1, <1>2, <1>3, <2>2 DEF RInv, Covered, ActiveStatuses, FinalStatuses
  <2> QED BY <2>1, <2>2
<1>6. NoLostRun'
  BY <1>5 DEF NoLostRun
<1>7. CancelledCounts' /\ FailsOnce'
  BY <1>3 DEF CancelledCounts, FailsOnce
<1>8. RetentionSparesRunning
  BY <1>3, NoneAssumption DEF RetentionSparesRunning
<1>9. PairsNeverLost
  BY <1>2, <1>5 DEF PairsNeverLost, Rows
<1>10. SettledStep
  BY <1>5 DEF SettledStep
<1> QED BY <1>5, <1>6, <1>7, <1>8, <1>9, <1>10 DEF Promise, RInv

-----------------------------------------------------------------------------
LEMMA SeenOpenHolds == Spec => []SeenOpen
<1>1. Init => SeenOpen
  BY DEF Init, SeenOpen, IdleHandler
<1>2. SeenOpen /\ [Next]_vars => SeenOpen'
  <2> SUFFICES ASSUME SeenOpen, Next \/ UNCHANGED vars,
                      handler' # handler, handler' # IdleHandler
               PROVE  SeenOpen'
    BY DEF SeenOpen, IdleHandler
  <2>1. \E e \in Experiments : StartClaim(e) \/ CancelRead(e)
    BY DEF Next, vars, Create, Invalidate, DeleteAccount, HandlerStep, StartSubmit,
       CancelWrite, StartSubmitRaises, WorkerStep, Raise, Shutdown, Restart, Take, Load,
       Resume, Fresh, PrepareSignals, PrepareSignalsFails, CheckCancel, BaselineArm,
       InterventionArm, Poll, SavePair, SavePairFails, RecordPair, Aggregate,
       LoadRepresentative, Publish, FinishCancelled, FinishFailed, CloseRun, RemoveFuture
  <2> QED BY <2>1 DEF SeenOpen, StartClaim, CancelRead
<1> QED BY <1>1, <1>2, PTL DEF Spec

LEMMA WorkerStepPromise == ASSUME IInv, RInv, WorkerStep PROVE Promise
<1>1. CheckCancel \/ BaselineArm \/ InterventionArm => Promise
  BY PollPromise DEF CheckCancel, BaselineArm, InterventionArm
<1> QED
  BY <1>1, TakePromise, LoadPromise, StartRunPromise, PrepareSignalsPromise,
     PrepareSignalsFailsPromise, SavePairPromise, RecordPairPromise, AggregatePromise,
     LoadRepresentativePromise, EndRunPromise, FinishFailedPromise, EndOfRunPromise
  DEF WorkerStep

LEMMA StutterPromise == ASSUME IInv, RInv, UNCHANGED vars PROVE Promise
<1>1. NoLostRun' /\ CancelledCounts' /\ FailsOnce'
  BY DEF vars, RInv, NoLostRun, CancelledCounts, FailsOnce, InQueue, Exists
<1> QED BY <1>1, QuietStep DEF vars

LEMMA NextPromise == IInv /\ RInv /\ SeenOpen /\ [Next]_vars => Promise
<1> SUFFICES ASSUME IInv, RInv, SeenOpen, [Next]_vars PROVE Promise
  OBVIOUS
<1>1. CASE \E e \in Experiments :
             Create(e) \/ StartClaim(e) \/ CancelRead(e) \/ Invalidate(e)
  BY <1>1, CreatePromise, StartClaimPromise, QuietHandlerPromise, InvalidatePromise
<1>2. CASE \E u \in Users : DeleteAccount(u)
  BY <1>2, DeleteAccountPromise
<1>3. CASE HandlerStep \/ StartSubmitRaises
  BY <1>3, QuietHandlerPromise, CancelWritePromise DEF HandlerStep
<1>4. CASE WorkerStep \/ Raise
  BY <1>4, WorkerStepPromise, EndOfRunPromise
<1>5. CASE Shutdown \/ Restart
  BY <1>5, QuietHandlerPromise, RestartPromise
<1>6. CASE UNCHANGED vars
  BY <1>6, StutterPromise
<1> QED BY <1>1, <1>2, <1>3, <1>4, <1>5, <1>6 DEF Next

LEMMA PromiseHolds == Spec => []RInv
<1>1. Init => RInv
  BY DEF Init, RInv, NoLostRun, Covered, CancelledCounts, FailsOnce, IdleWorker, NewRow,
     ActiveStatuses
<1>2. IInv /\ RInv /\ SeenOpen /\ [Next]_vars => RInv'
  BY NextPromise DEF Promise
<1> QED BY <1>1, <1>2, InvariantHolds, SeenOpenHolds, PTL DEF Spec

\* As long as no exception hit the service a row that says it is queued or running
\* has a work item behind it, and a failed experiment can be taken up where it
\* stopped unless a late cancel replaced its settled status.
THEOREM RunsCanRecover == Spec => []RunsRecoverable
<1>1. IInv /\ RInv => RunsRecoverable
  <2> SUFFICES ASSUME IInv, RInv, NEW e \in Experiments \ overwritten,
                      row[e].status = "FAILED_RETRYABLE", row[e].pairs > 0
               PROVE  Restorable(e)
    BY DEF RunsRecoverable, RetryCanResume, RInv
  <2>1. row[e].ckpt # NoCheckpoint /\ PairsMatch(e) /\ row[e] \in Rows
    BY DEF RInv, Covered, IInv, RowOK, TypeOK
  <2>2. row[e].ckpt \in Checkpoints
    BY <2>1 DEF Rows
  <2>3. /\ row[e].ckpt.cog # NoCog /\ row[e].ckpt.pairs \in 0..MaxPairs
        /\ \A i \in 1..MaxPairs : i <= row[e].ckpt.pairs => pairRows[e][i] = row[e].ckpt.cog
    BY <2>1, <2>2, NoneAssumption DEF PairsMatch, Checkpoints
  <2>4. \A i \in 1..row[e].ckpt.pairs : i \in 1..MaxPairs /\ i <= row[e].ckpt.pairs
    BY <2>3, PairsAssumption
  <2> QED BY <2>1, <2>3, <2>4 DEF Restorable
<1> QED BY <1>1, InvariantHolds, PromiseHolds, PTL

\* Retention and quotas never take the row of a run, and through failures, restarts
\* and retries the recorded pairs of an experiment only grow.
THEOREM WorkStays == Spec => WorkIsKept
<1>1. IInv /\ RInv /\ SeenOpen /\ [Next]_vars
        => [RetentionSparesRunning /\ PairsNeverLost]_vars
  BY NextPromise DEF Promise
<1> QED BY <1>1, InvariantHolds, PromiseHolds, SeenOpenHolds, PTL DEF Spec, WorkIsKept

\* A settled status is only left by deletion, by the invalidation of a completed
\* experiment, after an exception, or by a cancel that read it before it settled.
THEOREM SettledStays == Spec => SettledUnlessLateCancel
<1>1. IInv /\ RInv /\ SeenOpen /\ [Next]_vars => [SettledStep]_vars
  BY NextPromise DEF Promise
<1> QED
  BY <1>1, InvariantHolds, PromiseHolds, SeenOpenHolds, PTL
  DEF Spec, SettledUnlessLateCancel, SettledStep

=============================================================================
