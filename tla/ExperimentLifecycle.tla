------------------------ MODULE ExperimentLifecycle ------------------------
(***************************************************************************)
(* The life of an experiment of EventShock Lab: its row and checkpoint in  *)
(* SQLite, the HTTP handlers that create, start, cancel, invalidate and    *)
(* delete it, the single simulation thread that runs its matched pairs,    *)
(* and the restarts in between (service.py ExperimentService, database.py, *)
(* privacy.py).                                                            *)
(*                                                                         *)
(* The handlers are coroutines that never await, so at most one is in the  *)
(* middle of its work; the simulation thread runs beside it and the two    *)
(* interleave between database calls, each of which is one transaction.    *)
(* A handler that reads and later writes has two steps.                    *)
(*                                                                         *)
(* What a run computes is data: the belief signals that the models gave    *)
(* are a member of Cognitions, a matched pair is the signals it ran under, *)
(* and StopAt[c] is the number of pairs after which the stopping rule of   *)
(* the experiment triggers when it runs under c.  The simulation itself is *)
(* deterministic, so a result is determined by c.                          *)
(***************************************************************************)
EXTENDS Naturals, Sequences, FiniteSets

CONSTANTS
    Experiments,    \* experiment ids (uuids: an id is never used twice)
    Users,          \* account owners
    Owner,          \* [Experiments -> Users]
    Cognitions,     \* the frozen signals a cognition phase may produce
    MaxPairs,       \* seedCount, the largest number of matched pairs
    StopAt,         \* [Cognitions -> 1..MaxPairs], the stopping rule
    MaxQueued,      \* MAX_QUEUED_EXPERIMENTS
    MaxPerOwner,    \* MAX_EXPERIMENTS_PER_SESSION
    MaxStored,      \* MAX_STORED_EXPERIMENTS
    MaxFaults,      \* bound on unexpected exceptions (database locked, ...)
    NoCheckpoint, NoResult, NoCog, NoExperiment

ASSUME PairsAssumption == MaxPairs \in Nat \ {0}
ASSUME StopAssumption == StopAt \in [Cognitions -> 1..MaxPairs]
ASSUME OwnerAssumption == Owner \in [Experiments -> Users]
ASSUME LimitAssumption ==
    /\ MaxQueued \in Nat \ {0}
    /\ MaxPerOwner \in Nat \ {0}
    /\ MaxStored \in Nat \ {0}
    /\ MaxFaults \in Nat

Checkpoints == [pairs : 0..MaxPairs, cog : Cognitions, stop : BOOLEAN]
PairTables == [1..MaxPairs -> Cognitions \cup {NoCog}]
Results == [cog : Cognitions, pairs : 0..MaxPairs, runs : PairTables]

ASSUME NoneAssumption ==
    /\ NoCheckpoint \notin Checkpoints
    /\ NoResult \notin Results
    /\ NoCog \notin Cognitions
    /\ NoExperiment \notin Experiments

VARIABLES
    row,            \* the experiments table, one record per id
    pairRows,       \* experiment_checkpoint_pairs: pair index |-> its data
    queue,          \* the work items the executor holds, not yet taken
    registered,     \* the keys of ExperimentService.futures
    worker,         \* the simulation thread: program counter and locals
    handler,        \* the coroutine between its read and its write, if any
    accepting,      \* FALSE after the lifespan's shutdown
    deletedUsers,   \* accounts that were deleted
    audited,        \* owners with rows in audit_events
    faults,         \* unexpected exceptions so far
    overwritten     \* history: rows whose settled status a late cancel replaced

vars == <<row, pairRows, queue, registered, worker, handler, accepting,
          deletedUsers, audited, faults, overwritten>>

-----------------------------------------------------------------------------
(* Statuses and rows.                                                       *)

ActiveStatuses == {"QUEUED", "RUNNING", "AGGREGATING", "CANCEL_REQUESTED"}
\* mutant: an experiment that is being cancelled can be started
StartableWhileCancelling == {"READY", "FAILED_RETRYABLE", "CANCEL_REQUESTED"}
\* mutant: retention takes experiments that are being cancelled
PrunableWhileCancelling == {"COMPLETED", "FAILED_FINAL", "CANCELLED", "INVALIDATED",
                            "READY", "FAILED_RETRYABLE", "CANCEL_REQUESTED"}

FinalStatuses == {"COMPLETED", "FAILED_FINAL", "CANCELLED", "INVALIDATED"}
StartableStatuses == {"READY", "FAILED_RETRYABLE"}
PrunableStatuses == FinalStatuses \cup StartableStatuses
\* "NONE": not created yet; "DELETED": the row was removed
Statuses == ActiveStatuses \cup PrunableStatuses \cup {"NONE", "DELETED"}

Rows == [status : Statuses, cancel : BOOLEAN, pairs : 0..MaxPairs,
         ckpt : Checkpoints \cup {NoCheckpoint},
         result : Results \cup {NoResult}]

NoPairs == [i \in 1..MaxPairs |-> NoCog]
NewRow(s) == [status |-> s, cancel |-> FALSE, pairs |-> 0,
              ckpt |-> NoCheckpoint, result |-> NoResult]

Exists(e) == row[e].status \notin {"NONE", "DELETED"}
Stored == {e \in Experiments : Exists(e)}
OwnedBy(u) == {e \in Stored : Owner[e] = u}
Prunable == {e \in Experiments : row[e].status \in PrunableStatuses}

\* Database.updateExperiment: an UPDATE ... WHERE id, a no-op on a deleted row
Update(e, new) == row' = IF Exists(e) THEN [row EXCEPT ![e] = new] ELSE row

\* the rows of the set S are deleted, their pairs with them (ON DELETE CASCADE)
DeleteRows(S) ==
    /\ row' = [e \in Experiments |-> IF e \in S THEN NewRow("DELETED") ELSE row[e]]
    /\ pairRows' = [e \in Experiments |-> IF e \in S THEN NoPairs ELSE pairRows[e]]

\* appendAuditEvent inserts with the owner's id, whether or not it still exists
Audit(e) == audited' = audited \cup {Owner[e]}

\* enforceRetention and pruneSessionExperiments: aged rows go (age is left
\* open), and enough others to leave a free slot, as long as some are prunable
Retained(gone) == Cardinality(Stored \ gone) < MaxStored \/ Prunable \subseteq gone
OwnerRetained(u, gone) ==
    \/ Cardinality(OwnedBy(u) \ gone) < MaxPerOwner
    \/ (Prunable \cap OwnedBy(u)) \subseteq gone

-----------------------------------------------------------------------------
(* The simulation thread's record and the futures.                          *)

\* reading, computing and writing the run, before any closing status is written
RunPcs == {"load", "resume", "fresh", "cognition", "check", "baseline",
           "intervention", "save", "record", "aggregate", "represent", "publish"}
\* about to write a closing status
ClosingPcs == {"cancelled", "failRetryable", "failFinal"}
\* the closing status is written; its audit event or the future's callback is left
TailPcs == {"audit", "auditFail", "callback"}

Workers == [pc : RunPcs \cup ClosingPcs \cup TailPcs \cup {"idle"},
            exp : Experiments \cup {NoExperiment},
            cog : Cognitions \cup {NoCog},
            n : 0..MaxPairs, runs : PairTables, stop : BOOLEAN]

IdleWorker == [pc |-> "idle", exp |-> NoExperiment, cog |-> NoCog, n |-> 0,
               runs |-> NoPairs, stop |-> FALSE]
IdleHandler == [op |-> "idle", exp |-> NoExperiment, seen |-> "NONE"]
Handlers == [op : {"idle", "submit", "cancel"}, exp : Experiments \cup {NoExperiment},
             seen : Statuses]

InQueue(e) == \E i \in 1..Len(queue) : queue[i] = e
\* the entry of e is a future that is not done
Undone(e) == InQueue(e) \/ (worker.exp = e /\ worker.pc \notin {"idle", "callback"})
ActiveFutureCount == Cardinality({e \in registered : Undone(e)})

HandlerFree == accepting /\ handler = IdleHandler
Reachable(e) == Exists(e) /\ Owner[e] \notin deletedUsers

-----------------------------------------------------------------------------
Init ==
    /\ row = [e \in Experiments |-> NewRow("NONE")]
    /\ pairRows = [e \in Experiments |-> NoPairs]
    /\ queue = <<>>
    /\ registered = {}
    /\ worker = IdleWorker
    /\ handler = IdleHandler
    /\ accepting = TRUE
    /\ deletedUsers = {}
    /\ audited = {}
    /\ faults = 0
    /\ overwritten = {}

-----------------------------------------------------------------------------
(* HTTP handlers.                                                           *)

\* createExperiment: prune, check both quotas on what is left, insert, audit.
\* Rows pruned by a request that then fails its quota stay pruned.
Create(e) ==
    /\ HandlerFree
    /\ row[e].status = "NONE"
    /\ Owner[e] \notin deletedUsers
    /\ \E gone \in SUBSET Prunable :
        /\ Retained(gone) /\ OwnerRetained(Owner[e], gone)
        /\ LET room == /\ Cardinality(Stored \ gone) < MaxStored
                       /\ Cardinality(OwnedBy(Owner[e]) \ gone) < MaxPerOwner
           IN  /\ row' = [x \in Experiments |->
                            IF x \in gone THEN NewRow("DELETED")
                            ELSE IF x = e /\ room THEN NewRow("READY") ELSE row[x]]
               /\ audited' = IF room THEN audited \cup {Owner[e]} ELSE audited
        /\ pairRows' = [x \in Experiments |->
                          IF x \in gone THEN NoPairs ELSE pairRows[x]]
    /\ UNCHANGED <<queue, registered, worker, handler, accepting, deletedUsers,
                   faults, overwritten>>

\* startExperiment up to claimExperimentForQueue, under futureLock.  The status
\* read before the claim cannot move in between: no other handler runs, and the
\* simulation thread never writes a row that is READY or FAILED_RETRYABLE.
StartClaim(e) ==
    /\ HandlerFree
    /\ Reachable(e)
    /\ row[e].status \in StartableStatuses
    /\ ActiveFutureCount < MaxQueued
    /\ LET clean == row[e].status = "READY"
       IN  /\ row' = [row EXCEPT ![e] =
                        [row[e] EXCEPT
                            !.status = "QUEUED", !.cancel = FALSE,
                            !.pairs = IF clean THEN 0 ELSE row[e].pairs,
                            !.ckpt = IF clean THEN NoCheckpoint ELSE row[e].ckpt]]
           /\ pairRows' = IF clean THEN [pairRows EXCEPT ![e] = NoPairs] ELSE pairRows
    /\ handler' = [op |-> "submit", exp |-> e, seen |-> row[e].status]
    /\ UNCHANGED <<queue, registered, worker, accepting, deletedUsers, audited,
                   faults, overwritten>>

\* the rest of startExperiment: audit, submit, futures[id] = future
StartSubmit ==
    /\ handler.op = "submit"
    /\ queue' = Append(queue, handler.exp)
    /\ registered' = registered \cup {handler.exp}
    /\ Audit(handler.exp)
    /\ handler' = IdleHandler
    /\ UNCHANGED <<row, pairRows, worker, accepting, deletedUsers, faults, overwritten>>

\* the audit append of startExperiment raises: the row stays QUEUED
StartSubmitRaises ==
    /\ handler.op = "submit"
    /\ faults < MaxFaults
    /\ faults' = faults + 1
    /\ handler' = IdleHandler
    /\ UNCHANGED <<row, pairRows, queue, registered, worker, accepting,
                   deletedUsers, audited, overwritten>>

\* mutant: no early return for a settled experiment
CancelReadOfAnything(e) ==
    /\ HandlerFree
    /\ Reachable(e)
    /\ handler' = [op |-> "cancel", exp |-> e, seen |-> row[e].status]
    /\ UNCHANGED <<row, pairRows, queue, registered, worker, accepting,
                   deletedUsers, audited, faults, overwritten>>

\* cancelExperiment: the read and the early return ...
CancelRead(e) ==
    /\ HandlerFree
    /\ Reachable(e)
    /\ row[e].status \notin FinalStatuses
    /\ handler' = [op |-> "cancel", exp |-> e, seen |-> row[e].status]
    /\ UNCHANGED <<row, pairRows, queue, registered, worker, accepting,
                   deletedUsers, audited, faults, overwritten>>

\* ... and the write, which does not look at the status again
CancelWrite ==
    /\ handler.op = "cancel"
    /\ LET e == handler.exp
           status == IF handler.seen = "READY" THEN "CANCELLED" ELSE "CANCEL_REQUESTED"
       IN  /\ Update(e, [row[e] EXCEPT !.status = status, !.cancel = TRUE])
           /\ overwritten' = IF row[e].status \in FinalStatuses
                             THEN overwritten \cup {e} ELSE overwritten
           /\ Audit(e)
    /\ handler' = IdleHandler
    /\ UNCHANGED <<pairRows, queue, registered, worker, accepting, deletedUsers, faults>>

\* invalidateExperiment: one guarded UPDATE, then its audit event
Invalidate(e) ==
    /\ HandlerFree
    /\ Reachable(e)
    /\ row[e].status = "COMPLETED"
    /\ row[e].result # NoResult
    /\ row' = [row EXCEPT ![e] = [row[e] EXCEPT !.status = "INVALIDATED"]]
    /\ Audit(e)
    /\ UNCHANGED <<pairRows, queue, registered, worker, handler, accepting,
                   deletedUsers, faults, overwritten>>

\* deleteAccountData: one transaction, whatever the runs of the account do
DeleteAccount(u) ==
    /\ HandlerFree
    /\ u \notin deletedUsers
    /\ DeleteRows(OwnedBy(u))
    /\ audited' = audited \ {u}
    /\ deletedUsers' = deletedUsers \cup {u}
    /\ UNCHANGED <<queue, registered, worker, handler, accepting, faults, overwritten>>

-----------------------------------------------------------------------------
(* The simulation thread: ThreadPoolExecutor(max_workers=1) and             *)
(* _runExperiment.  e and r are the experiment it runs and its row.         *)

Goto(pc) == worker' = [worker EXCEPT !.pc = pc]

Take ==
    /\ worker.pc = "idle"
    /\ queue # <<>>
    /\ worker' = [IdleWorker EXCEPT !.pc = "load", !.exp = Head(queue)]
    /\ queue' = Tail(queue)
    /\ UNCHANGED <<row, pairRows, registered, handler, accepting, deletedUsers,
                   audited, faults, overwritten>>

\* _restoreExperimentCheckpoint: the first ckpt.pairs stored pairs must be there
Restorable(e) ==
    /\ row[e].ckpt # NoCheckpoint
    /\ \A i \in 1..row[e].ckpt.pairs : pairRows[e][i] # NoCog

\* mutant: completed pairs without a checkpoint are not refused
LoadWithoutRefusal ==
    /\ worker.pc = "load"
    /\ LET e == worker.exp
           c == row[e].ckpt
       IN  worker' =
             IF ~Exists(e) THEN [worker EXCEPT !.pc = "failFinal"]
             ELSE IF Restorable(e)
                  THEN [worker EXCEPT !.pc = "resume", !.cog = c.cog, !.n = c.pairs,
                          !.stop = c.stop,
                          !.runs = [i \in 1..MaxPairs |->
                                      IF i <= c.pairs THEN pairRows[e][i] ELSE NoCog]]
             ELSE [worker EXCEPT !.pc = "fresh"]
    /\ UNCHANGED <<row, pairRows, queue, registered, handler, accepting,
                   deletedUsers, audited, faults, overwritten>>

\* getExperiment, then restore, start afresh, or refuse; a missing row raises
Load ==
    /\ worker.pc = "load"
    /\ LET e == worker.exp
           c == row[e].ckpt
       IN  worker' =
             IF ~Exists(e) THEN [worker EXCEPT !.pc = "failFinal"]
             ELSE IF Restorable(e)
                  THEN [worker EXCEPT !.pc = "resume", !.cog = c.cog, !.n = c.pairs,
                          !.stop = c.stop,
                          !.runs = [i \in 1..MaxPairs |->
                                      IF i <= c.pairs THEN pairRows[e][i] ELSE NoCog]]
             ELSE IF row[e].pairs > 0 THEN [worker EXCEPT !.pc = "failFinal"]
             ELSE [worker EXCEPT !.pc = "fresh"]
    /\ UNCHANGED <<row, pairRows, queue, registered, handler, accepting,
                   deletedUsers, audited, faults, overwritten>>

\* mutant: the stopping decision is not part of the checkpoint
CheckpointWithoutDecision == [pairs |-> worker.n, cog |-> worker.cog, stop |-> FALSE]
\* mutant: the checkpoint counts the pair that is still to come
CheckpointOfNextPair == [pairs |-> worker.n + 1, cog |-> worker.cog, stop |-> worker.stop]

CheckpointNow == [pairs |-> worker.n, cog |-> worker.cog, stop |-> worker.stop]

\* RUNNING is written whatever the row says by now; with a triggered stopping
\* decision the loop over the pairs is empty
Resume ==
    /\ worker.pc = "resume"
    /\ LET e == worker.exp
       IN  /\ Update(e, [row[e] EXCEPT !.status = "RUNNING", !.pairs = worker.n,
                                       !.ckpt = CheckpointNow])
           /\ Audit(e)
    /\ Goto(IF worker.stop THEN "aggregate" ELSE "check")
    /\ UNCHANGED <<pairRows, queue, registered, handler, accepting, deletedUsers,
                   faults, overwritten>>

Fresh ==
    /\ worker.pc = "fresh"
    /\ Update(worker.exp, [row[worker.exp] EXCEPT !.status = "RUNNING", !.pairs = 0])
    /\ Goto("cognition")
    /\ UNCHANGED <<pairRows, queue, registered, handler, accepting, deletedUsers,
                   audited, faults, overwritten>>

\* _prepareCognitiveSignals gives some signals, which are frozen in the first
\* checkpoint; a cancellation is not looked at in this phase
PrepareSignals ==
    /\ worker.pc = "cognition"
    /\ \E c \in Cognitions :
        /\ worker' = [worker EXCEPT !.pc = "check", !.cog = c]
        /\ Update(worker.exp, [row[worker.exp] EXCEPT
                    !.ckpt = [pairs |-> 0, cog |-> c, stop |-> FALSE]])
    /\ Audit(worker.exp)
    /\ UNCHANGED <<pairRows, queue, registered, handler, accepting, deletedUsers,
                   faults, overwritten>>

\* the credential store is unavailable (retryable), or a strict run's model failed
PrepareSignalsFails ==
    /\ worker.pc = "cognition"
    /\ \E pc \in {"failRetryable", "failFinal"} : Goto(pc)
    /\ UNCHANGED <<row, pairRows, queue, registered, handler, accepting,
                   deletedUsers, audited, faults, overwritten>>

\* mutant: the poll's answer is not looked at
PollIgnored(here, next) ==
    /\ worker.pc = here
    /\ Goto(next)
    /\ UNCHANGED <<row, pairRows, queue, registered, handler, accepting,
                   deletedUsers, audited, faults, overwritten>>

\* cancelRequested between pairs, and the last poll of shouldCancel in each arm
\* (an arm has 30 to 300 steps and every 8th polls)
Poll(here, next) ==
    /\ worker.pc = here
    /\ Goto(IF row[worker.exp].cancel THEN "cancelled" ELSE next)
    /\ UNCHANGED <<row, pairRows, queue, registered, handler, accepting,
                   deletedUsers, audited, faults, overwritten>>

CheckCancel == Poll("check", "baseline")
BaselineArm == Poll("baseline", "intervention")
InterventionArm == Poll("intervention", "save")

\* the pair joins the runs in memory, _stoppingDecision, saveExperimentCheckpointPair
SavePair ==
    /\ worker.pc = "save"
    /\ Exists(worker.exp)
    /\ LET i == worker.n + 1
       IN  /\ worker' = [worker EXCEPT !.pc = "record", !.n = i,
                            !.runs = [worker.runs EXCEPT ![i] = worker.cog],
                            !.stop = i >= StopAt[worker.cog]]
           /\ pairRows' = [pairRows EXCEPT ![worker.exp][i] = worker.cog]
    /\ UNCHANGED <<row, queue, registered, handler, accepting, deletedUsers,
                   audited, faults, overwritten>>

\* no owner row, pair too large, or SQLite refuses: CheckpointStorageError
SavePairFails ==
    /\ worker.pc = "save"
    /\ Goto("failRetryable")
    /\ UNCHANGED <<row, pairRows, queue, registered, handler, accepting,
                   deletedUsers, audited, faults, overwritten>>

\* updateExperiment with the new count and checkpoint, a transaction of its own
RecordPair ==
    /\ worker.pc = "record"
    /\ Update(worker.exp, [row[worker.exp] EXCEPT !.pairs = worker.n,
                                                  !.ckpt = CheckpointNow])
    /\ Goto(IF worker.stop THEN "aggregate" ELSE "check")
    /\ audited' = IF worker.stop THEN audited \cup {Owner[worker.exp]} ELSE audited
    /\ UNCHANGED <<pairRows, queue, registered, handler, accepting, deletedUsers,
                   faults, overwritten>>

Aggregate ==
    /\ worker.pc = "aggregate"
    /\ Update(worker.exp, [row[worker.exp] EXCEPT !.status = "AGGREGATING"])
    /\ Goto("represent")
    /\ UNCHANGED <<pairRows, queue, registered, handler, accepting, deletedUsers,
                   audited, faults, overwritten>>

\* the representative pair is read back with its traces: any of the pairs
LoadRepresentative ==
    /\ worker.pc = "represent"
    /\ \E i \in 1..worker.n :
        Goto(IF pairRows[worker.exp][i] = NoCog THEN "failRetryable" ELSE "publish")
    /\ UNCHANGED <<row, pairRows, queue, registered, handler, accepting,
                   deletedUsers, audited, faults, overwritten>>

Publish ==
    /\ worker.pc = "publish"
    /\ LET e == worker.exp
       IN  /\ Update(e, [row[e] EXCEPT
                    !.status = "COMPLETED", !.pairs = worker.n, !.ckpt = NoCheckpoint,
                    !.result = [cog |-> worker.cog, pairs |-> worker.n,
                                runs |-> worker.runs]])
           /\ pairRows' = [pairRows EXCEPT ![e] = NoPairs]
    /\ Goto("audit")
    /\ UNCHANGED <<queue, registered, handler, accepting, deletedUsers, audited,
                   faults, overwritten>>

\* mutant: a cancelled run leaves its pairs behind
FinishCancelledKeepingPairs ==
    /\ worker.pc = "cancelled"
    /\ LET e == worker.exp
       IN  Update(e, [row[e] EXCEPT !.status = "CANCELLED", !.pairs = worker.n,
                                    !.ckpt = NoCheckpoint])
    /\ Goto("audit")
    /\ UNCHANGED <<pairRows, queue, registered, handler, accepting, deletedUsers,
                   audited, faults, overwritten>>

\* _finishCancelledRun
FinishCancelled ==
    /\ worker.pc = "cancelled"
    /\ LET e == worker.exp
       IN  /\ Update(e, [row[e] EXCEPT !.status = "CANCELLED", !.pairs = worker.n,
                                       !.ckpt = NoCheckpoint])
           /\ pairRows' = [pairRows EXCEPT ![e] = NoPairs]
    /\ Goto("audit")
    /\ UNCHANGED <<queue, registered, handler, accepting, deletedUsers, audited,
                   faults, overwritten>>

\* mutant: a failed run loses its checkpoint
FinishFailedClearing ==
    /\ worker.pc \in {"failRetryable", "failFinal"}
    /\ LET e == worker.exp
           status == IF worker.pc = "failFinal" THEN "FAILED_FINAL" ELSE "FAILED_RETRYABLE"
       IN  /\ Update(e, [row[e] EXCEPT !.status = status, !.ckpt = NoCheckpoint])
           /\ pairRows' = [pairRows EXCEPT ![e] = NoPairs]
    /\ Goto("auditFail")
    /\ UNCHANGED <<queue, registered, handler, accepting, deletedUsers, audited,
                   faults, overwritten>>

\* the except clauses of _runExperiment
FinishFailed ==
    /\ worker.pc \in {"failRetryable", "failFinal"}
    /\ Update(worker.exp, [row[worker.exp] EXCEPT !.status =
                IF worker.pc = "failFinal" THEN "FAILED_FINAL" ELSE "FAILED_RETRYABLE"])
    /\ Goto("auditFail")
    /\ UNCHANGED <<pairRows, queue, registered, handler, accepting, deletedUsers,
                   audited, faults, overwritten>>

\* the closing audit event; then the future is done
CloseRun ==
    /\ worker.pc \in {"audit", "auditFail"}
    /\ Audit(worker.exp)
    /\ Goto("callback")
    /\ UNCHANGED <<row, pairRows, queue, registered, handler, accepting,
                   deletedUsers, faults, overwritten>>

\* _removeFuture: pops the id, whichever future it leads to by now; it needs
\* futureLock, which a start holds until it has submitted
RemoveFuture ==
    /\ worker.pc = "callback"
    /\ handler.op # "submit"
    /\ registered' = registered \ {worker.exp}
    /\ worker' = IdleWorker
    /\ UNCHANGED <<row, pairRows, queue, handler, accepting, deletedUsers,
                   audited, faults, overwritten>>

\* an exception nobody expects: it is caught by the last except clause, or,
\* raised inside an except clause, ends the future
Raise ==
    /\ faults < MaxFaults
    /\ faults' = faults + 1
    /\ \/ worker.pc \in (RunPcs \cup {"cancelled", "audit"}) \ {"save"} /\ Goto("failFinal")
       \/ worker.pc \in {"failRetryable", "failFinal", "auditFail"} /\ Goto("callback")
    /\ UNCHANGED <<row, pairRows, queue, registered, handler, accepting,
                   deletedUsers, audited, overwritten>>

-----------------------------------------------------------------------------
(* The process.                                                             *)

\* the lifespan ends: queued futures are cancelled, the running one goes on
Shutdown ==
    /\ HandlerFree
    /\ accepting' = FALSE
    /\ queue' = <<>>
    /\ registered' = {e \in registered : ~InQueue(e)}
    /\ UNCHANGED <<row, pairRows, worker, handler, deletedUsers, audited, faults,
                   overwritten>>

\* mutant: the recovery overlooks queued rows
RecoveredUnlessQueued(e) ==
    IF row[e].status \in ActiveStatuses \ {"QUEUED"}
    THEN [row[e] EXCEPT !.status = "FAILED_RETRYABLE"] ELSE row[e]

\* the recovery UPDATE of Database.initialize
Recovered(e) ==
    IF row[e].status \in ActiveStatuses
    THEN [row[e] EXCEPT !.status = "FAILED_RETRYABLE"] ELSE row[e]

\* the process dies at any point and a new one runs Database.initialize
Restart ==
    /\ LET prunable == {e \in Experiments : Recovered(e).status \in PrunableStatuses}
       IN  \E gone \in SUBSET prunable :
            /\ Cardinality(prunable \ gone) < MaxStored
            /\ row' = [e \in Experiments |->
                         IF e \in gone THEN NewRow("DELETED") ELSE Recovered(e)]
            /\ pairRows' = [e \in Experiments |->
                              IF e \in gone THEN NoPairs ELSE pairRows[e]]
    /\ queue' = <<>>
    /\ registered' = {}
    /\ worker' = IdleWorker
    /\ handler' = IdleHandler
    /\ accepting' = TRUE
    /\ UNCHANGED <<deletedUsers, audited, faults, overwritten>>

-----------------------------------------------------------------------------
HandlerStep == StartSubmit \/ CancelWrite
WorkerStep ==
    \/ Take \/ Load \/ Resume \/ Fresh \/ PrepareSignals \/ PrepareSignalsFails
    \/ CheckCancel \/ BaselineArm \/ InterventionArm
    \/ SavePair \/ SavePairFails \/ RecordPair
    \/ Aggregate \/ LoadRepresentative \/ Publish
    \/ FinishCancelled \/ FinishFailed \/ CloseRun \/ RemoveFuture

Next ==
    \/ \E e \in Experiments :
        Create(e) \/ StartClaim(e) \/ CancelRead(e) \/ Invalidate(e)
    \/ \E u \in Users : DeleteAccount(u)
    \/ HandlerStep \/ StartSubmitRaises
    \/ WorkerStep \/ Raise
    \/ Shutdown \/ Restart

Spec == Init /\ [][Next]_vars

\* The thread keeps running, a coroutine that began finishes, and a process
\* that was shut down is replaced.  Nothing makes a user act.
Fairness == WF_vars(WorkerStep) /\ WF_vars(HandlerStep)
            /\ WF_vars(~accepting /\ Restart)
FairSpec == Spec /\ Fairness

-----------------------------------------------------------------------------
(* Properties.                                                              *)

TypeOK ==
    /\ row \in [Experiments -> Rows]
    /\ pairRows \in [Experiments -> PairTables]
    /\ queue \in Seq(Experiments)
    /\ registered \subseteq Experiments
    /\ worker \in Workers
    /\ handler \in Handlers
    /\ accepting \in BOOLEAN
    /\ deletedUsers \subseteq Users
    /\ audited \subseteq Users
    /\ faults \in 0..MaxFaults
    /\ overwritten \subseteq Experiments

\* the thread is working on e and has not written its closing status
InFlight(e) == worker.exp = e /\ worker.pc \in RunPcs \cup {"cancelled", "failRetryable"}

\* what a run under c gives when nothing interrupts it
Uninterrupted(c) ==
    [cog |-> c, pairs |-> StopAt[c],
     runs |-> [i \in 1..MaxPairs |-> IF i <= StopAt[c] THEN c ELSE NoCog]]

\* Crashes, restarts and retries are invisible in a result: every published
\* result has exactly the pairs of an uninterrupted run, all of them simulated
\* under the one set of frozen signals it reports (_restoreExperimentCheckpoint,
\* saveExperimentCheckpointPair, the stopping decision in the checkpoint).
ResultsAreUninterrupted ==
    \A e \in Experiments : row[e].result # NoResult =>
        \E c \in Cognitions : row[e].result = Uninterrupted(c)

\* the stored pairs of e are those its checkpoint counts, plus at most the one
\* whose record was not written yet, all under the checkpoint's signals
PairsMatch(e) ==
    LET c == row[e].ckpt
    IN  IF c = NoCheckpoint THEN pairRows[e] = NoPairs
        ELSE /\ row[e].pairs = c.pairs
             /\ c.pairs <= StopAt[c.cog]
             /\ c.stop <=> c.pairs = StopAt[c.cog]
             /\ \A i \in 1..MaxPairs :
                  /\ i <= c.pairs => pairRows[e][i] = c.cog
                  /\ i > c.pairs + 1 => pairRows[e][i] = NoCog
                  /\ i = c.pairs + 1 => pairRows[e][i] \in {c.cog, NoCog}

\* The pair table and the checkpoint, written by separate transactions, never
\* disagree: at every instant, and so after a crash at any instant, the pairs a
\* retry will read are those the checkpoint counts, and a run that is over leaves
\* none behind (saveExperimentCheckpointPair, updateExperiment).
PairsMatchCheckpoint == \A e \in Experiments : PairsMatch(e)

\* A retryable experiment can really be retried: unless a late cancel replaced
\* its settled status, what it completed is still covered by a checkpoint, so a
\* retry is not refused with "completed pairs exist without a valid checkpoint".
RetryCanResume ==
    \A e \in Experiments \ overwritten :
        row[e].status = "FAILED_RETRYABLE" /\ row[e].pairs > 0 => Restorable(e)

\* As long as no exception hit the service, every row that says it is queued or
\* running has a work item behind it: in the executor, in the thread, or about to
\* be submitted by the start that claimed it.
NoLostRun ==
    faults = 0 /\ accepting =>
        \A e \in Experiments : row[e].status \in ActiveStatuses \ {"CANCEL_REQUESTED"} =>
            \/ InQueue(e)
            \/ worker.exp = e /\ worker.pc \in RunPcs \cup ClosingPcs
            \/ handler.op = "submit" /\ handler.exp = e

\* Nothing gets stuck between two runs: what waits has a run coming, and what
\* failed can be taken up where it stopped.
RunsRecoverable == NoLostRun /\ RetryCanResume

\* An experiment has at most one work item that may still write its row, however
\* starts, cancels, retries and the tail of an old run interleave.
OneRunPerExperiment ==
    /\ \A i, j \in 1..Len(queue) : queue[i] = queue[j] => i = j
    /\ \A e \in Experiments :
        InQueue(e) => ~(worker.exp = e /\ worker.pc \in RunPcs \cup ClosingPcs)

\* Retention and quotas never take a row away from the run that is writing it:
\* such a row only goes with its owner's account (enforceRetention,
\* pruneSessionExperiments and their list of prunable statuses).
RetentionSparesRunning ==
    \A e \in Experiments :
        InFlight(e) /\ Exists(e) /\ row'[e].status = "DELETED"
            /\ worker'.exp = e => Owner[e] \in deletedUsers'

\* Completed pairs are never forgotten: through failures, restarts and retries
\* the recorded number of pairs of an experiment only grows while it exists.
PairsNeverLost ==
    \A e \in Experiments :
        Exists(e) /\ row'[e].status # "DELETED" => row'[e].pairs >= row[e].pairs

\* No step takes the work of a run from under it: its row stays while it runs, and
\* what it has completed stays recorded.
WorkIsKept == [][RetentionSparesRunning /\ PairsNeverLost]_vars

\* The only ways out of a settled status are deletion, the invalidation of a
\* completed experiment, an unexpected exception after the closing write, and a
\* cancel that read the status before the run settled.
SettledUnlessLateCancel ==
    [][\A e \in Experiments :
        row[e].status \in FinalStatuses /\ row'[e].status # row[e].status =>
            \/ row'[e].status = "DELETED"
            \/ row[e].status = "COMPLETED" /\ row'[e].status = "INVALIDATED"
            \/ /\ handler.op = "cancel" /\ handler.exp = e
               /\ handler.seen \notin FinalStatuses
            \/ faults' > 0]_vars

\* The queue keeps moving: a claimed experiment does not stay queued, running or
\* aggregating for ever, even across a shutdown.
ActiveRunSettles ==
    \A e \in Experiments :
        (faults = 0 /\ row[e].status \in ActiveStatuses \ {"CANCEL_REQUESTED"})
            ~> (faults > 0 \/ row[e].status \notin ActiveStatuses \ {"CANCEL_REQUESTED"})

\* A cancel that is on record while a poll of the run is still ahead stops the
\* run before its next pair: it is not completed (shouldCancel, _finishCancelledRun).
CancelStopsRun ==
    \A e \in Experiments :
        (/\ worker.exp = e /\ worker.pc \in {"check", "baseline", "intervention"}
         /\ row[e].cancel)
            ~> (row[e].status \in {"CANCELLED", "FAILED_RETRYABLE", "FAILED_FINAL", "DELETED"})

\* cancelExperiment returns a settled experiment as it is, and the tests read
\* that as "a settled experiment stays settled" when nothing raises.
SettledIsFinal ==
    [][\A e \in Experiments :
        row[e].status \in FinalStatuses /\ row'[e].status # row[e].status =>
            row'[e].status \in {"DELETED", "INVALIDATED"} \/ faults' > 0]_vars

\* maximumActiveOrQueued: no more than MaxQueued experiments are running or queued.
BacklogWithinLimit ==
    Len(queue) + (IF worker.pc \in {"idle", "callback"} THEN 0 ELSE 1) <= MaxQueued

\* Deleting an account removes its active records from the database.
DeletedAccountLeavesNothing == audited \cap deletedUsers = {}

-----------------------------------------------------------------------------
(* The promise: see ResultRegister.                                         *)

Outcome(e) == IF row[e].status = "DELETED" THEN NoExperiment ELSE row[e].result

Register == INSTANCE ResultRegister WITH
    Outcomes <- {Uninterrupted(c) : c \in Cognitions},
    NoOutcome <- NoResult,
    Erased <- NoExperiment,
    outcome <- [e \in Experiments |-> Outcome(e)]

\* The service implements the register: a result is written once, is that of an
\* uninterrupted run, and neither a late cancel, a restart and a second start, nor
\* the retry of a completed experiment ever replaces it.
ImplementsRegister == Register!Spec

=============================================================================
