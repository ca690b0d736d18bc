-------------------------------- MODULE Studies --------------------------------
(***************************************************************************)
(* Requests to run a study (study/api_service.py, study/coordinator.py).   *)
(* The handler reads the Event Pack on the event loop and runs the study   *)
(* in the thread pool, so several runs and the deletion of an account      *)
(* interleave; one lock that is never waited for admits one run at a time. *)
(* A run executes every cell of the design with every seed, is saved, is   *)
(* audited in a second transaction, and is then answered.  What a cell     *)
(* simulates is the business of the engine's modules; the statistics are   *)
(* in PairedStatistics.                                                    *)
(***************************************************************************)
EXTENDS Integers, FiniteSets, Sequences, SequencesExt, Filters

CONSTANTS Runs,            \* the requests, each a run of its own
          Owners,
          Cells,           \* of the design, with the controls and ablations
          SeedCount,       \* matched seeds of each cell
          MaxStudyRuns,         \* runs a study may ask for
          KeptPerOwner,    \* stored studies of one owner
          KeptInTotal      \* and of all

ASSUME StudiesAssumption ==
    /\ KeptPerOwner \in Nat \ {0} /\ KeptInTotal \in Nat \ {0}
    /\ {Cells, SeedCount, MaxStudyRuns} \subseteq Nat

NoOwner == "none"
Unsent == [stage |-> "unsent", owner |-> NoOwner, frozen |-> FALSE, cells |-> 0, done |-> <<>>]

VARIABLES runs,       \* each request: its stage, its owner and the (cell, seed) pairs done
          executing,  \* the execution lock
          stored,     \* the table of studies, oldest first
          audited,    \* runs with an audit event
          gone        \* owners whose account was deleted
studyVars == <<runs, executing, stored, audited, gone>>

Stages == {"unsent", "queued", "refused", "executing", "computed", "saved", "audited",
           "completed", "failed", "lost"}
Schedule(cells) == [k \in 1..(cells * SeedCount) |->
                        <<((k - 1) \div SeedCount) + 1, ((k - 1) % SeedCount) + 1>>]

StudiesTypeOK ==
    /\ \A r \in Runs :
           /\ runs[r].stage \in Stages
           /\ runs[r].owner \in Owners \cup {NoOwner}
           /\ runs[r].frozen \in BOOLEAN
           /\ runs[r].cells \in 0..Cells
           /\ Len(runs[r].done) <= Cells * SeedCount
    /\ executing \in BOOLEAN
    /\ stored \in Seq(Runs) /\ audited \subseteq Runs /\ gone \subseteq Owners

StudiesInit ==
    /\ runs = [r \in Runs |-> Unsent]
    /\ executing = FALSE /\ stored = <<>> /\ audited = {} /\ gone = {}

Stage(r, from, to) ==
    /\ runs[r].stage = from
    /\ runs' = [runs EXCEPT ![r].stage = to]

\* The handler: the pack is read, whatever its status, before the thread starts.
RunStudy(r, owner, frozen, cells) ==
    /\ runs[r].stage = "unsent" /\ owner \notin gone
    /\ runs' = [runs EXCEPT ![r] = [Unsent EXCEPT !.stage = "queued", !.owner = owner,
                                                !.frozen = frozen, !.cells = cells]]
    /\ UNCHANGED <<executing, stored, audited, gone>>

Admitted(r) == runs[r].frozen /\ ~executing
WithinBudget(cells) == cells * SeedCount <= MaxStudyRuns

\* A pack that is not frozen and a busy runner are refused before the lock is taken.
RefuseStudy(r) ==
    /\ Stage(r, "queued", "refused") /\ ~Admitted(r)
    /\ UNCHANGED <<executing, stored, audited, gone>>

\* The lock is taken, the specification built and the budget checked; a run over the
\* budget gives the lock back.
Acquire(r) ==
    /\ Admitted(r)
    /\ \/ WithinBudget(runs[r].cells) /\ Stage(r, "queued", "executing") /\ executing' = TRUE
       \/ ~WithinBudget(runs[r].cells) /\ Stage(r, "queued", "refused") /\ UNCHANGED executing
    /\ UNCHANGED <<stored, audited, gone>>

Unfinished(r) == Len(runs[r].done) < runs[r].cells * SeedCount

\* The next cell and seed, cell by cell.
RunCell(r) ==
    /\ runs[r].stage = "executing" /\ Unfinished(r)
    /\ runs' = [runs EXCEPT ![r].done =
                    Append(@, Schedule(runs[r].cells)[Len(runs[r].done) + 1])]
    /\ UNCHANGED <<executing, stored, audited, gone>>

\* The seeds of a cell, in the order they ran, must be the common schedule.
SeedsOf(r, cell) == SelectSeq(runs[r].done, LAMBDA run : run[1] = cell)
CommonSeedSchedule(r) ==
    \A cell \in 1..runs[r].cells :
        SeedsOf(r, cell) = [seed \in 1..SeedCount |-> <<cell, seed>>]

Analyse(r) ==
    /\ ~Unfinished(r) /\ CommonSeedSchedule(r)
    /\ Stage(r, "executing", "computed")
    /\ UNCHANGED <<executing, stored, audited, gone>>

\* Any step of a run may raise: nothing is stored after it, what was stored stays, and
\* the lock is released.
Fail(r) ==
    /\ runs[r].stage \in {"executing", "computed", "saved"}
    /\ runs' = [runs EXCEPT ![r].stage = "failed"]
    /\ executing' = FALSE
    /\ UNCHANGED <<stored, audited, gone>>

\* The newest table that are kept of a table given oldest first.
Newest(table, n) == SubSeq(table, Len(table) - n + 1, Len(table))
Kept(table, n) == IF Len(table) <= n THEN table ELSE Newest(table, n)
RunsOf(owner) == {r \in Runs : runs[r].owner = owner}
OwnedBy(table, owner) == Filtered(table, RunsOf(owner))
PrunedForOwner(table, owner) ==
    Filtered(table, (Runs \ RunsOf(owner))
                        \cup Range(Kept(OwnedBy(table, owner), KeptPerOwner)))

\* One transaction: insert, keep the newest of the owner, keep the newest of all.
SaveStudyRun(r) ==
    /\ Stage(r, "computed", "saved")
    /\ stored' = Kept(PrunedForOwner(Append(stored, r), runs[r].owner), KeptInTotal)
    /\ UNCHANGED <<executing, audited, gone>>

\* A second transaction.
AppendAuditEvent(r) ==
    /\ Stage(r, "saved", "audited")
    /\ audited' = audited \cup {r}
    /\ UNCHANGED <<executing, stored, gone>>

Finish(r) ==
    /\ Stage(r, "audited", "completed")
    /\ executing' = FALSE
    /\ UNCHANGED <<stored, audited, gone>>

\* The event loop deletes an account, its studies and its audit events, while a thread
\* may be running its study.
DeleteAccount(owner) ==
    /\ owner \notin gone
    /\ gone' = gone \cup {owner}
    /\ stored' = Filtered(stored, Runs \ RunsOf(owner))
    /\ audited' = audited \ RunsOf(owner)
    /\ UNCHANGED <<runs, executing>>

\* The process stops and starts again: the lock and the requests are memory.
InFlight == {"queued", "executing", "computed", "saved", "audited"}
Restart ==
    /\ \E r \in Runs : runs[r].stage \in InFlight
    /\ runs' = [r \in Runs |-> IF runs[r].stage \in InFlight
                               THEN [runs[r] EXCEPT !.stage = "lost"] ELSE runs[r]]
    /\ executing' = FALSE
    /\ UNCHANGED <<stored, audited, gone>>

StudiesNext ==
    \/ \E r \in Runs, o \in Owners, f \in BOOLEAN, c \in 1..Cells : RunStudy(r, o, f, c)
    \/ \E r \in Runs : RefuseStudy(r) \/ Acquire(r) \/ RunCell(r) \/ Analyse(r) \/ Fail(r)
    \/ \E r \in Runs : SaveStudyRun(r) \/ AppendAuditEvent(r) \/ Finish(r)
    \/ \E o \in Owners : DeleteAccount(o)
    \/ Restart

StudiesSpec == StudiesInit /\ [][StudiesNext]_studyVars

-----------------------------------------------------------------------------
\* The lock is held exactly while one run is between acquiring and releasing it, and
\* the table stays within its limits with whole studies only, each audited unless its
\* run failed or was lost between the two transactions (run: the lock has to survive
\* every failing step, saveStudyRun and the audit event are separate transactions).
StudiesSound ==
    /\ \A r, q \in Runs :
           runs[r].stage \in InFlight \ {"queued"} => executing /\ (runs[q].stage \in
               InFlight \ {"queued"} => q = r)
    /\ executing => \E r \in Runs : runs[r].stage \in InFlight \ {"queued"}
    /\ Len(stored) <= KeptInTotal
    /\ \A o \in Owners : Len(OwnedBy(stored, o)) <= KeptPerOwner
    /\ \A r \in Range(stored) :
           /\ runs[r].done = Schedule(runs[r].cells)
           /\ r \in audited \/ runs[r].stage \in {"saved", "failed", "lost"}

\* A run that is answered as completed is stored at that moment, the newest of its
\* owner, unless the owner deleted the account meanwhile: no run saved in between can
\* have pruned it, whoever else asks (the lock covers the save and the answer).
AnsweredIsStored ==
    \A r \in Runs :
        runs[r].stage # "completed" /\ runs'[r].stage = "completed"
        => \/ runs[r].owner \in gone
           \/ OwnedBy(stored', runs[r].owner) # <<>>
              /\ Last(OwnedBy(stored', runs[r].owner)) = r /\ r \in audited'
=============================================================================
