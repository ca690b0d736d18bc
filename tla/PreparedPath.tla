----------------------------- MODULE PreparedPath -----------------------------
(***************************************************************************)
(* The command that prepares a guided research path: a reviewed event      *)
(* pack, a frozen scenario, a finished hybrid experiment and one paid      *)
(* interpretation of its result, granted to an account that may then start *)
(* a guided workflow with all of them.  The command is a process of its    *)
(* own beside the server, on the same database; it may be repeated, and    *)
(* what an earlier preparation has made is to be used again, not paid      *)
(* again.  A run it started goes on when the command has given up.         *)
(*                                                                         *)
(* A route is the provider and model of the administrator's credential; an *)
(* experiment request and the scenario are told apart by it alone.         *)
(***************************************************************************)
EXTENDS Integers, FiniteSets

CONSTANTS
    KeyCount,     \* the number of EXPERIMENT_IDEMPOTENCY_KEYS
    Routes,       \* the values of provider and model
    NoRoute,      \* no scenario, no row
    MaxCommands,  \* bound: preparations begun
    MaxRestarts   \* bound: restarts of the server

ASSUME PreparedAssumption ==
    {KeyCount, MaxCommands} \subseteq Nat \ {0} /\ MaxRestarts \in Nat /\ NoRoute \notin Routes

VARIABLES
    route,      \* the route of the stored credential
    eventPack,  \* "none", "draft", "frozen"
    scenario,   \* the route in the frozen scenario
    prepared,   \* the experiments, by the index of their key
    exchanges,  \* the prepared conversation of each experiment
    granted,    \* the experiment of the capability, or 0
    workflow,   \* the experiment a guided workflow was started with, or 0
    command,    \* the locals of prepare
    workers,    \* <<process, key>>: a worker thread that runs the experiment
    restarts,   \* the restarts of the server
    misjudged,  \* a start has declared a live run of another process dead
    paid        \* the interpretations paid for

preparedVars == <<route, eventPack, scenario, prepared, exchanges, granted, workflow,
                  command, workers, restarts, misjudged, paid>>

RowKeys == 1 .. KeyCount
\* COMPLETED stands for a result that _verifiedHybridResult accepts: the request is
\* strict, so no run of it completes with a rule's decision.
RowStatuses == {"absent", "READY", "ACTIVE", "CANCEL_REQUESTED", "FAILED_RETRYABLE",
             "FAILED_FINAL", "CANCELLED", "COMPLETED", "INVALIDATED"}
Startable == {"READY", "FAILED_RETRYABLE"}
Running == {"ACTIVE", "CANCEL_REQUESTED"}

PreparedInit ==
    /\ route \in Routes
    /\ eventPack = "none" /\ scenario = NoRoute
    /\ prepared = [k \in RowKeys |-> [status |-> "absent", of |-> NoRoute]]
    /\ exchanges = [k \in RowKeys |-> "none"]
    /\ granted = 0 /\ workflow = 0
    /\ command = [id |-> 0, pc |-> "idle", key |-> 1, of |-> NoRoute]
    /\ workers = {} /\ restarts = 0 /\ misjudged = FALSE /\ paid = 0

stores == <<route, eventPack, scenario, exchanges, granted, workflow>>

-----------------------------------------------------------------------------
(* The start of a process: Database.initialize fails every run that is     *)
(* live in the table, also those of a process that still runs.             *)

Initialized ==
    [k \in RowKeys |-> IF prepared[k].status \in Running
                       THEN [prepared[k] EXCEPT !.status = "FAILED_RETRYABLE"] ELSE prepared[k]]

Initialize(survivors) ==
    /\ prepared' = Initialized
    /\ workers' = survivors
    /\ misjudged' = (misjudged \/ survivors # {})

At(pc) == command.pc = pc
Goto(pc) == command' = [command EXCEPT !.pc = pc]
GiveUp == Goto("idle")

-----------------------------------------------------------------------------
(* The command.                                                            *)

BeginPrepare ==
    /\ At("idle")
    /\ command.id < MaxCommands
    /\ Initialize(workers)
    /\ command' = [id |-> command.id + 1, pc |-> "pack", key |-> 1, of |-> route]
    /\ UNCHANGED <<stores, restarts, paid>>

\* The pack is created and frozen in two transactions; a draft is only frozen.
PrepareEventPack ==
    /\ At("pack")
    /\ \/ eventPack = "none" /\ eventPack' = "draft" /\ UNCHANGED command
       \/ eventPack # "none" /\ eventPack' = "frozen" /\ Goto("scenario")
    /\ UNCHANGED <<route, scenario, prepared, exchanges, granted, workflow, workers, restarts,
                   misjudged, paid>>

\* The upsert writes over a frozen scenario of the account.
SaveScenario ==
    /\ At("scenario")
    /\ scenario' = command.of
    /\ Goto("key")
    /\ UNCHANGED <<route, eventPack, prepared, exchanges, granted, workflow, workers, restarts,
                   misjudged, paid>>

\* createExperiment for the next key; a key that was used for another route, and the
\* end of the keys, raise.
UseKey ==
    /\ At("key")
    /\ LET k == command.key IN
       IF k > KeyCount
       THEN GiveUp /\ UNCHANGED prepared
       ELSE \/ /\ prepared[k].status = "absent"
               /\ prepared' = [prepared EXCEPT ![k] = [status |-> "READY", of |-> command.of]]
               /\ Goto("start")
            \/ /\ prepared[k].status # "absent"
               /\ IF prepared[k].of = command.of THEN Goto("start") ELSE GiveUp
               /\ UNCHANGED prepared
    /\ UNCHANGED <<stores, workers, restarts, misjudged, paid>>

\* A verified result is taken as it is, a run that can be started is started.
StartRun ==
    /\ At("start")
    /\ LET k == command.key IN
       \/ prepared[k].status = "COMPLETED" /\ Goto("interpret") /\ UNCHANGED <<prepared, workers>>
       \/ /\ prepared[k].status \in Startable
          /\ prepared' = [prepared EXCEPT ![k].status = "ACTIVE"]
          /\ workers' = workers \union {<<command.id, k>>}
          /\ Goto("polling")
       \/ /\ prepared[k].status \notin Startable \union {"COMPLETED"}
          /\ Goto("polling")
          /\ UNCHANGED <<prepared, workers>>
    /\ UNCHANGED <<stores, restarts, misjudged, paid>>

\* The outcomes after which the next key is tried.
Unusable == {"FAILED_FINAL", "CANCELLED"}

\* A failure that could be retried is left for a new key.
UnusableOrRetryable == {"FAILED_FINAL", "CANCELLED", "FAILED_RETRYABLE"}

TryNext == Unusable

\* The loop over the status; whatever it does not wait for ends in a timeout.
PollRun ==
    /\ At("polling")
    /\ LET status == prepared[command.key].status IN
       \/ status = "COMPLETED" /\ Goto("interpret")
       \/ status \in TryNext /\ command' = [command EXCEPT !.pc = "key", !.key = @ + 1]
       \/ status \notin Unusable \union {"COMPLETED"} /\ GiveUp
    /\ UNCHANGED <<stores, prepared, workers, restarts, misjudged, paid>>

\* An interpretation that is stored is used again; another shape of it raises.
Reused == exchanges[command.key] = "good"

\* _existingPreparedInterpretation, or the call for a new one.
Interpret ==
    /\ At("interpret")
    /\ IF Reused THEN Goto("grant") /\ UNCHANGED paid
       ELSE IF exchanges[command.key] = "other" THEN GiveUp /\ UNCHANGED paid
       ELSE Goto("answer") /\ paid' = paid + 1
    /\ UNCHANGED <<stores, prepared, workers, restarts, misjudged>>

\* The answer is refused, or saved unless its result is gone or its conversation
\* has been deleted.
Interpreted ==
    /\ At("answer")
    /\ LET k == command.key IN
       \/ GiveUp /\ UNCHANGED exchanges
       \/ /\ prepared[k].status = "COMPLETED" /\ exchanges[k] # "gone"
          /\ exchanges' = [exchanges EXCEPT ![k] = "good"]
          /\ Goto("grant")
    /\ UNCHANGED <<route, eventPack, scenario, prepared, granted, workflow, workers, restarts,
                   misjudged, paid>>

Grant ==
    /\ At("grant")
    /\ granted' = command.key
    /\ GiveUp
    /\ UNCHANGED <<route, eventPack, scenario, prepared, exchanges, workflow, workers, restarts,
                   misjudged, paid>>

\* The process is killed, wherever it is, and its worker with it.
CommandCrashes ==
    /\ command.id > 0
    /\ GiveUp
    /\ workers' = {w \in workers : w[1] # command.id}
    /\ UNCHANGED <<stores, prepared, restarts, misjudged, paid>>

\* reset starts like prepare; it deletes the workflows of a granted account.
Reset ==
    /\ At("idle")
    /\ Initialize(workers)
    /\ workflow' = IF granted = 0 THEN workflow ELSE 0
    /\ UNCHANGED <<route, eventPack, scenario, exchanges, granted, command, restarts, paid>>

-----------------------------------------------------------------------------
(* The runs, the server and its user.                                      *)

\* The last write of a run does not look at the row.
RunEnds(w) ==
    /\ w \in workers
    /\ \E outcome \in {"COMPLETED", "FAILED_RETRYABLE", "FAILED_FINAL", "CANCELLED"} :
          prepared' = [prepared EXCEPT ![w[2]].status = outcome]
    /\ workers' = workers \ {w}
    /\ UNCHANGED <<stores, command, restarts, misjudged, paid>>

ServerRestarts ==
    /\ restarts < MaxRestarts
    /\ restarts' = restarts + 1
    /\ Initialize({w \in workers : w[1] # 0})
    /\ UNCHANGED <<stores, command, paid>>

\* The user starts, cancels or invalidates an experiment of the path.
UserStarts(k) ==
    /\ prepared[k].status \in Startable
    /\ <<0, k>> \notin workers
    /\ prepared' = [prepared EXCEPT ![k].status = "ACTIVE"]
    /\ workers' = workers \union {<<0, k>>}
    /\ UNCHANGED <<stores, command, restarts, misjudged, paid>>

UserChanges(k) ==
    /\ \/ /\ prepared[k].status = "READY"
          /\ prepared' = [prepared EXCEPT ![k].status = "CANCELLED"]
       \/ /\ prepared[k].status \in {"ACTIVE", "FAILED_RETRYABLE"}
          /\ prepared' = [prepared EXCEPT ![k].status = "CANCEL_REQUESTED"]
       \/ /\ prepared[k].status = "COMPLETED"
          /\ prepared' = [prepared EXCEPT ![k].status = "INVALIDATED"]
    /\ UNCHANGED <<stores, command, workers, restarts, misjudged, paid>>

\* The user asks a question in the prepared conversation, or deletes it.
UserConverses(k) ==
    /\ \/ /\ exchanges[k] = "good" /\ prepared[k].status = "COMPLETED"
          /\ exchanges' = [exchanges EXCEPT ![k] = "other"]
       \/ /\ exchanges[k] \in {"good", "other"}
          /\ exchanges' = [exchanges EXCEPT ![k] = "gone"]
    /\ UNCHANGED <<route, eventPack, scenario, prepared, granted, workflow, command, workers,
                   restarts, misjudged, paid>>

\* configuration and _assertReady: what the path is made of is still there.
PathReady ==
    /\ granted # 0
    /\ eventPack = "frozen"
    /\ scenario # NoRoute
    /\ prepared[granted].status = "COMPLETED"

\* initialDraft: a new workflow is linked to the granted experiment.
OpenWorkflow ==
    /\ PathReady
    /\ workflow' = granted
    /\ UNCHANGED <<route, eventPack, scenario, prepared, exchanges, granted, command, workers,
                   restarts, misjudged, paid>>

\* The administrator stores another credential; the command has read its own.
ChangeRoute ==
    /\ route' \in Routes \ {route}
    /\ UNCHANGED <<eventPack, scenario, prepared, exchanges, granted, workflow, command, workers,
                   restarts, misjudged, paid>>

-----------------------------------------------------------------------------
PreparedNext ==
    \/ BeginPrepare \/ PrepareEventPack \/ SaveScenario \/ UseKey \/ StartRun \/ PollRun
    \/ Interpret \/ Interpreted \/ Grant \/ CommandCrashes \/ Reset
    \/ ServerRestarts \/ OpenWorkflow \/ ChangeRoute
    \/ \E w \in workers : RunEnds(w)
    \/ \E k \in RowKeys : UserStarts(k) \/ UserChanges(k) \/ UserConverses(k)

PreparedSpec == PreparedInit /\ [][PreparedNext]_preparedVars

-----------------------------------------------------------------------------
\* The type invariant of the path.
PreparedTypeOK ==
    /\ route \in Routes /\ scenario \in Routes \union {NoRoute}
    /\ eventPack \in {"none", "draft", "frozen"}
    /\ prepared \in [RowKeys -> [status : RowStatuses, of : Routes \union {NoRoute}]]
    /\ exchanges \in [RowKeys -> {"none", "good", "other", "gone"}]
    /\ {granted, workflow} \subseteq 0 .. KeyCount
    /\ command \in [id : 0 .. MaxCommands, of : Routes \union {NoRoute}, key : 1 .. KeyCount + 1,
                    pc : {"idle", "pack", "scenario", "key", "start", "polling", "interpret",
                          "answer", "grant"}]
    /\ workers \subseteq (0 .. MaxCommands) \X RowKeys
    /\ restarts \in 0 .. MaxRestarts /\ misjudged \in BOOLEAN /\ paid \in Nat

\* Until a start has declared a live run of another process dead, an experiment has
\* one worker in all processes, and a row that is not live has none.
OneWorkerPerRow ==
    ~misjudged =>
        \A k \in RowKeys :
            LET of == {w \in workers : w[2] = k} IN
            /\ Cardinality(of) <= 1
            /\ of # {} => prepared[k].status \in Running

\* What an account is granted, or has opened, was interpreted: no workflow leads to a
\* result whose explanation was never made.
GrantedIsInterpreted ==
    \A k \in {granted, workflow} \ {0} : exchanges[k] # "none"

\* A preparation that finds a verified, interpreted experiment of its own route pays
\* for nothing: it starts no run and asks for no interpretation.
PreparedOnce ==
    LET Saved(k) == /\ prepared[k] = [status |-> "COMPLETED", of |-> command.of]
                   /\ exchanges[k] = "good"
        Spends == paid' # paid \/ \E k \in RowKeys : <<command.id, k>> \in workers' \ workers
    IN  ~misjudged /\ Spends => ~\E k \in RowKeys : Saved(k)

\* The three together: a preparation can be repeated, interrupted and shared with the
\* server without a second run or a second payment for what is already there.
PathStep == OneWorkerPerRow' /\ GrantedIsInterpreted' /\ PreparedOnce

\* The comment of initialDraft: what the path shows and the saved result belong to one
\* object of research, so the scenario is the one its experiment was run with.
PathIsOneObject == PathReady /\ At("idle") => scenario = prepared[granted].of
=============================================================================
