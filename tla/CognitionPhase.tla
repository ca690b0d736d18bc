---------------------------- MODULE CognitionPhase ----------------------------
(***************************************************************************)
(* The cognition phase of a hybrid experiment.  The simulation worker asks *)
(* the representatives of one decision round after the other for a belief, *)
(* reruns a pilot market after each round so that the next round observes  *)
(* the effect, and freezes the sequence of signals for every matched pair. *)
(* Meanwhile the owner may ask to continue with rules, in a handler that   *)
(* reads the row and writes it back, and the process may restart.          *)
(*                                                                         *)
(* ModelCalls has the calls; here a call ends with a model's decision, a   *)
(* rule's fallback, an expected error or an unexpected one.                *)
(***************************************************************************)
EXTENDS Integers, Sequences, FiniteSets

CONSTANTS
    Representatives,  \* representativeCount
    DecisionRounds,   \* ceil(steps / decisionIntervalSteps)
    CallBudgets,      \* the values of llmPolicy.callBudget
    FailureReasons,   \* the reasons of a fallback or an error
    BreakerLimit,     \* the repetitions that open the circuit: 3
    NoReason,         \* failureCode None
    NoTape            \* no frozen cognition run

ASSUME CognitionAssumption ==
    /\ {Representatives, DecisionRounds, BreakerLimit} \subseteq Nat \ {0}
    /\ CallBudgets \subseteq Nat
    /\ NoReason \notin FailureReasons \cup {"CONTINUATION", "CIRCUIT_OPEN"}

VARIABLES
    policy,   \* llmPolicy: fallbackToRules, callBudget
    worker,   \* the locals of _prepareCognitiveSignals
    tape,     \* the cognitionRun of the checkpoint
    row,      \* runtime_json and cognition_fallback_requested of the row
    handler,  \* a continueCognitionWithRules between its read and its write
    lateCalls \* the calls begun since the flag was written

cognitionVars == <<policy, worker, tape, row, handler, lateCalls>>

WorkerSteps == {"starting", "pilot", "checking", "dispatching", "calling", "feedback",
          "frozen", "paired", "raised"}

PlannedCalls(callBudget) ==
    IF callBudget < Representatives * DecisionRounds
    THEN callBudget ELSE Representatives * DecisionRounds

NewWorker ==
    [step |-> "starting", round |-> 1, index |-> 0, thisRound |-> 0, remaining |-> 0,
     attempted |-> 0, signals |-> <<>>, roundStart |-> 0, pilotSignals |-> 0,
     fallbacks |-> 0, repeated |-> [r \in FailureReasons |-> 0],
     failureCode |-> NoReason, continued |-> FALSE]

FreshRow == [phase |-> "COGNITION", status |-> "NONE", requested |-> FALSE]

CognitionInit ==
    /\ policy \in [fallbackToRules : BOOLEAN, callBudget : CallBudgets]
    /\ worker = NewWorker
    /\ tape = NoTape
    /\ row = FreshRow
    /\ handler = FALSE
    /\ lateCalls = 0

-----------------------------------------------------------------------------
(* The worker.  reportProgress and the steps after it write its whole      *)
(* runtime over the row's.                                                 *)

ReportProgress(status) == row' = [row EXCEPT !.phase = "COGNITION", !.status = status]

\* Ending the phase with its result; the checkpoint freezes the signals.
Freeze(mode, signals, status) ==
    /\ tape' = [mode |-> mode, signals |-> signals, planned |-> PlannedCalls(policy.callBudget)]
    /\ worker' = [worker EXCEPT !.step = "frozen"]
    /\ ReportProgress(status)

\* What a strict experiment does where an elastic one falls back to rules.
FallBackOrRaise(signals) ==
    IF policy.fallbackToRules
    THEN Freeze("RULE_FALLBACK", signals, "COMPLETED")
    ELSE /\ worker' = [worker EXCEPT !.step = "raised"]
         /\ UNCHANGED <<tape, row>>

\* No credential, another model, no approved evidence or no price.
NotAvailable ==
    /\ worker.step = "starting"
    /\ FallBackOrRaise(<<>>)
    /\ UNCHANGED <<policy, handler, lateCalls>>

NothingPlanned ==
    /\ worker.step = "starting"
    /\ PlannedCalls(policy.callBudget) = 0
    /\ Freeze("HYBRID_NO_REPRESENTATIVE_AGENTS", <<>>, "COMPLETED")
    /\ UNCHANGED <<policy, handler, lateCalls>>

Initialize ==
    /\ worker.step = "starting"
    /\ PlannedCalls(policy.callBudget) > 0
    /\ worker' = [worker EXCEPT !.step = "pilot", !.remaining = PlannedCalls(policy.callBudget)]
    /\ ReportProgress("IN_PROGRESS")
    /\ UNCHANGED <<policy, tape, handler, lateCalls>>

InitialPilotFails ==
    /\ worker.step = "pilot"
    /\ FallBackOrRaise(<<>>)
    /\ UNCHANGED <<policy, handler, lateCalls>>

\* The head of the loop over the rounds.
EnterRound(w, round) ==
    LET calls == IF w.remaining < Representatives THEN w.remaining ELSE Representatives IN
    [w EXCEPT !.step = "checking", !.round = round, !.index = 1, !.thisRound = calls,
              !.roundStart = Len(w.signals)]

PilotReady ==
    /\ worker.step = "pilot"
    /\ worker' = EnterRound(worker, 1)
    /\ ReportProgress("IN_PROGRESS")
    /\ UNCHANGED <<policy, tape, handler, lateCalls>>

\* cognitionFallbackRequested is polled before every call.
CheckContinuation ==
    /\ worker.step = "checking"
    /\ IF row.requested
       THEN /\ worker' = [worker EXCEPT !.step = "feedback", !.continued = TRUE,
                                        !.failureCode = "CONTINUATION"]
            /\ ReportProgress("RULE_CONTINUATION_REQUESTED")
       ELSE /\ worker' = [worker EXCEPT !.step = "dispatching"]
            /\ UNCHANGED row
    /\ UNCHANGED <<policy, tape, handler, lateCalls>>

Dispatch ==
    /\ worker.step = "dispatching"
    /\ worker' = [worker EXCEPT !.step = "calling", !.attempted = @ + 1]
    /\ lateCalls' = IF row.requested THEN lateCalls + 1 ELSE lateCalls
    /\ ReportProgress("IN_PROGRESS")
    /\ UNCHANGED <<policy, tape, handler>>

\* The observation was made in the pilot that was current when the round began.
Signal(source) ==
    [round |-> worker.round, agent |-> worker.index, source |-> source,
     pilotSignals |-> worker.pilotSignals]

\* The next representative of the round, or the end of the round.
NextRepresentative(w) ==
    IF w.index = w.thisRound
    THEN [w EXCEPT !.step = "feedback"]
    ELSE [w EXCEPT !.step = "checking", !.index = @ + 1]

ModelDecides ==
    /\ worker.step = "calling"
    /\ worker' = NextRepresentative([worker EXCEPT
                    !.signals = Append(@, Signal("model"))])
    /\ ReportProgress("IN_PROGRESS")
    /\ UNCHANGED <<policy, tape, handler, lateCalls>>

\* One more repetition than the limit.
CircuitOpensLate(repetitions) == repetitions > BreakerLimit

CircuitOpens(repetitions) == repetitions >= BreakerLimit

\* The failures of the run by reason, with one more.
Again(reason) == [worker.repeated EXCEPT ![reason] = @ + 1]

\* The third fallback for one reason opens the circuit.
RuleDecides(reason) ==
    /\ worker.step = "calling"
    /\ policy.fallbackToRules
    /\ LET w == [worker EXCEPT !.signals = Append(@, Signal("rule")),
                               !.fallbacks = @ + 1,
                               !.repeated = Again(reason)]
       IN  worker' = IF CircuitOpens(w.repeated[reason])
                     THEN [w EXCEPT !.step = "feedback", !.failureCode = "CIRCUIT_OPEN"]
                     ELSE NextRepresentative(w)
    /\ ReportProgress("IN_PROGRESS")
    /\ UNCHANGED <<policy, tape, handler, lateCalls>>

\* A gateway or credential error ends the round, and the phase with it.
CallFails(reason) ==
    /\ worker.step = "calling"
    /\ IF policy.fallbackToRules
       THEN /\ worker' = [worker EXCEPT !.step = "feedback", !.failureCode = reason,
                                        !.repeated = Again(reason)]
            /\ ReportProgress("IN_PROGRESS")
       ELSE /\ worker' = [worker EXCEPT !.step = "raised"]
            /\ UNCHANGED row
    /\ UNCHANGED <<policy, tape, handler, lateCalls>>

\* A conflict or overflow of the decision cache is caught by neither.
CallRaises ==
    /\ worker.step = "calling"
    /\ worker' = [worker EXCEPT !.step = "raised"]
    /\ UNCHANGED <<policy, tape, row, handler, lateCalls>>

\* The mode the result reports.
ResolvedMode(w) ==
    IF Len(w.signals) > 0 /\ w.fallbacks = Len(w.signals) THEN "RULE_FALLBACK"
    ELSE IF w.fallbacks > 0 \/ (w.failureCode # NoReason /\ Len(w.signals) > 0)
         THEN "HYBRID_LLM_PARTIAL_RULE_FALLBACK"
    ELSE IF w.failureCode # NoReason THEN "RULE_FALLBACK"
    ELSE "HYBRID_LLM"

Mode(w) == ResolvedMode(w)

\* The calls of the round are taken off the plan.
Spent(w) == [w EXCEPT !.remaining = @ - (Len(w.signals) - w.roundStart)]

AfterRound(w) == Spent(w)

Ends(w) == w.failureCode # NoReason \/ w.round = DecisionRounds \/ w.remaining = 0

\* The pilot that shows the next round what the signals so far have done.
PilotAfter(w) == [w EXCEPT !.pilotSignals = Len(w.signals)]

\* A round with new signals reruns the pilot, and the loop goes on or ends.
Feedback ==
    /\ worker.step = "feedback"
    /\ LET spent == AfterRound(worker)
           seen == IF Len(spent.signals) > spent.roundStart THEN PilotAfter(spent) ELSE spent
       IN  IF Ends(seen)
           THEN Freeze(Mode(seen), seen.signals,
                       IF seen.continued THEN "COMPLETED_WITH_RULE_CONTINUATION" ELSE "COMPLETED")
           ELSE /\ worker' = EnterRound(seen, seen.round + 1)
                /\ UNCHANGED <<tape, row>>
    /\ UNCHANGED <<policy, handler, lateCalls>>

\* A pilot that fails with a half-verified sequence keeps what it has.
FeedbackFailsKeeping ==
    /\ worker.step = "feedback"
    /\ Len(worker.signals) > worker.roundStart
    /\ FallBackOrRaise(worker.signals)
    /\ UNCHANGED <<policy, handler, lateCalls>>

\* When the pilot cannot be rerun every signal so far is discarded.
FeedbackFails ==
    /\ worker.step = "feedback"
    /\ Len(worker.signals) > worker.roundStart
    /\ FallBackOrRaise(<<>>)
    /\ UNCHANGED <<policy, handler, lateCalls>>

\* The first matched pair writes the runtime of the next phase.
StartPair ==
    /\ worker.step = "frozen"
    /\ worker' = [worker EXCEPT !.step = "paired"]
    /\ row' = [row EXCEPT !.phase = "BASELINE"]
    /\ UNCHANGED <<policy, tape, handler, lateCalls>>

-----------------------------------------------------------------------------
(* The owner's handler and the restart of the process.                     *)

\* The handler reads a row that is preparing and whose owner allowed rules.
ContinueRead ==
    /\ ~handler
    /\ ~row.requested
    /\ row.phase = "COGNITION"
    /\ policy.fallbackToRules
    /\ worker.step # "raised"
    /\ handler' = TRUE
    /\ UNCHANGED <<policy, worker, tape, row, lateCalls>>

\* It writes the runtime it read, whatever the worker has stored since.
ContinueWrite ==
    /\ handler
    /\ handler' = FALSE
    /\ row' = [phase |-> "COGNITION", status |-> "RULE_CONTINUATION_REQUESTED",
               requested |-> TRUE]
    /\ lateCalls' = 0
    /\ UNCHANGED <<policy, worker, tape>>

\* A start or a retry: a frozen sequence is restored, a partial one is made anew,
\* and the flag of the run before is cleared.
Restart ==
    /\ worker.step # "paired"
    /\ worker' = [NewWorker EXCEPT !.step = IF tape = NoTape THEN "starting" ELSE "frozen"]
    /\ row' = FreshRow
    /\ handler' = FALSE
    /\ lateCalls' = 0
    /\ UNCHANGED <<policy, tape>>

-----------------------------------------------------------------------------
WorkerStep ==
    \/ NotAvailable \/ NothingPlanned \/ Initialize
    \/ InitialPilotFails \/ PilotReady
    \/ CheckContinuation \/ Dispatch
    \/ ModelDecides \/ CallRaises
    \/ \E reason \in FailureReasons : RuleDecides(reason) \/ CallFails(reason)
    \/ Feedback \/ FeedbackFails
    \/ StartPair

CognitionNext == WorkerStep \/ ContinueRead \/ ContinueWrite \/ Restart

CognitionSpec == CognitionInit /\ [][CognitionNext]_cognitionVars /\ WF_cognitionVars(WorkerStep)

-----------------------------------------------------------------------------
\* The type invariant of the phase.
CognitionTypeOK ==
    /\ policy \in [fallbackToRules : BOOLEAN, callBudget : CallBudgets]
    /\ worker.step \in WorkerSteps
    /\ worker.round \in 1 .. DecisionRounds
    /\ {worker.index, worker.thisRound} \subseteq 0 .. Representatives
    /\ worker.remaining \in 0 .. PlannedCalls(policy.callBudget)
    /\ worker.attempted \in 0 .. Representatives * DecisionRounds
    /\ worker.repeated \in [FailureReasons -> 0 .. BreakerLimit]
    /\ row.requested \in BOOLEAN
    /\ handler \in BOOLEAN
    /\ lateCalls \in Nat

\* callBudget bounds the calls of the whole sequence, not of a round, however the
\* rounds end and whatever the breaker does.
CallsWithinBudget == worker.attempted <= policy.callBudget

\* The loop is closed: a signal was decided in a pilot that had run with all the
\* signals of the rounds before it and none of its own round.
SignalsSeeEarlierRounds ==
    \A i \in DOMAIN worker.signals :
        worker.signals[i].pilotSignals =
            Cardinality({j \in DOMAIN worker.signals :
                            worker.signals[j].round < worker.signals[i].round})

\* What the result says of its signals is true: HYBRID_LLM means that every planned
\* call was made and answered by the model, RULE_FALLBACK that no model's signal
\* reaches a matched pair, and a strict experiment has no rule's signal at all.
ModeTellsTheTruth ==
    tape # NoTape =>
        LET sources == {tape.signals[i].source : i \in DOMAIN tape.signals} IN
        /\ tape.mode = "HYBRID_LLM" =>
              Len(tape.signals) = tape.planned /\ "rule" \notin sources
        /\ tape.mode = "RULE_FALLBACK" => "model" \notin sources
        /\ ~policy.fallbackToRules => "rule" \notin sources

\* A request to continue with rules stops the phase: at most the one call that had
\* passed its check begins after the request was stored.
RequestStopsCalls == lateCalls <= 1

\* The signals of a sequence are what the result says they are: within the budget,
\* each made with those before it, none begun after the user asked to stop.
SignalsAreHonest ==
    /\ CallsWithinBudget /\ RequestStopsCalls
    /\ SignalsSeeEarlierRounds /\ ModeTellsTheTruth

\* The sequence is frozen for all matched pairs: no restart, retry or late handler
\* changes it once it is checkpointed.
TapeIsFrozen == [][tape # NoTape => tape' = tape]_cognitionVars

\* Unless the process keeps restarting, a phase that has begun ends: with a frozen
\* sequence, or with the error of a strict experiment or of the cache.
PhaseTerminates ==
    <>[][~Restart]_cognitionVars =>
        (worker.step = "pilot" ~> worker.step \in {"paired", "raised"})

\* The phase comes to an end, and its end is for good.
PhaseEnds == PhaseTerminates /\ TapeIsFrozen

\* The handler refuses a request unless cognition is preparing: a request is stored
\* only while a sequence can still be cut short.
ContinuationOnlyWhilePreparing ==
    [][row'.requested /\ ~row.requested => tape = NoTape]_cognitionVars
=============================================================================
