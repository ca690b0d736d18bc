---------------------------- MODULE MCSimulation ----------------------------
(***************************************************************************)
(* Small instances of the parts of a run: the event loop, the limit order  *)
(* book, the event queue, the intents of one agent and the cognition phase *)
(* before the first pair.                                                  *)
(* They share no state here, so a behaviour exercises one of them.  The    *)
(* loop has three agents, one of them a market maker that only hears and   *)
(* passes on, and every way in which three links may forward at once, late *)
(* or not at all; the phase has two representatives in up to three rounds. *)
(***************************************************************************)
EXTENDS EngineLoop, OrderBook, EventQueue, AgentIntents, CognitionPhase

CONSTANTS trader, cognitive, hearer, a1, ev1, ev2, ev3, r1, r2

ThreeNodes == <<cognitive, trader, hearer>>
Links == {<<trader, cognitive>>, <<trader, hearer>>, <<hearer, cognitive>>}
AllNetworks ==
    {[l \in Nodes \X Nodes |-> IF l \in Links THEN delay[l] ELSE NoDelay] :
        delay \in [Links -> {0, 3, NoDelay}]}
OneNetwork == CHOOSE one \in AllNetworks : TRUE

\* A book with both sides, with one, and an empty one.
MarketTops == {[bid |-> 4, ask |-> 6, last |-> 4], [bid |-> 0, ask |-> 4, last |-> 6],
               [bid |-> 4, ask |-> 0, last |-> 2], [bid |-> 0, ask |-> 0, last |-> 2]}

Belief(preference, evidence, fraction, doubt, urgency) ==
    [preference |-> preference, evidence |-> evidence, fraction |-> fraction,
     uncertainty |-> doubt, confidence |-> 100 - doubt, urgency |-> urgency]
Beliefs == {Belief("INCREASE", TRUE, 100, 0, 0), Belief("INCREASE", TRUE, 50, 100, 100),
            Belief("REDUCE", TRUE, -100, 0, 50), Belief("REDUCE", FALSE, -100, 0, 50),
            Belief("EXIT", TRUE, 100, 0, 100), Belief("EXIT", TRUE, 0, 100, 20),
            Belief("HOLD", TRUE, 100, 0, 100), Belief("unknown", TRUE, 100, 0, 100)}

VARIABLE part
simulationVars == <<part, loopVars, vars, queueVars, intentVars, cognitionVars>>

SimulationInit ==
    /\ part \in {"loop", "book", "queue", "agent", "phase"}
    /\ EngineInit /\ Init /\ QueueInit /\ AgentInit /\ CognitionInit
    /\ part # "loop" => network = OneNetwork /\ latency = 0
    /\ part # "agent" => actor = [type |-> "value", due |-> [i \in 1..SignalRounds |-> 0]]
    /\ part # "phase" => policy.fallbackToRules /\ policy.callBudget = Representatives

Looping ==
    part = "loop" /\ EngineNext /\ UNCHANGED <<part, vars, queueVars, intentVars, cognitionVars>>
Preparing(A) ==
    part = "phase" /\ A /\ UNCHANGED <<part, loopVars, vars, queueVars, intentVars>>

SimulationNext ==
    \/ Looping
    \/ part = "book" /\ Next /\ UNCHANGED <<part, loopVars, queueVars, intentVars, cognitionVars>>
    \/ part = "queue" /\ QueueNext /\ UNCHANGED <<part, loopVars, vars, intentVars, cognitionVars>>
    \/ part = "agent" /\ AgentNext /\ UNCHANGED <<part, loopVars, vars, queueVars, cognitionVars>>
    \/ Preparing(CognitionNext)

SimulationSpec ==
    /\ SimulationInit
    /\ [][SimulationNext]_simulationVars
    /\ WF_simulationVars(Looping) /\ WF_simulationVars(Preparing(WorkerStep))

\* Every value of the loop, the book, the queue, the agent and the phase has its type.
SimulationTypeOK == EngineTypeOK /\ TypeOK /\ QueueTypeOK /\ AgentTypeOK /\ CognitionTypeOK

\* What the agents act upon is what it says it is, and what they do keeps to their limits:
\* a claim reaches nobody before its cause, signals of the model are told from those of
\* the rules, intents and prices are bounded, and positions stay within them however late
\* the orders come.
AgentsActSoundly ==
    /\ InformationIsCausal /\ SignalsAreHonest
    /\ HoldingWithinLimit /\ IntentsBounded /\ PricesProtected

\* A run and the cognition before it come to their ends, and what they ended with
\* stays (EventDrivenMarket.run, _prepareCognitiveSignals).
RunAndPhaseEnd == RunEnds /\ PhaseEnds
=============================================================================
