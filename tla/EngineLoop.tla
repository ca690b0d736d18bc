----------------------------- MODULE EngineLoop -----------------------------
(***************************************************************************)
(* The event loop of runScenario in simulation/engine.py: information      *)
(* spreads first, the agenda of the run is laid out, then its events are   *)
(* taken one at a time.  Market updates may halt trading, agents that are  *)
(* activated form orders that reach the exchange after the latency, and    *)
(* every step ends with the capture of its metrics.  Prices are abstracted *)
(* to whether they moved beyond the halt threshold; what an order does at  *)
(* the exchange is MarketKernel's.                                         *)
(***************************************************************************)
EXTENDS Propagation

CONSTANTS
    Steps, StepLength,      \* number of steps and the milliseconds of one
    Latencies,              \* values of latencyMs, which a run takes one of
    ShockStep, FactStep, ClarificationStep,
    Traders,                \* population without the market makers
    Cognitive,              \* traders with a cognitive signal, one each
    ActiveFrom,             \* activeFromStep of the signals
    HaltDuration, MaxHalts  \* volatilityHaltDurationSteps, maximumVolatilityHalts

ASSUME EngineAssumption ==
    /\ {Steps, StepLength} \subseteq Nat \ {0}
    /\ {ShockStep, FactStep, ClarificationStep, ActiveFrom} \cup Latencies \subseteq Nat
    /\ HaltDuration \in Nat \ {0} /\ MaxHalts \in Nat
    /\ Cognitive \subseteq Traders /\ Traders \subseteq Nodes

VARIABLES
    phase,          \* where runScenario is
    latency,        \* runtime.latencyMs
    now, sequence, pending,     \* the event queue, see Agenda
    last,           \* the key of the last of processedEvents
    market,         \* marketState
    haltUntil,      \* haltUntilStep
    haltCount, haltedSteps,
    intents,        \* the intents of agents that led to an order
    informed,       \* latestInformationTraceByAgent
    traced,         \* receiptTraceIds: nodes whose receipt has a trace
    fact,           \* factTraceId
    signalsUsed,    \* cognitiveUseCount
    captured,       \* how many steps have metrics
    haltedCaptures  \* history: those captured while the market was halted

engineVars == <<phase, latency, now, sequence, pending, last, market, haltUntil, haltCount,
                haltedSteps, intents, informed, traced, fact, signalsUsed, captured,
                haltedCaptures>>

Priority == [market |-> 10, fact |-> 20, clarification |-> 20, delivery |-> 30,
             agents |-> 40, order |-> 50, flow |-> 50, metrics |-> 80]
Kinds == DOMAIN Priority
Times == 0..(Steps * StepLength - 1)
Jobs == [kind : Kinds, of : Nodes \cup {NoOne}, order : Nat]
Queue == INSTANCE Agenda WITH Priorities <- {Priority[k] : k \in Kinds}

OrderStates == {"EXPIRED", "SCHEDULED", "HALT_REJECTED", "ARRIVED"}
Order == [agent : Traders, made : Nat, state : OrderStates]

EngineTypeOK ==
    /\ PropagationTypeOK /\ latency \in Latencies
    /\ phase \in {"idle", "network", "running", "cancelled", "done"}
    /\ now \in Times /\ sequence \in Nat
    /\ pending \subseteq Queue!Event /\ last \in [time : Nat, priority : Nat, seq : Nat]
    /\ market \in {"CONTINUOUS", "HALTED"} /\ haltUntil \in 0..Steps
    /\ haltCount \in 0..MaxHalts /\ {haltedSteps, haltedCaptures, captured} \subseteq 0..Steps
    /\ \A i \in DOMAIN intents : intents[i] \in Order
    /\ informed \subseteq Nodes /\ traced \subseteq Nodes /\ fact \in BOOLEAN
    /\ signalsUsed \subseteq Cognitive

EngineInit ==
    /\ PropagationInit /\ latency \in Latencies
    /\ phase = "idle" /\ now = 0 /\ sequence = 0 /\ pending = {}
    /\ last = [time |-> 0, priority |-> 0, seq |-> 0]
    /\ market = "CONTINUOUS" /\ haltUntil = 0 /\ haltCount = 0 /\ haltedSteps = 0
    /\ intents = <<>> /\ informed = {} /\ traced = {} /\ fact = FALSE /\ signalsUsed = {}
    /\ captured = 0 /\ haltedCaptures = 0

\* runScenario is called
RunScenario ==
    /\ phase = "idle" /\ phase' = "network"
    /\ UNCHANGED <<latency, now, sequence, pending, last, market, haltUntil, haltCount, haltedSteps,
                   intents, informed, traced, fact, signalsUsed, captured, haltedCaptures,
                   networkVars>>

SpreadInformation == phase = "network" /\ Spread /\ UNCHANGED engineVars

Lesser(a, b) == IF a <= b THEN a ELSE b
Start(step) == step * StepLength
StepOf(time) == Lesser(Steps - 1, time \div StepLength)
EndOfRun == Steps * StepLength

CaptureTime(step) == Start(step) + StepLength - 1
Arrives(time) == time + latency < EndOfRun

\* _buildEventQueue: the entries of a step, in the order in which it schedules them
RowOf == [market |-> 1, fact |-> 2, clarification |-> 3, agents |-> 4, flow |-> 5, metrics |-> 6]
TimeOf(step, kind) ==
    CASE kind = "flow"    -> Start(step) + latency
      [] kind = "metrics" -> CaptureTime(step)
      [] OTHER            -> Start(step)

Entries ==
    {e \in (0..(Steps - 1)) \X DOMAIN RowOf :
        /\ e[2] = "fact" => e[1] = FactStep
        /\ e[2] = "clarification" => e[1] = ClarificationStep
        /\ e[2] = "flow" =>
              ShockStep <= e[1] /\ e[1] < ShockStep + 4 /\ Arrives(Start(e[1]))}
NumberOf(e) ==
    Cardinality({f \in Entries : f[1] < e[1] \/ (f[1] = e[1] /\ RowOf[f[2]] <= RowOf[e[2]])})

\* an event of the queue as it is built, from an empty one
Event(time, kind, node, number) ==
    [time |-> time, priority |-> Priority[kind], seq |-> number,
     job |-> [kind |-> kind, of |-> node, order |-> 0]]

\* propagate returns its receipts by arrival, hop count and node
ReceiptOrder(m, n) ==
    LET r == receipts[m]
        s == receipts[n]
    IN  \/ r.at < s.at
        \/ r.at = s.at /\ r.hop < s.hop
        \/ r.at = s.at /\ r.hop = s.hop /\ Rank(m) < Rank(n)

\* _prepareInformationNetwork: a delivery to each node, in the step after the
\* arrival, or in the last one
DeliveryStep(n) ==
    LET late == receipts[n].at - KnownAt
    IN  Lesser(Steps - 1, FactStep + (late + StepLength - 1) \div StepLength)

Reached == IF FactStep < Steps THEN DOMAIN receipts ELSE {}
PlaceOf(n) == Cardinality({m \in Reached : m = n \/ ReceiptOrder(m, n)})
Delivery(n) ==
    Event(Start(DeliveryStep(n)), "delivery", n, Cardinality(Entries) + PlaceOf(n))

LaidOut ==
    {Event(TimeOf(e[1], e[2]), e[2], NoOne, NumberOf(e)) : e \in Entries}
        \cup {Delivery(n) : n \in Reached}

LayOut ==
    /\ phase = "network" /\ ~Spreading /\ phase' = "running"
    /\ pending' = LaidOut
    /\ sequence' = Cardinality(Entries) + Cardinality(Reached)
    /\ UNCHANGED <<latency, now, last, market, haltUntil, haltCount, haltedSteps, intents, informed,
                   traced, fact, signalsUsed, captured, haltedCaptures, networkVars>>

\* the next event is taken, and told to processedEvents
Process(e, kind) ==
    /\ phase = "running" /\ Queue!IsNext(e) /\ e.job.kind = kind
    /\ now' = e.time /\ last' = [time |-> e.time, priority |-> e.priority, seq |-> e.seq]
    /\ UNCHANGED <<latency, networkVars>>

Taken(e) == pending' = pending \ {e} /\ UNCHANGED <<sequence, phase>>

Cancelled(e) ==
    /\ Process(e, "market") /\ phase' = "cancelled" /\ pending' = pending \ {e}
    /\ UNCHANGED <<sequence, market, haltUntil, haltCount, haltedSteps, intents, informed,
                   traced, fact, signalsUsed, captured, haltedCaptures>>

Resumes(step) == step >= haltUntil

\* _updateMarketState; the market makers' quotes are MarketKernel's
MarketUpdated(e, moved) ==
    /\ Process(e, "market") /\ Taken(e)
    /\ LET step == StepOf(e.time)
       IN  \/ /\ market = "HALTED" /\ haltedSteps' = haltedSteps + 1
              /\ IF Resumes(step) THEN market' = "CONTINUOUS" /\ haltUntil' = 0
                 ELSE UNCHANGED <<market, haltUntil>>
              /\ UNCHANGED haltCount
           \/ /\ market = "CONTINUOUS" /\ moved /\ haltCount < MaxHalts /\ step > 0
              /\ captured > 0
              /\ market' = "HALTED" /\ haltCount' = haltCount + 1
              /\ haltedSteps' = haltedSteps + 1
              /\ haltUntil' = Lesser(Steps - 1, step + HaltDuration)
           \/ /\ market = "CONTINUOUS"
              /\ ~moved \/ haltCount >= MaxHalts \/ step = 0 \/ captured = 0
              /\ UNCHANGED <<market, haltUntil, haltCount, haltedSteps>>
    /\ UNCHANGED <<intents, informed, traced, fact, signalsUsed, captured, haltedCaptures>>

FactReleased(e) ==
    /\ Process(e, "fact") /\ Taken(e) /\ fact' = TRUE
    /\ UNCHANGED <<market, haltUntil, haltCount, haltedSteps, intents, informed, traced,
                   signalsUsed, captured, haltedCaptures>>

\* a trace without effect on the run
ClarificationReleased(e) ==
    /\ Process(e, "clarification") /\ Taken(e)
    /\ UNCHANGED <<market, haltUntil, haltCount, haltedSteps, intents, informed, traced, fact,
                   signalsUsed, captured, haltedCaptures>>

\* _recordNetworkDelivery
Delivered(e) ==
    /\ Process(e, "delivery") /\ Taken(e)
    /\ traced' = traced \cup {e.job.of} /\ informed' = informed \cup {e.job.of}
    /\ UNCHANGED <<market, haltUntil, haltCount, haltedSteps, intents, fact, signalsUsed,
                   captured, haltedCaptures>>

\* agents whose signal takes part: unused, due, and with information to act on
Ready(step) == {a \in Cognitive \ signalsUsed : step >= ActiveFrom /\ a \in informed}

\* _activateAgents: those that form an order, in the order of the population;
\* an order that would arrive after the end of the run expires at once
AgentsActivated(e, acting) ==
    /\ Process(e, "agents")
    /\ IF market = "HALTED"
       THEN Taken(e) /\ acting = {} /\ UNCHANGED <<intents, signalsUsed>>
       ELSE LET who == InOrder(acting)
                made == [i \in DOMAIN who |->
                            [agent |-> who[i], made |-> e.time,
                             state |-> IF Arrives(e.time) THEN "SCHEDULED" ELSE "EXPIRED"]]
            IN  /\ signalsUsed' = signalsUsed \cup Ready(StepOf(e.time))
                /\ intents' = intents \o made
                /\ IF Arrives(e.time)
                   THEN /\ pending' = (pending \ {e}) \cup
                             {Queue!At(e.time + latency, Priority.order,
                                 [kind |-> "order", of |-> who[i], order |-> Len(intents) + i], i)
                                    : i \in DOMAIN who}
                        /\ sequence' = sequence + Len(who)
                        /\ UNCHANGED phase
                   ELSE Taken(e)
    /\ UNCHANGED <<market, haltUntil, haltCount, haltedSteps, informed, traced, fact,
                   captured, haltedCaptures>>

\* mutant: a rejection is not recorded
Unrecorded(o) == IF market = "HALTED" THEN intents[o].state ELSE "ARRIVED"

Outcome(o) == IF market = "HALTED" THEN "HALT_REJECTED" ELSE "ARRIVED"

\* mutant: an order that arrives in a halt stays in the queue
OrderKept(e) ==
    /\ Process(e, "order") /\ UNCHANGED <<sequence, phase>>
    /\ IF market = "HALTED" THEN UNCHANGED <<pending, intents>>
       ELSE /\ pending' = pending \ {e}
            /\ intents' = [intents EXCEPT ![e.job.order].state = Outcome(e.job.order)]
    /\ UNCHANGED <<market, haltUntil, haltCount, haltedSteps, informed, traced, fact,
                   signalsUsed, captured, haltedCaptures>>

\* _processAgentOrderArrival
OrderArrived(e) ==
    /\ Process(e, "order") /\ Taken(e)
    /\ intents' = [intents EXCEPT ![e.job.order].state = Outcome(e.job.order)]
    /\ UNCHANGED <<market, haltUntil, haltCount, haltedSteps, informed, traced, fact,
                   signalsUsed, captured, haltedCaptures>>

\* the flow of the shock trades in MarketKernel, or is rejected in a halt
FlowArrived(e) ==
    /\ Process(e, "flow") /\ Taken(e)
    /\ UNCHANGED <<market, haltUntil, haltCount, haltedSteps, intents, informed, traced, fact,
                   signalsUsed, captured, haltedCaptures>>

MetricsCaptured(e) ==
    /\ Process(e, "metrics") /\ Taken(e) /\ captured' = captured + 1
    /\ haltedCaptures' = IF market = "HALTED" THEN haltedCaptures + 1 ELSE haltedCaptures
    /\ UNCHANGED <<market, haltUntil, haltCount, haltedSteps, intents, informed, traced, fact,
                   signalsUsed>>

Finish ==
    /\ phase = "running" /\ pending = {} /\ phase' = "done"
    /\ UNCHANGED <<latency, now, sequence, pending, last, market, haltUntil, haltCount, haltedSteps,
                   intents, informed, traced, fact, signalsUsed, captured, haltedCaptures,
                   networkVars>>

EngineNext ==
    \/ RunScenario \/ SpreadInformation \/ LayOut \/ Finish
    \/ \E e \in pending :
          \/ Cancelled(e) \/ FactReleased(e) \/ ClarificationReleased(e) \/ Delivered(e)
          \/ OrderArrived(e) \/ FlowArrived(e) \/ MetricsCaptured(e)
          \/ \E moved \in BOOLEAN : MarketUpdated(e, moved)
          \/ \E acting \in SUBSET Traders : AgentsActivated(e, acting)

loopVars == <<engineVars, networkVars>>

\* one thread runs the loop
EngineSpec == EngineInit /\ [][EngineNext]_loopVars /\ WF_loopVars(EngineNext)
-----------------------------------------------------------------------------
\* processedEvents is strictly increasing by time, priority and sequence, as
\* _eventQueueAudit checks afterwards, with orders scheduled during the run.
ProcessedInOrder == last' # last => Queue!Earlier(last, last')

\* When the metrics of a step are captured everything due in it has happened:
\* no order, delivery or flow of the step comes after its metrics.
MetricsComplete ==
    captured' # captured => \A e \in pending' : e.time >= Start(captured')

\* A receipt is traced after the one it was forwarded from, and the first of
\* them after the fact they tell of, though several may fall into one step.
CausalTraces ==
    \A n \in traced : fact /\ (receipts[n].sender # NoOne => receipts[n].sender \in traced)

\* Information keeps its causes from the network to the agents: nobody hears a
\* fact before it is public or before the neighbour it comes from, nobody misses
\* a path, and the traces of the run follow that order.
InformationIsCausal == NoFutureLeak /\ NoOfferMissed /\ CausalTraces

\* Every order on its way has exactly one arrival in the queue, and the run
\* ends with the metrics of its last step, after every order that arrives.
OrdersAccounted ==
    phase \notin {"idle", "network"} =>
    /\ {i \in DOMAIN intents : intents[i].state = "SCHEDULED"}
           = {e.job.order : e \in {f \in pending : f.job.kind = "order"}}
    /\ phase = "done" => captured = Steps /\ last.time = CaptureTime(Steps - 1)

\* Agents never find the market halted in a step after the one the halt was set
\* to end in; a halt that would outlast the run ends in its last step.  A run that
\* was cancelled leaves its halt as it was.
HaltsResume ==
    phase = "running" =>
    \A e \in pending : (e.job.kind = "agents" /\ Queue!IsNext(e) /\ market = "HALTED")
        => StepOf(e.time) < haltUntil \/ StepOf(e.time) = Steps - 1

\* A run leaves nothing out and nothing behind: events come in order, steps are
\* measured when they are over, every order arrives or expires, every halt ends.
RunIsOrderly ==
    [][ProcessedInOrder /\ MetricsComplete /\ OrdersAccounted' /\ HaltsResume']_loopVars

\* A run that was called comes to its end: the spreading of the information and
\* the loop, into which activations and halts schedule further events, are finite.
RunEnds == phase = "network" ~> (phase \in {"cancelled", "done"})

\* haltedSteps is the number of steps spent halted.
HaltedStepsCounted == phase = "done" => haltedSteps = haltedCaptures
=============================================================================
