\* The event loop over four steps and every network of three links; the book with
\* four orders; the queue with three events; an agent of five types over two activations;
\* the cognition phase with room for no, one, one and a half or nearly three rounds.
SPECIFICATION SimulationSpec
CONSTANTS
    trader = trader cognitive = cognitive hearer = hearer
    Nodes = {trader, cognitive, hearer}
    NodeOrder <- ThreeNodes
    Seeds = {trader}
    NoDelay = NoDelay
    Networks <- AllNetworks
    StartAt = 0
    KnownAt = 1
    MaxHops = 2
    Steps = 4
    StepLength = 2
    Latencies = {0, 1, 2}
    ShockStep = 1
    FactStep = 1
    ClarificationStep = 2
    Traders = {trader, cognitive}
    Cognitive = {cognitive}
    ActiveFrom = 1
    HaltDuration = 1
    MaxHalts = 2
    a1 = a1 ev1 = ev1 ev2 = ev2 ev3 = ev3
    Agents = {a1}
    MaxPrice = 2
    MaxQuantity = 2
    MaxOrders = 4
    EventTimes = {0, 1, 2}
    EventPriorities = {1, 2}
    EventIds = {ev1, ev2, ev3}
    Population = {"value", "passive", "stopLoss", "deleveraging", "forcedLiquidation"}
    PositionLimit = 8
    Tick = 2
    PriceCollar = 1800
    Tops <- MarketTops
    Depths = {3, 16}
    BeliefSignals <- Beliefs
    SignalRounds = 2
    BaseSizes = {1, 4}
    LastStep = 1
    MaxFlying = 2
    Representatives = 2
    DecisionRounds = 3
    CallBudgets = {0, 2, 3, 5}
    r1 = r1 r2 = r2
    FailureReasons = {r1, r2}
    BreakerLimit = 3
    NoReason = NoReason
    NoTape = NoTape
INVARIANTS
    SimulationTypeOK
    AgentsActSoundly
    BookSound
PROPERTIES
    RunIsOrderly
    RunAndPhaseEnd
    ImplementsPriorityBook
    ImplementsAgenda
CHECK_DEADLOCK FALSE
