\* Two experiments of one owner with one pair each and no storage fault; two
\* accounts with two and one request ids, two callers and flights; two model
\* calls for one key, each with one attempt and its repair.
SPECIFICATION ServerSpec
CONSTANTS
    e1 = e1  e2 = e2  u1 = u1  s1 = s1
    p1 = p1  p2 = p2  k1 = k1  k2 = k2  k3 = k3  h1 = h1  c1 = c1  c2 = c2
    NoCheckpoint = NoCheckpoint
    NoResult = NoResult
    NoCog = NoCog
    NoExperiment = NoExperiment
    Users = {u1}
    Experiments = {e1, e2}
    Owner <- OneOwner
    Cognitions = {s1}
    MaxPairs = 1
    StopAt <- StopAtOnce
    MaxQueued = 1
    MaxPerOwner = 2
    MaxStored = 2
    MaxFaults = 0
    Principals = {p1, p2}
    Keys = {k1, k2, k3}
    PrincipalOf <- TwoAccounts
    Hashes = {h1}
    Callers = {c1, c2}
    MaxTasks = 2
    MaxActive = 2
    MaxCompleted = 1
    Ttl = 1
    MaxTime = 1
    d1 = d1  fits = fits
    Requests = {c1, c2}
    DecisionKeys = {d1}
    ModelAnswers = {fits}
    MisfitAnswers = {fits}
    MaxTransportAttempts = 1
    ResponseCost = 1
    CapUsd = 3
    MaxEntries = 1
    NoAnswer = NoAnswer
PROPERTIES
    RunsSettle
    FlightsLand
    CallsEnd
CHECK_DEADLOCK FALSE
