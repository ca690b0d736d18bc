SPECIFICATION Spec
CONSTANTS
    e1 = e1
    e2 = e2
    u1 = u1
    c1 = c1
    c2 = c2
    NoCheckpoint = NoCheckpoint
    NoResult = NoResult
    NoCog = NoCog
    NoExperiment = NoExperiment
    Users = {u1}
    Experiments = {e1}
    Owner <- SoleOwner
    Cognitions = {c1}
    MaxPairs = 1
    StopAt <- StopAtOnce
    MaxQueued = 1
    MaxPerOwner = 2
    MaxStored = 2
    MaxFaults = 0
PROPERTIES
    SettledIsFinal
