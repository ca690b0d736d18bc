SPECIFICATION Spec
CONSTANTS
    e1 = e1
    e2 = e2
    u1 = u1
    c1 = c1
    c2 = c2
    NoCheckpoint = NoCheckpoint
    NoResult = NoResult
    NoCog = NoCog
    NoExperiment = NoExperiment
    Users = {u1}
    Experiments = {e1, e2}
    Owner <- OneOwner
    Cognitions = {c1, c2}
    MaxPairs = 2
    StopAt <- StopEarlyOrLate
    MaxQueued = 1
    MaxPerOwner = 2
    MaxStored = 2
    MaxFaults = 1
SYMMETRY ExperimentSymmetry
INVARIANTS
    TypeOK
    ResultsAreUninterrupted
    PairsMatchCheckpoint
    RunsRecoverable
    OneRunPerExperiment
PROPERTIES
    WorkIsKept
    ImplementsRegister
    SettledUnlessLateCancel
