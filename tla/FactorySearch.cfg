\* One search and one source: what becomes of a search that is sent again.
SPECIFICATION FactorySpec
CONSTANTS
    SourceIds = {t1}
    Searches = {f1}
    Readings = {g1}
    Materializations = {h1}
    MaxEvidence = 1
    MaxRevision = 4
    MaxHandlers = 2
    NoSource = NoSource
    NoRow = NoRow
    NoPaper = NoPaper
INVARIANTS
    NeverSentAgain
CHECK_DEADLOCK FALSE
