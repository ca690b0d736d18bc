\* The event loop of the server, and a command beside it; one account, one pack, two
\* audit events, two days.
SPECIFICATION AuditSpec
CONSTANTS
    AuditAccounts = {a1}
    Administrator = a1
    LegacySession = LegacySession
    Packs = {q1}
    Threads = {loop, command}
    ServerThreads = {loop}
    RetentionDays = 1
    MaxDay = 1
    MaxEvents = 2
    NoHash = NoHash
    NoPackRow = NoPackRow
    NoWork = NoWork
    Unowned = Unowned
INVARIANTS ChainsVerify
CHECK_DEADLOCK FALSE
