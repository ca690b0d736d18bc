\* Three request ids of one account, two payloads, three callers and flights, room
\* for two flights and one outcome, one tick of the clock; two container networks, two failures and three starts of
\* the registration; two studies of up to three cells with two seeds and room for one;
\* families of four p-values in fifths, comparisons of four seeds, designs of three
\* cells; three levels and two pieces of evidence; two accounts, one pack, two threads of
\* one process, three audit events, and two days further apart than the retention.
SPECIFICATION OperationsSpec
CONSTANTS
    p1 = p1  k1 = k1  k2 = k2  k3 = k3
    h1 = h1  h2 = h2  c1 = c1  c2 = c2  c3 = c3
    Principals = {p1}
    Keys = {k1, k2, k3}
    PrincipalOf <- OneAccount
    Hashes = {h1, h2}
    Callers = {c1, c2, c3}
    MaxTasks = 3
    MaxActive = 2
    MaxCompleted = 1
    Ttl = 1
    MaxTime = 1
    n1 = n1  n2 = n2
    Networks = {n1, n2}
    Foreign = Foreign
    MaxFaults = 2
    MaxStarts = 3
    u1 = u1  u2 = u2  o1 = o1  o2 = o2
    Runs = {u1, u2}
    Owners = {o1, o2}
    Cells = 3
    SeedCount = 2
    MaxStudyRuns = 4
    KeptPerOwner = 1
    KeptInTotal = 1
    Denominator = 5
    Hypotheses = 4
    Values <- SmallDifferences
    Seeds = 4
    TopLevel = 2
    d1 = d1  d2 = d2
    EvidenceIds = {d1, d2}
    a1 = a1  a2 = a2  q1 = q1  loop = loop  work = work
    AuditAccounts = {a1, a2}
    Administrator = a1
    LegacySession = LegacySession
    Packs = {q1}
    Threads = {loop, work}
    ServerThreads = {loop, work}
    RetentionDays = 0
    MaxDay = 1
    MaxEvents = 3
    NoHash = NoHash
    NoPackRow = NoPackRow
    NoWork = NoWork
    Unowned = Unowned
SYMMETRY OperationsSymmetry
INVARIANTS
    OperationsTypeOK
    FlightsSound
    EvidenceIsKept
    StatisticsAgree
PROPERTIES
    NoSecondCharge
    RegistrationIsSafe
    AnswersStand
CHECK_DEADLOCK FALSE
