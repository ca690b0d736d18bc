\* Three requests and two decisions about the turns of three versions; two
\* packs and scenarios, of which one each comes from the library, one build, two
\* claims, metadata and interventions; one conversation, three calls and two days with
\* one server or two, and a retention of the day.
SPECIFICATION GuidedSpec
CONSTANTS
    q1 = q1
    q2 = q2
    q3 = q3
    d1 = d1
    d2 = d2
    RequestIds = {q1, q2, q3}
    RecoveryIds = {d1, d2}
    MaxVersion = 3
    NoRequest = NoRequest
    p1 = p1
    p2 = p2
    s1 = s1
    s2 = s2
    b1 = b1
    c1 = c1
    c2 = c2
    m1 = m1
    m2 = m2
    i1 = i1
    i2 = i2
    PackIds = {p1, p2}
    ScenarioIds = {s1, s2}
    BuildIds = {b1}
    Claims = {c1, c2}
    RequiredClaim = c1
    Metadata = {m1, m2}
    Interventions = {i1, i2}
    NoBuild = NoBuild
    NoPack = NoPack
    NoScenario = NoScenario
    Nothing = Nothing
    LibraryPack = p2
    LibraryScenario = s2
    LibraryMetadata = m2
    LibraryIntervention = i1
    v1 = v1
    v2 = v2
    t1 = t1
    r1 = r1
    r2 = r2
    Servers = {v1, v2}
    Conversations = {t1}
    ClientRequests = {r1, r2}
    MaxTurns = 1
    MaxPerOwner = 1
    RetentionDays = 0
    MaxCalls = 3
    MaxDay = 1
    TableBounds <- TableBound
    StreamBounds <- StreamBound
    NoRecord = NoRecord
SYMMETRY RequestSymmetry
INVARIANTS
    GuidedTypeOK
    WorkflowStands
PROPERTIES
    DecisionsStand
    HistoryIsSound
CHECK_DEADLOCK FALSE
