\* One address with three codes; two login sessions, one of an administrator; room
\* for two buckets; a build of two sources with room for one text, one request of
\* each kind with two handlers at most, three revisions.
SPECIFICATION Spec
CONSTANTS
    e1 = e1 p1 = p1 p2 = p2
    Emails = {e1}
    Passwords = {p1, p2}
    MaxChallenges = 3
    MaxSessions = 2
    MaxRequests = 1
    MaxClock = 2
    Cooldown = 1
    ChallengeLife = 2
    Hour = 1
    HourQuota = 2
    MaxAttempts = 1
    SessionLife = 2
    IdleTimeout = 1
    l1 = l1 l2 = l2 x = x y = y NoKey = NoKey
    Logins = {l1, l2}
    AdminLogins = {l2}
    Secrets = {x}
    MasterKeys = {x, y}
    Ttl = 2
    AbsoluteMax = 3
    MaxSecond = 3
    MaxCalls = 1
    ip = ip s1 = s1 s2 = s2 login = login
    LimiterKeys = {ip, s1, s2, login}
    RuleLists <- Requests
    Window = 2
    MaxBuckets = 2
    MaxLimiterTime = 3
    t1 = t1
    t2 = t2
    f1 = f1
    g1 = g1
    h1 = h1
    SourceIds = {t1, t2}
    Searches = {f1}
    Readings = {g1}
    Materializations = {h1}
    MaxEvidence = 1
    MaxRevision = 3
    MaxHandlers = 2
    NoSource = NoSource
    NoRow = NoRow
    NoPaper = NoPaper
SYMMETRY Symmetry
INVARIANTS
    ServicesTypeOK
    AccessIsEarned
    ReviewDecides
PROPERTIES
    KeysExpire
    LimitsHold
    RequestsSettleOnce
CHECK_DEADLOCK FALSE
