SPECIFICATION AllSpec
CONSTANTS
    Proxies = {p1, p2}
    Standby = p2
    Skills = {s1}
    Period = 2
    MaxGrace = 1
    Window = 1
    RouteHorizon = 4
    MaxStamps = 1
    MaxTold = 1
    Servers = {s1}
    Tools = {t1}
    Routines = {g1, g2}
    AttackAfter = 1
    Threshold = 60
    MaxRecorded = 2
    MaxRegistered = 2
    Suspicions = {"direct"}
    Capacity = 2
    MaxPushes = 5
    Senders = {m1, m2, m3}
    Tolerance = 1
    FilterBits = 5
    Probes = 2
    RotationIds = {r1, r2}
    Names = {n1}
    Endpoints = {e1, e2}
    Handlers = {h1, h2}
    TTL = 1
    ReceiptEnd = 2
    HealthHorizon = 3
    Components = {a, b}
    Streams = {w1, w2}
    Posters = {q1, q2}
    Sessions = {d1}
    ChannelSize = 1
    MaxEvents = 2
    MaxPosts = 2
    Workers = {w1, w2}
    Keys = {k1, k2}
    Loud = {k1}
    DedupeWindow = 2
    AlertHorizon = 3
    Processes = {p1, p2}
    BasePort = 1
    MaxPort = 2
    MaxLives = 2
INVARIANTS
    RouteSound BlameJust QueuesSound TrustProved
    FanOutSafe AlertsSpaced ElectionHolds
PROPERTIES CriticalProtected 
CHECK_DEADLOCK FALSE
