SPECIFICATION RulesSpec
CONSTANTS
    MaxPortNumber = 65535
    DefaultBasePort = 19100
    PortNumbers <- PortSample
    WorkerCounts <- WorkerSample
    SelfPorts = {1, 2, 3}
    Nodes = {n1, n2}
    Strangers = {x}
    Ceiling = 1
    Instants = {1, 2}
    Graces <- GraceSample
    Seconds = {0, 1, 2, 3, 4, 5, 6, 7, 8, 9, 10, 11}
    Retries = 2
    ListenPorts = {0, 1, 2, 3, 4, 99}
    KernelPort = 99
    Summarised = {1, 2, 3}
    MethodLists <- MethodSample
    Peers <- PeerSample
    Hosts <- HostSample
    TargetNames <- NameSample
    StaticLists <- StaticSample
    CandidateLists <- CandidateSample
    PortLists <- PortListSample
    DocLists <- DocSample
    LifeSpans = {0, 1, 2, 3, 4, 5, 6}
    TargetLists <- TargetListSample
    TargetIDs = {1, 2}
    CheckedLists <- CheckedSample
    Deadlines = {0, 1, 2}
    MaxTests = 3
    MaxPeerComponents = 4
    MaxReported = 3
INVARIANTS
    ConfigSettled VerdictsSound ProfilesAgree ViewsTrue ProbeVerdictsTrue
    FindingsKept TargetsCompile GateSound CredentialsSound PeerViewTells
    OneShotTells
CHECK_DEADLOCK FALSE
