SPECIFICATION ServicesSpec
CONSTANTS
    Requesters = {q1, q2, q3, q4}
    FailureThreshold = 2
    SuccessThreshold = 2
    MaxHalfOpen = 2
    TimeoutSeconds = 1
    InitialMs = 500
    MaxMs = 3000
    UseBackoff = TRUE
    UintMax = 7
    MaxFailures = 6
    Workers = {w1, w2}
    GracePeriod = 2
    ForceTimeout = 3
    MaxHandlers = 2
    MaxSignals = 2
    HaManagers = {"m1", "m2"}
    HaTransitions = 1
    EmCallers = {t1, t2}
    EmErrors = 1
    NlNodes = {n1}
    NlMaxNodes = 1
    NlMetrics = 1
    NlTimeout = 1
    NmThreads = {w1}
    NmCapacity = 1
    EvPods = {p1, p2}
    EvGrace = 1
    EvMax = 3
    PdbNames = {"b"}
    PdbValues = {0, 1}
    PdbMax = 1
    NlCountBound = 1
    NlTimeBound = 1
    NsNames = {"default", "a", "b"}
    NsMax = 2
    ClGrace = 1
    GcKeys = {"x"}
    GcMax = 1
    GcOwners = {"o"}
    GcMaxOwners = 1
    GcMaxFinalizers = 1
    CpSources = {"s"}
    CpTargets = {"t"}
    CpMaxRules = 1
    CpMaxTargets = 1
    CpSyncBound = 1
    WlKinds = {"statefulsets", "daemonsets", "statefulsets_api", "jobs_api", "jobs", "limitranges", "services", "deployments"}
    WlUsers = {u1}
    WlOrdinals = 2
    WlNodes = {n1}
    WlRetries = 1
    WlFailBound = 1
    WlRevBound = 2
    AgPods = {p1, p2, p3}
    AgCapacity = 2
    AgSignals = 2
    AgMaxRestarts <- ThreeRestarts
CHECK_DEADLOCK FALSE
INVARIANTS
    BreakerDecides
PROPERTIES
    ShutdownOrderly
    BreakerRecovers
    
    ManagersLetGo
    EvictionIsServed
    NamespaceIsGone
    
