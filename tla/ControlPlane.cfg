SPECIFICATION ControlSpec
CHECK_DEADLOCK FALSE
CONSTANTS
    t1 = t1
    t2 = t2
    a = a
    Threads <- OneThread
    Kinds <- AllKinds
    Verbs <- AllVerbs
    Names <- MCNames
    Failures = {"ERROR", "UNAVAILABLE"}
    Glitches = {"lost", "unseen"}
    ClaimPaths = {TRUE, FALSE}
    MaxRequests = 2
    MaxTime = 1
    RbNames = {"r"}
    RbNamespaces = {"", "a"}
    RbSubjects <- MCSubjects
    RbRules <- MCRules
    RbRequests <- MCRequests
    MaxRoles = 4
    MaxBindings = 2
    MaxRules = 2
    MaxSubjects = 2
    MaxAuditLogs = 2
    RbEventBound = 4
    RbTimeBound = 3
    QtCallers = {c1, c2}
    QtNames = {"n1", "n2"}
    QtHards <- MCHards
    QtPods <- MCPods
    QtObjects = 2
    MaxQuotas = 2
    LrItems <- MCItems
    LrContainers <- MCLimits
    MaxLimitRanges = 2
    SvKeys = {"k", "l"}
    SvSizes = {1, 2, 4}
    CacheEntries = 2
    CacheBytes = 3
    CacheTtl = 1
    PoolLimit = 2
    PoolIdle = 1
    PoolUsers = {u1, u2}
    SvRows = 1
    CrdVersions = 2
    SvCount = 1
    SrNames = {s1, s2}
    SrIps = {i1, i2}
    SrPods = {p1}
    MaxServices = 2
    MaxEndpoints = 1
    SrCountBound = 1
    WsSlots = 2
    WsEventLimit = 2
    WsReaders = {r1, r2}
    WsTypes = {"Pod", "Service", "Deployment"}
    WsNotices = 3
    EsSlots = 1
    EsCapacity = 2
    EsWatches = 3
    JobCallers = {c1, c2}
    JobNames = {j1, j2}
    JobSpecs <- MCJobSpecs
    JobLimit = 1
    JobPodLimit = 3
    JobSeconds = {0}
    JobCountBound = 1
    SsCallers = {c1}
    SsNames = {j1}
    SsSpecs <- MCSetSpecs
    SsLimit = 1
    MaxOrdinals = 2
    SsBound = 1
    StVolumes = {v1}
    StClaims = {k1, k2}
    StClasses = {x1}
    StClassRows <- MCClassRows
    StPolicies = {"Delete"}
    StBinders = {b1, b2}
    MaxVolumes = 2
    BcNames = {n1, n2}
    BcScalers = {n1}
    BcSpecs <- MCBatchSpecs
    BcPolicies = {"Forbid", "Replace"}
    BcLimit = 2
    BcTarget = {g1}
    BcHpas <- MCHpas
    BcUtils = {0, 20, 50, 90}
    BcCounts = {0, 1, 3}
    BcPodBound = 1
    BcTimeBound = 2
    NcServices = {s1, s2, s3}
    NcPods = {p1, p2}
    IpStart = 5
    IpEnd = 7
    MaxIps = 2
    MaxRoutes = 2
    RoutePods = 2
    NpPolicies <- MCPolicies
    NpFlows <- MCFlows
    MaxPolicies = 1
    NtNodes = {n1, n2}
    NtTaints <- MCTaints
    MaxTaintNodes = 2
    NodeTaintSlots = 2
    NtIds = {"x", "y"}
    NtThreads = {w1, w2}
    NtStale = 0
    VxUnseen = 1
    NtTableBound = 3
    NtTimeBound = 1
    NlNodes = {n1, n2}
    NlMaxNodes = 2
    NlMetrics = 2
    NlTimeout = 1
    NmThreads = {w1}
    NmCapacity = 1
    EvPods = {p1, p2}
    EvGrace = 1
    EvMax = 3
    PdbNames = {"b", "c"}
    PdbValues = {0, 1}
    PdbMax = 2
    NlCountBound = 3
    NlTimeBound = 2
    NsNames = {"default", "a", "b"}
    NsMax = 2
    ClGrace = 1
    GcKeys = {"x", "y"}
    GcMax = 2
    GcOwners = {"o", "q"}
    GcMaxOwners = 2
    GcMaxFinalizers = 1
    CpSources = {"s", "r"}
    CpTargets = {"t", "u"}
    CpMaxRules = 3
    CpMaxTargets = 2
    CpSyncBound = 1
INVARIANTS
    RefusedHasNoEffect
    JobPodsBounded
    SsOrdinalOrder
    AuthorizationHolds
    
    
    RegistryInStep
    BatchTables
    
    
    CleanupTables
    SessionComplete
    TablesAccounted
