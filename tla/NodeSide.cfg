SPECIFICATION NodeSideSpec
CHECK_DEADLOCK FALSE
CONSTANTS
    EndpointCount = 2
    MaxRetries = 2
    FailureThreshold = 2
    CbTimeout = 1
    Keys = {k1}
    Anomalies <- MCAnomalies
    Reliable = {1}
    HealthThreads = {h1}
    MaxOps = 3
    MaxRev = 1
    MaxTime = 2
    SkNodes = {"n1", "n2"}
    SkSizes <- MCSizes
    SkPods <- MCPodSpecs
    SkTaints = {"dedicated"}
    SkLabels = {"disk"}
    SkWeights <- MCWeights
    SkCallers = {c1, c2}
    SkMaxPods = 1
    SkAssignments = 3
    SkRows = 2
    SkTaintRows = 1
    InPods = {"p"}
    InCallers = {c1, c2}
    InMaxRestarts = 1
    InMaxBackoff = 1
    InCountBound = 1
    PrConfigs <- MCProbeConfigs
    PrSpecs <- MCProbeSpecs
    PrNames = {"a", "b"}
    PrManaged = 2
    PrTableMax = 1
    PrContainers = 1
    PrRuns = 3
    KuPodNames = {"a", "b"}
    KuVmLimit = 3
    KuContainerLimit = 2
    KuPodLimit = 2
    KuEventLimit = 4
    KuMountLimit = 2
    KuVolumes <- MCVolumes
    KuPids = 2
    KuSeconds = 1
INVARIANTS
    FailoverWorks
    RestartsBounded
    
    
    BooksAgree
