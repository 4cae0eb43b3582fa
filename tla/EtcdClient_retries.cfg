SPECIFICATION FairSpec
CONSTANTS
    EndpointCount = 2
    MaxRetries = 3
    FailureThreshold = 2
    CbTimeout = 1
    Keys = {k1}
    Anomalies <- ErrorsOfReads
    Reliable = {}
    HealthThreads = {}
    MaxOps = 2
    MaxRev = 1
    MaxTime = 3
CHECK_DEADLOCK FALSE
INVARIANTS
    CasAppliedAtMostOnce
    OkMeansItsOwnWrite
PROPERTIES
    
    OperationReturns
