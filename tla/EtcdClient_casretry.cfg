SPECIFICATION FairSpec
CONSTANTS
    EndpointCount = 2
    MaxRetries = 2
    FailureThreshold = 2
    CbTimeout = 1
    Keys = {k1}
    Anomalies <- Timeouts
    Reliable = {}
    HealthThreads = {}
    MaxOps = 2
    MaxRev = 1
    MaxTime = 1
INVARIANTS CasFailedMeansNotApplied
CHECK_DEADLOCK FALSE
