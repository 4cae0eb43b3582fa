SPECIFICATION Spec
CONSTANTS
    Pods <- PodSet
    UnikernelPods <- PodSet
    Deployments <- Either
    MAX_TRACKED_PODS = 1
    MAX_VMS = 1
    MaxCreates = 2
    MaxTimeouts = 1
INVARIANTS
    VmsAreAccounted
    PhasesAreTrue
PROPERTIES
    PendingPodIsStarted
