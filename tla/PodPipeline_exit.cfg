SPECIFICATION Spec
CONSTANTS
    Pods <- OnePod
    UnikernelPods <- OnePod
    Deployments <- One
    MAX_TRACKED_PODS = 1
    MAX_VMS = 1
    MaxCreates = 1
    MaxTimeouts = 0
PROPERTIES
    StoppedVmIsReported
