SPECIFICATION Spec
CONSTANTS
    t1 = t1
    t2 = t2
    a = a
    Threads <- MCThreads
    Kinds <- OfPods
    Verbs <- NoPut
    Names <- MCNames
    Failures = {"ERROR"}
    Glitches = {"lost", "retried"}
    ClaimPaths = {TRUE}
    MaxRequests = 4
    MaxTime = 1
SYMMETRY ThreadSymmetry
CHECK_DEADLOCK FALSE
INVARIANTS
    WritesAreTrue
    
