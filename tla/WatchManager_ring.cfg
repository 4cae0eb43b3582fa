SPECIFICATION Spec
CONSTANTS
    Watches <- TwoWatches
    Attributes <- OneLabel
    CAPACITY = 2
    MaxEvents = 3
PROPERTIES
    RingGivesTheLog
    WatchesServed
