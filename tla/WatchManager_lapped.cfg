SPECIFICATION Spec
CONSTANTS
    Watches <- OneWatch
    Attributes <- OneLabel
    CAPACITY = 1
    MaxEvents = 3
PROPERTIES
    AvailableIsDelivered
