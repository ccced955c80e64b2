SPECIFICATION Spec
CONSTANTS
    Debounce = 2
    Interval = 3
    MinDelay = 1
    MaxDelay = 3
    MaxWire = 2
    MaxOutages = 1
CHECK_DEADLOCK FALSE
INVARIANTS
    WatchInv
    NoLostSignal
    NeverPostponed
PROPERTIES
    Debounced
    EventuallyRead
    StopsCleanly
