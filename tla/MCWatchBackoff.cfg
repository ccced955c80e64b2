SPECIFICATION SafeSpec
CONSTANTS
    Debounce = 1
    Interval = 2
    MinDelay = 1
    MaxDelay = 4
    MaxWire = 1
    MaxOutages = 2
CHECK_DEADLOCK FALSE
PROPERTIES
    ShortDelayBack
