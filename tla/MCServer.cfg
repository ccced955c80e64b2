SPECIFICATION Spec
CONSTANTS
    c1 = c1
    r1 = r1
    Client <- OneStream
    Request <- OneRequest
    SubscriberBuffer = 1
    MaxPublished = 2
CHECK_DEADLOCK FALSE
INVARIANTS
    NothingCutOff
    ServerInv
PROPERTIES
    StreamsDoNotHoldShutdown
    Stops
