SPECIFICATION Spec
CONSTANTS
    c1 = c1
    c2 = c2
    Client <- TwoClients
    SubscriberBuffer = 2
    MaxPublished = 4
INVARIANTS
    NoPanic
    ClosedForGood
    InOrderOnce
    HubInv
PROPERTIES
    ImplementsBroadcaster
    CloseEndsStreams
