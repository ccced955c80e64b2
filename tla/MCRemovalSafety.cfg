SPECIFICATION Spec
SYMMETRY Interchangeable
CONSTANTS
    k1 = k1
    k2 = k2
    v1 = v1
    n1 = n1
    q1 = q1
    q2 = q2
    p1 = p1
    Container <- TwoContainers
    Mine <- OneMine
    Volume <- OneVolume
    Network <- OneNetwork
    Req <- TwoRequests
    Page <- OnePage
    MaxMoves = 3
INVARIANTS
    RemovalInv
    CheckSees
    ToldOnce
    OffersHonoured
PROPERTIES
    DataKept
    OnlyOurNetworks
