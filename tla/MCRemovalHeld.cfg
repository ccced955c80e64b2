SPECIFICATION Spec
CONSTANTS
    k1 = k1
    k2 = k2
    v1 = v1
    n1 = n1
    q1 = q1
    q2 = q2
    p1 = p1
    Container <- TwoContainers
    Mine <- OneMine
    Volume <- OneVolume
    Network <- OneNetwork
    Req <- OneRequest
    Page <- NoPage
    MaxMoves = 3
CHECK_DEADLOCK FALSE
PROPERTIES
    HeldIsKept
