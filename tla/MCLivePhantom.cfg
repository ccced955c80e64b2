SPECIFICATION SafeSpec
CONSTANTS
    p1 = p1
    q1 = q1
    Run = Run
    Absent = Absent
    Conn <- OnePage
    Req <- NoRequest
    Cid <- OneCid
    MaxAge = 0
    SubscriberBuffer = 2
    MaxMoves = 3
    MaxOutages = 0
INVARIANTS
    SyncSuffices
