SPECIFICATION Spec
CONSTANTS
    p1 = p1
    q1 = q1
    Run = Run
    Absent = Absent
    Conn <- OnePage
    Req <- OneRequest
    Cid <- OneCid
    MaxAge = 0
    SubscriberBuffer = 1
    MaxMoves = 3
    MaxOutages = 1
INVARIANTS
    LiveInv
    NoGap
PROPERTIES
    RunningIsKept
    SnapshotCatchesUp
