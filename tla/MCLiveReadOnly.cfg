SPECIFICATION Spec
CONSTANTS
    p1 = p1
    q1 = q1
    Run = Run
    Absent = Absent
    Conn <- OnePage
    Req <- NoRequest
    Cid <- TwoCids
    MaxAge = 1
    SubscriberBuffer = 2
    MaxMoves = 2
    MaxOutages = 1
INVARIANTS
    RowsTrackSnapshot
    HighlightsAreReal
PROPERTIES
    RowsCatchUp
