SPECIFICATION Spec
CONSTANTS
    None = None
    Gone = Gone
    NoRow = NoRow
    NoPost = NoPost
    NoTime = NoTime
    NoLogs = NoLogs
    KeyOrder <- ConstKeyOrder
    Description <- ConstDescription
    SecureEntrypoint = {"websecure"}
    SecretName = {1}
    ElapsedText = {"3 minutes", "4 minutes", "ago"}
    State = {"running", "exited", "paused"}
    Health = {"healthy"}
    Ephemeral = 49153
    Slot = {1, 2}
    Fetch = {1, 2}
    MaxLines = 2
    Size = {1, 3}
    DefaultLogTail = 1
    MaxLogTail = 2
    Member <- ConstMember
    Absent = Absent
    TableState = {"running", "exited"}
    MaxFrames = 2
INVARIANTS
    ReadingsAgree
    RowAndDetailAgree
    AllShown
    PanelCanBeRetried
    NothingHidden
    OnlyOutput
    InServerOrder
    AsReloaded
    OffersAccepted
PROPERTIES
    ButtonComesBack
