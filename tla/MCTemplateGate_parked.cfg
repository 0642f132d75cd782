SPECIFICATION FairSpec
CONSTANTS
    Templates = {1, 2}
    NoTemplate = 0
    Prev <- OneEach
    Malformed = {}
    Enforces = TRUE
    AutoDegrade = TRUE
    FailClosed = FALSE
    DegradeAfter = 2
    MaxTemplateAge = 3
    HoldTicks = 1
    UpstreamStaleMax = 2
    TemplateMax = 1
    OutboundMax = 1
    WireMax = 3
    VerdictMax = 2
    DedupMax = 3
    LinkMayDrop = TRUE
    VerifierMaySkip = FALSE
    StopMayCome = FALSE
    FeedMayReturn = FALSE
    MaxMoves = 1
    MaxSource = 1
PROPERTY Served
CHECK_DEADLOCK FALSE
