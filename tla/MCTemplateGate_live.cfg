SPECIFICATION OneSourceFairSpec
CONSTANTS
    Templates = {1, 2}
    NoTemplate = 0
    Prev <- OneEach
    Malformed = {}
    Enforces = TRUE
    AutoDegrade = TRUE
    FailClosed = FALSE
    DegradeAfter = 2
    MaxTemplateAge = 3
    HoldTicks = 1
    UpstreamStaleMax = 2
    TemplateMax = 1
    OutboundMax = 2
    WireMax = 3
    VerdictMax = 2
    DedupMax = 2
    LinkMayDrop = TRUE
    VerifierMaySkip = TRUE
    StopMayCome = FALSE
    FeedMayReturn = FALSE
    MaxMoves = 1
    MaxSource = 1
PROPERTY Served
CHECK_DEADLOCK FALSE
