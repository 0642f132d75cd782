SPECIFICATION FeedSpec
CONSTANTS
    Templates = {1, 2}
    NoTemplate = 0
    Prev <- OneEach
    Malformed = {}
    Enforces = TRUE
    AutoDegrade = TRUE
    FailClosed = TRUE
    DegradeAfter = 2
    MaxTemplateAge = 3
    HoldTicks = 1
    UpstreamStaleMax = 2
    TemplateMax = 1
    OutboundMax = 3
    WireMax = 3
    VerdictMax = 4
    DedupMax = 2
    LinkMayDrop = FALSE
    VerifierMaySkip = FALSE
    StopMayCome = TRUE
    FeedMayReturn = FALSE
    MaxMoves = 1
    MaxSource = 1
INVARIANT OrderedFeedHolds
PROPERTY HonestAlarm
CHECK_DEADLOCK FALSE
