SPECIFICATION Spec
CONSTANTS
    Templates = {1, 2, 3}
    NoTemplate = 0
    Prev <- TwoBlocks
    Malformed = {}
    Enforces = TRUE
    AutoDegrade = TRUE
    FailClosed = FALSE
    DegradeAfter = 2
    MaxTemplateAge = 3
    HoldTicks = 1
    UpstreamStaleMax = 2
    TemplateMax = 1
    OutboundMax = 3
    WireMax = 3
    VerdictMax = 2
    DedupMax = 3
    LinkMayDrop = TRUE
    VerifierMaySkip = FALSE
    StopMayCome = FALSE
    FeedMayReturn = FALSE
    MaxMoves = 2
    MaxSource = 1
INVARIANT NeverBackwards
CHECK_DEADLOCK FALSE
