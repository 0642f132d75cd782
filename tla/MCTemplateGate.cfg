SPECIFICATION OneSourceSpec
CONSTANTS
    Templates = {1, 2, 3}
    NoTemplate = 0
    Prev <- BlockArrives
    Malformed = {}
    Enforces = TRUE
    AutoDegrade = TRUE
    FailClosed = FALSE
    DegradeAfter = 1
    MaxTemplateAge = 2
    HoldTicks = 2
    UpstreamStaleMax = 2
    TemplateMax = 1
    OutboundMax = 3
    WireMax = 3
    VerdictMax = 2
    DedupMax = 3
    LinkMayDrop = TRUE
    VerifierMaySkip = FALSE
    StopMayCome = TRUE
    FeedMayReturn = TRUE
    MaxMoves = 2
    MaxSource = 1
INVARIANTS DedupParity PendingCoherent SilenceIsSeen StaleIsBounded
PROPERTY EnforcedJobs
CHECK_DEADLOCK FALSE
