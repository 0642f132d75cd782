SPECIFICATION EdgesSpec
CONSTANTS
  k1 = k1
  k2 = k2
  h1 = h1
  h2 = h2
  Keys = {k1, k2}
  NoRecord = NoRecord
  EarlyCap = 2
  BatchMax = 2
  LinesMayTear = TRUE
  RecoveryMayFail = FALSE
  TtlMayExpire = FALSE
  Handlers = {h1, h2}
  KeysOf <- TwoConnections
  Idle = Idle
  ForwardQueueSize = 1
  EventQueueSize = 2
  ResultQueueSize = 1
  MaxInFlight = 1
  DedupWindow = 1
  OpenMayFail = FALSE
  MaxAccepts = 1
  MaxStops = 2
  Interval = 1
  SendRoom = 3
  TemplateLen = 2
  Jam = 1
  Base = 4
  Wide = 3
  Max32 = 2
  Addr = {"a", "b", "c", "p", "q"}
  Proxy = {"p", "q"}
  Prefix <- Networks
  SecondTicks = 2
  WindowSeconds = 2
  PerWindow = 2
  MaxTracked = 1
  Ceilings = {0, 3}
  Nonce = {"n", "m", "o"}
  MaxNonces = 2
  WindowSecs = 2
  MaxAge = 3
  Skew = 1
  MaxClock = 5
  Burst = 2
  Rate = 1
  Socket = {s1, s2, s3}
  Capacity = 2
  WireRoom = 1
  MaxConns = 2
  MaxConnsPerIp = 2
  MaxTip = 1
  Signer = {"k1", "k2"}
  Embedded <- OneEmbedded
  Duration = 1
  MaxTime = 2
  NumShares = 3
  JobTimeout = 2
  LastClientJob = 3
INVARIANTS
  OwedIsKept FileIsExact LinkHolds RoundTrip  GuardsHold 
  
 
CHECK_DEADLOCK FALSE
