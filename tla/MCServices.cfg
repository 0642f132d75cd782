SPECIFICATION ServicesSpec
CONSTANTS
  k1 = k1
  k2 = k2
  h1 = h1
  r1 = r1
  r2 = r2
  Keys = {k1, k2}
  NoRecord = NoRecord
  EarlyCap = 1
  BatchMax = 2
  LinesMayTear = TRUE
  RecoveryMayFail = TRUE
  TtlMayExpire = TRUE
  Handlers = {h1}
  KeysOf <- OneConnection
  Idle = Idle
  ForwardQueueSize = 1
  EventQueueSize = 1
  ResultQueueSize = 1
  MaxInFlight = 1
  DedupWindow = 1
  OpenMayFail = TRUE
  MaxAccepts = 1
  MaxStops = 2
  Conn = {c1, c2}
  Worker = {w1, w2}
  MaxEntries = 2
  MaxLines = 1
  ROTATIONS = 2
  Persist = TRUE
  MaxVerdicts = 4
  MaxLogCrashes = 1
  Req = {r1, r2}
  Level = {0, 1}
  Setting = {"u"}
  WRITE_THROTTLE_MAX = 1
  WRITE_THROTTLE_WINDOW = 0
  MaxRestarts = 1
  Tx = {x, y}
  TolerancePct = 50
  MaxStale = 1
  MAX_RECENT_BLOCKS_SCANNED = 1
  MEMPOOL_PROBE_CHUNK = 1
  MaxTip = 3
  Restarts = 1
  Saver = {s1}
  Value = {0, 1, 2}
  Bad = 2
  MaxCrashes = 2
  Post = {p1, p2}
  Secret = {"a"}
  LogCap = 2
  LogKeep = 1
  MaxPosts = 3
  Email = {e}
  Password = {p, q}
  TokenTtl = 2
  ResetTtl = 1
  Retention = 3
  SessionTtl = 2
  MAX_ACTIVE_KEYS_PER_USER = 1
  MaxLinks = 1
  MaxKeys = 2
  MaxNow = 3
  MaxFaults = 1
INVARIANTS
  OneDuplicatePerStart  ServesAsChosen LookupIsEvidence ConfigStaysWhole
  
PROPERTY AccountsHold
SYMMETRY Requests
CHECK_DEADLOCK FALSE
