SPECIFICATION RulesSpec
CONSTANTS
  k1 = k1
  k2 = k2
  Keys = {k1, k2}
  EarlyCap = 1
  BatchMax = 2
  Threshold = 2
  LinesMayTear = TRUE
  RecoveryMayFail = FALSE
  PowerMayFail = TRUE
  DirSyncMayFail = FALSE
  TtlMayExpire = TRUE
  MaxLog = 4
  MaxOld = 3
  H = 24
  Step = 12
  IdleBudget = 96
  FallbackFloor = 72
  SHED_FLOOR = 36
  SHED_RECHECK = 6
  AcceptLag = 24
  MaxHeartbeats = 5
  MaxAge = 156
  Fault <- AllFaults
  MAX_BLOCK_WEIGHT_WU = 16
  MAX_BLOCK_SIGOPS_COST = 16
  MAX_MONEY_SATS = 7
  MaxU64 = 15
  MIN_COINBASE_SCRIPT_LEN = 2
  MAX_COINBASE_SCRIPT_LEN = 4
  HEADER_VERSION_FLOOR = 4
  SlackSeconds = 4
  MaxFuture = 9
  SkewAllowance = 1
  RefreshGap = 2
  TemplateDelay = 1
  TemplateLead = 1
  MaxU32 = 31
  ClockStart = 20
  ClockEnd = 30
  Nonce = {1}
  Flaws = {"none", "work", "length"}
  DedupEntries = 2
  SharesPerSecond = 1
  ForwardSlots = 1
  EventSlots = 1
  TableEntries = 1
  LastJob = 2
  HalfBits = 4
  WordBits = 3
  Diff1 <- DifficultyOne
  SharesPerMin = 30
  RetargetInterval = 2
  MinDifficulty = 1
  MaxDifficulty = 7
  MaxFactor = 2
  MaxWindow = 4
  MaxShares = 8
  Opener = {o1, o2, o3}
  MaxNumber = 5
INVARIANTS
  FileKeepsUp SparesLivePeers JudgesAsReference  
PROPERTIES
  WalImplementsPromise PipelineHolds DifficultyHolds
CHECK_DEADLOCK FALSE
