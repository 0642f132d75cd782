SPECIFICATION ProgressSpec
CONSTANTS
  Sock = {s1, s2, s3}
  Ip = {a, b}
  MaxConnections = 2
  MaxPerIp = 2
  Tls = TRUE
  Conn = {c1, c2}
  Addr = {a}
  MaxSessions = 2
  MaxPerAddr = 2
  MaxChannelsPerConn = 2
  BroadcastSlots = 1
  MaxJobs = 2
  MaxChannelId = 2
  Payloads <- FourFrames
  HeaderLen = 2
  LengthLen = 2
  MaxPlain = 3
  ReadChunk = 3
  MaxPayload = 4
  Pooled = {1, 2}
  Tips = {0, 127, 128, 32768}
  AuxLength <- AuxAtHeight
  ExtranonceSize = 2
  RpcAttempts = 2
  TEMPLATE_LOG_CAP = 1
  MAX_BLOCK_WEIGHT_WU = 16
  MAX_BLOCK_SIGOPS_COST = 16
  MAX_MONEY_SATS = 7
  MaxU64 = 15
  MIN_COINBASE_SCRIPT_LEN = 2
  MAX_COINBASE_SCRIPT_LEN = 6
  HEADER_VERSION_FLOOR = 4
INVARIANTS
  SessionsAccounted WorkIsMinable
PROPERTIES
  SlotsHold DeadSlotsReturn SessionsProgress FramesDelivered LatestIsServed
CHECK_DEADLOCK FALSE
