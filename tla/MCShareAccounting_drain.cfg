SPECIFICATION Spec
CONSTANTS
  k1 = k1
  k2 = k2
  h1 = h1
  h2 = h2
  Keys = {k1, k2}
  NoRecord = NoRecord
  EarlyCap = 2
  BatchMax = 2
  LinesMayTear = TRUE
  RecoveryMayFail = FALSE
  TtlMayExpire = FALSE
  Handlers = {h1}
  KeysOf <- OneConnection
  Idle = Idle
  ForwardQueueSize = 1
  EventQueueSize = 3
  ResultQueueSize = 1
  MaxInFlight = 1
  DedupWindow = 1
  OpenMayFail = FALSE
  MaxAccepts = 1
  MaxStops = 2
INVARIANT StopKeepsAcknowledged
