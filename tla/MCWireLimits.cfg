SPECIFICATION Spec
CONSTANTS
  lane1 = lane1
  lane2 = lane2
  phone = phone
  home = home
  nowhere = nowhere
  Devices <- OnePhone
  Ips = {home}
  Ports = {1, 2, 3}
  NoIp = nowhere
  NoSaved = NoSaved
  Lanes <- BothLanes
  DeviceOf <- SamePhone
  Scenarios <- Limits
  K = 1
  Symbols = 1
  Pool = 1
  Width = 8
  MaxSpare = 0
  MaxExtra = 0
  MaxPending = 1
  MaxSessions = 2
  SeenCap = 4
  ClientRepeat = 0
  Breaker = 0
  Fresh = 2
  ResponseKeep = 2
  PendingKeep = 3
  SessionIdle = 5
  Rekey = 4
  Block = 16
  Leads = {2}
  Timeout = 1
CHECK_DEADLOCK FALSE
INVARIANTS HelloRunsOnce WithinLimits StillHeld
