SPECIFICATION FairSpec
CONSTANTS
  lane1 = lane1
  lane2 = lane2
  phone = phone
  home = home
  nowhere = nowhere
  Devices <- OnePhone
  Ips = {home}
  Ports = {1, 2, 3}
  NoIp = nowhere
  NoSaved = NoSaved
  Lanes <- BothLanes
  DeviceOf <- SamePhone
  Scenarios <- Exchanges
  K = 2
  Symbols = 2
  Pool = 3
  Width = 8
  MaxSpare = 0
  MaxExtra = 0
  MaxPending = 4
  MaxSessions = 4
  SeenCap = 4
  ClientRepeat <- AtOnce
  Breaker = 0
  Fresh = 2
  ResponseKeep = 2
  PendingKeep = 3
  SessionIdle = 5
  Rekey = 4
  Block = 16
  Leads = {0}
  Timeout = 1
CHECK_DEADLOCK FALSE
INVARIANTS TypeOK SealedOnce OthersNotStranded
PROPERTIES Answered PromiseKept
