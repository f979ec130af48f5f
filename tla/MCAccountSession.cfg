SPECIFICATION Spec
CONSTANTS
  slot1 = slot1
  slot2 = slot2
  alarm = alarm
  Slots <- TwoSlots
  Alarm = alarm
  Wait = 1
  Timeout = 3
  Keep = 5
  Ttl = 6
  Cache = 8
  Scenarios <- Meeting
CHECK_DEADLOCK FALSE
INVARIANTS TypeOK OneLogin NobodyForgets
PROPERTY OneStarted
