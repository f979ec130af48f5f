CONSTANTS
  Runs = {app, worker}
  Slots <- MCSlots
  Block = 2
  MaxPackets = 2
  MaxFetches = 3
  Nobody = Nobody
  NoSlot = NoSlot
  NoSession = NoSession
SPECIFICATION Spec
SYMMETRY Isolates
INVARIANTS
  TypeOK
  NonceOnce
  OneRunPerSession
CHECK_DEADLOCK FALSE
