SPECIFICATION Spec
CONSTANTS
  MaxEvents = 2
  Page = 1
  Lanes <- MCLanes
  MaxPushes = 1
  MaxTrouble = 1
  Long = 2
INVARIANTS TypeOK AppliedOnce
PROPERTIES NothingSkipped EveryEventApplied
