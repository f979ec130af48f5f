CONSTANTS
  Width = 3
  Counters <- MCCounters
SPECIFICATION GuardSpec
INVARIANTS
  GuardTyped
  OpenedOnce
  NoFalseReject
