SPECIFICATION FairSpec
CONSTANTS
  f1 = f1
  f2 = f2
  Sessions = {1, 2, 3}
  Fetchers = {f1, f2}
  Setups <- Either
  MaxDeaths = 1
CHECK_DEADLOCK FALSE
INVARIANTS TypeOK OneValidation RetriesOnNew
PROPERTIES OnlyOwnDropped EveryFetchEnds
