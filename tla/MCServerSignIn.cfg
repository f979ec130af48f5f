SPECIFICATION FairSpec
CONSTANTS
  s1 = s1
  app = app
  SignIns = {s1}
  Foreign = {app}
  Wait = 3
  Step = 2
  Hang = 2
  Reading = 1
  Ttl = 3
  Slack = 1
  MaxResults = 3
  Drift = 1
  MaxTime = 1
  MaxFaults = 1
CHECK_DEADLOCK FALSE
INVARIANTS TypeOK NoCodeMissed WaitsInTime AskedToForward
PROPERTY EverySignInEnds
