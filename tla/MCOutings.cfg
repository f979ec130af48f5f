SPECIFICATION Spec
CONSTANTS
  key = key
  swim = swim
  walk = walk
  beach = beach
  MaxCalls = 3
  Keys = {key}
  Requests = {swim, walk}
  Trip <- SameTrip
  Confirm = 0
  MaxEvents = 1
  MaxIds = 2
  MaxSessions = 2
SYMMETRY Alike
CHECK_DEADLOCK FALSE
INVARIANTS TypeOK FiledOnce ReportsWhatVtopDid
PROPERTIES ActsAsShown
