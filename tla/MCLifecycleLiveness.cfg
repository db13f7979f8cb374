SPECIFICATION FairSpec

CONSTANTS
  f1 = f1
  Fatal = {f1}
  RedisFails = TRUE

PROPERTIES
  SigtermStops
  SignalledStops
  EndedIsUnlisted
  FatalStops

\* The process may end.
CHECK_DEADLOCK FALSE
