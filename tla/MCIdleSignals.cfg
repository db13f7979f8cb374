SPECIFICATION FairSpec

CONSTANTS
  f1 = f1
  Fatal = {f1}
  RedisFails = FALSE

PROPERTIES
  IdleSignals

\* The process may end.
CHECK_DEADLOCK FALSE
