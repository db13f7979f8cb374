SPECIFICATION Spec

CONSTANTS
  f1 = f1
  f2 = f2
  Fatal = {f1, f2}
  RedisFails = FALSE

INVARIANTS
  FatalExitSignals

\* The process may end.
CHECK_DEADLOCK FALSE
