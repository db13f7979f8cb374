SPECIFICATION Spec

CONSTANTS
  f1 = f1
  f2 = f2
  Fatal = {f1, f2}
  RedisFails = TRUE

INVARIANTS
  TypeOK
  OneReason
  GuardBeforeVerdict
  PauseKeepsRegistration
  SignalBeforeDeregister

PROPERTIES
  ImplementsContract

SYMMETRY FatalSymmetry

\* The process may end.
CHECK_DEADLOCK FALSE
