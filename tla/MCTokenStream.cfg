SPECIFICATION Spec

CONSTANTS
  None = None
  Jobs <- MCJobs
  Defaults <- MCDefaults
  MaxText = 4
  MaxOutputs = 9

INVARIANTS
  TypeOK
  UsageCounts
  DocumentedSizes

PROPERTIES
  ImplementsRelay

\* A job ends.
CHECK_DEADLOCK FALSE
