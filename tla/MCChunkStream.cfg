SPECIFICATION FairSpec

CONSTANTS
  Settings <- MCSettings
  MaxChunks = 8

INVARIANTS
  TypeOK
  NothingLost
  DoneMeansComplete
  BatchesGrow

PROPERTIES
  StreamsEnd

\* A stream ends.
CHECK_DEADLOCK FALSE
