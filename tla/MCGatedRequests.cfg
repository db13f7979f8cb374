SPECIFICATION GatedFairSpec

CONSTANTS
  r1 = r1
  r2 = r2
  NoPost = NoPost
  Requests = {r1, r2}
  IdleTimeout = 4
  CheckInterval = 2
  Window = 1
  Skews <- MCSkews

INVARIANTS
  TypeOK
  LoadExact
  ClockIsQuiet
  PromptPasses

PROPERTIES
  EntersInTime
  FiresAfterQuiet
  ScalesToZero
