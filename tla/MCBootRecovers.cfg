SPECIFICATION FairSpec

CONSTANTS
  p1 = p1
  p2 = p2
  Pods = {p1, p2}
  Repos <- UsualRepos
  Patches = {TRUE}
  MaxCrashes = 1
  MaxFailures = 0

PROPERTIES
  BootRecovers

\* Every pod may have booted.
CHECK_DEADLOCK FALSE
