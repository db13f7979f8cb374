SPECIFICATION FairSpec

CONSTANTS
  p1 = p1
  p2 = p2
  Pods = {p1, p2}
  Repos <- MCRepos
  Patches = {TRUE, FALSE}
  MaxCrashes = 2
  MaxFailures = 2

INVARIANTS
  TypeOK
  MarkerMeansFetched
  EmptyHasWriter
  RecordMeansPatched

PROPERTIES
  EveryPodBoots

\* Every pod may have booted.
CHECK_DEADLOCK FALSE
