SPECIFICATION Spec

CONSTANTS
  None = None
  Skip = Skip
  Texts <- MCTexts
  Known <- MCKnown
  Numerals <- MCNumerals
  Json <- MCJson
  Pairs <- MCPairs
  Mentions <- MCMentions
  LengthOf <- MCLengthOf
  Pods <- MCPods
  Deployments <- MCDeployments
  BakedRecords <- MCBakedRecords
  PathOf <- MCPathOf

INVARIANTS
  RebootAgrees
  RecordWins
  NoiseIsIgnored
  TokensFollowLength
  SpeculationCanRun
