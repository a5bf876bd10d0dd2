SPECIFICATION Spec
CONSTANTS
  Node <- Three
  EnvLeader = 1
  NoNode = NoNode
  MissLimit = 1
  MaxLosses = 0
  MaxCrashes = 2
  MaxPgCrashes = 0
  MaxRestarts = 2
INVARIANT WritableHasClusterData
