SPECIFICATION Spec
CONSTANTS
  Node <- Three
  EnvLeader = 1
  NoNode = NoNode
  MissLimit = 2
  MaxLosses = 2
  MaxCrashes = 0
  MaxPgCrashes = 0
  MaxRestarts = 0
INVARIANT AtMostOnePrimary
