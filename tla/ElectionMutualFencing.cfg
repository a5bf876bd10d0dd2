SPECIFICATION FairSpec
CONSTANTS
  Node <- Three
  EnvLeader = 1
  NoNode = NoNode
  MissLimit = 1
  MaxLosses = 0
  MaxCrashes = 1
  MaxPgCrashes = 0
  MaxRestarts = 1
PROPERTY FencedRejoins
