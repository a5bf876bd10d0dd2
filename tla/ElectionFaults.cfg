SPECIFICATION Spec
CONSTANTS
  Node <- Three
  EnvLeader = 1
  NoNode = NoNode
  MissLimit = 1
  MaxLosses = 1
  MaxCrashes = 1
  MaxPgCrashes = 1
  MaxRestarts = 0
INVARIANT FencedNeverWritable
