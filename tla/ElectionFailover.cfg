SPECIFICATION FairSpec
CONSTANTS
  Node <- Three
  EnvLeader = 1
  NoNode = NoNode
  MissLimit = 2
  MaxLosses = 0
  MaxCrashes = 1
  MaxPgCrashes = 0
  MaxRestarts = 0
PROPERTY LeaderReturns
PROPERTY StandbysFollow
