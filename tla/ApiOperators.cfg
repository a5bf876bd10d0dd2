SPECIFICATION ApiSpec
CONSTANTS
  Node <- Three
  EnvLeader = 1
  NoNode = NoNode
  MissLimit = 2
  MaxLosses = 1
  MaxCrashes = 1
  MaxPgCrashes = 1
  MaxRestarts = 0
  Operation = {"stop", "start", "restart", "resync", "fence"}
  Managed = {2}
  SwitchTarget = {}
  MaxOperations = 2
 
INVARIANT AtMostOnePrimary
CONSTRAINT FewEvents
