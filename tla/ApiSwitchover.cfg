SPECIFICATION ApiFairSpec
CONSTANTS
  Node <- Three
  EnvLeader = 1
  NoNode = NoNode
  MissLimit = 1
  MaxLosses = 0
  MaxCrashes = 0
  MaxPgCrashes = 0
  MaxRestarts = 0
  Operation = {"switchover"}
  Managed = {}
  SwitchTarget = {2}
  MaxOperations = 1
INVARIANT AtMostOnePrimary
PROPERTY LeaderReturns
 
