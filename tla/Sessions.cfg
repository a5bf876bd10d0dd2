CONSTANTS
  a1 = a1
  a2 = a2
  c1 = c1
  c2 = c2
  NoAddr = NoAddr
  NoClient = NoClient
  NoConn = NoConn
  Addr <- Addrs
  Client <- Clients2
  Link <- Links
  Targets <- TargetList
  Database <- OneDatabase
  Statement <- Mixed
  MaxIdle = 1
  MaxStandbys = 2
  MaxDeaths = 1
  VanishInTransaction = FALSE
SPECIFICATION SessionFairSpec
INVARIANTS   PinnedWhileOpen IdleMatchesTopology IdleBounded
 
