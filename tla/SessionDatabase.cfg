CONSTANTS
  a1 = a1
  a2 = a2
  c1 = c1
  c2 = c2
  NoAddr = NoAddr
  NoClient = NoClient
  NoConn = NoConn
  Addr <- Addrs
  Client <- Clients2
  Link <- Links
  Targets <- TargetList
  Database <- TwoDatabases
  Statement <- Transactions
  MaxIdle = 1
  MaxStandbys = 2
  MaxDeaths = 0
  VanishInTransaction = FALSE
SPECIFICATION SessionSpec
INVARIANT RunsInItsDatabase
