CONSTANTS
  Command = {"set_a", "delete"}
  Term = {1, 2}
  NoVote = 0
  Torn = Torn
  MaxIndex = 3
  MaxCrashes = 2
SPECIFICATION StoreSpec
INVARIANTS RangeReadable StateRecoverable
PROPERTY KeepsPromise
CHECK_DEADLOCK FALSE
