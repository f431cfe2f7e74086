SPECIFICATION FairSpec
CONSTANTS
  Users = {u1}
  Posts = {p1}
  Workers = {w1, w2}
  Embedders = {e1}
  MaxSignals = 2
  MaxTables = 1
  MaxEmbeds = 1
  MaxServing = 2
  MaxFaults = 1
CHECK_DEADLOCK FALSE
PROPERTIES ProfilesMoveForward ProfilesCatchUp
INVARIANTS NoLostInvalidation
