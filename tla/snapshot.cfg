SPECIFICATION FairSpec
CONSTANTS
  Posts = {p1}
  Relays = {r1, r2}
  Consumers = {c1, c2}
  Tokens = {t1, t2, t3}
  NoToken = NoToken
  Batch = 1
  MaxVersion = 2
  MaxQueue = 2
  MaxFaults = 1
CHECK_DEADLOCK FALSE
INVARIANTS TypeOK NoLostSnapshot ClaimsAreLeased PurgedStaysClean
PROPERTIES ImplementsProjection Converges DeletionCompletes
