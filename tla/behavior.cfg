SPECIFICATION FairSpec
CONSTANTS
  Users = {u1}
  Posts = {p1}
  Relays = {r1, r2}
  Consumers = {c1, c2}
  Tokens = {t1, t2, t3}
  NoToken = NoToken
  Batch = 1
  FetchBatch = 2
  MaxVersion = 2
  MaxLog = 2
  MaxViews = 2
  MaxFaults = 1
CHECK_DEADLOCK FALSE
INVARIANTS BehaviorQueued ProjectedOnce
PROPERTIES ReactionsMoveForward ReactionsConverge
