SPECIFICATION FairSpec
CONSTANTS
  Users = {u1}
  Posts = {p1, p2}
  Restorers = {r1, r2}
  NoLock = NoLock
  Cap = 1
  MaxTicks = 3
  MaxArms = 4
  MaxFaults = 1
CHECK_DEADLOCK FALSE
INVARIANTS RelationsAgree RestoreIsFaithful
PROPERTIES SweepSparesServedPosts StaleRelationsReclaimed ColdUserRecovers
