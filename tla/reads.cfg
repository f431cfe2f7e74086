CONSTANTS
  m = m
  a = a
  b = b
  Actors <- MCActors
  Mirror = m
  Surfaces = {"following", "profile", "bookmarks", "liked", "replies", "quotes", "search", "topic", "notifications", "mutes", "connections"}
  Limit = 1
  MaxOffset = 2
  Width = 1
  Seeds <- MCSeeds
  MaxChanges = 2
  Start <- MCStart
  Processes = {p1, p2}
  MaxReads = 2
  Callers = {1, 2, 3}
  Texts = {1, 2, 3}
  MaxConcurrent = 1
  MaxQueued = 1
  MaxFailures = 2
SPECIFICATION ReadsFairSpec
CHECK_DEADLOCK FALSE
INVARIANTS ReadsSafe
PROPERTIES NoPostTwice ReadsSettle
