SPECIFICATION EmbeddingFairSpec
CONSTANTS
  m1 = m1
  m2 = m2
  q1 = q1
  q2 = q2
  Bad = Bad
  Members = {m1, m2}
  Partitions = {q1, q2}
  Posts <- MCPosts
  PartitionOf <- MCPartitionOf
  Volatile = {1}
  BatchSize = 2
  Limit = 2
  MaxAttempts = 2
  Assignments <- MCAssignments
  MaxChanges = 1
  MaxGen = 2
  MaxDisturbances = 3
CHECK_DEADLOCK FALSE
INVARIANTS EmbeddingSafe
PROPERTIES EmbeddingsCatchUp
