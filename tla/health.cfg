CONSTANTS
  s1 = s1
  s2 = s2
  Pipelines <- MCPipelines
  Samplers = {1, 2}
  FailureLimit = 2
  Requests = {r1, r2}
  Topics = {t1}
  QueueCapacity = 1
  MaxFaults = 2
SPECIFICATION FairSpec
CHECK_DEADLOCK FALSE
INVARIANTS RuntimeSafe
PROPERTIES ForgivenFairly RuntimeSettles
