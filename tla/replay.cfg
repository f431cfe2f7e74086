SPECIFICATION FairSpec
CONSTANTS
  Pipelines = {"notification", "metrics"}
  Consumers = {c1, c2}
  Events <- MCEvents
  Keys = {"k"}
  Parents = {"p"}
  MaxDay = 2
  BatchSize = 2
  MaxAttempts = 2
  MaxLog = 3
  MaxFaults = 1
  Limit = 1
  MaxReplays = 1
CHECK_DEADLOCK FALSE
INVARIANTS EventsAccounted ProjectionsExact
PROPERTIES BacklogDrains
