SPECIFICATION FairSpec
CONSTANTS
  Posts = {p1}
  Workers = {w1}
  MaxTries = 3
  MaxClaims = 2
  MaxLikes = 0
  MaxRefusals = 3
  MaxFaults = 0
CHECK_DEADLOCK FALSE
PROPERTIES LeftToTheOperator
