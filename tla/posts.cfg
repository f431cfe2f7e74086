SPECIFICATION ServiceFairSpec
CONSTANTS
  m1 = m1
  a1 = a1
  a2 = a2
  a3 = a3
  g1 = g1
  g2 = g2
  Media = {m1}
  Keys <- MCKeys
  Runners = {g1, g2}
  Attempts = {a1, a2, a3}
  KeyOf <- MCKeyOf
  PrintOf <- MCPrintOf
  KindOf <- MCKindOf
  MediaOf <- MCMediaOf
  MaxPostFaults = 2
  Posts = {p1}
  Workers = {w1, w2}
  MaxTries = 2
  MaxClaims = 4
  MaxLikes = 1
  MaxRefusals = 2
  MaxFaults = 2
CHECK_DEADLOCK FALSE
INVARIANTS PostsSafe JobsSafe
PROPERTIES PostsSettle NeverRestarted ReadyInTheEnd
