SPECIFICATION Spec
CONSTANTS
  Sessions = {s1}
  Requests = {q1}
  NoRequest = NoRequest
  Handlers = {h1, h2}
  Passwords = {w1, w2}
  IdleTTL = 2
  AbsoluteTTL = 3
  RecoveryTTL = 1
  MaxLag = 1
  MaxTime = 4
  MaxSecret = 2
  MaxVersion = 3
SYMMETRY Symmetry
CHECK_DEADLOCK FALSE
INVARIANTS FamilySafe
PROPERTIES ChangeCutsOffFamilies ChangesAreAuthorised
