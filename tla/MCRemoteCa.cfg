SPECIFICATION RemoteSpec
CONSTANTS
  o1 = o1
  o2 = o2
  r1 = r1
  Orders = {o1, o2}
  RevokeCalls = {r1}
  Retries = 1
  Rounds = 1
  Handlers <- Known
SYMMETRY MCSym
INVARIANTS RemoteInv OneRequest NothingForgotten AccountFitsKey RevocationAnswered
CHECK_DEADLOCK FALSE
