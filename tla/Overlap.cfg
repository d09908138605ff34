CONSTANTS
  Sessions = {s1, s2}
  Codes = {c1}
  Names <- MCTwoNames
  LowerCase <- MCLowerCase
  Avatars = {a1}
  RoomMax = 2
  MaxNow = 1
  DefaultTakeover = TRUE
  Workload = {"create", "join", "leave", "close"}
  MaxLost = 0
  MaxInFlight = 2
  Fifo = FALSE
  Nil = Nil
SPECIFICATION Spec
SYMMETRY Symmetry
INVARIANTS
  TypeOK
  OrderedArePresent
  ClientKnowsItsRoom
CHECK_DEADLOCK FALSE
