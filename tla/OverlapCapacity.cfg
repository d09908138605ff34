CONSTANTS
  Sessions = {s1, s2, s3}
  Codes = {c1}
  Names <- MCThreeNames
  LowerCase <- MCLowerCase
  Avatars = {a1}
  RoomMax = 2
  MaxNow = 1
  DefaultTakeover = TRUE
  Workload = {"create", "join"}
  MaxLost = 0
  MaxInFlight = 2
  Fifo = TRUE
  Nil = Nil
SPECIFICATION Spec
SYMMETRY Symmetry
INVARIANTS
  RoomCapacity
CHECK_DEADLOCK FALSE
