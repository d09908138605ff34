CONSTANTS
  Sessions = {s1, s2, s3}
  Codes = {c1, c2}
  Names <- MCNames
  LowerCase <- MCLowerCase
  Avatars = {a1}
  RoomMax = 3
  MaxNow = 2
  DefaultTakeover = TRUE
  Workload = {"create", "join", "leave", "rename", "take", "avatar", "stop"}
  MaxLost = 1
  MaxInFlight = 1
  Fifo = TRUE
  Nil = Nil
SPECIFICATION Spec
SYMMETRY Symmetry
INVARIANTS
  RoomsAccountedFor
  NameKeysExact
  SessionsMatchSeats
  AvatarsAgree
  ViewsConverge
PROPERTIES
  ImplementsRooms
CHECK_DEADLOCK FALSE
