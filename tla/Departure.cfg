CONSTANTS
  Sessions = {s1, s2, s3}
  Codes = {c1}
  Names <- MCThreeNames
  LowerCase <- MCLowerCase
  Avatars = {a1}
  RoomMax = 2
  MaxNow = 1
  DefaultTakeover = TRUE
  Workload = {"create", "join", "leave", "take", "settings", "params", "close"}
  MaxLost = 0
  MaxInFlight = 1
  Fifo = TRUE
  Nil = Nil
SPECIFICATION FairSpec
INVARIANTS
  SeatsHaveSockets
  NothingLeftBehind
  ViewsConverge
PROPERTIES
  DisconnectedLeave
  ImplementsRooms
