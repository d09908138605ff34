CONSTANTS
  Slots = {a, b}
  Socks = {k1, k2}
  Loops = {l1, l2}
  MaxAttempts = 2
  MaxMsgs = 1
  LateClose = FALSE
  Nil = Nil
SPECIFICATION Spec
INVARIANTS
  OpenIsHeld
  DriverFollows
  NeverGivesUp
  PosesHaveAClient
PROPERTIES
  ReceiveConnects
  OffClears
