CONSTANTS
  Sockets = {k1, k2}
  Calls = {c1, c2}
  Rooms = {r1}
  Nil = Nil
SPECIFICATION FairSpec
INVARIANTS
  PendingOnLiveSocket
  WaitersAreServed
  ShownHasConnection
PROPERTIES
  CallsSettle
  
