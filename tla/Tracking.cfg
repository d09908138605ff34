CONSTANTS
  Procs = {p1, p2}
  Addrs = {a}
  LocalAddrs = {}
  HeadAddr = a
  MaxCmds = 2
  MaxPoses = 1
  MaxKills = 1
  MaxConnects = 1
  Nil = Nil
SPECIFICATION Spec
INVARIANTS
  LiveIsHeld
  IdleWhenUnneeded
  SenderTracks
  SwitchedOffStaysOff
PROPERTIES
  BorrowedBridgeEnds
