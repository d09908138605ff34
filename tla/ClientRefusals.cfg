CONSTANTS
  Sockets = {k1, k2}
  Calls = {c1}
  Rooms = {r1}
  Nil = Nil
SPECIFICATION Spec
INVARIANTS
  RefusalsReturn
