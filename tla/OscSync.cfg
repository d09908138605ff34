CONSTANTS
  Clients = {A, B}
  Values = {x, y}
  EchoTicks = 1
  Window = 1
  Threshold = 2
  MaxActs = 3
  MaxEdits = 1
  Timely = TRUE
  Nil = Nil
SPECIFICATION Spec
INVARIANTS
  EchoesStay
  Agreement
  ListIsCurrent
PROPERTIES
  Settles
CHECK_DEADLOCK FALSE
