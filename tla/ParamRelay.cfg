CONSTANTS
  Members = {m1, m2}
  Founders = {m1}
  Avatar = {p, q}
  Input = {b}
  Window = 0
  Threshold = 2
  Interval = 1
  Prompt = FALSE
  MaxBatches = 2
SPECIFICATION FairSpec
INVARIANTS
  OnceToOthers
  StoredIsNewest
PROPERTIES
  InputsInOrder
  EveryValueArrives
CHECK_DEADLOCK FALSE
