CONSTANTS
  Members = {m1, m2}
  Founders = {m1, m2}
  Avatar = {p}
  Input = {}
  Window = 1
  Threshold = 3
  Interval = 1
  Prompt = TRUE
  MaxBatches = 4
SPECIFICATION Spec
PROPERTIES
  NewestLast
CHECK_DEADLOCK FALSE
