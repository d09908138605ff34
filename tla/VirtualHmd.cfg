CONSTANTS
  on = on
  off = off
  other = other
  Sections <- MCSections
  Off <- MCOff
  Ours = Ours
  Absent = Absent
  NoFile = NoFile
  Damaged = Damaged
SPECIFICATION Spec
INVARIANTS
  SectionKept
  NothingOfOurs
