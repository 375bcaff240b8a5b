SPECIFICATION Spec
CONSTANTS
  old = old
  Processes = {p1, p2}
  Pairs = {old, k1, k2, k3}
  OldPair = old
  Overlap = FALSE
  Values = {v1, v2}
  Prints = {n1, n2}
  None = None
INVARIANTS
  TypeOK
  PairsMatch
PROPERTIES
  GoodCertKept
  PrintKept
SYMMETRY Symmetry
CHECK_DEADLOCK FALSE
