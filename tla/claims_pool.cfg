SPECIFICATION Spec
CONSTANTS
  Node = {n1, n2}
  Group = {g1}
  Key = {k1, k2}
  Call = {x1, x2}
  Saver = {s1}
  NoGroup = NoGroup
  NoKey = NoKey
SYMMETRY Symmetry
INVARIANTS GrantIsHeld OneNodePerKey
CHECK_DEADLOCK FALSE
