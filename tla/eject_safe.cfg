SPECIFICATION Spec
CONSTANTS
  n1 = n1
  n2 = n2
  d1 = d1
  d2 = d2
  NoNode = NoNode
  Dep = {d1}
  Node = {n1, n2}
  Fin = {f1, f2}
  Link <- LinkFirst
  Inline = {}
  EjectAfter = {d1}
  MaxRestarts = 1
SYMMETRY Symmetry
INVARIANTS OneFinalizer EjectingIsOwned
CHECK_DEADLOCK FALSE
