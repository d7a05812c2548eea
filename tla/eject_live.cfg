SPECIFICATION LiveSpec
CONSTANTS
  n1 = n1
  n2 = n2
  d1 = d1
  d2 = d2
  NoNode = NoNode
  Dep = {d1}
  Node = {n1}
  Fin = {f1}
  Link <- LinkFirst
  Inline = {}
  EjectAfter = {d1}
  MaxRestarts = 1

PROPERTIES PendingIsEjected
CHECK_DEADLOCK FALSE
