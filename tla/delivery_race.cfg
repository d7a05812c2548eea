SPECIFICATION Spec
CONSTANTS
  n1 = n1
  n2 = n2
  c1 = c1
  t1 = t1
  NoConn = NoConn
  Node = {n1}
  Cmd = {c1}
  Conn = {k1, k2}
  Poll = {p1, p2}
  Addressee <- OneNode
  Teardown = {}
  Stranger = {n2}
  AdminPhases = {"Pending"}
  MaxRequeues = 1
SYMMETRY Symmetry
INVARIANTS AtMostOnce NothingStrandedWhileOnline ReportedStageWasEntered
CHECK_DEADLOCK FALSE
