SPECIFICATION LiveSpec
CONSTANTS
  n1 = n1
  n2 = n2
  c1 = c1
  t1 = t1
  NoConn = NoConn
  Node = {n1}
  Cmd = {t1}
  Conn = {k1, k2}
  Poll = {p1}
  Addressee <- OneNode
  Teardown = {t1}
  Stranger = {}
  AdminPhases = {}
  MaxRequeues = 0
INVARIANTS LateNodeSkipsTeardown
PROPERTIES PendingIsServed
CHECK_DEADLOCK FALSE
