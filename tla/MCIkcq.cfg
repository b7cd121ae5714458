CONSTANTS
  Threads = {t1, t2, t3}
  Requests = {r1, r2}
  Nodes = {n1, n2, n3, n4}
  NULL = NULL
  NoThread = NoThread
  NoRequest = NoRequest
SYMMETRY Symmetry
SPECIFICATION Spec
INVARIANTS TypeOK RingInv NoNodeLost
PROPERTY ImplementsFifo
CHECK_DEADLOCK FALSE
