CONSTANTS
  Slots = {1, 2, 3}
  CopyOrder <- MCCopyOrder
  Objects = {1, 2, 3, 4, 5, 6}
  CloneFlags <- MCCloneFlags
  UserLimit = 3
  Forking = {1, 2}
  Executing = {2, 3}
SPECIFICATION Spec
INVARIANTS CountsAreHolders VforkSemaphore
PROPERTIES ExecAllOrNothing CallsReturn
