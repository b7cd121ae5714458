CONSTANTS
  Threads = {reader, writer}
  reader = reader
  writer = writer
  Entries = {e1, e2, e3}
  Root = root
  NULL = NULL
  NoValue = NoValue
  NoThread = NoThread
  Words = {w}
  Jobs <- MCJobs
  MaxWords = 2
SPECIFICATION Spec
INVARIANTS TreeInv LockedReads
PROPERTIES ReturnsUnlocked ImplementsDirectory
SYMMETRY Symmetry
CHECK_DEADLOCK FALSE
