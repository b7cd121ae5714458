CONSTANTS
  Threads = {1, 2}
  Address <- MCAddress
  MaxIssued = 1030
SPECIFICATION Spec
INVARIANTS WorkersApart
PROPERTY RepeatsOnlyAtWrap
CHECK_DEADLOCK FALSE
