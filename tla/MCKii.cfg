CONSTANTS
  d1 = d1
  d2 = d2
  m = m
  o1 = o1
  MaxTasks = 2
  Structs = {d1, d2}
  FirstStruct = d1
  Threads = {m, o1}
  MainThread = m
  Machines <- Both
SPECIFICATION FairSpec
INVARIANTS OneStructPerTask FetchedOnce ReturnsAnswered DistributedIsMapped
PROPERTY PostedReturns
