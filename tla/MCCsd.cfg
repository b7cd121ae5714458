CONSTANTS
  Self = "s"
  Nodes = {"s", "a"}
  Capable = {"s"}
  Avgs <- MCOneAvg
  DefReq <- MCOneAvg
  Weight <- MCWeight
  Libs <- MCLibs
  LocalLibs = {"libc", "libm"}
  ClientLists <- MCLists
  Loads = {0, 1}
  Signalled = {}
  NoKey = NoKey
  NoToken = NoToken
  NoThread = NoThread
  MaxRounds = 2
  MaxPackets = 2
  MaxRequests = 1
SPECIFICATION Spec
CHECK_DEADLOCK FALSE
INVARIANTS CapNodesFound BestIsBest BestIsCapable
