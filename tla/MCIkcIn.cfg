CONSTANTS
  h1 = h1
  h2 = h2
  w1 = w1
  c1 = c1
  c2 = c2
  c3 = c3
  Hosts = {h1, h2}
  OutWorkers = {w1}
  Calls = {c1, c2, c3}
  SeqMod = 2
  Duplication = FALSE
  InWorkers = {i1, i2}
  MaxPendingIn = 2
  MaxSends = 2
  NoPacket = NoPacket
SPECIFICATION FairSpec
INVARIANTS ResponseIsAnExecution NothingForgotten
PROPERTY DequeuedIsAnswered
CHECK_DEADLOCK FALSE
