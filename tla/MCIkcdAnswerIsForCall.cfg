CONSTANTS
  Hosts = {h1}
  Home = h1
  Calls = {c1, c2}
  OutWorkers = {w1}
  InWorkers = {i1, i2}
  SeqMod = 2
  MaxAttempts = 2
  MaxPendingIn = 1
  Duplication = FALSE
  NoCall = NoCall
  NoPacket = NoPacket
  Garbage = Garbage
SYMMETRY Symmetry
SPECIFICATION Spec
INVARIANT AnswerIsForCall
CHECK_DEADLOCK FALSE
