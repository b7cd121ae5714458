CONSTANTS
  Hosts = {h1}
  Home = h1
  Calls = {c1, c2}
  OutWorkers = {w1, w2}
  SeqMod = 2
  MaxAttempts = 2
  Duplication = FALSE
  NoCall = NoCall
  Garbage = Garbage
SPECIFICATION FairSpec
INVARIANTS OneOwner AnswerProvenance RetriesAlike
PROPERTIES TakenIsAnswered WokenDrains
CHECK_DEADLOCK FALSE
