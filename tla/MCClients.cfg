CONSTANTS
  a = a
  b = b
  d = d
  Dot = "."
  Ids = {1, 2, 3, 4, 5, 6, 7}
  NoId = 0
  Sessions <- SomeSessions
  QueueMax = 1
  Chars <- SomeChars
  Lines <- SomeLines
  Junk <- JunkWord
  NoValue = NoValue
  TheirPaths <- TheirPath
SPECIFICATION Spec
CHECK_DEADLOCK FALSE
INVARIANTS AnswerOfThisCall ServerListens ReadsWhatItWrote
PROPERTIES CallReturns CommandReturns
