SPECIFICATION Spec

CONSTANTS
  w1 = w1
  w2 = w2
  Flusher = Flusher
  Writers = {w1, w2}
  Modes = {FALSE}
  QueueCapacity = 1
  MaxLines = 2
  Levels = {1}
  Settings = {1}
  MaxCalls = 6
  MaxDay = 1
  Mday <- Calendar
  MaxInits = 1
  MaxRuns = 1
  Exits = TRUE

INVARIANTS
  FileWithinBound

CHECK_DEADLOCK FALSE
