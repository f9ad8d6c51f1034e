SPECIFICATION Spec

CONSTANTS
  w1 = w1
  w2 = w2
  Flusher = Flusher
  Writers = {w1, w2}
  Modes = {TRUE}
  QueueCapacity = 1
  MaxLines = 1
  Levels = {1}
  Settings = {1}
  MaxCalls = 3
  MaxDay = 1
  Mday <- Calendar
  MaxInits = 1
  MaxRuns = 1
  Exits = TRUE

INVARIANTS
  FlushesOpenFile

CHECK_DEADLOCK FALSE
