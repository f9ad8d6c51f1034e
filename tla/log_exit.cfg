SPECIFICATION FairSpec

CONSTANTS
  w1 = w1
  Flusher = Flusher
  Writers = {w1}
  Modes = {TRUE}
  QueueCapacity = 1
  MaxLines = 2
  Levels = {1}
  Settings = {1}
  MaxCalls = 1
  MaxDay = 1
  Mday <- Calendar
  MaxInits = 1
  MaxRuns = 1
  Exits = TRUE

PROPERTIES
  DestroyReturns

CHECK_DEADLOCK FALSE
