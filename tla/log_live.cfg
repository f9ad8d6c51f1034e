SPECIFICATION FairSpec

CONSTANTS
  w1 = w1
  Flusher = Flusher
  Writers = {w1}
  Modes = {TRUE, FALSE}
  QueueCapacity = 1
  MaxLines = 2
  Levels = {1}
  Settings = {1}
  MaxCalls = 5
  MaxDay = 3
  Mday <- Calendar
  MaxInits = 1
  MaxRuns = 1
  Exits = TRUE

INVARIANTS
  FileWithinBound
  OlderFileOnlyAfterSilence

PROPERTIES
  CallsReturn
  QueuedWritten

CHECK_DEADLOCK FALSE
