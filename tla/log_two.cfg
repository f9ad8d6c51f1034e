SPECIFICATION Spec

CONSTANTS
  w1 = w1
  w2 = w2
  Flusher = Flusher
  Writers = {w1, w2}
  Modes = {TRUE, FALSE}
  QueueCapacity = 2
  MaxLines = 2
  Levels = {1}
  Settings = {1, 3}
  MaxCalls = 4
  MaxDay = 1
  Mday <- Calendar
  MaxInits = 2
  MaxRuns = 2
  Exits = TRUE

SYMMETRY WriterSymmetry

INVARIANTS
  TypeOK
  PushNeverWaits
  FputsToOpenFile
  OvertakeBounded
  ExitKeepsLines
  DirectDurable

PROPERTIES
  ImplementsSink

CHECK_DEADLOCK FALSE
