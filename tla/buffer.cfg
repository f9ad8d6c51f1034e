SPECIFICATION Spec

CONSTANTS
  InitSize = 5
  ExtraSize = 2
  HeadRoom = 3
  LineHead <- TheHead
  LineTitle <- TheTitle
  Chunks <- TheChunks
  Messages <- TheMessages
  SizeValues = 65536
  MaxSize = 8

INVARIANTS
  TypeOK
  EnsureIsEnough
  LineWholeIfItFits

PROPERTIES
  ImplementsByteQueue
