SPECIFICATION FairSpec

CONSTANTS
  a1 = a1
  a2 = a2
  r1 = r1
  Agents = {a1, a2}
  Readers = {r1}
  Workers = {w1, w2}
  Singular <- TheSingular
  Repeated <- TheRepeated
  None = None
  Unknown = Unknown
  MaxCalls <- TheMaxCalls
  MaxBreaks = 1
  MaxDeaths = 1

INVARIANTS
  TypeOK
  SettledStore
  SettledReads
  StaleOnlyByStray
  MergesBounded

PROPERTIES
  CallsEnd

\* Calls are bounded, so that the clients stop.
CHECK_DEADLOCK FALSE
