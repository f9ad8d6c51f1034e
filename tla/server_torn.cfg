SPECIFICATION Spec

CONSTANTS
  a1 = a1
  a2 = a2
  r1 = r1
  Agents = {a1}
  Readers = {r1}
  Workers = {w1, w2}
  Singular <- TheSingular
  Repeated <- TheRepeated
  None = None
  Unknown = Unknown
  MaxCalls <- OneAgentCalls
  MaxBreaks = 0
  MaxDeaths = 0

INVARIANTS
  ReadsWhole


\* Calls are bounded, so that the clients stop.
CHECK_DEADLOCK FALSE
