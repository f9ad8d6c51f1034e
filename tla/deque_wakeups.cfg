SPECIFICATION Spec

CONSTANTS
  p1 = p1
  p2 = p2
  c1 = c1
  c2 = c2
  c3 = c3
  Producers = {p1, p2}
  Consumers = {c1, c2, c3}
  Timed = {}
  Calls <- AllButClear
  Capacity = 2
  MaxItems = 5

SYMMETRY ThreadSymmetry

INVARIANTS
  TypeOK
  WakeupsCoverItems
  WakeupsCoverRoom
