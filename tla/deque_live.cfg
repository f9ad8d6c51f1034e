SPECIFICATION FairSpec

CONSTANTS
  p1 = p1
  p2 = p2
  c1 = c1
  c2 = c2
  Producers = {p1, p2}
  Consumers = {c1, c2}
  Timed = {c2}
  Calls <- AllCalls
  Capacity = 2
  MaxItems = 3

PROPERTIES
  ItemsLeave
  CloseReleasesWaiters
  ImplementsChannel
