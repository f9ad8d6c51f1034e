SPECIFICATION Spec

CONSTANTS
  Cpus = {cpu0}
  Interfaces = {eth0}
  Wrap = 2
  Sleep = 2
  Significands = 8
  Uptime = 5
  MaxClock = 9
  MaxResets = 1
  MaxRestarts = 1

INVARIANTS
  TypeOK
  PeriodsPositive
  RatesAddUp
  NegativeOnlyIfReset
  EveryKnownSource
  SharesAddUp

\* The clock and the resets are bounded.
CHECK_DEADLOCK FALSE
