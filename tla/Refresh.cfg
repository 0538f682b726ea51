SPECIFICATION Spec
CONSTANTS
  Ttl = 12
  Skew = 9
  MinRefresh = 2
  MaxJitter = 2
  Timeout = 1
  Outage = 3
  Horizon = 40
INVARIANTS
  TypeOK
  FreshThroughOutage
PROPERTIES
  Spaced
CHECK_DEADLOCK FALSE
