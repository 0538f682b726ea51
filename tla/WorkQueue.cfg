SPECIFICATION Spec
CONSTANTS
  Keys = {k1, k2, k3, k4, k5}
  Workers = {w1, w2, w3}
  Capacity = 1
  NoKey = NoKey
INVARIANTS
  TypeOK
  InFlightExact
  SingleFlightPerKey
PROPERTIES
  KeyServed
  ImplementsSingleFlight
