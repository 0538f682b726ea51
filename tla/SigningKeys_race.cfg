SPECIFICATION Spec
CONSTANTS
  Replicas = {r1, r2}
  SigningKeySet = {k1, k2, k3}
  NoSecret = NoSecret
  Malformed = Malformed
  AtInstall = {NoSecret}
  MaxStops = 0
INVARIANT KeyIsShared
CHECK_DEADLOCK FALSE
