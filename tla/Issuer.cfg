SPECIFICATION IssuerSpec
CONSTANTS
  Replicas = {r1, r2}
  SigningKeySet = {k1, k2}
  NoSecret = NoSecret
  Malformed = Malformed
  AtInstall = {NoSecret, Malformed, k1}
  MaxStops = 1
  Issuers = {i1}
  BadJwks = BadJwks
  MaxSpoils = 2
  MaxExits = 1
INVARIANTS
  IssuerTypeOK
  KeepsLastGood
  TokensVerify
  KeysStayShared
PROPERTIES
  NeverBack
  IssuersComeUp
