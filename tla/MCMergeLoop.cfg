SPECIFICATION Spec
CONSTANTS
  Names <- MCNames
  Roles = {r1, r2}
  NoAws = NoAws
  ExtraKeys <- MCExtraKeys
  ExtraValues <- MCExtraValues
  Bodies <- MCBodies
  NoClaim = NoClaim
INVARIANTS
  ReturnsMerge
  AcceptsMergeable
  MergesEverything
  BlameSuffices
  TokenCarriesBindings
\* merge_inputs returns.
CHECK_DEADLOCK FALSE
