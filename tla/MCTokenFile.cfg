SPECIFICATION Spec
CONSTANTS
  Readers = {c1, c2}
  Inodes = {n1, n2, n3, n4, n5}
  Nowhere = Nowhere
  Pieces = 2
  MaxTokens = 3
  MaxEnds = 2
  MaxCrashes = 1
SYMMETRY Symmetry
INVARIANTS
  TypeOK
  FileIsWhole
  ReadsAreWhole
PROPERTIES
  NeverOlder
  ImplementsAtomicFile
\* When all tokens are minted nothing is left to do.
CHECK_DEADLOCK FALSE
