SPECIFICATION Spec
CONSTANTS
  NoRegion <- MCNoRegion
  Pods = {p1}
  Shapes <- MCOneShape
  Sidecars = {"mesh"}
  Blocks <- MCBlocks
  NoAws <- MCNoAws
  Writers = {v1}
  Outcomes <- MCOutcomes
  Account = "own"
  OthersObject <- MCOthersObject
  NoHash <- MCNoHash
  Absent = Absent
  Budgets <- MCNoFaults
  Modes = {"Fail"}
INVARIANTS
  ChangeIsDetected
