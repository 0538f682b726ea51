SPECIFICATION Spec
CONSTANTS
  NoRegion <- MCNoRegion
  Pods = {p1}
  Shapes <- MCShapes
  Sidecars = {"mesh"}
  Blocks <- MCBlocks
  NoAws <- MCNoAws
  Writers = {v1, v2}
  Outcomes <- MCOutcomes
  Account = "own"
  OthersObject <- MCOthersObject
  NoHash <- MCNoHash
  Absent = Absent
  Budgets <- MCBudgets
  Modes = {"Fail", "Ignore"}
INVARIANTS
  TypeOK
  StartsWithToken
  TokenFitsRole
  OwnTokensOnly
  SettingsReachContainers
  OneAgentFirst
  PatchKeepsTheRest
PROPERTIES
  FailModeInjects
  StartsUnlessChanged
