SPECIFICATION Spec
CONSTANTS
  Names <- MCNames
  Roles <- MCRoles
  NoAws <- MCNoAws
  ExtraKeys <- MCExtra
  ExtraValues <- MCExtra
  Bodies <- MCTwoBodies
  Keys = {s1}
  Replicas = {r1}
  Workers = {w1}
  Capacity = 1
  NoKey = NoKey
  Absent = Absent
  Budgets <- MCRestart
INVARIANT OfflineDeletionIsNoticed
CHECK_DEADLOCK FALSE
