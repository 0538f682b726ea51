SPECIFICATION Spec
CONSTANTS
  Names <- MCNames
  Roles <- MCRoles
  NoAws <- MCNoAws
  ExtraKeys <- MCExtra
  ExtraValues <- MCExtra
  Bodies <- MCTwoBodies
  Keys = {s1, s2}
  Replicas = {ra, rb}
  Workers = {w1, w2}
  Capacity = 1
  NoKey = NoKey
  Absent = Absent
  Budgets <- MCLiveBudgets
PROPERTIES
  Converges
  ImplementsWorkQueue
  ImplementsUpsert
CHECK_DEADLOCK FALSE
