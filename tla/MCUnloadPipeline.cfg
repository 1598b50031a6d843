SPECIFICATION Spec
CONSTANTS
  NumPages = 5
  Keys <- MCKeys
  Units <- MCUnits
  MaxKeys = 2
  Disks <- MCDisks
  Workers = {w1, w2}
  BatchPages = 2
  ChunkCap = 2
  MemLimit = 3
  QueueCap = 2
  k1 = k1
  k2 = k2
  k3 = k3
  u1 = u1
  u2 = u2
INVARIANTS
  TypeOK
  BudgetBalanced
  LookaheadBounded
  NoLostWakeup
  NothingLeftBehind
  InOrder
PROPERTIES
  Terminates
  ImplementsPlanOrder
