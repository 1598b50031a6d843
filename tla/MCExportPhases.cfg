SPECIFICATION Spec
CONSTANTS
  NumPages = 4
  MaxKeys = 4
  Keys <- MCKeys
  Units <- MCUnits
  Sids <- MCSids
  Groups <- MCGroups
  Layouts <- MCLayouts
  a = a
  b = b
  sa = sa
  sb = sb
  g1 = g1
  g2 = g2
  x = x
  y = y
  z = z
  fx = fx
  fz = fz
INVARIANTS
  TypeOK
  ExportedOnce
  RowLimit
  NoRowMissed
  HistoricalRowsKept
  HistoricalRowsOnce
