SPECIFICATION Spec
CONSTANTS
  Refs <- MCRefs
  Storages = {unit, other}
  Unit = unit
  Other = other
  Null = Null
  Garbage = Garbage
  MaxDepth = 3
  MaxDamage = 1
  Layouts <- MCLayouts
INVARIANTS
  CompletePlanCovers
