SPECIFICATION Spec
CONSTANTS
  Refs <- MCRefs
  Storages = {unit, other}
  Unit = unit
  Other = other
  Null = Null
  Garbage = Garbage
  MaxDepth = 3
  MaxDamage = 2
  Layouts <- MCLayouts
INVARIANTS
  TypeOK
  PlanClosed
  NoLeafDropped
  CyclesRecognised
PROPERTIES
  Terminates
