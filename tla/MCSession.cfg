SPECIFICATION Spec
CONSTANTS
  Dictionaries <- MCDictionaries
  NumFiles = 2
  Required = 1
  Counted = 1
  None = None
  NoDir = NoDir
  Blank = Blank
  Files = {f1, absent}
  Readable = {f1}
  HasControl = {}
  Asm = {m1, m2}
  MaxRuns = 2
  MaxEdits = 1
  MaxKills = 1
SYMMETRY AsmSymmetry
INVARIANTS
  TypeOK
  CorrectionsKept
  ActiveWhole
  FailureRestores
  ReadersFollowSystem
  MemoryFollowsDisk
