SPECIFICATION Spec
CONSTANTS
  Dictionaries <- MCDictionaries
  NumFiles = 2
  Required = 1
  Counted = 1
  None = None
  NoDir = NoDir
  Blank = Blank
  Files = {absent}
  Readable = {}
  HasControl = {}
  Asm = {m1, m2}
  MaxRuns = 2
  MaxEdits = 0
  MaxKills = 0
INVARIANTS
  EvidenceKept
