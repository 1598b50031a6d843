SPECIFICATION Spec
CONSTANTS
  Dictionaries <- MCDictionaries
  NumFiles = 2
  Required = 1
  Counted = 1
  None = None
  NoDir = NoDir
  Blank = Blank
  Files = {f1, absent}
  Readable = {f1}
  HasControl = {}
  Asm = {}
  MaxRuns = 2
  MaxEdits = 0
  MaxKills = 0
INVARIANTS
  ReloadIsExplicit
