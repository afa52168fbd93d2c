SPECIFICATION ExportSpec
CONSTANTS
  Accesses = {a1, a2}
  NoFile = NoFile
INVARIANTS RaceLoserServed
CHECK_DEADLOCK FALSE
