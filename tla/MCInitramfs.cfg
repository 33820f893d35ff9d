SPECIFICATION Spec
CONSTANTS
  Archives <- MCArchives
  MaxDentries = 7
  MaxMemory = 16
INVARIANTS
  TreeIntact
  LastEntryWins
