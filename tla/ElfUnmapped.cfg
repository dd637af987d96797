SPECIFICATION Spec
CONSTANTS
  Files <- MCFiles
  Notes <- UnmappedNotes
  U32 = 64
  U64 = 4096
  Hole = 1000
INVARIANTS
  LocationIsFileOffset
CHECK_DEADLOCK FALSE
