SPECIFICATION FairSpec
CONSTANTS
  Files <- MCFiles
  Notes <- UnmappedNotes
  U32 = 64
  U64 = 4096
  Hole = 1000
INVARIANTS
  WalksLayout
  FindsProbes
  LocatesProbe
PROPERTIES
  MovesForward
  Returns
CHECK_DEADLOCK FALSE
