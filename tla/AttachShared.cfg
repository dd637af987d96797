SPECIFICATION Spec
CONSTANTS
  s1 = s1
  s2 = s2
  e1 = e1
  e2 = e2
  e3 = e3
  Sessions = {s1, s2}
  Probes <- DisjointProbes
  StartID <- DisjointStart
  UserCookies <- WideCookies
  Adopters = {s1, s2}
  ProgCounts <- OneOrTwo
  U32 = 8
  MaxEntries = 2
  Slots = {e1, e2, e3}
  CPUs = {1}
  NArgs = 2
  MaxCloses = 1
  LateClose = FALSE
  NoSlot = NoSlot
  Idle = Idle
  Miss = Miss
SYMMETRY Symmetry
INVARIANTS CloseCleansUp KeepsSpecs
PROPERTIES ImplementsService DeletesOwnOnly StableUnderReader
CHECK_DEADLOCK FALSE
