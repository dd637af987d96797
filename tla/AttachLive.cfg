SPECIFICATION FairSpec
CONSTANTS
  s1 = s1
  s2 = s2
  e1 = e1
  e2 = e2
  e3 = e3
  Sessions = {s1}
  Probes <- LiveProbes
  StartID <- LiveStart
  UserCookies <- LiveCookies
  Adopters = {s1}
  ProgCounts <- OneOrTwo
  U32 = 8
  MaxEntries = 2
  Slots = {e1, e2, e3}
  CPUs = {1, 2}
  NArgs = 1
  MaxCloses = 2
  LateClose = FALSE
  NoSlot = NoSlot
  Idle = Idle
  Miss = Miss
PROPERTIES CallsReturn
CHECK_DEADLOCK FALSE
