SPECIFICATION Spec
CONSTANTS
  s1 = s1
  s2 = s2
  e1 = e1
  e2 = e2
  Sessions = {s1, s2}
  Probes <- OneProbeEach
  StartID <- FromOne
  UserCookies <- NoCookiesEach
  Adopters = {s1}
  ProgCounts <- OneOrTwo
  U32 = 8
  MaxEntries = 2
  Slots = {e1, e2}
  CPUs = {1}
  NArgs = 1
  MaxCloses = 2
  LateClose = TRUE
  NoSlot = NoSlot
  Idle = Idle
  Miss = Miss
INVARIANT KeepsSpecs
CHECK_DEADLOCK FALSE
