SPECIFICATION Spec
CONSTANTS
  s1 = s1
  s2 = s2
  e1 = e1
  e2 = e2
  e3 = e3
  Sessions = {s1, s2}
  Probes <- ReuseProbes
  StartID <- ReuseStart
  UserCookies <- WideCookies
  Adopters = {}
  ProgCounts <- OneOrTwo
  U32 = 8
  MaxEntries = 2
  Slots = {e1, e2, e3}
  CPUs = {1}
  NArgs = 2
  MaxCloses = 2
  LateClose = FALSE
  NoSlot = NoSlot
  Idle = Idle
  Miss = Miss
INVARIANTS CloseRemovesSpecs
CHECK_DEADLOCK FALSE
