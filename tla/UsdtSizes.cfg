SPECIFICATION Spec
CONSTANTS
  Texts <- OddSizeTexts
  RegFiles <- OneRegFile
  Memories <- OneMemory
  Base = 2
  MaxArgs = 2
INVARIANT CastsKnownSizes
