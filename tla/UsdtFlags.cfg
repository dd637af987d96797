SPECIFICATION Spec
CONSTANTS
  Lines <- BinaryFirst
  Files <- SomeFiles
  ArgTexts <- SomeArgTexts
  Word = 16
INVARIANT DocumentedOrder
CHECK_DEADLOCK FALSE
