SPECIFICATION Spec
CONSTANTS
  Lines <- SomeLines
  Files <- SomeFiles
  ArgTexts <- SomeArgTexts
  Word = 16
INVARIANTS ListsAsked PrintsSelected ShowsParsed
CHECK_DEADLOCK FALSE
