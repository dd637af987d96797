SPECIFICATION Spec
CONSTANTS
  Texts <- NoteTexts
  RegFiles <- SomeRegFiles
  Memories <- SomeMemories
  Base = 2
  MaxArgs = 2
INVARIANTS SplitsRuns AcceptsRuns AcceptsExactly FetchMeansText
CHECK_DEADLOCK FALSE
