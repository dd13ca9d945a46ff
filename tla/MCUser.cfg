SPECIFICATION Spec
INVARIANTS
  CharacterRight
  ScreenIsTape
  FormatObeyed
  ParsesGrammar
  ProgramsWired
  HeapTiled
  PrintsMatching
PROPERTIES
  LineSpec
CHECK_DEADLOCK FALSE
