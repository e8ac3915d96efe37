\* README 418: UTF-8-clean text is accepted.
CONSTANTS
  Files <- MCFiles
  ChunkSize = 2
  HeaderSize = 3
  MaxFileSize = 5
  MaxText = 8
  MaxRows = 3
  MaxPrompt = 6
  Window = 4
  WindowStep = 2
  MaxSnippet = 3
  Parses <- MCParses
  Claims <- MCClaims
SPECIFICATION Spec
CHECK_DEADLOCK FALSE
INVARIANTS
  CleanTextIsAccepted
