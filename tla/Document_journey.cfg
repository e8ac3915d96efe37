\* A document from its bytes to one citation. The run stops when it is done.
CONSTANTS
  Files <- MCFiles
  ChunkSize = 2
  HeaderSize = 3
  MaxFileSize = 5
  MaxText = 8
  MaxRows = 3
  MaxPrompt = 6
  Window = 4
  WindowStep = 2
  MaxSnippet = 3
  Parses <- MCParses
  Claims <- MCClaims
SPECIFICATION Spec
CHECK_DEADLOCK FALSE
INVARIANTS
  TypeOK
  KeptWholeOrNotAtAll
  LossIsWarned
  ColumnTypesFit
  LookupAsAbstracted
  CloseMatchIsFound
