\* Up to three citations and two tool calls. A run stops when it has returned or raised.
CONSTANTS
  page = page
  gone = gone
  sheet = sheet
  s1 = s1
  s2 = s2
  s3 = s3
  Places <- MCPlaces
  Snippets <- MCSnippets
  Blank = "blank"
  Source <- MCSource
  RawCitations <- MCRawCitations
  MaxCitations = 3
  MaxCalls = 2
  Timeout = 3
  MinCall = 2
  ClientTries = 2
  Waits = 2
  Pause = 1
SPECIFICATION Spec
CHECK_DEADLOCK FALSE
INVARIANTS
  TypeOK
  MarkedIsGrounded
  SingleCallIsWarned
  NothingDropped
  CapSkipsOnlyTheTail
  OverrunBounded
