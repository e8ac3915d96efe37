\* One try of one wait: only the MinCall that a call begun just ahead of the
\* deadline is given all the same makes a run late.
CONSTANTS
  page = page
  gone = gone
  sheet = sheet
  s1 = s1
  s2 = s2
  s3 = s3
  Places <- MCPlaces
  Snippets <- MCSnippets
  Blank = "blank"
  Source <- MCSource
  RawCitations <- MCRawCitations
  MaxCitations = 1
  MaxCalls = 1
  Timeout = 3
  MinCall = 2
  ClientTries = 1
  Waits = 1
  Pause = 1
SPECIFICATION Spec
CHECK_DEADLOCK FALSE
INVARIANTS
  AgentRunBounded
