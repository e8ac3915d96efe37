\* Two uploads race for one key in two processes, over two workers; one fault
\* anywhere. The service rests when every request is answered and every job settled.
CONSTANTS
  r1 = r1
  r2 = r2
  p1 = p1
  p2 = p2
  k1 = k1
  c1 = c1
  w1 = w1
  w2 = w2
  Requests = {r1, r2}
  Processes = {p1, p2}
  Keys = {k1}
  Contents = {c1}
  Workers = {w1, w2}
  MaxAttempts = 2
  Raised <- MCRaised
  Number <- MCNumber
  Route <- MCRoute
  Keyless = FALSE
  MaxFaults = 1
  LostAcks = TRUE
SPECIFICATION Spec
CHECK_DEADLOCK FALSE
INVARIANTS
  UploadThereForWorker
PROPERTIES
  EveryJobSettles
