\* A COMMIT is applied and raises; the client sends the upload again.
CONSTANTS
  r1 = r1
  r2 = r2
  r3 = r3
  p1 = p1
  p2 = p2
  k1 = k1
  k2 = k2
  c1 = c1
  c2 = c2
  Requests = {r1, r2}
  Processes = {p1}
  Keys = {k1}
  Contents = {c1, c2}
  MaxFaults = 1
  LostAcks = TRUE
SYMMETRY UploadSymmetry
SPECIFICATION Spec
CHECK_DEADLOCK FALSE
INVARIANTS
  AcceptedHasFile
