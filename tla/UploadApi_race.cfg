\* Three uploads, two processes, a COMMIT may be applied unheard. The system stops when every request has been answered.
CONSTANTS
  r1 = r1
  r2 = r2
  r3 = r3
  p1 = p1
  p2 = p2
  k1 = k1
  k2 = k2
  c1 = c1
  c2 = c2
  Requests = {r1, r2, r3}
  Processes = {p1, p2}
  Keys = {k1}
  Contents = {c1, c2}
  MaxFaults = 2
  LostAcks = TRUE
SYMMETRY UploadSymmetry
SPECIFICATION Spec
CHECK_DEADLOCK FALSE
INVARIANTS
  TypeOK
  SameKeySameJob
  AcceptedIsRecorded
  ConflictIsReal
  OrphansOnlyFromErrors
  RowHasFile
  LookupDecides
PROPERTIES
  KeepsPromise
