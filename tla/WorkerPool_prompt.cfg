\* Attempts are shorter than the stale timeout; COMMITs may be applied unheard.
CONSTANTS
  w1 = w1
  w2 = w2
  a1 = a1
  a2 = a2
  u1 = u1
  u2 = u2
  Results = {a1, a2}
  Usages = {u1, u2}
  Workers = {w1, w2}
  MaxAttempts = 3
  Jobs = {1}
  Raised <- OneOfEach
  MaxFaults = 3
  SlowWorkers = FALSE
  LostAcks = TRUE
SPECIFICATION OutputSpec
SYMMETRY OutputSymmetry
INVARIANTS
  MutualExclusion
  PipelineOwnsRow
  AttemptsWithinMax
  CompletedByLastAttempt
  ResultHasItsUsage
PROPERTIES
  TerminalIsFinal
  KeepsLifecycle
