\* Anything goes: attempts outlive their lock, COMMITs are applied unheard.
CONSTANTS
  w1 = w1
  w2 = w2
  Workers = {w1, w2}
  MaxAttempts = 2
  Jobs = {1}
  Raised <- OneOfEach
  MaxFaults = 2
  SlowWorkers = TRUE
  LostAcks = TRUE
SYMMETRY WorkerSymmetry
SPECIFICATION Spec
INVARIANTS
  TypeOK
  ProcessingIsLocked
  CompletedHasOutput
  ExhaustedMeansExhausted
  TransientErrorsNeverFail
  AttemptOverrunBounded
