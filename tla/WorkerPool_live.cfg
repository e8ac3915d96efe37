\* Two jobs and one fault, so one worker is left whatever happens.
CONSTANTS
  w1 = w1
  w2 = w2
  Workers = {w1, w2}
  MaxAttempts = 2
  Jobs = {1, 2}
  Raised <- JustRetry
  MaxFaults = 1
  SlowWorkers = FALSE
  LostAcks = TRUE
SPECIFICATION Spec
PROPERTIES
  QueuedJobSettles
  ShutdownCompletes
