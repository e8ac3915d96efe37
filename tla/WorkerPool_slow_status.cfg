\* README 446: the worker checks job status before processing.
CONSTANTS
  w1 = w1
  w2 = w2
  Workers = {w1, w2}
  MaxAttempts = 2
  Jobs = {1}
  Raised <- JustRetry
  MaxFaults = 0
  SlowWorkers = TRUE
  LostAcks = FALSE
SPECIFICATION Spec
PROPERTY
  StatusCheckedBeforeProcessing
