SPECIFICATION Spec
CONSTANTS
  TP = 1
  MaxSteps = 3
  Doorbell = TRUE
  CudaInputs = FALSE
  AsyncPrep = TRUE
  Faults = FALSE
INVARIANT NoOverwriteUnderCopy
