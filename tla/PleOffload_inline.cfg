SPECIFICATION Spec
CONSTANTS
  TP = 2
  MaxSteps = 4
  Doorbell = TRUE
  CudaInputs = TRUE
  AsyncPrep = FALSE
  Faults = FALSE
INVARIANTS ForwardReadsOwnRows NoOverwriteUnderCopy WaitNeverPending IInv
PROPERTIES NoLostDoorbell ImplementsLocal
