SPECIFICATION Spec
CONSTANTS
  TP = 2
  MaxSteps = 3
  Doorbell = FALSE
  CudaInputs = FALSE
  AsyncPrep = TRUE
  Faults = TRUE
CHECK_DEADLOCK FALSE
INVARIANTS RequestIsCoherent CountMeansLaunch PutNeverBlocks
PROPERTY AnswerArrives
