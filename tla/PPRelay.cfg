SPECIFICATION Spec
CONSTANTS
  P = 2
  Reqs = {a, b}
  None = None
  NumSlots = 2
  K = 1
  PromptLen = 1
  MaxLen = 5
  MaxSteps = 5
INVARIANTS ForwardInputsAgree BroadcastsMatch
PROPERTIES EveryStepCompletes
CHECK_DEADLOCK FALSE
