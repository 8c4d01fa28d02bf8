SPECIFICATION Spec
CONSTANTS
    PP = 3
    MaxSteps = 4
    MaxCalls = 5
    Workloads = {"steps", "weights", "sleep"}
INVARIANTS
    OwnTensors
    ChunksInSelected
    BuffersSurvive
PROPERTY
    StepsEnd
CHECK_DEADLOCK FALSE
