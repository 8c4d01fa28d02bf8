SPECIFICATION Spec
CONSTANTS
    Setups <- MCSetups
    MaxMoves = 2
INVARIANTS
    MemoryWithinRequest
    CapturesSound
    BatchGetsItsGraph
    WarmUpSound
