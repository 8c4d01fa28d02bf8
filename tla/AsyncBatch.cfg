SPECIFICATION Spec
CONSTANTS
    Req = {a, b}
    Prompt = 2
    Drafts = {0, 1}
    MaxOut = 4
    MaxBreaks = 2
INVARIANTS InputsAreOwn SamplerReadsOwn OutputsAreTrue AcceptedIsPrevious
CHECK_DEADLOCK FALSE
