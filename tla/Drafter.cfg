SPECIFICATION Spec
CONSTANTS
    Reqs = {r1, r2}
    Impls = {"v2", "padded", "cpu"}
    K = 3
    MaxModelLen = 6
    PromptLens = {2}
    MaxChunk = 2
    MaxSteps = 3
SYMMETRY Symmetry
INVARIANTS
    CacheInSync
    DraftsFollow
CHECK_DEADLOCK FALSE
