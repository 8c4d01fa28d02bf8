SPECIFICATION PlanSpec
CONSTANTS
    Models <- SmallModels
    Platforms <- SmallPlatforms
    Settings <- SmallSettings
    Memories = {12, 40, 100}
    BlockSize = 2
    ModelLen = 5
    MlaGranule = 8
    OffloadGranule = 2
INVARIANTS
    EveryLayerOnce
    PagesDisjoint
    PoolHoldsOneRequest
    AlignedPagesUnify
CHECK_DEADLOCK FALSE
