SPECIFICATION Spec
CONSTANTS
  ItemLength <- Pictures
  hash_block_size = 3
  TargetSizes = {3, 6}
  MaxTokens = 12
  MaxPrompt = 7
  MaxItems = 2
INVARIANTS UniqueFingerprints
