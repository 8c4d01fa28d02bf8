SPECIFICATION KvBlocksSpec
CONSTANTS
  Blocks = {1, 2, 3, 4, 5}
  Head_ = Head_
  Tail_ = Tail_
  None = None
  ItemLength <- Pictures
  hash_block_size = 3
  TargetSizes = {3, 6}
  MaxTokens = 12
  MaxPrompt = 7
  MaxItems = 2
INVARIANTS LinksConsistent IterationResumes AsFromScratch UniqueHashes
PROPERTIES ImplementsQueue
