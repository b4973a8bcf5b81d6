SPECIFICATION Spec
CONSTANTS
  DF_BLOCK_SIZE = 2
  DF_LOG_BEGIN = 2
  DF_LOG_LIMIT = 8
  PAGE_SIZE = 2
  Sizes = {1, 2}
  MAX_OFFSET = 1
  EMPTY = 4
  EraseBlocks = {0}
  LossBeforeErase = FALSE
  MaxEntries = 10
  MaxNow = 1
  MaxSeq = 3
INVARIANTS TypeOK PageAheadErased EntriesAccounted ScanFindsLast ReplayInOrder
CHECK_DEADLOCK FALSE
