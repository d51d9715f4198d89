\* The area of MCGuestLibrary; 57 is the least size asked for that wraps.
SPECIFICATION Spec
CONSTANTS
  IntSize = 4
  BLOCK_SIZE_STEP = 8
  INT_MAX = 63
  NUM_SIZES = 3
  MIN_ALLOCATION = 28
  ChunkBlocks = 2
  HeapStart = 8
  HeapLimit = 64
  Requests = {4, 13, 57}
  Scribble = {3}
INVARIANT LargeRefused
CHECK_DEADLOCK FALSE
