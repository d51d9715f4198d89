\* Heap: two block sizes, 8 and 16.  A chunk has two blocks, or as many as 28
\* bytes hold if that is more: three of the small ones (the last 4 bytes left
\* out) and two of the large ones; 13 needs a third size, which does not exist.
\* An int is at most 63: the size of 52 is still positive, that of 57 wraps
\* when it is rounded up and that of 63 when its size word is added.
\* The program writes 3, which is no address.
\* Strings: four calls in any order; lines shorter and longer than the buffer.
SPECIFICATION LibrarySpec
CONSTANTS
  IntSize = 4
  BLOCK_SIZE_STEP = 8
  INT_MAX = 63
  NUM_SIZES = 3
  MIN_ALLOCATION = 28
  ChunkBlocks = 2
  HeapStart = 8
  HeapLimit = 64
  Requests = {0, 3, 4, 12, 13, 52, 57, 63}
  Scribble = {3}
CONSTANTS
  BufferSize = 8
  Modulus = 65536
  Inputs <- MCInputs
  Sizes = {1, 3, 7}
  Values = {0, 7, 80, 907, 65535}
  MaxCalls = 4
INVARIANTS FreeListsIntact DecimalDigits LinesArrive
PROPERTIES ImplementsAllocator ReadBack StaysInBuffer CallsReturn
CHECK_DEADLOCK FALSE
