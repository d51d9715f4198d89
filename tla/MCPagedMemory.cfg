\* Two pages of two words of four two-valued bytes.  The sites reach every
\* lane of a word, both words of a page, both pages, and misaligned words
\* and halfwords; the two data words have complementary bits.
SPECIFICATION MemorySpec
CONSTANTS
  ByteBase = 2
  NPages = 2
  PageWords = 2
  Sites = {0, 1, 2, 5, 10, 15}
  Data = {6, 9}
INVARIANT MemoryOK
PROPERTY ImplementsFlatMemory
CHECK_DEADLOCK FALSE
