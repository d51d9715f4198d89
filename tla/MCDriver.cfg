\* Every command line on every disk; any file may refuse to open.
SPECIFICATION Spec
CONSTANTS
  ByteBase = 4
  NPages = 4
  PageWords = 16
  Width = 8
  EhdrSize = 4
  PhdrSize = 4
  CommandLines <- MCCommandLines
  Disks <- MCDisks
  Chars <- MCChars
  Atoi <- MCAtoi
  ArgBlock = 64
  MaxInsns = 2
INVARIANTS MemoryIsImage ArgumentsArrive OnlyWholePrograms FilesClosed
INVARIANTS  ProfileNamesPredictor ListingCoversCode
PROPERTY Ends
CHECK_DEADLOCK FALSE
