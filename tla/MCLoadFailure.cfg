\* The command lines of MCDriver, for one question.
SPECIFICATION Spec
CONSTANTS
  ByteBase = 4
  NPages = 4
  PageWords = 16
  Width = 8
  EhdrSize = 4
  PhdrSize = 4
  CommandLines <- MCCommandLines
  Disks <- MCDisks
  Chars <- MCChars
  Atoi <- MCAtoi
  ArgBlock = 64
  MaxInsns = 2
INVARIANT FailuresAreReported
CHECK_DEADLOCK FALSE
