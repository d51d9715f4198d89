\* Each instruction on each of 49 pairs of operands: both signs, the largest
\* and smallest word, zero, and addresses of code, of data and of nothing.
\* Whole programs under every predictor: input and output, nested loops,
\* calls and returns, library calls, a program that rewrites itself.
SPECIFICATION FairSpec
CONSTANTS
  ByteBase = 4
  NPages = 4
  PageWords = 16
  Width = 8
  Reg <- Regs
  Decode <- MenuDecode
  Boots <- AllBoots
  MaxInsns = 60
INVARIANTS TypeOK ProfileIsReplay
PROPERTIES ImplementsRiscV PredictorOnlyObserves Terminates
CHECK_DEADLOCK FALSE
