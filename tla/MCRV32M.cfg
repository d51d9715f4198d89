\* The programs of MCSimulate, for one question.
SPECIFICATION Spec
CONSTANTS
  ByteBase = 4
  NPages = 4
  PageWords = 16
  Width = 8
  Reg <- Regs
  Decode <- MenuDecode
  Boots <- ProbeBoots
  MaxInsns = 4
PROPERTY RunsRV32M
CHECK_DEADLOCK FALSE
