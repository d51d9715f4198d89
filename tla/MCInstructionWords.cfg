SPECIFICATION WordsSpec
CONSTANTS
  Addrs = {8}
  Symbols <- MCSymbols
  Registers = {0, 9, 22}
  Immediates <- MCImmediates
  Funct7s = {0, 1, 2, 32, 33, 64}
INVARIANTS DecodingInvertsEncoding ListedAsWritten UnknownToBoth
CHECK_DEADLOCK FALSE
