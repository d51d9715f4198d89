\* The programs of MCBenchmarks; a batch of radix is one write or more.
SPECIFICATION Spec
CONSTANTS
  Arguments = {0, 1, 2, 3, 5, 7, 9}
  Modulus = 16
  MAX = 50
  Nodes = {1, 2, 3, 4, 5, 6, 7, 8, 9, 10}
  MaxBit = 4
  Requests <- MCRequests
  BufferSize = 2
  ShortWrites = TRUE
  MaxRequests = 5
PROPERTY ImplementsPriorityBag
CHECK_DEADLOCK FALSE
