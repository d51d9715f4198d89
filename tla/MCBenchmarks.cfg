\* fib with results below, at and above the modulus; the numbers below 50 for
\* erat: composites of one, two and three primes; for radix five numbers or
\* requests in any order, a tree of up to four leaves.
SPECIFICATION Spec
CONSTANTS
  Arguments = {0, 1, 2, 3, 5, 7, 9}
  Modulus = 16
  MAX = 50
  Nodes = {1, 2, 3, 4, 5, 6, 7, 8, 9, 10}
  MaxBit = 4
  Requests <- MCRequests
  BufferSize = 2
  ShortWrites = FALSE
  MaxRequests = 5
INVARIANTS PrintsFibonacci DepthBounded PrintsThePrimes
INVARIANTS RadixShape OneOwner
PROPERTIES ImplementsPriorityBag Served Terminates
CHECK_DEADLOCK FALSE
