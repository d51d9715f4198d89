------------------------ MODULE GuestLibrary_proofs -------------------------
(***************************************************************************)
(* The heap of the guest programs, for every size of the area, of a block  *)
(* and of a chunk; and the string functions of their library, for every    *)
(* buffer, input and number.                                               *)
(*                                                                         *)
(* The invariant gives the heap a shape the code never writes down: part   *)
(* cuts the area, up to free_space, into blocks with no gap between them;  *)
(* chain gives every class the sequence of blocks its header leads to; and *)
(* every block is in one list, of its size, or lent to the program.  The   *)
(* links and sizes that lib.c keeps in the words of the blocks are what    *)
(* the shape says, so a request or a release that follows them keeps it.   *)
(*                                                                         *)
(* That of the string functions says, at each place of their loops, which  *)
(* digits or characters are in the buffer already, and which in the        *)
(* counters and pointers.                                                  *)
(***************************************************************************)
EXTENDS Heap, Strings, SequenceTheorems, DataLemmas

(* The heap area is cut into blocks: part tells the size of the block that *)
(* starts at a word, 0 where none does.                                    *)
Cut == [Words -> Nat]
Begins(part) == {b \in Words : part[b] > 0}

Tiled(part, end) ==
  /\ \A b \in Begins(part) : \E k \in Class \ {0} : part[b] = k * BLOCK_SIZE_STEP
  /\ \A b \in Begins(part) : b + part[b] <= end
  /\ \A b, z \in Begins(part) : b < z => b + part[b] <= z
  /\ \A a \in Words : a < end => \E b \in Begins(part) : b <= a /\ a < b + part[b]

(* The free lists, by class and position; NULL from their ends on.         *)
Chains == [Class -> [Nat -> Words \cup {NULL}]]

Follow(chain, headers, links) ==
  \A k \in Class :
    /\ chain[k][0] = headers[k]
    /\ \A n \in Nat : chain[k][n + 1] = IF chain[k][n] = NULL THEN NULL ELSE links[chain[k][n]]

(* No list meets itself, and its blocks are of its size and not lent.      *)
Filed(part, chain, lent) ==
  /\ \A k \in Class, n \in Nat :
       chain[k][n] # NULL => /\ part[chain[k][n]] = k * BLOCK_SIZE_STEP /\ k # 0
                             /\ chain[k][n] + IntSize \notin DOMAIN lent
  /\ \A k \in Class, m, n \in Nat : chain[k][m] = chain[k][n] /\ m < n => chain[k][m] = NULL

(* A live block is as large as the word before it says, and large enough.  *)
Lent(part, links, lent) ==
  \A p \in DOMAIN lent :
    /\ p \in Nat /\ lent[p] \in Nat \ {0}
    /\ p - IntSize \in Begins(part)
    /\ links[p - IntSize] = part[p - IntSize]
    /\ lent[p] + IntSize <= part[p - IntSize]

(* No block is lost.                                                       *)
Kept(part, chain, lent) ==
  \A b \in Begins(part) :
    \/ b + IntSize \in DOMAIN lent
    \/ \E k \in Class, n \in Nat : chain[k][n] = b

Sound(part, chain, headers, end, links, lent) ==
  /\ Tiled(part, end) /\ Follow(chain, headers, links)
  /\ Filed(part, chain, lent) /\ Lent(part, links, lent) /\ Kept(part, chain, lent)

Shape ==
  /\ small_block_headers \in [Class -> Words \cup {NULL}]
  /\ free_space \in HeapStart .. HeapLimit /\ free_space % IntSize = 0
  /\ word = [a \in Words |-> word[a]]
  /\ live = [p \in DOMAIN live |-> live[p]]
  /\ astray \in BOOLEAN

IInv ==
  /\ Shape
  /\ \E part \in Cut, chain \in Chains :
       Sound(part, chain, small_block_headers, free_space, word, live)

-----------------------------------------------------------------------------
LEMMA WordsAreNumbers ==
  ASSUME NEW a \in Words
  PROVE  a \in Nat /\ a >= HeapStart /\ a < HeapLimit /\ a # NULL /\ a % IntSize = 0
  BY HeapAssumption DEF Words, NULL

LEMMA Multiple ==
  ASSUME NEW a \in Nat, NEW m \in Nat \ {0}, a % m = 0
  PROVE  \E p \in Nat : a = m * p
<1>1. a \div m \in Nat /\ a = m * (a \div m) + (a % m)
  BY DivMod
<1>2. PICK p \in Nat : p = a \div m
  BY <1>1
<1>3. a = m * p + 0
  BY <1>1, <1>2
<1> QED BY <1>3

(* Multiples of the words' size.                                           *)
LEMMA Aligned ==
  ASSUME NEW a \in Nat, NEW b \in Nat, NEW m \in Nat \ {0}, a % m = 0, b % m = 0
  PROVE  (a + b) % m = 0 /\ (a >= b => (a - b) % m = 0) /\ \A k \in Nat : (k * b) % m = 0
<1>1. PICK p \in Nat : a = m * p
  BY Multiple
<1>2. PICK q \in Nat : b = m * q
  BY Multiple
<1>3. \A k \in Nat : (m * k + 0) % m = 0
  BY DivModUnique
<1>4. a + b = m * (p + q) + 0 /\ p + q \in Nat
  BY <1>1, <1>2
<1>5. ASSUME a >= b PROVE a - b = m * (p - q) + 0 /\ p - q \in Nat
  <2>1. p >= q
    <3>1. CASE q > p
      <4>1. m * q >= m * (p + 1)
        BY <3>1
      <4>2. m * (p + 1) = m * p + m
        OBVIOUS
      <4> QED BY <4>1, <4>2, <1>1, <1>2, <1>5
    <3> QED BY <3>1
  <2> QED BY <2>1, <1>1, <1>2
<1>6. ASSUME NEW k \in Nat PROVE k * b = m * (k * q) + 0 /\ k * q \in Nat
  BY <1>2
<1> QED BY <1>3, <1>4, <1>5, <1>6

LEMMA StepFacts ==
  /\ BLOCK_SIZE_STEP \in Nat \ {0} /\ IntSize \in Nat \ {0}
  /\ \A k \in Nat : /\ k * BLOCK_SIZE_STEP \in Nat /\ num_size(k * BLOCK_SIZE_STEP) = k
                    /\ (k * BLOCK_SIZE_STEP) % IntSize = 0
                    /\ k # 0 => k * BLOCK_SIZE_STEP >= IntSize /\ k * BLOCK_SIZE_STEP > 0
<1>1. BLOCK_SIZE_STEP \in Nat \ {0} /\ IntSize \in Nat \ {0} /\ BLOCK_SIZE_STEP % IntSize = 0
  BY HeapAssumption
<1>2. ASSUME NEW k \in Nat
      PROVE  /\ k * BLOCK_SIZE_STEP \in Nat /\ num_size(k * BLOCK_SIZE_STEP) = k
             /\ (k * BLOCK_SIZE_STEP) % IntSize = 0
             /\ k # 0 => k * BLOCK_SIZE_STEP >= IntSize /\ k * BLOCK_SIZE_STEP > 0
  <2>1. k * BLOCK_SIZE_STEP \in Nat
    BY <1>1
  <2>2. (BLOCK_SIZE_STEP * k + 0) \div BLOCK_SIZE_STEP = k
    BY <1>1, DivModUnique
  <2>3. k * BLOCK_SIZE_STEP = BLOCK_SIZE_STEP * k + 0
    BY <1>1
  <2>4. (k * BLOCK_SIZE_STEP) % IntSize = 0
    BY <1>1, Aligned
  <2>5. PICK p \in Nat : BLOCK_SIZE_STEP = IntSize * p
    BY <1>1, Multiple
  <2>6. BLOCK_SIZE_STEP >= IntSize
    <3>1. p >= 1
      BY <2>5, <1>1
    <3>2. IntSize * p >= IntSize
      BY <3>1, <1>1
    <3> QED BY <3>2, <2>5
  <2>7. k # 0 => k * BLOCK_SIZE_STEP >= BLOCK_SIZE_STEP
    BY <1>1
  <2> QED BY <1>1, <2>1, <2>2, <2>3, <2>4, <2>6, <2>7 DEF num_size
<1> QED BY <1>1, <1>2

LEMMA TimesMonotone ==
  ASSUME NEW l \in Nat, NEW m \in Nat, NEW size \in Nat
  PROVE  /\ l <= m => l * size <= m * size
         /\ l < m => l * size + size <= m * size
<1>1. ASSUME NEW x \in Nat, NEW y \in Nat, x <= y PROVE x * size <= y * size
  <2>1. PICK d \in Nat : y = x + d
    <3>1. y - x \in Nat /\ y = x + (y - x)
      BY <1>1
    <3> QED BY <3>1
  <2>2. y * size = x * size + d * size
    BY <2>1
  <2>3. d * size \in Nat /\ x * size \in Nat
    OBVIOUS
  <2> QED BY <2>2, <2>3
<1>2. (l + 1) * size = l * size + size
  OBVIOUS
<1>3. l < m => l + 1 <= m /\ l + 1 \in Nat
  OBVIOUS
<1> QED BY <1>1, <1>2, <1>3

(* A size that wrapped in either sum is negative, and so is its class.     *)
LEMMA NegativeClass ==
  ASSUME NEW size \in Int, num_size(size) >= 0
  PROVE  size >= 0
<1>1. PICK m \in Nat \ {0}, q \in Int, r \in Nat :
        q = num_size(size) /\ size = m * q + r /\ r < m
  <2>1. BLOCK_SIZE_STEP \in Nat \ {0}
    BY StepFacts
  <2>2. PICK x : x = size \div BLOCK_SIZE_STEP
    OBVIOUS
  <2>3. PICK y : y = size % BLOCK_SIZE_STEP
    OBVIOUS
  <2>4. x \in Int /\ y \in 0 .. (BLOCK_SIZE_STEP - 1) /\ size = BLOCK_SIZE_STEP * x + y
    BY <2>1, <2>2, <2>3, IntDivMod
  <2>5. x = num_size(size)
    BY <2>2 DEF num_size
  <2>6. y \in Nat /\ y < BLOCK_SIZE_STEP
    BY <2>1, <2>4
  <2> QED BY <2>1, <2>4, <2>5, <2>6
<1>2. m * q >= 0
  <2>1. q >= 0
    BY <1>1
  <2> QED BY <2>1, <1>1
<1>3. size >= m * q
  BY <1>1
<1> QED BY <1>1, <1>2, <1>3

(* A request of a class that exists did not wrap, and fits into a block of *)
(* its class.                                                              *)
LEMMA SizeFits ==
  ASSUME NEW request \in Int, request >= 1, request <= INT_MAX,
         num_size(BlockSize(request)) >= 0
  PROVE  \E k \in Nat \ {0} : /\ BlockSize(request) = k * BLOCK_SIZE_STEP
                              /\ request + IntSize <= BlockSize(request)
<1>1. PICK m \in Nat \ {0}, i \in Nat \ {0}, max \in Nat :
        m = BLOCK_SIZE_STEP /\ i = IntSize /\ max = INT_MAX /\ i + m <= max
  BY StepFacts, HeapAssumption
<1>2. PICK room \in Int : /\ room = Wrap(request + IntSize)
                         /\ room = IF request + i > max THEN (request + i) - 2 * (max + 1) ELSE request + i
  <2>1. Wrap(request + IntSize)
          = IF request + i > max THEN (request + i) - 2 * (max + 1) ELSE request + i
    BY <1>1 DEF Wrap
  <2>2. Wrap(request + IntSize) \in Int
    BY <2>1, <1>1
  <2> QED BY <2>1, <2>2
<1>3. PICK q \in Int, o \in 0 .. (m - 1) : room = m * q + o /\ o = room % m
  BY <1>1, IntDivMod
<1>4. PICK up \in Int : up = IF o = 0 THEN room ELSE (room - o) + m
  BY <1>3, <1>1
<1>5. PICK size \in Int : /\ size = BlockSize(request)
                         /\ size = IF o # 0 /\ up > max THEN up - 2 * (max + 1) ELSE up
  <2>1. BlockSize(request) = IF o = 0 THEN room ELSE Wrap((room - o) + m)
    BY <1>1, <1>2, <1>3 DEF BlockSize
  <2>2. Wrap((room - o) + m) = IF (room - o) + m > max THEN ((room - o) + m) - 2 * (max + 1)
                                                       ELSE (room - o) + m
    BY <1>1 DEF Wrap
  <2>3. BlockSize(request) = IF o # 0 /\ up > max THEN up - 2 * (max + 1) ELSE up
    BY <2>1, <2>2, <1>4
  <2>4. BlockSize(request) \in Int
    BY <2>3, <1>1, <1>4
  <2> QED BY <2>3, <2>4
<1>6. size >= 0
  BY <1>5, NegativeClass
<1>7. request + i <= max
  BY <1>1, <1>2, <1>3, <1>4, <1>5, <1>6
<1>8. size = up
  <2>1. room = request + i
    BY <1>1, <1>2, <1>7
  <2>5. o \in Int /\ o >= 0 /\ m \in Int
    BY <1>1, <1>3
  <2>2. o # 0 => up <= max + m
    BY <1>1, <1>4, <1>7, <2>1, <2>5
  <2>3. o # 0 /\ up > max => size <= (max + m) - 2 * (max + 1)
    BY <1>1, <1>4, <1>5, <2>2
  <2>4. (max + m) - 2 * (max + 1) < 0
    BY <1>1
  <2> QED BY <1>1, <1>4, <1>5, <1>6, <2>3, <2>4
<1>9. PICK k \in Int : k = IF o = 0 THEN q ELSE q + 1
  BY <1>3
<1>10. size = m * k
  <2>1. m * (q + 1) = m * q + m
    OBVIOUS
  <2>2. CASE o = 0
    BY <2>2, <1>3, <1>4, <1>8, <1>9
  <2>3. CASE o # 0
    <3>2. PICK t \in Int : t = m * q
      BY <1>3
    <3>3. room = t + o /\ o \in Int /\ m \in Int
      BY <1>3, <3>2
    <3>4. up = t + m
      BY <2>3, <1>4, <3>3
    <3>1. up = m * q + m
      BY <3>2, <3>4
    <3> QED BY <2>1, <2>3, <3>1, <1>8, <1>9
  <2> QED BY <2>2, <2>3
<1>11. size >= request + i /\ size > 0
  BY <1>1, <1>2, <1>3, <1>4, <1>7, <1>8
<1>12. k > 0
  <2>1. k <= 0 => m * k <= 0
    OBVIOUS
  <2> QED BY <2>1, <1>9, <1>10, <1>11
<1>13. k \in Nat \ {0} /\ BlockSize(request) = k * BLOCK_SIZE_STEP
  BY <1>1, <1>5, <1>10, <1>12
<1> QED BY <1>1, <1>5, <1>11, <1>13

(* A chunk is a number of blocks, at least one.                            *)
LEMMA ChunkIsBlocks ==
  ASSUME NEW size \in Nat \ {0}
  PROVE  \E n \in Nat \ {0} : allocation(size) = n * size
<1>1. ChunkBlocks \in Nat \ {0} /\ MIN_ALLOCATION \in Nat
  BY HeapAssumption
<1>2. CASE size * ChunkBlocks < MIN_ALLOCATION
  <2>1. size <= MIN_ALLOCATION
    <3>1. size <= size * ChunkBlocks
      BY <1>1
    <3> QED BY <3>1, <1>1, <1>2
  <2>2. PICK q \in Nat : q = MIN_ALLOCATION \div size
    BY <1>1, DivMod
  <2>3. q # 0
    BY <2>1, <2>2, <1>1, DivMod
  <2> QED BY <1>2, <2>2, <2>3 DEF allocation
<1>3. CASE ~ (size * ChunkBlocks < MIN_ALLOCATION)
  BY <1>1, <1>3 DEF allocation
<1> QED BY <1>2, <1>3

(* Handing out the first block of a free list.                             *)
RestOf(chain, k) == [chain EXCEPT ![k] = [n \in Nat |-> chain[k][n + 1]]]
Put(f, x, y) == [f EXCEPT ![x] = y]
Lend(lent, p, request) ==
  [q \in DOMAIN lent \cup {p} |-> IF q = p THEN request ELSE lent[q]]

LEMMA TakeSound ==
  ASSUME NEW part \in Cut, NEW chain \in Chains, NEW headers, NEW end, NEW links, NEW lent,
         headers \in [Class -> Words \cup {NULL}], links = [a \in Words |-> links[a]],
         Sound(part, chain, headers, end, links, lent),
         NEW k \in Class, headers[k] # NULL, NEW size, size = k * BLOCK_SIZE_STEP,
         NEW request \in Nat \ {0}, request + IntSize <= size,
         NEW block, block = headers[k]
  PROVE  /\ block \in Begins(part) /\ block \in Words
         /\ block + IntSize \notin DOMAIN lent
         /\ RestOf(chain, k) \in Chains
         /\ Put(headers, k, links[block]) \in [Class -> Words \cup {NULL}]
         /\ Sound(part, RestOf(chain, k), Put(headers, k, links[block]), end,
                  Put(links, block, size), Lend(lent, block + IntSize, request))
<1> DEFINE chain2 == RestOf(chain, k)
           headers2 == Put(headers, k, links[block])
           links2 == Put(links, block, size)
           lent2 == Lend(lent, block + IntSize, request)
<1>1. /\ Tiled(part, end) /\ Follow(chain, headers, links)
      /\ Filed(part, chain, lent) /\ Lent(part, links, lent) /\ Kept(part, chain, lent)
  BY DEF Sound
<1>2. \A z \in Class, n \in Nat : chain[z][n] \in Words \cup {NULL}
  BY DEF Chains
<1>3. block = chain[k][0] /\ block \in Words /\ block # NULL
  BY <1>1, <1>2 DEF Follow
<1>4. /\ part[block] = k * BLOCK_SIZE_STEP /\ k # 0 /\ k \in Nat
      /\ block + IntSize \notin DOMAIN lent
  BY <1>1, <1>3 DEF Filed, Class
<1>5. block \in Begins(part)
  BY <1>3, <1>4, StepFacts DEF Begins
<1>6. chain[k][1] = links[block]
  BY <1>1, <1>3 DEF Follow
<1>7. links[block] \in Words \cup {NULL}
  BY <1>2, <1>6
<1>8. chain2 \in Chains /\ headers2 \in [Class -> Words \cup {NULL}]
  BY <1>2, <1>7 DEF Chains, RestOf, Put
<1>9. ASSUME NEW z \in Class, NEW n \in Nat
      PROVE  chain2[z][n] = IF z = k THEN chain[z][n + 1] ELSE chain[z][n]
  BY DEF Chains, RestOf
<1>10. ASSUME NEW z \in Class, NEW n \in Nat, chain2[z][n] # NULL
       PROVE  chain2[z][n] # block
  <2>1. PICK m \in Nat : chain2[z][n] = chain[z][m] /\ (z = k => m > 0)
    BY <1>9
  <2>2. part[chain[z][m]] = z * BLOCK_SIZE_STEP
    BY <1>1, <1>10, <2>1 DEF Filed
  <2>3. CASE z = k
    BY <1>1, <1>3, <1>10, <2>1, <2>3 DEF Filed
  <2>4. CASE z # k
    <3>1. z * BLOCK_SIZE_STEP # k * BLOCK_SIZE_STEP
      BY <2>4, <1>4, StepFacts DEF Class
    <3> QED BY <3>1, <2>1, <2>2, <1>4
  <2> QED BY <2>3, <2>4
<1>11. DOMAIN links = Words /\ block \in DOMAIN links
  BY <1>3
<1>12. /\ \A a \in Words \ {block} : links2[a] = links[a]
       /\ links2[block] = k * BLOCK_SIZE_STEP
  BY <1>11 DEF Put
<1>13. /\ DOMAIN lent2 = DOMAIN lent \cup {block + IntSize}
      /\ lent2[block + IntSize] = request
      /\ \A p \in DOMAIN lent : p # block + IntSize => lent2[p] = lent[p]
  BY DEF Lend
<1>14. headers2[k] = links[block] /\ \A z \in Class : z # k => headers2[z] = headers[z]
  BY DEF Put
<1> HIDE DEF chain2, links2, lent2, headers2
<1>15. Follow(chain2, headers2, links2)
  <2>1. ASSUME NEW z \in Class PROVE chain2[z][0] = headers2[z]
    BY <1>1, <1>6, <1>9, <1>14 DEF Follow
  <2>2. ASSUME NEW z \in Class, NEW n \in Nat
        PROVE  chain2[z][n + 1] = IF chain2[z][n] = NULL THEN NULL ELSE links2[chain2[z][n]]
    <3>1. chain2[z][n + 1] = IF chain2[z][n] = NULL THEN NULL ELSE links[chain2[z][n]]
      <4>1. \A m \in Nat : chain[z][m + 1] = IF chain[z][m] = NULL THEN NULL ELSE links[chain[z][m]]
        BY <1>1 DEF Follow
      <4>2. n + 1 \in Nat
        OBVIOUS
      <4> QED BY <4>1, <4>2, <1>9
    <3>2. chain2[z][n] \in Words \cup {NULL}
      BY <1>2, <1>9
    <3> QED BY <3>1, <3>2, <1>10, <1>12
  <2> QED BY <2>1, <2>2 DEF Follow
<1>16. Filed(part, chain2, lent2)
  <2>1. ASSUME NEW z \in Class, NEW n \in Nat, chain2[z][n] # NULL
        PROVE  /\ part[chain2[z][n]] = z * BLOCK_SIZE_STEP /\ z # 0
               /\ chain2[z][n] + IntSize \notin DOMAIN lent2
    <3>1. /\ part[chain2[z][n]] = z * BLOCK_SIZE_STEP /\ z # 0
          /\ chain2[z][n] + IntSize \notin DOMAIN lent
      BY <1>1, <1>9, <2>1 DEF Filed
    <3>2. chain2[z][n] \in Words
      BY <1>2, <1>9, <2>1
    <3>3. chain2[z][n] + IntSize # block + IntSize
      BY <3>2, <2>1, <1>10, <1>3, WordsAreNumbers, StepFacts
    <3> QED BY <3>1, <3>3, <1>13
  <2>2. ASSUME NEW z \in Class, NEW m \in Nat, NEW n \in Nat, chain2[z][m] = chain2[z][n], m < n
        PROVE  chain2[z][m] = NULL
    BY <1>1, <1>9, <2>2 DEF Filed
  <2> QED BY <2>1, <2>2 DEF Filed
<1>17. Lent(part, links2, lent2)
  <2> SUFFICES ASSUME NEW p \in DOMAIN lent2
               PROVE  /\ p \in Nat /\ lent2[p] \in Nat \ {0}
                      /\ p - IntSize \in Begins(part)
                      /\ links2[p - IntSize] = part[p - IntSize]
                      /\ lent2[p] + IntSize <= part[p - IntSize]
    BY DEF Lent
  <2>1. CASE p = block + IntSize
    <3>1. p - IntSize = block /\ p \in Nat
      BY <2>1, <1>3, WordsAreNumbers, StepFacts
    <3>2. lent2[p] = request
      BY <2>1, <1>13
    <3> QED BY <3>1, <3>2, <1>4, <1>5, <1>12
  <2>2. CASE p # block + IntSize
    <3>1. p \in DOMAIN lent /\ lent2[p] = lent[p]
      BY <2>2, <1>13
    <3>2. /\ p \in Nat /\ lent[p] \in Nat \ {0}
          /\ p - IntSize \in Begins(part)
          /\ links[p - IntSize] = part[p - IntSize]
          /\ lent[p] + IntSize <= part[p - IntSize]
      BY <3>1, <1>1 DEF Lent
    <3>3. p - IntSize # block /\ p - IntSize \in Words
      BY <3>2, <2>2, <1>3, WordsAreNumbers, StepFacts DEF Begins
    <3> QED BY <3>1, <3>2, <3>3, <1>12
  <2> QED BY <2>1, <2>2
<1>18. Kept(part, chain2, lent2)
  <2> SUFFICES ASSUME NEW b \in Begins(part), b + IntSize \notin DOMAIN lent2
               PROVE  \E z \in Class, n \in Nat : chain2[z][n] = b
    BY DEF Kept
  <2>1. b # block /\ b + IntSize \notin DOMAIN lent
    BY <1>13
  <2>2. PICK z \in Class, n \in Nat : chain[z][n] = b
    BY <2>1, <1>1 DEF Kept
  <2>3. CASE z # k
    BY <2>2, <2>3, <1>9
  <2>4. CASE z = k
    <3>1. n # 0
      BY <2>1, <2>2, <2>4, <1>3
    <3>2. n - 1 \in Nat /\ (n - 1) + 1 = n
      BY <3>1
    <3>3. chain2[z][n - 1] = b
      BY <3>2, <2>2, <2>4, <1>9
    <3> QED BY <3>2, <3>3
  <2> QED BY <2>3, <2>4
<1>19. Sound(part, chain2, headers2, end, links2, lent2)
  BY <1>1, <1>15, <1>16, <1>17, <1>18 DEF Sound
<1> QED BY <1>3, <1>4, <1>5, <1>8, <1>19 DEF chain2, headers2, links2, lent2

(* The starts of the blocks of a new chunk, by their number.               *)
StartsIn(end, chunk, size) ==
  {b \in end .. (end + chunk - size) : (end + chunk - b) % size = 0}

Numbered(S, end, size, n) ==
  /\ S = {end + m * size : m \in 0 .. (n - 1)}
  /\ end \in S /\ \A b \in S : end <= b
  /\ \A m \in 0 .. (n - 1) : end + m * size + size \in S <=> m < n - 1

LEMMA StartsNumbered ==
  ASSUME NEW end \in Nat, NEW size \in Nat \ {0}, NEW n \in Nat \ {0},
         NEW chunk, chunk = n * size
  PROVE  Numbered(StartsIn(end, chunk, size), end, size, n)
<1>1. PICK S : S = StartsIn(end, chunk, size)
  OBVIOUS
<1>2. S = {b \in end .. (end + n * size - size) : (end + n * size - b) % size = 0}
  BY <1>1 DEF StartsIn
<1>3. \A m \in Nat : m * size \in Nat
  OBVIOUS
<1>4. ASSUME NEW m \in 0 .. (n - 1) PROVE end + m * size \in S
  <2>1. PICK r \in Nat \ {0} : n = m + r
    <3>1. n - m \in Nat \ {0} /\ n = m + (n - m)
      OBVIOUS
    <3> QED BY <3>1
  <2>2. n * size = m * size + r * size
    BY <2>1
  <2>3. r * size >= size
    BY <2>1
  <2>4. (size * r + 0) % size = 0
    BY <2>1, DivModUnique
  <2>5. end + n * size - (end + m * size) = size * r + 0
    BY <2>2, <1>3
  <2> QED BY <1>2, <1>3, <2>2, <2>3, <2>4, <2>5
<1>5. ASSUME NEW b \in S PROVE \E m \in 0 .. (n - 1) : b = end + m * size
  <2>1. b \in Nat /\ end <= b /\ b <= end + n * size - size /\ (end + n * size - b) % size = 0
    BY <1>2, <1>3
  <2>2. PICK d \in Nat : d = end + n * size - b
    BY <2>1, <1>3
  <2>3. PICK r \in Nat : d = size * r
    BY <2>1, <2>2, Multiple
  <2>4. r >= 1
    <3>1. d >= size
      BY <2>1, <2>2, <1>3
    <3> QED BY <3>1, <2>3
  <2>5. d <= n * size
    BY <2>1, <2>2, <1>3
  <2>6. r <= n
    <3>1. CASE r >= n + 1
      <4>1. size * r >= size * (n + 1)
        BY <3>1
      <4>2. size * (n + 1) = n * size + size
        OBVIOUS
      <4> QED BY <4>1, <4>2, <2>3, <2>5, <1>3
    <3> QED BY <3>1
  <2>7. PICK m \in 0 .. (n - 1) : n = m + r
    <3>1. n - r \in 0 .. (n - 1) /\ n = (n - r) + r
      BY <2>4, <2>6
    <3> QED BY <3>1
  <2>8. n * size = m * size + size * r
    BY <2>7
  <2>9. m * size \in Nat /\ n * size \in Nat /\ size * r \in Nat
    BY <2>3
  <2>10. b = end + m * size
    <3>1. size * r = end + n * size - b
      BY <2>2, <2>3
    <3> QED BY <2>1, <2>8, <2>9, <3>1
  <2> QED BY <2>10
<1>6. S = {end + m * size : m \in 0 .. (n - 1)}
  BY <1>4, <1>5, <1>2, Zenon
<1>7. end \in S
  <2>1. 0 \in 0 .. (n - 1) /\ end + 0 * size = end
    OBVIOUS
  <2> QED BY <2>1, <1>4
<1>8. ASSUME NEW m \in 0 .. (n - 1) PROVE end + m * size + size \in S <=> m < n - 1
  <2>1. (m + 1) * size = m * size + size /\ m * size \in Nat
    OBVIOUS
  <2>2. ASSUME m < n - 1 PROVE end + m * size + size \in S
    <3>1. m + 1 \in 0 .. (n - 1)
      BY <2>2
    <3>2. end + (m + 1) * size \in S
      BY <3>1, <1>4
    <3> QED BY <2>1, <3>2
  <2>3. ASSUME end + m * size + size \in S PROVE m < n - 1
    <3>1. end + m * size + size <= end + n * size - size
      BY <1>2, <2>3
    <3>2. CASE m = n - 1
      <4>1. n * size = m * size + size
        BY <3>2, <2>1
      <4> QED BY <3>1, <4>1, <2>1
    <3> QED BY <3>2
  <2> QED BY <2>2, <2>3
<1>9. \A b \in S : end <= b
  BY <1>2
<1> QED BY <1>1, <1>6, <1>7, <1>8, <1>9 DEF Numbered
(* A list whose header is NULL has no blocks.                              *)
LEMMA EmptyList ==
  ASSUME NEW chain \in Chains, NEW headers, NEW links, Follow(chain, headers, links),
         NEW k \in Class, headers[k] = NULL
  PROVE  \A n \in Nat : chain[k][n] = NULL
<1> DEFINE A == {n \in Nat : chain[k][n] = NULL}
<1>1. 0 \in A
  BY DEF Follow
<1>2. ASSUME NEW n \in Nat, n \in A PROVE n + 1 \in A
  BY <1>2 DEF Follow
<1> HIDE DEF A
<1>3. Nat \subseteq A
  BY <1>1, <1>2, NatInd
<1> QED BY <1>3 DEF A

(* Cutting a new chunk into blocks of an empty free list.                  *)
PartOf(part, S, size) == [b \in Words |-> IF b \in S THEN size ELSE part[b]]
LinksOf(links, S, size) ==
  [a \in Words |-> IF a \notin S THEN links[a] ELSE IF a + size \in S THEN a + size ELSE NULL]
ChainOf(chain, k, end, size, n) ==
  [chain EXCEPT ![k] = [m \in Nat |-> IF m < n THEN end + m * size ELSE NULL]]

LEMMA CarveSound ==
  ASSUME NEW part \in Cut, NEW chain \in Chains, NEW headers, NEW end, NEW links, NEW lent,
         headers \in [Class -> Words \cup {NULL}], links = [a \in Words |-> links[a]],
         end \in HeapStart .. HeapLimit, end % IntSize = 0,
         Sound(part, chain, headers, end, links, lent),
         NEW k \in Class \ {0}, headers[k] = NULL,
         NEW size, size = k * BLOCK_SIZE_STEP,
         NEW n \in Nat \ {0}, NEW chunk, chunk = n * size, end + chunk <= HeapLimit,
         NEW S, S = StartsIn(end, chunk, size)
  PROVE  /\ S \subseteq Words /\ end \in S /\ \A b \in S : end <= b
         /\ (end + chunk) % IntSize = 0
         /\ PartOf(part, S, size) \in Cut /\ ChainOf(chain, k, end, size, n) \in Chains
         /\ Sound(PartOf(part, S, size), ChainOf(chain, k, end, size, n), Put(headers, k, end),
                  end + chunk, LinksOf(links, S, size), lent)
<1> DEFINE part2 == PartOf(part, S, size)
           links2 == LinksOf(links, S, size)
           chain2 == ChainOf(chain, k, end, size, n)
           headers2 == Put(headers, k, end)
<1>1. /\ Tiled(part, end) /\ Follow(chain, headers, links)
      /\ Filed(part, chain, lent) /\ Lent(part, links, lent) /\ Kept(part, chain, lent)
  BY DEF Sound
<1>2. /\ size \in Nat \ {0} /\ size % IntSize = 0 /\ IntSize \in Nat \ {0}
      /\ end \in Nat /\ chunk \in Nat /\ \A m \in Nat : m * size \in Nat
      /\ HeapStart \in Nat \ {0} /\ HeapLimit \in Nat /\ HeapStart <= end
  <2>1. size \in Nat \ {0} /\ size % IntSize = 0 /\ IntSize \in Nat \ {0}
    BY StepFacts DEF Class
  <2>2. HeapStart \in Nat \ {0} /\ HeapLimit \in Nat
    BY HeapAssumption
  <2> QED BY <2>1, <2>2
<1>3. /\ S = {end + m * size : m \in 0 .. (n - 1)}
      /\ end \in S /\ \A b \in S : end <= b
      /\ \A m \in 0 .. (n - 1) : end + m * size + size \in S <=> m < n - 1
  <2>1. Numbered(S, end, size, n)
    BY <1>2, StartsNumbered
  <2> QED BY <2>1 DEF Numbered
<1>4. \A b \in S : b \in end .. (end + chunk - size)
  BY DEF StartsIn
<1>5. S \subseteq Words
  <2> SUFFICES ASSUME NEW m \in 0 .. (n - 1) PROVE end + m * size \in Words
    BY <1>3
  <2>1. (m * size) % IntSize = 0
    BY <1>2, Aligned
  <2>2. (end + m * size) % IntSize = 0
    BY <1>2, <2>1, Aligned
  <2>3. end + m * size \in S
    BY <1>3
  <2>4. end + m * size \in HeapStart .. (HeapLimit - 1)
    BY <1>2, <1>4, <2>3
  <2> QED BY <2>2, <2>4 DEF Words
<1>6. (end + chunk) % IntSize = 0
  BY <1>2, Aligned
<1>7. ASSUME NEW b \in Begins(part)
      PROVE  b \in Words /\ b \in Nat /\ b < end /\ b \notin S /\ part[b] \in Nat \ {0} /\ b + part[b] <= end
  <2>1. b \in Words /\ part[b] \in Nat \ {0} /\ b + part[b] <= end
    BY <1>1 DEF Begins, Tiled, Cut
  <2>2. b \in Nat
    BY <2>1, WordsAreNumbers
  <2>3. b < end
    <3>1. PICK m \in Nat \ {0} : m = part[b]
      BY <2>1
    <3> QED BY <1>2, <2>1, <2>2, <3>1
  <2>4. b \notin S
    BY <1>2, <1>3, <2>2, <2>3
  <2> QED BY <2>1, <2>2, <2>3, <2>4
<1>8. /\ \A b \in Words : part2[b] = IF b \in S THEN size ELSE part[b]
      /\ \A a \in Words : links2[a] = IF a \notin S THEN links[a]
                                      ELSE IF a + size \in S THEN a + size ELSE NULL
  BY DEF PartOf, LinksOf
<1>9. headers2[k] = end /\ \A z \in Class : z # k => headers2[z] = headers[z]
  BY DEF Put
<1>10. Begins(part2) = Begins(part) \cup S
  BY <1>2, <1>5, <1>7, <1>8 DEF Begins
<1>11. \A b \in Begins(part) : part2[b] = part[b] /\ links2[b] = links[b]
  BY <1>7, <1>8
<1>12. part2 \in Cut
  BY <1>2 DEF Cut, PartOf
<1>13. \A m \in Nat : chain2[k][m] = IF m < n THEN end + m * size ELSE NULL
  BY DEF Chains, ChainOf
<1>14. \A z \in Class : z # k => chain2[z] = chain[z]
  BY DEF Chains, ChainOf
<1>15. \A m \in Nat : chain[k][m] = NULL
  BY <1>1, EmptyList
<1>16. ASSUME NEW m \in Nat, m < n PROVE end + m * size \in S /\ end + m * size \in Words /\ end + m * size # NULL
  BY <1>16, <1>3, <1>5, WordsAreNumbers
<1>17. chain2 \in Chains
  <2>1. [m \in Nat |-> IF m < n THEN end + m * size ELSE NULL] \in [Nat -> Words \cup {NULL}]
    BY <1>16
  <2> QED BY <2>1 DEF Chains, ChainOf
<1>18. ASSUME NEW z \in Class, z # k, NEW m \in Nat, chain[z][m] # NULL
       PROVE  chain[z][m] \in Begins(part)
  <2>1. part[chain[z][m]] = z * BLOCK_SIZE_STEP /\ z # 0
    BY <1>1, <1>18 DEF Filed
  <2>2. chain[z][m] \in Words
    BY <1>18 DEF Chains
  <2> QED BY <2>1, <2>2, StepFacts DEF Begins, Class
<1> HIDE DEF part2, links2, chain2, headers2
<1>19. Tiled(part2, end + chunk)
  <2>1. ASSUME NEW b \in Begins(part2)
        PROVE  /\ \E z \in Class \ {0} : part2[b] = z * BLOCK_SIZE_STEP
               /\ b + part2[b] <= end + chunk
    <3>1. CASE b \in Begins(part)
      <4>1. \E z \in Class \ {0} : part[b] = z * BLOCK_SIZE_STEP
        BY <3>1, <1>1 DEF Tiled
      <4>2. b + part[b] <= end + chunk
        BY <3>1, <1>2, <1>7
      <4> QED BY <4>1, <4>2, <3>1, <1>11
    <3>2. CASE b \in S
      <4>1. part2[b] = size
        BY <3>2, <1>5, <1>8
      <4>2. b + size <= end + chunk
        BY <3>2, <1>2, <1>4
      <4> QED BY <4>1, <4>2
    <3> QED BY <3>1, <3>2, <1>10
  <2>2. ASSUME NEW b \in Begins(part2), NEW z \in Begins(part2), b < z
        PROVE  b + part2[b] <= z
    <3>1. CASE b \in Begins(part) /\ z \in Begins(part)
      <4>1. b + part[b] <= z
        BY <3>1, <2>2, <1>1 DEF Tiled
      <4> QED BY <4>1, <3>1, <1>11
    <3>2. CASE b \in Begins(part) /\ z \in S
      <4>1. b \in Nat /\ part[b] \in Nat /\ b + part[b] <= end /\ part2[b] = part[b]
        BY <3>2, <1>7, <1>11
      <4>2. z \in Nat /\ end <= z
        BY <3>2, <1>2, <1>4
      <4> QED BY <4>1, <4>2, <1>2
    <3>3. CASE b \in S /\ z \in Begins(part)
      BY <3>3, <2>2, <1>2, <1>4, <1>7
    <3>4. CASE b \in S /\ z \in S
      <4>1. PICK m \in 0 .. (n - 1) : b = end + m * size
        BY <3>4, <1>3
      <4>2. PICK l \in 0 .. (n - 1) : z = end + l * size
        BY <3>4, <1>3
      <4>3. m * size \in Nat /\ l * size \in Nat
        BY <1>2
      <4>4. m * size < l * size
        BY <2>2, <4>1, <4>2, <4>3, <1>2
      <4>5. m < l
        <5>1. CASE l <= m
          <6>1. l * size <= m * size
            BY <5>1, <1>2, TimesMonotone
          <6> QED BY <6>1, <4>3, <4>4
        <5> QED BY <5>1
      <4>6. m * size + size <= l * size
        BY <4>5, <1>2, TimesMonotone
      <4>7. part2[b] = size
        BY <3>4, <1>5, <1>8
      <4> QED BY <4>1, <4>2, <4>3, <4>6, <4>7, <1>2
    <3> QED BY <3>1, <3>2, <3>3, <3>4, <1>10
  <2>3. ASSUME NEW a \in Words, a < end + chunk
        PROVE  \E b \in Begins(part2) : b <= a /\ a < b + part2[b]
    <3>1. CASE a < end
      <4>1. PICK b \in Begins(part) : b <= a /\ a < b + part[b]
        BY <3>1, <1>1 DEF Tiled
      <4> QED BY <4>1, <1>10, <1>11
    <3>2. CASE ~ (a < end)
      <4>1. PICK d \in Nat : a = end + d
        <5>1. a \in Nat /\ a - end \in Nat /\ a = end + (a - end)
          BY <3>2, <1>2, WordsAreNumbers
        <5> QED BY <5>1
      <4>2. PICK m \in Nat, r \in 0 .. (size - 1) : d = size * m + r
        <5>1. /\ d \div size \in Nat /\ d % size \in 0 .. (size - 1)
              /\ d = size * (d \div size) + (d % size)
          BY <1>2, DivMod
        <5> QED BY <5>1
      <4>3. m * size \in Nat /\ size * m = m * size
        BY <1>2
      <4>4. m < n
        <5>1. CASE n <= m
          <6>1. chunk <= m * size
            BY <5>1, <1>2, TimesMonotone
          <6> QED BY <6>1, <2>3, <4>1, <4>2, <4>3, <1>2
        <5> QED BY <5>1
      <4>5. end + m * size \in S /\ part2[end + m * size] = size
        BY <4>4, <1>16, <1>8
      <4>6. end + m * size <= a /\ a < end + m * size + size
        BY <4>1, <4>2, <4>3, <1>2
      <4> QED BY <4>5, <4>6, <1>10
    <3> QED BY <3>1, <3>2
  <2> QED BY <2>1, <2>2, <2>3 DEF Tiled
<1>20. Follow(chain2, headers2, links2)
  <2>1. ASSUME NEW m \in Nat
        PROVE  chain2[k][m + 1] = IF chain2[k][m] = NULL THEN NULL ELSE links2[chain2[k][m]]
    <3>1. CASE m < n
      <4>1. chain2[k][m] = end + m * size /\ end + m * size \in S
            /\ end + m * size \in Words /\ end + m * size # NULL
        BY <3>1, <1>13, <1>16
      <4>2. links2[end + m * size] = IF m < n - 1 THEN end + m * size + size ELSE NULL
        <5>1. links2[end + m * size] = IF end + m * size + size \in S THEN end + m * size + size ELSE NULL
          BY <4>1, <1>8
        <5>2. m \in 0 .. (n - 1)
          BY <3>1
        <5> QED BY <5>1, <5>2, <1>3
      <4>3. chain2[k][m + 1] = IF m + 1 < n THEN end + (m + 1) * size ELSE NULL
        BY <1>13
      <4>4. end + (m + 1) * size = end + m * size + size
        BY <1>2
      <4>5. m + 1 < n <=> m < n - 1
        OBVIOUS
      <4> QED BY <4>1, <4>2, <4>3, <4>4, <4>5
    <3>2. CASE ~ (m < n)
      <4>1. ~ (m + 1 < n) /\ m + 1 \in Nat
        BY <3>2
      <4> QED BY <4>1, <3>2, <1>13
    <3> QED BY <3>1, <3>2
  <2>2. chain2[k][0] = headers2[k]
    <3>1. chain2[k][0] = end + 0 * size
      BY <1>13
    <3>2. end + 0 * size = end
      BY <1>2
    <3> QED BY <3>1, <3>2, <1>9
  <2>3. ASSUME NEW z \in Class, z # k
        PROVE  /\ chain2[z][0] = headers2[z]
               /\ \A m \in Nat : chain2[z][m + 1] =
                    IF chain2[z][m] = NULL THEN NULL ELSE links2[chain2[z][m]]
    <3>1. chain2[z][0] = headers2[z]
      BY <2>3, <1>1, <1>14, <1>9 DEF Follow
    <3>2. ASSUME NEW m \in Nat
          PROVE  chain[z][m + 1] = IF chain[z][m] = NULL THEN NULL ELSE links2[chain[z][m]]
      <4>1. chain[z][m + 1] = IF chain[z][m] = NULL THEN NULL ELSE links[chain[z][m]]
        BY <1>1 DEF Follow
      <4> QED BY <4>1, <2>3, <1>11, <1>18
    <3> QED BY <3>1, <3>2, <2>3, <1>14
  <2> SUFFICES ASSUME NEW z \in Class
               PROVE  /\ chain2[z][0] = headers2[z]
                      /\ \A m \in Nat : chain2[z][m + 1] =
                           IF chain2[z][m] = NULL THEN NULL ELSE links2[chain2[z][m]]
    BY Zenon DEF Follow
  <2>4. CASE z = k
    BY <2>1, <2>2, <2>4
  <2>5. CASE z # k
    BY <2>3, <2>5
  <2> QED BY <2>4, <2>5
<1>21. \A p \in DOMAIN lent : p \in Nat /\ p - IntSize \in Begins(part)
  BY <1>1 DEF Lent
<1>22. Filed(part2, chain2, lent)
  <2>1. ASSUME NEW z \in Class, NEW m \in Nat, chain2[z][m] # NULL
        PROVE  /\ part2[chain2[z][m]] = z * BLOCK_SIZE_STEP /\ z # 0
               /\ chain2[z][m] + IntSize \notin DOMAIN lent
    <3>1. CASE z = k
      <4>1. chain2[z][m] \in S
        BY <3>1, <2>1, <1>13, <1>16
      <4>2. part2[chain2[z][m]] = size /\ z # 0
        BY <4>1, <1>5, <1>8, <3>1
      <4>3. chain2[z][m] \in Nat /\ (chain2[z][m] + IntSize) - IntSize = chain2[z][m]
        BY <4>1, <1>2, <1>4
      <4> QED BY <4>1, <4>2, <4>3, <3>1, <1>7, <1>21
    <3>2. CASE z # k
      <4>1. chain2[z][m] = chain[z][m] /\ chain[z][m] \in Begins(part)
        BY <3>2, <2>1, <1>14, <1>18
      <4>2. /\ part[chain[z][m]] = z * BLOCK_SIZE_STEP /\ z # 0
            /\ chain[z][m] + IntSize \notin DOMAIN lent
        BY <2>1, <4>1, <1>1 DEF Filed
      <4> QED BY <4>1, <4>2, <1>11
    <3> QED BY <3>1, <3>2
  <2>2. ASSUME NEW z \in Class, NEW l \in Nat, NEW m \in Nat, chain2[z][l] = chain2[z][m], l < m
        PROVE  chain2[z][l] = NULL
    <3>1. CASE z = k
      <4>1. CASE m < n
        <5>1. end + l * size = end + m * size
          BY <4>1, <2>2, <3>1, <1>13
        <5>2. l * size < m * size
          <6>1. l * size + size <= m * size
            BY <2>2, <1>2, TimesMonotone
          <6>2. l * size \in Nat /\ m * size \in Nat
            BY <1>2
          <6> QED BY <6>1, <6>2, <1>2
        <5> QED BY <5>1, <5>2, <1>2
      <4>2. CASE ~ (m < n)
        BY <4>2, <2>2, <3>1, <1>13
      <4> QED BY <4>1, <4>2
    <3>2. CASE z # k
      BY <3>2, <2>2, <1>1, <1>14 DEF Filed
    <3> QED BY <3>1, <3>2
  <2> QED BY <2>1, <2>2 DEF Filed
<1>23. Lent(part2, links2, lent)
  <2> SUFFICES ASSUME NEW p \in DOMAIN lent
               PROVE  /\ p \in Nat /\ lent[p] \in Nat \ {0}
                      /\ p - IntSize \in Begins(part2)
                      /\ links2[p - IntSize] = part2[p - IntSize]
                      /\ lent[p] + IntSize <= part2[p - IntSize]
    BY DEF Lent
  <2>1. /\ p \in Nat /\ lent[p] \in Nat \ {0}
        /\ p - IntSize \in Begins(part)
        /\ links[p - IntSize] = part[p - IntSize]
        /\ lent[p] + IntSize <= part[p - IntSize]
    BY <1>1 DEF Lent
  <2> QED BY <2>1, <1>10, <1>11
<1>24. Kept(part2, chain2, lent)
  <2> SUFFICES ASSUME NEW b \in Begins(part2), b + IntSize \notin DOMAIN lent
               PROVE  \E z \in Class, m \in Nat : chain2[z][m] = b
    BY DEF Kept
  <2>1. CASE b \in S
    <3>1. PICK m \in 0 .. (n - 1) : b = end + m * size
      BY <2>1, <1>3
    <3>2. m \in Nat /\ m < n
      OBVIOUS
    <3> QED BY <3>1, <3>2, <1>13
  <2>2. CASE b \in Begins(part)
    <3>1. PICK z \in Class, m \in Nat : chain[z][m] = b
      BY <2>2, <1>1 DEF Kept
    <3>2. b # NULL
      BY <2>2, <1>7, WordsAreNumbers
    <3>3. z # k
      BY <3>1, <3>2, <1>15
    <3> QED BY <3>1, <3>3, <1>14
  <2> QED BY <2>1, <2>2, <1>10
<1>25. Sound(part2, chain2, headers2, end + chunk, links2, lent)
  BY <1>19, <1>20, <1>22, <1>23, <1>24 DEF Sound
<1> QED BY <1>3, <1>5, <1>6, <1>12, <1>17, <1>25 DEF part2, links2, chain2, headers2
(* What a program writes stays inside its block, behind the size word.     *)
LEMMA InsideBlock ==
  ASSUME NEW part \in Cut, NEW end, NEW links, NEW lent, Tiled(part, end), Lent(part, links, lent),
         end \in Nat, NEW p \in DOMAIN lent, NEW a \in Words, a \in p .. (p + lent[p] - 1)
  PROVE  /\ a < end
         /\ a \notin Begins(part)
         /\ \A q \in DOMAIN lent : a \in q .. (q + lent[q] - 1) => q = p
<1> DEFINE Base(q) == q - IntSize
<1>1. IntSize \in Nat \ {0}
  BY StepFacts
<1>2. ASSUME NEW q \in DOMAIN lent
      PROVE  /\ q \in Nat /\ Base(q) \in Begins(part) /\ Base(q) \in Nat /\ lent[q] \in Nat \ {0}
             /\ part[Base(q)] \in Nat /\ Base(q) + part[Base(q)] <= end
             /\ q + lent[q] <= Base(q) + part[Base(q)]
  <2>1. /\ q \in Nat /\ lent[q] \in Nat \ {0} /\ Base(q) \in Begins(part)
        /\ lent[q] + IntSize <= part[Base(q)]
    BY DEF Lent
  <2>2. Base(q) \in Nat /\ part[Base(q)] \in Nat
    BY <2>1, WordsAreNumbers DEF Begins, Cut
  <2>3. Base(q) + part[Base(q)] <= end
    BY <2>1 DEF Tiled
  <2>4. q + lent[q] <= Base(q) + part[Base(q)]
    BY <1>1, <2>1, <2>2
  <2> QED BY <2>1, <2>2, <2>3, <2>4
<1>3. ASSUME NEW q \in DOMAIN lent, a \in q .. (q + lent[q] - 1)
      PROVE  a \in Nat /\ Base(q) < a /\ a < Base(q) + part[Base(q)]
  BY <1>1, <1>2, <1>3
<1>4. a < end
  BY <1>2, <1>3
<1>5. ASSUME a \in Begins(part) PROVE FALSE
  <2>1. Base(p) + part[Base(p)] <= a
    BY <1>2, <1>3, <1>5 DEF Tiled
  <2> QED BY <2>1, <1>2, <1>3
<1>6. ASSUME NEW q \in DOMAIN lent, a \in q .. (q + lent[q] - 1) PROVE q = p
  <2>1. CASE Base(q) < Base(p)
    <3>1. Base(q) + part[Base(q)] <= Base(p)
      BY <2>1, <1>2 DEF Tiled
    <3> QED BY <3>1, <1>2, <1>3, <1>6
  <2>2. CASE Base(p) < Base(q)
    <3>1. Base(p) + part[Base(p)] <= Base(q)
      BY <2>2, <1>2 DEF Tiled
    <3> QED BY <3>1, <1>2, <1>3, <1>6
  <2>3. CASE Base(p) = Base(q)
    BY <2>3, <1>1, <1>2
  <2>4. Base(q) \in Nat /\ Base(p) \in Nat
    BY <1>2
  <2> HIDE DEF Base
  <2> QED BY <2>1, <2>2, <2>3, <2>4
<1> QED BY <1>4, <1>5, <1>6

(* Two live blocks do not meet.                                            *)
LEMMA BlocksApart ==
  ASSUME NEW part \in Cut, NEW end, NEW links, NEW lent, Tiled(part, end), Lent(part, links, lent),
         end \in Nat, NEW p \in DOMAIN lent, NEW q \in DOMAIN lent, p # q
  PROVE  p + lent[p] <= q \/ q + lent[q] <= p
<1> DEFINE Base(r) == r - IntSize
<1>1. IntSize \in Nat \ {0}
  BY StepFacts
<1>2. ASSUME NEW r \in DOMAIN lent
      PROVE  /\ r \in Nat /\ Base(r) \in Begins(part) /\ Base(r) \in Nat /\ lent[r] \in Nat \ {0}
             /\ part[Base(r)] \in Nat /\ r + lent[r] <= Base(r) + part[Base(r)]
  <2>1. /\ r \in Nat /\ lent[r] \in Nat \ {0} /\ Base(r) \in Begins(part)
        /\ lent[r] + IntSize <= part[Base(r)]
    BY DEF Lent
  <2>2. Base(r) \in Nat /\ part[Base(r)] \in Nat
    BY <2>1, WordsAreNumbers DEF Begins, Cut
  <2> QED BY <1>1, <2>1, <2>2
<1>3. CASE Base(p) < Base(q)
  <2>1. Base(p) + part[Base(p)] <= Base(q)
    BY <1>2, <1>3 DEF Tiled
  <2> QED BY <2>1, <1>1, <1>2
<1>4. CASE Base(q) < Base(p)
  <2>1. Base(q) + part[Base(q)] <= Base(p)
    BY <1>2, <1>4 DEF Tiled
  <2> QED BY <2>1, <1>1, <1>2
<1> QED BY <1>1, <1>2, <1>3, <1>4

-----------------------------------------------------------------------------
LEMMA HeapInitSound ==
  ASSUME Init PROVE IInv
<1> DEFINE part == [b \in Words |-> 0]
           chain == [k \in Class |-> [n \in Nat |-> NULL]]
<1>1. HeapStart \in Nat \ {0} /\ HeapStart % IntSize = 0 /\ HeapLimit \in Nat /\ HeapStart <= HeapLimit
  BY HeapAssumption
<1>2. Shape
  <2>1. free_space \in HeapStart .. HeapLimit /\ free_space % IntSize = 0
    BY <1>1 DEF Init
  <2>2. astray \in BOOLEAN
    BY DEF Init
  <2> QED BY <2>1, <2>2 DEF Init, Shape
<1>3. part \in Cut /\ chain \in Chains /\ Begins(part) = {}
  BY DEF Cut, Chains, Begins
<1>4. Tiled(part, free_space)
  BY <1>1, <1>3, WordsAreNumbers DEF Tiled, Init
<1>5. Follow(chain, small_block_headers, word) /\ Filed(part, chain, live)
  BY DEF Follow, Filed, Init
<1>6. Lent(part, word, live) /\ Kept(part, chain, live)
  BY <1>3 DEF Lent, Kept, Init
<1>7. Sound(part, chain, small_block_headers, free_space, word, live)
  BY <1>4, <1>5, <1>6 DEF Sound
<1> QED BY <1>2, <1>3, <1>7 DEF IInv

(* allocate: a block that was nobody's, and no word of another's.          *)
LEMMA AllocateSound ==
  ASSUME Shape, NEW part \in Cut, NEW chain \in Chains,
         Sound(part, chain, small_block_headers, free_space, word, live),
         NEW request \in Int, request <= INT_MAX, Allocate(request)
  PROVE  \E part2 \in Cut, chain2 \in Chains, block \in Words :
           /\ Shape'
           /\ Sound(part2, chain2, small_block_headers', free_space', word', live')
           /\ request \in Nat \ {0}
           /\ block + IntSize \notin DOMAIN live
           /\ live' = [p \in DOMAIN live \cup {block + IntSize} |->
                         IF p = block + IntSize THEN request ELSE live[p]]
           /\ block \in Begins(part2) /\ Begins(part) \subseteq Begins(part2)
           /\ \A a \in Words : word'[a] = word[a] \/ a \in Begins(part2)
<1> DEFINE size == BlockSize(request)
           k == num_size(size)
<1>1. PICK z \in Nat \ {0} : size = z * BLOCK_SIZE_STEP /\ request + IntSize <= size
  <2>1. request >= 1 /\ num_size(BlockSize(request)) >= 0
    BY HeapAssumption DEF Allocate, Class
  <2> QED BY <2>1, SizeFits
<1>2. /\ k = z /\ size \in Nat \ {0}
      /\ request \in Nat \ {0} /\ k < NUM_SIZES
      /\ k \in Class \ {0}
  <2>1. k = z /\ size \in Nat \ {0}
    BY <1>1, StepFacts
  <2>2. request >= 1 /\ k < NUM_SIZES
    BY HeapAssumption DEF Allocate, Class
  <2> QED BY <2>1, <2>2, HeapAssumption DEF Class
<1> DEFINE headers == small_block_headers
<1>3. /\ headers \in [Class -> Words \cup {NULL}] /\ word = [a \in Words |-> word[a]]
      /\ free_space \in HeapStart .. HeapLimit /\ free_space % IntSize = 0
      /\ DOMAIN word = Words
  BY DEF Shape
<1>4. size = k * BLOCK_SIZE_STEP
  BY <1>1, <1>2
<1>7. astray' \in BOOLEAN
  BY DEF Allocate, Shape
<1> HIDE DEF k, size
<1>5. CASE headers[k] # NULL
  <2>1. PICK block : block = headers[k]
    OBVIOUS
  <2>2. /\ small_block_headers' = Put(headers, k, word[block]) /\ free_space' = free_space
        /\ word' = Put(word, block, size) /\ live' = Lend(live, block + IntSize, request)
    BY <1>5, <2>1 DEF Allocate, Rest, Put, Lend, k, size
  <2>3. /\ block \in Begins(part) /\ block \in Words /\ block + IntSize \notin DOMAIN live
        /\ RestOf(chain, k) \in Chains /\ small_block_headers' \in [Class -> Words \cup {NULL}]
        /\ Sound(part, RestOf(chain, k), small_block_headers', free_space, word', live')
    BY <1>4, <1>1, <1>2, <1>3, <1>5, <2>1, <2>2, TakeSound
  <2>4. /\ word' = [a \in Words |-> word'[a]]
        /\ \A a \in Words : word'[a] = word[a] \/ a = block
    BY <1>3, <2>2, <2>3 DEF Put
  <2>5. Shape'
    BY <1>3, <1>7, <2>2, <2>3, <2>4 DEF Shape, Lend
  <2> QED BY <1>2, <2>2, <2>3, <2>4, <2>5 DEF Lend
<1>6. CASE headers[k] = NULL
  <2>1. PICK n \in Nat \ {0} : allocation(size) = n * size
    BY <1>2, ChunkIsBlocks
  <2>2. PICK chunk \in Nat : chunk = n * size
    BY <1>2
  <2>3. PICK S : S = Starts(size)
    OBVIOUS
  <2>4. S = StartsIn(free_space, chunk, size)
    BY <2>1, <2>2, <2>3 DEF Starts, StartsIn
  <2>5. PICK block : block = Min(S)
    OBVIOUS
  <2>6. PICK links : links = LinksOf(word, S, size)
    OBVIOUS
  <2>7. /\ small_block_headers' = Put(headers, k, links[block])
        /\ free_space' = free_space + chunk /\ free_space + chunk <= HeapLimit
        /\ word' = Put(links, block, size) /\ live' = Lend(live, block + IntSize, request)
    <3>1. links = Linked(size)
      BY <1>3, <2>3, <2>6 DEF Linked, LinksOf
    <3> QED BY <1>6, <2>1, <2>2, <2>3, <2>5, <3>1 DEF Allocate, Rest, Put, Lend, k, size
  <2>8. PICK part2, chain1, headers1 :
          /\ part2 = PartOf(part, S, size) /\ chain1 = ChainOf(chain, k, free_space, size, n)
          /\ headers1 = Put(headers, k, free_space)
    OBVIOUS
  <2>9. /\ S \subseteq Words /\ free_space \in S /\ \A b \in S : free_space <= b
        /\ (free_space + chunk) % IntSize = 0
        /\ part2 \in Cut /\ chain1 \in Chains
        /\ Sound(part2, chain1, headers1, free_space + chunk, links, live)
    BY <1>4, <1>2, <1>3, <1>6, <2>2, <2>4, <2>6, <2>7, <2>8, CarveSound
  <2>10. block = free_space
    <3>1. \A b \in S : b \in Int
      BY <2>9, WordsAreNumbers
    <3> QED BY <2>5, <2>9, <3>1 DEF Min
  <2>11. /\ headers1 \in [Class -> Words \cup {NULL}] /\ block = headers1[k] /\ headers1[k] # NULL
         /\ links = [a \in Words |-> links[a]]
         /\ small_block_headers' = Put(headers1, k, links[block])
    BY <1>2, <1>3, <2>6, <2>7, <2>8, <2>9, <2>10, WordsAreNumbers DEF Put, LinksOf
  <2>12. /\ block \in Begins(part2) /\ block \in Words /\ block + IntSize \notin DOMAIN live
         /\ RestOf(chain1, k) \in Chains /\ small_block_headers' \in [Class -> Words \cup {NULL}]
         /\ Sound(part2, RestOf(chain1, k), small_block_headers', free_space', word', live')
    BY <1>4, <1>1, <1>2, <2>7, <2>9, <2>11, TakeSound
  <2>13. /\ word' = [a \in Words |-> word'[a]]
         /\ \A a \in Words : word'[a] = word[a] \/ a \in S
    BY <2>6, <2>7, <2>9, <2>10, <2>11 DEF Put, LinksOf
  <2>14. S \subseteq Begins(part2) /\ Begins(part) \subseteq Begins(part2)
    BY <1>2, <2>8, <2>9 DEF Begins, PartOf
  <2>15. Shape'
    <3>1. free_space' \in HeapStart .. HeapLimit
      BY <1>3, <2>7, HeapAssumption
    <3> QED BY <1>7, <2>7, <2>9, <2>12, <2>13, <3>1 DEF Shape, Lend
  <2> QED BY <1>2, <2>7, <2>9, <2>12, <2>13, <2>14, <2>15 DEF Lend
<1> QED BY <1>5, <1>6
(* release: the block goes to the front of the list of its size.           *)
Front(chain, k, chunk) ==
  [chain EXCEPT ![k] = [n \in Nat |-> IF n = 0 THEN chunk ELSE chain[k][n - 1]]]

LEMMA ReleaseSound ==
  ASSUME Shape, NEW part \in Cut, NEW chain \in Chains,
         Sound(part, chain, small_block_headers, free_space, word, live),
         NEW memory \in DOMAIN live, Release(memory)
  PROVE  \E chain2 \in Chains :
           /\ Shape'
           /\ Sound(part, chain2, small_block_headers', free_space', word', live')
           /\ live' = [p \in DOMAIN live \ {memory} |-> live[p]]
           /\ \A a \in Words : word'[a] = word[a] \/ a \in Begins(part)
<1>1. /\ Tiled(part, free_space) /\ Follow(chain, small_block_headers, word)
      /\ Filed(part, chain, live) /\ Lent(part, word, live) /\ Kept(part, chain, live)
  BY DEF Sound
<1>2. PICK chunk : chunk = memory - IntSize
  OBVIOUS
<1>3. /\ memory \in Nat /\ chunk \in Begins(part) /\ word[chunk] = part[chunk]
      /\ chunk \in Words /\ chunk \in Nat /\ chunk # NULL /\ chunk + IntSize = memory
  <2>1. memory \in Nat /\ chunk \in Begins(part) /\ word[chunk] = part[chunk]
    BY <1>1, <1>2 DEF Lent
  <2>2. chunk \in Words /\ chunk \in Nat /\ chunk # NULL
    BY <2>1, WordsAreNumbers DEF Begins
  <2> QED BY <1>2, <2>1, <2>2, StepFacts
<1>4. PICK k \in Class \ {0} : part[chunk] = k * BLOCK_SIZE_STEP
  BY <1>1, <1>3 DEF Tiled
<1>5. num_size(word[chunk]) = k
  BY <1>3, <1>4, StepFacts DEF Class
<1>6. /\ word' = [word EXCEPT ![chunk] = small_block_headers[k]]
      /\ small_block_headers' = [small_block_headers EXCEPT ![k] = chunk]
      /\ live' = [p \in DOMAIN live \ {memory} |-> live[p]]
      /\ free_space' = free_space
  BY <1>2, <1>5 DEF Release
<1>a. astray' \in BOOLEAN
  BY DEF Release, Shape
<1>7. /\ small_block_headers \in [Class -> Words \cup {NULL}] /\ DOMAIN word = Words
  BY DEF Shape
<1>8. /\ small_block_headers' \in [Class -> Words \cup {NULL}]
      /\ small_block_headers'[k] = chunk
      /\ \A z \in Class : z # k => small_block_headers'[z] = small_block_headers[z]
  BY <1>3, <1>6, <1>7
<1>9. /\ word' = [a \in Words |-> word'[a]]
      /\ word'[chunk] = small_block_headers[k]
      /\ \A a \in Words : a # chunk => word'[a] = word[a]
  BY <1>3, <1>6, <1>7
<1>10. /\ DOMAIN live' = DOMAIN live \ {memory}
       /\ \A p \in DOMAIN live' : live'[p] = live[p]
       /\ live' = [p \in DOMAIN live' |-> live'[p]]
  BY <1>6
<1>11. Shape'
  BY <1>a, <1>6, <1>8, <1>9, <1>10 DEF Shape
<1> DEFINE chain2 == Front(chain, k, chunk)
<1>12. \A z \in Class, n \in Nat : chain[z][n] \in Words \cup {NULL}
  BY DEF Chains
<1>13. chain2 \in Chains
  <2>1. [n \in Nat |-> IF n = 0 THEN chunk ELSE chain[k][n - 1]] \in [Nat -> Words \cup {NULL}]
    BY <1>3, <1>12
  <2> QED BY <2>1 DEF Chains, Front
<1>14. /\ chain2[k][0] = chunk
       /\ \A n \in Nat : chain2[k][n + 1] = chain[k][n]
       /\ \A z \in Class : z # k => chain2[z] = chain[z]
  <2>1. \A n \in Nat : chain2[k][n] = IF n = 0 THEN chunk ELSE chain[k][n - 1]
    BY DEF Chains, Front
  <2>2. \A n \in Nat : n + 1 # 0 /\ (n + 1) - 1 = n /\ n + 1 \in Nat
    OBVIOUS
  <2>3. \A z \in Class : z # k => chain2[z] = chain[z]
    BY DEF Chains, Front
  <2> QED BY <2>1, <2>2, <2>3
<1> HIDE DEF chain2
<1>15. \A n \in Nat : n = 0 \/ \E m \in Nat : n = m + 1
  <2> TAKE n \in Nat
  <2>1. n # 0 => n - 1 \in Nat /\ n = (n - 1) + 1
    OBVIOUS
  <2> QED BY <2>1
<1>16. \A z \in Class, n \in Nat : chain[z][n] # chunk
  BY <1>1, <1>3 DEF Filed
<1>17. Follow(chain2, small_block_headers', word')
  <2>1. ASSUME NEW z \in Class, NEW n \in Nat
        PROVE  chain[z][n + 1] = IF chain[z][n] = NULL THEN NULL ELSE word'[chain[z][n]]
    <3>1. chain[z][n + 1] = IF chain[z][n] = NULL THEN NULL ELSE word[chain[z][n]]
      BY <1>1 DEF Follow
    <3> QED BY <3>1, <1>9, <1>12, <1>16
  <2>2. chain[k][0] = small_block_headers[k]
    BY <1>1 DEF Follow
  <2>3. ASSUME NEW n \in Nat
        PROVE  chain2[k][n + 1] = IF chain2[k][n] = NULL THEN NULL ELSE word'[chain2[k][n]]
    <3>1. CASE n = 0
      BY <3>1, <2>2, <1>3, <1>9, <1>14
    <3>2. CASE n # 0
      <4>1. PICK m \in Nat : n = m + 1
        BY <3>2, <1>15
      <4>2. chain2[k][n] = chain[k][m] /\ chain2[k][n + 1] = chain[k][m + 1]
        BY <4>1, <1>14
      <4> QED BY <4>2, <2>1
    <3> QED BY <3>1, <3>2
  <2>4. ASSUME NEW z \in Class, z # k
        PROVE  /\ chain2[z][0] = small_block_headers'[z]
               /\ \A n \in Nat : chain2[z][n + 1] = IF chain2[z][n] = NULL THEN NULL ELSE word'[chain2[z][n]]
    <3>1. chain[z][0] = small_block_headers[z]
      BY <1>1 DEF Follow
    <3> QED BY <3>1, <2>1, <2>4, <1>8, <1>14
  <2> SUFFICES ASSUME NEW z \in Class
               PROVE  /\ chain2[z][0] = small_block_headers'[z]
                      /\ \A n \in Nat : chain2[z][n + 1] =
                           IF chain2[z][n] = NULL THEN NULL ELSE word'[chain2[z][n]]
    BY Zenon DEF Follow
  <2>5. CASE z = k
    BY <2>3, <2>5, <1>8, <1>14
  <2>6. CASE z # k
    BY <2>4, <2>6
  <2> QED BY <2>5, <2>6
<1>18. Filed(part, chain2, live')
  <2>1. ASSUME NEW z \in Class, NEW n \in Nat, chain2[z][n] # NULL
        PROVE  /\ part[chain2[z][n]] = z * BLOCK_SIZE_STEP /\ z # 0
               /\ chain2[z][n] + IntSize \notin DOMAIN live'
    <3>1. CASE z = k /\ n = 0
      BY <3>1, <1>3, <1>4, <1>10, <1>14
    <3>2. CASE ~ (z = k /\ n = 0)
      <4>1. PICK m \in Nat : chain2[z][n] = chain[z][m]
        BY <3>2, <1>14, <1>15
      <4> QED BY <4>1, <2>1, <1>1, <1>10 DEF Filed
    <3> QED BY <3>1, <3>2
  <2>2. ASSUME NEW z \in Class, NEW m \in Nat, NEW n \in Nat, chain2[z][m] = chain2[z][n], m < n
        PROVE  chain2[z][m] = NULL
    <3>1. CASE z # k
      BY <3>1, <2>2, <1>1, <1>14 DEF Filed
    <3>2. CASE z = k
      <4>1. n # 0
        BY <2>2
      <4>2. PICK j \in Nat : n = j + 1
        BY <4>1, <1>15
      <4>3. m # 0
        BY <3>2, <2>2, <4>2, <1>14, <1>16
      <4>4. PICK l \in Nat : m = l + 1
        BY <4>3, <1>15
      <4>5. l < j
        BY <2>2, <4>2, <4>4
      <4>6. chain2[k][m] = chain[k][l] /\ chain2[k][n] = chain[k][j]
        BY <4>2, <4>4, <1>14
      <4>7. chain[k][l] = chain[k][j] /\ k \in Class
        BY <2>2, <3>2, <4>6
      <4>8. chain[k][l] = NULL
        BY <4>5, <4>7, <1>1 DEF Filed
      <4> QED BY <3>2, <4>6, <4>8
    <3> QED BY <3>1, <3>2
  <2> QED BY <2>1, <2>2 DEF Filed
<1>19. Lent(part, word', live')
  <2> SUFFICES ASSUME NEW p \in DOMAIN live'
               PROVE  /\ p \in Nat /\ live'[p] \in Nat \ {0}
                      /\ p - IntSize \in Begins(part)
                      /\ word'[p - IntSize] = part[p - IntSize]
                      /\ live'[p] + IntSize <= part[p - IntSize]
    BY DEF Lent
  <2>1. p \in DOMAIN live /\ p # memory /\ live'[p] = live[p]
    BY <1>10
  <2>2. /\ p \in Nat /\ live[p] \in Nat \ {0}
        /\ p - IntSize \in Begins(part)
        /\ word[p - IntSize] = part[p - IntSize]
        /\ live[p] + IntSize <= part[p - IntSize]
    BY <2>1, <1>1 DEF Lent
  <2>3. p - IntSize # chunk /\ p - IntSize \in Words
    BY <2>1, <2>2, <1>2, <1>3, StepFacts DEF Begins
  <2> QED BY <2>1, <2>2, <2>3, <1>9
<1>20. Kept(part, chain2, live')
  <2> SUFFICES ASSUME NEW b \in Begins(part), b + IntSize \notin DOMAIN live'
               PROVE  \E z \in Class, n \in Nat : chain2[z][n] = b
    BY DEF Kept
  <2>1. CASE b + IntSize = memory
    <3>1. b \in Nat
      BY WordsAreNumbers DEF Begins
    <3>2. b = chunk
      BY <2>1, <3>1, <1>2, <1>3, StepFacts
    <3> QED BY <3>2, <1>14
  <2>2. CASE b + IntSize # memory
    <3>1. PICK z \in Class, n \in Nat : chain[z][n] = b
      BY <2>2, <1>1, <1>10 DEF Kept
    <3>2. CASE z = k
      <4>1. chain2[z][n + 1] = b /\ n + 1 \in Nat
        BY <3>1, <3>2, <1>14
      <4> QED BY <4>1
    <3>3. CASE z # k
      BY <3>1, <3>3, <1>14
    <3> QED BY <3>2, <3>3
  <2> QED BY <2>1, <2>2
<1>21. Sound(part, chain2, small_block_headers', free_space', word', live')
  BY <1>1, <1>6, <1>17, <1>18, <1>19, <1>20 DEF Sound
<1> QED BY <1>3, <1>6, <1>9, <1>11, <1>13, <1>21

(* A store of the program changes no link and no size.                     *)
LEMMA WriteSound ==
  ASSUME Shape, NEW part \in Cut, NEW chain \in Chains,
         Sound(part, chain, small_block_headers, free_space, word, live),
         NEW p \in DOMAIN live, NEW w, Write(p, w)
  PROVE  /\ Shape'
         /\ Sound(part, chain, small_block_headers', free_space', word', live')
<1>1. /\ Tiled(part, free_space) /\ Follow(chain, small_block_headers, word)
      /\ Filed(part, chain, live) /\ Lent(part, word, live) /\ Kept(part, chain, live)
  BY DEF Sound
<1>2. /\ small_block_headers' = small_block_headers /\ free_space' = free_space /\ live' = live
      /\ word' = [a \in DOMAIN word |-> IF a \in p .. (p + live[p] - 1) THEN w ELSE word[a]]
  BY DEF Write
<1>3. DOMAIN word = Words /\ free_space \in Nat
  BY HeapAssumption DEF Shape
<1>4. Shape'
  BY <1>2, <1>3 DEF Shape, Write
<1>5. \A b \in Begins(part) : word'[b] = word[b]
  <2> TAKE b \in Begins(part)
  <2>1. b \in Words
    BY DEF Begins
  <2>2. b \notin p .. (p + live[p] - 1)
    BY <1>1, <1>3, <2>1, InsideBlock
  <2> QED BY <1>2, <1>3, <2>1, <2>2
<1>6. Follow(chain, small_block_headers, word')
  <2>1. ASSUME NEW z \in Class, NEW n \in Nat, chain[z][n] # NULL
        PROVE  chain[z][n] \in Begins(part)
    <3>1. part[chain[z][n]] = z * BLOCK_SIZE_STEP /\ z # 0
      BY <1>1, <2>1 DEF Filed
    <3>2. chain[z][n] \in Words
      BY <2>1 DEF Chains
    <3> QED BY <3>1, <3>2, StepFacts DEF Begins, Class
  <2> QED BY <1>1, <1>5, <2>1 DEF Follow
<1>7. Lent(part, word', live)
  BY <1>1, <1>5 DEF Lent
<1> QED BY <1>1, <1>2, <1>4, <1>6, <1>7 DEF Sound

LEMMA HeapStep ==
  ASSUME IInv, [Next]_vars PROVE IInv'
<1>1. PICK part \in Cut, chain \in Chains :
        Sound(part, chain, small_block_headers, free_space, word, live)
  BY DEF IInv
<1>2. Shape
  BY DEF IInv
<1>3. ASSUME NEW request \in Requests, Allocate(request) PROVE IInv'
  <2>1. request \in Int /\ request <= INT_MAX
    BY HeapAssumption
  <2>2. \E part2 \in Cut, chain2 \in Chains :
          Shape' /\ Sound(part2, chain2, small_block_headers', free_space', word', live')
    BY <1>1, <1>2, <1>3, <2>1, AllocateSound
  <2> QED BY <2>2 DEF IInv
<1>4. ASSUME NEW p \in DOMAIN live, Release(p) PROVE IInv'
  <2>1. \E chain2 \in Chains :
          Shape' /\ Sound(part, chain2, small_block_headers', free_space', word', live')
    BY <1>1, <1>2, <1>4, ReleaseSound
  <2> QED BY <2>1 DEF IInv
<1>5. ASSUME NEW p \in DOMAIN live, NEW w \in Scribble, Write(p, w) PROVE IInv'
  <2>1. Shape' /\ Sound(part, chain, small_block_headers', free_space', word', live')
    BY <1>1, <1>2, <1>5, WriteSound
  <2> QED BY <2>1 DEF IInv
<1>6. CASE UNCHANGED vars
  BY <1>1, <1>2, <1>6 DEF vars, IInv, Shape
<1>7. ASSUME NEW request \in Requests, Refuse(request) PROVE IInv'
  BY <1>6, <1>7 DEF Refuse
<1>8. ASSUME NEW request \in Requests, Overrun(request) PROVE IInv'
  BY <1>1, <1>2, <1>8 DEF Overrun, IInv, Shape
<1> QED BY <1>3, <1>4, <1>5, <1>6, <1>7, <1>8 DEF Next

(* Whatever the program asks for, releases and writes into its blocks, in  *)
(* whatever order, the headers, links and sizes of lib.c:153-208 describe  *)
(* such a shape.                                                           *)
THEOREM HeapInvariant == Spec => []IInv
<1> QED BY HeapInitSound, HeapStep, PTL DEF Spec
-----------------------------------------------------------------------------
(* A free list is no longer than the area has words.                       *)
LEMMA WordsFinite == IsFiniteSet(Words) /\ Cardinality(Words) \in Nat
<1>1. HeapStart \in Int /\ HeapLimit - 1 \in Int
  BY HeapAssumption
<1>2. IsFiniteSet(HeapStart .. (HeapLimit - 1))
  BY <1>1, FS_Interval
<1>3. Words \in SUBSET (HeapStart .. (HeapLimit - 1))
  BY DEF Words
<1>4. IsFiniteSet(Words)
  BY <1>2, <1>3, FS_Subset
<1> QED BY <1>4, FS_CardinalityType

LEMMA ListsEnd ==
  ASSUME NEW part \in Cut, NEW chain \in Chains, NEW headers, NEW links, NEW lent,
         Follow(chain, headers, links), Filed(part, chain, lent),
         NEW k \in Class, NEW n \in Nat, n >= Cardinality(Words)
  PROVE  chain[k][n] = NULL
<1> DEFINE Bound == Cardinality(Words)
           Down == {d \in Nat : \A m \in Nat : chain[k][m] = NULL => chain[k][m + d] = NULL}
<1>1. Bound \in Nat /\ IsFiniteSet(Words)
  BY WordsFinite
<1>2. Nat \subseteq Down
  <2>1. 0 \in Down
    OBVIOUS
  <2>2. ASSUME NEW d \in Nat, d \in Down PROVE d + 1 \in Down
    <3> SUFFICES ASSUME NEW m \in Nat, chain[k][m] = NULL PROVE chain[k][m + (d + 1)] = NULL
      OBVIOUS
    <3>1. chain[k][m + d] = NULL /\ m + d \in Nat
      BY <2>2
    <3>2. chain[k][(m + d) + 1] = NULL
      BY <3>1 DEF Follow
    <3>3. (m + d) + 1 = m + (d + 1)
      OBVIOUS
    <3> QED BY <3>2, <3>3
  <2> HIDE DEF Down
  <2> QED BY <2>1, <2>2, NatInd
<1>3. ASSUME NEW m \in Nat, m <= n, chain[k][m] = NULL PROVE chain[k][n] = NULL
  <2>1. n - m \in Nat /\ m + (n - m) = n
    BY <1>3
  <2>2. n - m \in Down
    BY <2>1, <1>2
  <2> QED BY <2>1, <2>2, <1>3
<1> HIDE DEF Down
<1> SUFFICES ASSUME chain[k][n] # NULL PROVE FALSE
  OBVIOUS
<1> DEFINE f == [m \in 0 .. Bound |-> chain[k][m]]
<1>4. f \in [0 .. Bound -> Words]
  <2>1. ASSUME NEW m \in 0 .. Bound PROVE chain[k][m] \in Words
    <3>1. m \in Nat /\ m <= n
      BY <1>1
    <3>2. chain[k][m] # NULL
      BY <3>1, <1>3
    <3> QED BY <3>1, <3>2 DEF Chains
  <2> QED BY <2>1
<1>5. IsFiniteSet(0 .. Bound) /\ Cardinality(0 .. Bound) = Bound + 1
  <2>1. 0 \in Int /\ Bound \in Int /\ ~ (0 > Bound) /\ (Bound - 0) + 1 = Bound + 1
    BY <1>1
  <2> HIDE DEF Bound
  <2> QED BY <2>1, FS_Interval
<1>6. PICK i, j \in 0 .. Bound : i # j /\ f[i] = f[j]
  <2>1. Cardinality(Words) < Cardinality(0 .. Bound)
    BY <1>1, <1>5
  <2> HIDE DEF f
  <2> QED BY <1>1, <1>4, <1>5, <2>1, FS_PigeonHole
<1>7. /\ i \in Nat /\ j \in Nat /\ chain[k][i] = chain[k][j] /\ chain[k][i] \in Words
      /\ i < j \/ j < i
  BY <1>1, <1>4, <1>6
<1>8. chain[k][i] = NULL
  BY <1>7 DEF Filed
<1> QED BY <1>7, <1>8, WordsAreNumbers

(* FreeList is the list.                                                   *)
LEMMA FreeListIs ==
  ASSUME NEW chain \in Chains, Follow(chain, small_block_headers, word), NEW k \in Class
  PROVE  FreeList(k) = [i \in 0 .. Cardinality(Words) |-> chain[k][i]]
<1> DEFINE N == Cardinality(Words)
           Body(g, i) == IF i = 0 THEN small_block_headers[k]
                         ELSE LET b == g[i - 1] IN IF b \in Words THEN word[b] ELSE NULL
           Is(g) == g = [i \in 0 .. N |-> Body(g, i)]
           h == [i \in 0 .. N |-> chain[k][i]]
<1>1. N \in Nat
  BY WordsFinite
<1>2. \A i \in Nat : chain[k][i] \in Words \cup {NULL} /\ NULL \notin Words
  BY WordsAreNumbers DEF Chains
<1>3. \A i \in Nat : chain[k][i + 1] = IF chain[k][i] \in Words THEN word[chain[k][i]] ELSE NULL
  BY <1>2 DEF Follow
<1>4. chain[k][0] = small_block_headers[k]
  BY DEF Follow
<1>5. \A i \in Nat : i = 0 \/ (i - 1 \in Nat /\ (i - 1) + 1 = i)
  OBVIOUS
<1>6. Is(h)
  <2>1. ASSUME NEW i \in 0 .. N PROVE h[i] = Body(h, i)
    <3>1. CASE i = 0
      BY <3>1, <1>4
    <3>2. CASE i # 0
      <4>1. i \in Nat /\ i - 1 \in 0 .. N /\ i - 1 \in Nat /\ (i - 1) + 1 = i
        BY <3>2, <1>1
      <4>2. h[i - 1] = chain[k][i - 1] /\ h[i] = chain[k][i]
        BY <4>1
      <4>3. chain[k][i] = IF chain[k][i - 1] \in Words THEN word[chain[k][i - 1]] ELSE NULL
        BY <4>1, <1>3
      <4> HIDE DEF h
      <4> QED BY <3>2, <4>2, <4>3
    <3> QED BY <3>1, <3>2
  <2>2. h = [i \in 0 .. N |-> h[i]]
    OBVIOUS
  <2> HIDE DEF h, Body
  <2> QED BY <2>1, <2>2
<1>7. FreeList(k) = CHOOSE g : Is(g)
  BY DEF FreeList
<1>8. PICK g : g = FreeList(k) /\ Is(g)
  <2> HIDE DEF Is
  <2> QED BY <1>6, <1>7
<1>9. \A i \in 0 .. N : g[i] = Body(g, i)
  <2> HIDE DEF Body
  <2> QED BY <1>8
<1> DEFINE A == {i \in Nat : i <= N => g[i] = chain[k][i]}
<1>10. 0 \in A
  BY <1>1, <1>4, <1>9
<1>11. ASSUME NEW i \in Nat, i \in A PROVE i + 1 \in A
  <2> SUFFICES ASSUME i + 1 <= N PROVE g[i + 1] = chain[k][i + 1]
    OBVIOUS
  <2>1. i + 1 \in 0 .. N /\ i + 1 # 0 /\ (i + 1) - 1 = i /\ i <= N
    BY <1>1
  <2>2. g[i + 1] = IF g[i] \in Words THEN word[g[i]] ELSE NULL
    BY <2>1, <1>9
  <2>3. g[i] = chain[k][i]
    BY <2>1, <1>11
  <2> QED BY <2>2, <2>3, <1>3
<1>12. Nat \subseteq A
  <2> HIDE DEF A
  <2> QED BY <1>10, <1>11, NatInd
<1>13. \A i \in 0 .. N : g[i] = chain[k][i]
  <2> TAKE i \in 0 .. N
  <2>1. i \in Nat /\ i <= N
    BY <1>1
  <2>2. i \in A
    BY <2>1, <1>12
  <2> QED BY <2>1, <2>2
<1>14. g = [i \in 0 .. N |-> g[i]]
  <2>1. g = [i \in 0 .. N |-> Body(g, i)]
    BY <1>8
  <2> HIDE DEF Body
  <2> QED BY <2>1
<1> QED BY <1>8, <1>13, <1>14
(* Each block of the area is in one list or live, never both.              *)
FreeBlocks ==
  UNION {{<<b, k * BLOCK_SIZE_STEP, "free">> : b \in Range(FreeList(k)) \ {NULL}} : k \in Class}
LiveBlocks == {<<p - IntSize, word[p - IntSize], "live">> : p \in DOMAIN live}

LEMMA BlocksAre ==
  ASSUME NEW part \in Cut, NEW chain \in Chains,
         Sound(part, chain, small_block_headers, free_space, word, live)
  PROVE  /\ \A x \in Blocks : x[1] \in Begins(part) /\ x[2] = part[x[1]]
         /\ \A x, y \in Blocks : x[1] = y[1] => x = y
         /\ \A b \in Begins(part) : \E x \in Blocks : x[1] = b
<1>1. /\ Follow(chain, small_block_headers, word)
      /\ Filed(part, chain, live) /\ Lent(part, word, live) /\ Kept(part, chain, live)
  BY DEF Sound
<1>2. Cardinality(Words) \in Nat
  BY WordsFinite
<1>3. ASSUME NEW k \in Class, NEW b
      PROVE  b \in Range(FreeList(k)) \ {NULL} <=> b # NULL /\ \E n \in Nat : chain[k][n] = b
  <2>1. FreeList(k) = [i \in 0 .. Cardinality(Words) |-> chain[k][i]]
    BY <1>1, FreeListIs
  <2>2. Range(FreeList(k)) = {chain[k][i] : i \in 0 .. Cardinality(Words)}
    BY <2>1 DEF Range
  <2>3. ASSUME NEW n \in Nat, chain[k][n] # NULL PROVE n \in 0 .. Cardinality(Words)
    <3>1. ~ (n >= Cardinality(Words))
      BY <2>3, <1>1, ListsEnd
    <3> QED BY <3>1, <1>2
  <2> QED BY <2>2, <2>3, <1>2
<1> DEFINE Free(k, n) == <<chain[k][n], k * BLOCK_SIZE_STEP, "free">>
           Owned(p) == <<p - IntSize, word[p - IntSize], "live">>
<1>4. \A x : x \in Blocks <=> \/ \E k \in Class, n \in Nat : chain[k][n] # NULL /\ x = Free(k, n)
                            \/ \E p \in DOMAIN live : x = Owned(p)
  <2> TAKE x
  <2>1. x \in Blocks <=> \/ \E k \in Class : \E b \in Range(FreeList(k)) \ {NULL} :
                              x = <<b, k * BLOCK_SIZE_STEP, "free">>
                        \/ \E p \in DOMAIN live : x = Owned(p)
    <3>1. Blocks = FreeBlocks \cup LiveBlocks
      BY DEF Blocks, FreeBlocks, LiveBlocks
    <3>2. x \in FreeBlocks <=> \E k \in Class : \E b \in Range(FreeList(k)) \ {NULL} :
                                  x = <<b, k * BLOCK_SIZE_STEP, "free">>
      BY DEF FreeBlocks
    <3>3. x \in LiveBlocks <=> \E p \in DOMAIN live : x = Owned(p)
      BY DEF LiveBlocks
    <3> HIDE DEF Owned
    <3> QED BY <3>1, <3>2, <3>3
  <2> HIDE DEF Owned
  <2> QED BY <2>1, <1>3
<1>5. ASSUME NEW k \in Class, NEW n \in Nat, chain[k][n] # NULL
      PROVE  /\ chain[k][n] \in Begins(part) /\ part[chain[k][n]] = k * BLOCK_SIZE_STEP
             /\ chain[k][n] + IntSize \notin DOMAIN live
             /\ Free(k, n)[1] = chain[k][n] /\ Free(k, n)[2] = k * BLOCK_SIZE_STEP
  <2>1. /\ part[chain[k][n]] = k * BLOCK_SIZE_STEP /\ k # 0
        /\ chain[k][n] + IntSize \notin DOMAIN live
    BY <1>1, <1>5 DEF Filed
  <2>2. chain[k][n] \in Words
    BY <1>5 DEF Chains
  <2> QED BY <2>1, <2>2, StepFacts DEF Begins, Class
<1>6. ASSUME NEW p \in DOMAIN live
      PROVE  /\ p \in Nat /\ p - IntSize \in Begins(part) /\ (p - IntSize) + IntSize = p
             /\ Owned(p)[1] = p - IntSize /\ Owned(p)[2] = part[p - IntSize]
  BY <1>1, StepFacts DEF Lent
<1> HIDE DEF Owned, Free
<1>7. \A x \in Blocks : x[1] \in Begins(part) /\ x[2] = part[x[1]]
  BY <1>4, <1>5, <1>6
<1>8. ASSUME NEW x \in Blocks, NEW y \in Blocks, x[1] = y[1] PROVE x = y
  <2>1. CASE /\ \E k \in Class, n \in Nat : chain[k][n] # NULL /\ x = Free(k, n)
             /\ \E k \in Class, n \in Nat : chain[k][n] # NULL /\ y = Free(k, n)
    <3>1. PICK k \in Class, n \in Nat : chain[k][n] # NULL /\ x = Free(k, n)
      BY <2>1
    <3>2. PICK l \in Class, m \in Nat : chain[l][m] # NULL /\ y = Free(l, m)
      BY <2>1
    <3>3. k * BLOCK_SIZE_STEP = l * BLOCK_SIZE_STEP /\ chain[k][n] = chain[l][m]
      BY <3>1, <3>2, <1>5, <1>8
    <3> QED BY <3>1, <3>2, <3>3 DEF Free
  <2>2. CASE /\ \E k \in Class, n \in Nat : chain[k][n] # NULL /\ x = Free(k, n)
             /\ \E p \in DOMAIN live : y = Owned(p)
    <3>1. PICK k \in Class, n \in Nat : chain[k][n] # NULL /\ x = Free(k, n)
      BY <2>2
    <3>2. PICK p \in DOMAIN live : y = Owned(p)
      BY <2>2
    <3> QED BY <3>1, <3>2, <1>5, <1>6, <1>8
  <2>3. CASE /\ \E k \in Class, n \in Nat : chain[k][n] # NULL /\ y = Free(k, n)
             /\ \E p \in DOMAIN live : x = Owned(p)
    <3>1. PICK k \in Class, n \in Nat : chain[k][n] # NULL /\ y = Free(k, n)
      BY <2>3
    <3>2. PICK p \in DOMAIN live : x = Owned(p)
      BY <2>3
    <3> QED BY <3>1, <3>2, <1>5, <1>6, <1>8
  <2>4. CASE /\ \E p \in DOMAIN live : x = Owned(p)
             /\ \E p \in DOMAIN live : y = Owned(p)
    <3>1. PICK p \in DOMAIN live : x = Owned(p)
      BY <2>4
    <3>2. PICK q \in DOMAIN live : y = Owned(q)
      BY <2>4
    <3>3. p = q
      BY <3>1, <3>2, <1>6, <1>8
    <3> QED BY <3>1, <3>2, <3>3
  <2> QED BY <2>1, <2>2, <2>3, <2>4, <1>4
<1>9. ASSUME NEW b \in Begins(part) PROVE \E x \in Blocks : x[1] = b
  <2>1. b # NULL /\ b \in Nat /\ (b + IntSize) - IntSize = b
    BY WordsAreNumbers, StepFacts DEF Begins
  <2>2. CASE b + IntSize \in DOMAIN live
    <3>1. Owned(b + IntSize) \in Blocks /\ Owned(b + IntSize)[1] = b
      BY <2>1, <2>2, <1>4, <1>6
    <3> QED BY <3>1
  <2>3. CASE b + IntSize \notin DOMAIN live
    <3>1. PICK k \in Class, n \in Nat : chain[k][n] = b
      BY <2>3, <1>1 DEF Kept
    <3>2. Free(k, n) \in Blocks /\ Free(k, n)[1] = b
      BY <2>1, <3>1, <1>4, <1>5
    <3> QED BY <3>2
  <2> QED BY <2>2, <2>3
<1> QED BY <1>7, <1>8, <1>9

LEMMA IntactFromInvariant ==
  ASSUME IInv PROVE FreeListsIntact
<1>1. PICK part \in Cut, chain \in Chains :
        Sound(part, chain, small_block_headers, free_space, word, live)
  BY DEF IInv
<1>2. /\ Tiled(part, free_space) /\ Follow(chain, small_block_headers, word)
      /\ Filed(part, chain, live) /\ Lent(part, word, live)
  BY <1>1 DEF Sound
<1>3. Shape /\ free_space \in Nat
  BY HeapAssumption DEF IInv, Shape
<1>4. ASSUME NEW p \in DOMAIN live
      PROVE  p \in Words /\ live[p] \in Nat \ {0} /\ word[p - IntSize] >= live[p] + IntSize
  <2>1. /\ p \in Nat /\ live[p] \in Nat \ {0} /\ p - IntSize \in Begins(part)
        /\ word[p - IntSize] = part[p - IntSize] /\ live[p] + IntSize <= part[p - IntSize]
    BY <1>2 DEF Lent
  <2>2. PICK b \in Nat : b = p - IntSize /\ b \in Words /\ b >= HeapStart /\ b % IntSize = 0
    BY <2>1, WordsAreNumbers DEF Begins
  <2>3. part[b] \in Nat /\ b + part[b] <= free_space
    BY <2>1, <2>2, <1>2 DEF Tiled, Cut
  <2>4. IntSize \in Nat \ {0} /\ IntSize % IntSize = 0 /\ p = b + IntSize
    <3>1. IntSize \in Nat \ {0}
      BY StepFacts
    <3>2. (IntSize * 1 + 0) % IntSize = 0
      BY <3>1, DivModUnique
    <3> QED BY <2>1, <2>2, <3>1, <3>2
  <2>5. p % IntSize = 0
    BY <2>2, <2>4, Aligned
  <2>6. free_space <= HeapLimit /\ HeapLimit \in Nat /\ HeapStart \in Nat
    BY <1>3, HeapAssumption DEF Shape
  <2>7. p \in HeapStart .. (HeapLimit - 1)
    BY <2>1, <2>2, <2>3, <2>4, <2>6, <1>3
  <2>8. word[p - IntSize] >= live[p] + IntSize
    BY <2>1, <2>2, <2>3
  <2> QED BY <2>1, <2>5, <2>7, <2>8 DEF Words
<1>5. TypeOK
  BY <1>3, <1>4 DEF Shape, TypeOK
<1>6. ASSUME NEW k \in Class PROVE FreeList(k)[Cardinality(Words)] = NULL
  <2>1. Cardinality(Words) \in Nat /\ Cardinality(Words) \in 0 .. Cardinality(Words)
        /\ Cardinality(Words) >= Cardinality(Words)
    BY WordsFinite
  <2>2. FreeList(k)[Cardinality(Words)] = chain[k][Cardinality(Words)]
    BY <2>1, <1>2, FreeListIs
  <2> QED BY <2>1, <2>2, <1>2, ListsEnd
<1>7. /\ \A x \in Blocks : x[1] \in Begins(part) /\ x[2] = part[x[1]]
      /\ \A x, y \in Blocks : x[1] = y[1] => x = y
      /\ \A b \in Begins(part) : \E x \in Blocks : x[1] = b
  BY <1>1, BlocksAre
<1>8. ASSUME NEW a \in Words
      PROVE  Cardinality({x \in Blocks : a \in x[1] .. (x[1] + x[2] - 1)})
               = IF a < free_space THEN 1 ELSE 0
  <2> DEFINE Over == {x \in Blocks : a \in x[1] .. (x[1] + x[2] - 1)}
  <2>1. ASSUME NEW b \in Begins(part)
        PROVE  b \in Nat /\ part[b] \in Nat /\ b + part[b] <= free_space
    BY <1>2, WordsAreNumbers DEF Begins, Cut, Tiled
  <2>2. a \in Nat
    BY WordsAreNumbers
  <2>3. ASSUME NEW x \in Over
        PROVE  /\ x \in Blocks /\ x[1] \in Begins(part)
               /\ x[1] <= a /\ a < x[1] + part[x[1]] /\ a < free_space
    BY <1>3, <1>7, <2>1, <2>2
  <2>4. CASE a < free_space
    <3>1. PICK b \in Begins(part) : b <= a /\ a < b + part[b]
      BY <2>4, <1>2 DEF Tiled
    <3>2. PICK x \in Blocks : x[1] = b
      BY <1>7
    <3>3. x \in Over
      BY <3>1, <3>2, <1>7, <2>1, <2>2
    <3>4. ASSUME NEW y \in Over PROVE y = x
      <4>1. CASE y[1] < b
        <5>1. y[1] + part[y[1]] <= b
          BY <4>1, <2>3, <1>2 DEF Tiled
        <5> QED BY <5>1, <2>1, <2>2, <2>3, <3>1
      <4>2. CASE b < y[1]
        <5>1. b + part[b] <= y[1]
          BY <4>2, <2>3, <1>2 DEF Tiled
        <5> QED BY <5>1, <2>1, <2>2, <2>3, <3>1
      <4>3. CASE y[1] = b
        BY <4>3, <3>2, <2>3, <1>7
      <4>4. y[1] \in Nat /\ b \in Nat
        BY <2>1, <2>3
      <4> QED BY <4>1, <4>2, <4>3, <4>4
    <3>5. Over = {x}
      BY <3>3, <3>4
    <3> HIDE DEF Over
    <3> QED BY <2>4, <3>5, FS_Singleton DEF Over
  <2>5. CASE ~ (a < free_space)
    <3>1. Over = {}
      BY <2>3, <2>5
    <3> HIDE DEF Over
    <3> QED BY <2>5, <3>1, FS_EmptySet DEF Over
  <2> QED BY <2>4, <2>5
<1> QED BY <1>4, <1>5, <1>6, <1>8 DEF FreeListsIntact

(* No block is lost, doubled or filed under another size (lib.c:153-208),  *)
(* for every size of the area, of blocks and of chunks.                    *)
THEOREM ListsIntact == Spec => []FreeListsIntact
<1> QED BY HeapInvariant, IntactFromInvariant, PTL
-----------------------------------------------------------------------------
(* The refinement.  data is the argument that Heap gives to Allocator.     *)
Data == [p \in DOMAIN live |-> [a \in {b \in Words : b \in p .. (p + live[p] - 1)} |-> word[a]]]

(* Each step of the heap is one of the allocator the program relies on.    *)
LEMMA AllocateRefines ==
  ASSUME IInv, NEW request \in Requests, Allocate(request)
  PROVE  \E p \in DOMAIN live' \ DOMAIN live : Area!Grant(p, request)
<1>1. PICK part \in Cut, chain \in Chains :
        Sound(part, chain, small_block_headers, free_space, word, live)
  BY DEF IInv
<1>2. Shape /\ request \in Int /\ request <= INT_MAX
  BY HeapAssumption DEF IInv
<1>3. PICK part2 \in Cut, chain2 \in Chains, block \in Words :
        /\ Shape'
        /\ Sound(part2, chain2, small_block_headers', free_space', word', live')
        /\ request \in Nat \ {0}
        /\ block + IntSize \notin DOMAIN live
        /\ live' = [p \in DOMAIN live \cup {block + IntSize} |->
                      IF p = block + IntSize THEN request ELSE live[p]]
        /\ block \in Begins(part2) /\ Begins(part) \subseteq Begins(part2)
        /\ \A a \in Words : word'[a] = word[a] \/ a \in Begins(part2)
  BY <1>1, <1>2, AllocateSound
<1>4. PICK p : p = block + IntSize
  OBVIOUS
<1>5. /\ p \in DOMAIN live' \ DOMAIN live /\ DOMAIN live' = DOMAIN live \cup {p}
      /\ live'[p] = request /\ \A q \in DOMAIN live : live'[q] = live[q]
  BY <1>3, <1>4
<1>6. /\ Tiled(part2, free_space') /\ Lent(part2, word', live') /\ free_space' \in Nat
  BY <1>3, HeapAssumption DEF Sound, Shape
<1>7. p >= HeapStart /\ p % IntSize = 0
  <2>1. IntSize \in Nat \ {0} /\ block \in Nat /\ block >= HeapStart /\ block % IntSize = 0
        /\ HeapStart \in Nat
    BY WordsAreNumbers, StepFacts, HeapAssumption
  <2>2. (IntSize * 1 + 0) % IntSize = 0
    BY <2>1, DivModUnique
  <2>3. IntSize % IntSize = 0
    BY <2>1, <2>2
  <2>4. (block + IntSize) % IntSize = 0
    BY <2>1, <2>3, Aligned
  <2> QED BY <2>1, <2>4, <1>4
<1>8. ASSUME NEW q \in DOMAIN live
      PROVE  p + request <= q \/ q + live[q] <= p
  <2>1. q \in DOMAIN live' /\ p \in DOMAIN live' /\ p # q
    BY <1>5
  <2> QED BY <2>1, <1>5, <1>6, BlocksApart
<1>9. ASSUME NEW q \in DOMAIN live
      PROVE  Data'[q] = Data[q]
  <2>1. q \in DOMAIN live' /\ live'[q] = live[q]
    BY <1>5
  <2>2. ASSUME NEW a \in Words, a \in q .. (q + live[q] - 1)
        PROVE  word'[a] = word[a]
    <3>1. a \notin Begins(part2)
      BY <2>1, <2>2, <1>6, InsideBlock
    <3> QED BY <3>1, <1>3
  <2>3. Data[q] = [a \in {b \in Words : b \in q .. (q + live[q] - 1)} |-> word[a]]
    BY DEF Data
  <2>4. Data'[q] = [a \in {b \in Words : b \in q .. (q + live[q] - 1)} |-> word'[a]]
    BY <2>1 DEF Data
  <2> QED BY <2>2, <2>3, <2>4
<1>10. Area!Grant(p, request)
  BY <1>3, <1>5, <1>7, <1>8, <1>9 DEF Area!Grant, Area!Apart, Data
<1> QED BY <1>5, <1>10

LEMMA ReleaseRefines ==
  ASSUME IInv, NEW memory \in DOMAIN live, Release(memory)
  PROVE  Area!GiveBack(memory)
<1>1. PICK part \in Cut, chain \in Chains :
        Sound(part, chain, small_block_headers, free_space, word, live)
  BY DEF IInv
<1>2. Shape /\ free_space \in Nat
  BY HeapAssumption DEF IInv, Shape
<1>3. /\ live' = [p \in DOMAIN live \ {memory} |-> live[p]]
      /\ \A a \in Words : word'[a] = word[a] \/ a \in Begins(part)
  BY <1>1, <1>2, ReleaseSound
<1>4. Tiled(part, free_space) /\ Lent(part, word, live)
  BY <1>1 DEF Sound
<1>5. DOMAIN live' = DOMAIN live \ {memory} /\ \A q \in DOMAIN live' : live'[q] = live[q]
  BY <1>3
<1>6. ASSUME NEW q \in DOMAIN live \ {memory} PROVE Data'[q] = Data[q]
  <2>1. ASSUME NEW a \in Words, a \in q .. (q + live[q] - 1)
        PROVE  word'[a] = word[a]
    BY <1>2, <1>3, <1>4, <2>1, InsideBlock
  <2>2. Data[q] = [a \in {b \in Words : b \in q .. (q + live[q] - 1)} |-> word[a]]
    BY DEF Data
  <2>3. Data'[q] = [a \in {b \in Words : b \in q .. (q + live[q] - 1)} |-> word'[a]]
    BY <1>5 DEF Data
  <2> QED BY <2>1, <2>2, <2>3
<1>7. Data' = [q \in DOMAIN live \ {memory} |-> Data[q]]
  <2>1. Data' = [q \in DOMAIN live \ {memory} |-> Data'[q]]
    BY <1>5 DEF Data
  <2> QED BY <2>1, <1>6
<1> QED BY <1>3, <1>7 DEF Area!GiveBack, Data

LEMMA WriteRefines ==
  ASSUME IInv, NEW p \in DOMAIN live, NEW w \in Scribble, Write(p, w)
  PROVE  Area!Write(p, w)
<1>1. PICK part \in Cut, chain \in Chains :
        Sound(part, chain, small_block_headers, free_space, word, live)
  BY DEF IInv
<1>2. free_space \in Nat /\ DOMAIN word = Words
  BY HeapAssumption DEF IInv, Shape
<1>3. /\ live' = live
      /\ word' = [a \in Words |-> IF a \in p .. (p + live[p] - 1) THEN w ELSE word[a]]
  BY <1>2 DEF Write
<1>4. Tiled(part, free_space) /\ Lent(part, word, live)
  BY <1>1 DEF Sound
<1>5. \A q \in DOMAIN live :
        Data[q] = [a \in {b \in Words : b \in q .. (q + live[q] - 1)} |-> word[a]]
  BY DEF Data
<1>6. \A q \in DOMAIN live :
        Data'[q] = [a \in {b \in Words : b \in q .. (q + live[q] - 1)} |-> word'[a]]
  BY <1>3 DEF Data
<1>7. ASSUME NEW q \in DOMAIN live, q # p PROVE Data'[q] = Data[q]
  <2>1. ASSUME NEW a \in Words, a \in q .. (q + live[q] - 1)
        PROVE  word'[a] = word[a]
    <3>1. a \notin p .. (p + live[p] - 1)
      BY <1>2, <1>4, <1>7, <2>1, InsideBlock
    <3> QED BY <3>1, <1>3
  <2>2. Data[q] = [a \in {b \in Words : b \in q .. (q + live[q] - 1)} |-> word[a]]
    BY <1>5
  <2>3. Data'[q] = [a \in {b \in Words : b \in q .. (q + live[q] - 1)} |-> word'[a]]
    BY <1>6
  <2> QED BY <2>1, <2>2, <2>3
<1>8. Data'[p] = [a \in DOMAIN Data[p] |-> w]
  BY <1>3, <1>5, <1>6
<1>9. /\ Data = [q \in DOMAIN live |-> Data[q]]
      /\ Data' = [q \in DOMAIN live |-> Data'[q]]
  BY <1>3 DEF Data
<1>10. Data' = [Data EXCEPT ![p] = [a \in DOMAIN Data[p] |-> w]]
  BY <1>7, <1>8, <1>9
<1> QED BY <1>3, <1>10 DEF Area!Write, Data

LEMMA HeapInitRefines ==
  ASSUME Init PROVE Area!Init
<1>1. live = [p \in {} |-> 0] /\ DOMAIN live = {}
  BY DEF Init
<1>2. Data = [p \in {} |-> 0]
  BY <1>1 DEF Data
<1> QED BY <1>1, <1>2 DEF Area!Init, Data

LEMMA HeapStepRefines ==
  ASSUME IInv, [Next]_vars PROVE [Area!Next]_(Area!vars)
<1>1. ASSUME NEW request \in Requests, Allocate(request) PROVE Area!Next
  BY <1>1, AllocateRefines DEF Area!Next
<1>2. ASSUME NEW p \in DOMAIN live, Release(p) PROVE Area!Next
  BY <1>2, ReleaseRefines DEF Area!Next
<1>3. ASSUME NEW p \in DOMAIN live, NEW w \in Scribble, Write(p, w) PROVE Area!Next
  BY <1>3, WriteRefines DEF Area!Next
<1>4. CASE UNCHANGED vars
  BY <1>4 DEF vars, Area!vars
<1>5. ASSUME NEW request \in Requests, Refuse(request) PROVE UNCHANGED vars
  BY <1>5 DEF Refuse
<1>6. ASSUME NEW request \in Requests, Overrun(request) PROVE UNCHANGED Area!vars
  BY <1>6 DEF Overrun, Area!vars
<1> QED BY <1>1, <1>2, <1>3, <1>4, <1>5, <1>6 DEF Next

(* Blocks never overlap and keep what the program wrote into them, for     *)
(* every size of the area, of blocks and of chunks (lib.c:153-208).        *)
THEOREM BlocksKept == Spec => ImplementsAllocator
<1>1. Init => Area!Init
  BY HeapInitRefines
<1>2. IInv /\ [Next]_vars => [Area!Next]_(Area!vars)
  BY HeapStepRefines
<1> QED BY <1>1, <1>2, HeapInvariant, PTL DEF Spec, ImplementsAllocator, Area!Spec

-----------------------------------------------------------------------------
(* Powers of ten, and the digits of a number.                              *)
TensOf(g, n) == IF n = 0 THEN 1 ELSE 10 * g[n - 1]

TensUpto(g, k) == \A n \in 0 .. k : g[n] = TensOf(g, n)

LEMMA TensUptoExists == \A k \in Nat : \E g : TensUpto(g, k)
<1> DEFINE N == {k \in Nat : \E g : TensUpto(g, k)}
<1>1. 0 \in N
  <2>1. TensUpto([n \in {0} |-> 1], 0)
    BY DEF TensUpto, TensOf
  <2> QED BY <2>1
<1>2. ASSUME NEW k \in Nat, k \in N PROVE k + 1 \in N
  <2>1. PICK g : TensUpto(g, k)
    BY <1>2
  <2> DEFINE h == [n \in 0 .. (k + 1) |-> IF n = k + 1 THEN TensOf(g, n) ELSE g[n]]
  <2>2. ASSUME NEW n \in 0 .. (k + 1) PROVE h[n] = TensOf(h, n)
    <3>1. h[n] = TensOf(g, n)
      BY <2>1 DEF TensUpto
    <3>2. n # 0 => h[n - 1] = g[n - 1]
      OBVIOUS
    <3> HIDE DEF h
    <3> QED BY <3>1, <3>2 DEF TensOf
  <2> HIDE DEF h
  <2>3. TensUpto(h, k + 1)
    BY <2>2 DEF TensUpto
  <2> QED BY <2>3
<1> HIDE DEF N
<1>3. Nat \subseteq N
  BY <1>1, <1>2, NatInd
<1> QED BY <1>3 DEF N

LEMMA TensUptoAgree ==
  ASSUME NEW k \in Nat, NEW m \in Nat, NEW g, NEW h, TensUpto(g, k), TensUpto(h, m),
         NEW n \in Nat, n <= k, n <= m
  PROVE  g[n] = h[n]
<1> DEFINE N == {r \in Nat : r <= k /\ r <= m => g[r] = h[r]}
<1>1. 0 \in N
  BY DEF TensUpto, TensOf
<1>2. ASSUME NEW r \in Nat, r \in N PROVE r + 1 \in N
  <2> SUFFICES ASSUME r + 1 <= k, r + 1 <= m PROVE g[r + 1] = h[r + 1]
    BY <1>2
  <2>1. g[r + 1] = TensOf(g, r + 1) /\ h[r + 1] = TensOf(h, r + 1)
    BY DEF TensUpto
  <2>2. g[r] = h[r] /\ (r + 1) - 1 = r /\ r + 1 # 0
    BY <1>2
  <2> QED BY <2>1, <2>2 DEF TensOf
<1> HIDE DEF N
<1>3. Nat \subseteq N
  BY <1>1, <1>2, NatInd
<1> QED BY <1>3 DEF N

LEMMA TensStep == \A n \in Nat : Tens[n] = TensOf(Tens, n)
<1> DEFINE G(k) == CHOOSE g : TensUpto(g, k)
           F == [n \in Nat |-> G(n)[n]]
<1>1. \A k \in Nat : TensUpto(G(k), k)
  BY TensUptoExists
<1> HIDE DEF G
<1>2. ASSUME NEW n \in Nat PROVE F[n] = TensOf(F, n)
  <2>1. F[n] = TensOf(G(n), n)
    BY <1>1 DEF TensUpto
  <2>2. CASE n # 0
    <3>1. n - 1 \in Nat /\ n - 1 <= n
      BY <2>2
    <3>2. TensUpto(G(n), n) /\ TensUpto(G(n - 1), n - 1)
      BY <1>1, <3>1
    <3>3. G(n)[n - 1] = F[n - 1]
      BY <3>1, <3>2, TensUptoAgree
    <3> HIDE DEF F
    <3> QED BY <2>1, <2>2, <3>3 DEF TensOf
  <2>3. CASE n = 0
    BY <2>1, <2>3 DEF TensOf
  <2> QED BY <2>2, <2>3
<1>3. F = [n \in Nat |-> TensOf(F, n)]
  BY <1>2
<1> HIDE DEF F
<1>4. Tens = CHOOSE g : g = [n \in Nat |-> TensOf(g, n)]
  BY DEF Tens, TensOf
<1>5. Tens = [n \in Nat |-> TensOf(Tens, n)]
  BY <1>3, <1>4
<1> QED BY <1>5

LEMMA TensFacts ==
  /\ Tens[0] = 1
  /\ \A n \in Nat : Tens[n] \in Nat \ {0} /\ Tens[n + 1] = 10 * Tens[n]
<1>1. Tens[0] = 1
  BY TensStep DEF TensOf
<1>2. \A n \in Nat : Tens[n + 1] = 10 * Tens[n]
  <2> TAKE n \in Nat
  <2>1. n + 1 \in Nat /\ n + 1 # 0 /\ (n + 1) - 1 = n
    OBVIOUS
  <2> QED BY <2>1, TensStep DEF TensOf
<1> DEFINE N == {n \in Nat : Tens[n] \in Nat \ {0}}
<1>3. 0 \in N
  BY <1>1
<1>4. ASSUME NEW n \in Nat, n \in N PROVE n + 1 \in N
  <2>1. PICK t \in Nat \ {0} : t = Tens[n]
    BY <1>4
  <2>2. 10 * t \in Nat \ {0}
    OBVIOUS
  <2> QED BY <1>2, <2>1, <2>2
<1> HIDE DEF N
<1>5. Nat \subseteq N
  BY <1>3, <1>4, NatInd
<1> QED BY <1>1, <1>2, <1>5 DEF N

LEMMA TensGrow ==
  ASSUME NEW m \in Nat, NEW n \in Nat, m <= n
  PROVE  Tens[m] <= Tens[n]
<1> DEFINE N == {k \in Nat : Tens[m] <= Tens[m + k]}
<1>1. 0 \in N
  <2>1. m + 0 = m /\ Tens[m] \in Nat
    BY TensFacts
  <2> QED BY <2>1
<1>2. ASSUME NEW k \in Nat, k \in N PROVE k + 1 \in N
  <2>1. m + k \in Nat /\ m + (k + 1) = (m + k) + 1
    OBVIOUS
  <2>2. PICK t \in Nat : t = Tens[m + k]
    BY <2>1, TensFacts
  <2>3. PICK s \in Nat : s = Tens[m]
    BY TensFacts
  <2>4. Tens[m + (k + 1)] = 10 * t
    BY <2>1, <2>2, TensFacts
  <2>5. s <= t
    BY <1>2, <2>2, <2>3
  <2>6. s <= 10 * t
    BY <2>5
  <2> QED BY <2>3, <2>4, <2>6
<1> HIDE DEF N
<1>3. Nat \subseteq N
  BY <1>1, <1>2, NatInd
<1>4. n - m \in Nat /\ m + (n - m) = n
  OBVIOUS
<1> QED BY <1>3, <1>4 DEF N

(* The digit of v at the place of Tens[k].                                 *)
DigitOf(v, k) == (v \div Tens[k]) % 10

LEMMA DigitFacts ==
  ASSUME NEW v \in Nat, NEW k \in Nat
  PROVE  /\ v \div Tens[k] \in Nat
         /\ DigitOf(v, k) \in 0 .. 9
         /\ v \div Tens[k] = 10 * (v \div Tens[k + 1]) + DigitOf(v, k)
         /\ v \div Tens[k + 1] = (v \div Tens[k]) \div 10
         /\ v \div Tens[k] = 0 <=> v < Tens[k]
         /\ v \div Tens[k] <= v
<1>1. PICK t \in Nat \ {0} : t = Tens[k]
  BY TensFacts
<1>2. Tens[k + 1] = t * 10
  BY <1>1, TensFacts
<1>3. v \div Tens[k + 1] = (v \div t) \div 10
  BY <1>1, <1>2, DivDiv
<1>4. PICK q \in Nat, r \in 0 .. (t - 1) : q = v \div t /\ v = t * q + r
  BY DivMod
<1>5. q \div 10 \in Nat /\ q % 10 \in 0 .. 9 /\ q = 10 * (q \div 10) + (q % 10)
  BY DivMod
<1>6. q = 0 <=> v < t
  <2>1. q = 0 => v < t
    BY <1>4
  <2>2. q >= 1 => t * q >= t
    BY SMT
  <2> QED BY <1>4, <2>1, <2>2
<1>7. q <= v
  <2>1. t * q >= q
    BY SMT
  <2> QED BY <1>4, <2>1
<1> QED BY <1>1, <1>3, <1>4, <1>5, <1>6, <1>7 DEF DigitOf

LEMMA LongUnique ==
  ASSUME NEW v \in Nat, NEW m \in Nat \ {0}, NEW n \in Nat \ {0}, Long(v, m), Long(v, n)
  PROVE  m = n
<1>1. ASSUME NEW a \in Nat \ {0}, NEW b \in Nat \ {0}, Long(v, a), Long(v, b), a < b
      PROVE  FALSE
  <2>1. a <= b - 1 /\ a \in Nat /\ b - 1 \in Nat /\ b # 1
    BY <1>1
  <2>2. Tens[a] <= Tens[b - 1]
    BY <2>1, TensGrow
  <2>3. v < Tens[a] /\ v >= Tens[b - 1]
    BY <1>1, <2>1 DEF Long
  <2>4. Tens[a] \in Nat /\ Tens[b - 1] \in Nat
    BY <2>1, TensFacts
  <2> QED BY <2>2, <2>3, <2>4
<1>2. ~ (m < n) /\ ~ (n < m)
  BY <1>1
<1> QED BY <1>2

-----------------------------------------------------------------------------
(* Number adds up the characters of a string as the digits they stand for. *)
LEMMA NumberOfDigits ==
  ASSUME NEW s, NEW n \in Nat, Len(s) = n, NEW v \in Nat, v < Tens[n],
         \A k \in 1 .. n : s[k] = DigitOf(v, n - k) + Zero
  PROVE  Number(s) = v
<1> DEFINE Body(g) == [k \in 0 .. n |-> IF k = 0 THEN 0 ELSE (10 * g[k - 1]) + s[k] - Zero]
           h == [k \in 0 .. n |-> v \div Tens[n - k]]
           f == CHOOSE g : g = Body(g)
<1>1. Number(s) = f[n]
  BY DEF Number
<1>2. ASSUME NEW k \in 1 .. n
      PROVE  /\ k - 1 \in 0 .. n /\ k # 0
             /\ v \div Tens[n - k] \in Nat /\ v \div Tens[n - (k - 1)] \in Nat
             /\ v \div Tens[n - k] = (10 * (v \div Tens[n - (k - 1)])) + s[k] - Zero
  <2>1. PICK l \in Nat : l = n - k
    OBVIOUS
  <2>2. n - (k - 1) = l + 1 /\ l + 1 \in Nat
    BY <2>1
  <2>3. PICK a \in Nat : a = v \div Tens[l]
    BY DigitFacts
  <2>4. PICK b \in Nat : b = v \div Tens[l + 1]
    BY <2>2, DigitFacts
  <2>5. PICK d \in 0 .. 9 : d = DigitOf(v, l)
    BY DigitFacts
  <2>6. a = 10 * b + d
    BY <2>3, <2>4, <2>5, DigitFacts
  <2>7. s[k] = d + 48
    BY <2>1, <2>5 DEF Zero
  <2>8. a = (10 * b) + (d + 48) - 48
    BY <2>6
  <2> QED BY <2>1, <2>2, <2>3, <2>4, <2>7, <2>8 DEF Zero
<1>3. h[0] = 0
  <2>1. n - 0 = n /\ 0 \in 0 .. n
    OBVIOUS
  <2>2. h[0] = v \div Tens[n]
    BY <2>1
  <2> HIDE DEF h
  <2> QED BY <2>2, DigitFacts
<1>4. h = Body(h)
  <2>1. ASSUME NEW k \in 0 .. n PROVE h[k] = Body(h)[k]
    <3>1. CASE k = 0
      BY <1>3, <3>1
    <3>2. CASE k \in 1 .. n
      BY <1>2, <3>2
    <3> QED BY <3>1, <3>2
  <2> QED BY <2>1
<1>5. f = Body(f)
  <2>1. \E g : g = Body(g)
    <3> HIDE DEF h, Body
    <3> QED BY <1>4
  <2> HIDE DEF Body
  <2> QED BY <2>1
<1> HIDE DEF f
<1> DEFINE N == {k \in Nat : k <= n => f[k] = h[k]}
<1>6. 0 \in N
  <2>1. f[0] = 0
    BY <1>5
  <2> HIDE DEF h
  <2> QED BY <1>3, <2>1
<1>7. ASSUME NEW k \in Nat, k \in N PROVE k + 1 \in N
  <2> SUFFICES ASSUME k + 1 <= n PROVE f[k + 1] = h[k + 1]
    OBVIOUS
  <2>1. k + 1 \in 1 .. n /\ k \in 0 .. n /\ (k + 1) - 1 = k
    OBVIOUS
  <2>2. f[k + 1] = (10 * f[k]) + s[k + 1] - Zero
    <3>1. Body(f)[k + 1] = (10 * f[k]) + s[k + 1] - Zero
      BY <2>1
    <3> HIDE DEF Body
    <3> QED BY <3>1, <1>5
  <2>3. h[k + 1] = v \div Tens[n - (k + 1)] /\ h[k] = v \div Tens[n - k]
    BY <2>1
  <2>4. f[k] = h[k]
    BY <1>7, <2>1
  <2> HIDE DEF h, N
  <2>5. v \div Tens[n - (k + 1)] = (10 * (v \div Tens[n - k])) + s[k + 1] - Zero
    BY <1>2, <2>1
  <2> QED BY <2>2, <2>3, <2>4, <2>5
<1> HIDE DEF N
<1>8. Nat \subseteq N
  BY <1>6, <1>7, NatInd
<1>9. f[n] = h[n]
  <2> HIDE DEF h
  <2>1. n \in N
    BY <1>8
  <2> QED BY <2>1 DEF N
<1>10. h[n] = v
  <2>1. n - n = 0 /\ n \in 0 .. n
    OBVIOUS
  <2>2. h[n] = v \div Tens[0]
    BY <2>1
  <2> HIDE DEF h
  <2>3. v \div 1 = v
    OBVIOUS
  <2> QED BY <2>2, <2>3, TensFacts
<1> QED BY <1>1, <1>9, <1>10

-----------------------------------------------------------------------------
Places == {"program", "read_string", "print_string", "str_to_uns", "digits", "reverse"}
Bytes == 0 .. 255

ReadCalls == [call : {"read_string"}, max_chars : Sizes, from : Nat]
UnsCalls == [call : {"uns_to_str"}, val : Values]

StringsTypeOK ==
  /\ at \in Places
  /\ buffer \in [0 .. (BufferSize - 1) -> Bytes]
  /\ input \in Seq(Bytes) /\ pos \in Nat
  /\ given \in {[call |-> "none"]} \cup ReadCalls \cup UnsCalls

(* read_string has stored n characters and looks at the one after them.    *)
Read(k) == IF given.from + k <= Len(input) THEN input[given.from + k] ELSE Eof

Stored(n) ==
  /\ n \in 0 .. (given.max_chars - 1) /\ pos = given.from + n + 1
  /\ \A k \in 1 .. n : buffer[k - 1] = Read(k) /\ Read(k) \notin Newlines

Reading ==
  at = "read_string" =>
    /\ given.call = "read_string"
    /\ Stored(ptr) /\ max_chars = given.max_chars - ptr /\ c = Read(ptr + 1)

LineRead ==
  given.call = "read_string" /\ at # "read_string" =>
    /\ at \notin {"digits", "reverse"}
    /\ \E n \in Nat :
         /\ Stored(n) /\ buffer[n] = 0
         /\ n = given.max_chars - 1 \/ Read(n + 1) \in Newlines

(* uns_to_str has split off the digits before ptr, the last one first.     *)
Converting ==
  at = "digits" =>
    /\ given.call = "uns_to_str" /\ given.val > 0
    /\ low = 0 /\ ptr \in 0 .. (BufferSize - 1) /\ val = given.val \div Tens[ptr]
    /\ ptr > 0 => given.val >= Tens[ptr - 1]
    /\ \A k \in 0 .. (ptr - 1) : buffer[k] = DigitOf(given.val, k) + Zero

(* It has swapped the digits before low with those after ptr.              *)
Reversing ==
  at = "reverse" =>
    /\ given.call = "uns_to_str" /\ given.val # 0
    /\ \E n \in 1 .. (BufferSize - 1) :
         /\ Long(given.val, n) /\ buffer[n] = 0 /\ retval = n - 1
         /\ low \in Nat /\ ptr \in Nat /\ low + ptr = n - 1 /\ low <= ptr + 1
         /\ \A k \in 0 .. (n - 1) :
              buffer[k] = DigitOf(given.val, IF low <= k /\ k <= ptr THEN k ELSE n - 1 - k) + Zero

(* The buffer has the n digits of the number, the first one first.         *)
Listed(n) ==
  /\ n \in 1 .. (BufferSize - 1) /\ Long(given.val, n) /\ buffer[n] = 0
  /\ retval = IF given.val = 0 THEN 1 ELSE n - 1
  /\ \A k \in 0 .. (n - 1) : buffer[k] = DigitOf(given.val, n - 1 - k) + Zero

(* Whoever reads it back has dealt with the digits before ptr.             *)
WrittenOut ==
  given.call = "uns_to_str" /\ at \notin {"digits", "reverse"} =>
    /\ at # "read_string"
    /\ \E n \in Nat :
         /\ Listed(n)
         /\ at = "str_to_uns" => ptr \in 1 .. n /\ val = given.val \div Tens[n - ptr]
         /\ at = "print_string" => /\ ptr \in 0 .. n /\ out \in Seq(Int) /\ Len(out) = ptr
                                  /\ \A k \in 1 .. ptr : out[k] = buffer[k - 1]

StringsIInv == StringsTypeOK /\ Reading /\ LineRead /\ Converting /\ Reversing /\ WrittenOut

(* The same about one step, with what the readers have when they return.   *)
Back ==
  given.call = "uns_to_str" /\ at' = "program" =>
    /\ at = "str_to_uns" => val' = given.val
    /\ at = "print_string" => Number(out) = given.val

InRoom == buffer' # buffer => \A k \in DOMAIN buffer : k >= Room(given') => buffer'[k] = buffer[k]

LEMMA GivenFacts ==
  ASSUME StringsTypeOK
  PROVE  /\ given.call = "read_string" =>
              given \in ReadCalls /\ given.max_chars \in 1 .. (BufferSize - 1) /\ given.from \in Nat
         /\ given.call = "uns_to_str" =>
              /\ given \in UnsCalls /\ given.val \in Values /\ given.val \in 0 .. (Modulus - 1)
              /\ given.val < Tens[BufferSize - 1]
         /\ given.call \in {"none", "read_string", "uns_to_str"}
<1>1. given \in ReadCalls => given.call = "read_string" /\ given.max_chars \in Sizes /\ given.from \in Nat
  BY DEF ReadCalls
<1>2. given \in UnsCalls => given.call = "uns_to_str" /\ given.val \in Values
  BY DEF UnsCalls
<1>3. given \in {[call |-> "none"]} => given.call = "none"
  OBVIOUS
<1>4. given \in {[call |-> "none"]} \cup ReadCalls \cup UnsCalls
  BY DEF StringsTypeOK
<1> QED BY <1>1, <1>2, <1>3, <1>4, StringsAssumption

LEMMA StringsInitial == ASSUME StringsInit PROVE StringsIInv
<1>1. StringsTypeOK
  BY StringsAssumption DEF StringsInit, StringsTypeOK, Places, Bytes
<1>2. given.call = "none" /\ at = "program"
  BY DEF StringsInit
<1> QED BY <1>1, <1>2 DEF StringsIInv, Reading, LineRead, Converting, Reversing, WrittenOut

LEMMA StringsStutter == ASSUME StringsIInv, UNCHANGED strings_vars PROVE StringsIInv'
  BY DEF strings_vars, state, StringsIInv, StringsTypeOK, Reading, LineRead, Converting, Reversing,
         WrittenOut, Stored, Read, Listed

-----------------------------------------------------------------------------
(* inp gives the next character of the input, or EOF.                      *)
LEMMA NextChar ==
  ASSUME StringsTypeOK, inp, UNCHANGED input
  PROVE  /\ pos' = pos + 1 /\ pos' \in Nat
         /\ c' = (IF pos + 1 <= Len(input) THEN input[pos + 1] ELSE Eof)
         /\ c' \in Bytes
<1>1. pos \in Nat /\ input \in Seq(Bytes) /\ Len(input) \in Nat
  BY DEF StringsTypeOK
<1>2. pos < Len(input) <=> pos + 1 <= Len(input)
  BY <1>1
<1>3. CASE pos < Len(input)
  <2>1. pos + 1 \in 1 .. Len(input)
    BY <1>1, <1>3
  <2>2. input[pos + 1] \in Bytes
    BY <1>1, <2>1, ElementOfSeq
  <2> QED BY <1>1, <1>2, <1>3, <2>2 DEF inp
<1>4. CASE ~ (pos < Len(input))
  BY <1>1, <1>2, <1>4 DEF inp, Bytes, Eof
<1> QED BY <1>3, <1>4

LEMMA LineCalled == ASSUME StringsIInv, CallReadString PROVE StringsIInv' /\ InRoom
<1>1. PICK n \in Sizes : /\ Call("read_string", [call |-> "read_string", max_chars |-> n, from |-> pos])
                         /\ max_chars' = n /\ ptr' = 0 /\ inp
                         /\ UNCHANGED <<buffer, low, val, retval, out>>
  BY DEF CallReadString
<1>2. /\ at' = "read_string" /\ given' = [call |-> "read_string", max_chars |-> n, from |-> pos]
      /\ UNCHANGED input
  BY <1>1 DEF Call
<1>3. n \in 1 .. (BufferSize - 1) /\ BufferSize \in Nat
  BY StringsAssumption
<1>4. pos \in Nat /\ pos' = pos + 1 /\ pos' \in Nat /\ given'.from = pos /\ given'.max_chars = n
      /\ given'.call = "read_string"
      /\ c' = (IF pos + 1 <= Len(input) THEN input[pos + 1] ELSE Eof)
  BY <1>1, <1>2, NextChar DEF StringsIInv, StringsTypeOK
<1>5. StringsTypeOK'
  BY <1>1, <1>2, <1>4 DEF StringsIInv, StringsTypeOK, ReadCalls, Places
<1>6. Reading'
  <2>1. Stored(0)'
    BY <1>1, <1>3, <1>4 DEF Stored
  <2>2. c' = Read(0 + 1)'
    BY <1>2, <1>4 DEF Read
  <2>3. max_chars' = given'.max_chars - 0
    BY <1>1, <1>3, <1>4
  <2> QED BY <1>1, <1>4, <2>1, <2>2, <2>3 DEF Reading
<1>7. LineRead' /\ Converting' /\ Reversing' /\ WrittenOut'
  BY <1>2, <1>4 DEF LineRead, Converting, Reversing, WrittenOut
<1> QED BY <1>1, <1>5, <1>6, <1>7 DEF StringsIInv, InRoom

LEMMA CharRead == ASSUME StringsIInv, ReadChar PROVE StringsIInv' /\ InRoom
<1>1. /\ at = "read_string" /\ at' = at /\ given' = given /\ input' = input
      /\ MoreToStore /\ buffer' = [buffer EXCEPT ![ptr] = c]
      /\ ptr' = ptr + 1 /\ max_chars' = max_chars - 1 /\ inp
  BY DEF ReadChar, Within
<1>2. /\ StringsTypeOK /\ given.call = "read_string" /\ given.max_chars \in 1 .. (BufferSize - 1)
      /\ given.from \in Nat /\ BufferSize \in Nat /\ pos \in Nat
      /\ buffer \in [0 .. (BufferSize - 1) -> Bytes]
      /\ Stored(ptr) /\ max_chars = given.max_chars - ptr /\ c = Read(ptr + 1)
  BY <1>1, GivenFacts, StringsAssumption DEF StringsIInv, Reading, StringsTypeOK
<1>3. PICK p \in Nat, m \in Nat, from \in Nat :
        /\ p = ptr /\ m = given.max_chars /\ from = given.from /\ p \in 0 .. (m - 1)
        /\ m \in 1 .. (BufferSize - 1) /\ max_chars = m - p
  <2>1. ptr \in 0 .. (given.max_chars - 1)
    BY <1>2 DEF Stored
  <2>2. ptr \in Nat /\ given.max_chars \in Nat
    BY <1>2, <2>1
  <2> QED BY <1>2, <2>1, <2>2
<1>4. c \notin Newlines /\ max_chars > 1
  BY <1>1 DEF MoreToStore
<1>5. p + 1 \in 0 .. (m - 1) /\ p \in 0 .. (BufferSize - 1) /\ p < m
  BY <1>2, <1>3, <1>4
<1>6. pos' = pos + 1 /\ pos' \in Nat /\ c' \in Bytes
      /\ c' = (IF pos + 1 <= Len(input) THEN input[pos + 1] ELSE Eof)
  BY <1>1, <1>2, NextChar
<1>7. pos = from + p + 1
  BY <1>2, <1>3 DEF Stored
<1>8. c' = Read((p + 1) + 1)'
  <2>1. from + ((p + 1) + 1) = pos + 1
    BY <1>7
  <2>2. given'.from = from
    BY <1>1, <1>3
  <2> QED BY <1>1, <1>6, <2>1, <2>2 DEF Read
<1>9. Stored(p + 1)'
  <2>1. p + 1 \in 0 .. (given'.max_chars - 1)
    BY <1>1, <1>3, <1>5
  <2>2. pos' = given'.from + (p + 1) + 1
    <3>1. pos + 1 = from + (p + 1) + 1
      BY <1>7
    <3> QED BY <1>1, <1>3, <1>6, <3>1
  <2>3. ASSUME NEW k \in 1 .. (p + 1)
        PROVE  buffer'[k - 1] = Read(k) /\ Read(k) \notin Newlines
    <3>1. CASE k \in 1 .. p
      <4>1. k - 1 # p /\ k - 1 \in 0 .. (BufferSize - 1)
        BY <1>2, <1>3, <3>1
      <4>2. buffer'[k - 1] = buffer[k - 1]
        BY <1>1, <1>2, <1>3, <4>1
      <4> QED BY <1>2, <1>3, <3>1, <4>2 DEF Stored
    <3>2. CASE k = p + 1
      <4>1. k - 1 = p
        BY <1>3, <3>2
      <4>2. buffer'[k - 1] = c
        BY <1>1, <1>2, <1>3, <1>5, <4>1
      <4> QED BY <1>2, <1>3, <1>4, <3>2, <4>2
    <3> QED BY <1>3, <3>1, <3>2
  <2>4. \A k \in 1 .. (p + 1) : Read(k)' = Read(k)
    BY <1>1 DEF Read
  <2> QED BY <2>1, <2>2, <2>3, <2>4 DEF Stored
<1>10. c \in Bytes
  <2>1. Read(ptr + 1) \in Bytes
    <3>1. CASE given.from + (ptr + 1) <= Len(input)
      <4>1. given.from + (ptr + 1) \in 1 .. Len(input) /\ input \in Seq(Bytes)
        BY <1>2, <1>3, <3>1 DEF StringsTypeOK
      <4> QED BY <3>1, <4>1, ElementOfSeq DEF Read
    <3>2. CASE ~ (given.from + (ptr + 1) <= Len(input))
      BY <3>2 DEF Read, Eof, Bytes
    <3> QED BY <3>1, <3>2
  <2> QED BY <1>2, <2>1
<1>11. StringsTypeOK'
  <2>1. buffer' \in [0 .. (BufferSize - 1) -> Bytes]
    BY <1>1, <1>2, <1>10
  <2> QED BY <1>1, <1>2, <1>6, <2>1 DEF StringsTypeOK
<1>12. Reading'
  <2>1. ptr' = p + 1 /\ max_chars' = m - (p + 1) /\ given'.max_chars = m
    BY <1>1, <1>3
  <2> QED BY <1>1, <1>2, <1>8, <1>9, <2>1 DEF Reading
<1>13. LineRead' /\ Converting' /\ Reversing' /\ WrittenOut'
  BY <1>1, <1>2 DEF LineRead, Converting, Reversing, WrittenOut
<1>14. InRoom
  <2>1. Room(given') = m
    BY <1>1, <1>2, <1>3 DEF Room
  <2>2. \A k \in DOMAIN buffer : k >= m => k # ptr
    BY <1>2, <1>3, <1>5
  <2>3. \A k \in DOMAIN buffer : k # ptr => buffer'[k] = buffer[k]
    BY <1>1, <1>2
  <2> QED BY <2>1, <2>2, <2>3 DEF InRoom
<1> QED BY <1>11, <1>12, <1>13, <1>14 DEF StringsIInv

LEMMA LineEnded == ASSUME StringsIInv, EndReadString PROVE StringsIInv' /\ InRoom
<1>1. /\ at = "read_string" /\ at' = "program" /\ given' = given /\ input' = input
      /\ ~ MoreToStore /\ buffer' = [buffer EXCEPT ![ptr] = 0] /\ pos' = pos
  BY DEF EndReadString, Within
<1>2. /\ StringsTypeOK /\ given.call = "read_string" /\ given.max_chars \in 1 .. (BufferSize - 1)
      /\ given.from \in Nat /\ BufferSize \in Nat /\ pos \in Nat
      /\ buffer \in [0 .. (BufferSize - 1) -> Bytes]
      /\ Stored(ptr) /\ max_chars = given.max_chars - ptr /\ c = Read(ptr + 1)
  BY <1>1, GivenFacts, StringsAssumption DEF StringsIInv, Reading, StringsTypeOK
<1>3. PICK p \in Nat, m \in Nat, from \in Nat :
        /\ p = ptr /\ m = given.max_chars /\ from = given.from /\ p \in 0 .. (m - 1)
        /\ m \in 1 .. (BufferSize - 1) /\ max_chars = m - p
  <2>1. ptr \in 0 .. (given.max_chars - 1)
    BY <1>2 DEF Stored
  <2>2. ptr \in Nat /\ given.max_chars \in Nat
    BY <1>2, <2>1
  <2> QED BY <1>2, <2>1, <2>2
<1>4. c \in Newlines \/ ~ (max_chars > 1)
  BY <1>1 DEF MoreToStore
<1>5. p \in 0 .. (BufferSize - 1) /\ p < m
  BY <1>2, <1>3
<1>6. StringsTypeOK'
  <2>1. buffer' \in [0 .. (BufferSize - 1) -> Bytes]
    <3>1. 0 \in Bytes
      BY DEF Bytes
    <3> QED BY <1>1, <1>2, <3>1
  <2> QED BY <1>1, <1>2, <2>1 DEF StringsTypeOK, Places
<1>7. LineRead'
  <2>1. \A k \in 1 .. p : k - 1 # p /\ k - 1 \in 0 .. (BufferSize - 1)
    BY <1>2, <1>3
  <2>2. \A k \in 1 .. p : buffer'[k - 1] = buffer[k - 1]
    BY <1>1, <1>2, <1>3, <2>1
  <2>3. Stored(p)'
    BY <1>1, <1>2, <1>3, <2>2 DEF Stored, Read
  <2>4. buffer'[p] = 0
    BY <1>1, <1>2, <1>3, <1>5
  <2>5. p = m - 1 \/ Read(p + 1)' \in Newlines
    <3>1. Read(p + 1)' = Read(p + 1)
      BY <1>1 DEF Read
    <3>2. ~ (max_chars > 1) => p = m - 1
      BY <1>3
    <3> QED BY <1>2, <1>3, <1>4, <3>1, <3>2
  <2> QED BY <1>1, <1>3, <2>3, <2>4, <2>5 DEF LineRead
<1>8. Reading' /\ Converting' /\ Reversing' /\ WrittenOut'
  BY <1>1, <1>2 DEF Reading, Converting, Reversing, WrittenOut
<1>9. InRoom
  <2>1. Room(given') = m
    BY <1>1, <1>2, <1>3 DEF Room
  <2>2. \A k \in DOMAIN buffer : k >= m => k # ptr
    BY <1>2, <1>3, <1>5
  <2>3. \A k \in DOMAIN buffer : k # ptr => buffer'[k] = buffer[k]
    BY <1>1, <1>2
  <2> QED BY <2>1, <2>2, <2>3 DEF InRoom
<1> QED BY <1>6, <1>7, <1>8, <1>9 DEF StringsIInv

-----------------------------------------------------------------------------
(* The digits in the buffer are no terminators.                            *)
LEMMA ListedFacts ==
  ASSUME NEW n \in Nat, Listed(n), StringsTypeOK, given.call = "uns_to_str"
  PROVE  /\ n \in 1 .. (BufferSize - 1) /\ given.val \in Nat /\ given.val < Tens[n] /\ buffer[n] = 0
         /\ given.val \in Values /\ given.val < Modulus
         /\ \A k \in 0 .. (n - 1) :
              /\ buffer[k] = DigitOf(given.val, n - 1 - k) + Zero /\ buffer[k] # 0
              /\ DigitOf(given.val, n - 1 - k) \in 0 .. 9
<1>1. /\ n \in 1 .. (BufferSize - 1) /\ given.val \in Nat /\ given.val \in Values /\ given.val < Modulus
  BY GivenFacts, StringsAssumption DEF Listed
<1>2. given.val < Tens[n] /\ buffer[n] = 0
  BY DEF Listed, Long
<1>3. ASSUME NEW k \in 0 .. (n - 1)
      PROVE  /\ buffer[k] = DigitOf(given.val, n - 1 - k) + Zero /\ buffer[k] # 0
             /\ DigitOf(given.val, n - 1 - k) \in 0 .. 9
  <2>1. n - 1 - k \in Nat
    OBVIOUS
  <2>2. DigitOf(given.val, n - 1 - k) \in 0 .. 9
    BY <1>1, <2>1, DigitFacts
  <2>3. buffer[k] = DigitOf(given.val, n - 1 - k) + Zero
    BY DEF Listed
  <2>4. buffer[k] # 0
    BY <2>2, <2>3 DEF Zero
  <2> QED BY <2>2, <2>3, <2>4
<1> QED BY <1>1, <1>2, <1>3

LEMMA PrintCalled == ASSUME StringsIInv, CallPrintString PROVE StringsIInv' /\ InRoom /\ Back
<1>1. /\ at = "program" /\ at' = "print_string" /\ given' = given /\ input' = input
      /\ ptr' = 0 /\ out' = <<>> /\ UNCHANGED <<buffer, pos, retval>>
  BY DEF CallPrintString, Call
<1>2. StringsTypeOK'
  BY <1>1 DEF StringsIInv, StringsTypeOK, Places
<1>3. LineRead'
  BY <1>1 DEF StringsIInv, LineRead, Stored, Read
<1>4. WrittenOut'
  <2> SUFFICES ASSUME given.call = "uns_to_str" PROVE WrittenOut'
    BY <1>1 DEF WrittenOut
  <2>1. PICK n \in Nat : Listed(n)
    BY <1>1 DEF StringsIInv, WrittenOut
  <2>2. Listed(n)'
    BY <1>1, <2>1 DEF Listed
  <2>3. ptr' \in 0 .. n /\ out' \in Seq(Int) /\ Len(out') = ptr'
    BY <1>1
  <2>4. \A k \in 1 .. ptr' : out'[k] = buffer'[k - 1]
    BY <1>1
  <2> QED BY <1>1, <2>2, <2>3, <2>4 DEF WrittenOut
<1> QED BY <1>1, <1>2, <1>3, <1>4 DEF StringsIInv, Reading, Converting, Reversing, InRoom, Back

LEMMA Printed == ASSUME StringsIInv, PrintString PROVE StringsIInv' /\ InRoom /\ Back
<1>1. /\ at = "print_string" /\ at' \in {"print_string", "program"} /\ given' = given /\ input' = input
      /\ UNCHANGED <<buffer, pos, retval>>
      /\ at' = "program" => buffer[ptr] = 0 /\ out' = out /\ ptr' = ptr
      /\ at' # "program" => buffer[ptr] # 0 /\ out' = Append(out, buffer[ptr]) /\ ptr' = ptr + 1
  BY DEF PrintString, Within
<1>2. StringsTypeOK'
  BY <1>1 DEF StringsIInv, StringsTypeOK, Places
<1>3. LineRead'
  BY <1>1 DEF StringsIInv, LineRead, Stored, Read
<1>4. WrittenOut' /\ Back
  <2> SUFFICES ASSUME given.call = "uns_to_str" PROVE WrittenOut' /\ Back
    BY <1>1 DEF WrittenOut, Back
  <2>1. PICK n \in Nat : /\ Listed(n) /\ ptr \in 0 .. n /\ out \in Seq(Int) /\ Len(out) = ptr
                         /\ \A k \in 1 .. ptr : out[k] = buffer[k - 1]
    BY <1>1 DEF StringsIInv, WrittenOut
  <2>2. PICK p \in Nat, v \in Nat : p = ptr /\ v = given.val
    <3>1. ptr \in Nat
      BY <2>1
    <3>2. given.val \in Nat
      BY <2>1, ListedFacts DEF StringsIInv
    <3> QED BY <3>1, <3>2
  <2>3. Listed(n)'
    BY <1>1, <2>1 DEF Listed
  <2>4. /\ n \in 1 .. (BufferSize - 1) /\ v < Tens[n] /\ buffer[n] = 0 /\ BufferSize \in Nat
        /\ \A k \in 0 .. (n - 1) : /\ buffer[k] = DigitOf(v, n - 1 - k) + Zero /\ buffer[k] # 0
                                   /\ DigitOf(v, n - 1 - k) \in 0 .. 9
    BY <2>1, <2>2, ListedFacts, StringsAssumption DEF StringsIInv
  <2>5. CASE at' = "program"
    <3>1. p = n
      BY <1>1, <2>1, <2>2, <2>4, <2>5
    <3>2. \A k \in 1 .. n : out[k] = DigitOf(v, n - k) + Zero
      <4> TAKE k \in 1 .. n
      <4>1. k - 1 \in 0 .. (n - 1) /\ n - 1 - (k - 1) = n - k
        OBVIOUS
      <4>2. out[k] = buffer[k - 1]
        BY <2>1, <2>2, <3>1
      <4> QED BY <2>4, <4>1, <4>2
    <3>3. Number(out) = v
      BY <2>1, <2>2, <2>4, <3>1, <3>2, NumberOfDigits
    <3> QED BY <1>1, <2>2, <2>3, <2>5, <3>3 DEF WrittenOut, Back
  <2>6. CASE at' # "program"
    <3>1. p < n
      BY <1>1, <2>1, <2>2, <2>4, <2>6
    <3>2. buffer[p] \in Int
      BY <2>4, <3>1 DEF Zero
    <3>3. ptr' = p + 1 /\ out' = Append(out, buffer[p])
      BY <1>1, <2>2, <2>6
    <3>4. /\ out' \in Seq(Int) /\ Len(out') = p + 1 /\ out'[p + 1] = buffer[p]
          /\ \A k \in 1 .. p : out'[k] = out[k]
      BY <2>1, <2>2, <3>2, <3>3, AppendProperties
    <3>5. \A k \in 1 .. (p + 1) : out'[k] = buffer[k - 1]
      <4> TAKE k \in 1 .. (p + 1)
      <4>1. CASE k \in 1 .. p
        BY <2>1, <2>2, <3>4, <4>1
      <4>2. CASE k = p + 1
        <5>1. k - 1 = p
          BY <4>2
        <5> QED BY <3>4, <4>2, <5>1
      <4> QED BY <4>1, <4>2
    <3>6. p + 1 \in 0 .. n
      BY <3>1
    <3> QED BY <1>1, <2>3, <2>6, <3>3, <3>4, <3>5, <3>6 DEF WrittenOut, Back
  <2> QED BY <2>5, <2>6
<1> QED BY <1>1, <1>2, <1>3, <1>4 DEF StringsIInv, Reading, Converting, Reversing, InRoom

(* What str_to_uns has is too small to be reduced.                         *)
LEMMA SmallMod == ASSUME NEW m \in Nat \ {0}, NEW x \in 0 .. (m - 1) PROVE x % m = x
  BY SMT

LEMMA ReadingBegun == ASSUME StringsIInv, CallStrToUns PROVE StringsIInv' /\ InRoom /\ Back
<1>1. /\ at = "program" /\ at' = "str_to_uns" /\ given' = given /\ input' = input
      /\ ptr' = 1 /\ val' = (buffer[0] - Zero) % Modulus /\ UNCHANGED <<buffer, pos, retval>>
  BY DEF CallStrToUns, Call, FirstDigit
<1>2. StringsTypeOK'
  BY <1>1 DEF StringsIInv, StringsTypeOK, Places
<1>3. LineRead'
  BY <1>1 DEF StringsIInv, LineRead, Stored, Read
<1>4. WrittenOut'
  <2> SUFFICES ASSUME given.call = "uns_to_str" PROVE WrittenOut'
    BY <1>1 DEF WrittenOut
  <2>1. PICK n \in Nat : Listed(n)
    BY <1>1 DEF StringsIInv, WrittenOut
  <2>2. Listed(n)'
    BY <1>1, <2>1 DEF Listed
  <2>3. PICK v \in Nat : v = given.val /\ v < Tens[n] /\ v < Modulus
    BY <2>1, ListedFacts DEF StringsIInv
  <2>4. n \in Nat \ {0} /\ 0 \in 0 .. (n - 1) /\ n - 1 - 0 = n - 1 /\ n - 1 \in Nat
    BY <2>1, ListedFacts, StringsAssumption DEF StringsIInv
  <2>5. PICK d \in 0 .. 9 : d = DigitOf(v, n - 1) /\ buffer[0] = d + Zero
    BY <2>1, <2>3, <2>4, ListedFacts DEF StringsIInv
  <2>6. v \div Tens[n - 1] = d /\ d <= v
    <3>1. (n - 1) + 1 = n
      BY <2>4
    <3>2. v \div Tens[n] = 0
      BY <2>3, DigitFacts
    <3>3. v \div Tens[n - 1] = 10 * 0 + d
      BY <2>4, <2>5, <3>1, <3>2, DigitFacts
    <3>4. v \div Tens[n - 1] <= v
      BY <2>4, DigitFacts
    <3> QED BY <3>3, <3>4
  <2>7. val' = v \div Tens[n - 1]
    <3>1. Modulus \in Nat \ {0} /\ d \in 0 .. (Modulus - 1)
      BY <2>3, <2>6, StringsAssumption
    <3>2. buffer[0] - Zero = d
      BY <2>5 DEF Zero
    <3> QED BY <1>1, <2>6, <3>1, <3>2, SmallMod
  <2> QED BY <1>1, <2>2, <2>3, <2>4, <2>7 DEF WrittenOut
<1> QED BY <1>1, <1>2, <1>3, <1>4 DEF StringsIInv, Reading, Converting, Reversing, InRoom, Back

LEMMA ReadOn == ASSUME StringsIInv, StrToUns PROVE StringsIInv' /\ InRoom /\ Back
<1>1. /\ at = "str_to_uns" /\ at' \in {"str_to_uns", "program"} /\ given' = given /\ input' = input
      /\ UNCHANGED <<buffer, pos, retval>>
      /\ at' = "program" => buffer[ptr] = 0 /\ val' = val /\ ptr' = ptr
      /\ at' # "program" => /\ buffer[ptr] # 0 /\ ptr' = ptr + 1
                            /\ val' = ((val * 10) + buffer[ptr] - Zero) % Modulus
  BY DEF StrToUns, Within, NextDigit
<1>2. StringsTypeOK'
  BY <1>1 DEF StringsIInv, StringsTypeOK, Places
<1>3. LineRead'
  BY <1>1 DEF StringsIInv, LineRead, Stored, Read
<1>4. WrittenOut' /\ Back
  <2> SUFFICES ASSUME given.call = "uns_to_str" PROVE WrittenOut' /\ Back
    BY <1>1 DEF WrittenOut, Back
  <2>1. PICK n \in Nat : Listed(n) /\ ptr \in 1 .. n /\ val = given.val \div Tens[n - ptr]
    BY <1>1 DEF StringsIInv, WrittenOut
  <2>2. PICK p \in Nat, v \in Nat : p = ptr /\ v = given.val
    <3>1. ptr \in Nat
      BY <2>1
    <3>2. given.val \in Nat
      BY <2>1, ListedFacts DEF StringsIInv
    <3> QED BY <3>1, <3>2
  <2>3. Listed(n)'
    BY <1>1, <2>1 DEF Listed
  <2>4. /\ n \in 1 .. (BufferSize - 1) /\ v < Modulus /\ buffer[n] = 0 /\ BufferSize \in Nat
        /\ \A k \in 0 .. (n - 1) : /\ buffer[k] = DigitOf(v, n - 1 - k) + Zero /\ buffer[k] # 0
                                   /\ DigitOf(v, n - 1 - k) \in 0 .. 9
    BY <2>1, <2>2, ListedFacts, StringsAssumption DEF StringsIInv
  <2>5. CASE at' = "program"
    <3>1. p = n
      BY <1>1, <2>1, <2>2, <2>4, <2>5
    <3>2. n - p = 0 /\ v \div 1 = v
      BY <3>1
    <3>3. val' = v
      BY <1>1, <2>1, <2>2, <2>5, <3>2, TensFacts
    <3> QED BY <1>1, <2>2, <2>3, <2>5, <3>3 DEF WrittenOut, Back
  <2>6. CASE at' # "program"
    <3>1. p < n
      BY <1>1, <2>1, <2>2, <2>4, <2>6
    <3>2. PICK l \in Nat : l = n - 1 - p
      BY <3>1
    <3>3. n - p = l + 1 /\ p \in 0 .. (n - 1) /\ n - (p + 1) = l /\ p + 1 \in 1 .. n /\ l + 1 \in Nat
      BY <3>1, <3>2
    <3>4. PICK d \in 0 .. 9 : d = DigitOf(v, l) /\ buffer[p] = d + 48
      BY <2>4, <3>2, <3>3 DEF Zero
    <3>5. PICK a \in Nat : a = v \div Tens[l + 1]
      BY <3>3, DigitFacts
    <3>6. PICK b \in Nat : b = v \div Tens[l] /\ b <= v
      BY DigitFacts
    <3>7. b = 10 * a + d
      BY <3>4, <3>5, <3>6, DigitFacts
    <3>8. val = a
      BY <2>1, <2>2, <3>3, <3>5
    <3>9. (a * 10) + (d + 48) - 48 = b
      BY <3>7
    <3>10. b % Modulus = b
      <4>1. Modulus \in Nat \ {0} /\ b \in 0 .. (Modulus - 1)
        BY <2>4, <3>6, StringsAssumption
      <4> QED BY <4>1, SmallMod
    <3>11. val' = b
      BY <1>1, <2>2, <2>6, <3>4, <3>8, <3>9, <3>10 DEF Zero
    <3>12. ptr' = p + 1
      BY <1>1, <2>2, <2>6
    <3> QED BY <1>1, <2>2, <2>3, <2>6, <3>3, <3>6, <3>11, <3>12 DEF WrittenOut, Back
  <2> QED BY <2>5, <2>6
<1> QED BY <1>1, <1>2, <1>3, <1>4 DEF StringsIInv, Reading, Converting, Reversing, InRoom

-----------------------------------------------------------------------------
(* Each number the program converts has a length, for which there is room. *)
LEMMA LongExists ==
  ASSUME NEW v \in Values
  PROVE  \E n \in 1 .. (BufferSize - 1) : Long(v, n)
<1>1. v \in Nat /\ v < Tens[BufferSize - 1] /\ BufferSize - 1 \in Nat \ {0}
  BY StringsAssumption
<1> DEFINE S == {n \in Nat \ {0} : v < Tens[n]}
<1>2. S \in SUBSET Nat /\ BufferSize - 1 \in S
  BY <1>1
<1>3. PICK n \in S : \A m \in S : n <= m
  BY <1>2, LeastOfSet
<1>4. n \in 1 .. (BufferSize - 1)
  <2>1. n \in Nat \ {0}
    OBVIOUS
  <2>2. n <= BufferSize - 1
    BY <1>2, <1>3
  <2> QED BY <1>1, <2>1, <2>2
<1>5. n # 1 => v >= Tens[n - 1]
  <2> SUFFICES ASSUME n # 1 PROVE v >= Tens[n - 1]
    OBVIOUS
  <2>1. n - 1 \in Nat \ {0} /\ ~ (n <= n - 1)
    BY <1>4
  <2>2. n - 1 \notin S
    BY <1>3, <2>1
  <2>3. Tens[n - 1] \in Nat /\ ~ (v < Tens[n - 1])
    BY <2>1, <2>2, TensFacts
  <2> QED BY <1>1, <2>3
<1> QED BY <1>3, <1>4, <1>5 DEF Long

LEMMA RoomForDigits ==
  ASSUME NEW arguments \in UnsCalls, NEW n \in 1 .. (BufferSize - 1), Long(arguments.val, n)
  PROVE  Room(arguments) = 1 + n
<1>1. arguments.call = "uns_to_str" /\ arguments.val \in Nat /\ BufferSize \in Nat
  <2>1. arguments.call = "uns_to_str" /\ arguments.val \in Values
    BY DEF UnsCalls
  <2>2. PICK v \in Values : v = arguments.val
    BY <2>1
  <2>3. v \in Nat
    BY StringsAssumption
  <2> QED BY <2>1, <2>2, <2>3, StringsAssumption
<1> DEFINE m == CHOOSE m \in 1 .. (BufferSize - 1) : Long(arguments.val, m)
<1>2. m \in 1 .. (BufferSize - 1) /\ Long(arguments.val, m)
  OBVIOUS
<1>3. Room(arguments) = 1 + m
  BY <1>1 DEF Room
<1> HIDE DEF m
<1>4. m = n
  BY <1>1, <1>2, LongUnique
<1> QED BY <1>3, <1>4

(* A write at a place before the end of its room.                          *)
LEMMA WriteInRoom ==
  ASSUME StringsTypeOK, NEW n \in Nat, Room(given') = 1 + n, NEW p \in Nat, p <= n,
         \A k \in DOMAIN buffer : k # p => buffer'[k] = buffer[k]
  PROVE  InRoom
<1>1. \A k \in DOMAIN buffer : k >= 1 + n => k # p
  <2>1. DOMAIN buffer \subseteq Nat
    BY StringsAssumption DEF StringsTypeOK
  <2> QED BY <2>1
<1> QED BY <1>1 DEF InRoom

LEMMA ConversionCalled == ASSUME StringsIInv, CallUnsToStr PROVE StringsIInv' /\ InRoom /\ Back
<1>1. PICK v \in Values :
        /\ at = "program" /\ at' = (IF v = 0 THEN "program" ELSE "digits")
        /\ given' = [call |-> "uns_to_str", val |-> v] /\ input' = input
        /\ IF v = 0 THEN buffer' = [buffer EXCEPT ![0] = Zero, ![1] = 0] /\ retval' = 1
                    ELSE UNCHANGED buffer
        /\ ptr' = 0 /\ low' = 0 /\ val' = v /\ pos' = pos
  BY DEF CallUnsToStr, Call
<1>2. /\ StringsTypeOK /\ buffer \in [0 .. (BufferSize - 1) -> Bytes] /\ v \in Nat
      /\ BufferSize \in Nat /\ BufferSize >= 2
  BY StringsAssumption DEF StringsIInv, StringsTypeOK
<1>3. given' \in UnsCalls /\ given'.call = "uns_to_str" /\ given'.val = v
  BY <1>1 DEF UnsCalls
<1>4. StringsTypeOK'
  <2>1. buffer' \in [0 .. (BufferSize - 1) -> Bytes]
    <3>1. Zero \in Bytes /\ 0 \in Bytes
      BY DEF Zero, Bytes
    <3> QED BY <1>1, <1>2, <3>1
  <2>2. at' \in Places
    BY <1>1 DEF Places
  <2> QED BY <1>1, <1>2, <1>3, <2>1, <2>2 DEF StringsTypeOK
<1>5. Reading' /\ LineRead' /\ Reversing' /\ Back
  BY <1>1, <1>3 DEF Reading, LineRead, Reversing, Back
<1>6. CASE v = 0
  <2>1. at' = "program" /\ buffer' = [buffer EXCEPT ![0] = Zero, ![1] = 0] /\ retval' = 1
    BY <1>1, <1>6
  <2>2. buffer'[0] = Zero /\ buffer'[1] = 0
    BY <1>2, <2>1
  <2>3. Long(0, 1)
    <3>1. Tens[0 + 1] = 10 * 1
      BY TensFacts
    <3> QED BY <3>1 DEF Long
  <2>4. DigitOf(0, 0) = 0
    <3>1. 0 \div 1 = 0 /\ 0 % 10 = 0
      BY SMT
    <3> QED BY <3>1, TensFacts DEF DigitOf
  <2>5. Listed(1)'
    <3>1. \A k \in 0 .. (1 - 1) : k = 0 /\ 1 - 1 - 0 = 0
      BY SMT
    <3>2. DigitOf(0, 0) + Zero = Zero
      BY <2>4 DEF Zero
    <3> QED BY <1>2, <1>3, <1>6, <2>1, <2>2, <2>3, <3>1, <3>2 DEF Listed
  <2>6. WrittenOut' /\ Converting'
    BY <2>1, <2>5 DEF WrittenOut, Converting
  <2>7. InRoom
    <3>1. Room(given') = 1 + 1
      <4>1. \A arguments \in UnsCalls, n \in 1 .. (BufferSize - 1) :
              Long(arguments.val, n) => Room(arguments) = 1 + n
        BY RoomForDigits
      <4> QED BY <1>2, <1>3, <1>6, <2>3, <4>1
    <3>2. \A k \in DOMAIN buffer : k >= 2 => k # 0 /\ k # 1
      BY <1>2
    <3> QED BY <2>1, <3>1, <3>2 DEF InRoom
  <2> QED BY <1>4, <1>5, <2>6, <2>7 DEF StringsIInv
<1>7. CASE v # 0
  <2>1. at' = "digits" /\ buffer' = buffer
    BY <1>1, <1>7
  <2>2. v \div 1 = v
    BY <1>2
  <2>3. Converting'
    BY <1>1, <1>2, <1>3, <1>7, <2>1, <2>2, TensFacts DEF Converting
  <2>4. WrittenOut'
    BY <2>1 DEF WrittenOut
  <2> QED BY <1>4, <1>5, <2>1, <2>3, <2>4 DEF StringsIInv, InRoom
<1> QED BY <1>6, <1>7

LEMMA DigitSplitOff == ASSUME StringsIInv, Digit PROVE StringsIInv' /\ InRoom /\ Back
<1>1. /\ at = "digits" /\ at' = at /\ given' = given /\ input' = input /\ val # 0
      /\ buffer' = [buffer EXCEPT ![ptr] = (val % 10) + Zero]
      /\ val' = val \div 10 /\ ptr' = ptr + 1 /\ low' = low /\ pos' = pos
  BY DEF Digit, Within
<1>2. /\ StringsTypeOK /\ given.call = "uns_to_str" /\ ptr \in 0 .. (BufferSize - 1) /\ low = 0
      /\ given.val > 0 /\ val = given.val \div Tens[ptr] /\ BufferSize \in Nat
      /\ \A k \in 0 .. (ptr - 1) : buffer[k] = DigitOf(given.val, k) + Zero
      /\ buffer \in [0 .. (BufferSize - 1) -> Bytes]
  BY <1>1, StringsAssumption DEF StringsIInv, Converting, StringsTypeOK
<1>3. PICK p \in Nat : p = ptr
  BY <1>2
<1>4. PICK v \in Values : v = given.val /\ v \in Nat
  BY <1>2, GivenFacts, StringsAssumption
<1>5. PICK n \in 1 .. (BufferSize - 1) : Long(v, n)
  BY LongExists
<1>6. v >= Tens[p] /\ Tens[p] \in Nat
  <2>1. v \div Tens[p] # 0
    BY <1>1, <1>2, <1>3, <1>4
  <2>2. ~ (v < Tens[p]) /\ Tens[p] \in Nat
    BY <2>1, <1>4, DigitFacts, TensFacts
  <2> QED BY <2>2, <1>4
<1>7. p < n
  <2>0. n \in Nat /\ v < Tens[n]
    BY <1>2, <1>5 DEF Long
  <2>1. n \in Nat /\ Tens[n] \in Nat /\ v < Tens[n]
    BY <2>0, TensFacts
  <2>2. n <= p => Tens[n] <= Tens[p]
    BY <2>1, TensGrow
  <2> QED BY <1>4, <1>6, <2>1, <2>2
<1>8. (val % 10) + Zero = DigitOf(v, p) + Zero /\ (val % 10) + Zero \in Bytes
  <2>1. DigitOf(v, p) \in 0 .. 9
    BY <1>4, DigitFacts
  <2>2. val % 10 = DigitOf(v, p)
    BY <1>2, <1>3, <1>4 DEF DigitOf
  <2>3. DigitOf(v, p) + Zero \in Bytes
    BY <2>1 DEF Zero, Bytes
  <2> QED BY <2>2, <2>3
<1>9. p \in 0 .. (BufferSize - 1) /\ p + 1 \in 0 .. (BufferSize - 1)
  BY <1>2, <1>5, <1>7
<1>10. StringsTypeOK'
  <2>1. buffer' \in [0 .. (BufferSize - 1) -> Bytes]
    BY <1>1, <1>2, <1>8
  <2> QED BY <1>1, <1>2, <2>1 DEF StringsTypeOK
<1>11. Converting'
  <2>1. val' = v \div Tens[p + 1]
    BY <1>1, <1>2, <1>3, <1>4, DigitFacts
  <2>2. \A k \in 0 .. ((p + 1) - 1) : buffer'[k] = DigitOf(v, k) + Zero
    <3> TAKE k \in 0 .. ((p + 1) - 1)
    <3>1. CASE k = p
      BY <1>1, <1>2, <1>3, <1>8, <1>9, <3>1
    <3>2. CASE k \in 0 .. (p - 1)
      <4>1. k # p /\ k \in 0 .. (BufferSize - 1)
        BY <1>2, <1>9, <3>2
      <4>2. buffer'[k] = buffer[k]
        BY <1>1, <1>2, <1>3, <4>1
      <4> QED BY <1>2, <1>3, <1>4, <3>2, <4>2
    <3> QED BY <3>1, <3>2
  <2>3. ptr' = p + 1 /\ (p + 1) - 1 = p
    BY <1>1, <1>3
  <2> QED BY <1>1, <1>2, <1>4, <1>6, <1>9, <2>1, <2>2, <2>3 DEF Converting
<1>12. InRoom
  <2>1. Room(given') = 1 + n
    BY <1>1, <1>2, <1>4, <1>5, RoomForDigits, GivenFacts
  <2>2. \A k \in DOMAIN buffer : k # p => buffer'[k] = buffer[k]
    BY <1>1, <1>2, <1>3
  <2>3. n \in Nat /\ p <= n
    BY <1>2, <1>5, <1>7
  <2> QED BY <1>2, <2>1, <2>2, <2>3, WriteInRoom
<1>13. Reading' /\ LineRead' /\ Reversing' /\ WrittenOut' /\ Back
  BY <1>1, <1>2 DEF Reading, LineRead, Reversing, WrittenOut, Back
<1> QED BY <1>10, <1>11, <1>12, <1>13 DEF StringsIInv

LEMMA DigitsDone == ASSUME StringsIInv, LastDigit PROVE StringsIInv' /\ InRoom /\ Back
<1>1. /\ at = "digits" /\ at' = "reverse" /\ given' = given /\ input' = input /\ val = 0
      /\ buffer' = [buffer EXCEPT ![ptr] = 0]
      /\ ptr' = ptr - 1 /\ low' = low /\ pos' = pos /\ retval' = ptr - 1
  BY DEF LastDigit, Within
<1>2. /\ StringsTypeOK /\ given.call = "uns_to_str" /\ ptr \in 0 .. (BufferSize - 1) /\ low = 0
      /\ given.val > 0 /\ val = given.val \div Tens[ptr] /\ BufferSize \in Nat
      /\ ptr > 0 => given.val >= Tens[ptr - 1]
      /\ \A k \in 0 .. (ptr - 1) : buffer[k] = DigitOf(given.val, k) + Zero
      /\ buffer \in [0 .. (BufferSize - 1) -> Bytes]
  BY <1>1, StringsAssumption DEF StringsIInv, Converting, StringsTypeOK
<1>3. PICK n \in Nat : n = ptr
  BY <1>2
<1>4. PICK v \in Values : v = given.val /\ v \in Nat
  BY <1>2, GivenFacts, StringsAssumption
<1>5. v < Tens[n]
  BY <1>1, <1>2, <1>3, <1>4, DigitFacts
<1>6. n # 0
  <2>1. v > 0
    BY <1>2, <1>4
  <2>2. ~ (v < 1)
    BY <1>4, <2>1
  <2> QED BY <1>5, <2>2, TensFacts
<1>7. Long(v, n) /\ n \in 1 .. (BufferSize - 1)
  BY <1>2, <1>3, <1>4, <1>5, <1>6 DEF Long
<1>8. StringsTypeOK'
  <2>1. buffer' \in [0 .. (BufferSize - 1) -> Bytes]
    BY <1>1, <1>2 DEF Bytes
  <2> QED BY <1>1, <1>2, <2>1 DEF StringsTypeOK, Places
<1>9. Reversing'
  <2>1. buffer'[n] = 0
    BY <1>1, <1>2, <1>3
  <2>2. ptr' = n - 1 /\ ptr' \in Nat /\ low' = 0 /\ low' + ptr' = n - 1 /\ low' <= ptr' + 1
        /\ retval' = n - 1 /\ given.val # 0
    BY <1>1, <1>2, <1>3, <1>4, <1>6
  <2>3. \A k \in 0 .. (n - 1) :
          buffer'[k] = DigitOf(v, IF low' <= k /\ k <= ptr' THEN k ELSE n - 1 - k) + Zero
    <3> TAKE k \in 0 .. (n - 1)
    <3>1. k # n /\ k \in 0 .. (BufferSize - 1) /\ low' <= k /\ k <= ptr'
      BY <1>2, <1>7, <2>2
    <3>2. buffer'[k] = buffer[k]
      BY <1>1, <1>2, <1>3, <3>1
    <3> QED BY <1>2, <1>3, <1>4, <3>1, <3>2
  <2> QED BY <1>1, <1>2, <1>4, <1>7, <2>1, <2>2, <2>3 DEF Reversing
<1>10. InRoom
  <2>1. Room(given') = 1 + n
    BY <1>1, <1>2, <1>4, <1>7, RoomForDigits, GivenFacts
  <2>2. \A k \in DOMAIN buffer : k # n => buffer'[k] = buffer[k]
    BY <1>1, <1>2, <1>3
  <2> QED BY <1>2, <2>1, <2>2, WriteInRoom
<1>11. Reading' /\ LineRead' /\ Converting' /\ WrittenOut' /\ Back
  BY <1>1, <1>2 DEF Reading, LineRead, Converting, WrittenOut, Back
<1> QED BY <1>8, <1>9, <1>10, <1>11 DEF StringsIInv

LEMMA DigitsSwapped == ASSUME StringsIInv, Swap PROVE StringsIInv' /\ InRoom /\ Back
<1>1. /\ at = "reverse" /\ given' = given /\ input' = input /\ pos' = pos /\ retval' = retval
      /\ ptr > low => /\ buffer' = [buffer EXCEPT ![ptr] = buffer[low], ![low] = buffer[ptr]]
                      /\ ptr' = ptr - 1 /\ low' = low + 1 /\ at' = "reverse"
      /\ ~ (ptr > low) => at' = "program" /\ buffer' = buffer
  BY DEF Swap, Within, MoreToSwap
<1>2. /\ StringsTypeOK /\ given.call = "uns_to_str" /\ BufferSize \in Nat
      /\ buffer \in [0 .. (BufferSize - 1) -> Bytes]
  BY <1>1, StringsAssumption DEF StringsIInv, Reversing, StringsTypeOK
<1>3. PICK n \in 1 .. (BufferSize - 1) :
        /\ Long(given.val, n) /\ buffer[n] = 0 /\ retval = n - 1 /\ given.val # 0
        /\ low \in Nat /\ ptr \in Nat /\ low + ptr = n - 1 /\ low <= ptr + 1
        /\ \A k \in 0 .. (n - 1) :
             buffer[k] = DigitOf(given.val, IF low <= k /\ k <= ptr THEN k ELSE n - 1 - k) + Zero
  BY <1>1 DEF StringsIInv, Reversing
<1>4. PICK v \in Values : v = given.val
  BY <1>2, GivenFacts
<1>5. PICK l \in Nat : l = low
  BY <1>3
<1>6. PICK p \in Nat : p = ptr
  BY <1>3
<1>7. l + p = n - 1 /\ l <= p + 1 /\ n \in Nat /\ n <= BufferSize - 1
  BY <1>2, <1>3, <1>5, <1>6
<1>8. \A k \in 0 .. (n - 1) :
        buffer[k] = DigitOf(v, IF l <= k /\ k <= p THEN k ELSE n - 1 - k) + Zero
  BY <1>3, <1>4, <1>5, <1>6
<1>9. CASE p > l
  <2>1. /\ buffer' = [buffer EXCEPT ![p] = buffer[l], ![l] = buffer[p]]
        /\ ptr' = p - 1 /\ low' = l + 1 /\ at' = "reverse"
    BY <1>1, <1>5, <1>6, <1>9
  <2>2. p \in 0 .. (n - 1) /\ l \in 0 .. (n - 1) /\ p # l /\ p < n /\ l < n
    BY <1>7, <1>9
  <2>3. p \in 0 .. (BufferSize - 1) /\ l \in 0 .. (BufferSize - 1) /\ n \in 0 .. (BufferSize - 1)
    BY <1>2, <1>7, <2>2
  <2>4. /\ buffer'[p] = buffer[l] /\ buffer'[l] = buffer[p]
        /\ \A k \in 0 .. (BufferSize - 1) : k # p /\ k # l => buffer'[k] = buffer[k]
        /\ buffer' \in [0 .. (BufferSize - 1) -> Bytes]
    BY <1>2, <2>1, <2>2, <2>3
  <2>5. StringsTypeOK'
    BY <1>1, <1>2, <2>1, <2>4 DEF StringsTypeOK, Places
  <2>6. Reversing'
    <3>1. /\ l + 1 \in Nat /\ p - 1 \in Nat /\ (l + 1) + (p - 1) = n - 1 /\ l + 1 <= (p - 1) + 1
      BY <1>7, <1>9
    <3>2. buffer'[n] = 0
      BY <1>3, <2>2, <2>3, <2>4
    <3>3. ASSUME NEW k \in 0 .. (n - 1)
          PROVE  buffer'[k] = DigitOf(v, IF l + 1 <= k /\ k <= p - 1 THEN k ELSE n - 1 - k) + Zero
      <4>1. CASE k = p
        <5>1. ~ (k <= p - 1) /\ n - 1 - k = l
          BY <1>7, <4>1
        <5>2. buffer'[k] = buffer[l]
          BY <2>4, <4>1
        <5>3. l <= l /\ l <= p
          BY <1>9
        <5> QED BY <1>8, <2>2, <5>1, <5>2, <5>3
      <4>2. CASE k = l
        <5>1. ~ (l + 1 <= k) /\ n - 1 - k = p
          BY <1>7, <4>2
        <5>2. buffer'[k] = buffer[p]
          BY <2>4, <4>2
        <5>3. l <= p /\ p <= p
          BY <1>9
        <5> QED BY <1>8, <2>2, <5>1, <5>2, <5>3
      <4>3. CASE k # p /\ k # l
        <5>1. k \in 0 .. (BufferSize - 1)
          BY <1>2, <1>7
        <5>2. buffer'[k] = buffer[k]
          BY <2>4, <4>3, <5>1
        <5>3. (l + 1 <= k /\ k <= p - 1) <=> (l <= k /\ k <= p)
          BY <4>3
        <5>4. CASE l <= k /\ k <= p
          <6>1. buffer[k] = DigitOf(v, k) + Zero
            BY <1>8, <5>4
          <6> QED BY <5>2, <5>3, <5>4, <6>1
        <5>5. CASE ~ (l <= k /\ k <= p)
          <6>1. PICK x : x = DigitOf(v, n - 1 - k) + Zero
            OBVIOUS
          <6>2. buffer[k] = x
            BY <1>8, <5>5, <6>1
          <6>3. (IF l + 1 <= k /\ k <= p - 1 THEN k ELSE n - 1 - k) = n - 1 - k
            BY <5>3, <5>5
          <6> QED BY <5>2, <6>1, <6>2, <6>3
        <5> QED BY <5>4, <5>5
      <4> QED BY <4>1, <4>2, <4>3
    <3>4. \A k \in 0 .. (n - 1) :
            buffer'[k] = DigitOf(given'.val, IF low' <= k /\ k <= ptr' THEN k ELSE n - 1 - k) + Zero
      BY <1>1, <1>4, <2>1, <3>3
    <3>5. /\ given'.call = "uns_to_str" /\ Long(given'.val, n) /\ given'.val # 0 /\ retval' = n - 1
          /\ low' \in Nat /\ ptr' \in Nat /\ low' + ptr' = n - 1 /\ low' <= ptr' + 1
      BY <1>1, <1>2, <1>3, <2>1, <3>1
    <3> QED BY <3>2, <3>4, <3>5 DEF Reversing
  <2>7. InRoom
    <3>1. Room(given') = 1 + n
      BY <1>1, <1>2, <1>3, RoomForDigits, GivenFacts
    <3>2. \A k \in DOMAIN buffer : k >= 1 + n => k # p /\ k # l /\ k \in 0 .. (BufferSize - 1)
      BY <1>2, <1>7, <2>2
    <3> QED BY <2>4, <3>1, <3>2 DEF InRoom
  <2> QED BY <1>1, <1>2, <2>1, <2>5, <2>6, <2>7
          DEF StringsIInv, Reading, LineRead, Converting, WrittenOut, Back
<1>10. CASE ~ (p > l)
  <2>1. at' = "program" /\ buffer' = buffer
    BY <1>1, <1>5, <1>6, <1>10
  <2>2. Listed(n)'
    <3>1. ASSUME NEW k \in 0 .. (n - 1) PROVE buffer[k] = DigitOf(v, n - 1 - k) + Zero
      <4>1. l <= k /\ k <= p => k = n - 1 - k
        BY <1>7, <1>10
      <4> QED BY <1>8, <4>1
    <3> QED BY <1>1, <1>3, <1>4, <2>1, <3>1 DEF Listed
  <2>3. StringsTypeOK'
    BY <1>1, <1>2, <2>1 DEF StringsTypeOK, Places
  <2>4. WrittenOut'
    BY <1>7, <2>1, <2>2 DEF WrittenOut
  <2> QED BY <1>1, <1>2, <2>1, <2>3, <2>4
          DEF StringsIInv, Reading, LineRead, Converting, Reversing, InRoom, Back
<1> QED BY <1>9, <1>10

-----------------------------------------------------------------------------
LEMMA StringsStep ==
  ASSUME StringsIInv, [StringsNext]_strings_vars
  PROVE  StringsIInv' /\ (StringsNext => InRoom /\ Back)
<1>1. CallReadString \/ ReadChar \/ EndReadString => StringsIInv' /\ InRoom
  BY LineCalled, CharRead, LineEnded
<1>2. CallReadString \/ ReadChar \/ EndReadString => Back
  BY DEF CallReadString, ReadChar, EndReadString, Call, Within, Back
<1>3. CallPrintString \/ PrintString => StringsIInv' /\ InRoom /\ Back
  BY PrintCalled, Printed
<1>4. CallStrToUns \/ StrToUns => StringsIInv' /\ InRoom /\ Back
  BY ReadingBegun, ReadOn
<1>5. CallUnsToStr \/ Digit \/ LastDigit \/ Swap => StringsIInv' /\ InRoom /\ Back
  BY ConversionCalled, DigitSplitOff, DigitsDone, DigitsSwapped
<1>6. UNCHANGED strings_vars => StringsIInv'
  BY StringsStutter
<1> QED BY <1>1, <1>2, <1>3, <1>4, <1>5, <1>6 DEF StringsNext

LEMMA StringsInvariant == StringsSpec => []StringsIInv
  BY StringsInitial, StringsStep, PTL DEF StringsSpec

(* read_string leaves the input it took in the buffer, up to the end of    *)
(* the line or of the room, and loses one character with each call         *)
(* (lib.c:91-100).                                                         *)
THEOREM LinesRead == StringsSpec => []LinesArrive
<1>1. StringsIInv => LinesArrive
  <2> SUFFICES ASSUME StringsIInv, given.call = "read_string", at = "program" PROVE LinesArrive
    BY DEF LinesArrive
  <2>1. PICK n \in Nat : /\ Stored(n) /\ buffer[n] = 0
                         /\ n = given.max_chars - 1 \/ Read(n + 1) \in Newlines
    BY DEF StringsIInv, LineRead
  <2>2. given.from \in Nat /\ pos = given.from + n + 1
    BY <2>1, GivenFacts DEF StringsIInv, Stored
  <2>3. pos - given.from - 1 = n
    BY <2>2
  <2> QED BY <2>1, <2>3 DEF LinesArrive, Stored, Read
<1> QED BY <1>1, StringsInvariant, PTL

(* uns_to_str leaves the decimal digits of its argument, and no zero in    *)
(* front of them, and returns one less than their number, or 1 for the     *)
(* number 0 (lib.c:112-135).                                               *)
THEOREM DigitsWritten == StringsSpec => []DecimalDigits
<1>1. StringsIInv => DecimalDigits
  <2> SUFFICES ASSUME StringsIInv, given.call = "uns_to_str", at = "program" PROVE DecimalDigits
    BY DEF DecimalDigits
  <2>1. PICK n \in Nat : Listed(n)
    BY DEF StringsIInv, WrittenOut
  <2>2. PICK v \in Nat : v = given.val /\ v < Tens[n]
    BY <2>1, ListedFacts DEF StringsIInv
  <2>3. /\ n \in 1 .. (BufferSize - 1) /\ BufferSize \in Nat /\ DOMAIN buffer = 0 .. (BufferSize - 1)
        /\ buffer[n] = 0
        /\ \A k \in 0 .. (n - 1) : /\ buffer[k] = DigitOf(v, n - 1 - k) + Zero /\ buffer[k] # 0
                                   /\ DigitOf(v, n - 1 - k) \in 0 .. 9
    BY <2>1, <2>2, ListedFacts, StringsAssumption DEF StringsIInv, StringsTypeOK
  <2>4. StrLen = n
    <3>1. n \in DOMAIN buffer /\ buffer[n] = 0 /\ \A k \in 0 .. (n - 1) : buffer[k] # 0
      BY <2>3
    <3>2. ASSUME NEW m \in DOMAIN buffer, buffer[m] = 0, \A k \in 0 .. (m - 1) : buffer[k] # 0
          PROVE  m = n
      <4>1. m \in Nat /\ n \in Nat
        BY <2>3
      <4>2. ~ (m < n)
        BY <2>3, <3>2, <4>1
      <4>3. ~ (n < m)
        BY <3>1, <3>2, <4>1
      <4> QED BY <4>1, <4>2, <4>3
    <3> QED BY <3>1, <3>2 DEF StrLen
  <2>5. String = [k \in 1 .. n |-> buffer[k - 1]]
    BY <2>4 DEF String
  <2>6. String \in Seq(Int) /\ Len(String) = n
    <3>1. \A k \in 1 .. n : buffer[k - 1] \in Int
      <4> TAKE k \in 1 .. n
      <4>1. k - 1 \in 0 .. (n - 1)
        OBVIOUS
      <4>2. PICK d \in 0 .. 9 : buffer[k - 1] = d + Zero
        BY <2>3, <4>1
      <4> QED BY <4>2 DEF Zero
    <3>2. String \in [1 .. n -> Int]
      BY <2>5, <3>1
    <3> QED BY <2>5, <3>2
  <2>7. \A k \in 1 .. n : String[k] = DigitOf(v, n - k) + Zero
    <3> TAKE k \in 1 .. n
    <3>1. k - 1 \in 0 .. (n - 1) /\ n - 1 - (k - 1) = n - k
      OBVIOUS
    <3> QED BY <2>3, <2>5, <3>1
  <2>10. \A k \in 1 .. Len(String) : String[k] \in Zero .. (Zero + 9)
    <3> TAKE k \in 1 .. Len(String)
    <3>1. k - 1 \in 0 .. (n - 1) /\ k \in 1 .. n
      BY <2>6
    <3>2. PICK d \in 0 .. 9 : String[k] = d + Zero
      BY <2>3, <2>5, <3>1
    <3> QED BY <3>2 DEF Zero
  <2>11. retval = IF given.val = 0 THEN 1 ELSE StrLen - 1
    BY <2>1, <2>4 DEF Listed
  <2>8. Number(String) = v
    BY <2>2, <2>6, <2>7, NumberOfDigits
  <2>9. n # 1 => buffer[0] # Zero
    <3> SUFFICES ASSUME n # 1 PROVE buffer[0] # Zero
      OBVIOUS
    <3>1. n - 1 \in Nat /\ n - 1 - 0 = n - 1 /\ 0 \in 0 .. (n - 1) /\ (n - 1) + 1 = n
      BY <2>3
    <3>2. v >= Tens[n - 1] /\ Tens[n - 1] \in Nat
      BY <2>1, <2>2, <3>1, TensFacts DEF Listed, Long
    <3>3. v \div Tens[n - 1] # 0 /\ v \div Tens[n] = 0
      <4>1. v \div Tens[n - 1] # 0
        <5>1. ~ (v < Tens[n - 1])
          BY <3>2
        <5> QED BY <3>1, <5>1, DigitFacts
      <4>2. v \div Tens[n] = 0
        BY <2>2, <3>1, DigitFacts
      <4> QED BY <4>1, <4>2
    <3>4. v \div Tens[n - 1] = 10 * (v \div Tens[n]) + DigitOf(v, n - 1)
      BY <3>1, DigitFacts
    <3>5. PICK d \in 0 .. 9 : d = DigitOf(v, n - 1) /\ buffer[0] = d + Zero
      BY <2>3, <3>1
    <3>6. d # 0
      BY <3>3, <3>4, <3>5
    <3> QED BY <3>5, <3>6 DEF Zero
  <2> QED BY <2>2, <2>4, <2>8, <2>9, <2>10, <2>11 DEF DecimalDigits
<1> QED BY <1>1, StringsInvariant, PTL

(* str_to_uns returns, and print_string prints, the number that uns_to_str *)
(* wrote (lib.c:87-89, 104-110).                                           *)
THEOREM NumbersReadBack == StringsSpec => ReadBack
<1>1. StringsIInv /\ [StringsNext]_strings_vars =>
        [given.call = "uns_to_str" /\ at' = "program" =>
           /\ at = "str_to_uns" => val' = given.val
           /\ at = "print_string" => Number(out) = given.val]_strings_vars
  BY StringsStep DEF Back
<1> QED BY <1>1, StringsInvariant, PTL DEF StringsSpec, ReadBack

(* No function writes beyond the room it was given or needs (lib.c:94-99,  *)
(* 113-131).                                                               *)
THEOREM WritesInRoom == StringsSpec => StaysInBuffer
<1>1. StringsIInv /\ [StringsNext]_strings_vars =>
        [buffer' # buffer =>
           \A k \in DOMAIN buffer : k >= Room(given') => buffer'[k] = buffer[k]]_strings_vars
  BY StringsStep DEF InRoom
<1> QED BY <1>1, StringsInvariant, PTL DEF StringsSpec, StaysInBuffer

=============================================================================
