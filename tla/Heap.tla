-------------------------------- MODULE Heap --------------------------------
(***************************************************************************)
(* allocate and release of "src/predictor benchmarks/lib.c", the heap of   *)
(* the simulated programs, and a program that uses it.                     *)
(*                                                                         *)
(* word holds the words of the heap area.  The first word of a block is    *)
(* the allocator's: the block's size while the program has the block, the  *)
(* link of a free list otherwise.  Whatever else is in the area belongs to *)
(* the program.  Addresses do not wrap around; the size of a request may.  *)
(***************************************************************************)
EXTENDS FiniteSetsExt, Functions

CONSTANTS
  IntSize,          \* sizeof(int) and of a pointer; 4
  BLOCK_SIZE_STEP,  \* 8
  INT_MAX,          \* 2^31 - 1
  NUM_SIZES,        \* 512
  MIN_ALLOCATION,   \* 100
  ChunkBlocks,      \* blocks in a chunk that is large enough; 10
  HeapStart,        \* 0x2000000
  HeapLimit,        \* bound on free_space
  Requests,         \* sizes the program asks for
  Scribble          \* what it writes into its blocks

ASSUME HeapAssumption ==
  /\ IntSize \in Nat \ {0} /\ BLOCK_SIZE_STEP \in Nat \ {0}
  /\ BLOCK_SIZE_STEP % IntSize = 0
  /\ NUM_SIZES \in Nat \ {0} /\ MIN_ALLOCATION \in Nat /\ ChunkBlocks \in Nat \ {0}
  /\ HeapStart \in Nat \ {0} /\ HeapStart % IntSize = 0
  /\ HeapLimit \in Nat /\ HeapLimit >= HeapStart
  /\ INT_MAX \in Nat /\ IntSize + BLOCK_SIZE_STEP <= INT_MAX
  /\ \A request \in Requests : request \in Int /\ request <= INT_MAX

NULL == 0

VARIABLES
  small_block_headers,  \* first block of each free list
  free_space,           \* end of the chunks so far
  word,                 \* the words of the area, by address
  live,                 \* history: the blocks the program has, pointer -> size asked for
  astray                \* history: whether a list outside of the array was used

vars == <<small_block_headers, free_space, word, live, astray>>

Class == 0 .. (NUM_SIZES - 1)
Words == {a \in HeapStart .. (HeapLimit - 1) : a % IntSize = 0}

(* A sum of two sizes in an int.                                           *)
Wrap(sum) == IF sum > INT_MAX THEN sum - 2 * (INT_MAX + 1) ELSE sum

(* The request with room for its size, rounded up: either sum may wrap to  *)
(* a negative size.                                                        *)
BlockSize(size) ==
  LET room   == Wrap(size + IntSize)
      offset == room % BLOCK_SIZE_STEP
  IN  IF offset = 0 THEN room ELSE Wrap(room - offset + BLOCK_SIZE_STEP)

(* BLOCK_SIZE_STEP divides size, so it does not matter where / rounds to.  *)
num_size(size) == size \div BLOCK_SIZE_STEP

(* The size of a new chunk: a whole number of blocks.                      *)
allocation(size) ==
  IF size * ChunkBlocks < MIN_ALLOCATION THEN (MIN_ALLOCATION \div size) * size
                                         ELSE size * ChunkBlocks

(* The blocks of a new chunk, split off from its end towards its start,    *)
(* each linked to the one after it.                                        *)
Starts(size) ==
  {b \in free_space .. (free_space + allocation(size) - size) :
     (free_space + allocation(size) - b) % size = 0}

Linked(size) ==
  [a \in DOMAIN word |->
     IF a \notin Starts(size) THEN word[a]
     ELSE IF a + size \in Starts(size) THEN a + size ELSE NULL]

-----------------------------------------------------------------------------
(* _start calls init_heap once; the headers are zeroed by the first        *)
(* allocate, and are zero before.                                          *)
Init ==
  /\ small_block_headers = [k \in Class |-> NULL]
  /\ free_space = HeapStart
  /\ word = [a \in Words |-> 0]
  /\ live = [p \in {} |-> 0]
  /\ astray = FALSE

(* allocate(request) that returns NULL.                                    *)
Refuse(request) ==
  /\ request < 1 \/ num_size(BlockSize(request)) >= NUM_SIZES
  /\ UNCHANGED vars

(* allocate(request) whose size became negative: it passes the check above *)
(* and names a list in front of small_block_headers.  Where that leads is  *)
(* undefined; nothing is said of the program from there on.                *)
Overrun(request) ==
  /\ request >= 1 /\ num_size(BlockSize(request)) < 0
  /\ astray' = TRUE
  /\ UNCHANGED <<small_block_headers, free_space, word, live>>

(* Mutant: the header stays on the block that is handed out.               *)
Rest_same(block, links) == block

(* The free list without its first block.                                  *)
Rest(block, links) == links[block]

(* allocate(request) that returns a block, from its free list or from a    *)
(* new chunk.                                                              *)
Allocate(request) ==
  LET size  == BlockSize(request)
      k     == num_size(size)
      carve == small_block_headers[k] = NULL
      links == IF carve THEN Linked(size) ELSE word
      block == IF carve THEN Min(Starts(size)) ELSE small_block_headers[k]
  IN  /\ request >= 1 /\ k \in Class
      /\ free_space' = IF carve THEN free_space + allocation(size) ELSE free_space
      /\ free_space' <= HeapLimit
      /\ small_block_headers' = [small_block_headers EXCEPT ![k] = Rest(block, links)]
      /\ word' = [links EXCEPT ![block] = size]
      /\ live' = [p \in DOMAIN live \cup {block + IntSize} |->
                    IF p = block + IntSize THEN request ELSE live[p]]
      /\ UNCHANGED astray

(* Mutant: the released block does not keep the rest of the list.          *)
Release_forgetful(memory) ==
  LET chunk == memory - IntSize
      k     == num_size(word[chunk])
  IN  /\ memory \in DOMAIN live
      /\ word' = [word EXCEPT ![chunk] = NULL]
      /\ small_block_headers' = [small_block_headers EXCEPT ![k] = chunk]
      /\ live' = [p \in DOMAIN live \ {memory} |-> live[p]]
      /\ UNCHANGED <<free_space, astray>>

(* release(memory) of a block the program has.                             *)
Release(memory) ==
  LET chunk == memory - IntSize
      k     == num_size(word[chunk])
  IN  /\ memory \in DOMAIN live
      /\ word' = [word EXCEPT ![chunk] = small_block_headers[k]]
      /\ small_block_headers' = [small_block_headers EXCEPT ![k] = chunk]
      /\ live' = [p \in DOMAIN live \ {memory} |-> live[p]]
      /\ UNCHANGED <<free_space, astray>>

(* The program fills a block with w, and nothing outside of it.            *)
Write(p, w) ==
  /\ p \in DOMAIN live
  /\ word' = [a \in DOMAIN word |->
                IF a \in p .. (p + live[p] - 1) THEN w ELSE word[a]]
  /\ UNCHANGED <<small_block_headers, free_space, live, astray>>

Next ==
  /\ ~ astray
  /\ \/ \E request \in Requests : Refuse(request) \/ Overrun(request) \/ Allocate(request)
     \/ \E p \in DOMAIN live : Release(p) \/ \E w \in Scribble : Write(p, w)

Spec == Init /\ [][Next]_vars

-----------------------------------------------------------------------------
TypeOK ==
  /\ small_block_headers \in [Class -> Words \cup {NULL}]
  /\ free_space \in HeapStart .. HeapLimit
  /\ DOMAIN word = Words
  /\ astray \in BOOLEAN
  /\ \A p \in DOMAIN live : p \in Words /\ live[p] \in Nat \ {0}

(* What the program may rely on: the words of its blocks.                  *)
Area == INSTANCE Allocator WITH
  data <- [p \in DOMAIN live |->
             [a \in {b \in Words : b \in p .. (p + live[p] - 1)} |-> word[a]]]

(* Blocks never overlap, and neither handing one out nor taking one back   *)
(* changes what the program wrote into the others, although the allocator  *)
(* keeps its lists and sizes inside the same area.  Nothing is claimed     *)
(* after a request whose size wraps.                                       *)
ImplementsAllocator == Area!Spec

(* The free list of class k, by position; NULL from its end on.            *)
FreeList(k) ==
  LET list[i \in 0 .. Cardinality(Words)] ==
        IF i = 0 THEN small_block_headers[k]
        ELSE LET b == list[i - 1] IN IF b \in Words THEN word[b] ELSE NULL
  IN  list

Blocks ==
  (UNION {{<<b, k * BLOCK_SIZE_STEP, "free">> : b \in Range(FreeList(k)) \ {NULL}} : k \in Class})
    \cup {<<p - IntSize, word[p - IntSize], "live">> : p \in DOMAIN live}

(* No block is lost, doubled or filed under another size: the free lists   *)
(* end, and each word ever taken from the area belongs to one block, free  *)
(* or live, of which the live ones are large enough; up to a request whose *)
(* size wraps.                                                             *)
FreeListsIntact ==
  /\ TypeOK
  /\ \A k \in Class : FreeList(k)[Cardinality(Words)] = NULL
  /\ LET blocks == Blocks
     IN  \A a \in Words :
           Cardinality({b \in blocks : a \in b[1] .. (b[1] + b[2] - 1)})
             = IF a < free_space THEN 1 ELSE 0
  /\ \A p \in DOMAIN live : word[p - IntSize] >= live[p] + IntSize

(* lib.c:168-171: a request too large for the lists is refused with NULL,  *)
(* so no request leads past the array of the lists.                        *)
LargeRefused == ~ astray

=============================================================================
