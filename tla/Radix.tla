-------------------------------- MODULE Radix --------------------------------
(***************************************************************************)
(* The guest program radix.c: a radix tree of the numbers it reads, from   *)
(* which it takes the smallest on request.  One action per iteration of    *)
(* add_number and of the loops of main, one per entry to and return into   *)
(* take_numbers_2 and release_tree, whose frames are a stack.              *)
(*                                                                         *)
(* Bit positions are one-hot, as in the code.  The fields lo and hi of a   *)
(* node are its union: counts in a leaf, pointers in an interior node; the *)
(* integer 0 is both an empty count and NULL.                              *)
(***************************************************************************)
EXTENDS Integers, Sequences, FiniteSetsExt

CONSTANTS
  Nodes,        \* what allocate may return
  MaxBit,       \* MAX_BITS, the highest bit position
  Requests,     \* the numbers in the input; -n asks for n numbers
  BufferSize,   \* length of out_numbers, 1000
  ShortWrites,  \* whether write_int_buffer may write less than it was given
  MaxRequests   \* bound on the length of the input

BitPos == {b \in 1 .. MaxBit : \E k \in 0 .. 30 : b = 2^k}
Numbers == 0 .. (2 * MaxBit - 1)

(* The least int is not asked for: its negation is itself.                 *)
ASSUME RadixAssumption ==
  /\ MaxBit \in BitPos \ {1} /\ 0 \notin Nodes
  /\ Requests \subseteq Int /\ Requests \cap Nat \subseteq Numbers
  /\ \A n \in Requests : n > -(2 * MaxBit)
  /\ BufferSize \in Nat \ {0} /\ ShortWrites \in BOOLEAN

(* allocate always has a block: a number takes a leaf and a branch at most. *)
ASSUME RoomAssumption ==
  MaxRequests \in Nat /\ (IsFiniteSet(Nodes) => Cardinality(Nodes) >= 2 * MaxRequests)

VARIABLES
  phase,             \* where the program is
  tree, node,        \* the root pointer, and the nodes allocated
  number, parent, bit_pos,   \* locals of add_number
  calls,             \* the calls of take_numbers_2 or release_tree
  limit, buffer, end, to_write,   \* locals of main; end is the room in buffer
  output,            \* what was written to the output file
  requests           \* how much of the input was read

adding == <<number, parent, bit_pos>>
taking == <<limit, buffer, end, to_write, output>>
radix_vars == <<phase, tree, node, adding, calls, taking, requests>>

NULL == 0

-----------------------------------------------------------------------------
(* A struct node** is the root or a field of a node.                       *)
Root == <<"tree">>

Deref(p) == IF p = Root THEN tree ELSE node[p[1]][p[2]]

(* The nodes, and the root, after *p = n; nodes are those of heap.         *)
Link(p, n, heap) ==
  IF p = Root THEN tree' = n /\ node' = heap
              ELSE node' = [heap EXCEPT ![p[1]][p[2]] = n] /\ UNCHANGED tree

(* Which block allocate gives is immaterial: it is one nobody has (Heap).   *)
Fresh == CHOOSE n \in Nodes : n \notin DOMAIN node

With(n, record, heap) == [m \in DOMAIN heap \cup {n} |-> IF m = n THEN record ELSE heap[m]]
Without(n) == [m \in DOMAIN node \ {n} |-> node[m]]

IsSet(b, x) == (x \div b) % 2 = 1
Side(b, x) == IF IsSet(b, x) THEN "hi" ELSE "lo"

(* Mutant: the bit just looked at is left out of the range.                *)
Differing_open(high, low, x, y) ==
  {b \in BitPos : low < b /\ b < high /\ IsSet(b, x) # IsSet(b, y)}

(* bit_range(high, low) & (x ^ y): above low, up to high.                  *)
Differing(high, low, x, y) ==
  {b \in BitPos : low < b /\ b <= high /\ IsSet(b, x) # IsSet(b, y)}

IsLeaf(n) == node[n].bit_pos = 1

-----------------------------------------------------------------------------
RadixInit ==
  /\ phase = "start"
  /\ tree = NULL /\ node = [n \in {} |-> NULL]
  /\ number = 0 /\ parent = Root /\ bit_pos = 0
  /\ calls = <<>>
  /\ limit = 0 /\ buffer = <<>> /\ end = 0 /\ to_write = 0 /\ output = <<>>
  /\ requests = 0

(* A wrong argc terminates; a file that does not open is only reported.    *)
Start ==
  /\ phase = "start"
  /\ phase' \in {"read", "terminated"}
  /\ UNCHANGED <<tree, node, adding, calls, taking, requests>>

ReadNumber ==
  /\ phase = "read" /\ requests < MaxRequests
  /\ requests' = requests + 1
  /\ \E n \in Requests :
       IF n < 0
       THEN phase' = "batch" /\ limit' = -n /\ UNCHANGED adding
       ELSE /\ phase' = "add"
            /\ number' = n /\ parent' = Root /\ bit_pos' = MaxBit
            /\ UNCHANGED limit
  /\ UNCHANGED <<tree, node, calls, buffer, end, to_write, output>>

(* read_int_buffer gives nothing more.                                     *)
EndOfInput ==
  /\ phase = "read"
  /\ phase' = "release"
  /\ calls' = <<[nptr |-> tree, stage |-> "zero"]>>
  /\ UNCHANGED <<tree, node, adding, taking, requests>>

-----------------------------------------------------------------------------
nptr == Deref(parent)

(* add_number, bit_pos >= 1: no subtree yet, so a leaf of its own.         *)
AddLeaf ==
  /\ phase = "add" /\ nptr = NULL
  /\ Link(parent, Fresh,
          With(Fresh, [bit_pos |-> 1, number |-> number,
                       lo |-> 1 - (number % 2), hi |-> number % 2], node))
  /\ phase' = "read"
  /\ UNCHANGED <<adding, calls, taking, requests>>

Diff == Differing(bit_pos, node[nptr].bit_pos, number, node[nptr].number)

(* The number differs from all of the subtree: a branch above it, with the *)
(* subtree on one side; the next iteration goes to the other.              *)
Inject ==
  /\ phase = "add" /\ nptr # NULL /\ Diff # {}
  /\ LET b == Max(Diff)
         s == Side(b, number)
     IN  /\ Link(parent, Fresh,
                 With(Fresh, [bit_pos |-> b, number |-> number,
                              lo |-> IF s = "lo" THEN NULL ELSE nptr,
                              hi |-> IF s = "hi" THEN NULL ELSE nptr], node))
         /\ parent' = <<Fresh, s>>
         /\ bit_pos' = b \div 2
  /\ UNCHANGED <<phase, number, calls, taking, requests>>

(* The bits between are the same: go on at the bit of the node.            *)
here == Min({bit_pos, node[nptr].bit_pos})

Descend ==
  /\ phase = "add" /\ nptr # NULL /\ Diff = {} /\ here > 1
  /\ parent' = <<nptr, Side(here, number)>>
  /\ bit_pos' = here \div 2
  /\ UNCHANGED <<phase, tree, node, number, calls, taking, requests>>

CountNumber ==
  /\ phase = "add" /\ nptr # NULL /\ Diff = {} /\ here = 1
  /\ node' = [node EXCEPT ![nptr][Side(1, number)] = @ + 1]
  /\ phase' = "read"
  /\ UNCHANGED <<tree, adding, calls, taking, requests>>

-----------------------------------------------------------------------------
Call(p) == [parent |-> p, nptr |-> Deref(p), stage |-> "zero"]
TopCall == calls[Len(calls)]
Lower == SubSeq(calls, 1, Len(calls) - 1)
Continue(stage) == Append(Lower, [TopCall EXCEPT !.stage = stage])

(* A batch of what is left of the request; or the request is served.       *)
StartBatch ==
  /\ phase = "batch"
  /\ IF limit > 0
     THEN /\ phase' = "take"
          /\ end' = Min({limit, BufferSize})
          /\ buffer' = <<>>
          /\ calls' = <<Call(Root)>>
     ELSE phase' = "read" /\ UNCHANGED <<end, buffer, calls>>
  /\ UNCHANGED <<tree, node, adding, limit, to_write, output, requests>>

Taking(stage) == phase = "take" /\ calls # <<>> /\ TopCall.stage = stage

Full == Len(buffer) >= end

(* Entering take_numbers_2: out early, or on to the numbers of a leaf, or  *)
(* to the subtree of the smaller numbers.                                  *)
Enter ==
  /\ Taking("zero")
  /\ calls' = IF Full \/ TopCall.nptr = NULL THEN Lower
              ELSE IF IsLeaf(TopCall.nptr) THEN Continue("leaf")
              ELSE Append(Continue("one"), Call(<<TopCall.nptr, "lo">>))
  /\ UNCHANGED <<phase, tree, node, adding, taking, requests>>

(* Mutant: the larger number of a leaf goes first.                         *)
Next_hi(leaf) == IF leaf.hi > 0 THEN "hi" ELSE "lo"

(* The side of a leaf that the two loops take from next.                   *)
NextSide(leaf) == IF leaf.lo > 0 THEN "lo" ELSE "hi"

TakeNumber ==
  /\ Taking("leaf") /\ ~ Full
  /\ LET leaf == node[TopCall.nptr]
         side == NextSide(leaf)
         even == leaf.number - (leaf.number % 2)
     IN  /\ leaf.lo > 0 \/ leaf.hi > 0
         /\ buffer' = Append(buffer, IF side = "lo" THEN even ELSE even + 1)
         /\ node' = [node EXCEPT ![TopCall.nptr][side] = @ - 1]
  /\ UNCHANGED <<phase, tree, adding, calls, limit, end, to_write, output, requests>>

Second ==
  /\ Taking("one")
  /\ calls' = Append(Continue("both"), Call(<<TopCall.nptr, "hi">>))
  /\ UNCHANGED <<phase, tree, node, adding, taking, requests>>

Hollow(n) == node[n].lo = 0 /\ node[n].hi = 0

(* Mutant: an emptied node stays in the tree.                              *)
RemoveEmpty_never == UNCHANGED <<tree, node>>

(* A node with nothing left is released and its pointer cleared.           *)
RemoveEmpty ==
  IF Hollow(TopCall.nptr)
  THEN Link(TopCall.parent, NULL, Without(TopCall.nptr))
  ELSE UNCHANGED <<tree, node>>

LeaveNode ==
  /\ phase = "take" /\ calls # <<>>
  /\ IF TopCall.stage = "both" THEN TRUE ELSE TopCall.stage = "leaf" /\ (Full \/ Hollow(TopCall.nptr))
  /\ RemoveEmpty
  /\ calls' = Lower
  /\ UNCHANGED <<phase, adding, taking, requests>>

Taken ==
  /\ phase = "take" /\ calls = <<>>
  /\ phase' = "write"
  /\ to_write' = Len(buffer)
  /\ UNCHANGED <<tree, node, adding, calls, limit, buffer, end, output, requests>>

(* One round of the loop: write_int_buffer took n of the numbers.  The     *)
(* next round passes the start of the buffer again, not the rest.  A round *)
(* that writes none changes nothing.  The negative result of a failure,    *)
(* which would let to_write grow, is left out.                             *)
Write ==
  /\ phase = "write" /\ to_write > 0
  /\ \E n \in IF ShortWrites THEN 0 .. to_write ELSE {to_write} :
       /\ output' = output \o SubSeq(buffer, 1, n)
       /\ to_write' = to_write - n
  /\ UNCHANGED <<phase, tree, node, adding, calls, limit, buffer, end, requests>>

(* Mutant: the loop does not stop at an empty tree.                        *)
Written_on ==
  /\ phase = "write" /\ to_write = 0
  /\ limit' = limit - Len(buffer)
  /\ phase' = "batch"
  /\ UNCHANGED <<tree, node, adding, calls, buffer, end, to_write, output, requests>>

(* Nothing taken means an empty tree, and ends the request.                *)
Written ==
  /\ phase = "write" /\ to_write = 0
  /\ limit' = limit - Len(buffer)
  /\ phase' = IF buffer = <<>> THEN "read" ELSE "batch"
  /\ UNCHANGED <<tree, node, adding, calls, buffer, end, to_write, output, requests>>

-----------------------------------------------------------------------------
(* release_tree: a leaf at once, an interior node after its subtrees.      *)
Releasing == phase = "release" /\ calls # <<>>

Subtree(side) == [nptr |-> node[TopCall.nptr][side], stage |-> "zero"]

(* Nothing below the top of the stack is left to release.                  *)
Finished == IF TopCall.nptr = NULL THEN TRUE ELSE IsLeaf(TopCall.nptr) \/ TopCall.stage = "both"

ReleaseSubtrees ==
  IF TopCall.stage = "zero" THEN Append(Continue("one"), Subtree("lo"))
                            ELSE Append(Continue("both"), Subtree("hi"))

ReleaseNode ==
  /\ Releasing
  /\ IF Finished
     THEN /\ calls' = Lower
          /\ node' = IF TopCall.nptr = NULL THEN node ELSE Without(TopCall.nptr)
     ELSE calls' = ReleaseSubtrees /\ UNCHANGED node
  /\ UNCHANGED <<phase, tree, adding, taking, requests>>

Released ==
  /\ phase = "release" /\ calls = <<>>
  /\ phase' = "terminated"
  /\ UNCHANGED <<tree, node, adding, calls, taking, requests>>

RadixNext ==
  \/ Start \/ ReadNumber \/ EndOfInput
  \/ AddLeaf \/ Inject \/ Descend \/ CountNumber
  \/ StartBatch \/ Enter \/ TakeNumber \/ Second \/ LeaveNode \/ Taken \/ Write \/ Written
  \/ ReleaseNode \/ Released

RadixSpec == RadixInit /\ [][RadixNext]_radix_vars

=============================================================================
