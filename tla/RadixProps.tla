----------------------------- MODULE RadixProps -----------------------------
(***************************************************************************)
(* What the radix tree of radix.c must keep, however insertions, requests  *)
(* larger than the buffer or than the tree, and releases follow.           *)
(***************************************************************************)
EXTENDS Radix, Functions

Fields == {"lo", "hi"}

(* The nodes a pointer of the tree leads to, one entry for each pointer.   *)
Pointers ==
  {<<Root, tree>>} \cup
  {<<<<n, f>>, node[n][f]>> : n \in {m \in DOMAIN node : ~ IsLeaf(m)}, f \in Fields}

(***************************************************************************)
(* The numbers below a branch are on the side of their bit, and agree with *)
(* the branch in all bits above: what add_number may rely on when it looks *)
(* at one node and not at the path to it (radix.c:47-82), with nodes that  *)
(* were injected in the middle and paths that lost a side.                 *)
(***************************************************************************)
RadixShape ==
  phase # "release" =>
    \A n \in {m \in DOMAIN node : ~ IsLeaf(m)}, f \in Fields :
      node[n][f] # NULL =>
        LET child == node[node[n][f]]
            above == 2 * node[n].bit_pos
        IN  /\ child.bit_pos < node[n].bit_pos
            /\ Side(node[n].bit_pos, child.number) = f
            /\ child.number \div above = node[n].number \div above

(***************************************************************************)
(* Until release_tree, each node in use is owned by one pointer, none is   *)
(* of a released one, and between requests no node is empty: a tree        *)
(* without numbers is NULL (radix.c:112-124).  release_tree                *)
(* (radix.c:137-145) leaves no node and uses none after its release.       *)
(***************************************************************************)
OneOwner ==
  /\ phase \notin {"release", "terminated"} =>
       LET targets == {p[2] : p \in Pointers} \ {NULL}
       IN  /\ targets = DOMAIN node
           /\ \A p, q \in Pointers : p[2] = q[2] /\ p[2] # NULL => p = q
  /\ phase \in {"read", "batch"} => \A n \in DOMAIN node : ~ Hollow(n)
  /\ phase = "release" => \A k \in 1 .. Len(calls) : calls[k].nptr \in DOMAIN node \cup {NULL}
  /\ phase = "terminated" => DOMAIN node = {}

-----------------------------------------------------------------------------
Leaves == {n \in DOMAIN node : IsLeaf(n)}

(* How often a leaf holds x.                                               *)
Share(x) ==
  [n \in Leaves |-> IF node[n].number \div 2 = x \div 2 THEN node[n][Side(1, x)] ELSE 0]

Contents(x) == SumFunction(Share(x)) + (IF phase = "add" /\ number = x THEN 1 ELSE 0)

(* A number being added counts as added, one in the buffer as delivered.   *)
Held == [x \in Numbers |-> IF phase \in {"release", "terminated"} THEN 0 ELSE Contents(x)]

Owed ==
  IF phase = "batch" THEN limit
  ELSE IF phase \in {"take", "write"} THEN limit - Len(buffer) ELSE 0

Produced ==
  IF phase = "take" THEN output \o buffer
  ELSE IF phase = "write" THEN output \o SubSeq(buffer, Len(buffer) - to_write + 1, Len(buffer))
  ELSE output

Bag == INSTANCE PriorityBag WITH bag <- Held, want <- Owed, out <- Produced

(* The program delivers the smallest numbers it holds, in order, each as   *)
(* often as it was given, in as many batches as the buffer needs, and      *)
(* fewer than requested only when it holds no more (radix.c:163-193), if   *)
(* ~ ShortWrites: after a write that is not complete the code outputs      *)
(* numbers twice and leaves others out (radix.c:180-183).                  *)
ImplementsPriorityBag == Bag!Spec

(* Every number read is dealt with and every request served or given up,   *)
(* so that the program reads on (radix.c:170-192), if writes go on writing *)
(* something: with results of 0 or less for ever the loop at radix.c:180   *)
(* has no end.                                                             *)
Served == phase \in {"add", "batch", "take", "write"} ~> phase = "read"

=============================================================================
