----------------------------- MODULE Allocator ------------------------------
(***************************************************************************)
(* What a program expects of allocate and release: aligned blocks of the   *)
(* heap area that are its own until it gives them back.  Which ones, and   *)
(* whether a request is granted, is left open.                             *)
(***************************************************************************)
EXTENDS Integers

CONSTANTS IntSize, HeapStart, Requests, Scribble

VARIABLES
  live,   \* block -> size asked for
  data    \* block -> its words, by address

vars == <<live, data>>

Init ==
  /\ live = [p \in {} |-> 0]
  /\ data = [p \in {} |-> 0]

Apart(p, m, q, n) == p + m <= q \/ q + n <= p

(* The new block holds anything.                                           *)
Grant(p, n) ==
  /\ n >= 1 /\ p >= HeapStart /\ p % IntSize = 0
  /\ \A q \in DOMAIN live : Apart(p, n, q, live[q])
  /\ DOMAIN live' = DOMAIN live \cup {p}
  /\ live'[p] = n
  /\ \A q \in DOMAIN live : live'[q] = live[q] /\ data'[q] = data[q]

GiveBack(p) ==
  /\ live' = [q \in DOMAIN live \ {p} |-> live[q]]
  /\ data' = [q \in DOMAIN live \ {p} |-> data[q]]

Write(p, w) ==
  /\ data' = [data EXCEPT ![p] = [a \in DOMAIN data[p] |-> w]]
  /\ UNCHANGED live

Next ==
  \/ \E p \in DOMAIN live' \ DOMAIN live, n \in Requests : Grant(p, n)
  \/ \E p \in DOMAIN live : GiveBack(p) \/ \E w \in Scribble : Write(p, w)

Spec == Init /\ [][Next]_vars

=============================================================================
