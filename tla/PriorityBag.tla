----------------------------- MODULE PriorityBag -----------------------------
(***************************************************************************)
(* What radix.c promises: a bag of numbers which, asked for some of them,  *)
(* delivers its smallest ones in order, as many as asked or as it has.     *)
(***************************************************************************)
EXTENDS Integers, Sequences

CONSTANT Numbers

VARIABLES
  bag,    \* how often each number is in the bag
  want,   \* how many numbers are still owed
  out     \* the numbers delivered

vars == <<bag, want, out>>

Nothing == [n \in Numbers |-> 0]

Init == bag = Nothing /\ want = 0 /\ out = <<>>

Add(n) ==
  /\ want = 0
  /\ bag' = [bag EXCEPT ![n] = @ + 1]
  /\ UNCHANGED <<want, out>>

Request ==
  /\ want = 0
  /\ want' \in Nat \ {0}
  /\ UNCHANGED <<bag, out>>

Deliver(n) ==
  /\ want > 0
  /\ bag[n] > 0 /\ \A m \in Numbers : m < n => bag[m] = 0
  /\ bag' = [bag EXCEPT ![n] = @ - 1]
  /\ want' = want - 1
  /\ out' = Append(out, n)

RunOut ==
  /\ bag = Nothing
  /\ want' = 0
  /\ UNCHANGED <<bag, out>>

Close ==
  /\ want = 0
  /\ bag' = Nothing
  /\ UNCHANGED <<want, out>>

Next == Request \/ RunOut \/ Close \/ \E n \in Numbers : Add(n) \/ Deliver(n)

Spec == Init /\ [][Next]_vars

=============================================================================
