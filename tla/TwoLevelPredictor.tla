------------------------- MODULE TwoLevelPredictor --------------------------
(***************************************************************************)
(* What the dynamic predictors are meant to be (predictor.c:64-65 and      *)
(* 116-117): for every branch, and for every pattern of the last Depth     *)
(* outcomes of the program, a private automaton that remembers a direction *)
(* and whether it is sure of it.  A sure automaton that is wrong loses its *)
(* certainty, an unsure one changes its mind, and both start "weakly       *)
(* taken".  There is no table here and nothing is shared.                  *)
(***************************************************************************)
EXTENDS Integers

CONSTANTS Depth, MaxBranches

VARIABLES
  program,     \* the branches of the program
  direction,   \* automaton -> the outcome it expects
  sure,        \* the automata that are sure of it
  recent,      \* the last outcomes, the latest first
  stats

vars == <<program, direction, sure, recent, stats>>

Outcomes == {0, 1}
Automata == program \X [1 .. Depth -> Outcomes]

Init ==
  /\ direction = [k \in Automata |-> 1]
  /\ sure = {}
  /\ recent = [i \in 1 .. Depth |-> 0]
  /\ stats = [total_branches |-> 0, mispredictions |-> 0]

Right(k) ==
  /\ sure' = sure \cup {k}
  /\ stats' = [stats EXCEPT !.total_branches = @ + 1]
  /\ UNCHANGED direction

Wrong(k, taken) ==
  /\ \/ k \in sure    /\ sure' = sure \ {k} /\ UNCHANGED direction
     \/ k \notin sure /\ direction' = [direction EXCEPT ![k] = taken] /\ UNCHANGED sure
  /\ stats' = [total_branches |-> stats.total_branches + 1,
               mispredictions |-> stats.mispredictions + 1]

Branch(b, taken) ==
  /\ stats.total_branches < MaxBranches
  /\ IF direction[<<b, recent>>] = taken THEN Right(<<b, recent>>)
                                         ELSE Wrong(<<b, recent>>, taken)
  /\ recent' = [i \in 1 .. Depth |-> IF i = 1 THEN taken ELSE recent[i - 1]]
  /\ UNCHANGED program

Next == \E b \in program, taken \in Outcomes : Branch(b, taken)

Spec == Init /\ [][Next]_vars

=============================================================================
