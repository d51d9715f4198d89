-------------------------------- MODULE Sieve --------------------------------
(***************************************************************************)
(* The guest program erat.c: the sieve of Eratosthenes.  A step is an      *)
(* iteration of one of its two nested loops; the line of output is the     *)
(* sequence of the numbers printed on it, 1 aside.                         *)
(***************************************************************************)
EXTENDS Integers, Sequences

CONSTANT MAX   \* 1000000

ASSUME MaxAssumption == MAX \in Nat /\ MAX >= 2

VARIABLES
  loop,      \* which loop is running
  numbers,   \* the array
  i, j,      \* indexes of the outer and the inner loop
  printed    \* the numbers printed so far

sieve_vars == <<loop, numbers, i, j, printed>>

Index == 0 .. (MAX - 1)

SieveInit ==
  /\ loop = "outer"
  /\ numbers = [k \in Index |-> 1]
  /\ i = 2 /\ j = 0
  /\ printed = <<>>

Crossed ==
  /\ loop = "outer" /\ i < MAX /\ numbers[i] = 0
  /\ i' = i + 1
  /\ UNCHANGED <<loop, numbers, j, printed>>

PrintPrime ==
  /\ loop = "outer" /\ i < MAX /\ numbers[i] # 0
  /\ printed' = Append(printed, i)
  /\ j' = i
  /\ loop' = "inner"
  /\ UNCHANGED <<numbers, i>>

(* Mutant: "=+" for "+=".                                                  *)
NextMultiple_reset == i

NextMultiple == j + i

Cross ==
  /\ loop = "inner" /\ j < MAX
  /\ numbers' = [numbers EXCEPT ![j] = 0]
  /\ j' = NextMultiple
  /\ UNCHANGED <<loop, i, printed>>

EndInner ==
  /\ loop = "inner" /\ j >= MAX
  /\ loop' = "outer"
  /\ i' = i + 1
  /\ UNCHANGED <<numbers, j, printed>>

(* Mutant: the outer loop ends where the crossing could.                   *)
EndOuter_root ==
  /\ loop = "outer" /\ i * i >= MAX
  /\ loop' = "returned"
  /\ UNCHANGED <<numbers, i, j, printed>>

EndOuter ==
  /\ loop = "outer" /\ i >= MAX
  /\ loop' = "returned"
  /\ UNCHANGED <<numbers, i, j, printed>>

SieveNext == Crossed \/ PrintPrime \/ Cross \/ EndInner \/ EndOuter

SieveSpec == SieveInit /\ [][SieveNext]_sieve_vars

=============================================================================
