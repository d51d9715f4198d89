------------------------------ MODULE Benchmarks ------------------------------
(***************************************************************************)
(* The guest programs fib.c, erat.c and radix.c, one of which the          *)
(* simulator is given to run.                                              *)
(***************************************************************************)
EXTENDS Fib, SieveProps, RadixProps

VARIABLE program

vars == <<program, fib_vars, sieve_vars, radix_vars>>

Init ==
  /\ program \in {"fib", "erat", "radix"}
  /\ FibInit /\ SieveInit /\ RadixInit
  /\ program # "fib" => block = <<>>   \* the arguments of fib.c

Next ==
  \/ program = "fib" /\ FibNext /\ UNCHANGED <<program, sieve_vars, radix_vars>>
  \/ program = "erat" /\ SieveNext /\ UNCHANGED <<program, fib_vars, radix_vars>>
  \/ program = "radix" /\ RadixNext /\ UNCHANGED <<program, fib_vars, sieve_vars>>

(* The simulator goes on with a program as long as it can.                 *)
Spec == Init /\ [][Next]_vars /\ WF_vars(Next)

-----------------------------------------------------------------------------
(* The recursion of fib.c:3-6 and the nested loops of erat.c:12-20 end,    *)
(* for every argument and whatever is crossed; so do the batches, the      *)
(* recursion and the release_tree of radix.c:136-198 for any input that    *)
(* ends, if writes go on writing something.                                *)
Terminates ==
  <>(\/ program = "fib" /\ at = "terminated"
     \/ program = "erat" /\ loop = "returned"
     \/ program = "radix" /\ phase = "terminated")

=============================================================================
