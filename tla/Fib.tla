--------------------------------- MODULE Fib ---------------------------------
(***************************************************************************)
(* The guest program fib.c from _start of lib.c to its end.  The recursion *)
(* of fib is a stack of frames; a step is a call or a return.              *)
(* A string of digits is the number it stands for (the module Strings), a  *)
(* line of output the sequence of what is printed.                         *)
(***************************************************************************)
EXTENDS Integers, Sequences

CONSTANTS
  Arguments,   \* what argv[1] may be
  Modulus      \* 2^32, unsigned int wraps there

ASSUME FibAssumption == Arguments \subseteq 0 .. (Modulus - 1) /\ Modulus \in Nat \ {0}

VARIABLES
  at,       \* where the program is
  block,    \* what the simulator left at 0x1000000: the arguments, or nothing
  argc, argv,
  stack,    \* the calls of fib: [arg, stage, first]
  res,      \* the value returned last
  out,      \* what was printed
  status    \* what terminate was given

args == <<block, argc, argv>>
fib_vars == <<at, args, stack, res, out, status>>

FibInit ==
  /\ at = "_start"
  /\ argc = 0 /\ argv = <<>>
  /\ block \in {<<>>, <<"--">>} \cup {<<"--", n>> : n \in Arguments}
  /\ stack = <<>> /\ res = 0 /\ out = <<>> /\ status = 0

(* _start: memory that was never written is a count of 0.                  *)
args_to_main ==
  /\ at = "_start"
  /\ argc' = Len(block) /\ argv' = block
  /\ at' = "main"
  /\ UNCHANGED <<block, stack, res, out, status>>

(* terminate(1) never returns.                                             *)
MissingArguments ==
  /\ at = "main" /\ argc < 2
  /\ out' = <<"fib() missing arguments\n">>
  /\ at' = "terminated" /\ status' = 1
  /\ UNCHANGED <<args, stack, res>>

Frame(n, stage, first) == [arg |-> n, stage |-> stage, first |-> first]
Entry(n) == Frame(n, "entry", 0)
Top == stack[Len(stack)]
Pop == SubSeq(stack, 1, Len(stack) - 1)

Main ==
  /\ at = "main" /\ argc >= 2
  /\ out' = <<"fib(", argv[2], ") = ">>
  /\ stack' = <<Entry(argv[2])>>
  /\ at' = "fib"
  /\ UNCHANGED <<args, res, status>>

InFib(stage) == at = "fib" /\ stack # <<>> /\ Top.stage = stage

Return(value) == res' = value /\ stack' = Pop

SmallFib ==
  /\ InFib("entry") /\ Top.arg < 2
  /\ Return(Top.arg)
  /\ UNCHANGED <<at, args, out, status>>

(* Mutant: the argument is not smaller.                                    *)
FirstArg_same(arg) == IF arg = 2 THEN arg ELSE arg - 1

FirstArg(arg) == arg - 1

FirstCall ==
  /\ InFib("entry") /\ Top.arg >= 2
  /\ stack' = Append(Append(Pop, Frame(Top.arg, "second", 0)), Entry(FirstArg(Top.arg)))
  /\ UNCHANGED <<at, args, res, out, status>>

(* Mutant: the first result is lost in the second call.                    *)
Kept_lost == 0

(* What the frame keeps of the first call over the second.                 *)
Kept == res

SecondCall ==
  /\ InFib("second")
  /\ stack' = Append(Append(Pop, Frame(Top.arg, "sum", Kept)), Entry(Top.arg - 2))
  /\ UNCHANGED <<at, args, res, out, status>>

SumUp ==
  /\ InFib("sum")
  /\ Return((Top.first + res) % Modulus)
  /\ UNCHANGED <<at, args, out, status>>

(* main returns 0 to args_to_main, and _start calls terminate with it.     *)
EndMain ==
  /\ at = "fib" /\ stack = <<>>
  /\ out' = out \o <<res, "\n">>
  /\ at' = "terminated" /\ status' = 0
  /\ UNCHANGED <<args, stack, res>>

FibNext ==
  \/ args_to_main \/ MissingArguments \/ Main \/ SmallFib \/ FirstCall \/ SecondCall \/ SumUp \/ EndMain

FibSpec == FibInit /\ [][FibNext]_fib_vars

-----------------------------------------------------------------------------
Fibonacci[n \in Nat] == IF n < 2 THEN n ELSE Fibonacci[n - 1] + Fibonacci[n - 2]

(* fib.c:3-22: a program that was given a number prints its Fibonacci      *)
(* number, as far as unsigned int holds it: the partial sums survive the   *)
(* recursion between them, and wrapping in them is wrapping in the result. *)
PrintsFibonacci ==
  at = "terminated" =>
    IF Len(block) = 2
    THEN out = <<"fib(", block[2], ") = ", Fibonacci[block[2]] % Modulus, "\n">> /\ status = 0
    ELSE status = 1

(* The recursion is as deep as the argument is large, no deeper: the stack *)
(* of the guest grows down from 0x1000000 towards the program unchecked    *)
(* (fib.c:3-6, lib.c:8-9).                                                 *)
DepthBounded ==
  \A k \in 1 .. Len(stack) : stack[k].arg + k <= argv[2] + 1

=============================================================================
