-------------------------- MODULE Benchmarks_proofs --------------------------
(***************************************************************************)
(* The guest programs, for every argument, every width of the word and     *)
(* every MAX.  Fib: what each open call of fib is waiting for, how deep    *)
(* the recursion is and what it prints.  Sieve: CrossedAreMultiples and    *)
(* PrintsThePrimes need each other and the inner loop's invariant: j is a  *)
(* multiple of i, and i is prime and printed.  Radix: what the open calls  *)
(* of take_numbers_2 and release_tree and the pointer of add_number stand  *)
(* for in a tree whose nodes have one owner; and then where each number is *)
(* to be found in it, so that what is taken is the smallest.               *)
(***************************************************************************)
EXTENDS Benchmarks, SequenceTheorems, DataLemmas

Stages == {"entry", "second", "sum"}
Frames == [arg : Nat, stage : Stages, first : Int]

Lines == {<<>>, <<"--">>} \cup {<<"--", n>> : n \in Arguments}

FibTypeOK ==
  /\ block \in Lines
  /\ argv \in Lines /\ argc = Len(argv)
  /\ stack \in Seq(Frames)
  /\ res \in Int

(* A frame that has made a call had an argument to make it with.           *)
Callers == \A k \in 1 .. Len(stack) : stack[k].stage # "entry" => stack[k].arg >= 2

(* Frames stand only on those of the number that was given.                *)
Started ==
  /\ stack # <<>> => argc >= 2
  /\ at \in {"_start", "main"} => stack = <<>>

FibIInv == FibTypeOK /\ Callers /\ Started /\ DepthBounded

-----------------------------------------------------------------------------
LEMMA FrameIsFrame ==
  ASSUME NEW n \in Nat, NEW stage \in Stages, NEW first \in Int
  PROVE  /\ Frame(n, stage, first) \in Frames /\ Frame(n, stage, first).arg = n
         /\ Frame(n, stage, first).stage = stage
  BY DEF Frame, Frames

LEMMA ArgumentIsNat ==
  ASSUME FibTypeOK, argc >= 2 PROVE argv[2] \in Nat
  BY FibAssumption DEF FibTypeOK, Lines

LEMMA NonEmpty ==
  ASSUME NEW s \in Seq(Frames), s # <<>>
  PROVE  Len(s) \in Nat /\ Len(s) >= 1 /\ s[Len(s)] \in Frames
<1>1. Len(s) \in Nat /\ Len(s) >= 1
  BY EmptySeq, LenProperties
<1> QED BY <1>1, ElementOfSeq

LEMMA LengthOfDomain ==
  ASSUME NEW t \in Seq(Frames), NEW n \in Nat, DOMAIN t = 1 .. n
  PROVE  Len(t) = n
<1>1. Len(t) \in Nat /\ 1 .. Len(t) = 1 .. n
  BY LenProperties
<1>2. Len(t) <= n
  <2>1. CASE Len(t) >= 1
    <3>1. Len(t) \in 1 .. n
      BY <1>1, <2>1
    <3> QED BY <3>1
  <2> QED BY <1>1, <2>1
<1>3. n <= Len(t)
  <2>1. CASE n >= 1
    <3>1. n \in 1 .. Len(t)
      BY <1>1, <2>1
    <3> QED BY <3>1
  <2> QED BY <1>1, <2>1
<1> QED BY <1>1, <1>2, <1>3

(* What a return leaves.                                                   *)
LEMMA Popped ==
  ASSUME NEW s \in Seq(Frames), s # <<>>, NEW t, t = SubSeq(s, 1, Len(s) - 1)
  PROVE  /\ t \in Seq(Frames)
         /\ Len(t) = Len(s) - 1
         /\ \A k \in 1 .. (Len(s) - 1) : t[k] = s[k]
<1>1. Len(s) \in Nat /\ Len(s) >= 1
  BY NonEmpty
<1>2. \A k \in 1 .. (Len(s) - 1) : s[k] \in Frames
  BY <1>1, ElementOfSeq
<1>3. t = [k \in 1 .. (Len(s) - 1) |-> s[k]]
  BY <1>1
<1>4. t \in [1 .. (Len(s) - 1) -> Frames]
  BY <1>2, <1>3
<1>5. t \in Seq(Frames)
  BY <1>1, <1>4, IsASeq
<1>6. Len(t) = Len(s) - 1
  <2> DEFINE n == Len(s) - 1
  <2>1. n \in Nat /\ DOMAIN t = 1 .. n
    BY <1>1, <1>3
  <2> HIDE DEF n
  <2>2. Len(t) = n
    BY <1>5, <2>1, LengthOfDomain, Zenon
  <2> QED BY <2>2 DEF n
<1> QED BY <1>3, <1>5, <1>6

LEMMA SingletonStack ==
  ASSUME NEW e \in Frames
  PROVE  <<e>> \in Seq(Frames) /\ Len(<<e>>) = 1 /\ <<e>>[1] = e
  OBVIOUS

-----------------------------------------------------------------------------
LEMMA FibInitHolds == FibInit => FibIInv
  BY FibAssumption DEF FibInit, FibIInv, FibTypeOK, Lines, Callers, Started, DepthBounded

LEMMA TopIsFrame ==
  ASSUME FibTypeOK, stack # <<>>
  PROVE  Top \in Frames /\ Len(stack) \in Nat /\ Len(stack) >= 1
  BY NonEmpty DEF FibTypeOK, Top

LEMMA ReturnPreserves ==
  ASSUME FibIInv, at = "fib", stack # <<>>, NEW value \in Int, Return(value), UNCHANGED <<at, args>>
  PROVE  FibIInv'
<1>1. /\ stack' \in Seq(Frames)
      /\ Len(stack') = Len(stack) - 1
      /\ \A k \in 1 .. (Len(stack) - 1) : stack'[k] = stack[k]
  BY Popped DEF FibIInv, FibTypeOK, Return, Pop
<1>2. Len(stack) \in Nat /\ Len(stack) >= 1
  BY TopIsFrame DEF FibIInv
<1>3. FibTypeOK'
  BY <1>1 DEF FibIInv, FibTypeOK, Return, args
<1>4. Callers'
  BY <1>1, <1>2 DEF FibIInv, Callers
<1>5. Started'
  BY DEF FibIInv, Started, args
<1>6. DepthBounded'
  BY <1>1, <1>2 DEF FibIInv, DepthBounded, args
<1> QED BY <1>3, <1>4, <1>5, <1>6 DEF FibIInv

(* What a call leaves.                                                     *)
LEMMA Called ==
  ASSUME FibTypeOK, stack # <<>>, NEW f \in Frames, NEW g \in Frames,
         stack' = Append(Append(Pop, f), g)
  PROVE  /\ stack' \in Seq(Frames)
         /\ Len(stack') = Len(stack) + 1
         /\ stack'[Len(stack)] = f /\ stack'[Len(stack) + 1] = g
         /\ \A k \in 1 .. (Len(stack) - 1) : stack'[k] = stack[k]
<1> DEFINE q == Append(Pop, f)
<1>1. Len(stack) \in Nat /\ Len(stack) >= 1 /\ stack' = Append(q, g)
  BY TopIsFrame
<1>2. Pop \in Seq(Frames) /\ Len(Pop) = Len(stack) - 1
        /\ \A k \in 1 .. (Len(stack) - 1) : Pop[k] = stack[k]
  BY Popped DEF FibTypeOK, Pop
<1>3. q \in Seq(Frames) /\ Len(q) = Len(stack) /\ q[Len(stack)] = f
        /\ \A k \in 1 .. (Len(stack) - 1) : q[k] = stack[k]
  BY <1>1, <1>2, AppendProperties
<1> HIDE DEF q
<1>4. stack' \in Seq(Frames) /\ Len(stack') = Len(stack) + 1 /\ stack'[Len(stack) + 1] = g
        /\ \A k \in 1 .. Len(stack) : stack'[k] = q[k]
  BY <1>1, <1>3, AppendProperties
<1> QED
  BY <1>1, <1>3, <1>4

(* A call replaces the top frame by f, which remembers where it is, and    *)
(* puts a new one on it.                                                   *)
LEMMA CallPreserves ==
  ASSUME FibIInv, at = "fib", stack # <<>>, Top.arg >= 2,
         NEW f \in Frames, f.arg = Top.arg,
         NEW g \in Frames, g.arg < Top.arg, g.stage = "entry",
         stack' = Append(Append(Pop, f), g),
         UNCHANGED <<at, args, res>>
  PROVE  FibIInv'
<1>1. Top \in Frames /\ Len(stack) \in Nat /\ Len(stack) >= 1 /\ Top = stack[Len(stack)]
  BY TopIsFrame DEF FibIInv, Top
<1>2. Top.arg \in Nat /\ f.arg \in Nat /\ g.arg \in Nat
  BY <1>1 DEF Frames
<1>3. /\ stack' \in Seq(Frames)
      /\ Len(stack') = Len(stack) + 1
      /\ stack'[Len(stack)] = f /\ stack'[Len(stack) + 1] = g
      /\ \A k \in 1 .. (Len(stack) - 1) : stack'[k] = stack[k]
  BY Called DEF FibIInv
<1>4. FibTypeOK'
  BY <1>3 DEF FibIInv, FibTypeOK, args
<1>5. Callers'
  BY <1>1, <1>2, <1>3 DEF FibIInv, Callers
<1>6. Started'
  BY DEF FibIInv, Started, args
<1>7. DepthBounded'
  <2>1. argv[2] \in Nat /\ Top.arg + Len(stack) <= argv[2] + 1
    BY <1>1, ArgumentIsNat DEF FibIInv, Started, DepthBounded
  <2>2. g.arg + (Len(stack) + 1) <= argv[2] + 1 /\ f.arg + Len(stack) <= argv[2] + 1
    BY <2>1, <1>1, <1>2
  <2> SUFFICES ASSUME NEW k \in 1 .. Len(stack')
               PROVE  stack'[k].arg + k <= argv[2] + 1
    BY DEF DepthBounded, args
  <2>3. CASE k < Len(stack)
    BY <2>3, <1>1, <1>3 DEF FibIInv, DepthBounded
  <2>4. CASE k = Len(stack)
    BY <2>4, <2>2, <1>3
  <2>5. CASE k = Len(stack) + 1
    BY <2>5, <2>2, <1>3
  <2>6. k < Len(stack) \/ k = Len(stack) \/ k = Len(stack) + 1
    BY <1>1, <1>3
  <2> QED BY <2>3, <2>4, <2>5, <2>6
<1> QED BY <1>4, <1>5, <1>6, <1>7 DEF FibIInv

-----------------------------------------------------------------------------
LEMMA FibStepHolds == FibIInv /\ [FibNext]_fib_vars => FibIInv'
<1> SUFFICES ASSUME FibIInv, [FibNext]_fib_vars PROVE FibIInv'
  OBVIOUS
<1>1. CASE args_to_main
  BY <1>1 DEF args_to_main, FibIInv, FibTypeOK, Callers, Started, DepthBounded
<1>2. CASE MissingArguments
  BY <1>2 DEF MissingArguments, args, FibIInv, FibTypeOK, Callers, Started, DepthBounded
<1>3. CASE Main
  <2>1. argv[2] \in Nat
    BY <1>3, ArgumentIsNat DEF Main, FibIInv
  <2>2. Entry(argv[2]) \in Frames /\ Entry(argv[2]).arg = argv[2] /\ Entry(argv[2]).stage = "entry"
    BY <2>1, FrameIsFrame DEF Entry, Stages
  <2>3. stack' \in Seq(Frames) /\ Len(stack') = 1 /\ stack'[1] = Entry(argv[2])
    BY <1>3, <2>2, SingletonStack DEF Main
  <2>4. FibTypeOK'
    BY <1>3, <2>3 DEF Main, args, FibIInv, FibTypeOK
  <2>5. Callers'
    BY <2>2, <2>3 DEF Callers
  <2>6. Started'
    BY <1>3 DEF Main, args, Started
  <2>7. DepthBounded'
    <3>1. argv' = argv
      BY <1>3 DEF Main, args
    <3> QED BY <3>1, <2>1, <2>2, <2>3 DEF DepthBounded
  <2> QED BY <2>4, <2>5, <2>6, <2>7 DEF FibIInv
<1>4. CASE SmallFib
  <2>1. stack # <<>> /\ Top.arg \in Int
    BY <1>4, TopIsFrame DEF SmallFib, InFib, FibIInv, Frames
  <2> QED BY <1>4, <2>1, ReturnPreserves DEF SmallFib, InFib
<1>5. CASE FirstCall
  <2> DEFINE f == Frame(Top.arg, "second", 0)
             g == Entry(Top.arg - 1)
  <2>1. stack # <<>> /\ Top.arg >= 2 /\ Top.arg \in Nat /\ at = "fib"
    BY <1>5, TopIsFrame DEF FirstCall, InFib, FibIInv, Frames
  <2>2. f \in Frames /\ f.arg = Top.arg /\ g \in Frames /\ g.arg < Top.arg /\ g.stage = "entry"
    BY <2>1, FrameIsFrame DEF Stages, Entry
  <2>3. stack' = Append(Append(Pop, f), g) /\ UNCHANGED <<at, args, res>>
    BY <1>5 DEF FirstCall, FirstArg
  <2> HIDE DEF f, g
  <2> QED BY <2>1, <2>2, <2>3, CallPreserves
<1>6. CASE SecondCall
  <2> DEFINE f == Frame(Top.arg, "sum", res)
             g == Entry(Top.arg - 2)
  <2>1. stack # <<>> /\ Top.arg >= 2 /\ Top.arg \in Nat /\ at = "fib" /\ res \in Int
    BY <1>6, TopIsFrame DEF SecondCall, InFib, FibIInv, FibTypeOK, Callers, Frames, Top
  <2>2. f \in Frames /\ f.arg = Top.arg /\ g \in Frames /\ g.arg < Top.arg /\ g.stage = "entry"
    BY <2>1, FrameIsFrame DEF Stages, Entry
  <2>3. stack' = Append(Append(Pop, f), g) /\ UNCHANGED <<at, args, res>>
    BY <1>6 DEF SecondCall, Kept
  <2> HIDE DEF f, g
  <2> QED BY <2>1, <2>2, <2>3, CallPreserves
<1>7. CASE SumUp
  <2>1. stack # <<>> /\ (Top.first + res) % Modulus \in Int
    BY <1>7, TopIsFrame, FibAssumption DEF SumUp, InFib, FibIInv, FibTypeOK, Frames
  <2> QED BY <1>7, <2>1, ReturnPreserves DEF SumUp, InFib
<1>8. CASE EndMain
  BY <1>8 DEF EndMain, args, FibIInv, FibTypeOK, Callers, Started, DepthBounded
<1>9. CASE UNCHANGED fib_vars
  BY <1>9 DEF fib_vars, args, FibIInv, FibTypeOK, Callers, Started, DepthBounded
<1> QED BY <1>1, <1>2, <1>3, <1>4, <1>5, <1>6, <1>7, <1>8, <1>9 DEF FibNext

(* fib.c never has more calls of fib open than its argument is large, and  *)
(* one with a smaller argument when it has many: for every argument and    *)
(* every width of the word.                                                *)
THEOREM RecursionBounded == FibSpec => []DepthBounded
<1>1. FibIInv => DepthBounded
  BY DEF FibIInv
<1> QED BY FibInitHolds, FibStepHolds, <1>1, PTL DEF FibSpec

-----------------------------------------------------------------------------
(* Fibonacci is a recursive definition: that there is such a function is   *)
(* shown number by number.                                                 *)
FibOf(g, n) == IF n < 2 THEN n ELSE g[n - 1] + g[n - 2]

Upto(g, k) == \A n \in 0 .. k : g[n] = FibOf(g, n)

LEMMA UptoExists == \A k \in Nat : \E g : Upto(g, k)
<1> DEFINE N == {k \in Nat : \E g : Upto(g, k)}
<1>1. 0 \in N
  <2>1. Upto([n \in {0} |-> 0], 0)
    BY DEF Upto, FibOf
  <2> QED
    BY <2>1
<1>2. ASSUME NEW k \in Nat, k \in N PROVE k + 1 \in N
  <2>1. PICK g : Upto(g, k)
    BY <1>2
  <2> DEFINE h == [n \in 0 .. (k + 1) |-> IF n = k + 1 THEN FibOf(g, n) ELSE g[n]]
  <2>2. ASSUME NEW n \in 0 .. (k + 1) PROVE h[n] = FibOf(h, n)
    <3>1. h[n] = FibOf(g, n)
      BY <2>1 DEF Upto
    <3>2. n >= 2 => h[n - 1] = g[n - 1] /\ h[n - 2] = g[n - 2]
      OBVIOUS
    <3> HIDE DEF h
    <3> QED
      BY <3>1, <3>2 DEF FibOf
  <2> HIDE DEF h
  <2>3. Upto(h, k + 1)
    BY <2>2 DEF Upto
  <2> QED
    BY <2>3
<1> HIDE DEF N
<1>3. Nat \subseteq N
  BY <1>1, <1>2, NatInd
<1> QED
  BY <1>3 DEF N

LEMMA UptoAgree ==
  ASSUME NEW k \in Nat, NEW m \in Nat, NEW g, NEW h, Upto(g, k), Upto(h, m),
         NEW n \in Nat, n <= k, n <= m
  PROVE  g[n] = h[n]
<1> DEFINE N == {r \in Nat : \A l \in 0 .. r : l <= k /\ l <= m => g[l] = h[l]}
<1>1. 0 \in N
  BY DEF Upto, FibOf
<1>2. ASSUME NEW r \in Nat, r \in N PROVE r + 1 \in N
  <2> SUFFICES ASSUME r + 1 <= k, r + 1 <= m PROVE g[r + 1] = h[r + 1]
    BY <1>2
  <2>1. g[r + 1] = FibOf(g, r + 1) /\ h[r + 1] = FibOf(h, r + 1)
    BY DEF Upto
  <2>2. r + 1 >= 2 => /\ g[(r + 1) - 1] = h[(r + 1) - 1]
                      /\ g[(r + 1) - 2] = h[(r + 1) - 2]
    <3>1. r + 1 >= 2 => (r + 1) - 1 \in 0 .. r /\ (r + 1) - 2 \in 0 .. r
      OBVIOUS
    <3>2. r + 1 >= 2 => /\ (r + 1) - 1 <= k /\ (r + 1) - 1 <= m
                        /\ (r + 1) - 2 <= k /\ (r + 1) - 2 <= m
      OBVIOUS
    <3> QED
      BY <1>2, <3>1, <3>2
  <2> QED
    BY <2>1, <2>2 DEF FibOf
<1> HIDE DEF N
<1>3. Nat \subseteq N
  BY <1>1, <1>2, NatInd
<1> QED
  BY <1>3 DEF N

LEMMA FibonacciFacts ==
  \A n \in Nat : Fibonacci[n] \in Nat /\ Fibonacci[n] = FibOf(Fibonacci, n)
<1> DEFINE G(k) == CHOOSE g : Upto(g, k)
           F == [n \in Nat |-> G(n)[n]]
<1>1. \A k \in Nat : Upto(G(k), k)
  BY UptoExists
<1> HIDE DEF G
<1>2. ASSUME NEW n \in Nat PROVE F[n] = FibOf(F, n)
  <2>1. F[n] = FibOf(G(n), n)
    BY <1>1 DEF Upto
  <2>2. ASSUME NEW m \in Nat, m <= n PROVE G(n)[m] = F[m]
    <3>1. Upto(G(n), n) /\ Upto(G(m), m)
      BY <1>1
    <3> QED
      BY <2>2, <3>1, UptoAgree
  <2> HIDE DEF F
  <2>3. n >= 2 => n - 1 \in Nat /\ n - 2 \in Nat /\ n - 1 <= n /\ n - 2 <= n
    OBVIOUS
  <2> QED
    BY <2>1, <2>2, <2>3 DEF FibOf
<1>3. F = [n \in Nat |-> FibOf(F, n)]
  BY <1>2
<1> HIDE DEF F
<1>4. Fibonacci = CHOOSE g : g = [n \in Nat |-> FibOf(g, n)]
  BY DEF Fibonacci, FibOf
<1>5. Fibonacci = [n \in Nat |-> FibOf(Fibonacci, n)]
  BY <1>3, <1>4
<1>6. \A n \in Nat : Fibonacci[n] = FibOf(Fibonacci, n)
  BY <1>5
<1> DEFINE N == {r \in Nat : \A l \in 0 .. r : Fibonacci[l] \in Nat}
<1>7. 0 \in N
  BY <1>6 DEF FibOf
<1>8. ASSUME NEW r \in Nat, r \in N PROVE r + 1 \in N
  <2>1. Fibonacci[r + 1] = FibOf(Fibonacci, r + 1)
    BY <1>6
  <2>2. r + 1 >= 2 => (r + 1) - 1 \in 0 .. r /\ (r + 1) - 2 \in 0 .. r
    OBVIOUS
  <2>3. r + 1 >= 2 => Fibonacci[(r + 1) - 1] \in Nat /\ Fibonacci[(r + 1) - 2] \in Nat
    BY <1>8, <2>2
  <2>4. Fibonacci[r + 1] \in Nat
    BY <2>1, <2>3 DEF FibOf
  <2> QED
    BY <1>8, <2>4
<1> HIDE DEF N
<1>9. Nat \subseteq N
  BY <1>7, <1>8, NatInd
<1>10. \A n \in Nat : Fibonacci[n] \in Nat
  BY <1>9 DEF N
<1> QED
  BY <1>6, <1>10

-----------------------------------------------------------------------------
(* What an open call waits for, and what it is given.                      *)
Value(n) == Fibonacci[n] % Modulus

Awaited(f) == f.arg - (IF f.stage = "second" THEN 1 ELSE 2)

Begun ==
  /\ at \in {"_start", "main", "fib", "terminated"}
  /\ at = "_start" \/ argv = block
  /\ at = "fib" => Len(argv) = 2 /\ out = <<"fib(", argv[2], ") = ">>
  /\ stack # <<>> => at = "fib" /\ stack[1].arg = argv[2]

(* Each call below the top waits for the one above it.                     *)
Chained ==
  \A k \in 1 .. (Len(stack) - 1) :
    stack[k].stage # "entry" /\ stack[k + 1].arg = Awaited(stack[k])

KeptSums ==
  \A k \in 1 .. Len(stack) :
    stack[k].stage = "sum" => stack[k].first = Value(stack[k].arg - 1)

(* The call on top has what it waited for, and main what fib returned.     *)
Delivered ==
  at = "fib" =>
    IF stack = <<>> THEN res = Value(argv[2])
    ELSE Top.stage # "entry" => res = Value(Awaited(Top))

Results == Begun /\ Chained /\ KeptSums /\ Delivered /\ PrintsFibonacci

LEMMA ValueFacts ==
  ASSUME NEW n \in Nat
  PROVE  /\ n < 2 /\ n < Modulus => Value(n) = n
         /\ n >= 2 => (Value(n - 1) + Value(n - 2)) % Modulus = Value(n)
<1>1. Modulus \in Nat \ {0}
  BY FibAssumption
<1>2. n < 2 => Fibonacci[n] = n
  BY FibonacciFacts DEF FibOf
<1>3. n < Modulus => n % Modulus = n
  BY <1>1
<1>4. CASE n >= 2
  <2>1. n - 1 \in Nat /\ n - 2 \in Nat
    BY <1>4
  <2>2. /\ Fibonacci[n - 1] \in Nat /\ Fibonacci[n - 2] \in Nat
        /\ Fibonacci[n] = Fibonacci[n - 1] + Fibonacci[n - 2]
    BY <1>4, <2>1, FibonacciFacts DEF FibOf
  <2> QED
    BY <1>1, <1>4, <2>2, ModSum DEF Value
<1> QED
  BY <1>2, <1>3, <1>4 DEF Value

LEMMA ReturnResults ==
  ASSUME FibIInv, Results, at = "fib", stack # <<>>, Return(Value(Top.arg)),
         UNCHANGED <<at, args, out, status>>
  PROVE  Results'
<1>1. /\ stack' \in Seq(Frames)
      /\ Len(stack') = Len(stack) - 1
      /\ \A k \in 1 .. (Len(stack) - 1) : stack'[k] = stack[k]
  BY Popped DEF FibIInv, FibTypeOK, Return, Pop
<1>2. Len(stack) \in Nat /\ Len(stack) >= 1 /\ Top = stack[Len(stack)]
  BY TopIsFrame DEF FibIInv, Top
<1>3. res' = Value(Top.arg)
  BY DEF Return
<1>4. stack' # <<>> => Len(stack) >= 2 /\ stack'[1] = stack[1]
  <2>1. stack' # <<>> => Len(stack') >= 1
    BY <1>1, NonEmpty
  <2> QED
    BY <1>1, <1>2, <2>1
<1>5. Begun'
  BY <1>4 DEF Results, Begun, args
<1>6. Chained'
  <2> SUFFICES ASSUME NEW k \in 1 .. (Len(stack') - 1)
               PROVE  stack'[k].stage # "entry" /\ stack'[k + 1].arg = Awaited(stack'[k])
    BY DEF Chained, Awaited
  <2>1. k \in 1 .. (Len(stack) - 1) /\ k + 1 \in 1 .. (Len(stack) - 1)
    BY <1>1, <1>2
  <2>2. stack[k].stage # "entry" /\ stack[k + 1].arg = Awaited(stack[k])
    BY <2>1 DEF Results, Chained
  <2> QED
    BY <1>1, <2>1, <2>2
<1>7. KeptSums'
  BY <1>1, <1>2 DEF Results, KeptSums
<1>8. Delivered'
  <2>1. CASE stack' = <<>>
    <3>1. Len(stack) = 1
      BY <1>1, <1>2, <2>1
    <3>2. Top.arg = argv[2]
      BY <1>2, <3>1 DEF Results, Begun
    <3> QED
      BY <1>3, <2>1, <3>2 DEF Delivered, args
  <2>2. CASE stack' # <<>>
    <3>1. Len(stack) - 1 \in 1 .. (Len(stack) - 1) /\ (Len(stack) - 1) + 1 = Len(stack)
      BY <1>2, <1>4, <2>2
    <3>2. Top' = stack[Len(stack) - 1]
      BY <1>1, <3>1 DEF Top
    <3>3. Top.arg = Awaited(stack[Len(stack) - 1])
      BY <1>2, <3>1 DEF Results, Chained
    <3>4. res' = Value(Awaited(Top'))
      BY <1>3, <3>2, <3>3
    <3>5. Value(Awaited(Top')) = Value(Awaited(Top))'
      BY DEF Value, Awaited
    <3> QED
      BY <2>2, <3>4, <3>5 DEF Delivered
  <2> QED
    BY <2>1, <2>2
<1>9. PrintsFibonacci'
  BY DEF Results, PrintsFibonacci, args
<1> QED
  BY <1>5, <1>6, <1>7, <1>8, <1>9 DEF Results

LEMMA CallResults ==
  ASSUME FibIInv, Results, at = "fib", stack # <<>>,
         NEW f \in Frames, f.arg = Top.arg, f.stage # "entry",
         f.stage = "sum" => f.first = Value(f.arg - 1),
         NEW g \in Frames, g.arg = Awaited(f), g.stage = "entry",
         stack' = Append(Append(Pop, f), g),
         UNCHANGED <<at, args, res, out, status>>
  PROVE  Results'
<1>1. Len(stack) \in Nat /\ Len(stack) >= 1 /\ Top = stack[Len(stack)]
  BY TopIsFrame DEF FibIInv, Top
<1>2. /\ stack' \in Seq(Frames)
      /\ Len(stack') = Len(stack) + 1
      /\ stack'[Len(stack)] = f /\ stack'[Len(stack) + 1] = g
      /\ \A k \in 1 .. (Len(stack) - 1) : stack'[k] = stack[k]
  BY Called DEF FibIInv
<1>3. stack'[1].arg = stack[1].arg
  <2>1. CASE Len(stack) = 1
    BY <1>1, <1>2, <2>1
  <2>2. CASE Len(stack) # 1
    BY <1>1, <1>2, <2>2
  <2> QED
    BY <2>1, <2>2
<1>4. stack' # <<>>
  BY <1>1, <1>2, EmptySeq
<1>5. Begun'
  BY <1>3 DEF Results, Begun, args
<1>6. ASSUME NEW k \in 1 .. (Len(stack') - 1)
      PROVE  stack'[k].stage # "entry" /\ stack'[k + 1].arg = Awaited(stack'[k])
  <2>1. CASE k = Len(stack)
    BY <1>2, <2>1
  <2>2. CASE k = Len(stack) - 1
    <3>1. k \in 1 .. (Len(stack) - 1) /\ k + 1 = Len(stack)
      BY <1>1, <2>2, <1>6
    <3>2. stack[k].stage # "entry" /\ Top.arg = Awaited(stack[k])
      BY <1>1, <3>1 DEF Results, Chained
    <3> QED
      BY <1>2, <3>1, <3>2
  <2>3. CASE k < Len(stack) - 1
    <3>1. k \in 1 .. (Len(stack) - 1) /\ k + 1 \in 1 .. (Len(stack) - 1)
      BY <1>1, <2>3, <1>6
    <3> QED
      BY <1>2, <3>1 DEF Results, Chained
  <2> QED
    BY <1>1, <1>2, <2>1, <2>2, <2>3
<1>7. Chained'
  BY <1>6 DEF Chained, Awaited
<1>8. ASSUME NEW k \in 1 .. Len(stack')
      PROVE  stack'[k].stage = "sum" => stack'[k].first = Value(stack'[k].arg - 1)
  <2>1. CASE k < Len(stack)
    <3>1. k \in 1 .. (Len(stack) - 1) /\ k \in 1 .. Len(stack)
      BY <1>1, <2>1, <1>8
    <3> QED
      BY <1>2, <3>1 DEF Results, KeptSums
  <2>2. CASE k = Len(stack) \/ k = Len(stack) + 1
    BY <1>2, <2>2
  <2> QED
    BY <1>1, <1>2, <2>1, <2>2
<1>9. KeptSums'
  BY <1>8 DEF KeptSums, Value
<1>10. Delivered'
  <2>1. Top' = g
    BY <1>2 DEF Top
  <2> QED
    BY <1>4, <2>1 DEF Delivered
<1>11. PrintsFibonacci'
  BY DEF Results, PrintsFibonacci, args
<1> QED
  BY <1>5, <1>7, <1>9, <1>10, <1>11 DEF Results

(* What is printed before and after the recursion is one line.             *)
LEMMA LineOf ==
  ASSUME NEW a, NEW b, NEW c, NEW d, NEW e
  PROVE  <<a, b, c>> \o <<d, e>> = <<a, b, c, d, e>>
<1> DEFINE S == {a, b, c, d, e}
           s == <<a, b, c>>
           t == <<d, e>>
           u == <<a, b, c, d, e>>
<1>1. s \in Seq(S) /\ t \in Seq(S) /\ u \in Seq(S) /\ Len(s) = 3 /\ Len(t) = 2 /\ Len(u) = 5
  OBVIOUS
<1>2. s[1] = a /\ s[2] = b /\ s[3] = c /\ t[1] = d /\ t[2] = e
  OBVIOUS
<1>3. u[1] = a /\ u[2] = b /\ u[3] = c /\ u[4] = d /\ u[5] = e
  OBVIOUS
<1> HIDE DEF S, s, t, u
<1>4. /\ s \o t \in Seq(S) /\ Len(s \o t) = 5
      /\ \A k \in 1 .. 5 : (s \o t)[k] = IF k <= 3 THEN s[k] ELSE t[k - 3]
  <2>1. /\ s \o t \in Seq(S) /\ Len(s \o t) = Len(s) + Len(t)
        /\ \A k \in 1 .. Len(s) + Len(t) :
             (s \o t)[k] = IF k <= Len(s) THEN s[k] ELSE t[k - Len(s)]
    BY <1>1, ConcatProperties, Zenon
  <2>2. Len(s) + Len(t) = 5
    BY <1>1
  <2> QED
    BY <1>1, <2>1, <2>2
<1>5. \A k \in 1 .. 5 : (s \o t)[k] = u[k]
  <2>1. \A k \in 1 .. 5 : k = 1 \/ k = 2 \/ k = 3 \/ k = 4 \/ k = 5
    OBVIOUS
  <2>2. /\ 1 \in 1 .. 5 /\ 2 \in 1 .. 5 /\ 3 \in 1 .. 5 /\ 4 \in 1 .. 5 /\ 5 \in 1 .. 5
        /\ 4 - 3 = 1 /\ 5 - 3 = 2
    OBVIOUS
  <2>3. (s \o t)[1] = s[1] /\ (s \o t)[2] = s[2] /\ (s \o t)[3] = s[3]
    BY <1>4, <2>2
  <2>4. (s \o t)[4] = t[1] /\ (s \o t)[5] = t[2]
    BY <1>4, <2>2
  <2>5. /\ (s \o t)[1] = u[1] /\ (s \o t)[2] = u[2] /\ (s \o t)[3] = u[3]
        /\ (s \o t)[4] = u[4] /\ (s \o t)[5] = u[5]
    BY <1>2, <1>3, <2>3, <2>4
  <2> QED
    BY <2>1, <2>5
<1>6. s \o t = u
  BY <1>1, <1>4, <1>5, SeqEqual
<1> QED
  BY <1>6 DEF s, t, u

LEMMA InitResults == FibInit => Results
  BY DEF FibInit, Results, Begun, Chained, KeptSums, Delivered, PrintsFibonacci

LEMMA StepResults == FibIInv /\ Results /\ [FibNext]_fib_vars => Results'
<1> SUFFICES ASSUME FibIInv, Results, [FibNext]_fib_vars PROVE Results'
  OBVIOUS
<1>1. CASE args_to_main
  <2>1. stack = <<>> /\ stack' = <<>> /\ at' = "main" /\ argv' = block /\ block' = block
    BY <1>1 DEF args_to_main, FibIInv, Started
  <2> QED
    BY <2>1 DEF Results, Begun, Chained, KeptSums, Delivered, PrintsFibonacci
<1>2. CASE MissingArguments
  <2>1. /\ stack = <<>> /\ stack' = <<>> /\ at' = "terminated" /\ status' = 1
        /\ argv' = argv /\ block' = block /\ argv = block
    BY <1>2 DEF MissingArguments, args, FibIInv, Started, Results, Begun
  <2>2. argc < 2 /\ argc = Len(argv)
    BY <1>2 DEF MissingArguments, FibIInv, FibTypeOK
  <2>3. Len(argv) # 2
    BY <2>2
  <2> QED
    BY <2>1, <2>3 DEF Results, Begun, Chained, KeptSums, Delivered, PrintsFibonacci
<1>3. CASE Main
  <2> DEFINE e == Entry(argv[2])
  <2>1. argv[2] \in Nat /\ Len(argv) = 2
    <3>1. argc >= 2 /\ argc = Len(argv) /\ argv \in Lines
      BY <1>3 DEF Main, FibIInv, FibTypeOK
    <3> QED
      BY <3>1, ArgumentIsNat DEF FibIInv, Lines
  <2>2. e \in Frames /\ e.arg = argv[2] /\ e.stage = "entry"
    BY <2>1, FrameIsFrame DEF Entry, Stages
  <2>3. /\ stack' = <<e>> /\ at' = "fib" /\ argv' = argv /\ block' = block /\ argv = block
        /\ out' = <<"fib(", argv[2], ") = ">>
    BY <1>3 DEF Main, args, Results, Begun
  <2> HIDE DEF e
  <2>4. Len(stack') = 1 /\ stack'[1] = e /\ stack' # <<>> /\ Top' = e
    BY <2>2, <2>3, SingletonStack DEF Top
  <2>5. Begun'
    BY <2>1, <2>2, <2>3, <2>4 DEF Begun
  <2>6. Chained' /\ KeptSums'
    BY <2>2, <2>4 DEF Chained, KeptSums
  <2>7. Delivered' /\ PrintsFibonacci'
    BY <2>2, <2>3, <2>4 DEF Delivered, PrintsFibonacci
  <2> QED
    BY <2>5, <2>6, <2>7 DEF Results
<1>4. ASSUME at = "fib", stack # <<>>
      PROVE  /\ Top \in Frames /\ Top.arg \in Nat
             /\ Top.arg < Modulus
             /\ Top.stage # "entry" => Top.arg >= 2 /\ res = Value(Awaited(Top))
             /\ Top.stage = "sum" => Top.first = Value(Top.arg - 1)
  <2>1. Top \in Frames /\ Len(stack) \in Nat /\ Len(stack) >= 1 /\ Top = stack[Len(stack)]
    BY <1>4, TopIsFrame DEF FibIInv, Top
  <2>2. Len(stack) \in 1 .. Len(stack)
    BY <2>1
  <2>3. argv[2] \in Nat /\ argv[2] < Modulus
    <3>1. argc >= 2 /\ argc = Len(argv) /\ argv \in Lines
      BY <1>4 DEF FibIInv, FibTypeOK, Started
    <3> QED
      BY <3>1, FibAssumption DEF Lines
  <2>4. Top.arg \in Nat
    BY <2>1 DEF Frames
  <2>5. Top.arg + Len(stack) <= argv[2] + 1
    BY <2>1, <2>2 DEF FibIInv, DepthBounded
  <2>6. Top.arg < Modulus
    <3>1. Modulus \in Nat
      BY FibAssumption
    <3> QED
      BY <2>1, <2>3, <2>4, <2>5, <3>1
  <2>7. Top.stage # "entry" => Top.arg >= 2
    BY <2>1, <2>2 DEF FibIInv, Callers
  <2>8. Top.stage # "entry" => res = Value(Awaited(Top))
    BY <1>4 DEF Results, Delivered
  <2>9. Top.stage = "sum" => Top.first = Value(Top.arg - 1)
    BY <2>1, <2>2 DEF Results, KeptSums
  <2> QED
    BY <2>1, <2>4, <2>6, <2>7, <2>8, <2>9
<1>5. CASE SmallFib
  <2>1. at = "fib" /\ stack # <<>> /\ Top.arg < 2 /\ Return(Top.arg) /\ UNCHANGED <<at, args, out, status>>
    BY <1>5 DEF SmallFib, InFib
  <2>2. Value(Top.arg) = Top.arg
    BY <1>4, <2>1, ValueFacts
  <2> QED
    BY <2>1, <2>2, ReturnResults
<1>6. CASE FirstCall
  <2> DEFINE f == Frame(Top.arg, "second", 0)
             g == Entry(Top.arg - 1)
  <2>1. at = "fib" /\ stack # <<>> /\ Top.arg >= 2 /\ Top.arg \in Nat
    BY <1>4, <1>6 DEF FirstCall, InFib
  <2>2. /\ f \in Frames /\ f.arg = Top.arg /\ f.stage = "second"
        /\ g \in Frames /\ g.arg = Top.arg - 1 /\ g.stage = "entry"
    BY <2>1, FrameIsFrame DEF Stages, Entry
  <2>3. stack' = Append(Append(Pop, f), g) /\ UNCHANGED <<at, args, res, out, status>>
    BY <1>6 DEF FirstCall, FirstArg
  <2> HIDE DEF f, g
  <2>4. g.arg = Awaited(f)
    BY <2>2 DEF Awaited
  <2> QED
    BY <2>1, <2>2, <2>3, <2>4, CallResults
<1>7. CASE SecondCall
  <2> DEFINE f == Frame(Top.arg, "sum", res)
             g == Entry(Top.arg - 2)
  <2>1. at = "fib" /\ stack # <<>> /\ Top.stage = "second" /\ Top.arg >= 2 /\ Top.arg \in Nat
        /\ res = Value(Awaited(Top)) /\ res \in Int
    BY <1>4, <1>7 DEF SecondCall, InFib, FibIInv, FibTypeOK
  <2>2. /\ f \in Frames /\ f.arg = Top.arg /\ f.stage = "sum" /\ f.first = res
        /\ g \in Frames /\ g.arg = Top.arg - 2 /\ g.stage = "entry"
    BY <2>1, FrameIsFrame DEF Stages, Entry, Frame
  <2>3. stack' = Append(Append(Pop, f), g) /\ UNCHANGED <<at, args, res, out, status>>
    BY <1>7 DEF SecondCall, Kept
  <2> HIDE DEF f, g
  <2>4. g.arg = Awaited(f)
    BY <2>2 DEF Awaited
  <2>5. f.first = Value(f.arg - 1)
    BY <2>1, <2>2 DEF Awaited
  <2> QED
    BY <2>1, <2>2, <2>3, <2>4, <2>5, CallResults
<1>8. CASE SumUp
  <2>1. /\ at = "fib" /\ stack # <<>> /\ Top.stage = "sum"
        /\ Return((Top.first + res) % Modulus) /\ UNCHANGED <<at, args, out, status>>
    BY <1>8 DEF SumUp, InFib
  <2>2. Top.arg \in Nat /\ Top.arg >= 2 /\ Top.first = Value(Top.arg - 1) /\ res = Value(Top.arg - 2)
    BY <1>4, <2>1 DEF Awaited
  <2>3. (Top.first + res) % Modulus = Value(Top.arg)
    BY <2>2, ValueFacts
  <2> QED
    BY <2>1, <2>3, ReturnResults
<1>9. CASE EndMain
  <2>1. /\ stack' = stack /\ stack = <<>> /\ at = "fib" /\ at' = "terminated" /\ status' = 0
        /\ argv' = argv /\ block' = block /\ out' = out \o <<res, "\n">>
    BY <1>9 DEF EndMain, args
  <2>2. /\ argv = block /\ out = <<"fib(", argv[2], ") = ">> /\ res = Value(argv[2])
    BY <2>1 DEF Results, Begun, Delivered
  <2>3. Len(block) = 2
    BY <2>1, <2>2 DEF Results, Begun
  <2>4. out' = <<"fib(", block[2], ") = ", Fibonacci[block[2]] % Modulus, "\n">>
    BY <2>1, <2>2, LineOf DEF Value
  <2>5. PrintsFibonacci'
    BY <2>1, <2>3, <2>4 DEF PrintsFibonacci
  <2> QED
    BY <2>1, <2>2, <2>5 DEF Results, Begun, Chained, KeptSums, Delivered
<1>10. CASE UNCHANGED fib_vars
  BY <1>10 DEF fib_vars, args, Results, Begun, Chained, KeptSums, Delivered, Top, PrintsFibonacci
<1> QED
  BY <1>1, <1>2, <1>3, <1>5, <1>6, <1>7, <1>8, <1>9, <1>10 DEF FibNext

(* fib.c prints the Fibonacci number of its argument as far as the word    *)
(* holds it, and complains when it has none: for every argument and every  *)
(* width of the word.                                                      *)
THEOREM FibonacciPrinted == FibSpec => []PrintsFibonacci
<1>1. FibIInv /\ Results => PrintsFibonacci
  BY DEF Results
<1>2. FibInit => FibIInv /\ Results
  BY FibInitHolds, InitResults
<1>3. FibIInv /\ Results /\ [FibNext]_fib_vars => FibIInv' /\ Results'
  BY FibStepHolds, StepResults
<1> QED
  BY <1>1, <1>2, <1>3, PTL DEF FibSpec

-----------------------------------------------------------------------------
SieveTypeOK ==
  /\ loop \in {"outer", "inner", "returned"}
  /\ numbers \in [Index -> {0, 1}]
  /\ i \in Nat /\ i >= 2 /\ i <= MAX
  /\ j \in Nat
  /\ printed \in Seq(Nat)

InnerLoop ==
  loop = "inner" => /\ i < MAX /\ ~ Composite(i)
                    /\ \E m \in Nat : m >= 1 /\ j = i * m

(* What is printed is below what comes next.                               *)
PrintedBelow ==
  \A n \in DOMAIN printed : printed[n] < i \/ (loop = "inner" /\ printed[n] = i)

SieveIInv == SieveTypeOK /\ InnerLoop /\ CrossedAreMultiples /\ PrintedBelow /\ PrintsThePrimes

-----------------------------------------------------------------------------
(* A factor of a number other than 0 is not larger than the number.        *)
LEMMA FactorBound ==
  ASSUME NEW d \in Nat, NEW q \in Nat, d >= 1
  PROVE  q <= d * q
<1>1. d * q = q + (d - 1) * q
  OBVIOUS
<1>2. (d - 1) * q \in Nat
  <2>1. d - 1 \in Nat
    OBVIOUS
  <2> QED BY <2>1
<1> QED BY <1>1, <1>2

(* Products keep the order of their factors.                               *)
LEMMA ProductMono ==
  ASSUME NEW a \in Nat, NEW b \in Nat, NEW c \in Nat, a <= b
  PROVE  c * a <= c * b
<1>1. b - a \in Nat
  OBVIOUS
<1>2. c * (b - a) \in Nat
  BY <1>1
<1>3. c * b = c * a + c * (b - a)
  BY <1>1
<1> QED BY <1>2, <1>3

(* A divisor of a divisor is a divisor.                                    *)
LEMMA DividesTransitive ==
  ASSUME NEW d \in Nat, NEW k \in Nat, NEW n \in Index, d >= 1,
         Divides(d, k), Divides(k, n)
  PROVE  Divides(d, n)
<1>1. PICK q \in Index : k = d * q
  BY DEF Divides
<1>2. PICK r \in Index : n = k * r
  BY DEF Divides
<1>3. MAX \in Nat
  BY MaxAssumption
<1>4. q \in Nat /\ r \in Nat /\ n \in Nat /\ n < MAX
  BY <1>3 DEF Index
<1>5. q * r \in Nat
  BY <1>4
<1>6. n = d * (q * r)
  BY <1>1, <1>2, <1>4
<1>7. q * r <= n
  BY <1>5, <1>6, FactorBound
<1>8. q * r \in Index
  BY <1>3, <1>4, <1>5, <1>7 DEF Index
<1> QED BY <1>6, <1>8 DEF Divides

(* Between two multiples of n that follow each other there is no multiple. *)
LEMMA NextMultipleFollows ==
  ASSUME NEW n \in Nat, NEW m \in Nat, NEW k \in Nat, Divides(n, k), k < n * m + n
  PROVE  k <= n * m
<1>1. PICK q \in Nat : k = n * q
  BY MaxAssumption DEF Divides, Index
<1>2. SUFFICES ASSUME q > m PROVE FALSE
  <2>1. CASE q <= m
    BY <1>1, <2>1, ProductMono
  <2> QED BY <1>1, <1>2, <2>1
<1>3. m + 1 \in Nat /\ m + 1 <= q
  BY <1>1, <1>2
<1>4. n * (m + 1) <= n * q
  BY <1>3, <1>1, ProductMono
<1>5. n * (m + 1) = n * m + n
  OBVIOUS
<1>6. n * m \in Nat
  OBVIOUS
<1> QED BY <1>1, <1>4, <1>5, <1>6

(* Every index divides itself.                                             *)
LEMMA DividesItself ==
  ASSUME NEW k \in Index
  PROVE  Divides(k, k)
<1>1. 1 \in Index /\ k \in Nat
  BY MaxAssumption DEF Index
<1>2. k = k * 1
  BY <1>1
<1> QED BY <1>1, <1>2 DEF Divides

-----------------------------------------------------------------------------
LEMMA SieveInitHolds == SieveInit => SieveIInv
<1> SUFFICES ASSUME SieveInit PROVE SieveIInv
  OBVIOUS
<1>1. SieveTypeOK
  BY MaxAssumption DEF SieveInit, SieveTypeOK
<1>2. InnerLoop /\ CrossedAreMultiples
  BY MaxAssumption DEF SieveInit, InnerLoop, CrossedAreMultiples, Composite, Index
<1>3. PrintedBelow /\ PrintsThePrimes
  BY DEF SieveInit, PrintedBelow, PrintsThePrimes
<1> QED BY <1>1, <1>2, <1>3 DEF SieveIInv

(* Looking at one number more.                                             *)
LEMMA CompositeNext ==
  ASSUME SieveTypeOK, NEW k
  PROVE  (\E d \in 2 .. ((i + 1) - 1) : Divides(d, k)) <=> Composite(k) \/ Divides(i, k)
<1>1. 2 .. ((i + 1) - 1) = 2 .. (i - 1) \cup {i}
  BY DEF SieveTypeOK
<1> QED BY <1>1 DEF Composite

(* A number already crossed is no prime, and its multiples are crossed.    *)
LEMMA CrossedPreserves ==
  ASSUME SieveIInv, Crossed
  PROVE  SieveIInv'
<1> USE DEF Crossed
<1>1. MAX \in Nat /\ i \in Nat /\ i >= 2 /\ i < MAX /\ i \in Index
  BY MaxAssumption DEF SieveIInv, SieveTypeOK, Index
<1>2. PICK d \in 2 .. (i - 1) : Divides(d, i)
  BY <1>1 DEF SieveIInv, CrossedAreMultiples, Composite
<1>3. SieveTypeOK'
  BY <1>1 DEF SieveIInv, SieveTypeOK
<1>4. InnerLoop'
  BY DEF InnerLoop
<1>5. CrossedAreMultiples'
  <2> SUFFICES ASSUME NEW k \in 2 .. (MAX - 1)
               PROVE  numbers[k] = 0 <=> \E e \in 2 .. ((i + 1) - 1) : Divides(e, k)
    BY DEF CrossedAreMultiples, Composite
  <2>1. numbers[k] = 0 <=> Composite(k)
    BY DEF SieveIInv, CrossedAreMultiples
  <2>2. Divides(i, k) => Composite(k)
    <3>1. k \in Index
      BY <1>1 DEF Index
    <3>2. d \in Nat /\ d >= 1
      BY <1>1
    <3> QED BY <1>1, <1>2, <3>1, <3>2, DividesTransitive DEF Composite
  <2> QED BY <2>1, <2>2, CompositeNext DEF SieveIInv
<1>6. PrintedBelow'
  <2>1. printed \in Seq(Nat)
    BY DEF SieveIInv, SieveTypeOK
  <2>2. \A n \in DOMAIN printed : printed[n] < i
    BY DEF SieveIInv, PrintedBelow
  <2>3. \A n \in DOMAIN printed : printed[n] \in Nat
    BY <2>1
  <2> QED BY <1>1, <2>2, <2>3 DEF PrintedBelow
<1>7. PrintsThePrimes'
  <2>1. ~ IsPrime(i)
    BY <1>2 DEF IsPrime
  <2>2. {k \in 2 .. ((i + 1) - 1) : IsPrime(k)} = {k \in 2 .. (i - 1) : IsPrime(k)}
    BY <1>1, <2>1
  <2> QED BY <2>2 DEF SieveIInv, PrintsThePrimes
<1> QED BY <1>3, <1>4, <1>5, <1>6, <1>7 DEF SieveIInv

(* A number not crossed has no smaller divisor: it is a prime.             *)
LEMMA PrintPreserves ==
  ASSUME SieveIInv, PrintPrime
  PROVE  SieveIInv'
<1> USE DEF PrintPrime
<1>1. MAX \in Nat /\ i \in Nat /\ i >= 2 /\ i < MAX /\ i \in 2 .. (MAX - 1)
  BY MaxAssumption DEF SieveIInv, SieveTypeOK
<1>2. ~ Composite(i)
  BY <1>1 DEF SieveIInv, CrossedAreMultiples
<1>3. printed \in Seq(Nat) /\ printed' = Append(printed, i)
  BY DEF SieveIInv, SieveTypeOK
<1>4. SieveTypeOK'
  BY <1>1, <1>3 DEF SieveIInv, SieveTypeOK
<1>5. InnerLoop'
  <2>1. i = i * 1
    BY <1>1
  <2> QED BY <1>1, <1>2, <2>1 DEF InnerLoop, Composite
<1>6. CrossedAreMultiples'
  <2> SUFFICES ASSUME NEW k \in 2 .. (MAX - 1)
               PROVE  numbers[k] = 0 <=> Composite(k) \/ (k < i /\ Divides(i, k))
    BY DEF CrossedAreMultiples, Composite
  <2>1. numbers[k] = 0 <=> Composite(k)
    BY DEF SieveIInv, CrossedAreMultiples
  <2>2. ASSUME k < i, Divides(i, k) PROVE FALSE
    <3>1. i * 0 = 0 /\ k \in Nat /\ k >= 2 /\ 0 \in Nat
      BY <1>1
    <3>2. k < i * 0 + i
      BY <1>1, <2>2, <3>1
    <3>3. k <= i * 0
      BY <1>1, <2>2, <3>1, <3>2, NextMultipleFollows
    <3> QED BY <3>1, <3>3
  <2> QED BY <2>1, <2>2
<1>7. \A n \in DOMAIN printed : printed[n] < i
  BY DEF SieveIInv, PrintedBelow
<1>8. PrintedBelow'
  BY <1>1, <1>3, <1>7 DEF PrintedBelow
<1>9. PrintsThePrimes'
  <2>1. IsPrime(i)
    BY <1>1, <1>2 DEF IsPrime, Composite
  <2>2. {k \in 2 .. i : IsPrime(k)} = {k \in 2 .. (i - 1) : IsPrime(k)} \cup {i}
    BY <1>1, <2>1
  <2>3. {printed'[n] : n \in DOMAIN printed'} = {printed[n] : n \in DOMAIN printed} \cup {i}
    <3>1. Len(printed) \in Nat /\ DOMAIN printed = 1 .. Len(printed)
      BY <1>3
    <3>2. DOMAIN printed' = DOMAIN printed \cup {Len(printed) + 1}
      BY <1>1, <1>3, <3>1
    <3>3. \A n \in DOMAIN printed : printed'[n] = printed[n]
      BY <1>1, <1>3
    <3>4. printed'[Len(printed) + 1] = i
      BY <1>1, <1>3
    <3> QED BY <3>2, <3>3, <3>4
  <2>4. {printed[n] : n \in DOMAIN printed} = {k \in 2 .. (i - 1) : IsPrime(k)}
    BY DEF SieveIInv, PrintsThePrimes
  <2>5. \A m, n \in DOMAIN printed : m < n => printed[m] < printed[n]
    BY DEF SieveIInv, PrintsThePrimes
  <2>6. \A m, n \in DOMAIN printed' : m < n => printed'[m] < printed'[n]
    BY <1>1, <1>3, <1>7, <2>5
  <2> QED BY <2>2, <2>3, <2>4, <2>6 DEF PrintsThePrimes
<1> QED BY <1>4, <1>5, <1>6, <1>8, <1>9 DEF SieveIInv

(* The next multiple of i is crossed, and nothing is between the two.      *)
LEMMA CrossPreserves ==
  ASSUME SieveIInv, Cross
  PROVE  SieveIInv'
<1> USE DEF Cross, NextMultiple
<1>1. MAX \in Nat /\ i \in Nat /\ i >= 2 /\ j \in Nat /\ j \in Index
  BY MaxAssumption DEF SieveIInv, SieveTypeOK, Index
<1>2. PICK m \in Nat : m >= 1 /\ j = i * m
  BY DEF SieveIInv, InnerLoop
<1>3. numbers \in [Index -> {0, 1}]
  BY DEF SieveIInv, SieveTypeOK
<1>4. SieveTypeOK'
  BY <1>1, <1>3 DEF SieveIInv, SieveTypeOK
<1>5. InnerLoop'
  <2>1. j + i = i * (m + 1) /\ m + 1 \in Nat /\ m + 1 >= 1
    BY <1>1, <1>2
  <2> QED BY <2>1 DEF SieveIInv, InnerLoop, Composite
<1>6. CrossedAreMultiples'
  <2> SUFFICES ASSUME NEW k \in 2 .. (MAX - 1)
               PROVE  numbers'[k] = 0 <=> Composite(k) \/ (k < j + i /\ Divides(i, k))
    BY DEF CrossedAreMultiples, Composite
  <2>1. numbers[k] = 0 <=> Composite(k) \/ (k < j /\ Divides(i, k))
    BY DEF SieveIInv, CrossedAreMultiples
  <2>2. k \in Nat /\ k \in Index
    BY <1>1 DEF Index
  <2>3. CASE k = j
    <3>1. m <= j
      BY <1>1, <1>2, FactorBound
    <3>2. m \in Index
      BY <1>1, <1>2, <3>1 DEF Index
    <3>3. Divides(i, k)
      BY <1>2, <2>3, <3>2 DEF Divides
    <3>4. numbers'[k] = 0
      BY <1>1, <1>3, <2>3
    <3> QED BY <1>1, <2>3, <3>3, <3>4
  <2>4. CASE k # j
    <3>1. numbers'[k] = numbers[k]
      BY <1>3, <2>2, <2>4
    <3>2. ASSUME k < j + i, Divides(i, k) PROVE k < j
      <4>1. k < i * m + i
        BY <1>2, <3>2
      <4>2. k <= i * m
        BY <1>1, <2>2, <3>2, <4>1, NextMultipleFollows
      <4> QED BY <1>1, <1>2, <2>2, <2>4, <4>2
    <3>3. k < j => k < j + i
      BY <1>1, <2>2
    <3> QED BY <2>1, <3>1, <3>2, <3>3
  <2> QED BY <2>3, <2>4
<1>7. PrintedBelow' /\ PrintsThePrimes'
  BY DEF SieveIInv, PrintedBelow, PrintsThePrimes
<1> QED BY <1>4, <1>5, <1>6, <1>7 DEF SieveIInv

(* All multiples of i are crossed when the inner loop ends.                *)
LEMMA EndInnerPreserves ==
  ASSUME SieveIInv, EndInner
  PROVE  SieveIInv'
<1> USE DEF EndInner
<1>1. MAX \in Nat /\ i \in Nat /\ i >= 2 /\ j \in Nat /\ j >= MAX
  BY MaxAssumption DEF SieveIInv, SieveTypeOK
<1>2. SieveTypeOK' /\ InnerLoop'
  BY <1>1 DEF SieveIInv, SieveTypeOK, InnerLoop
<1>3. CrossedAreMultiples'
  <2> SUFFICES ASSUME NEW k \in 2 .. (MAX - 1)
               PROVE  numbers[k] = 0 <=> \E d \in 2 .. ((i + 1) - 1) : Divides(d, k)
    BY DEF CrossedAreMultiples, Composite
  <2>1. numbers[k] = 0 <=> Composite(k) \/ (k < j /\ Divides(i, k))
    BY DEF SieveIInv, CrossedAreMultiples
  <2>2. k < j
    BY <1>1
  <2> QED BY <2>1, <2>2, CompositeNext DEF SieveIInv
<1>4. PrintedBelow'
  <2>1. printed \in Seq(Nat)
    BY DEF SieveIInv, SieveTypeOK
  <2>2. \A n \in DOMAIN printed : printed[n] \in Nat /\ (printed[n] < i \/ printed[n] = i)
    BY <2>1 DEF SieveIInv, PrintedBelow
  <2> QED BY <1>1, <2>2 DEF PrintedBelow
<1>5. PrintsThePrimes'
  <2>1. (i + 1) - 1 = i
    BY <1>1
  <2> QED BY <2>1 DEF SieveIInv, PrintsThePrimes
<1> QED BY <1>2, <1>3, <1>4, <1>5 DEF SieveIInv

LEMMA SieveStepHolds == SieveIInv /\ [SieveNext]_sieve_vars => SieveIInv'
<1> SUFFICES ASSUME SieveIInv, [SieveNext]_sieve_vars PROVE SieveIInv'
  OBVIOUS
<1>1. CASE EndOuter
  <2>1. i = MAX
    BY <1>1, MaxAssumption DEF EndOuter, SieveIInv, SieveTypeOK
  <2>2. PrintsThePrimes'
    BY <1>1, <2>1 DEF EndOuter, SieveIInv, PrintsThePrimes
  <2> QED
    BY <1>1, <2>2 DEF EndOuter, SieveIInv, SieveTypeOK, InnerLoop, CrossedAreMultiples, Composite,
                      PrintedBelow
<1>2. CASE UNCHANGED sieve_vars
  BY <1>2 DEF sieve_vars, SieveIInv, SieveTypeOK, InnerLoop, CrossedAreMultiples, Composite,
              PrintedBelow, PrintsThePrimes
<1> QED BY <1>1, <1>2, CrossedPreserves, PrintPreserves, CrossPreserves, EndInnerPreserves DEF SieveNext

LEMMA SieveInvariant == SieveSpec => []SieveIInv
  BY SieveInitHolds, SieveStepHolds, PTL DEF SieveSpec

(* For every MAX, erat.c prints the primes below MAX, in order: at every   *)
(* iteration those it has looked at, each once, and all at the end.        *)
THEOREM PrimesPrinted == SieveSpec => []PrintsThePrimes
<1>1. SieveIInv => PrintsThePrimes
  BY DEF SieveIInv
<1> QED BY SieveInvariant, <1>1, PTL

(* For every MAX, the array of erat.c tells the multiples of the numbers   *)
(* looked at apart from the rest, at every iteration of both loops.        *)
THEOREM MultiplesCrossed == SieveSpec => []CrossedAreMultiples
<1>1. SieveIInv => CrossedAreMultiples
  BY DEF SieveIInv
<1> QED BY SieveInvariant, <1>1, PTL

-----------------------------------------------------------------------------
(* radix.c.  Owners are the pointers of the tree: the root's and those of  *)
(* the interior nodes.                                                     *)
Interior == {n \in DOMAIN node : ~ IsLeaf(n)}
Owners == {Root} \cup (Interior \X Fields)

RadixPhases == {"start", "read", "add", "batch", "take", "write", "release", "terminated"}
CallStages == {"zero", "leaf", "one", "both"}
NodeRecords == [bit_pos : BitPos, number : Numbers, lo : Nat \cup Nodes, hi : Nat \cup Nodes]
TakeFrames == [parent : {Root} \cup (Nodes \X Fields), nptr : Nodes \cup {NULL}, stage : CallStages]
ReleaseFrames == [nptr : Nodes \cup {NULL}, stage : {"zero", "one", "both"}]

NodesOK ==
  /\ DOMAIN node \subseteq Nodes /\ IsFiniteSet(DOMAIN node)
  /\ node \in [DOMAIN node -> NodeRecords]
  /\ \A n \in DOMAIN node : IsLeaf(n) => node[n].lo \in Nat /\ node[n].hi \in Nat

RadixTypeOK ==
  /\ phase \in RadixPhases
  /\ NodesOK
  /\ requests \in 0 .. MaxRequests
  /\ calls \in Seq(IF phase = "release" THEN ReleaseFrames ELSE TakeFrames)
  /\ phase \notin {"take", "release"} => calls = <<>>

Building == phase \notin {"release", "terminated"}

(* Until release_tree the pointers lead to nodes, each node to one pointer. *)
TreeOwned ==
  Building =>
    /\ \A p \in Owners : Deref(p) \in DOMAIN node \cup {NULL}
    /\ \A p, q \in Owners : Deref(p) = Deref(q) /\ Deref(p) # NULL => p = q
    /\ \A n \in DOMAIN node : \E p \in Owners : Deref(p) = n

(* parent is at a node whose position is the next above bit_pos, and which *)
(* agrees with the number in all bits above and leads to it in its own.    *)
Adding ==
  phase = "add" =>
    /\ number \in Numbers /\ bit_pos \in BitPos
    /\ parent \in Owners
    /\ parent = Root => bit_pos = MaxBit
    /\ parent # Root =>
         LET m == node[parent[1]]
         IN  /\ m.bit_pos = 2 * bit_pos
             /\ Side(m.bit_pos, number) = parent[2]
             /\ number \div (2 * m.bit_pos) = m.number \div (2 * m.bit_pos)

(* The calls of take_numbers_2 are a path from the root, by the side each  *)
(* call is at.  Positions get lower along it, so that no node is met twice. *)
Path ==
  phase = "take" =>
    /\ \A k \in 1 .. Len(calls) :
         /\ calls[k].parent \in Owners
         /\ calls[k].nptr = Deref(calls[k].parent)
         /\ calls[k].stage = "leaf" => calls[k].nptr \in DOMAIN node /\ IsLeaf(calls[k].nptr)
         /\ calls[k].stage \in {"one", "both"} => calls[k].nptr \in Interior
         /\ k = 1 => calls[k].parent = Root
    /\ \A k \in 1 .. Len(calls) : k < Len(calls) =>
         /\ calls[k].stage \in {"one", "both"}
         /\ calls[k + 1].parent = <<calls[k].nptr, IF calls[k].stage = "one" THEN "lo" ELSE "hi">>
    /\ \A w, k \in 1 .. Len(calls) :
         w < k /\ calls[k].nptr # NULL => node[calls[k].nptr].bit_pos < node[calls[w].nptr].bit_pos

(* Only what the open calls have taken from can be empty.                  *)
Emptied(n) == phase = "take" /\ \E k \in 1 .. Len(calls) : calls[k].nptr = n /\ calls[k].stage # "zero"
NoneHollow == Building => \A n \in DOMAIN node : Hollow(n) => Emptied(n)

(* What release_tree has still to follow.                                  *)
Passed(n, f) == \E k \in 1 .. Len(calls) :
   calls[k].nptr = n /\ (calls[k].stage = "both" \/ (calls[k].stage = "one" /\ f = "lo"))
Left == {p \in Interior \X Fields : ~ Passed(p[1], p[2])}

(* Each node not yet released is reached from one place: an open call, or a *)
(* pointer that no open call has followed.                                 *)
ReleaseOwned ==
  phase = "release" =>
    /\ \A k \in 1 .. Len(calls) : calls[k].nptr \in DOMAIN node \cup {NULL}
    /\ \A k \in 1 .. Len(calls) : calls[k].stage # "zero" => calls[k].nptr \in Interior
    /\ \A w, k \in 1 .. Len(calls) : calls[w].nptr = calls[k].nptr /\ calls[w].nptr # NULL => w = k
    /\ \A p \in Left : Deref(p) \in DOMAIN node \cup {NULL}
    /\ \A p, q \in Left : Deref(p) = Deref(q) /\ Deref(p) # NULL => p = q
    /\ \A k \in 1 .. Len(calls), p \in Left : calls[k].nptr = Deref(p) => Deref(p) = NULL
    /\ \A n \in DOMAIN node :
         (\E k \in 1 .. Len(calls) : calls[k].nptr = n) \/ (\E p \in Left : Deref(p) = n)
    /\ \A p \in Left : Deref(p) # NULL => node[Deref(p)].bit_pos < node[p[1]].bit_pos

AllReleased == phase \in {"start", "terminated"} => DOMAIN node = {}

(* A number needs no more than a leaf and a branch.                        *)
NodesNeeded ==
  Cardinality(DOMAIN node) <= 2 * requests - (IF phase = "add" THEN IF nptr = NULL THEN 1 ELSE 2 ELSE 0)

RadixIInv ==
  /\ RadixTypeOK /\ TreeOwned /\ RadixShape /\ Adding /\ Path /\ NoneHollow
  /\ ReleaseOwned /\ AllReleased /\ NodesNeeded

(* One-hot positions: half of one is one, and the next one is its double.  *)
LEMMA Positions ==
  ASSUME NEW b \in BitPos
  PROVE  /\ b \in Nat \ {0} /\ b <= MaxBit
         /\ b # 1 => b \div 2 \in BitPos /\ b = 2 * (b \div 2)
         /\ \A c \in BitPos : c < b => 2 * c <= b
<1>1. b \in Nat \ {0} /\ b <= MaxBit /\ MaxBit \in Nat
  BY RadixAssumption DEF BitPos
<1>2. PICK k \in 0 .. 30 : b = 2^k
  BY DEF BitPos
<1>3. ASSUME b # 1
      PROVE  b \div 2 \in BitPos /\ b = 2 * (b \div 2)
  <2>1. k # 0
    <3>1. 2^0 = 1
      BY Powers
    <3> QED BY <1>2, <1>3, <3>1
  <2>2. 2^(k - 1) \in Nat \ {0} /\ 2^((k - 1) + 1) = 2 * 2^(k - 1)
    BY <2>1, Powers
  <2>3. (k - 1) + 1 = k /\ k - 1 \in 0 .. 30
    BY <2>1
  <2>4. b = 2 * 2^(k - 1)
    BY <1>2, <2>2, <2>3
  <2>5. b \div 2 = 2^(k - 1)
    BY <2>2, <2>4
  <2>6. 2^(k - 1) \in 1 .. MaxBit
    BY <1>1, <2>2, <2>4
  <2> QED BY <2>3, <2>4, <2>5, <2>6 DEF BitPos
<1>4. ASSUME NEW c \in BitPos, c < b
      PROVE  2 * c <= b
  <2>1. PICK w \in 0 .. 30 : c = 2^w
    BY DEF BitPos
  <2>2. w < k
    <3>1. SUFFICES ASSUME k <= w PROVE FALSE
      OBVIOUS
    <3>2. 2^k <= 2^w
      BY <3>1, PowerUp
    <3>3. c \in Nat
      BY DEF BitPos
    <3> QED BY <3>2, <3>3, <1>1, <1>2, <1>4, <2>1
  <2>3. 2^(w + 1) <= 2^k
    BY <2>2, PowerUp
  <2>4. 2^(w + 1) = 2 * 2^w
    BY Powers
  <2> QED BY <2>1, <2>3, <2>4, <1>2
<1> QED BY <1>1, <1>3, <1>4

LEMMA OneIsPosition == 1 \in BitPos /\ MaxBit \in BitPos /\ MaxBit \in Nat
<1>1. 2^0 = 1
  BY Powers
<1> QED BY <1>1, RadixAssumption DEF BitPos

(* Numbers that agree above a bit and in it agree from it on.              *)
LEMMA AgreeInBit ==
  ASSUME NEW x \in Nat, NEW y \in Nat, NEW b \in Nat \ {0},
         x \div (2 * b) = y \div (2 * b), IsSet(b, x) = IsSet(b, y)
  PROVE  x \div b = y \div b
<1>1. PICK c \in Nat \ {0} : c = 2
  OBVIOUS
<1>4. x \div (b * c) = (x \div b) \div c /\ y \div (b * c) = (y \div b) \div c
  BY DivDiv
<1>2. x \div b \in Nat /\ y \div b \in Nat
  BY DivMod
<1>3. b * c = 2 * b
  BY <1>1
<1> DEFINE u == x \div b
           v == y \div b
<1>6. u \in Nat /\ v \in Nat /\ u \div 2 = v \div 2 /\ (u % 2 = 1 <=> v % 2 = 1)
  BY <1>1, <1>4, <1>2, <1>3 DEF IsSet
<1> HIDE DEF u, v
<1>5. u = v
  BY <1>6
<1> QED BY <1>5 DEF u, v

LEMMA AgreeAbove ==
  ASSUME NEW x \in Nat, NEW y \in Nat, NEW b \in Nat \ {0}, x \div b = y \div b
  PROVE  x \div (2 * b) = y \div (2 * b) /\ IsSet(b, x) = IsSet(b, y) /\ Side(b, x) = Side(b, y)
<1>1. PICK c \in Nat \ {0} : c = 2
  OBVIOUS
<1>4. x \div (b * c) = (x \div b) \div c /\ y \div (b * c) = (y \div b) \div c
  BY DivDiv
<1>3. b * c = 2 * b
  BY <1>1
<1> QED BY <1>1, <1>4, <1>3 DEF IsSet, Side

LEMMA SideTells ==
  ASSUME NEW x \in Nat, NEW y \in Nat, NEW b \in Nat \ {0}, Side(b, x) = Side(b, y)
  PROVE  IsSet(b, x) = IsSet(b, y)
  BY DEF Side, IsSet

(* So they agree from low on, when they do in all bits between.            *)
LEMMA AgreeDown ==
  ASSUME NEW x \in Nat, NEW y \in Nat, NEW low \in BitPos, NEW high \in BitPos, low <= high,
         \A c \in BitPos : low < c /\ c <= high => IsSet(c, x) = IsSet(c, y),
         x \div (2 * high) = y \div (2 * high)
  PROVE  x \div (2 * low) = y \div (2 * low)
<1> DEFINE S == {c \in BitPos : low <= c /\ c <= high /\ x \div (2 * c) = y \div (2 * c)}
<1>1. S \in SUBSET Nat /\ high \in S
  BY Positions
<1>2. PICK c \in S : \A d \in S : c <= d
  BY <1>1, LeastOfSet
<1>3. c \in Nat \ {0} /\ low \in Nat \ {0}
  BY Positions
<1>4. CASE c = low
  BY <1>4
<1>5. CASE c # low
  <2>1. low < c
    BY <1>3, <1>5
  <2>2. x \div c = y \div c
    BY <2>1, <1>3, AgreeInBit
  <2>3. c # 1
    BY <2>1, <1>3
  <2>4. c \div 2 \in BitPos /\ c = 2 * (c \div 2) /\ 2 * low <= c
    BY <2>1, <2>3, Positions
  <2> DEFINE h == c \div 2
  <2>5. h \in BitPos /\ c = 2 * h /\ h \in Nat /\ high \in Nat
    BY <2>4, Positions
  <2> HIDE DEF h
  <2>6. h \in S
    <3>1. low <= h /\ h <= high
      BY <2>4, <2>5, <1>3
    <3> QED BY <2>2, <2>5, <3>1
  <2>7. c <= h
    BY <2>6, <1>2
  <2> QED BY <2>5, <2>7, <1>3
<1> QED BY <1>4, <1>5

(* The greatest of a bounded set.                                          *)
LEMMA MaxOfSet ==
  ASSUME NEW N \in Nat, NEW S \in SUBSET (0 .. N), S # {}
  PROVE  Max(S) \in S /\ \A y \in S : y <= Max(S)
<1> DEFINE T == {N - x : x \in S}
<1>1. T \in SUBSET Nat /\ T # {}
  <2>1. \A x \in S : x \in Nat /\ N - x \in Nat
    OBVIOUS
  <2> QED BY <2>1
<1>2. PICK t \in T : \A u \in T : t <= u
  BY <1>1, LeastOfSet
<1>3. PICK x \in S : t = N - x
  BY <1>2
<1>4. \A y \in S : x >= y
  <2> TAKE y \in S
  <2>1. t <= N - y
    BY <1>2
  <2> QED BY <2>1, <1>3
<1>5. Max(S) \in S /\ \A y \in S : Max(S) >= y
  BY <1>3, <1>4 DEF Max
<1> QED BY <1>5

LEMMA MinOfTwo ==
  ASSUME NEW a \in Int, NEW b \in Int
  PROVE  Min({a, b}) = IF a <= b THEN a ELSE b
<1> DEFINE m == IF a <= b THEN a ELSE b
<1>1. m \in {a, b} /\ \A y \in {a, b} : m =< y
  OBVIOUS
<1>2. Min({a, b}) \in {a, b} /\ \A y \in {a, b} : Min({a, b}) =< y
  BY <1>1 DEF Min
<1> QED BY <1>2

LEMMA PairParts ==
  ASSUME NEW A, NEW B, NEW p \in A \X B
  PROVE  p[1] \in A /\ p[2] \in B /\ p = <<p[1], p[2]>>
  OBVIOUS

LEMMA Linked ==
  ASSUME NEW heap, heap \in [DOMAIN heap -> NodeRecords],
         NEW p \in {Root} \cup ((DOMAIN heap) \X Fields), NEW x \in Nat \cup Nodes,
         Link(p, x, heap)
  PROVE  /\ tree' = IF p = Root THEN x ELSE tree
         /\ DOMAIN node' = DOMAIN heap /\ node' \in [DOMAIN heap -> NodeRecords]
         /\ \A m \in DOMAIN heap :
              /\ node'[m].bit_pos = heap[m].bit_pos /\ node'[m].number = heap[m].number
              /\ \A f \in Fields : node'[m][f] = IF p = <<m, f>> THEN x ELSE heap[m][f]
<1>1. CASE p = Root
  <2>1. \A m \in DOMAIN heap, f \in Fields : p # <<m, f>>
    BY <1>1 DEF Root
  <2> QED BY <1>1, <2>1 DEF Link
<1>2. CASE p # Root
  <2> DEFINE n == p[1]
             g == p[2]
  <2>1. n \in DOMAIN heap /\ g \in Fields /\ p = <<n, g>>
    <3>1. p \in (DOMAIN heap) \X Fields
      BY <1>2
    <3> QED BY <3>1, PairParts
  <2> DEFINE t == [heap[n] EXCEPT ![g] = x]
  <2>2. tree' = tree /\ node' = [heap EXCEPT ![n] = t]
    BY <1>2, <2>1 DEF Link, n, g
  <2> HIDE DEF n, g
  <2>3. /\ t \in NodeRecords /\ t.bit_pos = heap[n].bit_pos /\ t.number = heap[n].number
        /\ \A f \in Fields : t[f] = IF f = g THEN x ELSE heap[n][f]
    <3>1. heap[n] \in NodeRecords
      BY <2>1
    <3> HIDE DEF t
    <3>2. t = [heap[n] EXCEPT ![g] = x]
      BY DEF t
    <3>3. x \in Nat \cup Nodes /\ g \in Fields
      BY <2>1
    <3> QED BY <3>1, <3>2, <3>3 DEF NodeRecords, Fields
  <2> HIDE DEF t
  <2>4. DOMAIN node' = DOMAIN heap /\ node' \in [DOMAIN heap -> NodeRecords]
    BY <2>2, <2>3
  <2>5. ASSUME NEW m \in DOMAIN heap
        PROVE  /\ node'[m].bit_pos = heap[m].bit_pos /\ node'[m].number = heap[m].number
               /\ \A f \in Fields : node'[m][f] = IF p = <<m, f>> THEN x ELSE heap[m][f]
    <3>1. CASE m = n
      BY <3>1, <2>1, <2>2, <2>3
    <3>2. CASE m # n
      BY <3>2, <2>1, <2>2
    <3> QED BY <3>1, <3>2
  <2> QED BY <1>2, <2>2, <2>4, <2>5
<1> QED BY <1>1, <1>2

LEMMA FreshIsNew ==
  ASSUME NodesOK, NodesNeeded, requests \in 0 .. MaxRequests, phase = "add"
  PROVE  Fresh \in Nodes /\ Fresh \notin DOMAIN node /\ Fresh # NULL
<1>1. \E n \in Nodes : n \notin DOMAIN node
  <2>1. SUFFICES ASSUME Nodes = DOMAIN node PROVE FALSE
    BY DEF NodesOK
  <2>2. IsFiniteSet(Nodes) /\ Cardinality(DOMAIN node) \in Nat
    BY <2>1, FS_CardinalityType DEF NodesOK
  <2>3. Cardinality(Nodes) >= 2 * MaxRequests /\ MaxRequests \in Nat
    BY <2>2, RoomAssumption
  <2>4. Cardinality(DOMAIN node) <= 2 * requests - 1
    <3>1. CASE nptr = NULL
      BY <3>1 DEF NodesNeeded
    <3>2. CASE nptr # NULL
      BY <3>2, <2>2 DEF NodesNeeded
    <3> QED BY <3>1, <3>2
  <2> QED BY <2>1, <2>2, <2>3, <2>4
<1>2. Fresh \in Nodes /\ Fresh \notin DOMAIN node
  BY <1>1 DEF Fresh
<1> QED BY <1>2, RadixAssumption DEF NULL

LEMMA HeapWith ==
  ASSUME NodesOK, NEW n \in Nodes, n \notin DOMAIN node, NEW r \in NodeRecords
  PROVE  /\ DOMAIN With(n, r, node) = DOMAIN node \cup {n}
         /\ With(n, r, node) \in [DOMAIN With(n, r, node) -> NodeRecords]
         /\ With(n, r, node)[n] = r
         /\ \A m \in DOMAIN node : With(n, r, node)[m] = node[m]
  BY DEF With, NodesOK

LEMMA HeapWithout ==
  ASSUME NodesOK, NEW n \in DOMAIN node
  PROVE  /\ DOMAIN Without(n) = DOMAIN node \ {n}
         /\ Without(n) \in [DOMAIN Without(n) -> NodeRecords]
         /\ \A m \in DOMAIN node \ {n} : Without(n)[m] = node[m]
  BY DEF Without, NodesOK

LEMMA NodeFacts ==
  ASSUME NodesOK, NEW n \in DOMAIN node
  PROVE  /\ node[n].bit_pos \in BitPos /\ node[n].number \in Numbers
         /\ node[n].lo = node[n]["lo"] /\ node[n].hi = node[n]["hi"]
         /\ node[n].lo \in Nat \cup Nodes /\ node[n].hi \in Nat \cup Nodes
         /\ n \in Nodes /\ n # NULL
         /\ IsLeaf(n) => node[n].lo \in Nat /\ node[n].hi \in Nat
         /\ ~ IsLeaf(n) => n \in Interior /\ node[n].bit_pos > 1
<1>1. node[n] \in NodeRecords
  BY DEF NodesOK
<1>2. /\ node[n].bit_pos \in BitPos /\ node[n].number \in Numbers
      /\ node[n].lo = node[n]["lo"] /\ node[n].hi = node[n]["hi"]
      /\ node[n].lo \in Nat \cup Nodes /\ node[n].hi \in Nat \cup Nodes
  BY <1>1 DEF NodeRecords
<1>3. n \in Nodes /\ n # NULL
  BY RadixAssumption DEF NodesOK, NULL
<1>4. node[n].bit_pos \in Nat \ {0}
  BY <1>2, Positions
<1> QED BY <1>2, <1>3, <1>4 DEF NodesOK, Interior, IsLeaf

LEMMA NumbersAreNat == Numbers \subseteq Nat /\ \A x \in Numbers : x \div (2 * MaxBit) = 0
<1>1. MaxBit \in Nat \ {0}
  BY OneIsPosition, Positions
<1>2. ASSUME NEW x \in Numbers PROVE x \in Nat /\ x \div (2 * MaxBit) = 0
  <2> DEFINE m == 2 * MaxBit
  <2>1. m \in Nat \ {0} /\ x \in 0 .. (m - 1)
    BY <1>1 DEF Numbers
  <2> HIDE DEF m
  <2>2. (m * 0 + x) \div m = 0
    BY <2>1, DivModUnique
  <2>3. m * 0 + x = x /\ x \in Nat
    BY <2>1
  <2>4. x \div m = 0
    BY <2>2, <2>3
  <2> QED BY <2>3, <2>4 DEF m
<1> QED BY <1>2

(* What Adding says of the subtree that parent points to.                  *)
LEMMA SubtreeAgrees ==
  ASSUME NodesOK, TreeOwned, RadixShape, Adding, phase = "add"
  PROVE  /\ parent \in Owners /\ nptr \in DOMAIN node \cup {NULL}
         /\ number \in Numbers /\ bit_pos \in BitPos
         /\ nptr # NULL => /\ node[nptr].bit_pos <= bit_pos
                           /\ node[nptr].number \div (2 * bit_pos) = number \div (2 * bit_pos)
<1>1. parent \in Owners /\ number \in Numbers /\ bit_pos \in BitPos
  BY DEF Adding
<1>2. nptr \in DOMAIN node \cup {NULL}
  BY <1>1 DEF TreeOwned, Building, nptr
<1>3. ASSUME nptr # NULL
      PROVE  /\ node[nptr].bit_pos <= bit_pos
             /\ node[nptr].number \div (2 * bit_pos) = number \div (2 * bit_pos)
  <2>1. nptr \in DOMAIN node /\ node[nptr].bit_pos \in BitPos /\ node[nptr].number \in Numbers
    BY <1>2, <1>3, NodeFacts
  <2>2. CASE parent = Root
    BY <2>1, <2>2, <1>1, NumbersAreNat, Positions DEF Adding
  <2>3. CASE parent # Root
    <3>1. parent \in Interior \X Fields
      BY <1>1, <2>3 DEF Owners
    <3> DEFINE m == parent[1]
               f == parent[2]
               x == node[nptr].number
               y == node[m].number
    <3>2. m \in Interior /\ m \in DOMAIN node /\ f \in Fields /\ nptr = node[m][f]
      BY <3>1, <2>3, PairParts DEF nptr, Deref, Interior
    <3>3. /\ node[m].bit_pos = 2 * bit_pos
          /\ Side(node[m].bit_pos, number) = f
          /\ number \div (2 * node[m].bit_pos) = y \div (2 * node[m].bit_pos)
      BY <2>3 DEF Adding
    <3>4. /\ node[nptr].bit_pos < node[m].bit_pos
          /\ Side(node[m].bit_pos, x) = f
          /\ x \div (2 * node[m].bit_pos) = y \div (2 * node[m].bit_pos)
      BY <3>2, <1>3 DEF RadixShape, Interior
    <3>5. 2 * node[nptr].bit_pos <= node[m].bit_pos
      BY <3>2, <3>4, <2>1, NodeFacts, Positions
    <3>6. node[nptr].bit_pos <= bit_pos
      <4>1. node[nptr].bit_pos \in Nat /\ bit_pos \in Nat
        BY <2>1, <1>1, Positions
      <4> QED BY <4>1, <3>3, <3>5
    <3> DEFINE b == node[m].bit_pos
    <3>7. b \in Nat \ {0} /\ x \in Nat /\ number \in Nat
      BY <3>2, <2>1, <1>1, NodeFacts, Positions, NumbersAreNat
    <3>8. x \div b = number \div b
      <4> HIDE DEF x, b
      <4>1. IsSet(b, x) = IsSet(b, number)
        BY <3>3, <3>4, <3>7, SideTells DEF b
      <4>2. x \div (2 * b) = number \div (2 * b)
        BY <3>3, <3>4 DEF b
      <4> QED BY <4>1, <4>2, <3>7, AgreeInBit
    <3> QED BY <3>3, <3>6, <3>8
  <2> QED BY <2>2, <2>3
<1> QED BY <1>1, <1>2, <1>3

(* What adding a node below a pointer does to the pointers.                *)
LEMMA Hung ==
  ASSUME NodesOK, TreeOwned, Building, NEW F \in Nodes, F \notin DOMAIN node, F # NULL,
         NEW r \in NodeRecords, NEW p \in Owners, Link(p, F, With(F, r, node))
  PROVE  /\ DOMAIN node' = DOMAIN node \cup {F}
         /\ node' \in [DOMAIN node' -> NodeRecords]
         /\ \A m \in DOMAIN node :
              /\ node'[m].bit_pos = node[m].bit_pos /\ node'[m].number = node[m].number
              /\ \A f \in Fields : node'[m][f] = IF p = <<m, f>> THEN F ELSE node[m][f]
         /\ node'[F].bit_pos = r.bit_pos /\ node'[F].number = r.number
         /\ \A f \in Fields : node'[F][f] = r[f]
         /\ \A q \in Owners : Deref(q)' = IF q = p THEN F ELSE Deref(q)
         /\ \A m \in DOMAIN node : IsLeaf(m)' = IsLeaf(m)
<1> DEFINE heap == With(F, r, node)
<1>1. /\ DOMAIN heap = DOMAIN node \cup {F}
      /\ heap \in [DOMAIN heap -> NodeRecords]
      /\ heap[F] = r
      /\ \A m \in DOMAIN node : heap[m] = node[m]
  BY HeapWith
<1> HIDE DEF heap
<1>2. p = Root \/ p \in (DOMAIN node) \X Fields
  BY DEF Owners, Interior
<1>3. p \in {Root} \cup ((DOMAIN heap) \X Fields) /\ Link(p, F, heap)
  BY <1>1, <1>2 DEF heap
<1>4. /\ tree' = IF p = Root THEN F ELSE tree
      /\ DOMAIN node' = DOMAIN heap /\ node' \in [DOMAIN heap -> NodeRecords]
      /\ \A m \in DOMAIN heap :
           /\ node'[m].bit_pos = heap[m].bit_pos /\ node'[m].number = heap[m].number
           /\ \A f \in Fields : node'[m][f] = IF p = <<m, f>> THEN F ELSE heap[m][f]
  BY <1>1, <1>3, Linked
<1>5. \A m \in DOMAIN node :
        /\ node'[m].bit_pos = node[m].bit_pos /\ node'[m].number = node[m].number
        /\ \A f \in Fields : node'[m][f] = IF p = <<m, f>> THEN F ELSE node[m][f]
  BY <1>1, <1>4
<1>6. /\ node'[F].bit_pos = r.bit_pos /\ node'[F].number = r.number
      /\ \A f \in Fields : node'[F][f] = r[f]
  <2>1. \A f \in Fields : p # <<F, f>>
    BY <1>2 DEF Root
  <2> QED BY <1>1, <1>4, <2>1
<1>7. ASSUME NEW q \in Owners PROVE Deref(q)' = IF q = p THEN F ELSE Deref(q)
  <2>1. CASE q = Root
    BY <2>1, <1>4 DEF Deref
  <2>2. CASE q # Root
    <3>1. q \in Interior \X Fields
      BY <2>2 DEF Owners
    <3>2. q[1] \in DOMAIN node /\ q[2] \in Fields /\ q = <<q[1], q[2]>>
      BY <3>1, PairParts DEF Interior
    <3>3. node'[q[1]][q[2]] = IF p = <<q[1], q[2]>> THEN F ELSE node[q[1]][q[2]]
      BY <3>2, <1>5
    <3> QED BY <2>2, <3>2, <3>3 DEF Deref
  <2> QED BY <2>1, <2>2
<1>8. \A m \in DOMAIN node : IsLeaf(m)' = IsLeaf(m)
  BY <1>5 DEF IsLeaf
<1> QED BY <1>1, <1>4, <1>5, <1>6, <1>7, <1>8

LEMMA OwnersAre ==
  ASSUME NEW q \in Owners
  PROVE  q = Root \/ (q # Root /\ q[1] \in Interior /\ q[1] \in DOMAIN node /\ q[2] \in Fields /\ q = <<q[1], q[2]>>)
<1>1. CASE q = Root
  BY <1>1
<1>2. CASE q # Root
  <2>1. q \in Interior \X Fields
    BY <1>2 DEF Owners
  <2> QED BY <1>2, <2>1, PairParts DEF Interior
<1> QED BY <1>1, <1>2

(* Hung below a pointer whose path agrees with it, a node is in its place. *)
LEMMA LeafHung ==
  ASSUME RadixIInv, AddLeaf
  PROVE  NodesOK' /\ TreeOwned' /\ RadixShape' /\ NoneHollow' /\ NodesNeeded'
<1> DEFINE r == [bit_pos |-> 1, number |-> number, lo |-> 1 - (number % 2), hi |-> number % 2]
<1>1. /\ NodesOK /\ TreeOwned /\ RadixShape /\ Adding /\ NoneHollow /\ NodesNeeded
      /\ phase = "add" /\ requests \in 0 .. MaxRequests /\ phase' = "read" /\ requests' = requests
      /\ nptr = NULL
  BY DEF RadixIInv, RadixTypeOK, AddLeaf
<1>2. PICK F \in Nodes : F = Fresh /\ F \notin DOMAIN node /\ F # NULL
  BY <1>1, FreshIsNew
<1>3. parent \in Owners /\ number \in Numbers /\ bit_pos \in BitPos /\ number \in Nat
  BY <1>1, SubtreeAgrees, NumbersAreNat
<1>4. number % 2 \in {0, 1}
  BY <1>3
<1>5. r \in NodeRecords
  <2>1. 1 - (number % 2) \in Nat /\ number % 2 \in Nat
    BY <1>4
  <2> QED BY <2>1, <1>3, OneIsPosition DEF NodeRecords
<1>6. Building /\ Link(parent, F, With(F, r, node))
  BY <1>1, <1>2 DEF Building, AddLeaf
<1>7. r.bit_pos = 1 /\ r.number = number /\ r["lo"] = 1 - (number % 2) /\ r["hi"] = number % 2
      /\ r.lo = 1 - (number % 2) /\ r.hi = number % 2
  OBVIOUS
<1> HIDE DEF r
<1>8. /\ DOMAIN node' = DOMAIN node \cup {F}
      /\ node' \in [DOMAIN node' -> NodeRecords]
      /\ \A m \in DOMAIN node :
           /\ node'[m].bit_pos = node[m].bit_pos /\ node'[m].number = node[m].number
           /\ \A f \in Fields : node'[m][f] = IF parent = <<m, f>> THEN F ELSE node[m][f]
      /\ node'[F].bit_pos = r.bit_pos /\ node'[F].number = r.number
      /\ \A f \in Fields : node'[F][f] = r[f]
      /\ \A q \in Owners : Deref(q)' = IF q = parent THEN F ELSE Deref(q)
      /\ \A m \in DOMAIN node : IsLeaf(m)' = IsLeaf(m)
  BY <1>1, <1>2, <1>3, <1>5, <1>6, Hung
<1>9. IsLeaf(F)' /\ Interior' = Interior /\ Owners' = Owners
  <2>1. IsLeaf(F)'
    BY <1>7, <1>8 DEF IsLeaf
  <2>2. Interior' = Interior
    BY <2>1, <1>8, <1>2 DEF Interior
  <2> QED BY <2>1, <2>2 DEF Owners
<1>10. \A m \in DOMAIN node : /\ node[m].lo = node[m]["lo"] /\ node[m].hi = node[m]["hi"]
                              /\ node[m].bit_pos \in Nat \ {0} /\ m # NULL /\ m \in Nodes
  BY <1>1, NodeFacts, Positions
<1>11. \A m \in DOMAIN node' : node'[m].lo = node'[m]["lo"] /\ node'[m].hi = node'[m]["hi"]
  BY <1>8 DEF NodeRecords
<1>12. NodesOK'
  <2>1. DOMAIN node' \subseteq Nodes /\ IsFiniteSet(DOMAIN node')
    BY <1>1, <1>2, <1>8, FS_AddElement DEF NodesOK
  <2>2. ASSUME NEW m \in DOMAIN node', IsLeaf(m)' PROVE node'[m].lo \in Nat /\ node'[m].hi \in Nat
    <3>1. CASE m = F
      BY <3>1, <1>4, <1>7, <1>8, <1>11 DEF Fields
    <3>2. CASE m # F
      <4>1. m \in DOMAIN node /\ IsLeaf(m)
        BY <3>2, <1>8, <2>2
      <4>2. \A f \in Fields : parent # <<m, f>>
        BY <4>1, <1>3, OwnersAre DEF Interior, Root
      <4>3. node'[m]["lo"] = node[m]["lo"] /\ node'[m]["hi"] = node[m]["hi"]
        BY <4>1, <4>2, <1>8 DEF Fields
      <4> QED BY <4>1, <4>3, <1>1, <1>10, <1>11 DEF NodesOK
    <3> QED BY <3>1, <3>2
  <2> QED BY <2>1, <2>2, <1>8 DEF NodesOK
<1>13. TreeOwned'
  <2>1. \A p \in Owners : Deref(p) \in DOMAIN node \cup {NULL}
    BY <1>1, <1>6 DEF TreeOwned
  <2>2. \A p, q \in Owners : Deref(p) = Deref(q) /\ Deref(p) # NULL => p = q
    BY <1>1, <1>6 DEF TreeOwned
  <2>3. \A n \in DOMAIN node : \E p \in Owners : Deref(p) = n
    BY <1>1, <1>6 DEF TreeOwned
  <2>4. Deref(parent) = NULL
    BY <1>1 DEF nptr
  <2>5. \A p \in Owners : Deref(p)' \in DOMAIN node' \cup {NULL}
    BY <2>1, <1>8
  <2>6. \A p, q \in Owners : Deref(p)' = Deref(q)' /\ Deref(p)' # NULL => p = q
    <3> TAKE p, q \in Owners
    <3>1. Deref(p) # F /\ Deref(q) # F
      BY <2>1, <1>2
    <3> QED BY <3>1, <2>2, <1>8
  <2>7. \A n \in DOMAIN node' : \E p \in Owners : Deref(p)' = n
    <3> TAKE n \in DOMAIN node'
    <3>1. CASE n = F
      BY <3>1, <1>3, <1>8
    <3>2. CASE n # F
      <4>1. n \in DOMAIN node /\ n # NULL
        BY <3>2, <1>8, <1>10
      <4>2. PICK p \in Owners : Deref(p) = n
        BY <4>1, <2>3
      <4> QED BY <4>1, <4>2, <2>4, <1>8
    <3> QED BY <3>1, <3>2
  <2> QED BY <2>5, <2>6, <2>7, <1>9 DEF TreeOwned
<1>14. RadixShape'
  <2> SUFFICES ASSUME NEW n \in Interior, NEW f \in Fields, node'[n][f] # NULL
               PROVE  /\ node'[node'[n][f]].bit_pos < node'[n].bit_pos
                      /\ Side(node'[n].bit_pos, node'[node'[n][f]].number) = f
                      /\ node'[node'[n][f]].number \div (2 * node'[n].bit_pos)
                           = node'[n].number \div (2 * node'[n].bit_pos)
    BY <1>9 DEF RadixShape, Interior
  <2>1. n \in DOMAIN node /\ ~ IsLeaf(n) /\ <<n, f>> \in Owners
    BY DEF Interior, Owners
  <2>2. node'[n].bit_pos = node[n].bit_pos /\ node'[n].number = node[n].number
    BY <2>1, <1>8
  <2>3. CASE parent = <<n, f>>
    <3>1. node'[n][f] = F /\ node'[F].bit_pos = 1 /\ node'[F].number = number
      BY <2>1, <2>3, <1>7, <1>8
    <3>2. parent # Root /\ parent[1] = n /\ parent[2] = f
      BY <2>3 DEF Root
    <3>3. /\ Side(node[n].bit_pos, number) = f
          /\ number \div (2 * node[n].bit_pos) = node[n].number \div (2 * node[n].bit_pos)
      BY <3>2, <1>1 DEF Adding
    <3>4. 1 < node[n].bit_pos
      BY <2>1, <1>1, NodeFacts
    <3> QED BY <2>2, <3>1, <3>3, <3>4
  <2>4. CASE parent # <<n, f>>
    <3>1. node'[n][f] = node[n][f] /\ node[n][f] # NULL
      BY <2>1, <2>4, <1>8
    <3>2. Deref(<<n, f>>) = node[n][f]
      BY DEF Deref, Root
    <3>3. node[n][f] \in DOMAIN node
      BY <3>1, <3>2, <2>1, <1>1, <1>6 DEF TreeOwned
    <3>4. /\ node[node[n][f]].bit_pos < node[n].bit_pos
          /\ Side(node[n].bit_pos, node[node[n][f]].number) = f
          /\ node[node[n][f]].number \div (2 * node[n].bit_pos)
                           = node[n].number \div (2 * node[n].bit_pos)
      BY <3>1, <2>1, <1>1 DEF RadixShape
    <3> QED BY <2>2, <3>1, <3>3, <3>4, <1>8
  <2> QED BY <2>3, <2>4
<1>15. NoneHollow'
  <2> SUFFICES ASSUME NEW n \in DOMAIN node', Hollow(n)' PROVE FALSE
    BY DEF NoneHollow
  <2>1. node'[n]["lo"] = 0 /\ node'[n]["hi"] = 0
    BY <1>11 DEF Hollow
  <2>2. CASE n = F
    BY <2>1, <2>2, <1>4, <1>7, <1>8 DEF Fields
  <2>3. CASE n # F
    <3>1. n \in DOMAIN node
      BY <2>3, <1>8
    <3>2. node[n]["lo"] = 0 /\ node[n]["hi"] = 0
      BY <3>1, <2>1, <1>2, <1>8 DEF Fields, NULL
    <3>3. Hollow(n)
      BY <3>1, <3>2, <1>10 DEF Hollow
    <3> QED BY <3>1, <3>3, <1>1, <1>6 DEF NoneHollow, Emptied
  <2> QED BY <2>2, <2>3
<1>16. NodesNeeded'
  <2>1. Cardinality(DOMAIN node') = Cardinality(DOMAIN node) + 1
    BY <1>1, <1>2, <1>8, FS_AddElement DEF NodesOK
  <2>2. Cardinality(DOMAIN node) <= 2 * requests - 1 /\ Cardinality(DOMAIN node) \in Nat
    BY <1>1, FS_CardinalityType DEF NodesNeeded, NodesOK
  <2> QED BY <2>1, <2>2, <1>1 DEF NodesNeeded
<1> QED BY <1>12, <1>13, <1>14, <1>15, <1>16

(* The bit that the number leaves the path of a subtree at.                *)
LEMMA HighestDiff ==
  ASSUME NodesOK, TreeOwned, RadixShape, Adding, phase = "add", nptr # NULL, Diff # {},
         NEW b, b = Max(Diff)
  PROVE  /\ b \in BitPos /\ b # 1 /\ b <= bit_pos /\ node[nptr].bit_pos < b
         /\ IsSet(b, number) # IsSet(b, node[nptr].number)
         /\ node[nptr].number \div (2 * b) = number \div (2 * b)
<1> DEFINE low == node[nptr].bit_pos
           x == node[nptr].number
<1>1. nptr \in DOMAIN node /\ number \in Nat /\ x \in Nat /\ low \in BitPos /\ bit_pos \in BitPos
        /\ low <= bit_pos /\ x \div (2 * bit_pos) = number \div (2 * bit_pos)
  BY SubtreeAgrees, NodeFacts, NumbersAreNat
<1>2. Diff = {c \in BitPos : low < c /\ c <= bit_pos /\ IsSet(c, number) # IsSet(c, x)}
  BY DEF Diff, Differing
<1> HIDE DEF low, x
<1>3. Diff \in SUBSET (0 .. MaxBit) /\ MaxBit \in Nat
  <2>1. BitPos \subseteq 0 .. MaxBit
    BY OneIsPosition DEF BitPos
  <2> QED BY <2>1, <1>2, OneIsPosition
<1>4. b \in Diff /\ \A c \in Diff : c <= b
  BY <1>3, MaxOfSet
<1>5. b \in BitPos /\ low < b /\ b <= bit_pos /\ IsSet(b, number) # IsSet(b, x)
  BY <1>2, <1>4
<1>6. b \in Nat /\ low \in Nat \ {0} /\ bit_pos \in Nat
  BY <1>1, <1>5, Positions
<1>7. \A c \in BitPos : b < c /\ c <= bit_pos => IsSet(c, x) = IsSet(c, number)
  <2> TAKE c \in BitPos
  <2> HAVE b < c /\ c <= bit_pos
  <2>1. c \in Nat /\ low < c
    BY <1>5, <1>6, Positions
  <2>2. c \notin Diff
    BY <2>1, <1>4, <1>6
  <2> QED BY <2>1, <2>2, <1>2
<1>8. x \div (2 * b) = number \div (2 * b)
  BY <1>1, <1>5, <1>7, AgreeDown
<1> QED BY <1>5, <1>6, <1>8 DEF low, x

LEMMA WiderProduct ==
  ASSUME NEW A, NEW B, NEW x
  PROVE  (A \cup {x}) \X B = (A \X B) \cup ({x} \X B)
  OBVIOUS

LEMMA Sides ==
  ASSUME NEW x, NEW y, NEW b
  PROVE  /\ Side(b, x) \in Fields
         /\ IsSet(b, x) # IsSet(b, y) => Side(b, x) # Side(b, y)
  BY DEF Side, Fields, IsSet

(* Putting a branch above a subtree keeps the tree, and add_number's path. *)
LEMMA Injected ==
  ASSUME RadixIInv, Inject
  PROVE  NodesOK' /\ TreeOwned' /\ RadixShape' /\ NoneHollow' /\ NodesNeeded' /\ Adding'
<1>1. /\ NodesOK /\ TreeOwned /\ RadixShape /\ Adding /\ NoneHollow /\ NodesNeeded
      /\ phase = "add" /\ requests \in 0 .. MaxRequests /\ phase' = "add" /\ requests' = requests
      /\ nptr # NULL /\ Diff # {} /\ number' = number
  BY DEF RadixIInv, RadixTypeOK, Inject
<1>2. PICK F \in Nodes : F = Fresh /\ F \notin DOMAIN node /\ F # NULL
  BY <1>1, FreshIsNew
<1>3. parent \in Owners /\ number \in Numbers /\ bit_pos \in BitPos /\ number \in Nat
        /\ nptr \in DOMAIN node /\ node[nptr].number \in Nat /\ node[nptr].bit_pos \in BitPos
  BY <1>1, SubtreeAgrees, NodeFacts, NumbersAreNat
<1>4. PICK b : b = Max(Diff)
  OBVIOUS
<1>5. /\ b \in BitPos /\ b # 1 /\ b <= bit_pos /\ node[nptr].bit_pos < b
      /\ IsSet(b, number) # IsSet(b, node[nptr].number)
      /\ node[nptr].number \div (2 * b) = number \div (2 * b)
  BY <1>1, <1>4, HighestDiff
<1>6. PICK s \in Fields : s = Side(b, number)
  BY Sides
<1>7. PICK child \in DOMAIN node : child = nptr
  BY <1>3
<1> DEFINE r == [bit_pos |-> b, number |-> number,
                 lo |-> IF s = "lo" THEN NULL ELSE nptr,
                 hi |-> IF s = "hi" THEN NULL ELSE nptr]
<1>8. /\ Link(parent, F, With(F, r, node))
      /\ parent' = <<F, s>> /\ bit_pos' = b \div 2
  BY <1>2, <1>4, <1>6 DEF Inject
<1>9. r \in NodeRecords
  <2>1. nptr \in Nodes /\ NULL \in Nat
    BY <1>1, <1>3 DEF NodesOK, NULL
  <2> QED BY <2>1, <1>3, <1>5 DEF NodeRecords
<1>10. r.bit_pos = b /\ r.number = number /\ r[s] = NULL /\ \A f \in Fields \ {s} : r[f] = child
  BY <1>6, <1>7 DEF Fields
<1> HIDE DEF r
<1>11. /\ DOMAIN node' = DOMAIN node \cup {F}
       /\ node' \in [DOMAIN node' -> NodeRecords]
       /\ \A m \in DOMAIN node :
            /\ node'[m].bit_pos = node[m].bit_pos /\ node'[m].number = node[m].number
            /\ \A f \in Fields : node'[m][f] = IF parent = <<m, f>> THEN F ELSE node[m][f]
       /\ node'[F].bit_pos = r.bit_pos /\ node'[F].number = r.number
       /\ \A f \in Fields : node'[F][f] = r[f]
       /\ \A q \in Owners : Deref(q)' = IF q = parent THEN F ELSE Deref(q)
       /\ \A m \in DOMAIN node : IsLeaf(m)' = IsLeaf(m)
  BY <1>1, <1>2, <1>3, <1>8, <1>9, Hung DEF Building
<1>12. ~ IsLeaf(F)' /\ Interior' = Interior \cup {F} /\ Owners' = Owners \cup ({F} \X Fields)
  <2>1. ~ IsLeaf(F)'
    BY <1>5, <1>10, <1>11 DEF IsLeaf
  <2>2. Interior' = Interior \cup {F}
    BY <2>1, <1>11, <1>2 DEF Interior
  <2>3. (Interior \cup {F}) \X Fields = (Interior \X Fields) \cup ({F} \X Fields)
    BY WiderProduct
  <2> QED BY <2>1, <2>2, <2>3 DEF Owners, Fields, Root
<1>13. \A m \in DOMAIN node : /\ node[m].lo = node[m]["lo"] /\ node[m].hi = node[m]["hi"]
                              /\ node[m].bit_pos \in Nat \ {0} /\ m # NULL /\ m \in Nodes
  BY <1>1, NodeFacts, Positions
<1>14. \A m \in DOMAIN node' : node'[m].lo = node'[m]["lo"] /\ node'[m].hi = node'[m]["hi"]
  BY <1>11 DEF NodeRecords
<1>15. \A f \in Fields : <<F, f>> \in Owners' /\ <<F, f>> # Root
                         /\ Deref(<<F, f>>)' = IF f = s THEN NULL ELSE child
  BY <1>10, <1>11, <1>12 DEF Deref, Root
<1>16. NodesOK'
  <2>1. DOMAIN node' \subseteq Nodes /\ IsFiniteSet(DOMAIN node')
    BY <1>1, <1>2, <1>11, FS_AddElement DEF NodesOK
  <2>2. ASSUME NEW m \in DOMAIN node', IsLeaf(m)' PROVE node'[m].lo \in Nat /\ node'[m].hi \in Nat
    <3>1. m # F
      BY <1>12, <2>2
    <3>2. m \in DOMAIN node /\ IsLeaf(m)
      BY <3>1, <1>11, <2>2
    <3>3. \A f \in Fields : parent # <<m, f>>
      BY <3>2, <1>3, OwnersAre DEF Interior, Root
    <3>4. node'[m]["lo"] = node[m]["lo"] /\ node'[m]["hi"] = node[m]["hi"]
      BY <3>2, <3>3, <1>11 DEF Fields
    <3> QED BY <3>2, <3>4, <1>1, <1>13, <1>14 DEF NodesOK
  <2> QED BY <2>1, <2>2, <1>11 DEF NodesOK
<1>17. TreeOwned'
  <2>1. \A p \in Owners : Deref(p) \in DOMAIN node \cup {NULL}
    BY <1>1 DEF TreeOwned, Building
  <2>2. \A p, q \in Owners : Deref(p) = Deref(q) /\ Deref(p) # NULL => p = q
    BY <1>1 DEF TreeOwned, Building
  <2>3. \A n \in DOMAIN node : \E p \in Owners : Deref(p) = n
    BY <1>1 DEF TreeOwned, Building
  <2>4. Deref(parent) = child /\ child # NULL /\ child # F
    BY <1>1, <1>2, <1>7 DEF nptr
  <2>5. \A p \in Owners' : p \in Owners \/ \E f \in Fields : p = <<F, f>>
    BY <1>12
  <2>6. ASSUME NEW p \in Owners' PROVE Deref(p)' \in DOMAIN node' \cup {NULL}
    BY <2>1, <2>5, <1>11, <1>15
  <2>7. ASSUME NEW p \in Owners', NEW q \in Owners', Deref(p)' = Deref(q)', Deref(p)' # NULL
        PROVE  p = q
    <3>1. CASE p \in Owners /\ q \in Owners
      <4>1. Deref(p) # F /\ Deref(q) # F
        BY <3>1, <2>1, <1>2
      <4> QED BY <3>1, <4>1, <2>2, <2>7, <1>11
    <3>2. CASE p \in Owners /\ \E f \in Fields : q = <<F, f>>
      <4>1. Deref(q)' = child
        BY <3>2, <2>7, <1>15
      <4>2. p # parent /\ Deref(p) = child
        BY <3>2, <4>1, <2>7, <2>4, <1>11
      <4> QED BY <4>2, <3>2, <2>2, <2>4, <1>3
    <3>3. CASE q \in Owners /\ \E f \in Fields : p = <<F, f>>
      <4>1. Deref(p)' = child
        BY <3>3, <2>7, <1>15
      <4>2. q # parent /\ Deref(q) = child
        BY <3>3, <4>1, <2>7, <2>4, <1>11
      <4> QED BY <4>2, <3>3, <2>2, <2>4, <1>3
    <3>4. CASE (\E f \in Fields : p = <<F, f>>) /\ (\E f \in Fields : q = <<F, f>>)
      <4>1. PICK f \in Fields : p = <<F, f>>
        BY <3>4
      <4>2. PICK g \in Fields : q = <<F, g>>
        BY <3>4
      <4>3. f # s /\ g # s
        BY <4>1, <4>2, <2>7, <1>15
      <4> QED BY <4>1, <4>2, <4>3, <1>6 DEF Fields
    <3> QED BY <3>1, <3>2, <3>3, <3>4, <2>5
  <2>8. ASSUME NEW n \in DOMAIN node' PROVE \E p \in Owners' : Deref(p)' = n
    <3>1. CASE n = F
      BY <3>1, <1>3, <1>11, <1>12
    <3>2. CASE n = child
      <4>1. PICK f \in Fields : f # s
        BY DEF Fields
      <4> QED BY <3>2, <4>1, <1>15
    <3>3. CASE n # F /\ n # child
      <4>1. PICK p \in Owners : Deref(p) = n
        BY <3>3, <2>3, <1>11
      <4> QED BY <3>3, <4>1, <2>4, <1>11, <1>12
    <3> QED BY <3>1, <3>2, <3>3
  <2> QED BY <2>6, <2>7, <2>8 DEF TreeOwned
<1>18. RadixShape'
  <2> SUFFICES ASSUME NEW n \in Interior', NEW f \in Fields, node'[n][f] # NULL
               PROVE  /\ node'[node'[n][f]].bit_pos < node'[n].bit_pos
                      /\ Side(node'[n].bit_pos, node'[node'[n][f]].number) = f
                      /\ node'[node'[n][f]].number \div (2 * node'[n].bit_pos)
                           = node'[n].number \div (2 * node'[n].bit_pos)
    BY DEF RadixShape, Interior
  <2>1. CASE n = F
    <3>1. f # s /\ node'[n][f] = child
      BY <2>1, <1>10, <1>11
    <3>2. node'[child].bit_pos = node[child].bit_pos /\ node'[child].number = node[child].number
      BY <1>11
    <3>3. node'[F].bit_pos = b /\ node'[F].number = number
      BY <1>10, <1>11
    <3>4. Side(b, node[child].number) = f
      <4>1. Side(b, node[child].number) # s
        BY <1>5, <1>6, <1>7, Sides
      <4> QED BY <4>1, <3>1, Sides DEF Fields
    <3> QED BY <2>1, <3>1, <3>2, <3>3, <3>4, <1>5, <1>7
  <2>2. CASE n # F
    <3>1. n \in DOMAIN node /\ ~ IsLeaf(n) /\ <<n, f>> \in Owners
      BY <2>2, <1>12 DEF Interior, Owners
    <3>2. node'[n].bit_pos = node[n].bit_pos /\ node'[n].number = node[n].number
      BY <3>1, <1>11
    <3>3. CASE parent = <<n, f>>
      <4>1. node'[n][f] = F /\ node'[F].bit_pos = b /\ node'[F].number = number
        BY <3>1, <3>3, <1>10, <1>11
      <4>2. parent # Root /\ parent[1] = n /\ parent[2] = f
        BY <3>3 DEF Root
      <4>3. /\ Side(node[n].bit_pos, number) = f
            /\ number \div (2 * node[n].bit_pos) = node[n].number \div (2 * node[n].bit_pos)
            /\ node[n].bit_pos = 2 * bit_pos
        BY <4>2, <1>1 DEF Adding
      <4>4. b < node[n].bit_pos
        <5>1. b \in Nat \ {0} /\ bit_pos \in Nat
          BY <1>3, <1>5, Positions
        <5> QED BY <5>1, <4>3, <1>5
      <4> QED BY <3>2, <4>1, <4>3, <4>4
    <3>4. CASE parent # <<n, f>>
      <4>1. node'[n][f] = node[n][f] /\ node[n][f] # NULL
        BY <3>1, <3>4, <1>11
      <4>2. Deref(<<n, f>>) = node[n][f]
        BY DEF Deref, Root
      <4>3. node[n][f] \in DOMAIN node
        BY <4>1, <4>2, <3>1, <1>1 DEF TreeOwned, Building
      <4>4. /\ node[node[n][f]].bit_pos < node[n].bit_pos
            /\ Side(node[n].bit_pos, node[node[n][f]].number) = f
            /\ node[node[n][f]].number \div (2 * node[n].bit_pos)
                             = node[n].number \div (2 * node[n].bit_pos)
        BY <4>1, <3>1, <1>1 DEF RadixShape
      <4> QED BY <3>2, <4>1, <4>3, <4>4, <1>11
    <3> QED BY <3>3, <3>4
  <2> QED BY <2>1, <2>2
<1>19. NoneHollow'
  <2> SUFFICES ASSUME NEW n \in DOMAIN node', Hollow(n)' PROVE FALSE
    BY DEF NoneHollow
  <2>1. node'[n]["lo"] = 0 /\ node'[n]["hi"] = 0
    BY <1>14 DEF Hollow
  <2>2. CASE n = F
    <3>1. PICK f \in Fields : f # s
      BY DEF Fields
    <3>2. node'[F][f] = child /\ child # 0
      BY <3>1, <1>10, <1>11, <1>13 DEF NULL
    <3> QED BY <2>1, <2>2, <3>2 DEF Fields
  <2>3. CASE n # F
    <3>1. n \in DOMAIN node
      BY <2>3, <1>11
    <3>2. node[n]["lo"] = 0 /\ node[n]["hi"] = 0
      BY <3>1, <2>1, <1>2, <1>11 DEF Fields, NULL
    <3>3. Hollow(n)
      BY <3>1, <3>2, <1>13 DEF Hollow
    <3> QED BY <3>1, <3>3, <1>1 DEF NoneHollow, Emptied, Building
  <2> QED BY <2>2, <2>3
<1>20. NodesNeeded'
  <2>0. IsFiniteSet(DOMAIN node)
    BY <1>1 DEF NodesOK
  <2>1. Cardinality(DOMAIN node') = Cardinality(DOMAIN node) + 1
    <3>1. Cardinality(DOMAIN node \cup {F}) = Cardinality(DOMAIN node) + 1
      BY <2>0, <1>2, FS_AddElement
    <3>2. DOMAIN node' = DOMAIN node \cup {F}
      BY <1>11
    <3> QED BY <3>1, <3>2
  <2>2. Cardinality(DOMAIN node) <= 2 * requests - 2 /\ Cardinality(DOMAIN node) \in Nat
    BY <1>1, FS_CardinalityType DEF NodesNeeded, NodesOK
  <2>3. nptr' = NULL
    BY <1>8, <1>15 DEF nptr
  <2> QED BY <2>1, <2>2, <2>3, <1>1 DEF NodesNeeded
<1>21. Adding'
  <2>1. parent' \in Owners' /\ parent' # Root /\ parent'[1] = F /\ parent'[2] = s
    BY <1>8, <1>15 DEF Root
  <2>2. bit_pos' \in BitPos /\ b = 2 * bit_pos'
    BY <1>5, <1>8, Positions
  <2>3. node'[F].bit_pos = b /\ node'[F].number = number
    BY <1>10, <1>11
  <2>4. /\ node'[parent'[1]].bit_pos = 2 * bit_pos'
        /\ Side(node'[parent'[1]].bit_pos, number') = parent'[2]
        /\ number' \div (2 * node'[parent'[1]].bit_pos)
             = node'[parent'[1]].number \div (2 * node'[parent'[1]].bit_pos)
    BY <2>1, <2>2, <2>3, <1>1, <1>6
  <2> QED BY <2>1, <2>2, <2>4, <1>1, <1>3 DEF Adding, Root
<1> QED BY <1>16, <1>17, <1>18, <1>19, <1>20, <1>21

Put(n, f, v) == [node EXCEPT ![n] = [node[n] EXCEPT ![f] = v]]

(* Another count in a leaf is another count, and nothing else.             *)
LEMMA Recounted ==
  ASSUME NodesOK, NEW n \in DOMAIN node, IsLeaf(n), NEW f \in Fields, NEW v \in Nat,
         node' = Put(n, f, v), tree' = tree
  PROVE  /\ NodesOK' /\ DOMAIN node' = DOMAIN node
         /\ Interior' = Interior /\ Owners' = Owners
         /\ \A q \in Owners : Deref(q)' = Deref(q)
         /\ \A m \in DOMAIN node :
              /\ node'[m].bit_pos = node[m].bit_pos /\ node'[m].number = node[m].number
              /\ IsLeaf(m)' = IsLeaf(m)
              /\ m # n => node'[m] = node[m]
              /\ \A g \in Fields : node'[m][g] = IF m = n /\ g = f THEN v ELSE node[m][g]
<1>1. node \in [DOMAIN node -> NodeRecords] /\ node[n] \in NodeRecords
  BY DEF NodesOK
<1> DEFINE r == [node[n] EXCEPT ![f] = v]
<1>2. /\ r \in NodeRecords /\ r.bit_pos = node[n].bit_pos /\ r.number = node[n].number
      /\ \A g \in Fields : r[g] = IF g = f THEN v ELSE node[n][g]
  <2>1. v \in Nat \cup Nodes /\ r = [node[n] EXCEPT ![f] = v]
    OBVIOUS
  <2> HIDE DEF r
  <2> QED BY <2>1, <1>1 DEF NodeRecords, Fields
<1>3. node' = [node EXCEPT ![n] = r]
  BY DEF Put
<1> HIDE DEF r
<1>4. DOMAIN node' = DOMAIN node /\ node' \in [DOMAIN node' -> NodeRecords]
  BY <1>1, <1>2, <1>3
<1>5. ASSUME NEW m \in DOMAIN node
      PROVE  /\ node'[m].bit_pos = node[m].bit_pos /\ node'[m].number = node[m].number
             /\ m # n => node'[m] = node[m]
             /\ \A g \in Fields : node'[m][g] = IF m = n /\ g = f THEN v ELSE node[m][g]
  <2>1. CASE m = n
    BY <2>1, <1>1, <1>2, <1>3
  <2>2. CASE m # n
    BY <2>2, <1>1, <1>3
  <2> QED BY <2>1, <2>2
<1>6. \A m \in DOMAIN node : IsLeaf(m)' = IsLeaf(m)
  BY <1>5 DEF IsLeaf
<1>7. Interior' = Interior
  BY <1>4, <1>6 DEF Interior
<1>8. Owners' = Owners
  BY <1>7 DEF Owners
<1>9. ASSUME NEW q \in Owners PROVE Deref(q)' = Deref(q)
  <2>1. CASE q = Root
    BY <2>1 DEF Deref
  <2>2. CASE q # Root
    <3>1. q[1] \in DOMAIN node /\ ~ IsLeaf(q[1])
      BY <2>2, OwnersAre DEF Interior
    <3> QED BY <3>1, <2>2, <1>5 DEF Deref
  <2> QED BY <2>1, <2>2
<1>10. ASSUME NEW m \in DOMAIN node, IsLeaf(m) PROVE node'[m].lo \in Nat /\ node'[m].hi \in Nat
  <2>1. node'[m].lo = node'[m]["lo"] /\ node'[m].hi = node'[m]["hi"]
    BY <1>4 DEF NodeRecords
  <2>2. node[m]["lo"] \in Nat /\ node[m]["hi"] \in Nat
    BY <1>10, NodeFacts
  <2> QED BY <2>1, <2>2, <1>5 DEF Fields
<1>11. NodesOK'
  BY <1>4, <1>6, <1>10 DEF NodesOK
<1> QED BY <1>4, <1>5, <1>6, <1>7, <1>8, <1>9, <1>11

(* The shape is about pointers, numbers and positions.                     *)
LEMMA SameTree ==
  ASSUME TreeOwned, RadixShape, Building,
         DOMAIN node' = DOMAIN node, Interior' = Interior, Owners' = Owners,
         \A q \in Owners : Deref(q)' = Deref(q),
         \A m \in DOMAIN node : node'[m].bit_pos = node[m].bit_pos /\ node'[m].number = node[m].number
  PROVE  TreeOwned' /\ RadixShape'
<1>1. TreeOwned'
  BY DEF TreeOwned
<1>2. RadixShape'
  <2> SUFFICES ASSUME NEW n \in Interior, NEW f \in Fields, node'[n][f] # NULL
               PROVE  /\ node'[node'[n][f]].bit_pos < node'[n].bit_pos
                      /\ Side(node'[n].bit_pos, node'[node'[n][f]].number) = f
                      /\ node'[node'[n][f]].number \div (2 * node'[n].bit_pos)
                           = node'[n].number \div (2 * node'[n].bit_pos)
    BY DEF RadixShape, Interior
  <2>1. n \in DOMAIN node /\ ~ IsLeaf(n) /\ <<n, f>> \in Owners /\ <<n, f>> # Root
    BY DEF Interior, Owners, Root
  <2>2. node'[n][f] = node[n][f] /\ node[n][f] = Deref(<<n, f>>)
    BY <2>1 DEF Deref
  <2>3. node[n][f] \in DOMAIN node
    BY <2>1, <2>2 DEF TreeOwned
  <2>4. /\ node[node[n][f]].bit_pos < node[n].bit_pos
        /\ Side(node[n].bit_pos, node[node[n][f]].number) = f
        /\ node[node[n][f]].number \div (2 * node[n].bit_pos) = node[n].number \div (2 * node[n].bit_pos)
    BY <2>1, <2>2 DEF RadixShape, Building
  <2> QED BY <2>1, <2>2, <2>3, <2>4
<1> QED BY <1>1, <1>2

(* In add_number, the node reached is where the next position is.          *)
LEMMA HereIs ==
  ASSUME NodesOK, TreeOwned, RadixShape, Adding, phase = "add", nptr # NULL, Diff = {}
  PROVE  /\ nptr \in DOMAIN node /\ here = node[nptr].bit_pos /\ here \in BitPos
         /\ number \in Numbers
         /\ number \div (2 * here) = node[nptr].number \div (2 * here)
<1> DEFINE low == node[nptr].bit_pos
           x == node[nptr].number
<1>1. nptr \in DOMAIN node /\ number \in Nat /\ x \in Nat /\ low \in BitPos /\ bit_pos \in BitPos
        /\ low <= bit_pos /\ x \div (2 * bit_pos) = number \div (2 * bit_pos) /\ number \in Numbers
  BY SubtreeAgrees, NodeFacts, NumbersAreNat
<1>2. here = low
  <2>1. low \in Nat /\ bit_pos \in Nat
    BY <1>1, Positions
  <2>2. Min({bit_pos, low}) = low
    <3>1. Min({bit_pos, low}) = IF bit_pos <= low THEN bit_pos ELSE low
      BY <2>1, MinOfTwo
    <3> QED BY <3>1, <2>1, <1>1
  <2> QED BY <2>2 DEF here
<1>3. Diff = {c \in BitPos : low < c /\ c <= bit_pos /\ IsSet(c, number) # IsSet(c, x)}
  BY DEF Diff, Differing
<1>4. number \div (2 * low) = x \div (2 * low)
  <2> HIDE DEF low, x
  <2>1. \A c \in BitPos : low < c /\ c <= bit_pos => IsSet(c, number) = IsSet(c, x)
    BY <1>3
  <2> QED BY <2>1, <1>1, AgreeDown
<1> QED BY <1>1, <1>2, <1>4

LEMMA Descended ==
  ASSUME RadixIInv, Descend
  PROVE  Adding' /\ NodesNeeded'
<1>1. /\ NodesOK /\ TreeOwned /\ RadixShape /\ Adding /\ NodesNeeded
      /\ phase = "add" /\ requests \in 0 .. MaxRequests
      /\ nptr # NULL /\ Diff = {} /\ here > 1
      /\ parent' = <<nptr, Side(here, number)>> /\ bit_pos' = here \div 2
      /\ UNCHANGED <<phase, tree, node, number, requests>>
  BY DEF RadixIInv, RadixTypeOK, Descend
<1>2. /\ nptr \in DOMAIN node /\ here = node[nptr].bit_pos /\ here \in BitPos
      /\ number \in Numbers
      /\ number \div (2 * here) = node[nptr].number \div (2 * here)
  BY <1>1, HereIs
<1>3. here = 2 * bit_pos' /\ bit_pos' \in BitPos
  BY <1>1, <1>2, Positions
<1>4. PICK n \in DOMAIN node : n = nptr
  BY <1>2
<1>5. PICK f \in Fields : f = Side(here, number)
  BY Sides
<1>6. parent' = <<n, f>> /\ parent' # Root /\ parent'[1] = n /\ parent'[2] = f
  BY <1>1, <1>4, <1>5 DEF Root
<1>7. n \in Interior
  BY <1>1, <1>2, <1>4 DEF Interior, IsLeaf
<1>8. parent' \in Owners'
  BY <1>1, <1>6, <1>7 DEF Owners, Interior, IsLeaf
<1>9. Adding'
  BY <1>1, <1>2, <1>3, <1>4, <1>5, <1>6, <1>8 DEF Adding, Root
<1>10. NodesNeeded'
  <2>1. Cardinality(DOMAIN node) <= 2 * requests - 2 /\ Cardinality(DOMAIN node) \in Nat
    BY <1>1, FS_CardinalityType DEF NodesNeeded, NodesOK
  <2> QED BY <2>1, <1>1 DEF NodesNeeded
<1> QED BY <1>9, <1>10

LEMMA Counted ==
  ASSUME RadixIInv, CountNumber
  PROVE  NodesOK' /\ TreeOwned' /\ RadixShape' /\ NoneHollow' /\ NodesNeeded'
<1>1. /\ NodesOK /\ TreeOwned /\ RadixShape /\ Adding /\ NoneHollow /\ NodesNeeded
      /\ phase = "add" /\ requests \in 0 .. MaxRequests /\ phase' = "read" /\ requests' = requests
      /\ nptr # NULL /\ Diff = {} /\ here = 1 /\ tree' = tree
      /\ node' = [node EXCEPT ![nptr][Side(1, number)] = @ + 1]
  BY DEF RadixIInv, RadixTypeOK, CountNumber
<1>2. nptr \in DOMAIN node /\ IsLeaf(nptr)
  BY <1>1, HereIs DEF IsLeaf
<1>3. PICK n \in DOMAIN node : n = nptr
  BY <1>2
<1>4. PICK f \in Fields : f = Side(1, number)
  BY Sides
<1>5. node[n][f] \in Nat
  BY <1>1, <1>2, <1>3, NodeFacts DEF Fields
<1>6. PICK v \in Nat : v = node[n][f] + 1
  BY <1>5
<1>7. NodesOK /\ IsLeaf(n) /\ tree' = tree /\ node' = Put(n, f, v)
  BY <1>1, <1>2, <1>3, <1>4, <1>6 DEF Put
<1>8. /\ NodesOK' /\ DOMAIN node' = DOMAIN node
      /\ Interior' = Interior /\ Owners' = Owners
      /\ \A q \in Owners : Deref(q)' = Deref(q)
      /\ \A m \in DOMAIN node :
           /\ node'[m].bit_pos = node[m].bit_pos /\ node'[m].number = node[m].number
           /\ IsLeaf(m)' = IsLeaf(m)
           /\ m # n => node'[m] = node[m]
           /\ \A g \in Fields : node'[m][g] = IF m = n /\ g = f THEN v ELSE node[m][g]
  BY <1>7, Recounted
<1>9. TreeOwned' /\ RadixShape'
  BY <1>1, <1>8, SameTree DEF Building
<1>10. NoneHollow'
  <2> SUFFICES ASSUME NEW m \in DOMAIN node, Hollow(m)' PROVE FALSE
    BY <1>8 DEF NoneHollow
  <2>1. CASE m = n
    <3>1. node'[n][f] = v /\ v # 0
      BY <1>5, <1>6, <1>8
    <3>2. node'[n].lo = node'[n]["lo"] /\ node'[n].hi = node'[n]["hi"]
      BY <1>8 DEF NodesOK, NodeRecords
    <3> QED BY <2>1, <3>1, <3>2 DEF Hollow, Fields
  <2>2. CASE m # n
    BY <2>2, <1>1, <1>8 DEF NoneHollow, Hollow, Emptied, Building
  <2> QED BY <2>1, <2>2
<1>11. NodesNeeded'
  <2>1. Cardinality(DOMAIN node) <= 2 * requests /\ Cardinality(DOMAIN node) \in Nat
    BY <1>1, FS_CardinalityType DEF NodesNeeded, NodesOK
  <2> QED BY <2>1, <1>1, <1>8 DEF NodesNeeded
<1> QED BY <1>8, <1>9, <1>10, <1>11

LEMMA StackLength ==
  ASSUME NEW S, NEW s \in Seq(S), s # <<>>
  PROVE  Len(s) \in Nat /\ Len(s) >= 1 /\ \A k \in 1 .. Len(s) : s[k] \in S
<1>1. Len(s) \in Nat /\ Len(s) >= 1
  BY EmptySeq, LenProperties
<1> QED BY <1>1, ElementOfSeq

LEMMA LengthFromDomain ==
  ASSUME NEW S, NEW t \in Seq(S), NEW n \in Nat, DOMAIN t = 1 .. n
  PROVE  Len(t) = n
<1>1. Len(t) \in Nat /\ 1 .. Len(t) = 1 .. n
  BY LenProperties
<1>2. Len(t) <= n
  <2>1. CASE Len(t) >= 1
    <3>1. Len(t) \in 1 .. n
      BY <1>1, <2>1
    <3> QED BY <3>1
  <2> QED BY <1>1, <2>1
<1>3. n <= Len(t)
  <2>1. CASE n >= 1
    <3>1. n \in 1 .. Len(t)
      BY <1>1, <2>1
    <3> QED BY <3>1
  <2> QED BY <1>1, <2>1
<1> QED BY <1>1, <1>2, <1>3

LEMMA StackPopped ==
  ASSUME NEW S, NEW s \in Seq(S), s # <<>>, NEW t, t = SubSeq(s, 1, Len(s) - 1)
  PROVE  /\ t \in Seq(S)
         /\ Len(t) = Len(s) - 1
         /\ \A k \in 1 .. (Len(s) - 1) : t[k] = s[k]
<1>1. Len(s) \in Nat /\ Len(s) >= 1 /\ \A k \in 1 .. Len(s) : s[k] \in S
  BY StackLength
<1>2. t = [k \in 1 .. (Len(s) - 1) |-> s[k]]
  BY <1>1
<1>3. t \in [1 .. (Len(s) - 1) -> S]
  <2>1. \A k \in 1 .. (Len(s) - 1) : s[k] \in S
    BY <1>1
  <2> QED BY <2>1, <1>2
<1>4. t \in Seq(S)
  BY <1>1, <1>3, IsASeq
<1>5. Len(t) = Len(s) - 1
  <2> DEFINE n == Len(s) - 1
  <2>1. n \in Nat /\ DOMAIN t = 1 .. n
    BY <1>1, <1>2
  <2> HIDE DEF n
  <2>2. Len(t) = n
    BY <1>4, <2>1, LengthFromDomain, Zenon
  <2> QED BY <2>2 DEF n
<1> QED BY <1>2, <1>4, <1>5

(* What the path says of its last call.                                    *)
LEMMA TopOfPath ==
  ASSUME RadixIInv, phase = "take", calls # <<>>
  PROVE  /\ calls \in Seq(TakeFrames) /\ Len(calls) \in Nat /\ Len(calls) >= 1
         /\ TopCall = calls[Len(calls)]
         /\ \A k \in 1 .. Len(calls) : calls[k] \in TakeFrames
         /\ TopCall \in TakeFrames /\ TopCall.parent \in Owners
         /\ TopCall.nptr = Deref(TopCall.parent) /\ TopCall.nptr \in DOMAIN node \cup {NULL}
         /\ \A k \in 1 .. Len(calls) : k < Len(calls) =>
              calls[k].nptr \in Interior /\ calls[k].nptr \in DOMAIN node
<1>1. calls \in Seq(TakeFrames)
  BY DEF RadixIInv, RadixTypeOK
<1>2. Len(calls) \in Nat /\ Len(calls) >= 1 /\ \A k \in 1 .. Len(calls) : calls[k] \in TakeFrames
  BY <1>1, StackLength
<1>3. Len(calls) \in 1 .. Len(calls)
  BY <1>2
<1>4. TopCall.parent \in Owners /\ TopCall.nptr = Deref(TopCall.parent)
  BY <1>3 DEF RadixIInv, Path, TopCall
<1>5. TopCall.nptr \in DOMAIN node \cup {NULL}
  BY <1>4 DEF RadixIInv, TreeOwned, Building
<1>6. \A k \in 1 .. Len(calls) : k < Len(calls) =>
              calls[k].nptr \in Interior /\ calls[k].nptr \in DOMAIN node
  BY DEF RadixIInv, Path, Interior
<1> QED BY <1>1, <1>2, <1>3, <1>4, <1>5, <1>6 DEF TopCall

(* Coming back without a change to the tree.                               *)
LEMMA CameBack ==
  ASSUME RadixIInv, phase = "take", calls # <<>>,
         TopCall.stage = "zero" \/ ~ Hollow(TopCall.nptr),
         calls' = Lower, UNCHANGED <<phase, tree, node>>
  PROVE  calls' \in Seq(TakeFrames) /\ Path' /\ NoneHollow'
<1>1. /\ calls \in Seq(TakeFrames) /\ Len(calls) \in Nat /\ Len(calls) >= 1
      /\ TopCall = calls[Len(calls)]
  BY TopOfPath
<1>2. /\ calls' \in Seq(TakeFrames) /\ Len(calls') = Len(calls) - 1
      /\ \A k \in 1 .. (Len(calls) - 1) : calls'[k] = calls[k]
  BY <1>1, StackPopped DEF Lower
<1>3. \A k \in 1 .. Len(calls') : k \in 1 .. Len(calls) /\ k < Len(calls) /\ calls'[k] = calls[k]
  BY <1>1, <1>2
<1>4. Owners' = Owners /\ Interior' = Interior
  BY DEF Owners, Interior, IsLeaf
<1>5. Path'
  <2>1. Path
    BY DEF RadixIInv
  <2>2. \A k \in 1 .. Len(calls') :
          /\ calls'[k].parent \in Owners
          /\ calls'[k].nptr = Deref(calls'[k].parent)
          /\ calls'[k].stage = "leaf" => calls'[k].nptr \in DOMAIN node /\ IsLeaf(calls'[k].nptr)
          /\ calls'[k].stage \in {"one", "both"} => calls'[k].nptr \in Interior
          /\ k = 1 => calls'[k].parent = Root
    BY <2>1, <1>3 DEF Path
  <2>3. \A k \in 1 .. Len(calls') : k < Len(calls') =>
         /\ calls'[k].stage \in {"one", "both"}
         /\ calls'[k + 1].parent = <<calls'[k].nptr, IF calls'[k].stage = "one" THEN "lo" ELSE "hi">>
    <3> TAKE k \in 1 .. Len(calls')
    <3> HAVE k < Len(calls')
    <3>1. k + 1 \in 1 .. Len(calls')
      BY <1>1, <1>2
    <3> QED BY <3>1, <2>1, <1>3 DEF Path
  <2>4. \A w, k \in 1 .. Len(calls') :
         w < k /\ calls'[k].nptr # NULL => node[calls'[k].nptr].bit_pos < node[calls'[w].nptr].bit_pos
    BY <2>1, <1>3 DEF Path
  <2> QED BY <2>2, <2>3, <2>4, <1>4 DEF Path, Deref, IsLeaf
<1>6. NoneHollow'
  <2> SUFFICES ASSUME NEW m \in DOMAIN node, Hollow(m) PROVE Emptied(m)'
    BY DEF NoneHollow, Hollow
  <2>1. PICK k \in 1 .. Len(calls) : calls[k].nptr = m /\ calls[k].stage # "zero"
    BY DEF RadixIInv, NoneHollow, Emptied, Building
  <2>2. k # Len(calls)
    BY <2>1, <1>1
  <2>3. k \in 1 .. Len(calls') /\ calls'[k] = calls[k]
    BY <2>2, <1>1, <1>2
  <2> QED BY <2>1, <2>3 DEF Emptied
<1> QED BY <1>2, <1>5, <1>6

LEMMA Continued ==
  ASSUME RadixIInv, phase = "take", calls # <<>>, NEW stage \in CallStages
  PROVE  \E f \in TakeFrames :
           /\ f.parent = TopCall.parent /\ f.nptr = TopCall.nptr /\ f.stage = stage
           /\ Continue(stage) = Append(Lower, f)
           /\ Continue(stage) \in Seq(TakeFrames) /\ Len(Continue(stage)) = Len(calls)
           /\ Continue(stage)[Len(calls)] = f
           /\ \A k \in 1 .. (Len(calls) - 1) : Continue(stage)[k] = calls[k]
<1> DEFINE f == [TopCall EXCEPT !.stage = stage]
<1>1. /\ calls \in Seq(TakeFrames) /\ Len(calls) \in Nat /\ Len(calls) >= 1
      /\ TopCall \in TakeFrames
  BY TopOfPath
<1>2. f \in TakeFrames /\ f.parent = TopCall.parent /\ f.nptr = TopCall.nptr /\ f.stage = stage
  BY <1>1 DEF TakeFrames
<1>3. Continue(stage) = Append(Lower, f)
  BY DEF Continue
<1> HIDE DEF f
<1>4. /\ Lower \in Seq(TakeFrames) /\ Len(Lower) = Len(calls) - 1
      /\ \A k \in 1 .. (Len(calls) - 1) : Lower[k] = calls[k]
  BY <1>1, StackPopped DEF Lower
<1> QED BY <1>1, <1>2, <1>3, <1>4, AppendProperties

(* Entering a leaf.                                                        *)
LEMMA EnteredLeaf ==
  ASSUME RadixIInv, phase = "take", calls # <<>>,
         TopCall.nptr # NULL, IsLeaf(TopCall.nptr),
         calls' = Continue("leaf"), UNCHANGED <<phase, tree, node>>
  PROVE  calls' \in Seq(TakeFrames) /\ Path' /\ NoneHollow'
<1>1. /\ calls \in Seq(TakeFrames) /\ Len(calls) \in Nat /\ Len(calls) >= 1
      /\ TopCall = calls[Len(calls)] /\ TopCall.nptr \in DOMAIN node /\ TopCall.parent \in Owners
      /\ TopCall.nptr = Deref(TopCall.parent)
  BY TopOfPath
<1>2. PICK f \in TakeFrames :
           /\ f.parent = TopCall.parent /\ f.nptr = TopCall.nptr /\ f.stage = "leaf"
           /\ calls' \in Seq(TakeFrames) /\ Len(calls') = Len(calls)
           /\ calls'[Len(calls)] = f
           /\ \A k \in 1 .. (Len(calls) - 1) : calls'[k] = calls[k]
  BY Continued DEF CallStages
<1>3. \A k \in 1 .. Len(calls') : k \in 1 .. Len(calls)
        /\ (k < Len(calls) => calls'[k] = calls[k])
        /\ (k = Len(calls) => calls'[k].stage = "leaf")
        /\ calls'[k].nptr = calls[k].nptr /\ calls'[k].parent = calls[k].parent
  BY <1>1, <1>2
<1>4. Owners' = Owners /\ Interior' = Interior
  BY DEF Owners, Interior, IsLeaf
<1>5. Path'
  <2>1. Path
    BY DEF RadixIInv
  <2>2. \A k \in 1 .. Len(calls') :
          /\ calls'[k].parent \in Owners
          /\ calls'[k].nptr = Deref(calls'[k].parent)
          /\ calls'[k].stage = "leaf" => calls'[k].nptr \in DOMAIN node /\ IsLeaf(calls'[k].nptr)
          /\ calls'[k].stage \in {"one", "both"} => calls'[k].nptr \in Interior
          /\ k = 1 => calls'[k].parent = Root
    <3> TAKE k \in 1 .. Len(calls')
    <3>1. CASE k < Len(calls)
      BY <3>1, <2>1, <1>3 DEF Path
    <3>2. CASE k = Len(calls)
      BY <3>2, <2>1, <1>1, <1>3 DEF Path
    <3> QED BY <3>1, <3>2, <1>1, <1>3
  <2>3. \A k \in 1 .. Len(calls') : k < Len(calls') =>
         /\ calls'[k].stage \in {"one", "both"}
         /\ calls'[k + 1].parent = <<calls'[k].nptr, IF calls'[k].stage = "one" THEN "lo" ELSE "hi">>
    <3> TAKE k \in 1 .. Len(calls')
    <3> HAVE k < Len(calls')
    <3>0. PICK c \in Nat : c = Len(calls)
      BY <1>1
    <3>1. k + 1 \in 1 .. Len(calls') /\ k < Len(calls)
      <4>1. Len(calls') = c
        BY <3>0, <1>2, <1>3
      <4>2. k + 1 \in 1 .. c /\ k < c
        BY <4>1
      <4> QED BY <4>1, <4>2, <3>0
    <3> QED BY <3>1, <2>1, <1>3 DEF Path
  <2>4. \A w, k \in 1 .. Len(calls') :
         w < k /\ calls'[k].nptr # NULL => node[calls'[k].nptr].bit_pos < node[calls'[w].nptr].bit_pos
    BY <2>1, <1>3 DEF Path
  <2> QED BY <2>2, <2>3, <2>4, <1>4 DEF Path, Deref, IsLeaf
<1>6. NoneHollow'
  <2> SUFFICES ASSUME NEW m \in DOMAIN node, Hollow(m) PROVE Emptied(m)'
    BY DEF NoneHollow, Hollow
  <2>1. PICK k \in 1 .. Len(calls) : calls[k].nptr = m /\ calls[k].stage # "zero"
    BY DEF RadixIInv, NoneHollow, Emptied, Building
  <2>2. k \in 1 .. Len(calls') /\ calls'[k].nptr = m /\ calls'[k].stage # "zero"
    BY <2>1, <1>1, <1>2, <1>3
  <2> QED BY <2>2 DEF Emptied
<1> QED BY <1>2, <1>5, <1>6

(* Calling for a subtree.                                                  *)
LEMMA CalledFor ==
  ASSUME RadixIInv, phase = "take", calls # <<>>, TopCall.nptr \in Interior,
         NEW stage \in {"one", "both"}, NEW side \in Fields,
         side = IF stage = "one" THEN "lo" ELSE "hi",
         calls' = Append(Continue(stage), Call(<<TopCall.nptr, side>>)),
         UNCHANGED <<phase, tree, node>>
  PROVE  calls' \in Seq(TakeFrames) /\ Path' /\ NoneHollow'
<1>1. /\ calls \in Seq(TakeFrames) /\ Len(calls) \in Nat /\ Len(calls) >= 1
      /\ TopCall = calls[Len(calls)] /\ TopCall.nptr \in DOMAIN node /\ TopCall.parent \in Owners
      /\ TopCall.nptr = Deref(TopCall.parent)
      /\ \A k \in 1 .. Len(calls) : k < Len(calls) =>
              calls[k].nptr \in Interior /\ calls[k].nptr \in DOMAIN node
  BY TopOfPath DEF Interior
<1>2. PICK f \in TakeFrames :
           /\ f.parent = TopCall.parent /\ f.nptr = TopCall.nptr /\ f.stage = stage
           /\ Continue(stage) \in Seq(TakeFrames) /\ Len(Continue(stage)) = Len(calls)
           /\ Continue(stage)[Len(calls)] = f
           /\ \A k \in 1 .. (Len(calls) - 1) : Continue(stage)[k] = calls[k]
  BY Continued DEF CallStages
<1>3. PICK n \in DOMAIN node : n = TopCall.nptr
  BY <1>1
<1>4. PICK g : g = Call(<<n, side>>)
  OBVIOUS
<1>5. /\ <<n, side>> \in Owners /\ <<n, side>> # Root /\ Deref(<<n, side>>) = node[n][side]
      /\ node[n][side] \in DOMAIN node \cup {NULL} /\ n # NULL /\ NodesOK /\ RadixShape
  <2>1. <<n, side>> \in Owners /\ <<n, side>> # Root /\ Deref(<<n, side>>) = node[n][side]
    BY <1>3 DEF Owners, Root, Deref
  <2>2. NodesOK /\ TreeOwned /\ RadixShape
    BY DEF RadixIInv, RadixTypeOK
  <2> QED BY <2>1, <2>2, <1>3, NodeFacts DEF TreeOwned, Building
<1>6. g.parent = <<n, side>> /\ g.nptr = node[n][side] /\ g.stage = "zero" /\ g \in TakeFrames
  <2>1. g = [parent |-> <<n, side>>, nptr |-> node[n][side], stage |-> "zero"]
    BY <1>4, <1>5 DEF Call
  <2>2. <<n, side>> \in Nodes \X Fields /\ node[n][side] \in Nodes \cup {NULL}
    BY <1>5 DEF NodesOK
  <2> QED BY <2>1, <2>2 DEF TakeFrames, CallStages
<1>7. /\ calls' \in Seq(TakeFrames) /\ Len(calls') = Len(calls) + 1
      /\ calls'[Len(calls)] = f /\ calls'[Len(calls) + 1] = g
      /\ \A k \in 1 .. (Len(calls) - 1) : calls'[k] = calls[k]
  <2>1. PICK q \in Seq(TakeFrames) : q = Continue(stage)
    BY <1>2
  <2>2. calls' = Append(q, g)
    BY <2>1, <1>3, <1>4
  <2>3. Len(q) = Len(calls) /\ q[Len(calls)] = f /\ \A k \in 1 .. (Len(calls) - 1) : q[k] = calls[k]
    BY <2>1, <1>2
  <2>4. /\ calls' \in Seq(TakeFrames) /\ Len(calls') = Len(q) + 1 /\ calls'[Len(q) + 1] = g
        /\ \A k \in 1 .. Len(q) : calls'[k] = q[k]
    <3>1. g \in TakeFrames
      BY <1>6
    <3>2. /\ Append(q, g) \in Seq(TakeFrames) /\ Len(Append(q, g)) = Len(q) + 1
          /\ Append(q, g)[Len(q) + 1] = g /\ \A k \in 1 .. Len(q) : Append(q, g)[k] = q[k]
      BY <3>1, AppendProperties
    <3> QED BY <2>2, <3>2
  <2> QED BY <2>3, <2>4, <1>1
<1>8. /\ Len(calls') = Len(calls) + 1 /\ Len(calls) \in Nat /\ Len(calls) >= 1
      /\ \A k \in 1 .. Len(calls') : k \in 1 .. Len(calls) \/ k = Len(calls) + 1
      /\ \A k \in 1 .. Len(calls) :
           /\ k \in 1 .. Len(calls')
           /\ (k < Len(calls) => calls'[k] = calls[k])
           /\ (k = Len(calls) => calls'[k].stage = stage)
           /\ calls'[k].nptr = calls[k].nptr /\ calls'[k].parent = calls[k].parent
  BY <1>1, <1>2, <1>7
<1>9. Owners' = Owners /\ Interior' = Interior
  BY DEF Owners, Interior, IsLeaf
<1>10. Path'
  <2>1. Path
    BY DEF RadixIInv
  <2>2. \A k \in 1 .. Len(calls') :
          /\ calls'[k].parent \in Owners
          /\ calls'[k].nptr = Deref(calls'[k].parent)
          /\ calls'[k].stage = "leaf" => calls'[k].nptr \in DOMAIN node /\ IsLeaf(calls'[k].nptr)
          /\ calls'[k].stage \in {"one", "both"} => calls'[k].nptr \in Interior
          /\ k = 1 => calls'[k].parent = Root
    <3> TAKE k \in 1 .. Len(calls')
    <3>1. CASE k \in 1 .. Len(calls) /\ k < Len(calls)
      BY <3>1, <2>1, <1>8 DEF Path
    <3>2. CASE k = Len(calls)
      <4>1. k \in 1 .. Len(calls) /\ calls[k] = TopCall
        BY <3>2, <1>1
      <4>2. calls'[k].stage = stage /\ calls'[k].nptr = calls[k].nptr /\ calls'[k].parent = calls[k].parent
        BY <3>2, <4>1, <1>8
      <4>3. k = 1 => calls[k].parent = Root
        BY <4>1, <2>1 DEF Path
      <4> QED BY <4>1, <4>2, <4>3, <1>1
    <3>3. CASE k = Len(calls) + 1
      <4>1. calls'[k] = g /\ k # 1
        BY <3>3, <1>1, <1>7
      <4> QED BY <4>1, <1>5, <1>6
    <3>4. k \in 1 .. Len(calls) => k < Len(calls) \/ k = Len(calls)
      BY <1>8
    <3> QED BY <3>1, <3>2, <3>3, <3>4, <1>8
  <2>3. \A k \in 1 .. Len(calls') : k < Len(calls') =>
         /\ calls'[k].stage \in {"one", "both"}
         /\ calls'[k + 1].parent = <<calls'[k].nptr, IF calls'[k].stage = "one" THEN "lo" ELSE "hi">>
    <3> TAKE k \in 1 .. Len(calls')
    <3> HAVE k < Len(calls')
    <3>1. CASE k < Len(calls)
      <4>1. k + 1 \in 1 .. Len(calls) /\ k + 1 \in 1 .. Len(calls') /\ k \in 1 .. Len(calls)
        BY <3>1, <1>1, <1>7
      <4>2. calls'[k + 1].parent = calls[k + 1].parent /\ calls'[k] = calls[k]
        BY <4>1, <3>1, <1>8
      <4> QED BY <4>1, <4>2, <3>1, <2>1 DEF Path
    <3>2. CASE k = Len(calls)
      BY <3>2, <1>2, <1>3, <1>6, <1>7
    <3>3. k < Len(calls) \/ k = Len(calls)
      BY <1>8
    <3> QED BY <3>1, <3>2, <3>3
  <2>4. ASSUME NEW w \in 1 .. Len(calls'), NEW k \in 1 .. Len(calls'), w < k, calls'[k].nptr # NULL
        PROVE  node[calls'[k].nptr].bit_pos < node[calls'[w].nptr].bit_pos
    <3>1. CASE k \in 1 .. Len(calls)
      <4>1. w \in 1 .. Len(calls)
        BY <3>1, <2>4, <1>1
      <4>2. calls'[k].nptr = calls[k].nptr /\ calls'[w].nptr = calls[w].nptr
        BY <4>1, <3>1, <1>8
      <4> QED BY <4>1, <4>2, <3>1, <2>1, <2>4 DEF Path
    <3>2. CASE k = Len(calls) + 1
      <4>1. calls'[k].nptr = node[n][side] /\ node[n][side] \in DOMAIN node
        BY <3>2, <1>5, <1>6, <1>7, <2>4
      <4>2. node[node[n][side]].bit_pos < node[n].bit_pos
        BY <4>1, <1>3, <1>5, <2>4 DEF RadixShape, Interior
      <4>3. w \in 1 .. Len(calls) /\ calls'[w].nptr = calls[w].nptr
        BY <3>2, <2>4, <1>1, <1>8
      <4>4. CASE w = Len(calls)
        BY <4>1, <4>2, <4>3, <4>4, <1>1, <1>3
      <4>5. CASE w < Len(calls)
        <5>1. node[n].bit_pos < node[calls[w].nptr].bit_pos /\ calls[w].nptr \in DOMAIN node
          BY <4>3, <4>5, <2>1, <1>1, <1>3, <1>5 DEF Path
        <5>2. /\ \E b1 \in Nat : b1 = node[n].bit_pos
              /\ \E b2 \in Nat : b2 = node[calls[w].nptr].bit_pos
              /\ \E b3 \in Nat : b3 = node[node[n][side]].bit_pos
          BY <5>1, <4>1, <1>5, NodeFacts, Positions
        <5>3. node[node[n][side]].bit_pos < node[calls[w].nptr].bit_pos
          <6>1. PICK b1 \in Nat : b1 = node[n].bit_pos
            BY <5>2
          <6>2. PICK b2 \in Nat : b2 = node[calls[w].nptr].bit_pos
            BY <5>2
          <6>3. PICK b3 \in Nat : b3 = node[node[n][side]].bit_pos
            BY <5>2
          <6>4. b3 < b1 /\ b1 < b2
            BY <5>1, <4>2, <6>1, <6>2, <6>3
          <6>5. b3 < b2
            BY <6>4
          <6> QED BY <6>2, <6>3, <6>5
        <5> QED BY <5>3, <4>1, <4>3
      <4> QED BY <4>3, <4>4, <4>5, <1>1
    <3> QED BY <3>1, <3>2, <1>1, <1>7
  <2> QED BY <2>2, <2>3, <2>4, <1>9 DEF Path, Deref, IsLeaf
<1>11. NoneHollow'
  <2> SUFFICES ASSUME NEW m \in DOMAIN node, Hollow(m) PROVE Emptied(m)'
    BY DEF NoneHollow, Hollow
  <2>1. PICK k \in 1 .. Len(calls) : calls[k].nptr = m /\ calls[k].stage # "zero"
    BY DEF RadixIInv, NoneHollow, Emptied, Building
  <2>2. k \in 1 .. Len(calls') /\ calls'[k].nptr = m /\ calls'[k].stage # "zero"
    BY <2>1, <1>1, <1>7, <1>8
  <2> QED BY <2>2 DEF Emptied
<1> QED BY <1>7, <1>10, <1>11

(* A node with nothing left, taken out of the tree.                        *)
LEMMA Unhung ==
  ASSUME NodesOK, TreeOwned, RadixShape, Building, NEW n \in DOMAIN node, Hollow(n),
         NEW p \in Owners, Deref(p) = n, Link(p, NULL, Without(n))
  PROVE  /\ NodesOK' /\ DOMAIN node' = DOMAIN node \ {n}
         /\ Interior' = Interior \ {n} /\ Owners' = {q \in Owners : q = Root \/ q[1] # n}
         /\ p \in Owners'
         /\ \A m \in DOMAIN node' :
              /\ node'[m].bit_pos = node[m].bit_pos /\ node'[m].number = node[m].number
              /\ IsLeaf(m)' = IsLeaf(m)
              /\ \A f \in Fields : node'[m][f] = IF p = <<m, f>> THEN NULL ELSE node[m][f]
         /\ \A q \in Owners' : Deref(q)' = IF q = p THEN NULL ELSE Deref(q)
         /\ \A q \in Owners : q \notin Owners' => Deref(q) = NULL
<1> DEFINE heap == Without(n)
<1>1. /\ DOMAIN heap = DOMAIN node \ {n}
      /\ heap \in [DOMAIN heap -> NodeRecords]
      /\ \A m \in DOMAIN node \ {n} : heap[m] = node[m]
  BY HeapWithout
<1>2. Link(p, NULL, heap)
  OBVIOUS
<1> HIDE DEF heap
<1>3. n # NULL /\ node[n].lo = node[n]["lo"] /\ node[n].hi = node[n]["hi"]
        /\ node[n].bit_pos \in Nat
  BY NodeFacts, Positions
<1>4. p # Root => /\ p[1] \in DOMAIN node \ {n} /\ p[1] \in Interior /\ p[2] \in Fields
                  /\ p = <<p[1], p[2]>>
  <2> HAVE p # Root
  <2>1. p[1] \in DOMAIN node /\ p[1] \in Interior /\ p[2] \in Fields /\ p = <<p[1], p[2]>>
    BY OwnersAre
  <2>2. n = node[p[1]][p[2]]
    BY DEF Deref
  <2>3. node[n].bit_pos < node[p[1]].bit_pos
    BY <2>1, <2>2, <1>3 DEF RadixShape, Building, Interior
  <2>4. p[1] # n
    BY <2>3, <1>3
  <2> QED BY <2>1, <2>4
<1>5. p \in {Root} \cup ((DOMAIN heap) \X Fields) /\ NULL \in Nat \cup Nodes
  BY <1>1, <1>4 DEF NULL
<1>6. /\ tree' = IF p = Root THEN NULL ELSE tree
      /\ DOMAIN node' = DOMAIN heap /\ node' \in [DOMAIN heap -> NodeRecords]
      /\ \A m \in DOMAIN heap :
           /\ node'[m].bit_pos = heap[m].bit_pos /\ node'[m].number = heap[m].number
           /\ \A f \in Fields : node'[m][f] = IF p = <<m, f>> THEN NULL ELSE heap[m][f]
  BY <1>1, <1>2, <1>5, Linked
<1>7. \A m \in DOMAIN node' :
        /\ node'[m].bit_pos = node[m].bit_pos /\ node'[m].number = node[m].number
        /\ IsLeaf(m)' = IsLeaf(m)
        /\ \A f \in Fields : node'[m][f] = IF p = <<m, f>> THEN NULL ELSE node[m][f]
  BY <1>1, <1>6 DEF IsLeaf
<1>8. Interior' = Interior \ {n}
  BY <1>1, <1>6, <1>7 DEF Interior
<1>9. Owners' = {q \in Owners : q = Root \/ q[1] # n}
  <2>1. ASSUME NEW q \in Owners' PROVE q \in Owners /\ (q = Root \/ q[1] # n)
    <3>1. CASE q = Root
      BY <3>1 DEF Owners
    <3>2. CASE q # Root
      <4>1. q \in (Interior \ {n}) \X Fields
        BY <3>2, <1>8 DEF Owners, Fields, Root
      <4>2. q[1] \in Interior \ {n} /\ q[2] \in Fields /\ q = <<q[1], q[2]>>
        BY <4>1, PairParts
      <4> QED BY <4>2 DEF Owners
    <3> QED BY <3>1, <3>2
  <2>2. ASSUME NEW q \in Owners, q = Root \/ q[1] # n PROVE q \in Owners'
    <3>1. CASE q = Root
      BY <3>1 DEF Owners, Root
    <3>2. CASE q # Root
      <4>1. q[1] \in Interior \ {n} /\ q[2] \in Fields /\ q = <<q[1], q[2]>>
        BY <3>2, <2>2, OwnersAre
      <4> QED BY <4>1, <1>8 DEF Owners, Fields
    <3> QED BY <3>1, <3>2
  <2> QED BY <2>1, <2>2
<1>10. ASSUME NEW q \in Owners' PROVE Deref(q)' = IF q = p THEN NULL ELSE Deref(q)
  <2>1. CASE q = Root
    BY <2>1, <1>6 DEF Deref
  <2>2. CASE q # Root
    <3>1. q \in Owners /\ q[1] # n
      BY <2>2, <1>9
    <3>2. q[1] \in DOMAIN node' /\ q[2] \in Fields /\ q = <<q[1], q[2]>>
      BY <3>1, <2>2, <1>1, <1>6, OwnersAre
    <3>3. node'[q[1]][q[2]] = IF p = <<q[1], q[2]>> THEN NULL ELSE node[q[1]][q[2]]
      BY <3>2, <1>7
    <3> QED BY <2>2, <3>2, <3>3 DEF Deref
  <2> QED BY <2>1, <2>2
<1>11. ASSUME NEW q \in Owners, q \notin Owners' PROVE Deref(q) = NULL
  <2>1. q # Root /\ q[1] = n /\ q[2] \in Fields
    BY <1>9, <1>11, OwnersAre
  <2> QED BY <2>1, <1>3 DEF Deref, Hollow, NULL, Fields
<1>12. ASSUME NEW m \in DOMAIN node', IsLeaf(m)' PROVE node'[m].lo \in Nat /\ node'[m].hi \in Nat
  <2>1. m \in DOMAIN node /\ IsLeaf(m)
    BY <1>1, <1>6, <1>7, <1>12
  <2>2. node'[m].lo = node'[m]["lo"] /\ node'[m].hi = node'[m]["hi"]
    BY <1>6 DEF NodeRecords
  <2>3. node[m]["lo"] \in Nat /\ node[m]["hi"] \in Nat
    BY <2>1, NodeFacts
  <2> QED BY <2>2, <2>3, <1>7 DEF Fields, NULL
<1>13. NodesOK'
  <2>1. DOMAIN node' \subseteq Nodes /\ IsFiniteSet(DOMAIN node')
    BY <1>1, <1>6, FS_RemoveElement DEF NodesOK
  <2> QED BY <2>1, <1>6, <1>12 DEF NodesOK
<1>14. p \in Owners'
  BY <1>4, <1>9
<1> QED BY <1>1, <1>6, <1>7, <1>8, <1>9, <1>10, <1>11, <1>13, <1>14

(* Leaving a node that is empty.                                           *)
LEMMA Removed ==
  ASSUME RadixIInv, phase = "take", calls # <<>>, TopCall.stage # "zero", Hollow(TopCall.nptr),
         TopCall.nptr \in DOMAIN node,
         Link(TopCall.parent, NULL, Without(TopCall.nptr)), calls' = Lower, 
         UNCHANGED <<phase, requests>>
  PROVE  /\ calls' \in Seq(TakeFrames) /\ NodesOK' /\ TreeOwned' /\ RadixShape' /\ NoneHollow'
         /\ NodesNeeded' /\ Path'
<1>1. /\ calls \in Seq(TakeFrames) /\ Len(calls) \in Nat /\ Len(calls) >= 1
      /\ TopCall = calls[Len(calls)] /\ TopCall.parent \in Owners
      /\ TopCall.nptr = Deref(TopCall.parent)
      /\ \A k \in 1 .. Len(calls) : k < Len(calls) =>
              calls[k].nptr \in Interior /\ calls[k].nptr \in DOMAIN node
  BY TopOfPath
<1>2. /\ NodesOK /\ TreeOwned /\ RadixShape /\ NoneHollow /\ NodesNeeded /\ Path /\ Building
      /\ requests \in 0 .. MaxRequests /\ Building'
  BY DEF RadixIInv, RadixTypeOK, Building
<1>3. PICK n \in DOMAIN node : n = TopCall.nptr
  OBVIOUS
<1>4. PICK p \in Owners : p = TopCall.parent
  BY <1>1
<1>5. Hollow(n) /\ Deref(p) = n /\ Link(p, NULL, Without(n)) /\ n # NULL
  BY <1>1, <1>2, <1>3, <1>4, NodeFacts
<1>6. /\ NodesOK' /\ DOMAIN node' = DOMAIN node \ {n}
      /\ Interior' = Interior \ {n} /\ Owners' = {q \in Owners : q = Root \/ q[1] # n}
      /\ p \in Owners'
      /\ \A m \in DOMAIN node' :
           /\ node'[m].bit_pos = node[m].bit_pos /\ node'[m].number = node[m].number
           /\ IsLeaf(m)' = IsLeaf(m)
           /\ \A f \in Fields : node'[m][f] = IF p = <<m, f>> THEN NULL ELSE node[m][f]
      /\ \A q \in Owners' : Deref(q)' = IF q = p THEN NULL ELSE Deref(q)
      /\ \A q \in Owners : q \notin Owners' => Deref(q) = NULL
  BY <1>2, <1>5, Unhung
<1>7. \A m \in DOMAIN node : /\ node[m].lo = node[m]["lo"] /\ node[m].hi = node[m]["hi"]
                             /\ node[m].bit_pos \in Nat /\ m # NULL
  BY <1>2, NodeFacts, Positions
<1>8. /\ \A q \in Owners : Deref(q) \in DOMAIN node \cup {NULL}
      /\ \A q, s \in Owners : Deref(q) = Deref(s) /\ Deref(q) # NULL => q = s
      /\ \A m \in DOMAIN node : \E q \in Owners : Deref(q) = m
  BY <1>2 DEF TreeOwned
<1>9. TreeOwned'
  <2>1. Owners' \subseteq Owners
    BY <1>6
  <2>2. \A q \in Owners' : q # p => Deref(q) # n
    BY <2>1, <1>5, <1>8
  <2>3. \A q \in Owners' : Deref(q)' \in DOMAIN node' \cup {NULL}
    BY <2>1, <2>2, <1>6, <1>8
  <2>4. \A q, s \in Owners' : Deref(q)' = Deref(s)' /\ Deref(q)' # NULL => q = s
    BY <2>1, <1>6, <1>8
  <2>5. ASSUME NEW m \in DOMAIN node' PROVE \E q \in Owners' : Deref(q)' = m
    <3>1. m \in DOMAIN node /\ m # n /\ m # NULL
      BY <1>6, <1>7
    <3>2. PICK q \in Owners : Deref(q) = m
      BY <3>1, <1>8
    <3> QED BY <3>1, <3>2, <1>5, <1>6
  <2> QED BY <2>3, <2>4, <2>5 DEF TreeOwned
<1>10. RadixShape'
  <2> SUFFICES ASSUME NEW m \in Interior', NEW f \in Fields, node'[m][f] # NULL
               PROVE  /\ node'[node'[m][f]].bit_pos < node'[m].bit_pos
                      /\ Side(node'[m].bit_pos, node'[node'[m][f]].number) = f
                      /\ node'[node'[m][f]].number \div (2 * node'[m].bit_pos)
                           = node'[m].number \div (2 * node'[m].bit_pos)
    BY DEF RadixShape, Interior
  <2>1. m \in DOMAIN node' /\ m \in DOMAIN node /\ ~ IsLeaf(m) /\ m # n
    BY <1>6 DEF Interior
  <2>2. <<m, f>> \in Owners' /\ <<m, f>> \in Owners /\ Deref(<<m, f>>) = node[m][f] /\ <<m, f>> # Root
    BY <2>1, <1>6 DEF Owners, Interior, Deref, Root
  <2>3. p # <<m, f>> /\ node'[m][f] = node[m][f]
    BY <2>1, <1>6
  <2>4. node[m][f] \in DOMAIN node /\ node[m][f] # n
    BY <2>2, <2>3, <1>5, <1>8
  <2>5. node[m][f] \in DOMAIN node'
    BY <2>4, <1>6
  <2>6. /\ node[node[m][f]].bit_pos < node[m].bit_pos
        /\ Side(node[m].bit_pos, node[node[m][f]].number) = f
        /\ node[node[m][f]].number \div (2 * node[m].bit_pos) = node[m].number \div (2 * node[m].bit_pos)
    BY <2>1, <2>3, <1>2 DEF RadixShape, Building
  <2> QED BY <2>1, <2>3, <2>5, <2>6, <1>6
<1>11. /\ calls' \in Seq(TakeFrames) /\ Len(calls') = Len(calls) - 1
       /\ \A k \in 1 .. (Len(calls) - 1) : calls'[k] = calls[k]
  BY <1>1, StackPopped DEF Lower
<1>12. \A k \in 1 .. Len(calls') : k \in 1 .. Len(calls) /\ k < Len(calls) /\ calls'[k] = calls[k]
  BY <1>1, <1>11
<1>13. \A k \in 1 .. Len(calls') : calls[k].nptr # n /\ calls[k].nptr \in Interior /\ calls[k].nptr \in DOMAIN node
  <2> TAKE k \in 1 .. Len(calls')
  <2>1. k \in 1 .. Len(calls) /\ k < Len(calls)
    BY <1>12
  <2>2. node[n].bit_pos < node[calls[k].nptr].bit_pos
    <3>1. Len(calls) \in 1 .. Len(calls)
      BY <1>1
    <3> QED BY <2>1, <3>1, <1>1, <1>2, <1>3, <1>5 DEF Path
  <2> QED BY <2>1, <2>2, <1>1, <1>7
<1>14. Path'
  <2>1. ASSUME NEW k \in 1 .. Len(calls')
        PROVE  /\ calls'[k].parent \in Owners'
               /\ calls'[k].stage = "leaf" => calls'[k].nptr \in DOMAIN node' /\ node'[calls'[k].nptr].bit_pos = 1
               /\ calls'[k].stage \in {"one", "both"} => calls'[k].nptr \in Interior'
               /\ k = 1 => calls'[k].parent = Root
               /\ \E q \in Owners' : q = calls'[k].parent /\ calls'[k].nptr = Deref(q)'
    <3>1. /\ k \in 1 .. Len(calls) /\ k < Len(calls) /\ calls'[k] = calls[k]
          /\ calls[k].nptr # n /\ calls[k].nptr \in Interior /\ calls[k].nptr \in DOMAIN node
      BY <1>12, <1>13
    <3>2. /\ calls[k].parent \in Owners /\ calls[k].nptr = Deref(calls[k].parent)
          /\ k = 1 => calls[k].parent = Root
          /\ calls[k].stage \in {"one", "both"}
      BY <3>1, <1>2 DEF Path
    <3>3. k # 1 => calls[k].parent # Root /\ calls[k].parent[1] # n
      <4> HAVE k # 1
      <4>1. k - 1 \in 1 .. Len(calls') /\ k - 1 \in 1 .. Len(calls) /\ k - 1 < Len(calls) /\ (k - 1) + 1 = k
        BY <3>1, <1>11
      <4>2. calls[k - 1].nptr # n
        BY <4>1, <1>13
      <4>3. calls[k].parent = <<calls[k - 1].nptr, IF calls[k - 1].stage = "one" THEN "lo" ELSE "hi">>
        <5>1. \A z \in 1 .. Len(calls) : z < Len(calls) =>
                calls[z + 1].parent = <<calls[z].nptr, IF calls[z].stage = "one" THEN "lo" ELSE "hi">>
          BY <1>2 DEF Path
        <5> QED BY <5>1, <4>1
      <4> QED BY <4>2, <4>3 DEF Root
    <3>4. calls[k].parent \in Owners' /\ calls[k].parent # p
      <4>1. calls[k].parent \in Owners'
        BY <3>2, <3>3, <1>6
      <4>2. Deref(calls[k].parent) # n
        BY <3>1, <3>2
      <4> QED BY <4>1, <4>2, <1>5
    <3>5. PICK q \in Owners' : q = calls[k].parent
      BY <3>4
    <3>6. Deref(q)' = Deref(q) /\ Deref(q) = calls[k].nptr
      BY <3>2, <3>4, <3>5, <1>6
    <3> QED BY <3>1, <3>2, <3>4, <3>5, <3>6, <1>6
  <2>2. \A k \in 1 .. Len(calls') : k < Len(calls') =>
         /\ calls'[k].stage \in {"one", "both"}
         /\ calls'[k + 1].parent = <<calls'[k].nptr, IF calls'[k].stage = "one" THEN "lo" ELSE "hi">>
    <3> TAKE k \in 1 .. Len(calls')
    <3> HAVE k < Len(calls')
    <3>1. k + 1 \in 1 .. Len(calls')
      BY <1>1, <1>11
    <3> QED BY <3>1, <1>2, <1>12 DEF Path
  <2>3. ASSUME NEW w \in 1 .. Len(calls'), NEW k \in 1 .. Len(calls'), w < k
        PROVE  node'[calls'[k].nptr].bit_pos < node'[calls'[w].nptr].bit_pos
    <3>1. /\ calls[k].nptr \in DOMAIN node /\ calls[k].nptr # n
          /\ calls[w].nptr \in DOMAIN node /\ calls[w].nptr # n
      BY <1>13
    <3>2. node[calls[k].nptr].bit_pos < node[calls[w].nptr].bit_pos
      BY <3>1, <2>3, <1>2, <1>7, <1>12 DEF Path
    <3> QED BY <3>1, <3>2, <1>6, <1>12
  <2> QED BY <2>1, <2>2, <2>3 DEF Path, Deref, IsLeaf
<1>15. NoneHollow'
  <2> SUFFICES ASSUME NEW m \in DOMAIN node', Hollow(m)' PROVE Emptied(m)'
    BY DEF NoneHollow
  <2>1. m \in DOMAIN node /\ m # n
    BY <1>6
  <2>2. CASE \E f \in Fields : p = <<m, f>>
    <3>1. TopCall.parent # Root /\ TopCall.parent[1] = m
      BY <2>2, <1>4 DEF Root
    <3>2. Len(calls) # 1
      BY <3>1, <1>1, <1>2 DEF Path
    <3> DEFINE k == Len(calls) - 1
    <3>3. k \in 1 .. Len(calls) /\ k < Len(calls) /\ k + 1 = Len(calls) /\ k \in 1 .. Len(calls')
      BY <3>2, <1>1, <1>11
    <3> HIDE DEF k
    <3>4. calls[k].stage \in {"one", "both"} /\ calls[k + 1].parent[1] = calls[k].nptr
      BY <3>3, <1>2 DEF Path
    <3>5. calls[k].nptr = m
      BY <3>1, <3>3, <3>4, <1>1
    <3> QED BY <3>3, <3>4, <3>5, <1>2, <1>12 DEF Emptied
  <2>3. CASE ~ \E f \in Fields : p = <<m, f>>
    <3>1. node'[m]["lo"] = node[m]["lo"] /\ node'[m]["hi"] = node[m]["hi"]
      BY <2>3, <1>6 DEF Fields
    <3>2. node'[m].lo = node'[m]["lo"] /\ node'[m].hi = node'[m]["hi"]
      BY <1>6 DEF NodesOK, NodeRecords
    <3>3. Hollow(m)
      BY <2>1, <3>1, <3>2, <1>7 DEF Hollow
    <3>4. PICK k \in 1 .. Len(calls) : calls[k].nptr = m /\ calls[k].stage # "zero"
      BY <2>1, <3>3, <1>2 DEF NoneHollow, Emptied
    <3>5. k # Len(calls)
      BY <3>4, <2>1, <1>1, <1>3
    <3>6. k \in 1 .. Len(calls') /\ calls'[k] = calls[k]
      BY <3>5, <1>1, <1>11
    <3> QED BY <3>4, <3>6 DEF Emptied
  <2> QED BY <2>2, <2>3
<1>16. NodesNeeded'
  <2>0. IsFiniteSet(DOMAIN node)
    BY <1>2 DEF NodesOK
  <2>1. Cardinality(DOMAIN node') = Cardinality(DOMAIN node) - 1 /\ Cardinality(DOMAIN node) \in Nat
    BY <2>0, <1>6, FS_RemoveElement, FS_CardinalityType
  <2>2. Cardinality(DOMAIN node) <= 2 * requests
    BY <1>2 DEF NodesNeeded
  <2> QED BY <2>1, <2>2, <1>2 DEF NodesNeeded
<1> QED BY <1>6, <1>9, <1>10, <1>11, <1>14, <1>15, <1>16

(* A number taken from the leaf on top of the path.                        *)
LEMMA TakenOne ==
  ASSUME RadixIInv, TakeNumber
  PROVE  NodesOK' /\ TreeOwned' /\ RadixShape' /\ NoneHollow' /\ NodesNeeded' /\ Path'
<1>1. /\ NodesOK /\ TreeOwned /\ RadixShape /\ Path /\ NoneHollow /\ NodesNeeded
      /\ phase = "take" /\ phase' = "take" /\ calls # <<>> /\ calls' = calls
      /\ tree' = tree /\ requests' = requests /\ requests \in 0 .. MaxRequests
      /\ TopCall.stage = "leaf"
      /\ node[TopCall.nptr].lo > 0 \/ node[TopCall.nptr].hi > 0
      /\ node' = [node EXCEPT ![TopCall.nptr][NextSide(node[TopCall.nptr])] = @ - 1]
  BY DEF RadixIInv, RadixTypeOK, TakeNumber, Taking
<1>2. /\ Len(calls) \in Nat /\ Len(calls) >= 1 /\ TopCall = calls[Len(calls)]
      /\ \A k \in 1 .. Len(calls) : k < Len(calls) =>
              calls[k].nptr \in Interior /\ calls[k].nptr \in DOMAIN node
  BY <1>1, TopOfPath
<1>3. Len(calls) \in 1 .. Len(calls)
  BY <1>2
<1>4. TopCall.nptr \in DOMAIN node /\ IsLeaf(TopCall.nptr)
  BY <1>1, <1>2, <1>3 DEF Path
<1>5. PICK n \in DOMAIN node : n = TopCall.nptr
  BY <1>4
<1>6. PICK f \in Fields : f = NextSide(node[TopCall.nptr])
  BY DEF NextSide, Fields
<1>7. node[n][f] \in Nat /\ node[n][f] > 0
  BY <1>1, <1>4, <1>5, <1>6, NodeFacts DEF NextSide, Fields
<1>8. PICK v \in Nat : v = node[n][f] - 1
  BY <1>7
<1>9. NodesOK /\ IsLeaf(n) /\ tree' = tree /\ node' = Put(n, f, v)
  BY <1>1, <1>4, <1>5, <1>6, <1>8 DEF Put
<1>10. /\ NodesOK' /\ DOMAIN node' = DOMAIN node
       /\ Interior' = Interior /\ Owners' = Owners
       /\ \A q \in Owners : Deref(q)' = Deref(q)
       /\ \A m \in DOMAIN node :
            /\ node'[m].bit_pos = node[m].bit_pos /\ node'[m].number = node[m].number
            /\ IsLeaf(m)' = IsLeaf(m)
            /\ m # n => node'[m] = node[m]
  BY <1>9, Recounted
<1>11. TreeOwned' /\ RadixShape'
  BY <1>1, <1>10, SameTree DEF Building
<1>12. NoneHollow'
  <2> SUFFICES ASSUME NEW m \in DOMAIN node, Hollow(m)' PROVE Emptied(m)
    BY <1>1, <1>10 DEF NoneHollow, Emptied
  <2>1. CASE m = n
    BY <2>1, <1>1, <1>2, <1>3, <1>5 DEF Emptied
  <2>2. CASE m # n
    BY <2>2, <1>1, <1>10 DEF NoneHollow, Hollow, Building
  <2> QED BY <2>1, <2>2
<1>13. NodesNeeded'
  BY <1>1, <1>10 DEF NodesNeeded
<1>14. Path'
  <2>1. ASSUME NEW k \in 1 .. Len(calls)
        PROVE  /\ calls[k].parent \in Owners'
               /\ calls[k].nptr = Deref(calls[k].parent)'
               /\ calls[k].nptr \in DOMAIN node \cup {NULL}
               /\ calls[k].stage = "leaf" => calls[k].nptr \in DOMAIN node /\ node'[calls[k].nptr].bit_pos = 1
               /\ calls[k].stage \in {"one", "both"} => calls[k].nptr \in Interior'
               /\ k = 1 => calls[k].parent = Root
    <3>1. /\ calls[k].parent \in Owners
          /\ calls[k].nptr = Deref(calls[k].parent)
          /\ calls[k].stage = "leaf" => calls[k].nptr \in DOMAIN node /\ IsLeaf(calls[k].nptr)
          /\ calls[k].stage \in {"one", "both"} => calls[k].nptr \in Interior
          /\ k = 1 => calls[k].parent = Root
      BY <1>1 DEF Path
    <3>2. PICK q \in Owners : q = calls[k].parent
      BY <3>1
    <3>3. Deref(q)' = Deref(q) /\ Deref(q) \in DOMAIN node \cup {NULL}
      BY <1>1, <1>10 DEF TreeOwned, Building
    <3>4. Deref(calls[k].parent)' = Deref(q)'
      BY <3>2, <1>1 DEF Deref
    <3> QED BY <3>1, <3>2, <3>3, <3>4, <1>10 DEF IsLeaf
  <2>2. ASSUME NEW w \in 1 .. Len(calls), NEW k \in 1 .. Len(calls), w < k, calls[k].nptr # NULL
        PROVE  node'[calls[k].nptr].bit_pos < node'[calls[w].nptr].bit_pos
    <3>1. w < Len(calls) /\ calls[w].nptr \in DOMAIN node /\ calls[k].nptr \in DOMAIN node
      BY <2>1, <2>2, <1>2
    <3>2. node[calls[k].nptr].bit_pos < node[calls[w].nptr].bit_pos
      BY <2>2, <1>1 DEF Path
    <3> QED BY <3>1, <3>2, <1>10
  <2>3. \A k \in 1 .. Len(calls) : k < Len(calls) =>
         /\ calls[k].stage \in {"one", "both"}
         /\ calls[k + 1].parent = <<calls[k].nptr, IF calls[k].stage = "one" THEN "lo" ELSE "hi">>
    BY <1>1 DEF Path
  <2> QED BY <2>1, <2>2, <2>3, <1>1, <1>10 DEF Path, Deref, IsLeaf
<1> QED BY <1>10, <1>11, <1>12, <1>13, <1>14

(* The tree is whole when release_tree begins.                             *)
LEMMA ReleaseBegun ==
  ASSUME RadixIInv, EndOfInput
  PROVE  calls' \in Seq(ReleaseFrames) /\ ReleaseOwned'
<1>1. /\ NodesOK /\ TreeOwned /\ RadixShape /\ Building /\ phase # "release"
      /\ tree' = tree /\ node' = node
      /\ calls' = <<[nptr |-> tree, stage |-> "zero"]>>
  BY DEF RadixIInv, RadixTypeOK, EndOfInput, Building
<1>2. Root \in Owners /\ Deref(Root) = tree /\ tree \in DOMAIN node \cup {NULL}
  BY <1>1 DEF TreeOwned, Owners, Deref
<1>3. PICK c \in ReleaseFrames : c = [nptr |-> tree, stage |-> "zero"]
  BY <1>1, <1>2 DEF ReleaseFrames, NodesOK
<1>4. calls' \in Seq(ReleaseFrames) /\ Len(calls') = 1 /\ calls'[1] = c /\ 1 .. Len(calls') = {1}
  BY <1>1, <1>3
<1>5. c.nptr = tree /\ c.stage = "zero"
  BY <1>3
<1>6. Interior' = Interior /\ \A p : Deref(p)' = Deref(p)
  BY <1>1 DEF Interior, IsLeaf, Deref
<1>7. Left' = Interior \X Fields
  BY <1>4, <1>5, <1>6 DEF Left, Passed
<1>8. \A p \in Interior \X Fields : p \in Owners /\ p # Root /\ Deref(p) = node[p[1]][p[2]]
      /\ p[1] \in Interior /\ p[2] \in Fields
  <2> TAKE p \in Interior \X Fields
  <2>1. p[1] \in Interior /\ p[2] \in Fields /\ p = <<p[1], p[2]>>
    BY PairParts
  <2>2. p # Root
    BY <2>1 DEF Root
  <2> QED BY <2>1, <2>2 DEF Owners, Deref
<1>9. \A n \in DOMAIN node : tree = n \/ \E p \in Interior \X Fields : Deref(p) = n
  BY <1>1, <1>2 DEF TreeOwned, Owners
<1>10. \A p \in Interior \X Fields : tree = Deref(p) => Deref(p) = NULL
  BY <1>1, <1>2, <1>8 DEF TreeOwned
<1>11. \A p \in Interior \X Fields : Deref(p) # NULL => node[Deref(p)].bit_pos < node[p[1]].bit_pos
  BY <1>1, <1>8 DEF RadixShape, Interior
<1>12. \A p, q \in Interior \X Fields : Deref(p) = Deref(q) /\ Deref(p) # NULL => p = q
  BY <1>1, <1>8 DEF TreeOwned
<1>13. \A p \in Interior \X Fields : Deref(p) \in DOMAIN node \cup {NULL}
  BY <1>1, <1>8 DEF TreeOwned
<1>14. ReleaseOwned'
  BY <1>1, <1>2, <1>4, <1>5, <1>6, <1>7, <1>9, <1>10, <1>11, <1>12, <1>13 DEF ReleaseOwned
<1> QED BY <1>4, <1>14

LEMMA TopOfRelease ==
  ASSUME RadixIInv, Releasing
  PROVE  /\ calls \in Seq(ReleaseFrames) /\ Len(calls) \in Nat /\ Len(calls) >= 1
         /\ TopCall = calls[Len(calls)] /\ Len(calls) \in 1 .. Len(calls)
         /\ \A k \in 1 .. Len(calls) : calls[k] \in ReleaseFrames
         /\ TopCall \in ReleaseFrames /\ TopCall.nptr \in DOMAIN node \cup {NULL}
         /\ NodesOK /\ ReleaseOwned /\ phase = "release"
<1>1. calls \in Seq(ReleaseFrames) /\ NodesOK /\ ReleaseOwned /\ phase = "release" /\ calls # <<>>
  BY DEF RadixIInv, RadixTypeOK, Releasing
<1>2. Len(calls) \in Nat /\ Len(calls) >= 1 /\ \A k \in 1 .. Len(calls) : calls[k] \in ReleaseFrames
  BY <1>1, StackLength
<1>3. Len(calls) \in 1 .. Len(calls)
  BY <1>2
<1>4. TopCall.nptr \in DOMAIN node \cup {NULL}
  BY <1>1, <1>3 DEF ReleaseOwned, TopCall
<1> QED BY <1>1, <1>2, <1>3, <1>4 DEF TopCall

LEMMA ReleasedOne ==
  ASSUME RadixIInv, Releasing, Finished, UNCHANGED <<phase, tree>>, calls' = Lower,
         node' = IF TopCall.nptr = NULL THEN node ELSE Without(TopCall.nptr)
  PROVE  /\ calls' \in Seq(ReleaseFrames) /\ NodesOK' /\ ReleaseOwned'
         /\ Cardinality(DOMAIN node') <= Cardinality(DOMAIN node)
         /\ Cardinality(DOMAIN node') \in Nat /\ Cardinality(DOMAIN node) \in Nat
<1>1. /\ calls \in Seq(ReleaseFrames) /\ Len(calls) \in Nat /\ Len(calls) >= 1
      /\ TopCall = calls[Len(calls)] /\ Len(calls) \in 1 .. Len(calls)
      /\ TopCall \in ReleaseFrames /\ TopCall.nptr \in DOMAIN node \cup {NULL}
      /\ NodesOK /\ ReleaseOwned /\ phase = "release"
  BY TopOfRelease
<1>2. /\ calls' \in Seq(ReleaseFrames) /\ Len(calls') = Len(calls) - 1
      /\ \A k \in 1 .. (Len(calls) - 1) : calls'[k] = calls[k]
  BY <1>1, StackPopped DEF Lower, Releasing
<1>3. \A k \in 1 .. Len(calls') : k \in 1 .. Len(calls) /\ k < Len(calls) /\ calls'[k] = calls[k]
  BY <1>1, <1>2
<1>4. \A m \in DOMAIN node : m \in Nodes /\ m # NULL
  BY <1>1, NodeFacts
<1> DEFINE n == TopCall.nptr
<1>5. n = NULL => node' = node
  BY DEF Without
<1>6. n # NULL => n \in DOMAIN node /\ node' = Without(n)
  BY <1>1
<1>7. calls[Len(calls)].nptr = n
  BY <1>1
<1>8. (TopCall.stage = "both" \/ n = NULL \/ IsLeaf(n))
  BY DEF Finished
<1> HIDE DEF n
<1>9. /\ DOMAIN node' = DOMAIN node \ {n}
      /\ \A m \in DOMAIN node' : node'[m] = node[m]
      /\ node' \in [DOMAIN node' -> NodeRecords]
  <2>1. CASE n = NULL
    BY <2>1, <1>1, <1>4, <1>5 DEF NodesOK
  <2>2. CASE n # NULL
    BY <2>2, <1>1, <1>6, HeapWithout
  <2> QED BY <2>1, <2>2
<1>10. \A m \in DOMAIN node' : m \in DOMAIN node /\ m # n /\ m # NULL
  BY <1>4, <1>9
<1>11. NodesOK'
  <2>1. IsFiniteSet(DOMAIN node')
    BY <1>1, <1>9, FS_Subset DEF NodesOK
  <2> QED BY <2>1, <1>1, <1>9, <1>10 DEF NodesOK, IsLeaf
<1>12. /\ Cardinality(DOMAIN node') <= Cardinality(DOMAIN node)
       /\ Cardinality(DOMAIN node') \in Nat /\ Cardinality(DOMAIN node) \in Nat
  <2>1. IsFiniteSet(DOMAIN node) /\ DOMAIN node' \subseteq DOMAIN node
    BY <1>1, <1>9 DEF NodesOK
  <2> QED BY <2>1, FS_Subset, FS_CardinalityType
<1>13. Interior' = Interior \ {n}
  BY <1>9, <1>10 DEF Interior, IsLeaf
<1>14. \A m \in DOMAIN node', f \in Fields : Passed(m, f)' <=> Passed(m, f)
  <2> TAKE m \in DOMAIN node', f \in Fields
  <2>1. ASSUME NEW k \in 1 .. Len(calls), calls[k].nptr = m
        PROVE  k \in 1 .. Len(calls') /\ calls'[k] = calls[k]
    <3>1. k # Len(calls)
      BY <2>1, <1>7, <1>10
    <3> QED BY <3>1, <1>1, <1>2
  <2> QED BY <2>1, <1>3 DEF Passed
<1>15. Left' = Left /\ \A p \in Left : p[1] \in DOMAIN node' /\ p[2] \in Fields
  <2>1. ASSUME NEW p \in Left PROVE p[1] # n /\ p[1] \in Interior /\ p[2] \in Fields /\ p = <<p[1], p[2]>>
    <3>1. p[1] \in Interior /\ p[2] \in Fields /\ p = <<p[1], p[2]>> /\ ~ Passed(p[1], p[2])
      BY PairParts DEF Left
    <3>2. ASSUME p[1] = n PROVE FALSE
      <4>1. n \in Interior /\ n # NULL /\ ~ IsLeaf(n)
        BY <3>1, <3>2, <1>4 DEF Interior
      <4>2. calls[Len(calls)].stage = "both"
        BY <4>1, <1>1, <1>8
      <4> QED BY <4>2, <3>1, <3>2, <1>1, <1>7 DEF Passed
    <3> QED BY <3>1, <3>2
  <2>2. \A p \in Left : p \in Left'
    <3> TAKE p \in Left
    <3>1. p[1] \in Interior' /\ p[2] \in Fields /\ p = <<p[1], p[2]>> /\ p[1] \in DOMAIN node'
      BY <2>1, <1>13, <1>9 DEF Interior
    <3>2. ~ Passed(p[1], p[2])'
      <4>1. ~ Passed(p[1], p[2])
        BY DEF Left
      <4> QED BY <4>1, <3>1, <1>14
    <3> QED BY <3>1, <3>2 DEF Left
  <2>3. \A p \in Left' : p \in Left
    <3> TAKE p \in Left'
    <3>1. p[1] \in Interior' /\ p[2] \in Fields /\ p = <<p[1], p[2]>> /\ ~ Passed(p[1], p[2])'
      BY PairParts DEF Left
    <3>2. p[1] \in Interior /\ p[1] \in DOMAIN node'
      BY <3>1, <1>13, <1>9 DEF Interior
    <3> QED BY <3>1, <3>2, <1>14 DEF Left
  <2>4. \A p \in Left : p[1] \in DOMAIN node' /\ p[2] \in Fields
    BY <2>1, <1>9 DEF Interior
  <2> QED BY <2>2, <2>3, <2>4
<1>16. \A p \in Left : Deref(p)' = Deref(p) /\ (Deref(p) = n => Deref(p) = NULL)
  <2> TAKE p \in Left
  <2>1. p[1] \in DOMAIN node' /\ p # Root
    <3>1. p = <<p[1], p[2]>>
      BY PairParts DEF Left
    <3> QED BY <3>1, <1>15 DEF Root
  <2>2. Deref(p)' = Deref(p)
    BY <2>1, <1>9 DEF Deref
  <2>3. Deref(p) = n => Deref(p) = NULL
    BY <1>1, <1>7 DEF ReleaseOwned
  <2> QED BY <2>2, <2>3
<1>17. ReleaseOwned'
  <2>1. ASSUME NEW k \in 1 .. Len(calls')
        PROVE  /\ calls'[k].nptr \in DOMAIN node' \cup {NULL}
               /\ calls'[k].stage # "zero" => calls'[k].nptr \in Interior'
    <3>1. k \in 1 .. Len(calls) /\ k < Len(calls) /\ calls'[k] = calls[k]
      BY <1>3
    <3>2. calls[k].nptr = n => n = NULL
      <4>1. \A z, w \in 1 .. Len(calls) : calls[z].nptr = calls[w].nptr /\ calls[z].nptr # NULL => z = w
        BY <1>1 DEF ReleaseOwned
      <4> QED BY <4>1, <3>1, <1>1, <1>7
    <3>3. calls[k].nptr \in DOMAIN node \cup {NULL} /\ (calls[k].stage # "zero" => calls[k].nptr \in Interior)
      BY <3>1, <1>1 DEF ReleaseOwned
    <3> QED BY <3>1, <3>2, <3>3, <1>4, <1>9, <1>13 DEF Interior
  <2>2. \A w, k \in 1 .. Len(calls') : calls'[w].nptr = calls'[k].nptr /\ calls'[w].nptr # NULL => w = k
    <3>1. \A z, w \in 1 .. Len(calls) : calls[z].nptr = calls[w].nptr /\ calls[z].nptr # NULL => z = w
      BY <1>1 DEF ReleaseOwned
    <3> QED BY <3>1, <1>3
  <2>3. ASSUME NEW p \in Left
        PROVE  /\ Deref(p)' \in DOMAIN node' \cup {NULL}
               /\ \A q \in Left : Deref(p)' = Deref(q)' /\ Deref(p)' # NULL => p = q
               /\ \A k \in 1 .. Len(calls') : calls'[k].nptr = Deref(p)' => Deref(p)' = NULL
               /\ Deref(p)' # NULL => node'[Deref(p)'].bit_pos < node'[p[1]].bit_pos
    <3>1. /\ Deref(p) \in DOMAIN node \cup {NULL}
          /\ \A q \in Left : Deref(p) = Deref(q) /\ Deref(p) # NULL => p = q
          /\ \A k \in 1 .. Len(calls) : calls[k].nptr = Deref(p) => Deref(p) = NULL
          /\ Deref(p) # NULL => node[Deref(p)].bit_pos < node[p[1]].bit_pos
      BY <1>1 DEF ReleaseOwned
    <3>2. Deref(p)' = Deref(p) /\ (Deref(p) # NULL => Deref(p) # n /\ Deref(p) \in DOMAIN node')
      BY <3>1, <1>9, <1>16
    <3>3. \A q \in Left : Deref(q)' = Deref(q)
      BY <1>16
    <3> QED BY <3>1, <3>2, <3>3, <1>3, <1>9, <1>15
  <2>4. ASSUME NEW m \in DOMAIN node'
        PROVE  (\E k \in 1 .. Len(calls') : calls'[k].nptr = m) \/ (\E p \in Left : Deref(p)' = m)
    <3>1. (\E k \in 1 .. Len(calls) : calls[k].nptr = m) \/ (\E p \in Left : Deref(p) = m)
      BY <1>1, <1>10 DEF ReleaseOwned
    <3>2. ASSUME NEW k \in 1 .. Len(calls), calls[k].nptr = m PROVE k \in 1 .. Len(calls') /\ calls'[k].nptr = m
      <4>1. k # Len(calls)
        BY <3>2, <1>7, <1>10
      <4> QED BY <4>1, <3>2, <1>1, <1>2
    <3>3. \A p \in Left : Deref(p) = m => Deref(p)' = m
      BY <1>10, <1>16
    <3> QED BY <3>1, <3>2, <3>3
  <2> QED BY <2>1, <2>2, <2>3, <2>4, <1>15 DEF ReleaseOwned
<1> QED BY <1>2, <1>11, <1>12, <1>17

LEMMA ReleaseCalled ==
  ASSUME RadixIInv, Releasing, ~ Finished, UNCHANGED <<phase, tree, node>>, calls' = ReleaseSubtrees
  PROVE  calls' \in Seq(ReleaseFrames) /\ ReleaseOwned'
<1>1. /\ calls \in Seq(ReleaseFrames) /\ Len(calls) \in Nat /\ Len(calls) >= 1 /\ calls # <<>>
      /\ TopCall = calls[Len(calls)] /\ Len(calls) \in 1 .. Len(calls)
      /\ TopCall \in ReleaseFrames /\ TopCall.nptr \in DOMAIN node \cup {NULL}
      /\ NodesOK /\ ReleaseOwned /\ phase = "release"
      /\ \A k \in 1 .. Len(calls) : calls[k] \in ReleaseFrames
  BY TopOfRelease DEF Releasing
<1>2. \A m \in DOMAIN node : m \in Nodes /\ m # NULL
  BY <1>1, NodeFacts
<1>3. TopCall.nptr \in Interior /\ TopCall.stage # "both"
  BY <1>1 DEF Finished, Interior
<1>4. PICK n \in Interior : n = TopCall.nptr
  BY <1>3
<1>5. n \in DOMAIN node /\ n # NULL /\ calls[Len(calls)].nptr = n
  BY <1>1, <1>2, <1>4 DEF Interior
<1>6. PICK side \in Fields, stage \in {"one", "both"} :
        /\ calls' = Append(Continue(stage), Subtree(side))
        /\ IF TopCall.stage = "zero" THEN stage = "one" /\ side = "lo" ELSE stage = "both" /\ side = "hi"
  BY DEF ReleaseSubtrees, Fields
<1> DEFINE e == [TopCall EXCEPT !.stage = stage]
<1>7. e \in ReleaseFrames /\ e.nptr = n /\ e.stage = stage
  BY <1>1, <1>4 DEF ReleaseFrames
<1>7a. Continue(stage) = Append(Lower, e)
  BY DEF Continue
<1> HIDE DEF e
<1>7b. PICK f \in ReleaseFrames : f = e /\ f.nptr = n /\ f.stage = stage /\ Continue(stage) = Append(Lower, f)
  BY <1>7, <1>7a
<1> DEFINE p0 == <<n, side>>
<1>8. p0 \in Interior \X Fields /\ p0[1] = n /\ p0[2] = side
  OBVIOUS
<1>9. p0 \in Left
  <2>1. \A k \in 1 .. Len(calls) : calls[k].nptr = n => k = Len(calls)
    BY <1>1, <1>5 DEF ReleaseOwned
  <2>2. TopCall.stage = "one" => side = "hi"
    BY <1>6
  <2>3. TopCall.stage = "zero" \/ TopCall.stage = "one"
    BY <1>1, <1>3 DEF ReleaseFrames
  <2>4. ~ Passed(n, side)
    BY <2>1, <2>2, <2>3, <1>1 DEF Passed
  <2> QED BY <2>4, <1>8 DEF Left
<1>10. Deref(p0) = node[n][side] /\ Deref(p0) \in DOMAIN node \cup {NULL} /\ Deref(p0) \in Nodes \cup {NULL}
  <2>1. p0 # Root
    BY <1>8 DEF Root
  <2>2. Deref(p0) \in DOMAIN node \cup {NULL}
    BY <1>1, <1>9 DEF ReleaseOwned
  <2> QED BY <2>1, <2>2, <1>2, <1>8 DEF Deref
<1>11. PICK g \in ReleaseFrames : g = Subtree(side) /\ g.nptr = Deref(p0) /\ g.stage = "zero"
  <2>1. Subtree(side) = [nptr |-> Deref(p0), stage |-> "zero"]
    BY <1>4, <1>10 DEF Subtree
  <2> QED BY <2>1, <1>10 DEF ReleaseFrames
<1>12. calls' = Append(Append(Lower, f), g)
  <2>1. g = Subtree(side)
    BY <1>11
  <2> QED BY <2>1, <1>6, <1>7b
<1>13. /\ calls' \in Seq(ReleaseFrames) /\ Len(calls') = Len(calls) + 1
       /\ calls'[Len(calls)] = f /\ calls'[Len(calls) + 1] = g
       /\ \A k \in 1 .. (Len(calls) - 1) : calls'[k] = calls[k]
  <2>0. /\ Lower \in Seq(ReleaseFrames) /\ Len(Lower) = Len(calls) - 1
        /\ \A k \in 1 .. (Len(calls) - 1) : Lower[k] = calls[k]
    BY <1>1, StackPopped DEF Lower
  <2>1. PICK q : q = Append(Lower, f)
    OBVIOUS
  <2>2. /\ q \in Seq(ReleaseFrames) /\ Len(q) = Len(calls) /\ q[Len(calls)] = f
        /\ \A k \in 1 .. (Len(calls) - 1) : q[k] = calls[k]
    BY <2>0, <2>1, <1>1, AppendProperties
  <2>3. calls' = Append(q, g)
    BY <2>1, <1>12
  <2>4. /\ calls' \in Seq(ReleaseFrames) /\ Len(calls') = Len(q) + 1 /\ calls'[Len(q) + 1] = g
        /\ \A k \in 1 .. Len(q) : calls'[k] = q[k]
    BY <2>2, <2>3, AppendProperties
  <2> QED BY <2>2, <2>4, <1>1
<1>14. \A k \in 1 .. Len(calls) : k \in 1 .. Len(calls') /\ calls'[k].nptr = calls[k].nptr
                                  /\ (k < Len(calls) => calls'[k] = calls[k])
  <2> TAKE k \in 1 .. Len(calls)
  <2>1. CASE k = Len(calls)
    BY <2>1, <1>1, <1>5, <1>7b, <1>13
  <2>2. CASE k # Len(calls)
    BY <2>2, <1>1, <1>13
  <2> QED BY <2>1, <2>2
<1>15. \A k \in 1 .. Len(calls') : k \in 1 .. Len(calls) \/ k = Len(calls) + 1
  BY <1>1, <1>13
<1>16. Len(calls) + 1 \in 1 .. Len(calls') /\ Len(calls) + 1 \notin 1 .. Len(calls)
  BY <1>1, <1>13
<1>17. Interior' = Interior /\ \A p : Deref(p)' = Deref(p)
  BY DEF Interior, IsLeaf, Deref
<1>18. ASSUME NEW m, NEW h \in Fields PROVE Passed(m, h)' <=> Passed(m, h) \/ (m = n /\ h = side)
  <2>1. calls'[Len(calls) + 1].stage = "zero"
    BY <1>11, <1>13
  <2>2. \A k \in 1 .. Len(calls) : k # Len(calls) => calls'[k] = calls[k] /\ k \in 1 .. Len(calls')
    BY <1>1, <1>14
  <2>3. calls'[Len(calls)].stage = stage /\ calls'[Len(calls)].nptr = n /\ Len(calls) \in 1 .. Len(calls')
    BY <1>1, <1>7b, <1>13
  <2>4. \/ calls[Len(calls)].stage = "zero" /\ stage = "one" /\ side = "lo"
        \/ calls[Len(calls)].stage = "one" /\ stage = "both" /\ side = "hi"
    BY <1>1, <1>3, <1>6 DEF ReleaseFrames
  <2>5. Passed(m, h)' <=>
          \/ \E k \in 1 .. Len(calls) : k # Len(calls) /\ calls[k].nptr = m
                /\ (calls[k].stage = "both" \/ (calls[k].stage = "one" /\ h = "lo"))
          \/ n = m /\ (stage = "both" \/ (stage = "one" /\ h = "lo"))
    BY <2>1, <2>2, <2>3, <1>15, <1>16 DEF Passed
  <2>6. Passed(m, h) <=>
          \/ \E k \in 1 .. Len(calls) : k # Len(calls) /\ calls[k].nptr = m
                /\ (calls[k].stage = "both" \/ (calls[k].stage = "one" /\ h = "lo"))
          \/ n = m /\ (calls[Len(calls)].stage = "both" \/ (calls[Len(calls)].stage = "one" /\ h = "lo"))
    BY <1>1, <1>5 DEF Passed
  <2>7. n = m /\ (stage = "both" \/ (stage = "one" /\ h = "lo"))
        <=> \/ n = m /\ (calls[Len(calls)].stage = "both" \/ (calls[Len(calls)].stage = "one" /\ h = "lo"))
            \/ m = n /\ h = side
    BY <2>4 DEF Fields
  <2> QED BY <2>5, <2>6, <2>7
<1> HIDE DEF p0
<1>19. Left' = Left \ {p0}
  <2>1. \A p \in Interior \X Fields : p[2] \in Fields /\ (p = p0 <=> p[1] = n /\ p[2] = side)
    <3> TAKE p \in Interior \X Fields
    <3>1. p[2] \in Fields /\ p = <<p[1], p[2]>>
      BY PairParts
    <3> QED BY <3>1, <1>8 DEF p0
  <2> QED BY <2>1, <1>17, <1>18 DEF Left
<1>20. ReleaseOwned'
  <2>1. ASSUME NEW k \in 1 .. Len(calls')
        PROVE  /\ calls'[k].nptr \in DOMAIN node \cup {NULL}
               /\ calls'[k].stage # "zero" => calls'[k].nptr \in Interior
               /\ \A p \in Left \ {p0} : calls'[k].nptr = Deref(p) => Deref(p) = NULL
               /\ \A w \in 1 .. Len(calls') : calls'[w].nptr = calls'[k].nptr /\ calls'[w].nptr # NULL => w = k
    <3>1. CASE k = Len(calls) + 1
      <4>1. calls'[k].nptr = Deref(p0) /\ calls'[k].stage = "zero"
        BY <3>1, <1>11, <1>13
      <4>2. \A p \in Left \ {p0} : Deref(p0) = Deref(p) => Deref(p) = NULL
        BY <1>1, <1>9 DEF ReleaseOwned
      <4>3. \A w \in 1 .. Len(calls) : calls[w].nptr = Deref(p0) => Deref(p0) = NULL
        BY <1>1, <1>9 DEF ReleaseOwned
      <4> QED BY <4>1, <4>2, <4>3, <3>1, <1>10, <1>14, <1>15
    <3>2. CASE k \in 1 .. Len(calls)
      <4>1. /\ calls[k].nptr \in DOMAIN node \cup {NULL}
            /\ calls[k].stage # "zero" => calls[k].nptr \in Interior
            /\ \A p \in Left : calls[k].nptr = Deref(p) => Deref(p) = NULL
            /\ \A w \in 1 .. Len(calls) : calls[w].nptr = calls[k].nptr /\ calls[w].nptr # NULL => w = k
        BY <3>2, <1>1 DEF ReleaseOwned
      <4>2. calls'[k].nptr = calls[k].nptr
        BY <3>2, <1>14
      <4>3. calls'[k].stage # "zero" => calls'[k].nptr \in Interior
        <5>1. CASE k = Len(calls)
          BY <5>1, <4>2, <1>4, <1>5
        <5>2. CASE k # Len(calls)
          BY <5>2, <3>2, <4>1, <1>1, <1>14
        <5> QED BY <5>1, <5>2
      <4>4. ASSUME NEW w \in 1 .. Len(calls'), calls'[w].nptr = calls'[k].nptr, calls'[w].nptr # NULL PROVE w = k
        <5>1. CASE w = Len(calls) + 1
          BY <5>1, <4>1, <4>2, <4>4, <1>9, <1>11, <1>13
        <5>2. CASE w \in 1 .. Len(calls)
          BY <5>2, <4>1, <4>2, <4>4, <1>14
        <5> QED BY <5>1, <5>2, <1>15
      <4> QED BY <4>1, <4>2, <4>3, <4>4
    <3> QED BY <3>1, <3>2, <1>15
  <2>2. \A p \in Left : /\ Deref(p) \in DOMAIN node \cup {NULL}
                        /\ \A q \in Left : Deref(p) = Deref(q) /\ Deref(p) # NULL => p = q
                        /\ Deref(p) # NULL => node[Deref(p)].bit_pos < node[p[1]].bit_pos
    BY <1>1 DEF ReleaseOwned
  <2>3. ASSUME NEW m \in DOMAIN node
        PROVE  (\E k \in 1 .. Len(calls') : calls'[k].nptr = m) \/ (\E p \in Left \ {p0} : Deref(p) = m)
    <3>1. (\E k \in 1 .. Len(calls) : calls[k].nptr = m) \/ (\E p \in Left : Deref(p) = m)
      BY <1>1 DEF ReleaseOwned
    <3>2. calls'[Len(calls) + 1].nptr = Deref(p0)
      BY <1>11, <1>13
    <3> QED BY <3>1, <3>2, <1>14, <1>16
  <2> QED BY <2>1, <2>2, <2>3, <1>17, <1>19 DEF ReleaseOwned
<1> QED BY <1>13, <1>20

(* With no call left nothing is left: of what was left, the node nearest   *)
(* the root would still be pointed to.                                     *)
LEMMA NothingLeft ==
  ASSUME RadixIInv, phase = "release", calls = <<>>
  PROVE  DOMAIN node = {}
<1>1. NodesOK /\ ReleaseOwned
  BY DEF RadixIInv, RadixTypeOK
<1>2. \A m \in DOMAIN node : node[m].bit_pos \in Nat /\ node[m].bit_pos <= MaxBit /\ m # NULL
  BY <1>1, NodeFacts, Positions
<1>3. MaxBit \in Nat
  BY OneIsPosition
<1> SUFFICES ASSUME DOMAIN node # {} PROVE FALSE
  OBVIOUS
<1> DEFINE S == {MaxBit - node[m].bit_pos : m \in DOMAIN node}
<1>4. S \in SUBSET Nat /\ S # {}
  BY <1>2, <1>3
<1>5. PICK x \in S : \A y \in S : x <= y
  <2> HIDE DEF S
  <2> QED BY <1>4, LeastOfSet
<1>6. PICK n \in DOMAIN node : x = MaxBit - node[n].bit_pos
  BY <1>5
<1>7. PICK p \in Left : Deref(p) = n
  <2>1. ~ \E k \in 1 .. Len(calls) : calls[k].nptr = n
    OBVIOUS
  <2> QED BY <2>1, <1>1 DEF ReleaseOwned
<1>8. node[n].bit_pos < node[p[1]].bit_pos
  BY <1>1, <1>2, <1>7 DEF ReleaseOwned
<1>9. p[1] \in DOMAIN node
  BY PairParts DEF Left, Interior
<1>10. x <= MaxBit - node[p[1]].bit_pos
  BY <1>5, <1>9
<1> QED BY <1>2, <1>3, <1>6, <1>8, <1>9, <1>10

(* The tree, when a step leaves it.                                        *)
LEMMA TreeLeft ==
  ASSUME RadixIInv, UNCHANGED <<tree, node>>, Building
  PROVE  /\ NodesOK' /\ TreeOwned' /\ RadixShape'
         /\ DOMAIN node' = DOMAIN node /\ Cardinality(DOMAIN node) \in Nat
         /\ Cardinality(DOMAIN node) <= 2 * requests /\ requests \in 0 .. MaxRequests
<1>1. NodesOK /\ TreeOwned /\ RadixShape /\ requests \in 0 .. MaxRequests /\ NodesNeeded
  BY DEF RadixIInv, RadixTypeOK
<1>2. NodesOK' /\ TreeOwned' /\ RadixShape'
  BY <1>1 DEF NodesOK, TreeOwned, RadixShape, Building, IsLeaf, Owners, Interior, Deref
<1>3. Cardinality(DOMAIN node) \in Nat
  BY <1>1, FS_CardinalityType DEF NodesOK
<1> QED BY <1>1, <1>2, <1>3 DEF NodesNeeded

LEMMA NoneIsHollow ==
  ASSUME RadixIInv, Building, calls = <<>>
  PROVE  \A n \in DOMAIN node : ~ Hollow(n)
BY DEF RadixIInv, NoneHollow, Emptied

(* Steps between the phases, with no call open and the tree as it was.     *)
LEMMA Between ==
  ASSUME RadixIInv, UNCHANGED <<tree, node, calls>>, calls = <<>>, Building,
         requests' \in requests .. MaxRequests,
         phase' \in {"read", "batch", "write"}
  PROVE  RadixIInv'
<1>1. /\ NodesOK' /\ TreeOwned' /\ RadixShape'
      /\ DOMAIN node' = DOMAIN node /\ Cardinality(DOMAIN node) \in Nat
      /\ Cardinality(DOMAIN node) <= 2 * requests /\ requests \in 0 .. MaxRequests
  BY TreeLeft
<1>2. requests' \in 0 .. MaxRequests /\ requests <= requests'
  BY <1>1, RoomAssumption
<1>3. RadixTypeOK'
  BY <1>1, <1>2 DEF RadixTypeOK, RadixPhases
<1>4. NoneHollow'
  BY NoneIsHollow DEF NoneHollow, Hollow
<1>5. NodesNeeded'
  BY <1>1, <1>2 DEF NodesNeeded
<1> QED BY <1>1, <1>3, <1>4, <1>5 DEF RadixIInv, Adding, Path, ReleaseOwned, AllReleased

LEMMA Starts ==
  ASSUME RadixIInv, Start PROVE RadixIInv'
<1>1. /\ phase = "start" /\ calls = <<>> /\ Building /\ UNCHANGED <<tree, node, calls, requests>>
      /\ phase' \in {"read", "terminated"} /\ requests \in 0 .. MaxRequests
      /\ DOMAIN node = {}
  BY DEF RadixIInv, RadixTypeOK, Start, AllReleased, Building
<1>2. CASE phase' = "read"
  <2>1. requests' \in requests .. MaxRequests
    BY <1>1, RoomAssumption
  <2> QED BY <2>1, <1>1, <1>2, Between
<1>3. CASE phase' = "terminated"
  <2>1. /\ NodesOK' /\ RadixShape'
        /\ Cardinality(DOMAIN node) <= 2 * requests
    BY <1>1, TreeLeft
  <2>2. RadixTypeOK'
    BY <1>1, <1>3, <2>1 DEF RadixTypeOK, RadixPhases
  <2> QED BY <1>1, <1>3, <2>1, <2>2 DEF RadixIInv, TreeOwned, Adding, Path, NoneHollow, Building,
                                       ReleaseOwned, AllReleased, NodesNeeded
<1> QED BY <1>1, <1>2, <1>3

LEMMA Reads ==
  ASSUME RadixIInv, ReadNumber PROVE RadixIInv'
<1>1. /\ phase = "read" /\ calls = <<>> /\ Building /\ UNCHANGED <<tree, node, calls>>
      /\ requests' = requests + 1 /\ requests < MaxRequests /\ requests \in 0 .. MaxRequests
  BY DEF RadixIInv, RadixTypeOK, ReadNumber, Building
<1>2. requests' \in requests .. MaxRequests
  BY <1>1, RoomAssumption
<1>3. CASE phase' = "batch"
  BY <1>1, <1>2, <1>3, Between
<1>4. CASE phase' # "batch"
  <2>1. PICK n \in Requests : /\ ~ n < 0 /\ phase' = "add" /\ number' = n
                              /\ parent' = Root /\ bit_pos' = MaxBit
    BY <1>4 DEF ReadNumber
  <2>2. n \in Numbers
    BY <2>1, RadixAssumption
  <2>3. Adding'
    BY <2>1, <2>2, OneIsPosition DEF Adding, Owners
  <2>4. /\ NodesOK' /\ TreeOwned' /\ RadixShape'
        /\ DOMAIN node' = DOMAIN node /\ Cardinality(DOMAIN node) \in Nat
        /\ Cardinality(DOMAIN node) <= 2 * requests
    BY <1>1, TreeLeft
  <2>5. RadixTypeOK'
    <3>1. requests' \in 0 .. MaxRequests
      BY <1>1, <1>2
    <3> QED BY <3>1, <1>1, <2>1, <2>4 DEF RadixTypeOK, RadixPhases
  <2>6. NoneHollow'
    BY <1>1, NoneIsHollow DEF NoneHollow, Hollow
  <2>7. NodesNeeded'
    BY <1>1, <2>4 DEF NodesNeeded
  <2> QED BY <2>1, <2>3, <2>4, <2>5, <2>6, <2>7 DEF RadixIInv, Path, ReleaseOwned, AllReleased
<1> QED BY <1>3, <1>4

LEMMA EndsInput ==
  ASSUME RadixIInv, EndOfInput PROVE RadixIInv'
<1>1. /\ phase = "read" /\ Building /\ UNCHANGED <<tree, node, requests>> /\ phase' = "release"
  BY DEF EndOfInput, Building
<1>2. calls' \in Seq(ReleaseFrames) /\ ReleaseOwned'
  BY ReleaseBegun
<1>3. /\ NodesOK' /\ RadixShape' /\ DOMAIN node' = DOMAIN node
      /\ Cardinality(DOMAIN node) <= 2 * requests /\ requests \in 0 .. MaxRequests
  BY <1>1, TreeLeft
<1>4. RadixTypeOK'
  BY <1>1, <1>2, <1>3 DEF RadixTypeOK, RadixPhases
<1> QED BY <1>1, <1>2, <1>3, <1>4 DEF RadixIInv, TreeOwned, Adding, Path, NoneHollow, Building,
                                     AllReleased, NodesNeeded

(* add_number.                                                             *)
LEMMA Adds ==
  ASSUME RadixIInv, AddLeaf \/ Inject \/ Descend \/ CountNumber PROVE RadixIInv'
<1>1. /\ phase = "add" /\ calls = <<>> /\ calls' = calls /\ requests' = requests
      /\ requests \in 0 .. MaxRequests /\ phase' \in {"add", "read"} /\ Building
  BY DEF RadixIInv, RadixTypeOK, AddLeaf, Inject, Descend, CountNumber, Building
<1>2. NodesOK' /\ TreeOwned' /\ RadixShape' /\ NoneHollow' /\ NodesNeeded'
  <2>1. CASE AddLeaf
    BY <2>1, LeafHung
  <2>2. CASE Inject
    BY <2>2, Injected
  <2>3. CASE Descend
    <3>1. UNCHANGED <<tree, node>>
      BY <2>3 DEF Descend
    <3>2. NoneHollow'
      BY <1>1, <3>1, NoneIsHollow DEF NoneHollow, Hollow
    <3> QED BY <1>1, <2>3, <3>1, <3>2, TreeLeft, Descended
  <2>4. CASE CountNumber
    BY <2>4, Counted
  <2> QED BY <2>1, <2>2, <2>3, <2>4
<1>3. Adding'
  <2>1. CASE AddLeaf \/ CountNumber
    BY <2>1 DEF AddLeaf, CountNumber, Adding
  <2>2. CASE Inject
    BY <2>2, Injected
  <2>3. CASE Descend
    BY <2>3, Descended
  <2> QED BY <2>1, <2>2, <2>3
<1>4. RadixTypeOK'
  BY <1>1, <1>2 DEF RadixTypeOK, RadixPhases
<1> QED BY <1>1, <1>2, <1>3, <1>4 DEF RadixIInv, Path, ReleaseOwned, AllReleased

(* take_numbers.                                                           *)
LEMMA StartsBatch ==
  ASSUME RadixIInv, StartBatch PROVE RadixIInv'
<1>1. /\ phase = "batch" /\ calls = <<>> /\ Building /\ UNCHANGED <<tree, node, requests>>
      /\ requests \in 0 .. MaxRequests
  BY DEF RadixIInv, RadixTypeOK, StartBatch, Building
<1>2. CASE phase' = "read" /\ calls' = calls
  <2>1. requests' \in requests .. MaxRequests
    BY <1>1
  <2> QED BY <2>1, <1>1, <1>2, Between
<1>3. CASE phase' = "take" /\ calls' = <<Call(Root)>>
  <2>1. /\ NodesOK' /\ TreeOwned' /\ RadixShape' /\ NodesOK /\ TreeOwned
        /\ DOMAIN node' = DOMAIN node /\ Cardinality(DOMAIN node) <= 2 * requests
    BY <1>1, TreeLeft DEF RadixIInv, RadixTypeOK
  <2>2. Root \in Owners /\ Deref(Root) = tree /\ tree \in DOMAIN node \cup {NULL}
    BY <1>1, <2>1 DEF TreeOwned, Owners, Deref
  <2>3. PICK c : c = Call(Root)
    OBVIOUS
  <2>4. c.parent = Root /\ c.nptr = Deref(Root) /\ c.stage = "zero" /\ c \in TakeFrames
    BY <2>1, <2>2, <2>3 DEF Call, TakeFrames, CallStages, NodesOK
  <2>5. calls' = <<c>>
    BY <1>3, <2>3
  <2>6. calls' \in Seq(TakeFrames) /\ Len(calls') = 1 /\ calls'[1] = c /\ 1 .. Len(calls') = {1}
    BY <2>4, <2>5
  <2>7. Owners' = Owners /\ \A p : Deref(p)' = Deref(p)
    BY <1>1 DEF Owners, Interior, IsLeaf, Deref
  <2>8. Path'
    BY <2>2, <2>4, <2>6, <2>7 DEF Path
  <2>9. RadixTypeOK'
    BY <1>1, <1>3, <2>1, <2>6 DEF RadixTypeOK, RadixPhases
  <2>10. NoneHollow'
    BY <1>1, NoneIsHollow DEF NoneHollow, Hollow
  <2>11. NodesNeeded'
    BY <1>1, <1>3, <2>1 DEF NodesNeeded
  <2> QED BY <1>3, <2>1, <2>8, <2>9, <2>10, <2>11 DEF RadixIInv, Adding, ReleaseOwned, AllReleased
<1> QED BY <1>2, <1>3 DEF StartBatch

(* What a step of take_numbers_2 has to keep.                              *)
LEMMA StillTaking ==
  ASSUME RadixIInv, phase = "take", UNCHANGED <<phase, requests>>, calls' \in Seq(TakeFrames),
         NodesOK', TreeOwned', RadixShape', NoneHollow', Path', NodesNeeded'
  PROVE  RadixIInv'
<1>1. RadixTypeOK'
  BY DEF RadixIInv, RadixTypeOK
<1> QED BY <1>1 DEF RadixIInv, Adding, ReleaseOwned, AllReleased

LEMMA TakesOn ==
  ASSUME RadixIInv, Enter \/ Second PROVE RadixIInv'
<1>1. /\ phase = "take" /\ calls # <<>> /\ Building
      /\ UNCHANGED <<phase, tree, node, requests>>
  BY DEF Enter, Second, Taking, Building
<1>2. NodesOK' /\ TreeOwned' /\ RadixShape' /\ NodesNeeded'
  BY <1>1, TreeLeft DEF NodesNeeded
<1>3. /\ TopCall.nptr \in DOMAIN node \cup {NULL} /\ Len(calls) \in 1 .. Len(calls)
      /\ TopCall = calls[Len(calls)]
  BY <1>1, TopOfPath
<1>4. calls' \in Seq(TakeFrames) /\ Path' /\ NoneHollow'
  <2>1. CASE Enter
    <3>1. TopCall.stage = "zero"
      BY <2>1 DEF Enter, Taking
    <3>2. CASE calls' = Lower
      BY <3>1, <3>2, <1>1, CameBack
    <3>3. CASE TopCall.nptr # NULL /\ IsLeaf(TopCall.nptr) /\ calls' = Continue("leaf")
      BY <3>3, <1>1, EnteredLeaf
    <3>4. CASE /\ TopCall.nptr # NULL /\ ~ IsLeaf(TopCall.nptr)
               /\ calls' = Append(Continue("one"), Call(<<TopCall.nptr, "lo">>))
      <4>1. TopCall.nptr \in Interior
        BY <3>4, <1>3 DEF Interior
      <4> QED BY <4>1, <3>4, <1>1, CalledFor DEF Fields
    <3> QED BY <3>2, <3>3, <3>4, <2>1 DEF Enter
  <2>2. CASE Second
    <3>1. TopCall.nptr \in Interior
      <4>1. TopCall.stage = "one" /\ Path
        BY <2>2 DEF Second, Taking, RadixIInv
      <4> QED BY <4>1, <1>1, <1>3 DEF Path
    <3>2. calls' = Append(Continue("both"), Call(<<TopCall.nptr, "hi">>))
      BY <2>2 DEF Second
    <3> QED BY <3>1, <3>2, <1>1, CalledFor DEF Fields
  <2> QED BY <2>1, <2>2
<1> QED BY <1>1, <1>2, <1>4, StillTaking

LEMMA Takes ==
  ASSUME RadixIInv, TakeNumber PROVE RadixIInv'
<1>1. phase = "take" /\ UNCHANGED <<phase, requests>> /\ calls' = calls
  BY DEF TakeNumber, Taking
<1>2. calls' \in Seq(TakeFrames)
  BY <1>1 DEF RadixIInv, RadixTypeOK
<1> QED BY <1>1, <1>2, TakenOne, StillTaking

LEMMA LeavesNode ==
  ASSUME RadixIInv, LeaveNode PROVE RadixIInv'
<1>1. /\ phase = "take" /\ calls # <<>> /\ Building /\ calls' = Lower
      /\ UNCHANGED <<phase, requests>> /\ RemoveEmpty
      /\ TopCall.stage \in {"leaf", "both"}
  BY DEF LeaveNode, Building
<1>2. CASE Hollow(TopCall.nptr)
  <2>1. Link(TopCall.parent, NULL, Without(TopCall.nptr))
    BY <1>1, <1>2 DEF RemoveEmpty
  <2>2. TopCall.nptr \in DOMAIN node
    <3>1. TopCall = calls[Len(calls)] /\ Len(calls) \in 1 .. Len(calls)
      BY <1>1, TopOfPath
    <3> QED BY <3>1, <1>1 DEF RadixIInv, Path, Interior
  <2> QED BY <2>1, <2>2, <1>1, <1>2, Removed, StillTaking
<1>3. CASE ~ Hollow(TopCall.nptr)
  <2>1. UNCHANGED <<tree, node>>
    BY <1>1, <1>3 DEF RemoveEmpty
  <2>2. NodesOK' /\ TreeOwned' /\ RadixShape' /\ NodesNeeded'
    BY <2>1, <1>1, TreeLeft DEF NodesNeeded
  <2> QED BY <2>1, <2>2, <1>1, <1>3, CameBack, StillTaking
<1> QED BY <1>2, <1>3

LEMMA Delivers ==
  ASSUME RadixIInv, Taken \/ Write \/ Written PROVE RadixIInv'
<1>1. /\ phase \in {"take", "write"} /\ calls = <<>> /\ Building
      /\ UNCHANGED <<tree, node, calls, requests>>
      /\ phase' \in {"read", "batch", "write"} /\ requests \in 0 .. MaxRequests
  BY DEF RadixIInv, RadixTypeOK, Taken, Write, Written, Building
<1>2. requests' \in requests .. MaxRequests
  BY <1>1, RoomAssumption
<1> QED BY <1>1, <1>2, Between

(* release_tree.                                                           *)
LEMMA Releases ==
  ASSUME RadixIInv, ReleaseNode \/ Released PROVE RadixIInv'
<1>1. phase = "release" /\ requests' = requests /\ requests \in 0 .. MaxRequests
  BY DEF RadixIInv, RadixTypeOK, ReleaseNode, Released, Releasing
<1>2. NodesOK /\ Cardinality(DOMAIN node) \in Nat /\ Cardinality(DOMAIN node) <= 2 * requests
  <2>1. NodesOK /\ NodesNeeded
    BY DEF RadixIInv, RadixTypeOK
  <2> QED BY <2>1, <1>1, FS_CardinalityType DEF NodesOK, NodesNeeded
<1>3. CASE ReleaseNode
  <2>1. Releasing /\ phase' = "release" /\ UNCHANGED <<phase, tree>>
    BY <1>1, <1>3 DEF ReleaseNode
  <2>2. /\ calls' \in Seq(ReleaseFrames) /\ NodesOK' /\ ReleaseOwned'
        /\ Cardinality(DOMAIN node') \in Nat
        /\ Cardinality(DOMAIN node') <= Cardinality(DOMAIN node)
    <3>1. CASE Finished
      BY <3>1, <2>1, <1>3, ReleasedOne DEF ReleaseNode
    <3>2. CASE ~ Finished
      <4>1. UNCHANGED <<phase, tree, node>> /\ calls' = ReleaseSubtrees
        BY <3>2, <2>1, <1>3 DEF ReleaseNode
      <4>2. NodesOK'
        BY <4>1, <1>2 DEF NodesOK, IsLeaf
      <4> QED BY <4>1, <4>2, <3>2, <2>1, <1>2, ReleaseCalled
    <3> QED BY <3>1, <3>2
  <2>3. RadixTypeOK'
    BY <1>1, <2>1, <2>2 DEF RadixTypeOK, RadixPhases
  <2>4. NodesNeeded'
    BY <1>1, <1>2, <2>1, <2>2 DEF NodesNeeded
  <2> QED BY <2>1, <2>2, <2>3, <2>4 DEF RadixIInv, TreeOwned, RadixShape, Adding, Path, NoneHollow,
                                        Building, AllReleased
<1>4. CASE Released
  <2>1. calls = <<>> /\ phase' = "terminated" /\ UNCHANGED <<tree, node, calls>>
    BY <1>4 DEF Released
  <2>2. DOMAIN node = {}
    BY <1>1, <2>1, NothingLeft
  <2>3. NodesOK'
    BY <2>1, <1>2 DEF NodesOK, IsLeaf
  <2>4. RadixTypeOK'
    BY <1>1, <2>1, <2>3 DEF RadixTypeOK, RadixPhases
  <2>5. RadixShape' /\ NodesNeeded'
    BY <1>1, <1>2, <2>1, <2>2 DEF RadixShape, NodesNeeded
  <2> QED BY <2>1, <2>2, <2>4, <2>5 DEF RadixIInv, TreeOwned, Adding, Path, NoneHollow,
                                        Building, ReleaseOwned, AllReleased
<1> QED BY <1>3, <1>4

LEMMA RadixInitial == RadixInit => RadixIInv
<1> SUFFICES ASSUME RadixInit PROVE RadixIInv
  OBVIOUS
<1>1. phase = "start" /\ tree = NULL /\ DOMAIN node = {} /\ calls = <<>> /\ requests = 0
      /\ node \in [DOMAIN node -> NodeRecords]
  BY DEF RadixInit
<1>2. IsFiniteSet(DOMAIN node) /\ Cardinality(DOMAIN node) = 0
  BY <1>1, FS_EmptySet
<1>3. RadixTypeOK
  BY <1>1, <1>2, RoomAssumption DEF RadixTypeOK, RadixPhases, NodesOK
<1>4. Interior = {} /\ Owners = {Root} /\ Deref(Root) = NULL
  BY <1>1 DEF Interior, Owners, Deref
<1>5. TreeOwned
  BY <1>1, <1>4 DEF TreeOwned
<1>6. NodesNeeded
  BY <1>1, <1>2 DEF NodesNeeded
<1> QED BY <1>1, <1>3, <1>5, <1>6 DEF RadixIInv, RadixShape, Adding, Path, NoneHollow, ReleaseOwned, AllReleased

LEMMA RadixStep == RadixIInv /\ [RadixNext]_radix_vars => RadixIInv'
<1> SUFFICES ASSUME RadixIInv, [RadixNext]_radix_vars PROVE RadixIInv'
  OBVIOUS
<1>1. CASE UNCHANGED radix_vars
  <2> USE <1>1 DEF radix_vars, adding, taking
  <2>1. RadixTypeOK' /\ TreeOwned' /\ RadixShape' /\ Adding' /\ Path'
    BY DEF RadixIInv, RadixTypeOK, NodesOK, TreeOwned, RadixShape, Adding, Path, Building,
           Owners, Interior, IsLeaf, Deref
  <2>2. NoneHollow' /\ ReleaseOwned' /\ AllReleased' /\ NodesNeeded'
    BY DEF RadixIInv, NoneHollow, Hollow, Emptied, ReleaseOwned, Left, Passed, AllReleased, NodesNeeded,
           Building, nptr, Interior, IsLeaf, Deref
  <2> QED BY <2>1, <2>2 DEF RadixIInv
<1>2. CASE RadixNext
  BY <1>2, Starts, Reads, EndsInput, Adds, StartsBatch, TakesOn, Takes, LeavesNode, Delivers, Releases
  DEF RadixNext
<1> QED BY <1>1, <1>2

(* All of the invariant, for every bound on the bits, the requests and the *)
(* buffer, and any nodes there are enough of.                              *)
THEOREM RadixInvariant == RadixSpec => []RadixIInv
BY RadixInitial, RadixStep, PTL DEF RadixSpec

(* The numbers below a branch are on the side of their bit, and agree with *)
(* the branch above it, whatever add_number injected and take_numbers_2    *)
(* cut off (radix.c:30-91, 93-128).                                        *)
THEOREM RadixTreeShape == RadixSpec => []RadixShape
<1>1. RadixIInv => RadixShape
  BY DEF RadixIInv
<1> QED BY <1>1, RadixInvariant, PTL

(* One pointer owns each node, none leads to a released one, no empty node *)
(* outlives its request, and release_tree releases each node once and all  *)
(* (radix.c:112-124, 136-145).                                             *)
THEOREM RadixOneOwner == RadixSpec => []OneOwner
<1>1. RadixIInv => OneOwner
  <2> SUFFICES ASSUME RadixIInv PROVE OneOwner
    OBVIOUS
  <2>1. Pointers = {<<p, Deref(p)>> : p \in Owners}
    <3>1. \A n \in Interior, f \in Fields : <<n, f>> # Root /\ Deref(<<n, f>>) = node[n][f]
      BY DEF Root, Deref
    <3>2. Interior = {m \in DOMAIN node : ~ IsLeaf(m)}
      BY DEF Interior
    <3>3. Deref(Root) = tree
      BY DEF Deref
    <3>4. \A q \in Pointers : q \in {<<p, Deref(p)>> : p \in Owners}
      BY <3>1, <3>2, <3>3 DEF Pointers, Owners
    <3>5. ASSUME NEW p \in Owners PROVE <<p, Deref(p)>> \in Pointers
      <4>1. CASE p = Root
        BY <4>1, <3>3 DEF Pointers
      <4>2. CASE p # Root
        <5>1. PICK n \in Interior, f \in Fields : p = <<n, f>>
          BY <4>2 DEF Owners
        <5> QED BY <5>1, <3>1, <3>2 DEF Pointers
      <4> QED BY <4>1, <4>2
    <3> QED BY <3>4, <3>5
  <2>2. ASSUME phase \notin {"release", "terminated"}
        PROVE  /\ {p[2] : p \in Pointers} \ {NULL} = DOMAIN node
               /\ \A p, q \in Pointers : p[2] = q[2] /\ p[2] # NULL => p = q
    <3>1. /\ \A p \in Owners : Deref(p) \in DOMAIN node \cup {NULL}
          /\ \A p, q \in Owners : Deref(p) = Deref(q) /\ Deref(p) # NULL => p = q
          /\ \A n \in DOMAIN node : n # NULL /\ \E p \in Owners : Deref(p) = n
      BY <2>2, NodeFacts DEF RadixIInv, TreeOwned, Building, RadixTypeOK
    <3>2. \A p \in Pointers : \E q \in Owners : p = <<q, Deref(q)>> /\ p[1] = q /\ p[2] = Deref(q)
      BY <2>1
    <3>3. \A n \in DOMAIN node : \E p \in Pointers : p[2] = n
      <4> TAKE n \in DOMAIN node
      <4>1. PICK q \in Owners : Deref(q) = n
        BY <3>1
      <4>2. <<q, Deref(q)>> \in Pointers /\ <<q, Deref(q)>>[2] = n
        BY <2>1, <4>1
      <4> QED BY <4>2
    <3>4. {p[2] : p \in Pointers} \ {NULL} = DOMAIN node
      <4>1. \A p \in Pointers : p[2] # NULL => p[2] \in DOMAIN node
        BY <3>1, <3>2
      <4>2. \A n \in DOMAIN node : n # NULL
        BY <3>1
      <4> QED BY <4>1, <4>2, <3>3
    <3>5. \A p, q \in Pointers : p[2] = q[2] /\ p[2] # NULL => p = q
      BY <3>1, <3>2
    <3> QED BY <3>4, <3>5
  <2>3. phase \in {"read", "batch"} => \A n \in DOMAIN node : ~ Hollow(n)
    BY DEF RadixIInv, NoneHollow, Building, Emptied
  <2>4. phase = "release" => \A k \in 1 .. Len(calls) : calls[k].nptr \in DOMAIN node \cup {NULL}
    BY DEF RadixIInv, ReleaseOwned
  <2>5. phase = "terminated" => DOMAIN node = {}
    BY DEF RadixIInv, AllReleased
  <2> QED BY <2>2, <2>3, <2>4, <2>5 DEF OneOwner
<1> QED BY <1>1, RadixInvariant, PTL

-----------------------------------------------------------------------------
(* The order of the numbers.  What can be below a node, by its number and  *)
(* position, is there: on the way from the root to its slot.               *)
InRange(x, a) == x \div (2 * node[a].bit_pos) = node[a].number \div (2 * node[a].bit_pos)
Within(m, a) == node[m].bit_pos <= node[a].bit_pos /\ InRange(node[m].number, a)
Toward(a, x) == node[a][Side(node[a].bit_pos, x)]

(* Going by the bits of a node's number from any node it is in range of, the *)
(* pointers lead to it.                                                    *)
Searched ==
  Building =>
    /\ \A m \in DOMAIN node : tree # NULL /\ Within(m, tree)
    /\ \A m, a \in DOMAIN node : m # a /\ Within(m, a) =>
         /\ ~ IsLeaf(a)
         /\ Toward(a, node[m].number) # NULL /\ Within(m, Toward(a, node[m].number))

(* The same for the number being added, but for the pointer it is at.      *)
Reached ==
  phase = "add" =>
    /\ parent # Root => InRange(number, tree) /\ bit_pos < node[tree].bit_pos
    /\ \A a \in Interior :
         bit_pos < node[a].bit_pos /\ InRange(number, a)
           /\ parent # <<a, Side(node[a].bit_pos, number)>> =>
             LET c == Toward(a, number)
             IN  c # NULL /\ InRange(number, c) /\ bit_pos < node[c].bit_pos

(* A batch fits the buffer and the request.                                *)
Buffered ==
  /\ buffer \in Seq(Numbers) /\ output \in Seq(Numbers)
  /\ limit \in Nat
  /\ phase \in {"take", "write"} => end \in 1 .. limit /\ Len(buffer) <= end
  /\ phase = "write" => /\ to_write \in 0 .. Len(buffer)
                        /\ ~ ShortWrites => to_write \in {0, Len(buffer)}

(* While there is room in the batch, a side that take_numbers_2 has come   *)
(* back from is gone: what is left is above what was taken.                *)
Exhausted ==
  phase \in {"take", "write"} /\ ~ Full =>
    /\ calls = <<>> => tree = NULL
    /\ \A k \in 1 .. Len(calls) :
         /\ calls[k].stage = "both" => node[calls[k].nptr].lo = NULL
         /\ k = Len(calls) /\ calls[k].stage = "one" => node[calls[k].nptr].lo = NULL
         /\ k = Len(calls) /\ calls[k].stage = "both" => node[calls[k].nptr].hi = NULL

OrderIInv == Searched /\ Reached /\ Buffered /\ Exhausted

-----------------------------------------------------------------------------
(* Numbers that agree above a bit agree above each higher one, and in it.  *)
LEMMA AgreeUp ==
  ASSUME NEW x \in Nat, NEW y \in Nat, NEW low \in BitPos, NEW high \in BitPos, low <= high,
         x \div (2 * low) = y \div (2 * low)
  PROVE  /\ x \div (2 * high) = y \div (2 * high)
         /\ low < high => x \div high = y \div high /\ Side(high, x) = Side(high, y)
<1> DEFINE S == {c \in BitPos : low <= c /\ x \div (2 * c) # y \div (2 * c)}
<1>1. S \in SUBSET Nat
  BY Positions
<1>2. ASSUME NEW b \in BitPos, low < b, b \div 2 \notin S
      PROVE  /\ b \div 2 \in BitPos /\ b = 2 * (b \div 2) /\ low <= b \div 2
             /\ x \div b = y \div b /\ x \div (2 * b) = y \div (2 * b) /\ Side(b, x) = Side(b, y)
  <2>0. \A c \in BitPos : c \in Nat \ {0}
    BY Positions
  <2>1. b \in Nat \ {0} /\ low \in Nat \ {0} /\ 2 * low <= b /\ b # 1
    <3>1. 2 * low <= b
      BY <1>2, Positions
    <3> QED BY <3>1, <2>0, <1>2
  <2>2. b \div 2 \in BitPos /\ b = 2 * (b \div 2)
    BY <2>1, Positions
  <2>3. b \div 2 \in Nat
    BY <2>2, Positions
  <2>4. low <= b \div 2
    BY <2>1, <2>2, <2>3
  <2>5. x \div b = y \div b
    BY <2>2, <2>4, <1>2
  <2>6. x \div (2 * b) = y \div (2 * b) /\ Side(b, x) = Side(b, y)
    BY <2>1, <2>5, AgreeAbove
  <2> QED BY <2>2, <2>4, <2>5, <2>6
<1>3. S = {}
  <2> SUFFICES ASSUME S # {} PROVE FALSE
    OBVIOUS
  <2>1. PICK b \in S : \A c \in S : b <= c
    BY <1>1, LeastOfSet
  <2>0. \A c \in BitPos : c \in Nat \ {0}
    BY Positions
  <2>2. b \in BitPos /\ b # low /\ low < b /\ b \in Nat \ {0} /\ b # 1
    BY <2>0, <2>1
  <2>3. b \div 2 \in Nat /\ b = 2 * (b \div 2)
    BY <2>2, Positions
  <2>4. b \div 2 \notin S
    BY <2>1, <2>2, <2>3
  <2> QED BY <2>1, <2>2, <2>4, <1>2
<1> QED BY <1>2, <1>3

(* What is under a node, and on which side, is above what is higher.       *)
LEMMA InRangeFacts ==
  ASSUME NodesOK, NEW x \in Nat, NEW m \in DOMAIN node, NEW a \in DOMAIN node,
         node[m].bit_pos <= node[a].bit_pos, InRange(x, m)
  PROVE  /\ InRange(x, a) <=> InRange(node[m].number, a)
         /\ node[m].bit_pos < node[a].bit_pos =>
              Side(node[a].bit_pos, x) = Side(node[a].bit_pos, node[m].number)
<1>1. node[m].bit_pos \in BitPos /\ node[a].bit_pos \in BitPos /\ node[m].number \in Nat
  BY NodeFacts, NumbersAreNat
<1>2. PICK c \in BitPos, b \in BitPos, y \in Nat : c = node[m].bit_pos /\ b = node[a].bit_pos /\ y = node[m].number
  BY <1>1
<1>3. c <= b /\ x \div (2 * c) = y \div (2 * c)
  BY <1>2 DEF InRange
<1>4. /\ x \div (2 * b) = y \div (2 * b)
      /\ c < b => x \div b = y \div b /\ Side(b, x) = Side(b, y)
  BY <1>3, AgreeUp
<1> QED BY <1>2, <1>4 DEF InRange

(* Every node of the numbers that parent stands for is under its target.   *)
LEMMA InSlot ==
  ASSUME RadixIInv, Searched, phase = "add", NEW a \in DOMAIN node,
         node[a].bit_pos <= bit_pos, number \div (2 * bit_pos) = node[a].number \div (2 * bit_pos)
  PROVE  nptr # NULL /\ nptr \in DOMAIN node /\ Within(a, nptr)
<1>1. NodesOK /\ TreeOwned /\ RadixShape /\ Adding /\ Building
  BY DEF RadixIInv, RadixTypeOK, Building
<1>2. parent \in Owners /\ nptr \in DOMAIN node \cup {NULL} /\ number \in Nat /\ bit_pos \in BitPos
  BY <1>1, SubtreeAgrees, NumbersAreNat
<1>3. CASE parent = Root
  BY <1>1, <1>2, <1>3 DEF Searched, nptr, Deref
<1>4. CASE parent # Root
  <2>1. parent[1] \in Interior /\ parent[2] \in Fields /\ parent[1] \in DOMAIN node
        /\ nptr = node[parent[1]][parent[2]]
    BY <1>2, <1>4, PairParts DEF Owners, nptr, Deref, Interior
  <2>2. PICK q \in DOMAIN node, f \in Fields : q = parent[1] /\ f = parent[2]
    BY <2>1
  <2>3. /\ node[q].bit_pos = 2 * bit_pos /\ Side(node[q].bit_pos, number) = f
        /\ number \div (2 * node[q].bit_pos) = node[q].number \div (2 * node[q].bit_pos)
    BY <1>1, <1>4, <2>2 DEF Adding
  <2>4. PICK b \in Nat \ {0}, x \in Nat : b = 2 * bit_pos /\ x = node[a].number /\ node[a].bit_pos \in Nat
    <3>1. bit_pos \in Nat \ {0}
      BY <1>2, Positions
    <3>2. node[a].bit_pos \in BitPos /\ node[a].number \in Nat
      BY <1>1, NodeFacts, NumbersAreNat
    <3>3. node[a].bit_pos \in Nat
      BY <3>2, Positions
    <3> QED BY <3>1, <3>2, <3>3
  <2>5. number \div b = x \div b
    BY <2>4
  <2>6. number \div (2 * b) = x \div (2 * b) /\ Side(b, number) = Side(b, x)
    BY <2>5, <1>2, AgreeAbove
  <2>7. node[a].bit_pos < node[q].bit_pos
    <3>1. bit_pos \in Nat \ {0}
      BY <1>2, Positions
    <3> QED BY <3>1, <2>3, <2>4
  <2>8. Within(a, q) /\ a # q
    BY <2>3, <2>4, <2>6, <2>7 DEF Within, InRange
  <2>9. Toward(q, node[a].number) # NULL /\ Within(a, Toward(q, node[a].number))
    BY <2>8, <1>1 DEF Searched
  <2>10. Toward(q, node[a].number) = nptr
    BY <2>1, <2>2, <2>3, <2>4, <2>6 DEF Toward
  <2> QED BY <2>9, <2>10, <1>2
<1> QED BY <1>3, <1>4

LEMMA SameWithin ==
  ASSUME NEW D, \A m \in D : node'[m].bit_pos = node[m].bit_pos /\ node'[m].number = node[m].number,
         NEW m \in D, NEW a \in D
  PROVE  Within(m, a)' <=> Within(m, a)
BY DEF Within, InRange

(* A new node at parent, above what was there.                             *)
LEMMA SearchedHung ==
  ASSUME RadixIInv, Searched, Reached, phase = "add",
         NEW F \in Nodes, F \notin DOMAIN node, F # NULL,
         NEW r \in NodeRecords, r.number = number, r.bit_pos <= bit_pos,
         nptr # NULL => /\ node[nptr].bit_pos < r.bit_pos /\ r.bit_pos # 1
                        /\ node[nptr].number \div (2 * r.bit_pos) = number \div (2 * r.bit_pos)
                        /\ r[Side(r.bit_pos, node[nptr].number)] = nptr,
         Link(parent, F, With(F, r, node))
  PROVE  Searched'
<1>1. NodesOK /\ TreeOwned /\ RadixShape /\ Adding /\ Building
  BY DEF RadixIInv, RadixTypeOK, Building
<1>2. /\ parent \in Owners /\ nptr \in DOMAIN node \cup {NULL} /\ number \in Nat
      /\ bit_pos \in BitPos /\ number \in Numbers
  BY <1>1, SubtreeAgrees, NumbersAreNat
<1>3. /\ DOMAIN node' = DOMAIN node \cup {F}
      /\ \A m \in DOMAIN node :
           /\ node'[m].bit_pos = node[m].bit_pos /\ node'[m].number = node[m].number
           /\ \A f \in Fields : node'[m][f] = IF parent = <<m, f>> THEN F ELSE node[m][f]
      /\ node'[F].bit_pos = r.bit_pos /\ node'[F].number = number
      /\ \A f \in Fields : node'[F][f] = r[f]
      /\ \A q \in Owners : Deref(q)' = IF q = parent THEN F ELSE Deref(q)
      /\ \A m \in DOMAIN node : IsLeaf(m)' = IsLeaf(m)
  BY <1>1, <1>2, Hung
<1>4. \A m \in DOMAIN node : /\ node[m].bit_pos \in BitPos /\ node[m].number \in Nat /\ node[m].number \in Numbers
                             /\ m # F /\ m # NULL
  BY <1>1, NodeFacts, NumbersAreNat
<1>5. \A b \in BitPos : b \in Nat \ {0} /\ b <= MaxBit
  BY Positions
<1>6. r.bit_pos \in BitPos
  BY DEF NodeRecords
<1>7. \A m, a \in DOMAIN node : Within(m, a)' <=> Within(m, a)
  BY <1>3, SameWithin
<1>8. Within(F, F)'
  BY <1>3, <1>5, <1>6 DEF Within, InRange
(* what was below parent is below the new node                             *)
<1>9. ASSUME NEW m \in DOMAIN node, nptr # NULL, Within(m, nptr)
      PROVE  Within(m, F)' /\ Side(r.bit_pos, node[m].number) = Side(r.bit_pos, node[nptr].number)
  <2>1. PICK n \in DOMAIN node : n = nptr
    BY <1>2, <1>9
  <2>2. PICK x \in Nat, y \in Nat, c \in BitPos, b \in BitPos :
          x = node[m].number /\ y = node[n].number /\ c = node[n].bit_pos /\ b = r.bit_pos
    BY <1>4, <1>6
  <2>3. c < b /\ x \div (2 * c) = y \div (2 * c) /\ y \div (2 * b) = number \div (2 * b)
        /\ node[m].bit_pos <= c
    BY <1>9, <2>1, <2>2 DEF Within, InRange
  <2>4. x \div (2 * b) = y \div (2 * b) /\ Side(b, x) = Side(b, y)
    <3>1. c <= b
      BY <2>3, <1>5
    <3> QED BY <2>3, <3>1, AgreeUp
  <2>5. node[m].bit_pos <= b
    <3>1. node[m].bit_pos \in Nat /\ c \in Nat /\ b \in Nat
      BY <1>4, <1>5
    <3> QED BY <2>3, <3>1
  <2> QED BY <2>1, <2>2, <2>3, <2>4, <2>5, <1>3 DEF Within, InRange
<1>10. ASSUME NEW a \in DOMAIN node, NEW low \in BitPos, node[a].bit_pos <= low, low <= bit_pos,
              number \div (2 * low) = node[a].number \div (2 * low)
       PROVE  nptr # NULL /\ nptr \in DOMAIN node /\ Within(a, nptr)
  <2>1. PICK y \in Nat : y = node[a].number
    BY <1>4
  <2>2. number \div (2 * bit_pos) = y \div (2 * bit_pos)
    BY <2>1, <1>2, <1>10, AgreeUp
  <2>3. node[a].bit_pos <= bit_pos
    <3>1. node[a].bit_pos \in Nat /\ low \in Nat /\ bit_pos \in Nat
      BY <1>2, <1>4, <1>5
    <3> QED BY <3>1, <1>10
  <2> QED BY <2>1, <2>2, <2>3, InSlot
<1>11. ASSUME NEW m \in DOMAIN node' PROVE tree' # NULL /\ Within(m, tree)'
  <2>1. CASE parent = Root
    <3>1. tree' = F
      BY <2>1, <1>3 DEF Deref, Owners
    <3>2. CASE m = F
      BY <3>1, <3>2, <1>8 DEF Within, InRange
    <3>3. CASE m \in DOMAIN node
      <4>1. bit_pos = MaxBit
        BY <2>1, <1>1 DEF Adding
      <4>2. number \div (2 * bit_pos) = node[m].number \div (2 * bit_pos)
        BY <4>1, <3>3, <1>2, <1>4, NumbersAreNat
      <4>3. node[m].bit_pos <= bit_pos
        BY <4>1, <3>3, <1>4, <1>5
      <4>4. nptr # NULL /\ Within(m, nptr)
        BY <4>2, <4>3, <3>3, InSlot
      <4>5. Within(m, F)'
        BY <4>4, <1>9, <3>3
      <4> QED BY <4>5, <3>1 DEF Within, InRange
    <3> QED BY <3>2, <3>3, <1>3
  <2>2. CASE parent # Root
    <3>1. parent[1] \in DOMAIN node /\ node[parent[1]].bit_pos = 2 * bit_pos
      BY <2>2, <1>1, <1>2, PairParts DEF Owners, Interior, Adding
    <3>2. tree # NULL /\ tree \in DOMAIN node /\ tree' = tree
      BY <2>2, <3>1, <1>1, <1>3 DEF Searched, TreeOwned, Owners, Deref
    <3>3. InRange(number, tree) /\ bit_pos < node[tree].bit_pos
      BY <2>2 DEF Reached
    <3>4. PICK t \in DOMAIN node : t = tree /\ t = tree'
      BY <3>2
    <3>5. CASE m = F
      <4>1. r.bit_pos <= node[t].bit_pos
        <5>1. r.bit_pos \in Nat /\ bit_pos \in Nat /\ node[t].bit_pos \in Nat
          BY <1>2, <1>4, <1>5, <1>6
        <5> QED BY <5>1, <3>3, <3>4
      <4>2. Within(F, t)'
        BY <4>1, <3>3, <3>4, <1>3 DEF Within, InRange
      <4> QED BY <4>2, <3>4, <3>2, <3>5 DEF Within, InRange
    <3>6. CASE m \in DOMAIN node
      <4>1. Within(m, t)
        BY <3>6, <3>4, <1>1 DEF Searched
      <4>2. Within(m, t)'
        BY <4>1, <3>6, <1>7
      <4> QED BY <4>2, <3>4, <3>2 DEF Within, InRange
    <3> QED BY <3>5, <3>6, <1>3
  <2> QED BY <2>1, <2>2
<1>12. ASSUME NEW m \in DOMAIN node', NEW a \in DOMAIN node', m # a, Within(m, a)',
              NEW s, s = Side(node[a].bit_pos, node[m].number)'
       PROVE  /\ ~ IsLeaf(a)'
              /\ \E c \in DOMAIN node' : c # NULL /\ c = node'[a][s] /\ Within(m, c)'
  <2>1. CASE a = F
    <3>1. m \in DOMAIN node /\ node[m].bit_pos \in Nat
      BY <2>1, <1>3, <1>4, <1>5, <1>12
    <3>2. node[m].bit_pos <= r.bit_pos /\ number \div (2 * r.bit_pos) = node[m].number \div (2 * r.bit_pos)
      BY <2>1, <3>1, <1>3, <1>12 DEF Within, InRange
    <3>3. nptr # NULL /\ nptr \in DOMAIN node /\ Within(m, nptr)
      BY <3>1, <3>2, <1>6, <1>10
    <3>4. Side(r.bit_pos, node[m].number) = Side(r.bit_pos, node[nptr].number)
      BY <3>1, <3>3, <1>9
    <3>5. s = Side(r.bit_pos, node[m].number)
      BY <2>1, <3>1, <1>3, <1>12 DEF Side, IsSet
    <3>6. node'[F][s] = nptr
      BY <3>3, <3>4, <3>5, <1>3 DEF Side, Fields
    <3>7. PICK n \in DOMAIN node : n = nptr
      BY <3>3
    <3>8. Within(m, n)'
      BY <3>1, <3>3, <3>7, <1>7
    <3>9. ~ IsLeaf(F)'
      BY <3>3, <1>3 DEF IsLeaf
    <3> QED BY <2>1, <3>3, <3>6, <3>7, <3>8, <3>9, <1>3, <1>4 DEF IsLeaf
  <2>2. CASE a # F /\ m = F
    <3>1. a \in DOMAIN node /\ node[a].bit_pos \in Nat \ {0} /\ node[a].bit_pos \in BitPos
      BY <2>2, <1>3, <1>4, <1>5
    <3>2. r.bit_pos <= node[a].bit_pos /\ InRange(number, a)
      BY <2>2, <3>1, <1>3, <1>12 DEF Within, InRange
    <3>3. ~ node[a].bit_pos <= bit_pos
      <4> SUFFICES ASSUME node[a].bit_pos <= bit_pos PROVE FALSE
        OBVIOUS
      <4>1. nptr # NULL /\ nptr \in DOMAIN node /\ Within(a, nptr)
        BY <3>1, <3>2, <1>10 DEF InRange
      <4>2. node[a].bit_pos <= node[nptr].bit_pos /\ node[nptr].bit_pos < r.bit_pos
            /\ node[nptr].bit_pos \in Nat
        BY <4>1, <1>4, <1>5 DEF Within
      <4>3. r.bit_pos \in Nat
        BY <1>5, <1>6
      <4> QED BY <4>2, <4>3, <3>1, <3>2
    <3>4. ~ IsLeaf(a) /\ a \in Interior /\ bit_pos < node[a].bit_pos /\ ~ IsLeaf(a)'
      <4>1. bit_pos \in Nat \ {0}
        BY <1>2, <1>5
      <4>2. bit_pos < node[a].bit_pos
        BY <4>1, <3>1, <3>3
      <4>3. ~ IsLeaf(a)
        BY <4>1, <4>2, <3>1 DEF IsLeaf
      <4> QED BY <4>2, <4>3, <3>1, <1>3 DEF Interior
    <3>5. s = Side(node[a].bit_pos, number) /\ s \in Fields
      BY <2>2, <3>1, <1>3, <1>12 DEF Side, IsSet, Fields
    <3>6. CASE parent = <<a, s>>
      BY <2>2, <3>1, <3>4, <3>5, <3>6, <1>3, <1>8
    <3>7. CASE parent # <<a, s>>
      <4>1. /\ Toward(a, number) # NULL /\ InRange(number, Toward(a, number))
            /\ bit_pos < node[Toward(a, number)].bit_pos
        BY <3>2, <3>4, <3>5, <3>7 DEF Reached
      <4>2. Toward(a, number) = node[a][s] /\ node[a][s] = Deref(<<a, s>>) /\ <<a, s>> \in Owners
        BY <3>4, <3>5 DEF Toward, Deref, Owners, Root
      <4>3. PICK c \in DOMAIN node : c = node[a][s]
        BY <4>1, <4>2, <1>1 DEF TreeOwned
      <4>4. r.bit_pos <= node[c].bit_pos
        <5>1. r.bit_pos \in Nat /\ bit_pos \in Nat /\ node[c].bit_pos \in Nat
          BY <1>2, <1>4, <1>5, <1>6
        <5> QED BY <5>1, <4>1, <4>2, <4>3
      <4>5. Within(F, c)'
        BY <4>1, <4>2, <4>3, <4>4, <1>3 DEF Within, InRange
      <4>6. node'[a][s] = c
        BY <4>3, <3>1, <3>5, <3>7, <1>3
      <4> QED BY <2>2, <3>4, <4>3, <4>5, <4>6, <1>3, <1>4
    <3> QED BY <3>6, <3>7
  <2>3. CASE a # F /\ m # F
    <3>1. a \in DOMAIN node /\ m \in DOMAIN node
      BY <2>3, <1>3
    <3>2. Within(m, a)
      BY <3>1, <1>7, <1>12
    <3>3. ~ IsLeaf(a) /\ Toward(a, node[m].number) # NULL /\ Within(m, Toward(a, node[m].number))
      BY <3>1, <3>2, <1>1, <1>12 DEF Searched
    <3>4. s = Side(node[a].bit_pos, node[m].number) /\ s \in Fields
      BY <3>1, <1>3, <1>12 DEF Side, IsSet, Fields
    <3>5. Toward(a, node[m].number) = node[a][s] /\ node[a][s] = Deref(<<a, s>>) /\ <<a, s>> \in Owners
      BY <3>1, <3>3, <3>4 DEF Toward, Deref, Owners, Root, Interior
    <3>6. PICK c \in DOMAIN node : c = node[a][s]
      BY <3>3, <3>5, <1>1 DEF TreeOwned
    <3>7. ~ IsLeaf(a)'
      BY <3>1, <3>3, <1>3
    <3>8. CASE parent = <<a, s>>
      <4>1. c = nptr /\ nptr # NULL
        BY <3>3, <3>5, <3>6, <3>8 DEF nptr
      <4>2. Within(m, F)'
        BY <4>1, <3>1, <3>3, <3>5, <3>6, <1>9
      <4>3. node'[a][s] = F
        BY <3>1, <3>4, <3>8, <1>3
      <4> QED BY <4>2, <4>3, <3>7, <1>3
    <3>9. CASE parent # <<a, s>>
      <4>1. node'[a][s] = c
        BY <3>1, <3>4, <3>6, <3>9, <1>3
      <4>2. Within(m, c)'
        BY <3>1, <3>3, <3>5, <3>6, <1>7
      <4> QED BY <4>1, <4>2, <3>7, <1>3, <1>4
    <3> QED BY <3>8, <3>9
  <2> QED BY <2>1, <2>2, <2>3
<1>13. ASSUME NEW m \in DOMAIN node', NEW a \in DOMAIN node', m # a, Within(m, a)'
       PROVE  /\ ~ IsLeaf(a)' /\ (Toward(a, node[m].number) # NULL)'
              /\ Within(m, Toward(a, node[m].number))'
  <2>1. PICK s : s = Side(node[a].bit_pos, node[m].number)'
    OBVIOUS
  <2>2. PICK c \in DOMAIN node' : c # NULL /\ c = node'[a][s] /\ Within(m, c)' /\ ~ IsLeaf(a)'
    BY <2>1, <1>12, <1>13
  <2>3. Toward(a, node[m].number)' = c
    BY <2>1, <2>2 DEF Toward
  <2> QED BY <2>2, <2>3 DEF Within, InRange
<1> QED BY <1>11, <1>13 DEF Searched

LEMMA SearchedSame ==
  ASSUME RadixIInv, Searched, Building, tree' = tree, DOMAIN node' = DOMAIN node,
         \A m \in DOMAIN node : /\ node'[m].bit_pos = node[m].bit_pos /\ node'[m].number = node[m].number
                                /\ IsLeaf(m)' = IsLeaf(m),
         \A q \in Owners : Deref(q)' = Deref(q)
  PROVE  Searched'
<1>1. NodesOK /\ TreeOwned
  BY DEF RadixIInv, RadixTypeOK
<1>2. \A m, a \in DOMAIN node : Within(m, a)' <=> Within(m, a)
  BY SameWithin
<1>3. ASSUME NEW m \in DOMAIN node PROVE tree' # NULL /\ Within(m, tree)'
  <2>1. tree # NULL /\ Within(m, tree)
    BY <1>3 DEF Searched
  <2>2. tree \in DOMAIN node
    BY <1>1, <2>1 DEF TreeOwned, Owners, Deref
  <2>3. PICK t \in DOMAIN node : t = tree /\ t = tree'
    BY <2>2
  <2>4. Within(m, t)'
    BY <2>1, <2>3, <1>2
  <2> QED BY <2>1, <2>3, <2>4 DEF Within, InRange
<1>4. ASSUME NEW m \in DOMAIN node, NEW a \in DOMAIN node, m # a, Within(m, a)'
      PROVE  /\ ~ IsLeaf(a)' /\ (Toward(a, node[m].number) # NULL)'
             /\ Within(m, Toward(a, node[m].number))'
  <2>1. Within(m, a)
    BY <1>2, <1>4
  <2>2. ~ IsLeaf(a) /\ Toward(a, node[m].number) # NULL /\ Within(m, Toward(a, node[m].number))
    BY <2>1, <1>4 DEF Searched
  <2>3. PICK s \in Fields : s = Side(node[a].bit_pos, node[m].number) /\ s = Side(node'[a].bit_pos, node'[m].number)
    BY DEF Side, IsSet, Fields
  <2>4. Toward(a, node[m].number) = node[a][s] /\ node[a][s] = Deref(<<a, s>>) /\ <<a, s>> \in Owners
        /\ <<a, s>> # Root
    BY <2>2, <2>3 DEF Toward, Deref, Owners, Root, Interior
  <2>5. PICK c \in DOMAIN node : c = node[a][s]
    BY <2>2, <2>4, <1>1 DEF TreeOwned
  <2>6. node'[a][s] = c
    BY <2>4, <2>5 DEF Deref, Root
  <2>7. Toward(a, node[m].number)' = c
    BY <2>3, <2>6 DEF Toward
  <2>8. Within(m, c)'
    BY <2>2, <2>4, <2>5, <1>2
  <2> QED BY <2>2, <2>4, <2>5, <2>7, <2>8 DEF Within, InRange
<1> QED BY <1>3, <1>4 DEF Searched

(* An empty node has nothing under it.                                     *)
LEMMA SearchedRemoved ==
  ASSUME RadixIInv, Searched, Building, NEW n \in DOMAIN node, Hollow(n),
         NEW p \in Owners, Deref(p) = n, Link(p, NULL, Without(n))
  PROVE  Searched'
<1>1. NodesOK /\ TreeOwned /\ RadixShape
  BY DEF RadixIInv, RadixTypeOK
<1>2. /\ DOMAIN node' = DOMAIN node \ {n}
      /\ Owners' = {q \in Owners : q = Root \/ q[1] # n} /\ p \in Owners'
      /\ \A m \in DOMAIN node' :
           /\ node'[m].bit_pos = node[m].bit_pos /\ node'[m].number = node[m].number
           /\ IsLeaf(m)' = IsLeaf(m)
           /\ \A f \in Fields : node'[m][f] = IF p = <<m, f>> THEN NULL ELSE node[m][f]
      /\ \A q \in Owners' : Deref(q)' = IF q = p THEN NULL ELSE Deref(q)
  BY <1>1, Unhung
<1>3. \A m, a \in DOMAIN node' : Within(m, a)' <=> Within(m, a)
  BY <1>2, SameWithin
<1>4. \A m \in DOMAIN node' : m \in DOMAIN node /\ m # n /\ m # NULL
  BY <1>1, <1>2, NodeFacts
<1>5. ASSUME NEW m \in DOMAIN node', Within(m, n) PROVE FALSE
  <2>1. ~ IsLeaf(n) /\ Toward(n, node[m].number) # NULL
    BY <1>4, <1>5 DEF Searched
  <2>2. node[n].lo = node[n]["lo"] /\ node[n].hi = node[n]["hi"]
    BY <1>1, NodeFacts
  <2> QED BY <2>1, <2>2 DEF Toward, Side, Hollow, NULL
<1>6. ASSUME NEW m \in DOMAIN node' PROVE tree' # NULL /\ Within(m, tree)'
  <2>1. tree # NULL /\ Within(m, tree)
    BY <1>4, <1>6 DEF Searched
  <2>2. tree \in DOMAIN node /\ Deref(Root) = tree /\ Root \in Owners'
    BY <1>1, <1>2, <2>1 DEF TreeOwned, Owners, Deref
  <2>3. tree # n
    BY <2>1, <1>5, <1>6
  <2>4. tree' = tree
    BY <2>2, <2>3, <1>2 DEF Deref
  <2>5. PICK t \in DOMAIN node' : t = tree /\ t = tree'
    BY <2>2, <2>3, <2>4, <1>2
  <2>6. Within(m, t)'
    BY <2>1, <2>5, <1>3, <1>6
  <2> QED BY <2>1, <2>5, <2>6 DEF Within, InRange
<1>7. ASSUME NEW m \in DOMAIN node', NEW a \in DOMAIN node', m # a, Within(m, a)'
      PROVE  /\ ~ IsLeaf(a)' /\ (Toward(a, node[m].number) # NULL)'
             /\ Within(m, Toward(a, node[m].number))'
  <2>1. Within(m, a) /\ m \in DOMAIN node /\ a \in DOMAIN node /\ a # n
    BY <1>3, <1>4, <1>7
  <2>2. ~ IsLeaf(a) /\ Toward(a, node[m].number) # NULL /\ Within(m, Toward(a, node[m].number))
    BY <2>1, <1>7 DEF Searched
  <2>3. PICK s \in Fields : s = Side(node[a].bit_pos, node[m].number) /\ s = Side(node'[a].bit_pos, node'[m].number)
    BY <1>2 DEF Side, IsSet, Fields
  <2>4. Toward(a, node[m].number) = node[a][s] /\ node[a][s] = Deref(<<a, s>>) /\ <<a, s>> \in Owners
        /\ <<a, s>> # Root
    BY <2>1, <2>2, <2>3 DEF Toward, Deref, Owners, Root, Interior
  <2>5. node[a][s] \in DOMAIN node
    BY <2>2, <2>4, <1>1 DEF TreeOwned
  <2>6. node[a][s] # n
    BY <2>2, <2>4, <1>5, <1>7
  <2>7. PICK c \in DOMAIN node' : c = node[a][s]
    BY <2>5, <2>6, <1>2
  <2>8. node'[a][s] = c
    BY <2>4, <2>6, <2>7, <1>2
  <2>9. Toward(a, node[m].number)' = c
    BY <2>3, <2>8 DEF Toward
  <2>10. Within(m, c)'
    BY <2>2, <2>4, <2>7, <1>3
  <2>11. ~ IsLeaf(a)'
    BY <2>2, <1>2
  <2> QED BY <2>9, <2>10, <2>11, <1>4 DEF Within, InRange
<1> QED BY <1>6, <1>7 DEF Searched

(* The search goes on from where it was.                                   *)
LEMMA ReachedDescended ==
  ASSUME RadixIInv, Searched, Reached, Descend
  PROVE  Reached'
<1>1. /\ NodesOK /\ TreeOwned /\ RadixShape /\ Adding /\ Building
      /\ phase = "add" /\ nptr # NULL /\ Diff = {} /\ here > 1
      /\ parent' = <<nptr, Side(here, number)>> /\ bit_pos' = here \div 2
      /\ UNCHANGED <<phase, tree, node, number>>
  BY DEF RadixIInv, RadixTypeOK, Building, Descend
<1>2. /\ nptr \in DOMAIN node /\ here = node[nptr].bit_pos /\ here \in BitPos
      /\ number \in Nat /\ InRange(number, nptr)
  BY <1>1, HereIs, NumbersAreNat DEF InRange
<1>3. parent \in Owners /\ bit_pos \in BitPos /\ here <= bit_pos
  BY <1>1, <1>2, SubtreeAgrees
<1>4. PICK n \in DOMAIN node : n = nptr
  BY <1>2
<1>5. here \in Nat /\ bit_pos \in Nat /\ here = 2 * bit_pos' /\ bit_pos' \in BitPos /\ bit_pos' \in Nat
  BY <1>1, <1>2, <1>3, Positions
<1>6. bit_pos' < here /\ bit_pos' < bit_pos
  <2>1. PICK h \in Nat, b \in Nat, c \in Nat : h = here /\ b = bit_pos /\ c = bit_pos'
    BY <1>5
  <2>2. h > 1 /\ h = 2 * c /\ h <= b
    BY <2>1, <1>1, <1>3, <1>5
  <2>3. c < h /\ c < b
    BY <2>2
  <2> QED BY <2>1, <2>3
<1>7. \A a \in DOMAIN node : node[a].bit_pos \in BitPos /\ node[a].bit_pos \in Nat
  BY <1>1, NodeFacts, Positions
<1>8. parent' # Root => InRange(number, tree) /\ bit_pos' < node[tree].bit_pos
  <2>1. CASE parent = Root
    <3>1. tree = n
      BY <2>1, <1>4 DEF nptr, Deref
    <3> QED BY <3>1, <1>2, <1>4, <1>6
  <2>2. CASE parent # Root
    <3>1. InRange(number, tree) /\ bit_pos < node[tree].bit_pos
      BY <2>2, <1>1 DEF Reached
    <3>2. tree \in DOMAIN node
      <4>1. parent[1] \in DOMAIN node
        BY <2>2, <1>3, PairParts DEF Owners, Interior
      <4> QED BY <4>1, <1>1 DEF Searched, TreeOwned, Owners, Deref
    <3>3. node[tree].bit_pos \in Nat
      BY <3>2, <1>7
    <3>5. bit_pos' < node[tree].bit_pos
      BY <3>1, <3>3, <1>5, <1>6
    <3> QED BY <3>1, <3>5
  <2> QED BY <2>1, <2>2
<1>9. ASSUME NEW a \in Interior, bit_pos' < node[a].bit_pos, InRange(number, a),
             NEW s \in Fields, s = Side(node[a].bit_pos, number), parent' # <<a, s>>
      PROVE  LET c == node[a][s] IN c # NULL /\ InRange(number, c) /\ bit_pos' < node[c].bit_pos
  <2>1. a \in DOMAIN node /\ node[a].bit_pos \in Nat /\ node[a].bit_pos \in BitPos
    BY <1>7 DEF Interior
  <2>2. ~ node[a].bit_pos < here
    <3> SUFFICES ASSUME node[a].bit_pos < here PROVE FALSE
      OBVIOUS
    <3>1. 2 * node[a].bit_pos <= here
      BY <2>1, <1>2, Positions
    <3> QED BY <3>1, <2>1, <1>5, <1>9
  <2>3. CASE node[a].bit_pos <= bit_pos
    <3>1. PICK y \in Nat, d \in BitPos : y = node[a].number /\ d = node[a].bit_pos
      BY <2>1, <1>1, NodeFacts, NumbersAreNat
    <3>2. number \div (2 * bit_pos) = y \div (2 * bit_pos)
      BY <2>3, <3>1, <1>2, <1>3, <1>9, AgreeUp DEF InRange
    <3>3. Within(a, nptr)
      BY <2>1, <2>3, <3>1, <3>2, <1>1, InSlot
    <3>4. CASE a = n
      BY <3>4, <1>1, <1>2, <1>4, <1>9
    <3>5. CASE a # n
      <4>1. Toward(n, y) # NULL /\ Within(a, Toward(n, y)) /\ ~ IsLeaf(n)
        BY <3>1, <3>3, <3>5, <2>1, <1>1, <1>4 DEF Searched
      <4>2. PICK f \in Fields : Toward(n, y) = node[n][f]
        BY DEF Toward, Side, Fields
      <4>3. node[n][f] = Deref(<<n, f>>) /\ <<n, f>> \in Owners /\ n \in Interior
        BY <4>1 DEF Deref, Owners, Root, Interior
      <4>4. PICK c \in DOMAIN node : c = node[n][f]
        BY <4>1, <4>2, <4>3, <1>1 DEF TreeOwned
      <4>5. node[c].bit_pos < node[n].bit_pos
        BY <4>1, <4>2, <4>3, <4>4, <1>1 DEF RadixShape, Building, Interior
      <4>6. node[a].bit_pos <= node[c].bit_pos
        BY <4>1, <4>2, <4>4 DEF Within
      <4>7. node[c].bit_pos \in Nat
        BY <1>7
      <4> QED BY <4>5, <4>6, <4>7, <2>1, <2>2, <1>2, <1>4, <1>5
    <3> QED BY <3>4, <3>5
  <2>4. CASE ~ node[a].bit_pos <= bit_pos
    <3>1. CASE parent = <<a, s>>
      <4>1. node[a][s] = n
        BY <3>1, <1>4 DEF nptr, Deref, Root
      <4> QED BY <4>1, <1>1, <1>2, <1>4, <1>6
    <3>2. CASE parent # <<a, s>>
      <4>1. /\ node[a][s] # NULL /\ InRange(number, node[a][s])
            /\ bit_pos < node[node[a][s]].bit_pos
        BY <3>2, <2>1, <2>4, <1>1, <1>3, <1>5, <1>9 DEF Reached, Toward
      <4>2. node[a][s] = Deref(<<a, s>>) /\ <<a, s>> \in Owners
        BY DEF Deref, Owners, Root
      <4>3. PICK c \in DOMAIN node : c = node[a][s]
        BY <4>1, <4>2, <1>1 DEF TreeOwned
      <4>4. node[c].bit_pos \in Nat
        BY <1>7
      <4> QED BY <4>1, <4>3, <4>4, <1>3, <1>5, <1>6
    <3> QED BY <3>1, <3>2
  <2> QED BY <2>3, <2>4
<1>10. ASSUME NEW a \in Interior, bit_pos' < node[a].bit_pos, InRange(number, a),
              parent' # <<a, Side(node[a].bit_pos, number)>>
       PROVE  LET c == Toward(a, number) IN c # NULL /\ InRange(number, c) /\ bit_pos' < node[c].bit_pos
  <2>1. PICK s \in Fields : s = Side(node[a].bit_pos, number)
    BY DEF Side, Fields
  <2> QED BY <2>1, <1>9, <1>10 DEF Toward
<1> QED BY <1>1, <1>8, <1>10 DEF Reached, InRange, Toward, Interior, IsLeaf

LEMMA SearchedInjected ==
  ASSUME RadixIInv, Searched, Reached, Inject
  PROVE  Searched' /\ Reached'
<1>1. /\ NodesOK /\ TreeOwned /\ RadixShape /\ Adding /\ NodesNeeded /\ Building
      /\ phase = "add" /\ requests \in 0 .. MaxRequests /\ phase' = "add"
      /\ nptr # NULL /\ Diff # {} /\ number' = number
  BY DEF RadixIInv, RadixTypeOK, Inject, Building
<1>2. PICK F \in Nodes : F = Fresh /\ F \notin DOMAIN node /\ F # NULL
  BY <1>1, FreshIsNew
<1>3. parent \in Owners /\ number \in Numbers /\ bit_pos \in BitPos /\ number \in Nat
        /\ nptr \in DOMAIN node /\ node[nptr].number \in Nat /\ node[nptr].bit_pos \in BitPos
  BY <1>1, SubtreeAgrees, NodeFacts, NumbersAreNat
<1>4. PICK b : b = Max(Diff)
  OBVIOUS
<1>5. /\ b \in BitPos /\ b # 1 /\ b <= bit_pos /\ node[nptr].bit_pos < b
      /\ IsSet(b, number) # IsSet(b, node[nptr].number)
      /\ node[nptr].number \div (2 * b) = number \div (2 * b)
  BY <1>1, <1>4, HighestDiff
<1>6. PICK s \in Fields : s = Side(b, number)
  BY Sides
<1> DEFINE r == [bit_pos |-> b, number |-> number,
                 lo |-> IF s = "lo" THEN NULL ELSE nptr,
                 hi |-> IF s = "hi" THEN NULL ELSE nptr]
<1>7. Link(parent, F, With(F, r, node)) /\ parent' = <<F, s>> /\ bit_pos' = b \div 2
  BY <1>2, <1>4, <1>6 DEF Inject
<1>8. r \in NodeRecords
  <2>1. nptr \in Nodes /\ NULL \in Nat
    BY <1>1, <1>3 DEF NodesOK, NULL
  <2> QED BY <2>1, <1>3, <1>5 DEF NodeRecords
<1>9. r.bit_pos = b /\ r.number = number /\ r[Side(b, node[nptr].number)] = nptr
  <2>1. Side(b, node[nptr].number) # s /\ Side(b, node[nptr].number) \in Fields
    BY <1>5, <1>6, Sides
  <2>2. \A f \in Fields \ {s} : r[f] = nptr
    BY <1>6 DEF Fields
  <2> QED BY <2>1, <2>2
<1> HIDE DEF r
<1>10. Searched'
  BY <1>1, <1>2, <1>5, <1>7, <1>8, <1>9, SearchedHung
<1>11. /\ DOMAIN node' = DOMAIN node \cup {F}
       /\ \A m \in DOMAIN node :
            /\ node'[m].bit_pos = node[m].bit_pos /\ node'[m].number = node[m].number
            /\ \A f \in Fields : node'[m][f] = IF parent = <<m, f>> THEN F ELSE node[m][f]
       /\ node'[F].bit_pos = r.bit_pos /\ node'[F].number = r.number
       /\ \A q \in Owners : Deref(q)' = IF q = parent THEN F ELSE Deref(q)
       /\ \A m \in DOMAIN node : IsLeaf(m)' = IsLeaf(m)
  BY <1>1, <1>2, <1>3, <1>7, <1>8, Hung
<1>11a. node'[F].bit_pos = b /\ node'[F].number = number
  BY <1>9, <1>11
<1>12. bit_pos' < b /\ bit_pos' < bit_pos /\ b = 2 * bit_pos' /\ bit_pos' \in Nat /\ b \in Nat /\ bit_pos \in Nat
  <2>1. b \in Nat \ {0} /\ b \div 2 \in BitPos /\ b = 2 * (b \div 2) /\ bit_pos \in Nat
    BY <1>3, <1>5, Positions
  <2>2. b \div 2 \in Nat
    BY <2>1, Positions
  <2>3. PICK c \in Nat : c = b \div 2
    BY <2>2
  <2>4. c < b /\ c < bit_pos
    BY <2>1, <2>3, <1>5
  <2> QED BY <2>1, <2>3, <2>4, <1>7
<1>13. \A a \in DOMAIN node : node[a].bit_pos \in BitPos /\ node[a].bit_pos \in Nat /\ a # F
  BY <1>1, <1>2, NodeFacts, Positions
<1>14. parent' # Root => InRange(number, tree)' /\ bit_pos' < node'[tree'].bit_pos
  <2>1. CASE parent = Root
    <3>1. tree' = F
      BY <2>1, <1>11 DEF Deref, Owners
    <3> QED BY <3>1, <1>1, <1>11a, <1>12 DEF InRange
  <2>2. CASE parent # Root
    <3>1. InRange(number, tree) /\ bit_pos < node[tree].bit_pos
      BY <2>2, <1>1 DEF Reached
    <3>2. tree \in DOMAIN node /\ tree' = tree
      <4>1. parent[1] \in DOMAIN node
        BY <2>2, <1>3, PairParts DEF Owners, Interior
      <4> QED BY <4>1, <2>2, <1>1, <1>11 DEF Searched, TreeOwned, Owners, Deref
    <3>3. PICK t \in DOMAIN node : t = tree /\ t = tree'
      BY <3>2
    <3>4. bit_pos' < node[t].bit_pos
      BY <3>1, <3>3, <1>12, <1>13
    <3> QED BY <3>1, <3>3, <3>4, <1>1, <1>11 DEF InRange
  <2> QED BY <2>1, <2>2
<1>15. ASSUME NEW a \in Interior', bit_pos' < node'[a].bit_pos, InRange(number, a)',
              NEW f \in Fields, f = Side(node'[a].bit_pos, number), parent' # <<a, f>>
       PROVE  \E c \in DOMAIN node' : c = node'[a][f] /\ c # NULL /\ InRange(number, c)' /\ bit_pos' < node'[c].bit_pos
  <2>1. a # F
    BY <1>6, <1>7, <1>11a, <1>15
  <2>2. a \in DOMAIN node /\ a \in Interior /\ node'[a].bit_pos = node[a].bit_pos
        /\ node[a].bit_pos \in Nat /\ node[a].bit_pos \in BitPos
    BY <2>1, <1>11, <1>13 DEF Interior
  <2>3. InRange(number, a) /\ f = Side(node[a].bit_pos, number)
    BY <2>2, <1>1, <1>11, <1>15 DEF InRange
  <2>4. ~ node[a].bit_pos < b
    <3> SUFFICES ASSUME node[a].bit_pos < b PROVE FALSE
      OBVIOUS
    <3>1. 2 * node[a].bit_pos <= b
      BY <2>2, <1>5, Positions
    <3> QED BY <3>1, <2>2, <1>12, <1>15
  <2>5. ~ node[a].bit_pos <= bit_pos
    <3> SUFFICES ASSUME node[a].bit_pos <= bit_pos PROVE FALSE
      OBVIOUS
    <3>1. PICK y \in Nat, d \in BitPos : y = node[a].number /\ d = node[a].bit_pos
      BY <2>2, <1>1, NodeFacts, NumbersAreNat
    <3>2. number \div (2 * bit_pos) = y \div (2 * bit_pos)
      BY <2>3, <3>1, <1>3, AgreeUp DEF InRange
    <3>3. Within(a, nptr)
      BY <2>2, <3>1, <3>2, <1>1, InSlot
    <3>4. node[a].bit_pos <= node[nptr].bit_pos
      BY <3>3 DEF Within
    <3> QED BY <3>4, <2>2, <2>4, <1>3, <1>5, <1>12, <1>13
  <2>6. CASE parent = <<a, f>>
    <3>1. node'[a][f] = F
      BY <2>2, <2>6, <1>11
    <3> QED BY <3>1, <1>1, <1>2, <1>11, <1>11a, <1>12 DEF InRange
  <2>7. CASE parent # <<a, f>>
    <3>1. /\ node[a][f] # NULL /\ InRange(number, node[a][f])
          /\ bit_pos < node[node[a][f]].bit_pos
      BY <2>2, <2>3, <2>5, <2>7, <1>1, <1>12 DEF Reached, Toward
    <3>2. node[a][f] = Deref(<<a, f>>) /\ <<a, f>> \in Owners
      BY <2>2 DEF Deref, Owners, Root
    <3>3. PICK c \in DOMAIN node : c = node[a][f]
      BY <3>1, <3>2, <1>1 DEF TreeOwned
    <3>4. node'[a][f] = c
      BY <2>2, <2>7, <3>3, <1>11
    <3>5. bit_pos' < node[c].bit_pos
      BY <3>1, <3>3, <1>12, <1>13
    <3> QED BY <3>1, <3>3, <3>4, <3>5, <1>1, <1>11 DEF InRange
  <2> QED BY <2>6, <2>7
<1>16. ASSUME NEW a \in Interior', bit_pos' < node'[a].bit_pos, InRange(number, a)',
              parent' # <<a, Side(node[a].bit_pos, number)'>>
       PROVE  (LET c == Toward(a, number) IN c # NULL /\ InRange(number, c) /\ bit_pos < node[c].bit_pos)'
  <2>1. PICK f \in Fields : f = Side(node'[a].bit_pos, number)
    BY DEF Side, Fields
  <2>2. Side(node[a].bit_pos, number)' = f
    BY <2>1, <1>1 DEF Side, IsSet
  <2>3. PICK c \in DOMAIN node' : c = node'[a][f] /\ c # NULL /\ InRange(number, c)' /\ bit_pos' < node'[c].bit_pos
    BY <2>1, <2>2, <1>15, <1>16
  <2>4. Toward(a, number)' = c
    BY <2>2, <2>3 DEF Toward
  <2> QED BY <2>3, <2>4 DEF InRange
<1>17. Reached'
  BY <1>14, <1>16 DEF Reached
<1> QED BY <1>10, <1>17

LEMMA SearchedLeaf ==
  ASSUME RadixIInv, Searched, Reached, AddLeaf
  PROVE  Searched'
<1>1. /\ NodesOK /\ TreeOwned /\ RadixShape /\ Adding /\ NodesNeeded
      /\ phase = "add" /\ requests \in 0 .. MaxRequests /\ nptr = NULL
  BY DEF RadixIInv, RadixTypeOK, AddLeaf
<1>2. PICK F \in Nodes : F = Fresh /\ F \notin DOMAIN node /\ F # NULL
  BY <1>1, FreshIsNew
<1>3. number \in Numbers /\ number \in Nat /\ bit_pos \in BitPos /\ 1 \in BitPos
  BY <1>1, SubtreeAgrees, NumbersAreNat, OneIsPosition
<1> DEFINE r == [bit_pos |-> 1, number |-> number, lo |-> 1 - (number % 2), hi |-> number % 2]
<1>4. Link(parent, F, With(F, r, node))
  BY <1>2 DEF AddLeaf
<1>5. r \in NodeRecords /\ r.number = number /\ r.bit_pos = 1
  BY <1>3 DEF NodeRecords
<1>6. 1 <= bit_pos
  BY <1>3, Positions
<1> HIDE DEF r
<1> QED BY <1>1, <1>2, <1>4, <1>5, <1>6, SearchedHung

(* A number on the one side of a bit is below those on the other.          *)
LEMMA LowSideFirst ==
  ASSUME NEW x \in Nat, NEW y \in Nat, NEW b \in BitPos, b # 1,
         x \div (2 * b) = y \div (2 * b), Side(b, x) = "lo", Side(b, y) = "hi"
  PROVE  x \div 2 < y \div 2
<1>1. PICK c \in BitPos : b = 2 * c
  BY Positions
<1>2. c \in Nat \ {0} /\ b \in Nat \ {0}
  BY Positions
<1>3. PICK t \in Nat \ {0} : t = 2
  OBVIOUS
<1>4. /\ x \div (b * t) = (x \div b) \div t /\ y \div (b * t) = (y \div b) \div t
      /\ x \div (t * c) = (x \div t) \div c /\ y \div (t * c) = (y \div t) \div c
  BY <1>2, DivDiv
<1>5. b * t = 2 * b /\ t * c = b
  BY <1>1, <1>2, <1>3
<1> DEFINE u == x \div b
           v == y \div b
           p == x \div 2
           q == y \div 2
<1>6. u \in Nat /\ v \in Nat /\ p \in Nat /\ q \in Nat
  <2>1. x \div b \in Nat /\ y \div b \in Nat
    BY <1>2, DivMod
  <2>2. x \div 2 \in Nat /\ y \div 2 \in Nat
    OBVIOUS
  <2> QED BY <2>1, <2>2
<1>7. u \div 2 = v \div 2 /\ ~ (u % 2 = 1) /\ v % 2 = 1 /\ u = p \div c /\ v = q \div c
  BY <1>3, <1>4, <1>5 DEF Side, IsSet
<1> HIDE DEF u, v, p, q
<1>8. u < v
  BY <1>6, <1>7
<1>9. p < q
  <2> SUFFICES ASSUME q <= p PROVE FALSE
    BY <1>6
  <2>1. q = c * v + (q % c) /\ p = c * u + (p % c) /\ q % c \in 0 .. (c - 1) /\ p % c \in 0 .. (c - 1)
    BY <1>2, <1>6, <1>7, DivMod
  <2>2. u + 1 <= v
    BY <1>6, <1>8
  <2>3. c * (u + 1) <= c * v
    BY <2>2, <1>2, <1>6
  <2>4. c * (u + 1) = c * u + c
    BY <1>2, <1>6
  <2> QED BY <2>1, <2>3, <2>4, <1>2, <1>6
<1> QED BY <1>9 DEF p, q

(* The calls below the last: each leads to the next, on the side it is at. *)
LEMMA PathStep ==
  ASSUME RadixIInv, phase = "take", NEW k \in 1 .. Len(calls), k < Len(calls)
  PROVE  /\ calls[k].nptr \in DOMAIN node /\ calls[k].nptr \in Interior
         /\ k + 1 \in 1 .. Len(calls)
         /\ calls[k].stage = "one" \/ calls[k].stage = "both"
         /\ calls[k + 1].nptr = node[calls[k].nptr][IF calls[k].stage = "one" THEN "lo" ELSE "hi"]
<1>1. calls # <<>>
  OBVIOUS
<1>2. Len(calls) \in Nat
  BY <1>1, TopOfPath
<1>3. k + 1 \in 1 .. Len(calls)
  BY <1>2
<1>4. Path
  BY DEF RadixIInv
<1>5. /\ calls[k].stage \in {"one", "both"} /\ calls[k].nptr \in Interior
      /\ calls[k + 1].parent = <<calls[k].nptr, IF calls[k].stage = "one" THEN "lo" ELSE "hi">>
  BY <1>4 DEF Path
<1>6. calls[k + 1].nptr = Deref(calls[k + 1].parent)
  BY <1>3, <1>4 DEF Path
<1>7. calls[k + 1].nptr = node[calls[k].nptr][IF calls[k].stage = "one" THEN "lo" ELSE "hi"]
  BY <1>5, <1>6 DEF Deref, Root
<1> QED BY <1>3, <1>5, <1>7 DEF Interior

(* The leaf at the end of the path is on the path's side of each node.     *)
LEMMA OnThePath ==
  ASSUME RadixIInv, phase = "take", calls # <<>>, NEW n \in DOMAIN node, n = TopCall.nptr
  PROVE  \A k \in 1 .. Len(calls) : k < Len(calls) =>
           /\ InRange(node[n].number, calls[k].nptr)
           /\ Side(node[calls[k].nptr].bit_pos, node[n].number) = IF calls[k].stage = "one" THEN "lo" ELSE "hi"
<1>1. /\ NodesOK /\ RadixShape /\ Len(calls) \in Nat /\ Len(calls) >= 1
      /\ calls[Len(calls)].nptr = n
  BY TopOfPath DEF RadixIInv, RadixTypeOK
<1> DEFINE L == Len(calls)
           Holds(k) == k < L =>
             /\ InRange(node[n].number, calls[k].nptr)
             /\ Side(node[calls[k].nptr].bit_pos, node[n].number) = IF calls[k].stage = "one" THEN "lo" ELSE "hi"
           In(k) == calls[k].nptr \in DOMAIN node /\ InRange(node[n].number, calls[k].nptr)
           D == {d \in Nat : d < L => In(L - d) /\ Holds(L - d)}
<1>2. node[n].number \in Nat
  BY <1>1, NodeFacts, NumbersAreNat
<1>3. 0 \in D
  BY <1>1 DEF InRange
<1>4. ASSUME NEW d \in D PROVE d + 1 \in D
  <2> SUFFICES ASSUME d + 1 < L PROVE In(L - (d + 1)) /\ Holds(L - (d + 1))
    BY <1>4
  <2> DEFINE k == L - (d + 1)
  <2>1. k \in 1 .. Len(calls) /\ k < Len(calls) /\ k + 1 = L - d
    BY <1>1, <1>4
  <2>2. In(k + 1)
    <3>1. d < L /\ In(L - d)
      BY <1>1, <1>4
    <3> QED BY <3>1, <2>1
  <2> HIDE DEF k
  <2>3. PICK f \in Fields : f = IF calls[k].stage = "one" THEN "lo" ELSE "hi"
    BY DEF Fields
  <2>4. calls[k].nptr \in DOMAIN node /\ calls[k].nptr \in Interior /\ calls[k + 1].nptr = node[calls[k].nptr][f]
    BY <2>1, <2>3, PathStep
  <2>5. PICK a \in DOMAIN node, c \in DOMAIN node : a = calls[k].nptr /\ c = calls[k + 1].nptr
    BY <2>2, <2>4
  <2>6. c # NULL /\ ~ IsLeaf(a) /\ c = node[a][f]
    BY <2>4, <2>5, <1>1, NodeFacts DEF Interior
  <2>7. /\ node[c].bit_pos < node[a].bit_pos
        /\ Side(node[a].bit_pos, node[c].number) = f
        /\ InRange(node[c].number, a)
    BY <2>6, <1>1 DEF RadixShape, InRange
  <2>8. node[c].bit_pos <= node[a].bit_pos
    <3>1. node[c].bit_pos \in BitPos /\ node[a].bit_pos \in BitPos
      BY <1>1, NodeFacts
    <3>2. node[c].bit_pos \in Nat /\ node[a].bit_pos \in Nat
      BY <3>1, Positions
    <3> QED BY <3>2, <2>7
  <2>9. /\ InRange(node[n].number, a) <=> InRange(node[c].number, a)
        /\ Side(node[a].bit_pos, node[n].number) = Side(node[a].bit_pos, node[c].number)
    BY <2>2, <2>5, <2>7, <2>8, <1>1, <1>2, InRangeFacts
  <2> QED BY <2>3, <2>5, <2>7, <2>9 DEF k
<1> HIDE DEF D
<1>5. Nat \subseteq D
  BY <1>3, <1>4, NatInd
<1>6. \A k \in 1 .. Len(calls) : Holds(k)
  <2> TAKE k \in 1 .. Len(calls)
  <2>1. L - k \in Nat /\ L - k < L /\ L - (L - k) = k
    BY <1>1
  <2>2. L - k \in D
    BY <2>1, <1>5
  <2> QED BY <2>1, <2>2 DEF D
<1> QED BY <1>6

(* When the buffer has room, what is left is not before the leaf reached:  *)
(* the sides passed by are gone.                                           *)
LEMMA SmallestFirst ==
  ASSUME RadixIInv, Searched, Exhausted, phase = "take", calls # <<>>, ~ Full,
         NEW n \in DOMAIN node, n = TopCall.nptr, IsLeaf(n),
         NEW m \in DOMAIN node, IsLeaf(m), m # n
  PROVE  node[n].number \div 2 < node[m].number \div 2
<1>1. /\ NodesOK /\ RadixShape /\ Building /\ TreeOwned /\ Len(calls) \in Nat /\ Len(calls) >= 1
      /\ calls[Len(calls)].nptr = n
  BY TopOfPath DEF RadixIInv, RadixTypeOK, Building
<1>2. PICK x \in Nat, y \in Nat : x = node[n].number /\ y = node[m].number
  BY <1>1, NodeFacts, NumbersAreNat
<1> SUFFICES ASSUME ~ x \div 2 < y \div 2 PROVE FALSE
  BY <1>2
<1> DEFINE K == {k \in Nat : k + 1 \in 1 .. Len(calls) =>
                   calls[k + 1].nptr \in DOMAIN node /\ Within(m, calls[k + 1].nptr)}
<1>3. 0 \in K
  <2>1. 1 \in 1 .. Len(calls)
    BY <1>1
  <2>2. calls[1].nptr = tree
    BY <2>1 DEF RadixIInv, Path, Deref
  <2>3. tree # NULL /\ Within(m, tree)
    BY <1>1 DEF Searched
  <2>4. tree \in DOMAIN node
    BY <2>3, <1>1 DEF TreeOwned, Owners, Deref
  <2> QED BY <2>2, <2>3, <2>4
<1>4. ASSUME NEW w \in K PROVE w + 1 \in K
  <2> SUFFICES ASSUME w + 2 \in 1 .. Len(calls)
               PROVE  calls[w + 2].nptr \in DOMAIN node /\ Within(m, calls[w + 2].nptr)
    BY <1>4
  <2>1. PICK k \in 1 .. Len(calls) : k = w + 1 /\ k < Len(calls) /\ k + 1 = w + 2
    BY <1>1, <1>4
  <2>2. calls[k].nptr \in DOMAIN node /\ Within(m, calls[k].nptr)
    BY <2>1, <1>4
  <2>3. PICK f \in Fields : f = IF calls[k].stage = "one" THEN "lo" ELSE "hi"
    BY DEF Fields
  <2>4. PICK a \in DOMAIN node : a = calls[k].nptr /\ a \in Interior /\ calls[k + 1].nptr = node[a][f]
    BY <2>1, <2>3, PathStep
  <2>5. ~ IsLeaf(a) /\ m # a
    BY <2>4 DEF Interior
  <2>6. Toward(a, y) # NULL /\ Within(m, Toward(a, y))
    BY <2>2, <2>4, <2>5, <1>1, <1>2 DEF Searched
  <2>7. InRange(x, a) /\ Side(node[a].bit_pos, x) = f
    BY <2>1, <2>3, <2>4, <1>2, OnThePath
  <2>8. InRange(y, a)
    BY <2>2, <2>4, <1>2 DEF Within
  <2>9. Side(node[a].bit_pos, y) = f
    <3>1. Side(node[a].bit_pos, y) = "lo" \/ Side(node[a].bit_pos, y) = "hi"
      BY DEF Side
    <3>2. CASE calls[k].stage = "one"
      <4>1. f = "lo"
        BY <2>3, <3>2
      <4>2. node[a].bit_pos \in BitPos /\ node[a].bit_pos # 1
        BY <2>5, <1>1, NodeFacts DEF IsLeaf
      <4>3. x \div (2 * node[a].bit_pos) = y \div (2 * node[a].bit_pos)
        BY <2>7, <2>8 DEF InRange
      <4>4. Side(node[a].bit_pos, y) # "hi"
        <5> SUFFICES ASSUME Side(node[a].bit_pos, y) = "hi" PROVE FALSE
          OBVIOUS
        <5>1. PICK b \in BitPos : b = node[a].bit_pos
          BY <4>2
        <5>2. x \div 2 < y \div 2
          BY <5>1, <4>1, <4>2, <4>3, <2>7, LowSideFirst
        <5> QED BY <5>2
      <4> QED BY <4>1, <4>4, <3>1
    <3>3. CASE calls[k].stage = "both"
      <4>1. f = "hi"
        BY <2>3, <3>3
      <4>2. node[a].lo = NULL /\ node[a].lo = node[a]["lo"]
        BY <2>4, <3>3, <1>1, NodeFacts DEF Exhausted
      <4> QED BY <4>1, <4>2, <3>1, <2>6 DEF Toward
    <3> QED BY <3>2, <3>3, <2>1, PathStep
  <2>10. Toward(a, y) = node[a][f] /\ node[a][f] = Deref(<<a, f>>) /\ <<a, f>> \in Owners
    BY <2>4, <2>9 DEF Toward, Deref, Owners, Root
  <2>11. node[a][f] \in DOMAIN node
    BY <2>6, <2>10, <1>1 DEF TreeOwned
  <2> QED BY <2>1, <2>4, <2>6, <2>10, <2>11
<1> HIDE DEF K
<1>5. Len(calls) - 1 \in K
  <2>1. Nat \subseteq K
    BY <1>3, <1>4, NatInd
  <2> QED BY <2>1, <1>1
<1>6. (Len(calls) - 1) + 1 = Len(calls) /\ Len(calls) \in 1 .. Len(calls)
  BY <1>1
<1>7. Within(m, n)
  BY <1>1, <1>5, <1>6 DEF K
<1> QED BY <1>1, <1>7 DEF Searched

(* A call returns with its slot empty, while there is room.                *)
LEMMA ExhaustedReturned ==
  ASSUME RadixIInv, Exhausted, phase = "take", calls # <<>>, ~ Full,
         phase' = "take", calls' = Lower,
         TopCall.parent = Root => tree' = NULL,
         \A m \in Interior, f \in Fields :
           /\ TopCall.parent = <<m, f>> => node'[m][f] = NULL
           /\ \A k \in 1 .. Len(calls) : k < Len(calls) /\ calls[k].nptr = m =>
                node'[m].lo = node'[m]["lo"] /\ node'[m].hi = node'[m]["hi"]
                /\ (node[m][f] = NULL => node'[m][f] = NULL)
  PROVE  Exhausted'
<1>1. /\ NodesOK /\ Path /\ calls \in Seq(TakeFrames) /\ Len(calls) \in Nat /\ Len(calls) >= 1
      /\ TopCall = calls[Len(calls)]
  BY TopOfPath DEF RadixIInv, RadixTypeOK
<1>2. /\ calls' \in Seq(TakeFrames) /\ Len(calls') = Len(calls) - 1
      /\ \A k \in 1 .. (Len(calls) - 1) : calls'[k] = calls[k]
  BY <1>1, StackPopped DEF Lower
<1>3. \A k \in 1 .. Len(calls') : k \in 1 .. Len(calls) /\ k < Len(calls) /\ calls'[k] = calls[k]
  BY <1>1, <1>2
<1>4. calls' = <<>> => tree' = NULL
  <2> SUFFICES ASSUME calls' = <<>> PROVE tree' = NULL
    OBVIOUS
  <2>1. Len(calls) = 1
    BY <1>1, <1>2
  <2>2. calls[1].parent = Root
    BY <2>1, <1>1 DEF Path
  <2> QED BY <2>1, <2>2, <1>1
<1>5. ASSUME NEW k \in 1 .. Len(calls')
      PROVE  /\ calls'[k].stage = "both" => node'[calls'[k].nptr].lo = NULL
             /\ k = Len(calls') /\ calls'[k].stage = "one" => node'[calls'[k].nptr].lo = NULL
             /\ k = Len(calls') /\ calls'[k].stage = "both" => node'[calls'[k].nptr].hi = NULL
  <2>1. k \in 1 .. Len(calls) /\ k < Len(calls) /\ calls'[k] = calls[k]
    BY <1>3
  <2>2. calls[k].nptr \in Interior /\ calls[k].nptr \in DOMAIN node
    BY <2>1, PathStep
  <2>3. PICK m \in Interior : m = calls[k].nptr /\ m \in DOMAIN node
    BY <2>2
  <2>4. node'[m].lo = node'[m]["lo"] /\ node'[m].hi = node'[m]["hi"]
    BY <2>1, <2>3 DEF Fields
  <2>5. calls[k].stage = "both" => node[m]["lo"] = NULL
    <3>1. calls[k].stage = "both" => node[m].lo = NULL
      BY <2>1, <2>3 DEF Exhausted
    <3> QED BY <3>1, <2>3, <1>1, NodeFacts
  <2>6. calls[k].stage = "both" => node'[m].lo = NULL
    BY <2>1, <2>3, <2>4, <2>5 DEF Fields
  <2>7. CASE k = Len(calls')
    <3>1. k + 1 = Len(calls)
      BY <2>7, <1>1, <1>2
    <3>2. TopCall.parent = <<m, IF calls[k].stage = "one" THEN "lo" ELSE "hi">>
      BY <2>1, <2>3, <3>1, <1>1 DEF Path
    <3>3. calls[k].stage = "one" => node'[m]["lo"] = NULL
      BY <3>2 DEF Fields
    <3>4. calls[k].stage = "both" => node'[m]["hi"] = NULL
      BY <3>2 DEF Fields
    <3> QED BY <2>1, <2>3, <2>4, <2>6, <3>3, <3>4
  <2>8. CASE k # Len(calls')
    BY <2>1, <2>3, <2>6, <2>8
  <2> QED BY <2>7, <2>8
<1> QED BY <1>4, <1>5 DEF Exhausted

LEMMA ExhaustedEntered ==
  ASSUME RadixIInv, Exhausted, Enter \/ Second
  PROVE  Exhausted'
<1>1. /\ phase = "take" /\ phase' = "take" /\ calls # <<>>
      /\ tree' = tree /\ node' = node /\ buffer' = buffer /\ end' = end
  BY DEF Enter, Second, Taking, taking
<1>2. Full' <=> Full
  BY <1>1 DEF Full
<1>3. /\ NodesOK /\ Path /\ TreeOwned /\ Len(calls) \in Nat /\ Len(calls) >= 1 /\ Len(calls) \in 1 .. Len(calls)
      /\ TopCall = calls[Len(calls)] /\ TopCall.nptr \in DOMAIN node \cup {NULL}
      /\ TopCall.nptr = Deref(TopCall.parent)
  BY <1>1, TopOfPath DEF RadixIInv, RadixTypeOK
<1> SUFFICES ASSUME ~ Full PROVE Exhausted'
  BY <1>2 DEF Exhausted
<1>4. CASE Enter /\ calls' = Lower
  <2>1. TopCall.nptr = NULL \/ calls' # Lower
    <3> SUFFICES ASSUME TopCall.nptr # NULL, calls' = Lower PROVE FALSE
      OBVIOUS
    <3>1. Len(calls') = Len(calls) - 1
      BY <1>1, <1>3, TopOfPath, StackPopped DEF Lower
    <3>2. CASE calls' = Continue("leaf")
      BY <3>1, <3>2, <1>1, <1>3, Continued DEF CallStages
    <3>3. CASE calls' = Append(Continue("one"), Call(<<TopCall.nptr, "lo">>))
      <4>1. Continue("one") \in Seq(TakeFrames) /\ Len(Continue("one")) = Len(calls)
        BY <1>1, Continued DEF CallStages
      <4>5. PICK q \in Seq(TakeFrames) : q = Continue("one")
        BY <4>1
      <4>2. PICK g : g = Call(<<TopCall.nptr, "lo">>)
        OBVIOUS
      <4>3. calls' = Append(q, g) /\ Len(q) = Len(calls)
        BY <3>3, <4>1, <4>2, <4>5
      <4>4. Len(calls') = Len(q) + 1
        BY <4>3
      <4> QED BY <4>3, <4>4, <3>1, <1>3
    <3> QED BY <3>2, <3>3, <1>4 DEF Enter
  <2>2. TopCall.parent = Root => tree' = NULL
    BY <2>1, <1>1, <1>3, <1>4 DEF Deref
  <2>3. \A m \in Interior, f \in Fields : TopCall.parent = <<m, f>> => node'[m][f] = NULL
    BY <2>1, <1>1, <1>3, <1>4 DEF Deref, Root
  <2>4. \A m \in Interior : node'[m].lo = node'[m]["lo"] /\ node'[m].hi = node'[m]["hi"]
    BY <1>1, <1>3, NodeFacts DEF Interior
  <2> QED BY <2>2, <2>3, <2>4, <1>1, <1>4, ExhaustedReturned
<1>5. CASE calls' = Continue("leaf")
  <2>1. PICK f \in TakeFrames :
           /\ f.stage = "leaf" /\ Len(calls') = Len(calls) /\ calls'[Len(calls)] = f
           /\ \A k \in 1 .. (Len(calls) - 1) : calls'[k] = calls[k]
    BY <1>1, <1>5, Continued DEF CallStages
  <2>2. \A k \in 1 .. Len(calls') :
           \/ k = Len(calls') /\ calls'[k].stage = "leaf"
           \/ k \in 1 .. Len(calls) /\ k # Len(calls') /\ calls'[k] = calls[k]
    BY <2>1, <1>3
  <2>3. calls' # <<>>
    <3>1. Len(calls') # 0
      BY <2>1, <1>3
    <3> QED BY <3>1
  <2> QED BY <2>2, <2>3, <1>1 DEF Exhausted
<1>6. ASSUME NEW stage \in {"one", "both"}, NEW side \in Fields, TopCall.nptr \in Interior,
             calls' = Append(Continue(stage), Call(<<TopCall.nptr, side>>)),
             stage = "both" => node[TopCall.nptr].lo = NULL
      PROVE  Exhausted'
  <2>1. PICK f \in TakeFrames :
           /\ f.nptr = TopCall.nptr /\ f.stage = stage
           /\ Continue(stage) \in Seq(TakeFrames) /\ Len(Continue(stage)) = Len(calls)
           /\ Continue(stage)[Len(calls)] = f
           /\ \A k \in 1 .. (Len(calls) - 1) : Continue(stage)[k] = calls[k]
    BY <1>1, Continued DEF CallStages
  <2>21. Call(<<TopCall.nptr, side>>).stage = "zero"
    BY DEF Call
  <2>22. PICK q \in Seq(TakeFrames) : q = Continue(stage)
    BY <2>1
  <2>2. PICK g : q = Continue(stage) /\ g = Call(<<TopCall.nptr, side>>) /\ g.stage = "zero"
    BY <2>21, <2>22
  <2>3. calls' = Append(q, g) /\ Len(q) = Len(calls) /\ q[Len(calls)] = f
        /\ \A k \in 1 .. (Len(calls) - 1) : q[k] = calls[k]
    BY <2>1, <2>2, <1>6
  <2>4. /\ Len(calls') = Len(calls) + 1 /\ calls'[Len(calls) + 1] = g /\ calls'[Len(calls)] = f
        /\ \A k \in 1 .. (Len(calls) - 1) : calls'[k] = calls[k]
    BY <2>3, <1>3, AppendProperties
  <2>5. calls' # <<>>
    BY <2>4, <1>3
  <2>6. ASSUME NEW k \in 1 .. Len(calls')
        PROVE  /\ calls'[k].stage = "both" => node[calls'[k].nptr].lo = NULL
               /\ k = Len(calls') => calls'[k].stage = "zero"
    <3>1. CASE k = Len(calls')
      BY <3>1, <2>2, <2>4
    <3>2. CASE k = Len(calls)
      BY <3>2, <2>1, <2>4, <1>3, <1>6
    <3>3. CASE k # Len(calls) /\ k # Len(calls')
      <4>1. k \in 1 .. (Len(calls) - 1) /\ k \in 1 .. Len(calls)
        BY <3>3, <2>4, <1>3
      <4> QED BY <4>1, <3>3, <2>4, <1>1 DEF Exhausted
    <3> QED BY <3>1, <3>2, <3>3
  <2> QED BY <2>5, <2>6, <1>1 DEF Exhausted
<1>7. CASE /\ TopCall.nptr # NULL /\ ~ IsLeaf(TopCall.nptr)
           /\ calls' = Append(Continue("one"), Call(<<TopCall.nptr, "lo">>))
  <2>1. TopCall.nptr \in Interior
    BY <1>3, <1>7 DEF Interior
  <2> QED BY <2>1, <1>6, <1>7 DEF Fields
<1>8. CASE Second
  <2>1. TopCall.stage = "one" /\ calls' = Append(Continue("both"), Call(<<TopCall.nptr, "hi">>))
    BY <1>8 DEF Second, Taking
  <2>2. TopCall.nptr \in Interior
    BY <2>1, <1>1, <1>3 DEF Path
  <2>3. node[TopCall.nptr].lo = NULL
    BY <2>1, <1>1, <1>3 DEF Exhausted
  <2> QED BY <2>1, <2>2, <2>3, <1>6 DEF Fields
<1> QED BY <1>4, <1>5, <1>7, <1>8 DEF Enter

(* A call that has emptied its node removes it and returns.                *)
LEMMA ExhaustedRemoved ==
  ASSUME RadixIInv, Exhausted, LeaveNode
  PROVE  Exhausted'
<1>1. /\ phase = "take" /\ phase' = "take" /\ calls # <<>> /\ calls' = Lower
      /\ buffer' = buffer /\ end' = end /\ RemoveEmpty /\ Building
      /\ TopCall.stage = "both" \/ (TopCall.stage = "leaf" /\ (Full \/ Hollow(TopCall.nptr)))
  BY DEF LeaveNode, taking, Building
<1>2. Full' <=> Full
  BY <1>1 DEF Full
<1> SUFFICES ASSUME ~ Full PROVE Exhausted'
  BY <1>2 DEF Exhausted
<1>3. /\ NodesOK /\ TreeOwned /\ RadixShape /\ Path /\ Len(calls) \in Nat /\ Len(calls) >= 1
      /\ Len(calls) \in 1 .. Len(calls)
      /\ TopCall = calls[Len(calls)] /\ TopCall.parent \in Owners
      /\ TopCall.nptr = Deref(TopCall.parent)
  BY <1>1, TopOfPath DEF RadixIInv, RadixTypeOK
<1>4. TopCall.nptr \in DOMAIN node
  BY <1>1, <1>3 DEF Path, Interior
<1>5. Hollow(TopCall.nptr)
  <2>1. CASE TopCall.stage = "both"
    <3>1. node[TopCall.nptr].lo = NULL /\ node[TopCall.nptr].hi = NULL
      BY <2>1, <1>1, <1>3 DEF Exhausted
    <3> QED BY <3>1 DEF Hollow, NULL
  <2> QED BY <2>1, <1>1
<1>6. PICK n \in DOMAIN node, p \in Owners : n = TopCall.nptr /\ p = TopCall.parent
  BY <1>3, <1>4
<1>7. Deref(p) = n /\ Hollow(n) /\ Link(p, NULL, Without(n)) /\ n # NULL
  BY <1>1, <1>3, <1>5, <1>6, NodeFacts DEF RemoveEmpty
<1>8. /\ NodesOK' /\ DOMAIN node' = DOMAIN node \ {n}
      /\ Owners' = {q \in Owners : q = Root \/ q[1] # n} /\ p \in Owners'
      /\ \A m \in DOMAIN node' :
           /\ node'[m].bit_pos = node[m].bit_pos /\ node'[m].number = node[m].number
           /\ IsLeaf(m)' = IsLeaf(m)
           /\ \A f \in Fields : node'[m][f] = IF p = <<m, f>> THEN NULL ELSE node[m][f]
      /\ \A q \in Owners' : Deref(q)' = IF q = p THEN NULL ELSE Deref(q)
  BY <1>1, <1>3, <1>7, Unhung
<1>9. p = Root => tree' = NULL
  BY <1>8 DEF Deref
<1>10. ASSUME NEW m \in Interior, NEW f \in Fields
       PROVE  /\ p = <<m, f>> => node'[m][f] = NULL
              /\ \A k \in 1 .. Len(calls) : k < Len(calls) /\ calls[k].nptr = m =>
                   node'[m].lo = node'[m]["lo"] /\ node'[m].hi = node'[m]["hi"]
                   /\ (node[m][f] = NULL => node'[m][f] = NULL)
  <2>1. m \in DOMAIN node
    BY DEF Interior
  <2>2. ASSUME p = <<m, f>> PROVE node'[m][f] = NULL
    <3>1. p # Root /\ p[1] = m
      BY <2>2 DEF Root
    <3>2. m \in DOMAIN node'
      BY <3>1, <2>1, <1>8
    <3> QED BY <3>2, <2>2, <1>8
  <2>3. ASSUME NEW k \in 1 .. Len(calls), k < Len(calls), calls[k].nptr = m
        PROVE  node'[m].lo = node'[m]["lo"] /\ node'[m].hi = node'[m]["hi"]
               /\ (node[m][f] = NULL => node'[m][f] = NULL)
    <3>1. node[n].bit_pos < node[m].bit_pos
      BY <2>3, <1>1, <1>3, <1>6, <1>7 DEF Path
    <3>2. node[n].bit_pos \in Nat
      BY <1>3, NodeFacts, Positions
    <3>3. m # n
      BY <3>1, <3>2
    <3>4. m \in DOMAIN node'
      BY <3>3, <2>1, <1>8
    <3>5. node'[m] \in NodeRecords
      BY <3>4, <1>8 DEF NodesOK
    <3> QED BY <3>4, <3>5, <1>8 DEF NodeRecords
  <2> QED BY <2>2, <2>3
<1> QED BY <1>1, <1>6, <1>9, <1>10, ExhaustedReturned

(* A number less in the leaf at the end of the path.                       *)
LEMMA ExhaustedTaken ==
  ASSUME RadixIInv, Exhausted, TakeNumber
  PROVE  Exhausted'
<1>1. /\ phase = "take" /\ calls # <<>> /\ calls' = calls /\ tree' = tree /\ ~ Full
      /\ TopCall.stage = "leaf"
      /\ node' = [node EXCEPT ![TopCall.nptr][NextSide(node[TopCall.nptr])] = @ - 1]
  BY DEF TakeNumber, Taking
<1>2. /\ NodesOK /\ Path /\ Len(calls) \in Nat /\ Len(calls) \in 1 .. Len(calls) /\ TopCall = calls[Len(calls)]
  BY <1>1, TopOfPath DEF RadixIInv, RadixTypeOK
<1>3. TopCall.nptr \in DOMAIN node /\ IsLeaf(TopCall.nptr)
  BY <1>1, <1>2 DEF Path
<1>4. ASSUME NEW k \in 1 .. Len(calls)
      PROVE  /\ calls[k].stage = "both" => node'[calls[k].nptr].lo = NULL
             /\ k = Len(calls) => calls[k].stage = "leaf"
  <2>1. CASE k = Len(calls)
    BY <2>1, <1>1, <1>2
  <2>2. CASE k # Len(calls)
    <3>1. k < Len(calls)
      BY <2>2, <1>2
    <3>2. calls[k].nptr \in Interior
      BY <3>1, <1>1, PathStep
    <3>3. calls[k].nptr \in DOMAIN node /\ calls[k].nptr # TopCall.nptr
      BY <3>2, <1>3 DEF Interior
    <3>4. node'[calls[k].nptr] = node[calls[k].nptr]
      BY <3>3, <1>1, <1>2 DEF NodesOK
    <3>5. calls[k].stage = "both" => node[calls[k].nptr].lo = NULL
      BY <1>1 DEF Exhausted
    <3> QED BY <3>4, <3>5, <2>2
  <2> QED BY <2>1, <2>2
<1> QED BY <1>1, <1>4 DEF Exhausted

LEMMA ExhaustedKept ==
  ASSUME RadixIInv, Exhausted, [RadixNext]_radix_vars
  PROVE  Exhausted'
<1>1. CASE Start \/ ReadNumber \/ EndOfInput \/ AddLeaf \/ Inject \/ Descend \/ CountNumber
           \/ Written \/ ReleaseNode \/ Released
  BY <1>1 DEF Exhausted, Start, ReadNumber, EndOfInput, AddLeaf, Inject, Descend, CountNumber,
              Written, ReleaseNode, Releasing, Released
<1>2. CASE StartBatch
  <2>1. phase' = "take" => calls' = <<Call(Root)>>
    BY <1>2 DEF StartBatch
  <2>2. phase' = "take" \/ phase' = "read"
    BY <1>2 DEF StartBatch
  <2>3. Call(Root).stage = "zero"
    BY DEF Call
  <2>4. PICK c : c = Call(Root)
    OBVIOUS
  <2>5. phase' = "take" => calls' # <<>> /\ \A k \in 1 .. Len(calls') : calls'[k].stage = "zero"
    <3> SUFFICES ASSUME phase' = "take" PROVE calls' # <<>> /\ \A k \in 1 .. Len(calls') : calls'[k].stage = "zero"
      OBVIOUS
    <3>1. calls' = <<c>> /\ c.stage = "zero"
      BY <2>1, <2>3, <2>4
    <3>2. calls' # <<>> /\ Len(calls') = 1 /\ calls'[1] = c
      BY <3>1
    <3> QED BY <3>1, <3>2
  <2> QED BY <2>2, <2>5 DEF Exhausted
<1>3. CASE Enter \/ Second
  BY <1>3, ExhaustedEntered
<1>4. CASE TakeNumber
  BY <1>4, ExhaustedTaken
<1>5. CASE LeaveNode
  BY <1>5, ExhaustedRemoved
<1>6. CASE Taken \/ Write \/ UNCHANGED radix_vars
  <2>1. /\ phase' \in {"take", "write"} => phase \in {"take", "write"}
        /\ UNCHANGED <<tree, node, calls, buffer, end>>
    BY <1>6 DEF Taken, Write, radix_vars, taking
  <2> QED BY <2>1 DEF Exhausted, Full
<1> QED BY <1>1, <1>2, <1>3, <1>4, <1>5, <1>6 DEF RadixNext

(* The two numbers that a leaf counts.                                     *)
LEMMA NumberOfSide ==
  ASSUME NEW x \in Numbers, NEW f \in Fields,
         NEW v, v = IF f = "lo" THEN x - (x % 2) ELSE (x - (x % 2)) + 1
  PROVE  v \in Numbers /\ v \div 2 = x \div 2 /\ Side(1, v) = f
<1>1. PICK M \in Nat \ {0} : M = MaxBit
  BY OneIsPosition, Positions
<1>2. x \in 0 .. (2 * M - 1)
  BY <1>1 DEF Numbers
<1>3. PICK q \in Nat, r \in {0, 1} : x = 2 * q + r /\ r = x % 2 /\ q = x \div 2
  BY <1>2
<1>4. PICK s \in {0, 1} : s = (IF f = "lo" THEN 0 ELSE 1) /\ v = 2 * q + s
  BY <1>3
<1>5. v \in 0 .. (2 * M - 1) /\ v \div 2 = q /\ v % 2 = s /\ v \div 1 = v
  BY <1>2, <1>3, <1>4
<1>6. Side(1, v) = f
  <2>1. IsSet(1, v) <=> s = 1
    BY <1>5 DEF IsSet
  <2> QED BY <2>1, <1>4 DEF Side, Fields
<1> QED BY <1>1, <1>3, <1>5, <1>6 DEF Numbers

(* What TakeNumber takes: a number that the leaf counts, the smaller one   *)
(* first.                                                                  *)
LEMMA NumberTaken ==
  ASSUME RadixIInv, TakeNumber
  PROVE  \E n \in DOMAIN node, f \in Fields, v \in Numbers, c \in Nat :
           /\ n = TopCall.nptr /\ IsLeaf(n) /\ buffer' = Append(buffer, v)
           /\ v \div 2 = node[n].number \div 2 /\ Side(1, v) = f
           /\ node[n][f] = c + 1 /\ node' = Put(n, f, c) /\ tree' = tree
           /\ f = "hi" => node[n]["lo"] = 0
<1>1. /\ NodesOK /\ Path /\ phase = "take" /\ calls # <<>> /\ tree' = tree
      /\ TopCall.stage = "leaf"
      /\ node[TopCall.nptr].lo > 0 \/ node[TopCall.nptr].hi > 0
      /\ node' = [node EXCEPT ![TopCall.nptr][NextSide(node[TopCall.nptr])] = @ - 1]
  BY DEF RadixIInv, RadixTypeOK, TakeNumber, Taking
<1>2. Len(calls) \in 1 .. Len(calls) /\ TopCall = calls[Len(calls)]
  BY <1>1, TopOfPath
<1>3. TopCall.nptr \in DOMAIN node /\ IsLeaf(TopCall.nptr)
  BY <1>1, <1>2 DEF Path
<1>4. PICK n \in DOMAIN node, f \in Fields : n = TopCall.nptr /\ f = NextSide(node[TopCall.nptr])
  BY <1>3 DEF NextSide, Fields
<1>5. node[n][f] \in Nat /\ node[n][f] > 0 /\ (f = "hi" => node[n]["lo"] = 0)
  <2>1. node[n].lo \in Nat /\ node[n].hi \in Nat /\ node[n].lo = node[n]["lo"] /\ node[n].hi = node[n]["hi"]
    BY <1>1, <1>3, <1>4, NodeFacts
  <2>2. f = IF node[n]["lo"] > 0 THEN "lo" ELSE "hi"
    BY <2>1, <1>4 DEF NextSide
  <2>3. node[n]["lo"] > 0 \/ node[n]["hi"] > 0
    BY <2>1, <1>1, <1>4
  <2> QED BY <2>1, <2>2, <2>3
<1>6. PICK c \in Nat : c = node[n][f] - 1 /\ node[n][f] = c + 1
  BY <1>5
<1>7. node' = Put(n, f, c)
  BY <1>1, <1>4, <1>6 DEF Put
<1>8. node[n].number \in Numbers
  BY <1>1, NodeFacts
<1>9. PICK x \in Numbers : x = node[n].number
  BY <1>8
<1>10. PICK v : v = IF f = "lo" THEN x - (x % 2) ELSE (x - (x % 2)) + 1
  OBVIOUS
<1>11. v \in Numbers /\ v \div 2 = x \div 2 /\ Side(1, v) = f
  BY <1>10, NumberOfSide
<1>12. buffer' = Append(buffer, v)
  BY <1>4, <1>9, <1>10 DEF TakeNumber
<1> QED BY <1>1, <1>3, <1>4, <1>5, <1>6, <1>7, <1>9, <1>11, <1>12

LEMMA SearchedCounted ==
  ASSUME RadixIInv, Searched, Building, NEW n \in DOMAIN node, IsLeaf(n), NEW f \in Fields, NEW v \in Nat,
         node' = Put(n, f, v), tree' = tree
  PROVE  Searched'
<1>1. NodesOK
  BY DEF RadixIInv, RadixTypeOK
<1>2. /\ DOMAIN node' = DOMAIN node
      /\ \A q \in Owners : Deref(q)' = Deref(q)
      /\ \A m \in DOMAIN node :
           /\ node'[m].bit_pos = node[m].bit_pos /\ node'[m].number = node[m].number
           /\ IsLeaf(m)' = IsLeaf(m)
  BY <1>1, Recounted
<1> QED BY <1>2, SearchedSame

LEMMA SearchedKept ==
  ASSUME RadixIInv, Searched, Reached, [RadixNext]_radix_vars
  PROVE  Searched'
<1>1. NodesOK
  BY DEF RadixIInv, RadixTypeOK
<1>2. CASE UNCHANGED <<tree, node>> /\ (Building' => Building)
  BY <1>2 DEF Searched, Within, InRange, Toward, IsLeaf
<1>3. CASE \/ Start \/ ReadNumber \/ EndOfInput \/ Descend \/ StartBatch \/ Enter \/ Second
           \/ Taken \/ Write \/ Written \/ Released \/ UNCHANGED radix_vars
  <2>1. UNCHANGED <<tree, node>> /\ (Building' => Building)
    BY <1>3 DEF Start, ReadNumber, EndOfInput, Descend, StartBatch, Enter, Taking, Second,
                Taken, Write, Written, Released, radix_vars, Building
  <2> QED BY <2>1, <1>2
<1>4. CASE ReleaseNode
  BY <1>4 DEF ReleaseNode, Releasing, Searched, Building
<1>5. CASE AddLeaf
  BY <1>5, SearchedLeaf
<1>6. CASE Inject
  BY <1>6, SearchedInjected
<1>7. CASE CountNumber
  <2>1. /\ NodesOK /\ TreeOwned /\ RadixShape /\ Adding /\ Building
        /\ phase = "add" /\ nptr # NULL /\ Diff = {} /\ here = 1 /\ tree' = tree
        /\ node' = [node EXCEPT ![nptr][Side(1, number)] = @ + 1]
    BY <1>7 DEF RadixIInv, RadixTypeOK, CountNumber, Building
  <2>2. nptr \in DOMAIN node /\ IsLeaf(nptr)
    BY <2>1, HereIs DEF IsLeaf
  <2>3. PICK n \in DOMAIN node, f \in Fields : n = nptr /\ f = Side(1, number)
    BY <2>2 DEF Side, Fields
  <2>4. node[n][f] \in Nat
    BY <2>1, <2>2, <2>3, NodeFacts DEF Fields
  <2>5. PICK v \in Nat : v = node[n][f] + 1
    BY <2>4
  <2>6. node' = Put(n, f, v)
    BY <2>1, <2>3, <2>5 DEF Put
  <2> QED BY <2>1, <2>2, <2>3, <2>6, SearchedCounted
<1>8. CASE TakeNumber
  <2>1. PICK n \in DOMAIN node, f \in Fields, c \in Nat : IsLeaf(n) /\ node' = Put(n, f, c) /\ tree' = tree
    BY <1>8, NumberTaken
  <2>2. Building
    BY <1>8 DEF TakeNumber, Taking, Building
  <2> QED BY <2>1, <2>2, SearchedCounted
<1>9. CASE LeaveNode
  <2>1. phase = "take" /\ phase' = phase /\ calls # <<>> /\ Building /\ RemoveEmpty
        /\ (TopCall.stage = "both" \/ TopCall.stage = "leaf")
    BY <1>9 DEF LeaveNode, Building
  <2>2. CASE Hollow(TopCall.nptr)
    <3>1. /\ Path /\ Len(calls) \in 1 .. Len(calls) /\ TopCall = calls[Len(calls)] /\ TopCall.parent \in Owners
          /\ TopCall.nptr = Deref(TopCall.parent)
      BY <2>1, TopOfPath DEF RadixIInv
    <3>2. TopCall.nptr \in DOMAIN node
      BY <2>1, <3>1 DEF Path, Interior
    <3>3. PICK n \in DOMAIN node, p \in Owners : n = TopCall.nptr /\ p = TopCall.parent
      BY <3>1, <3>2
    <3>4. Hollow(n) /\ Deref(p) = n /\ Link(p, NULL, Without(n))
      BY <2>1, <2>2, <3>1, <3>3 DEF RemoveEmpty
    <3> QED BY <2>1, <3>4, SearchedRemoved
  <2>3. CASE ~ Hollow(TopCall.nptr)
    BY <2>1, <2>3, <1>2 DEF RemoveEmpty, Building
  <2> QED BY <2>2, <2>3
<1> QED BY <1>3, <1>4, <1>5, <1>6, <1>7, <1>8, <1>9 DEF RadixNext

LEMMA ReachedKept ==
  ASSUME RadixIInv, Searched, Reached, [RadixNext]_radix_vars
  PROVE  Reached'
<1>1. CASE ReadNumber
  <2> SUFFICES ASSUME phase' = "add" PROVE Reached'
    BY DEF Reached
  <2>1. NodesOK /\ node' = node /\ parent' = Root /\ bit_pos' = MaxBit
    BY <1>1 DEF RadixIInv, RadixTypeOK, ReadNumber
  <2>2. \A m \in DOMAIN node : ~ (MaxBit < node[m].bit_pos)
    <3> TAKE m \in DOMAIN node
    <3>1. node[m].bit_pos \in BitPos /\ MaxBit \in Nat
      BY <2>1, NodeFacts, OneIsPosition
    <3>2. PICK b \in Nat : b = node[m].bit_pos /\ b <= MaxBit
      BY <3>1, Positions
    <3> QED BY <3>1, <3>2
  <2> QED BY <2>1, <2>2 DEF Reached, Interior
<1>2. CASE Inject
  BY <1>2, SearchedInjected
<1>3. CASE Descend
  BY <1>3, ReachedDescended
<1>4. CASE UNCHANGED radix_vars
  BY <1>4 DEF radix_vars, adding, Reached, Interior, IsLeaf, InRange, Toward
<1>5. CASE \/ Start \/ EndOfInput \/ AddLeaf \/ CountNumber
           \/ StartBatch \/ Enter \/ TakeNumber \/ Second \/ LeaveNode \/ Taken \/ Write \/ Written
           \/ ReleaseNode \/ Released
  <2>1. phase' # "add"
    BY <1>5 DEF Start, EndOfInput, AddLeaf, CountNumber, StartBatch, Enter, TakeNumber, Taking, Second,
                LeaveNode, Taken, Write, Written, ReleaseNode, Releasing, Released
  <2> QED BY <2>1 DEF Reached
<1> QED BY <1>1, <1>2, <1>3, <1>4, <1>5 DEF RadixNext

LEMMA BufferedKept ==
  ASSUME RadixIInv, Buffered, [RadixNext]_radix_vars
  PROVE  Buffered'
<1>1. /\ buffer \in Seq(Numbers) /\ output \in Seq(Numbers) /\ limit \in Nat /\ Len(buffer) \in Nat
      /\ phase \in {"take", "write"} => end \in 1 .. limit /\ Len(buffer) <= end
      /\ phase = "write" => /\ to_write \in 0 .. Len(buffer)
                            /\ ~ ShortWrites => to_write \in {0, Len(buffer)}
  BY LenProperties DEF Buffered
<1>2. CASE ReadNumber
  <2>1. limit' \in Nat
    <3>1. ASSUME NEW n \in Requests, n < 0 PROVE -n \in Nat
      <4>1. n \in Int
        BY <3>1, RadixAssumption
      <4> QED BY <4>1, <3>1
    <3> QED BY <3>1, <1>1, <1>2 DEF ReadNumber
  <2>2. phase' \in {"batch", "add"} /\ UNCHANGED <<buffer, output>>
    BY <1>2 DEF ReadNumber
  <2> QED BY <2>1, <2>2, <1>1 DEF Buffered
<1>3. CASE StartBatch
  <2>1. CASE phase' = "read"
    <3>1. UNCHANGED <<buffer, limit, output>>
      BY <2>1, <1>3 DEF StartBatch
    <3> QED BY <2>1, <3>1, <1>1 DEF Buffered
  <2>2. CASE limit > 0 /\ phase' = "take"
    <3>1. buffer' = <<>> /\ end' = Min({limit, BufferSize}) /\ UNCHANGED <<limit, output>>
      BY <2>2, <1>3 DEF StartBatch
    <3>2. BufferSize \in Nat \ {0} /\ BufferSize \in Int /\ limit \in Int
      BY <1>1, RadixAssumption
    <3>3. end' = IF limit <= BufferSize THEN limit ELSE BufferSize
      BY <3>1, <3>2, MinOfTwo
    <3>4. end' \in 1 .. limit /\ Len(buffer') <= end'
      <4>1. Len(buffer') = 0
        BY <3>1
      <4> QED BY <4>1, <3>2, <3>3, <2>2, <1>1
    <3>5. buffer' \in Seq(Numbers)
      BY <3>1
    <3> QED BY <2>2, <3>1, <3>4, <3>5, <1>1 DEF Buffered
  <2> QED BY <2>1, <2>2, <1>3 DEF StartBatch
<1>4. CASE TakeNumber
  <2>1. PICK v \in Numbers : buffer' = Append(buffer, v)
    BY <1>4, NumberTaken
  <2>2. phase = "take" /\ ~ Full /\ UNCHANGED <<phase, limit, end, to_write, output>>
    BY <1>4 DEF TakeNumber, Taking
  <2>3. buffer' \in Seq(Numbers) /\ Len(buffer') = Len(buffer) + 1
    BY <2>1, <1>1, AppendProperties
  <2>4. end \in Nat /\ Len(buffer) < end
    BY <2>2, <1>1 DEF Full
  <2>5. Len(buffer') <= end
    BY <2>3, <2>4, <1>1
  <2> QED BY <2>2, <2>3, <2>5, <1>1 DEF Buffered
<1>5. CASE Taken
  <2>1. phase = "take" /\ phase' = "write" /\ to_write' = Len(buffer) /\ UNCHANGED <<limit, buffer, end, output>>
    BY <1>5 DEF Taken
  <2> QED BY <2>1, <1>1 DEF Buffered
<1>6. CASE Write
  <2>1. PICK n \in IF ShortWrites THEN 0 .. to_write ELSE {to_write} :
          /\ phase = "write" /\ phase' = "write" /\ to_write' = to_write - n
          /\ output' = output \o SubSeq(buffer, 1, n) /\ UNCHANGED <<limit, buffer, end>>
    BY <1>6 DEF Write
  <2>2. n \in 0 .. Len(buffer) /\ to_write' \in 0 .. Len(buffer)
        /\ (~ ShortWrites => to_write' = 0)
    BY <2>1, <1>1
  <2>3. SubSeq(buffer, 1, n) \in Seq(Numbers)
    <3>1. \A l \in 1 .. n : buffer[l] \in Numbers
      <4> TAKE l \in 1 .. n
      <4>1. l \in 1 .. Len(buffer)
        BY <2>2, <1>1
      <4> QED BY <4>1, <1>1, ElementOfSeq
    <3> QED BY <3>1, <2>2, <1>1, SubSeqProperties
  <2>4. output' \in Seq(Numbers)
    BY <2>1, <2>3, <1>1, ConcatProperties
  <2> QED BY <2>1, <2>2, <2>4, <1>1 DEF Buffered
<1>7. CASE Written
  <2>1. phase = "write" /\ phase' \in {"read", "batch"} /\ limit' = limit - Len(buffer) /\ UNCHANGED <<buffer, output>>
    BY <1>7 DEF Written
  <2>2. limit' \in Nat
    BY <2>1, <1>1
  <2> QED BY <2>1, <2>2, <1>1 DEF Buffered
<1>8. CASE UNCHANGED taking /\ (phase' \in {"take", "write"} => phase' = phase)
  BY <1>8, <1>1 DEF Buffered, taking
<1>9. CASE \/ Start \/ EndOfInput \/ AddLeaf \/ Inject \/ Descend \/ CountNumber
           \/ Enter \/ Second \/ LeaveNode \/ ReleaseNode \/ Released \/ UNCHANGED radix_vars
  <2>1. UNCHANGED taking /\ (phase' \in {"take", "write"} => phase' = phase)
    BY <1>9 DEF Start, EndOfInput, AddLeaf, Inject, Descend, CountNumber, Enter, Second, LeaveNode,
                ReleaseNode, Released, radix_vars
  <2> QED BY <2>1, <1>8
<1> QED BY <1>2, <1>3, <1>4, <1>5, <1>6, <1>7, <1>9 DEF RadixNext

LEMMA OrderInitial ==
  ASSUME RadixInit PROVE OrderIInv
<1>1. /\ phase = "start" /\ DOMAIN node = {} /\ buffer = <<>> /\ output = <<>> /\ limit = 0
  BY DEF RadixInit
<1>2. Searched /\ Reached /\ Exhausted
  BY <1>1 DEF Searched, Reached, Exhausted
<1>3. Buffered
  BY <1>1 DEF Buffered
<1> QED BY <1>2, <1>3 DEF OrderIInv

LEMMA OrderStep ==
  ASSUME RadixIInv, OrderIInv, [RadixNext]_radix_vars PROVE OrderIInv'
BY SearchedKept, ReachedKept, BufferedKept, ExhaustedKept DEF OrderIInv

LEMMA RadixOrder == RadixSpec => [](RadixIInv /\ OrderIInv)
<1>1. RadixInit => RadixIInv /\ OrderIInv
  BY RadixInitial, OrderInitial
<1>2. (RadixIInv /\ OrderIInv) /\ [RadixNext]_radix_vars => (RadixIInv /\ OrderIInv)'
  BY RadixStep, OrderStep
<1> QED BY <1>1, <1>2, PTL DEF RadixSpec

LEMMA SumOfNat ==
  ASSUME NEW f, NEW S, IsFiniteSet(S), \A x \in S : f[x] \in Nat
  PROVE  /\ SumFunctionOnSet(f, S) \in Nat
         /\ \A x \in S : f[x] <= SumFunctionOnSet(f, S)
<1> DEFINE z == [x \in S |-> 0]
<1>1. \A T \in SUBSET S : SumFunctionOnSet(f, T) \in Nat
  <2> SUFFICES ASSUME NEW T \in SUBSET S PROVE SumFunctionOnSet(f, T) \in Nat
    OBVIOUS
  <2>1. IsFiniteSet(T) /\ \A x \in T : f[x] \in Int /\ z[x] \in Int /\ z[x] = 0 /\ z[x] <= f[x]
    BY FS_Subset
  <2> HIDE DEF z
  <2>2. SumFunctionOnSet(z, T) = 0
    BY <2>1, SumZero
  <2>3. SumFunctionOnSet(z, T) <= SumFunctionOnSet(f, T)
    BY <2>1, SumBounded
  <2>4. SumFunctionOnSet(f, T) \in Int
    BY <2>1, SumFacts
  <2> QED BY <2>2, <2>3, <2>4
<1>2. ASSUME NEW x \in S PROVE f[x] <= SumFunctionOnSet(f, S)
  <2>1. SumFunctionOnSet(f, S) = f[x] + SumFunctionOnSet(f, S \ {x})
    BY SumFacts
  <2>2. SumFunctionOnSet(f, S \ {x}) \in Nat /\ f[x] \in Nat
    BY <1>1
  <2> QED BY <2>1, <2>2
<1> QED BY <1>1, <1>2

-----------------------------------------------------------------------------
(* What the leaves hold of a number.                                       *)
Stored(x) == SumFunctionOnSet(Share(x), Leaves)

LEMMA Sums ==
  ASSUME NEW f PROVE SumFunction(f) = SumFunctionOnSet(f, DOMAIN f)
BY DEF SumFunction, SumFunctionOnSet, FoldFunction

LEMMA ContentsAre ==
  ASSUME NodesOK, NEW x \in Numbers
  PROVE  /\ IsFiniteSet(Leaves) /\ DOMAIN Share(x) = Leaves
         /\ \A n \in Leaves : /\ n \in DOMAIN node /\ Share(x)[n] \in Nat
                              /\ Share(x)[n] = IF node[n].number \div 2 = x \div 2 THEN node[n][Side(1, x)] ELSE 0
         /\ Stored(x) \in Nat
         /\ \A n \in Leaves : Share(x)[n] <= Stored(x)
         /\ Contents(x) = Stored(x) + (IF phase = "add" /\ number = x THEN 1 ELSE 0)
<1>1. IsFiniteSet(Leaves)
  BY FS_Subset DEF Leaves, NodesOK
<1>2. DOMAIN Share(x) = Leaves
  BY DEF Share
<1>3. ASSUME NEW n \in Leaves
      PROVE  /\ n \in DOMAIN node /\ Share(x)[n] \in Nat
             /\ Share(x)[n] = IF node[n].number \div 2 = x \div 2 THEN node[n][Side(1, x)] ELSE 0
  <2>1. n \in DOMAIN node /\ IsLeaf(n)
    BY DEF Leaves
  <2>2. node[n]["lo"] \in Nat /\ node[n]["hi"] \in Nat
    BY <2>1, NodeFacts
  <2>3. Share(x)[n] = IF node[n].number \div 2 = x \div 2 THEN node[n][Side(1, x)] ELSE 0
    BY DEF Share
  <2> QED BY <2>1, <2>2, <2>3 DEF Side
<1>4. PICK f, S : f = Share(x) /\ S = Leaves
  OBVIOUS
<1>5. SumFunctionOnSet(f, S) \in Nat /\ \A n \in S : f[n] <= SumFunctionOnSet(f, S)
  BY <1>1, <1>3, <1>4, SumOfNat
<1>6. SumFunction(Share(x)) = Stored(x)
  BY <1>2, Sums DEF Stored
<1> QED BY <1>1, <1>2, <1>3, <1>4, <1>5, <1>6 DEF Contents, Stored

(* The same counts in the same leaves, ...                                 *)
LEMMA StoredSame ==
  ASSUME NodesOK, NodesOK', Leaves' = Leaves, NEW x \in Numbers,
         \A n \in Leaves : /\ node'[n].number = node[n].number
                           /\ \A f \in Fields : node'[n][f] = node[n][f]
  PROVE  Stored(x)' = Stored(x)
<1>1. IsFiniteSet(Leaves) /\ \A n \in Leaves : Share(x)[n] \in Nat
      /\ Share(x)[n] = IF node[n].number \div 2 = x \div 2 THEN node[n][Side(1, x)] ELSE 0
  BY ContentsAre
<1>2. \A n \in Leaves : Share(x)'[n] = IF node'[n].number \div 2 = x \div 2 THEN node'[n][Side(1, x)] ELSE 0
  BY DEF Share
<1>3. \A n \in Leaves : Share(x)'[n] = Share(x)[n]
  BY <1>1, <1>2 DEF Side, Fields
<1>4. PICK f, g, S : f = Share(x) /\ g = Share(x)' /\ S = Leaves
  OBVIOUS
<1>5. IsFiniteSet(S) /\ \A n \in S : f[n] \in Int /\ f[n] = g[n]
  BY <1>1, <1>3, <1>4
<1>6. SumFunctionOnSet(f, S) = SumFunctionOnSet(g, S)
  BY <1>5, SumCongruence
<1> QED BY <1>4, <1>6 DEF Stored

(* ... another count in one of them, ...                                   *)
LEMMA StoredChanged ==
  ASSUME NodesOK, NEW n \in DOMAIN node, IsLeaf(n), NEW f \in Fields, NEW v \in Nat,
         node' = Put(n, f, v), tree' = tree, NEW x \in Numbers
  PROVE  Stored(x)' = Stored(x) + IF node[n].number \div 2 = x \div 2 /\ Side(1, x) = f THEN v - node[n][f] ELSE 0
<1>1. /\ DOMAIN node' = DOMAIN node
      /\ \A m \in DOMAIN node :
           /\ node'[m].bit_pos = node[m].bit_pos /\ node'[m].number = node[m].number
           /\ IsLeaf(m)' = IsLeaf(m)
           /\ m # n => node'[m] = node[m]
           /\ \A g \in Fields : node'[m][g] = IF m = n /\ g = f THEN v ELSE node[m][g]
  BY Recounted
<1>2. Leaves' = Leaves /\ n \in Leaves
  BY <1>1 DEF Leaves
<1>3. IsFiniteSet(Leaves) /\ \A m \in Leaves : m \in DOMAIN node /\ Share(x)[m] \in Nat
      /\ Share(x)[m] = IF node[m].number \div 2 = x \div 2 THEN node[m][Side(1, x)] ELSE 0
  BY ContentsAre
<1>4. \A m \in Leaves : Share(x)'[m] = IF node'[m].number \div 2 = x \div 2 THEN node'[m][Side(1, x)] ELSE 0
  BY <1>2 DEF Share
<1>5. Side(1, x) \in Fields /\ node[n][f] \in Nat
  BY NodeFacts DEF Side, Fields
<1>6. \A m \in Leaves \ {n} : Share(x)'[m] = Share(x)[m]
  BY <1>1, <1>3, <1>4, <1>5
<1>7. Share(x)'[n] = Share(x)[n] + IF node[n].number \div 2 = x \div 2 /\ Side(1, x) = f THEN v - node[n][f] ELSE 0
  <2>1. Share(x)'[n] = IF node[n].number \div 2 = x \div 2 THEN (IF Side(1, x) = f THEN v ELSE node[n][Side(1, x)]) ELSE 0
    BY <1>1, <1>2, <1>4, <1>5
  <2>2. Share(x)[n] = IF node[n].number \div 2 = x \div 2 THEN node[n][Side(1, x)] ELSE 0
    BY <1>2, <1>3
  <2>3. Share(x)[n] \in Nat
    BY <1>2, <1>3
  <2> QED BY <2>1, <2>2, <2>3, <1>5
<1>8. Share(x)[n] \in Nat /\ Share(x)'[n] \in Int
  BY <1>2, <1>3, <1>5, <1>7
<1>9. PICK h, g, S : h = Share(x) /\ g = Share(x)' /\ S = Leaves
  OBVIOUS
<1>10. SumFunctionOnSet(g, S) = (SumFunctionOnSet(h, S) - h[n]) + g[n]
  <2>1. IsFiniteSet(S) /\ n \in S /\ (\A m \in S : h[m] \in Int) /\ g[n] \in Int /\ \A m \in S \ {n} : g[m] = h[m]
    BY <1>2, <1>3, <1>6, <1>8, <1>9
  <2> QED BY <2>1, SumChanged
<1>11. Stored(x) \in Nat /\ Stored(x) = SumFunctionOnSet(h, S) /\ Stored(x)' = SumFunctionOnSet(g, S)
  BY <1>2, <1>9, ContentsAre DEF Stored
<1> QED BY <1>5, <1>7, <1>8, <1>9, <1>10, <1>11

(* ... and a leaf more or less.                                            *)
LEMMA StoredAdded ==
  ASSUME NodesOK, NodesOK', NEW n, n \notin Leaves, Leaves' = Leaves \cup {n}, NEW x \in Numbers,
         \A m \in Leaves : /\ node'[m].number = node[m].number
                           /\ \A f \in Fields : node'[m][f] = node[m][f]
  PROVE  Stored(x)' = Stored(x) + (IF node'[n].number \div 2 = x \div 2 THEN node'[n][Side(1, x)] ELSE 0)
<1>1. IsFiniteSet(Leaves) /\ \A m \in Leaves : Share(x)[m] \in Nat
      /\ Share(x)[m] = IF node[m].number \div 2 = x \div 2 THEN node[m][Side(1, x)] ELSE 0
  BY ContentsAre
<1>2. \A m \in Leaves' : Share(x)'[m] = IF node'[m].number \div 2 = x \div 2 THEN node'[m][Side(1, x)] ELSE 0
  BY DEF Share
<1>3. \A m \in Leaves : Share(x)'[m] = Share(x)[m]
  BY <1>1, <1>2 DEF Side, Fields
<1>4. Share(x)'[n] \in Nat
  <2>1. n \in Leaves'
    OBVIOUS
  <2>2. n \in DOMAIN node' /\ node'[n].bit_pos = 1
    BY <2>1 DEF Leaves, IsLeaf
  <2>3. node'[n].lo \in Nat /\ node'[n].hi \in Nat /\ node'[n] \in NodeRecords
    BY <2>2 DEF NodesOK, IsLeaf
  <2>4. node'[n]["lo"] \in Nat /\ node'[n]["hi"] \in Nat
    BY <2>3 DEF NodeRecords
  <2> QED BY <2>1, <2>4, <1>2 DEF Side
<1>5. PICK f, g, S, T : f = Share(x) /\ g = Share(x)' /\ S = Leaves /\ T = Leaves'
  OBVIOUS
<1>6. T = S \cup {n} /\ n \in T /\ T \ {n} = S /\ IsFiniteSet(T) /\ IsFiniteSet(S)
      /\ (\A m \in S : f[m] \in Int /\ f[m] = g[m]) /\ (\A m \in T : g[m] \in Int)
  <2>1. IsFiniteSet(T)
    BY <1>1, <1>5, FS_AddElement
  <2> QED BY <2>1, <1>1, <1>3, <1>4, <1>5
<1>7. SumFunctionOnSet(g, T) = g[n] + SumFunctionOnSet(g, T \ {n})
  BY <1>6, SumFacts
<1>8. SumFunctionOnSet(f, S) = SumFunctionOnSet(g, S)
  BY <1>6, SumCongruence
<1>9. Stored(x) \in Nat /\ Stored(x) = SumFunctionOnSet(f, S) /\ Stored(x)' = SumFunctionOnSet(g, T)
  BY <1>5, ContentsAre DEF Stored
<1>10. g[n] = IF node'[n].number \div 2 = x \div 2 THEN node'[n][Side(1, x)] ELSE 0
  BY <1>2, <1>5, <1>6
<1>11. g[n] \in Nat
  BY <1>4, <1>5
<1>12. Stored(x)' = g[n] + Stored(x)
  BY <1>6, <1>7, <1>8, <1>9
<1>13. Stored(x)' = Stored(x) + g[n]
  BY <1>9, <1>11, <1>12
<1> QED BY <1>10, <1>13

LEMMA StoredRemoved ==
  ASSUME NodesOK, NodesOK', NEW n \in Leaves, Hollow(n), Leaves' = Leaves \ {n}, NEW x \in Numbers,
         \A m \in Leaves' : /\ node'[m].number = node[m].number
                            /\ \A f \in Fields : node'[m][f] = node[m][f]
  PROVE  Stored(x)' = Stored(x)
<1>1. IsFiniteSet(Leaves) /\ \A m \in Leaves : m \in DOMAIN node /\ Share(x)[m] \in Nat
      /\ Share(x)[m] = IF node[m].number \div 2 = x \div 2 THEN node[m][Side(1, x)] ELSE 0
  BY ContentsAre
<1>2. \A m \in Leaves' : Share(x)'[m] = IF node'[m].number \div 2 = x \div 2 THEN node'[m][Side(1, x)] ELSE 0
  BY DEF Share
<1>3. \A m \in Leaves' : Share(x)'[m] = Share(x)[m]
  BY <1>1, <1>2 DEF Side, Fields
<1>4. Share(x)[n] = 0
  <2>1. node[n].lo = node[n]["lo"] /\ node[n].hi = node[n]["hi"]
    BY <1>1, NodeFacts
  <2> QED BY <2>1, <1>1 DEF Hollow, Side
<1>5. PICK f, g, S, T : f = Share(x) /\ g = Share(x)' /\ S = Leaves /\ T = Leaves'
  OBVIOUS
<1>6. T = S \ {n} /\ n \in S /\ f[n] = 0 /\ IsFiniteSet(T) /\ IsFiniteSet(S)
      /\ (\A m \in S : f[m] \in Int) /\ (\A m \in T : f[m] \in Int /\ f[m] = g[m])
  <2>1. IsFiniteSet(T)
    BY <1>1, <1>5, FS_Subset
  <2> QED BY <2>1, <1>1, <1>3, <1>4, <1>5
<1>7. SumFunctionOnSet(f, S) = f[n] + SumFunctionOnSet(f, S \ {n})
  BY <1>6, SumFacts
<1>8. SumFunctionOnSet(f, T) = SumFunctionOnSet(g, T) /\ SumFunctionOnSet(f, T) \in Int
  BY <1>6, SumCongruence, SumFacts
<1>9. Stored(x) = SumFunctionOnSet(f, S) /\ Stored(x)' = SumFunctionOnSet(g, T)
  BY <1>5 DEF Stored
<1> QED BY <1>6, <1>7, <1>8, <1>9

LEMMA HeldIs ==
  ASSUME RadixIInv, Building, NEW x \in Numbers
  PROVE  /\ Stored(x) \in Nat
         /\ Held[x] = Stored(x) + (IF phase = "add" /\ number = x THEN 1 ELSE 0)
<1>1. NodesOK
  BY DEF RadixIInv, RadixTypeOK
<1> QED BY <1>1, ContentsAre DEF Held, Building

LEMMA HeldNext ==
  ASSUME RadixIInv', Building', NEW x \in Numbers
  PROVE  Held'[x] = Stored(x)' + (IF phase' = "add" /\ number' = x THEN 1 ELSE 0)
<1>1. Contents(x)' = SumFunction(Share(x)') + (IF phase' = "add" /\ number' = x THEN 1 ELSE 0)
  BY DEF Contents
<1>2. SumFunction(Share(x)') = SumFunctionOnSet(Share(x)', DOMAIN Share(x)')
  BY Sums
<1>3. DOMAIN Share(x)' = Leaves'
  BY DEF Share
<1>4. Stored(x)' = SumFunctionOnSet(Share(x)', Leaves')
  BY DEF Stored
<1> QED BY <1>1, <1>2, <1>3, <1>4 DEF Held, Building

LEMMA HeldFunctions ==
  /\ Held \in [Numbers -> {Held[x] : x \in Numbers}] /\ Held' \in [Numbers -> {Held'[x] : x \in Numbers}]
  /\ (\A x \in Numbers : Held'[x] = Held[x]) => Held' = Held
<1>1. DOMAIN Held = Numbers /\ DOMAIN Held' = Numbers /\ Held = [x \in Numbers |-> Held[x]] /\ Held' = [x \in Numbers |-> Held'[x]]
  BY DEF Held
<1> QED BY <1>1

(* What the leaves hold is the same when the tree is.                      *)
LEMMA StoredLeft ==
  ASSUME NodesOK, UNCHANGED <<tree, node>>, NEW x \in Numbers
  PROVE  Stored(x)' = Stored(x)
<1>1. Share(x)' = Share(x) /\ Leaves' = Leaves
  BY DEF Share, Leaves, IsLeaf
<1> QED BY <1>1 DEF Stored

LEMMA HeldLeft ==
  ASSUME RadixIInv, RadixIInv', Building, Building', UNCHANGED <<tree, node>>,
         (phase = "add" \/ phase' = "add") => phase = phase' /\ number' = number
  PROVE  Held' = Held
<1>1. NodesOK
  BY DEF RadixIInv, RadixTypeOK
<1>2. ASSUME NEW x \in Numbers PROVE Held'[x] = Held[x]
  <2>1. Stored(x)' = Stored(x)
    BY <1>1, StoredLeft
  <2> QED BY <2>1, HeldIs, HeldNext
<1> QED BY <1>2, HeldFunctions

(* The steps that leave the tree, the numbers and what is owed.            *)
LEMMA SameBag ==
  ASSUME Held' = Held, Owed' = Owed, Produced' = Produced
  PROVE  [Bag!Next]_(Bag!vars)
BY DEF Bag!vars

LEMMA BagInitial ==
  ASSUME RadixInit PROVE Bag!Init
<1>1. RadixIInv /\ Building /\ phase = "start" /\ output = <<>>
  BY RadixInitial DEF RadixInit, Building
<1>2. NodesOK /\ DOMAIN node = {}
  BY <1>1 DEF RadixInit, RadixIInv, RadixTypeOK
<1>3. ASSUME NEW x \in Numbers PROVE Held[x] = 0
  <2>1. IsFiniteSet(Leaves) /\ Leaves = {}
    BY <1>2, ContentsAre DEF Leaves
  <2>2. PICK f, S : f = Share(x) /\ S = Leaves
    OBVIOUS
  <2>3. SumFunctionOnSet(f, S) = 0
    BY <2>1, <2>2, SumZero
  <2>4. Stored(x) = 0
    BY <2>2, <2>3 DEF Stored
  <2>5. Held[x] = Stored(x) + (IF phase = "add" /\ number = x THEN 1 ELSE 0)
    BY <1>1, HeldIs
  <2> QED BY <2>4, <2>5, <1>1
<1>4. Held = [x \in Numbers |-> 0]
  BY <1>3 DEF Held
<1>5. Owed = 0 /\ Produced = <<>>
  BY <1>1 DEF Owed, Produced
<1> QED BY <1>4, <1>5 DEF Bag!Init, Bag!Nothing

(* Reading a number is Add, or Request.                                    *)
LEMMA BagRead ==
  ASSUME RadixIInv, OrderIInv, RadixIInv', OrderIInv', ReadNumber
  PROVE  [Bag!Next]_(Bag!vars)
<1>1. /\ phase = "read" /\ Building /\ Building' /\ NodesOK /\ UNCHANGED <<tree, node, output>>
      /\ Owed = 0 /\ Produced' = Produced
  BY DEF RadixIInv, RadixTypeOK, ReadNumber, Building, Owed, Produced
<1>2. \A x \in Numbers : Stored(x)' = Stored(x) /\ Stored(x) \in Nat
  BY <1>1, StoredLeft, HeldIs
<1>3. PICK n \in Requests :
        IF n < 0 THEN phase' = "batch" /\ limit' = -n ELSE phase' = "add" /\ number' = n
  BY DEF ReadNumber
<1>4. n \in Int /\ (n >= 0 => n \in Numbers)
  BY RadixAssumption
<1>5. CASE n < 0
  <2>1. Owed' = -n /\ -n \in Nat \ {0}
    BY <1>3, <1>4, <1>5 DEF Owed
  <2>2. Held' = Held
    BY <1>1, <1>3, <1>5, HeldLeft
  <2> QED BY <2>1, <2>2, <1>1 DEF Bag!Next, Bag!Request
<1>6. CASE ~ n < 0
  <2>1. n \in Numbers /\ phase' = "add" /\ number' = n
    BY <1>3, <1>4, <1>6
  <2>2. \A x \in Numbers : Held[x] = Stored(x) + 0 /\ Held'[x] = Stored(x) + (IF n = x THEN 1 ELSE 0)
    <3> TAKE x \in Numbers
    <3>1. Held[x] = Stored(x) + (IF phase = "add" /\ number = x THEN 1 ELSE 0)
      BY <1>1, HeldIs
    <3>2. Held'[x] = Stored(x)' + (IF phase' = "add" /\ number' = x THEN 1 ELSE 0)
      BY <1>1, HeldNext
    <3> QED BY <3>1, <3>2, <1>1, <1>2, <2>1
  <2>3. \A x \in Numbers : Held'[x] = IF x = n THEN Held[x] + 1 ELSE Held[x]
    BY <2>2, <1>2
  <2>4. Held = [x \in Numbers |-> Held[x]] /\ Held' = [x \in Numbers |-> Held'[x]]
    BY DEF Held
  <2>5. Held' = [Held EXCEPT ![n] = @ + 1]
    BY <2>1, <2>3, <2>4
  <2>6. Owed' = 0
    BY <2>1 DEF Owed
  <2> QED BY <2>1, <2>5, <2>6, <1>1 DEF Bag!Next, Bag!Add
<1> QED BY <1>5, <1>6

LEMMA Halves ==
  ASSUME NEW y \in Nat
  PROVE  /\ y \div 2 \in Nat /\ y % 2 \in {0, 1} /\ y = 2 * (y \div 2) + (y % 2)
         /\ Side(1, y) = IF y % 2 = 1 THEN "hi" ELSE "lo"
<1>1. y \div 2 \in Nat /\ y % 2 \in 0 .. (2 - 1) /\ y = 2 * (y \div 2) + (y % 2)
  BY DivMod
<1>2. y \div 1 = y
  OBVIOUS
<1> QED BY <1>1, <1>2 DEF Side, IsSet

(* The number read is in the tree when add_number is done.                 *)
LEMMA BagAdded ==
  ASSUME RadixIInv, RadixIInv', AddLeaf \/ CountNumber
  PROVE  [Bag!Next]_(Bag!vars)
<1>1. /\ phase = "add" /\ phase' = "read" /\ Building /\ Building' /\ NodesOK /\ NodesOK'
      /\ TreeOwned /\ RadixShape /\ Adding /\ NodesNeeded /\ requests \in 0 .. MaxRequests
      /\ UNCHANGED <<output>>
  BY DEF RadixIInv, RadixTypeOK, AddLeaf, CountNumber, taking, Building
<1>2. Owed' = Owed /\ Produced' = Produced
  BY <1>1 DEF Owed, Produced
<1>3. number \in Numbers /\ parent \in Owners
  BY <1>1, SubtreeAgrees
<1>4. number \in Nat /\ number % 2 \in {0, 1}
  <2>1. number \in Nat
    BY <1>3, NumbersAreNat
  <2> QED BY <2>1, Halves
<1>5. ASSUME NEW x \in Numbers
      PROVE  number \div 2 = x \div 2 /\ Side(1, x) = Side(1, number) <=> x = number
  <2>1. PICK y \in Nat, z \in Nat : y = x /\ z = number
    BY <1>4, NumbersAreNat
  <2>2. PICK p \in Nat, a \in {0, 1}, q \in Nat, b \in {0, 1} :
           /\ y = 2 * p + a /\ p = y \div 2 /\ a = y % 2 /\ Side(1, y) = IF a = 1 THEN "hi" ELSE "lo"
           /\ z = 2 * q + b /\ q = z \div 2 /\ b = z % 2 /\ Side(1, z) = IF b = 1 THEN "hi" ELSE "lo"
    BY Halves
  <2>3. Side(1, y) = Side(1, z) <=> a = b
    BY <2>2
  <2>4. p = q /\ a = b <=> y = z
    BY <2>2
  <2> QED BY <2>1, <2>2, <2>3, <2>4
<1>6. ASSUME NEW x \in Numbers PROVE Stored(x)' = Stored(x) + (IF number = x THEN 1 ELSE 0)
  <2>1. CASE AddLeaf
    <3>1. PICK F \in Nodes : F = Fresh /\ F \notin DOMAIN node
      BY <1>1, FreshIsNew
    <3> DEFINE r == [bit_pos |-> 1, number |-> number, lo |-> 1 - (number % 2), hi |-> number % 2]
    <3>2. Link(parent, F, With(F, r, node))
      BY <2>1, <3>1 DEF AddLeaf
    <3>3. r.number = number /\ r.bit_pos = 1 /\ r["lo"] = 1 - (number % 2) /\ r["hi"] = number % 2
      OBVIOUS
    <3>10. r \in NodeRecords
      BY <1>3, OneIsPosition, NumbersAreNat DEF NodeRecords
    <3> HIDE DEF r
    <3>4. nptr = NULL
      BY <2>1 DEF AddLeaf
    <3>5. /\ DOMAIN node' = DOMAIN node \cup {F}
          /\ \A m \in DOMAIN node :
               /\ node'[m].bit_pos = node[m].bit_pos /\ node'[m].number = node[m].number
               /\ \A f \in Fields : node'[m][f] = IF parent = <<m, f>> THEN F ELSE node[m][f]
          /\ node'[F].bit_pos = r.bit_pos /\ node'[F].number = r.number
          /\ \A f \in Fields : node'[F][f] = r[f]
          /\ \A m \in DOMAIN node : IsLeaf(m)' = IsLeaf(m)
      <4>1. NodesOK /\ TreeOwned /\ Building
        BY <1>1
      <4>2. F \notin DOMAIN node /\ F # NULL
        BY <3>1, RadixAssumption DEF NULL
      <4>3. parent \in Owners
        BY <1>3
      <4> QED BY <4>1, <4>2, <4>3, <3>2, <3>10, Hung
    <3>6. Leaves' = Leaves \cup {F} /\ F \notin Leaves
      BY <3>1, <3>3, <3>5 DEF Leaves, IsLeaf
    <3>7. \A m \in Leaves : /\ node'[m].number = node[m].number
                            /\ \A f \in Fields : node'[m][f] = node[m][f]
      <4>1. \A m \in Leaves, f \in Fields : parent # <<m, f>>
        BY <1>3 DEF Owners, Interior, Leaves, Root
      <4> QED BY <4>1, <3>5 DEF Leaves
    <3>8. Stored(x)' = Stored(x) + (IF node'[F].number \div 2 = x \div 2 THEN node'[F][Side(1, x)] ELSE 0)
      BY <3>6, <3>7, <1>1, StoredAdded
    <3>9. (IF node'[F].number \div 2 = x \div 2 THEN node'[F][Side(1, x)] ELSE 0) = IF number = x THEN 1 ELSE 0
      <4>1. node'[F].number = number /\ node'[F]["lo"] = 1 - (number % 2) /\ node'[F]["hi"] = number % 2
        BY <3>3, <3>5 DEF Fields
      <4>2. Side(1, number) = IF number % 2 = 1 THEN "hi" ELSE "lo"
        BY <1>4, Halves
      <4>3. number \div 2 = x \div 2 /\ Side(1, x) = Side(1, number) <=> x = number
        BY <1>5
      <4>4. Side(1, x) = "lo" \/ Side(1, x) = "hi"
        BY DEF Side
      <4> QED BY <4>1, <4>2, <4>3, <4>4, <1>4
    <3> QED BY <3>8, <3>9
  <2>2. CASE CountNumber
    <3>1. /\ nptr # NULL /\ Diff = {} /\ here = 1 /\ tree' = tree
          /\ node' = [node EXCEPT ![nptr][Side(1, number)] = @ + 1]
      BY <2>2 DEF CountNumber
    <3>2. /\ nptr \in DOMAIN node /\ here = node[nptr].bit_pos
          /\ number \div (2 * here) = node[nptr].number \div (2 * here)
      BY <3>1, <1>1, HereIs
    <3>3. IsLeaf(nptr)
      BY <3>1, <3>2 DEF IsLeaf
    <3>4. PICK n \in DOMAIN node, f \in Fields : n = nptr /\ f = Side(1, number)
      BY <3>2 DEF Side, Fields
    <3>5. node[n][f] \in Nat
      BY <1>1, <3>3, <3>4, NodeFacts DEF Fields
    <3>6. PICK v \in Nat : v = node[n][f] + 1 /\ v - node[n][f] = 1
      BY <3>5
    <3>7. node' = Put(n, f, v)
      BY <3>1, <3>4, <3>6 DEF Put
    <3>8. Stored(x)' = Stored(x) + IF node[n].number \div 2 = x \div 2 /\ Side(1, x) = f THEN v - node[n][f] ELSE 0
      BY <1>1, <3>1, <3>3, <3>4, <3>7, StoredChanged
    <3>9. node[n].number \div 2 = number \div 2
      <4>1. 2 * here = 2
        BY <3>1
      <4> QED BY <4>1, <3>2, <3>4
    <3>10. node[n].number \div 2 = x \div 2 /\ Side(1, x) = f <=> x = number
      BY <3>4, <3>9, <1>5
    <3> QED BY <3>6, <3>8, <3>10
  <2> QED BY <2>1, <2>2
<1>7. ASSUME NEW x \in Numbers PROVE Held'[x] = Held[x]
  <2>1. Held[x] = Stored(x) + (IF phase = "add" /\ number = x THEN 1 ELSE 0)
    BY <1>1, HeldIs
  <2>2. Held'[x] = Stored(x)' + (IF phase' = "add" /\ number' = x THEN 1 ELSE 0)
    BY <1>1, HeldNext
  <2>3. Stored(x) \in Nat
    BY <1>1, HeldIs
  <2> QED BY <2>1, <2>2, <2>3, <1>1, <1>6
<1> QED BY <1>2, <1>7, HeldFunctions, SameBag

(* A number taken from the tree is the smallest of the bag.                *)
LEMMA BagTaken ==
  ASSUME RadixIInv, OrderIInv, RadixIInv', TakeNumber
  PROVE  [Bag!Next]_(Bag!vars)
<1>1. /\ phase = "take" /\ phase' = "take" /\ calls # <<>> /\ ~ Full /\ Building /\ Building' /\ NodesOK
      /\ UNCHANGED <<limit, end, output>>
  BY DEF RadixIInv, RadixTypeOK, TakeNumber, Taking, Building
<1>2. PICK n \in DOMAIN node, f \in Fields, v \in Numbers, c \in Nat :
        /\ n = TopCall.nptr /\ IsLeaf(n) /\ buffer' = Append(buffer, v)
        /\ v \div 2 = node[n].number \div 2 /\ Side(1, v) = f
        /\ node[n][f] = c + 1 /\ node' = Put(n, f, c) /\ tree' = tree
        /\ f = "hi" => node[n]["lo"] = 0
  BY NumberTaken
<1>3. n \in Leaves
  BY <1>2 DEF Leaves
<1>4. /\ buffer \in Seq(Numbers) /\ output \in Seq(Numbers) /\ limit \in Nat /\ Len(buffer) \in Nat
      /\ end \in 1 .. limit
  BY <1>1, LenProperties DEF OrderIInv, Buffered
<1>5. Owed > 0 /\ Owed' = Owed - 1
  <2>1. Owed = limit - Len(buffer) /\ Owed' = limit - Len(buffer')
    BY <1>1 DEF Owed
  <2>2. Len(buffer') = Len(buffer) + 1
    BY <1>2, <1>4, AppendProperties
  <2>3. Len(buffer) < end
    BY <1>1, <1>4 DEF Full
  <2> QED BY <2>1, <2>2, <2>3, <1>4
<1>6. Produced' = Append(Produced, v)
  <2>1. Produced = output \o buffer /\ Produced' = output \o Append(buffer, v)
    BY <1>1, <1>2 DEF Produced
  <2>2. Append(buffer, v) = buffer \o <<v>> /\ Append(output \o buffer, v) = (output \o buffer) \o <<v>>
    BY <1>4, ConcatProperties, AppendIsConcat
  <2>3. <<v>> \in Seq(Numbers)
    OBVIOUS
  <2>4. (output \o buffer) \o <<v>> = output \o (buffer \o <<v>>)
    BY <2>3, <1>4, ConcatAssociative
  <2> QED BY <2>1, <2>2, <2>4
<1>7. ASSUME NEW x \in Numbers
      PROVE  /\ Held[x] = Stored(x) /\ Stored(x) \in Nat
             /\ Held'[x] = Stored(x) + (IF node[n].number \div 2 = x \div 2 /\ Side(1, x) = f THEN c - node[n][f] ELSE 0)
  <2>1. Held[x] = Stored(x) + (IF phase = "add" /\ number = x THEN 1 ELSE 0) /\ Stored(x) \in Nat
    BY <1>1, HeldIs
  <2>2. Held'[x] = Stored(x)' + (IF phase' = "add" /\ number' = x THEN 1 ELSE 0)
    BY <1>1, HeldNext
  <2>3. Stored(x)' = Stored(x) + IF node[n].number \div 2 = x \div 2 /\ Side(1, x) = f THEN c - node[n][f] ELSE 0
    BY <1>1, <1>2, StoredChanged
  <2>4. PICK s \in Nat, e \in Int :
           s = Stored(x) /\ e = IF node[n].number \div 2 = x \div 2 /\ Side(1, x) = f THEN c - node[n][f] ELSE 0
    BY <2>1, <1>2
  <2>5. Held[x] = s + 0 /\ Held'[x] = (s + e) + 0
    BY <2>1, <2>2, <2>3, <2>4, <1>1
  <2> QED BY <2>4, <2>5
<1>8. \A x \in Numbers : node[n].number \div 2 = x \div 2 /\ Side(1, x) = f <=> x = v
  <2> TAKE x \in Numbers
  <2>1. PICK y \in Nat, z \in Nat : y = x /\ z = v
    BY NumbersAreNat
  <2>2. PICK p \in Nat, a \in {0, 1}, q \in Nat, b \in {0, 1} :
           /\ y = 2 * p + a /\ p = y \div 2 /\ a = y % 2 /\ Side(1, y) = IF a = 1 THEN "hi" ELSE "lo"
           /\ z = 2 * q + b /\ q = z \div 2 /\ b = z % 2 /\ Side(1, z) = IF b = 1 THEN "hi" ELSE "lo"
    BY Halves
  <2>3. Side(1, y) = Side(1, z) <=> a = b
    BY <2>2
  <2>4. p = q /\ a = b <=> y = z
    BY <2>2
  <2> QED BY <2>1, <2>2, <2>3, <2>4, <1>2
<1>9. Held' = [Held EXCEPT ![v] = @ - 1]
  <2>1. c - node[n][f] = -1
    BY <1>2
  <2>2. \A x \in Numbers : Held'[x] = IF x = v THEN Held[x] - 1 ELSE Held[x]
    BY <2>1, <1>7, <1>8
  <2>3. Held = [x \in Numbers |-> Held[x]] /\ Held' = [x \in Numbers |-> Held'[x]]
    BY DEF Held
  <2> QED BY <2>2, <2>3
<1>10. Held[v] > 0
  <2>1. Share(v)[n] <= Stored(v) /\ Share(v)[n] = IF node[n].number \div 2 = v \div 2 THEN node[n][Side(1, v)] ELSE 0
    BY <1>1, <1>3, ContentsAre
  <2>2. Share(v)[n] = c + 1
    BY <2>1, <1>2
  <2> QED BY <2>1, <2>2, <1>7
<1>11. ASSUME NEW x \in Numbers, x < v PROVE Held[x] = 0
  <2>1. IsFiniteSet(Leaves) /\ \A m \in Leaves : m \in DOMAIN node /\ Share(x)[m] \in Nat
        /\ Share(x)[m] = IF node[m].number \div 2 = x \div 2 THEN node[m][Side(1, x)] ELSE 0
    BY <1>1, ContentsAre
  <2>2. PICK y \in Nat, z \in Nat : y = x /\ z = v
    BY NumbersAreNat
  <2>3. PICK p \in Nat, a \in {0, 1}, q \in Nat, b \in {0, 1} :
           /\ y = 2 * p + a /\ p = y \div 2 /\ Side(1, y) = IF a = 1 THEN "hi" ELSE "lo"
           /\ z = 2 * q + b /\ q = z \div 2 /\ Side(1, z) = IF b = 1 THEN "hi" ELSE "lo"
    BY Halves
  <2>4. p <= q /\ (p = q => a = 0 /\ b = 1)
    BY <2>2, <2>3, <1>11
  <2>5. ASSUME NEW m \in Leaves PROVE Share(x)[m] = 0
    <3>1. CASE m = n
      <4>1. p = q => f = "hi" /\ Side(1, x) = "lo"
        BY <2>2, <2>3, <2>4, <1>2
      <4>2. p = q => node[n][Side(1, x)] = 0
        BY <4>1, <1>2
      <4>3. node[n].number \div 2 = x \div 2 => p = q
        BY <2>2, <2>3, <1>2
      <4> QED BY <4>2, <4>3, <3>1, <2>1
    <3>2. CASE m # n
      <4>1. m \in DOMAIN node /\ IsLeaf(m)
        BY DEF Leaves
      <4>2. node[n].number \div 2 < node[m].number \div 2
        BY <4>1, <3>2, <1>1, <1>2, SmallestFirst DEF OrderIInv
      <4>3. q < node[m].number \div 2
        BY <4>2, <2>2, <2>3, <1>2
      <4>4. node[m].number \div 2 # p
        BY <4>3, <2>4
      <4> QED BY <4>4, <2>1, <2>2, <2>3
    <3> QED BY <3>1, <3>2
  <2>6. PICK g, S : g = Share(x) /\ S = Leaves
    OBVIOUS
  <2>7. SumFunctionOnSet(g, S) = 0
    BY <2>1, <2>5, <2>6, SumZero
  <2>8. Stored(x) = 0
    BY <2>6, <2>7 DEF Stored
  <2> QED BY <2>8, <1>7
<1>12. Bag!Deliver(v)
  BY <1>5, <1>6, <1>9, <1>10, <1>11 DEF Bag!Deliver
<1> QED BY <1>12 DEF Bag!Next

(* A branch between changes nothing in the leaves.                         *)
LEMMA BagInjected ==
  ASSUME RadixIInv, RadixIInv', Inject
  PROVE  [Bag!Next]_(Bag!vars)
<1>1. /\ phase = "add" /\ phase' = "add" /\ number' = number /\ Building /\ Building'
      /\ NodesOK /\ NodesOK' /\ TreeOwned /\ RadixShape /\ Adding /\ NodesNeeded
      /\ requests \in 0 .. MaxRequests /\ nptr # NULL /\ Diff # {} /\ output' = output
  BY DEF RadixIInv, RadixTypeOK, Inject, taking, Building
<1>2. Owed' = Owed /\ Produced' = Produced
  BY <1>1 DEF Owed, Produced
<1>3. PICK F \in Nodes : F = Fresh /\ F \notin DOMAIN node /\ F # NULL
  BY <1>1, FreshIsNew
<1>4. parent \in Owners /\ number \in Numbers /\ nptr \in DOMAIN node
  BY <1>1, SubtreeAgrees
<1>5. PICK b : b = Max(Diff)
  OBVIOUS
<1>6. b \in BitPos /\ b # 1
  BY <1>1, <1>5, HighestDiff
<1>7. PICK s \in Fields : s = Side(b, number)
  BY Sides
<1> DEFINE r == [bit_pos |-> b, number |-> number,
                 lo |-> IF s = "lo" THEN NULL ELSE nptr,
                 hi |-> IF s = "hi" THEN NULL ELSE nptr]
<1>8. Link(parent, F, With(F, r, node))
  BY <1>3, <1>5, <1>7 DEF Inject
<1>9. r \in NodeRecords /\ r.bit_pos = b
  <2>1. nptr \in Nat \cup Nodes /\ NULL \in Nat
    BY <1>1, <1>4 DEF NodesOK, NULL
  <2> QED BY <2>1, <1>4, <1>6 DEF NodeRecords
<1> HIDE DEF r
<1>10. /\ DOMAIN node' = DOMAIN node \cup {F}
       /\ \A m \in DOMAIN node :
            /\ node'[m].bit_pos = node[m].bit_pos /\ node'[m].number = node[m].number
            /\ \A f \in Fields : node'[m][f] = IF parent = <<m, f>> THEN F ELSE node[m][f]
       /\ node'[F].bit_pos = r.bit_pos
       /\ \A m \in DOMAIN node : IsLeaf(m)' = IsLeaf(m)
  BY <1>1, <1>3, <1>4, <1>8, <1>9, Hung
<1>11. Leaves' = Leaves
  BY <1>3, <1>6, <1>9, <1>10 DEF Leaves, IsLeaf
<1>12. \A m \in Leaves : /\ node'[m].number = node[m].number
                         /\ \A f \in Fields : node'[m][f] = node[m][f]
  <2>1. \A m \in Leaves, f \in Fields : parent # <<m, f>>
    BY <1>4 DEF Owners, Interior, Leaves, Root
  <2> QED BY <2>1, <1>10 DEF Leaves
<1>13. ASSUME NEW x \in Numbers PROVE Held'[x] = Held[x]
  <2>1. Stored(x)' = Stored(x)
    BY <1>1, <1>11, <1>12, StoredSame
  <2>2. Held[x] = Stored(x) + (IF phase = "add" /\ number = x THEN 1 ELSE 0)
    BY <1>1, HeldIs
  <2>3. Held'[x] = Stored(x)' + (IF phase' = "add" /\ number' = x THEN 1 ELSE 0)
    BY <1>1, HeldNext
  <2> QED BY <2>1, <2>2, <2>3, <1>1
<1> QED BY <1>2, <1>13, HeldFunctions, SameBag

(* Nothing is lost with an empty node.                                     *)
LEMMA BagEmptied ==
  ASSUME RadixIInv, RadixIInv', LeaveNode
  PROVE  [Bag!Next]_(Bag!vars)
<1>1. /\ phase = "take" /\ phase' = "take" /\ calls # <<>> /\ Building /\ Building' /\ RemoveEmpty
      /\ NodesOK /\ NodesOK' /\ TreeOwned /\ RadixShape /\ Path /\ UNCHANGED taking
      /\ (TopCall.stage = "both" \/ TopCall.stage = "leaf")
  BY DEF RadixIInv, RadixTypeOK, LeaveNode, Building
<1>2. Owed' = Owed /\ Produced' = Produced
  BY <1>1 DEF Owed, Produced, taking
<1>3. CASE ~ Hollow(TopCall.nptr)
  <2>1. Held' = Held
    BY <1>1, <1>3, HeldLeft DEF RemoveEmpty
  <2> QED BY <2>1, <1>2, SameBag
<1>4. CASE Hollow(TopCall.nptr)
  <2>1. /\ Len(calls) \in 1 .. Len(calls) /\ TopCall = calls[Len(calls)] /\ TopCall.parent \in Owners
        /\ TopCall.nptr = Deref(TopCall.parent)
    BY <1>1, TopOfPath
  <2>2. TopCall.nptr \in DOMAIN node
    BY <1>1, <2>1 DEF Path, Interior
  <2>3. PICK n \in DOMAIN node, p \in Owners : n = TopCall.nptr /\ p = TopCall.parent
    BY <2>1, <2>2
  <2>4. Hollow(n) /\ Deref(p) = n /\ Link(p, NULL, Without(n))
    BY <1>1, <1>4, <2>1, <2>3 DEF RemoveEmpty
  <2>5. /\ DOMAIN node' = DOMAIN node \ {n}
        /\ p \in Owners'
        /\ \A m \in DOMAIN node' :
             /\ node'[m].bit_pos = node[m].bit_pos /\ node'[m].number = node[m].number
             /\ IsLeaf(m)' = IsLeaf(m)
             /\ \A f \in Fields : node'[m][f] = IF p = <<m, f>> THEN NULL ELSE node[m][f]
    BY <1>1, <2>4, Unhung
  <2>6. Leaves' = Leaves \ {n}
    BY <2>5 DEF Leaves
  <2>7. \A m \in Leaves' : m \in Leaves /\ node'[m].number = node[m].number
                           /\ \A f \in Fields : node'[m][f] = node[m][f]
    <3>1. \A m \in Leaves, f \in Fields : p # <<m, f>>
      BY DEF Owners, Interior, Leaves, Root
    <3> QED BY <3>1, <2>5, <2>6 DEF Leaves
  <2>8. ASSUME NEW x \in Numbers PROVE Held'[x] = Held[x]
    <3>1. Stored(x)' = Stored(x)
      <4>1. CASE n \in Leaves
        BY <4>1, <1>1, <2>4, <2>6, <2>7, StoredRemoved
      <4>2. CASE n \notin Leaves
        <5>1. Leaves' = Leaves
          BY <4>2, <2>6
        <5> QED BY <5>1, <1>1, <2>7, StoredSame
      <4> QED BY <4>1, <4>2
    <3>2. Held[x] = Stored(x) + (IF phase = "add" /\ number = x THEN 1 ELSE 0)
      BY <1>1, HeldIs
    <3>3. Held'[x] = Stored(x)' + (IF phase' = "add" /\ number' = x THEN 1 ELSE 0)
      BY <1>1, HeldNext
    <3> QED BY <3>1, <3>2, <3>3, <1>1
  <2> QED BY <1>2, <2>8, HeldFunctions, SameBag
<1> QED BY <1>3, <1>4

(* What was taken is written, and the request goes on or ends.             *)
LEMMA BagWritten ==
  ASSUME ~ ShortWrites, RadixIInv, OrderIInv, RadixIInv', StartBatch \/ Taken \/ Write \/ Written
  PROVE  [Bag!Next]_(Bag!vars)
<1>1. /\ NodesOK /\ TreeOwned /\ Building /\ Building' /\ UNCHANGED <<tree, node>>
      /\ phase # "add" /\ phase' # "add" /\ phase \in {"batch", "take", "write"}
      /\ phase # "batch" => calls = <<>>
  BY DEF RadixIInv, RadixTypeOK, StartBatch, Taken, Write, Written, Building
<1>2. Held' = Held
  BY <1>1, HeldLeft
<1>3. /\ buffer \in Seq(Numbers) /\ output \in Seq(Numbers) /\ limit \in Nat /\ Len(buffer) \in Nat
      /\ phase # "batch" => end \in 1 .. limit /\ Len(buffer) <= end
      /\ phase = "write" => to_write \in {0, Len(buffer)}
  BY <1>1, LenProperties DEF OrderIInv, Buffered
<1>4. SubSeq(buffer, 1, Len(buffer)) = buffer /\ output \o <<>> = output /\ SubSeq(buffer, Len(buffer) + 1, Len(buffer)) = <<>>
  BY <1>3, SubSeqFull, ConcatEmptySeq, SubSeqEmpty
<1>5. (Len(buffer) - 0) + 1 = Len(buffer) + 1 /\ (Len(buffer) - Len(buffer)) + 1 = 1
  BY <1>3
<1>6. CASE StartBatch
  <2>1. CASE limit > 0
    <3>1. phase = "batch" /\ phase' = "take" /\ buffer' = <<>> /\ UNCHANGED <<limit, output>>
      BY <2>1, <1>6 DEF StartBatch
    <3>2. Len(buffer') = 0
      BY <3>1
    <3>3. Owed' = Owed /\ Produced' = Produced
      BY <3>1, <3>2, <1>3, <1>4 DEF Owed, Produced
    <3> QED BY <3>3, <1>2, SameBag
  <2>2. CASE ~ limit > 0
    <3>1. phase = "batch" /\ phase' = "read" /\ output' = output /\ limit = 0
      BY <2>2, <1>3, <1>6 DEF StartBatch
    <3>2. Owed' = Owed /\ Produced' = Produced
      BY <3>1 DEF Owed, Produced
    <3> QED BY <3>2, <1>2, SameBag
  <2> QED BY <2>1, <2>2
<1>7. CASE Taken
  <2>1. phase = "take" /\ phase' = "write" /\ to_write' = Len(buffer) /\ UNCHANGED <<limit, buffer, output>>
    BY <1>7 DEF Taken
  <2>2. Produced = output \o buffer /\ Produced' = output \o SubSeq(buffer, (Len(buffer) - Len(buffer)) + 1, Len(buffer))
    BY <2>1 DEF Produced
  <2>3. Owed' = Owed
    BY <2>1 DEF Owed
  <2> QED BY <2>2, <2>3, <1>2, <1>4, <1>5, SameBag
<1>8. CASE Write
  <2>1. /\ phase = "write" /\ phase' = "write" /\ to_write' = 0 /\ to_write > 0
        /\ output' = output \o SubSeq(buffer, 1, to_write) /\ UNCHANGED <<limit, buffer>>
    <3>1. PICK n \in {to_write} :
            /\ phase = "write" /\ phase' = "write" /\ to_write' = to_write - n /\ to_write > 0
            /\ output' = output \o SubSeq(buffer, 1, n) /\ UNCHANGED <<limit, buffer>>
      BY <1>8 DEF Write
    <3>2. to_write \in Nat
      BY <3>1, <1>3
    <3> QED BY <3>1, <3>2
  <2>2. to_write = Len(buffer)
    BY <2>1, <1>3
  <2>3. output' = output \o buffer /\ output' \in Seq(Numbers)
    BY <2>1, <2>2, <1>3, <1>4, ConcatProperties
  <2>4. Produced = output \o SubSeq(buffer, (Len(buffer) - Len(buffer)) + 1, Len(buffer))
    BY <2>1, <2>2 DEF Produced
  <2>5. Produced' = output' \o SubSeq(buffer, (Len(buffer) - 0) + 1, Len(buffer))
    BY <2>1 DEF Produced
  <2>6. output' \o <<>> = output'
    BY <2>3, ConcatEmptySeq
  <2>7. Produced' = Produced
    BY <2>3, <2>4, <2>5, <2>6, <1>4, <1>5
  <2>8. Owed' = Owed
    BY <2>1 DEF Owed
  <2> QED BY <2>7, <2>8, <1>2, SameBag
<1>9. CASE Written
  <2>1. /\ phase = "write" /\ to_write = 0 /\ limit' = limit - Len(buffer)
        /\ phase' = IF buffer = <<>> THEN "read" ELSE "batch"
        /\ output' = output
    BY <1>9 DEF Written
  <2>2. Produced = output \o SubSeq(buffer, (Len(buffer) - 0) + 1, Len(buffer)) /\ Produced' = output
    BY <2>1 DEF Produced
  <2>3. Produced' = Produced
    BY <2>2, <1>4, <1>5
  <2>4. CASE buffer # <<>>
    <3>1. Owed' = Owed
      BY <2>1, <2>4 DEF Owed
    <3> QED BY <3>1, <2>3, <1>2, SameBag
  <2>5. CASE buffer = <<>>
    <3>1. Len(buffer) = 0
      BY <2>5
    <3>2. ~ Full
      BY <3>1, <2>1, <1>3 DEF Full
    <3>3. tree = NULL
      BY <3>2, <2>1, <1>1 DEF OrderIInv, Exhausted
    <3>4. DOMAIN node = {}
      BY <3>3, <1>1 DEF OrderIInv, Searched
    <3>5. ASSUME NEW x \in Numbers PROVE Held[x] = 0
      <4>1. IsFiniteSet(Leaves) /\ Leaves = {}
        BY <3>4, <1>1, ContentsAre DEF Leaves
      <4>2. PICK f, S : f = Share(x) /\ S = Leaves
        OBVIOUS
      <4>3. SumFunctionOnSet(f, S) = 0
        BY <4>1, <4>2, SumZero
      <4>4. Stored(x) = 0
        BY <4>2, <4>3 DEF Stored
      <4>5. Held[x] = Stored(x) + (IF phase = "add" /\ number = x THEN 1 ELSE 0)
        BY <1>1, HeldIs
      <4> QED BY <4>4, <4>5, <1>1
    <3>6. Held = [x \in Numbers |-> 0]
      BY <3>5 DEF Held
    <3>7. Owed' = 0
      BY <2>1, <2>5 DEF Owed
    <3> QED BY <3>6, <3>7, <2>3, <1>2 DEF Bag!Next, Bag!RunOut, Bag!Nothing
  <2> QED BY <2>4, <2>5
<1> QED BY <1>6, <1>7, <1>8, <1>9

LEMMA BagStep ==
  ASSUME ~ ShortWrites, RadixIInv, OrderIInv, RadixIInv', OrderIInv', [RadixNext]_radix_vars
  PROVE  [Bag!Next]_(Bag!vars)
<1>1. CASE EndOfInput \/ (Start /\ phase' = "terminated")
  <2>1. phase \in {"read", "start"} /\ phase' \in {"release", "terminated"} /\ output' = output
    BY <1>1 DEF EndOfInput, Start, taking
  <2>2. Owed = 0 /\ Owed' = Owed /\ Produced' = Produced
    BY <2>1 DEF Owed, Produced
  <2>3. Held' = [x \in Numbers |-> 0]
    BY <2>1 DEF Held
  <2> QED BY <2>2, <2>3 DEF Bag!Next, Bag!Close, Bag!Nothing
<1>2. CASE ReadNumber
  BY <1>2, BagRead
<1>3. CASE AddLeaf \/ CountNumber
  BY <1>3, BagAdded
<1>4. CASE Inject
  BY <1>4, BagInjected
<1>5. CASE TakeNumber
  BY <1>5, BagTaken
<1>6. CASE LeaveNode
  BY <1>6, BagEmptied
<1>7. CASE StartBatch \/ Taken \/ Write \/ Written
  BY <1>7, BagWritten
<1>8. CASE (Start /\ phase' = "read") \/ Descend \/ Enter \/ Second
  <2>1. /\ Building /\ Building' /\ UNCHANGED <<tree, node, taking>>
        /\ (phase = "add" \/ phase' = "add") => phase = phase' /\ number' = number
        /\ phase' = phase \/ (phase = "start" /\ phase' = "read")
    BY <1>8 DEF Start, Descend, Enter, Second, Taking, Building
  <2>2. Held' = Held
    BY <2>1, HeldLeft
  <2>3. Owed' = Owed /\ Produced' = Produced
    BY <2>1 DEF Owed, Produced, taking
  <2> QED BY <2>2, <2>3, SameBag
<1>9. CASE ReleaseNode \/ Released
  <2>1. phase \in {"release", "terminated"} /\ phase' \in {"release", "terminated"} /\ output' = output
    BY <1>9 DEF ReleaseNode, Releasing, Released, taking
  <2>2. Held' = Held /\ Owed' = Owed /\ Produced' = Produced
    BY <2>1 DEF Held, Owed, Produced
  <2> QED BY <2>2, SameBag
<1>10. CASE UNCHANGED radix_vars
  <2>1. UNCHANGED <<phase, node, number, limit, buffer, to_write, output>>
    BY <1>10 DEF radix_vars, adding, taking
  <2>2. \A x \in Numbers : Contents(x)' = Contents(x)
    <3> TAKE x \in Numbers
    <3>1. Share(x)' = Share(x)
      BY <2>1 DEF Share, Leaves, IsLeaf
    <3> QED BY <3>1, <2>1 DEF Contents
  <2>3. Held' = Held
    BY <2>1, <2>2 DEF Held
  <2>4. Owed' = Owed /\ Produced' = Produced
    BY <2>1 DEF Owed, Produced
  <2> QED BY <2>3, <2>4, SameBag
<1>11. Start => phase' = "read" \/ phase' = "terminated"
  BY DEF Start
<1> QED BY <1>1, <1>2, <1>3, <1>4, <1>5, <1>6, <1>7, <1>8, <1>9, <1>10, <1>11 DEF RadixNext

(* The program delivers the smallest numbers it holds, in order, each as   *)
(* often as it was given, and fewer than requested only when it has no     *)
(* more (radix.c:163-193): tree, batches and removals amount to a bag, as  *)
(* long as write_int_buffer writes all it is given.                        *)
THEOREM RadixImplements ==
  ASSUME ~ ShortWrites PROVE RadixSpec => ImplementsPriorityBag
<1>1. RadixInit => Bag!Init
  BY BagInitial
<1>2. (RadixIInv /\ OrderIInv) /\ (RadixIInv /\ OrderIInv)' /\ [RadixNext]_radix_vars => [Bag!Next]_(Bag!vars)
  BY BagStep
<1> QED BY <1>1, <1>2, RadixOrder, PTL DEF RadixSpec, ImplementsPriorityBag, Bag!Spec

=============================================================================
