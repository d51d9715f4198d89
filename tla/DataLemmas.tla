----------------------------- MODULE DataLemmas -----------------------------
(***************************************************************************)
(* Division, induction on numbers and on finite sets, the sum of a         *)
(* function over a finite set, powers of two and the bits of integers.     *)
(* The induction theorems of the library are about operators; these are    *)
(* about sets.                                                             *)
(***************************************************************************)
EXTENDS FiniteSetTheorems, TLAPS

(* Division with remainder by a positive number.                           *)
LEMMA DivMod ==
  ASSUME NEW a \in Nat, NEW b \in Nat \ {0}
  PROVE  /\ a \div b \in Nat
         /\ a % b \in 0 .. (b - 1)
         /\ a = b * (a \div b) + (a % b)
  BY SMT

LEMMA DivModUnique ==
  ASSUME NEW b \in Nat \ {0}, NEW q \in Nat, NEW r \in 0 .. (b - 1)
  PROVE  /\ (b * q + r) \div b = q
         /\ (b * q + r) % b = r
  BY SMT

(* Two rounds of division are one division by the product.                 *)
LEMMA DivDiv ==
  ASSUME NEW a \in Nat, NEW b \in Nat \ {0}, NEW c \in Nat \ {0}
  PROVE  a \div (b * c) = (a \div b) \div c
<1>1. PICK q \in Nat, r \in 0 .. (b - 1) : a = b * q + r /\ q = a \div b
  BY DivMod
<1>2. PICK p \in Nat, s \in 0 .. (c - 1) : q = c * p + s /\ p = q \div c
  BY DivMod
<1>3. b * s + r \in 0 .. (b * c - 1)
  <2>1. b * s <= b * (c - 1) /\ b * s >= 0
    BY SMT
  <2>2. b * (c - 1) = b * c - b
    BY SMT
  <2> QED
    BY <2>1, <2>2, SMT
<1>4. PICK m \in Nat \ {0} : m = b * c
  BY SMT
<1>5. PICK t \in 0 .. (m - 1) : t = b * s + r
  BY <1>3, <1>4
<1>6. a = m * p + t
  <2>1. b * q = b * (c * p) + b * s
    BY <1>2, SMT
  <2>2. b * (c * p) = m * p
    BY <1>4, SMT
  <2> QED
    BY <1>1, <1>5, <2>1, <2>2, SMT
<1>7. a \div m = p
  BY <1>6, DivModUnique
<1> QED
  BY <1>1, <1>2, <1>4, <1>7

(* A remainder may be taken before or after an addition.                   *)
LEMMA ModSum ==
  ASSUME NEW x \in Nat, NEW y \in Nat, NEW b \in Nat \ {0}
  PROVE  ((x % b) + (y % b)) % b = (x + y) % b
<1>1. PICK q \in Nat, r \in 0 .. (b - 1) : x = b * q + r /\ r = x % b
  BY DivMod
<1>2. PICK p \in Nat, s \in 0 .. (b - 1) : y = b * p + s /\ s = y % b
  BY DivMod
<1>3. r + s \in Nat
  OBVIOUS
<1>4. PICK n \in Nat, t \in 0 .. (b - 1) : r + s = b * n + t /\ t = (r + s) % b
  BY <1>3, DivMod
<1>5. PICK k \in Nat : k = (q + p) + n
  OBVIOUS
<1>6. x + y = b * k + t
  <2>1. b * k = (b * q + b * p) + b * n
    BY <1>5, SMT
  <2>2. b * q \in Nat /\ b * p \in Nat /\ b * n \in Nat /\ b * k \in Nat
    BY SMT
  <2> QED
    BY <1>1, <1>2, <1>4, <2>1, <2>2
<1>7. (x + y) % b = t
  BY <1>6, DivModUnique
<1> QED
  BY <1>1, <1>2, <1>4, <1>7

-----------------------------------------------------------------------------
(* Induction, on a set of numbers and on the subsets of a finite set.      *)
LEMMA NatInd ==
  ASSUME NEW S, 0 \in S, \A n \in Nat : n \in S => n + 1 \in S
  PROVE  Nat \subseteq S
<1> DEFINE T == {n \in Nat : n \notin S}
           R == OpToRel(<, Nat)
<1>1. \A x, y \in Nat : <<y, x>> \in R <=> y < x
  BY DEF OpToRel
<1> HIDE DEF R
<1>2. SUFFICES ASSUME T # {} PROVE FALSE
  OBVIOUS
<1>3. PICK x \in T : \A y \in T : ~ (<<y, x>> \in R)
  BY <1>2, NatLessThanWellFounded, WFMin DEF R
<1>4. x # 0 /\ x \in Nat
  OBVIOUS
<1>5. x - 1 \in Nat /\ x - 1 < x /\ (x - 1) + 1 = x
  BY <1>4
<1>6. x - 1 \in S
  BY <1>1, <1>3, <1>5
<1> QED
  BY <1>5, <1>6

LEMMA LeastOfSet ==
  ASSUME NEW S \in SUBSET Nat, S # {}
  PROVE  \E x \in S : \A y \in S : x <= y
<1> DEFINE R == OpToRel(<, Nat)
<1>1. \A x, y \in Nat : <<y, x>> \in R <=> y < x
  BY DEF OpToRel
<1> HIDE DEF R
<1>2. PICK x \in S : \A y \in S : ~ (<<y, x>> \in R)
  BY NatLessThanWellFounded, WFMin DEF R
<1>3. \A y \in S : ~ (y < x)
  BY <1>1, <1>2
<1> QED
  BY <1>2, <1>3

LEMMA SubsetInd ==
  ASSUME NEW S, IsFiniteSet(S), NEW A,
         \A s \in SUBSET S : (\A x \in s : s \ {x} \in A) => s \in A
  PROVE  SUBSET S \subseteq A
<1> DEFINE T == {s \in SUBSET S : s \notin A}
           R == StrictSubsetOrdering(S)
<1>1. SUFFICES ASSUME T # {} PROVE FALSE
  OBVIOUS
<1>2. T \subseteq FiniteSubsetsOf(S)
  BY FS_Subset DEF FiniteSubsetsOf
<1>3. \A s, t \in SUBSET S : s \subseteq t /\ s # t => <<s, t>> \in R
  BY DEF StrictSubsetOrdering
<1> HIDE DEF R
<1>4. PICK s \in T : \A t \in T : ~ (<<t, s>> \in R)
  BY <1>1, <1>2, FS_StrictSubsetOrderingWellFounded, WFMin DEF R
<1>5. PICK x \in s : s \ {x} \notin A
  OBVIOUS
<1>6. s \ {x} \in T /\ s \ {x} \subseteq s /\ s \ {x} # s /\ s \in SUBSET S /\ s \ {x} \in SUBSET S
  BY <1>5
<1> QED
  BY <1>3, <1>4, <1>6

-----------------------------------------------------------------------------
(* The sum of a function over a finite set.                                *)
Picked(s) == CHOOSE x \in s : TRUE

IsSum(g, f, S) ==
  g = [s \in SUBSET S |-> IF s = {} THEN 0 ELSE f[Picked(s)] + g[s \ {Picked(s)}]]

LEMMA SumDef ==
  ASSUME NEW f, NEW S
  PROVE  SumFunctionOnSet(f, S) = (CHOOSE g : IsSum(g, f, S))[S]
  BY DEF SumFunctionOnSet, FoldFunctionOnSet, MapThenFoldSet, IsSum, Picked

(* The recursive function that the sum is defined with exists.             *)
LEMMA SumExists ==
  ASSUME NEW f, NEW S, IsFiniteSet(S)
  PROVE  IsSum(CHOOSE g : IsSum(g, f, S), f, S)
<1> DEFINE Body(g, s) == IF s = {} THEN 0 ELSE f[Picked(s)] + g[s \ {Picked(s)}]
           Upto(g, n) == \A s \in SUBSET S : Cardinality(s) <= n => g[s] = Body(g, s)
           N == {n \in Nat : \E g : Upto(g, n)}
<1>1. \A s \in SUBSET S : /\ IsFiniteSet(s) /\ Cardinality(s) \in Nat
                          /\ Cardinality(s) = 0 => s = {}
                          /\ Cardinality(s) <= Cardinality(S)
  BY FS_Subset, FS_CardinalityType, FS_EmptySet
<1>2. \A s \in SUBSET S : s # {} => /\ s \ {Picked(s)} \in SUBSET S
                                    /\ Cardinality(s \ {Picked(s)}) = Cardinality(s) - 1
  BY <1>1, FS_RemoveElement DEF Picked
<1> HIDE DEF Picked
<1>3. 0 \in N
  <2>1. Upto([s \in SUBSET S |-> 0], 0)
    BY <1>1
  <2> QED
    BY <2>1
<1>4. ASSUME NEW n \in Nat, n \in N PROVE n + 1 \in N
  <2>1. PICK g : Upto(g, n)
    BY <1>4
  <2> DEFINE h == [s \in SUBSET S |-> Body(g, s)]
  <2>2. ASSUME NEW s \in SUBSET S, Cardinality(s) <= n + 1
        PROVE  h[s] = Body(h, s)
    <3>1. CASE s = {}
      BY <3>1
    <3>2. CASE s # {}
      <4> DEFINE t == s \ {Picked(s)}
      <4>1. t \in SUBSET S /\ Cardinality(t) = Cardinality(s) - 1
        BY <1>2, <3>2
      <4>2. Cardinality(t) <= n
        BY <1>1, <2>2, <4>1
      <4> HIDE DEF t
      <4>3. g[t] = h[t]
        BY <2>1, <4>1, <4>2
      <4> QED
        BY <3>2, <4>3 DEF t
    <3> QED
      BY <3>1, <3>2
  <2>3. Upto(h, n + 1)
    BY <2>2
  <2> HIDE DEF Upto, h
  <2> QED
    BY <2>3
<1>5. Cardinality(S) \in N
  <2>1. Nat \subseteq N
    <3> HIDE DEF N
    <3> QED
      BY <1>3, <1>4, NatInd
  <2>2. Cardinality(S) \in Nat
    BY <1>1
  <2> QED
    BY <2>1, <2>2
<1>6. PICK g : Upto(g, Cardinality(S))
  BY <1>5
<1> DEFINE h == [s \in SUBSET S |-> g[s]]
<1>7. IsSum(h, f, S)
  <2>1. \A s \in SUBSET S : h[s] = Body(h, s)
    BY <1>1, <1>2, <1>6
  <2>2. h = [s \in SUBSET S |-> Body(h, s)]
    BY <2>1
  <2> QED
    BY <2>2 DEF IsSum
<1> QED
  BY <1>7

(* It does not depend on the set that is summed over.                      *)
LEMMA SumUnique ==
  ASSUME NEW f, NEW S, NEW T \in SUBSET S, IsFiniteSet(S),
         NEW g, NEW h, IsSum(g, f, S), IsSum(h, f, T)
  PROVE  g[T] = h[T]
<1> DEFINE A == {s \in SUBSET T : g[s] = h[s]}
<1>1. IsFiniteSet(T)
  BY FS_Subset
<1>2. ASSUME NEW s \in SUBSET T, \A x \in s : s \ {x} \in A
      PROVE  s \in A
  <2>1. /\ g[s] = IF s = {} THEN 0 ELSE f[Picked(s)] + g[s \ {Picked(s)}]
        /\ h[s] = IF s = {} THEN 0 ELSE f[Picked(s)] + h[s \ {Picked(s)}]
    BY DEF IsSum
  <2>2. s # {} => Picked(s) \in s
    BY DEF Picked
  <2>3. s # {} => g[s \ {Picked(s)}] = h[s \ {Picked(s)}]
    BY <1>2, <2>2
  <2> QED
    BY <2>1, <2>3
<1> HIDE DEF A
<1>3. SUBSET T \subseteq A
  BY <1>1, <1>2, SubsetInd
<1> QED
  BY <1>3 DEF A

LEMMA SumStep ==
  ASSUME NEW f, NEW S, IsFiniteSet(S)
  PROVE  /\ S = {} => SumFunctionOnSet(f, S) = 0
         /\ S # {} => /\ Picked(S) \in S
                      /\ SumFunctionOnSet(f, S)
                           = f[Picked(S)] + SumFunctionOnSet(f, S \ {Picked(S)})
<1> DEFINE g == CHOOSE k : IsSum(k, f, S)
           T == S \ {Picked(S)}
           h == CHOOSE k : IsSum(k, f, T)
<1>1. IsSum(g, f, S) /\ SumFunctionOnSet(f, S) = g[S]
  BY SumExists, SumDef
<1>2. IsFiniteSet(T) /\ T \in SUBSET S
  BY FS_RemoveElement
<1>3. IsSum(h, f, T) /\ SumFunctionOnSet(f, T) = h[T]
  BY <1>2, SumExists, SumDef
<1> HIDE DEF g, h
<1>4. g[T] = h[T]
  BY <1>1, <1>2, <1>3, SumUnique
<1>5. g[S] = IF S = {} THEN 0 ELSE f[Picked(S)] + g[T]
  BY <1>1 DEF IsSum
<1>6. S # {} => Picked(S) \in S
  BY DEF Picked
<1> QED
  BY <1>1, <1>3, <1>4, <1>5, <1>6

(* Any element may be added last.                                          *)
LEMMA SumFacts ==
  ASSUME NEW f, NEW S, IsFiniteSet(S), \A x \in S : f[x] \in Int
  PROVE  /\ SumFunctionOnSet(f, S) \in Int
         /\ S = {} => SumFunctionOnSet(f, S) = 0
         /\ \A x \in S : SumFunctionOnSet(f, S) = f[x] + SumFunctionOnSet(f, S \ {x})
<1> DEFINE Sum(s) == SumFunctionOnSet(f, s)
           I == {s \in SUBSET S : Sum(s) \in Int}
           A == {s \in SUBSET S : \A x \in s : Sum(s) = f[x] + Sum(s \ {x})}
<1> HIDE DEF Sum
<1>1. ASSUME NEW s \in SUBSET S
      PROVE  /\ s = {} => Sum(s) = 0
             /\ s # {} => Picked(s) \in s /\ Sum(s) = f[Picked(s)] + Sum(s \ {Picked(s)})
  BY FS_Subset, SumStep DEF Sum
<1>2. SUBSET S \subseteq I
  <2>1. ASSUME NEW s \in SUBSET S, \A x \in s : s \ {x} \in I
        PROVE  s \in I
    <3>1. CASE s = {}
      <4>1. Sum(s) = 0
        BY <1>1, <3>1
      <4> QED
        BY <4>1
    <3>2. CASE s # {}
      <4>1. /\ f[Picked(s)] \in Int /\ Sum(s \ {Picked(s)}) \in Int
            /\ Sum(s) = f[Picked(s)] + Sum(s \ {Picked(s)})
        BY <1>1, <2>1, <3>2
      <4>2. Sum(s) \in Int
        BY <4>1
      <4> QED
        BY <4>2
    <3> QED
      BY <3>1, <3>2
  <2> HIDE DEF I
  <2> QED
    BY <2>1, SubsetInd
<1>3. ASSUME NEW s \in SUBSET S, \A x \in s : s \ {x} \in A
      PROVE  s \in A
  <2> SUFFICES ASSUME NEW x \in s PROVE Sum(s) = f[x] + Sum(s \ {x})
    OBVIOUS
  <2> DEFINE c == Picked(s)
  <2>1. c \in s /\ Sum(s) = f[c] + Sum(s \ {c})
    BY <1>1
  <2> HIDE DEF c
  <2>2. CASE x = c
    BY <2>1, <2>2
  <2>3. CASE x # c
    <3>1. x \in s \ {c} /\ s \ {c} \in A /\ c \in s \ {x} /\ s \ {x} \in A
      BY <1>3, <2>1, <2>3
    <3>2. /\ Sum(s \ {c}) = f[x] + Sum((s \ {c}) \ {x})
          /\ Sum(s \ {x}) = f[c] + Sum((s \ {x}) \ {c})
      BY <3>1
    <3>3. (s \ {c}) \ {x} = (s \ {x}) \ {c} /\ (s \ {x}) \ {c} \in SUBSET S
      OBVIOUS
    <3> DEFINE y == Sum((s \ {x}) \ {c})
    <3>4. y \in Int /\ f[x] \in Int /\ f[c] \in Int
      BY <1>2, <2>1, <3>3
    <3>5. Sum(s \ {c}) = f[x] + y /\ Sum(s \ {x}) = f[c] + y
      BY <3>2, <3>3
    <3> HIDE DEF y
    <3>6. f[c] + (f[x] + y) = f[x] + (f[c] + y)
      BY <3>4
    <3> QED
      BY <2>1, <3>5, <3>6
  <2> QED
    BY <2>2, <2>3
<1> HIDE DEF A
<1>4. SUBSET S \subseteq A
  BY <1>3, SubsetInd
<1>5. S \in A /\ S \in I
  BY <1>2, <1>4
<1> QED
  BY <1>1, <1>5 DEF A, Sum

LEMMA SumCongruence ==
  ASSUME NEW f, NEW g, NEW S, IsFiniteSet(S), \A x \in S : f[x] \in Int /\ f[x] = g[x]
  PROVE  SumFunctionOnSet(f, S) = SumFunctionOnSet(g, S)
<1> DEFINE A == {s \in SUBSET S : SumFunctionOnSet(f, s) = SumFunctionOnSet(g, s)}
<1>1. ASSUME NEW s \in SUBSET S, \A x \in s : s \ {x} \in A
      PROVE  s \in A
  <2>1. IsFiniteSet(s)
    BY FS_Subset
  <2>2. /\ s = {} => SumFunctionOnSet(f, s) = 0 /\ SumFunctionOnSet(g, s) = 0
        /\ \A x \in s : /\ SumFunctionOnSet(f, s) = f[x] + SumFunctionOnSet(f, s \ {x})
                        /\ SumFunctionOnSet(g, s) = g[x] + SumFunctionOnSet(g, s \ {x})
    BY <2>1, SumFacts
  <2>3. CASE s = {}
    BY <2>2, <2>3
  <2>4. CASE s # {}
    <3>1. PICK x \in s : TRUE
      BY <2>4
    <3>2. SumFunctionOnSet(f, s \ {x}) = SumFunctionOnSet(g, s \ {x}) /\ f[x] = g[x]
      BY <1>1
    <3> QED
      BY <2>2, <3>2
  <2> QED
    BY <2>3, <2>4
<1> HIDE DEF A
<1>2. SUBSET S \subseteq A
  BY <1>1, SubsetInd
<1> QED
  BY <1>2 DEF A

(* A sum of no more than nothing outside T and of no more than g on T is   *)
(* no more than the sum of g on T.                                         *)
LEMMA SumBounded ==
  ASSUME NEW f, NEW g, NEW S, NEW T \in SUBSET S, IsFiniteSet(S),
         \A x \in S : f[x] \in Int /\ (x \notin T => f[x] <= 0),
         \A x \in T : g[x] \in Int /\ f[x] <= g[x]
  PROVE  SumFunctionOnSet(f, S) <= SumFunctionOnSet(g, T)
<1> DEFINE F(s) == SumFunctionOnSet(f, s)
           G(s) == SumFunctionOnSet(g, s \cap T)
           A == {s \in SUBSET S : F(s) <= G(s)}
<1>1. ASSUME NEW s \in SUBSET S
      PROVE  /\ F(s) \in Int /\ G(s) \in Int
             /\ s = {} => F(s) = 0 /\ G(s) = 0
             /\ \A x \in s : F(s) = f[x] + F(s \ {x})
             /\ \A x \in s \cap T : G(s) = g[x] + G(s \ {x})
             /\ \A x \in s \ T : G(s) = G(s \ {x})
  <2>1. IsFiniteSet(s) /\ IsFiniteSet(s \cap T)
    BY FS_Subset
  <2>2. \A x \in s : (s \cap T) \ {x} = (s \ {x}) \cap T
    OBVIOUS
  <2>3. \A x \in s \ T : (s \ {x}) \cap T = s \cap T
    OBVIOUS
  <2>4. /\ F(s) \in Int /\ (s = {} => F(s) = 0)
        /\ \A x \in s : F(s) = f[x] + F(s \ {x})
    BY <2>1, SumFacts
  <2>5. /\ G(s) \in Int /\ (s = {} => G(s) = 0)
        /\ \A x \in s \cap T : G(s) = g[x] + SumFunctionOnSet(g, (s \cap T) \ {x})
    BY <2>1, SumFacts
  <2> QED
    BY <2>2, <2>3, <2>4, <2>5
<1> HIDE DEF F, G
<1>2. ASSUME NEW s \in SUBSET S, \A x \in s : s \ {x} \in A
      PROVE  s \in A
  <2>1. CASE s = {}
    BY <1>1, <2>1
  <2>2. CASE s # {}
    <3>1. PICK x \in s : TRUE
      BY <2>2
    <3>2. s \ {x} \in SUBSET S /\ F(s \ {x}) <= G(s \ {x})
      BY <1>2
    <3>3. F(s \ {x}) \in Int /\ G(s \ {x}) \in Int /\ F(s) = f[x] + F(s \ {x})
      BY <1>1, <3>2
    <3>4. G(s) = IF x \in T THEN g[x] + G(s \ {x}) ELSE G(s \ {x})
      BY <1>1
    <3>5. /\ f[x] \in Int /\ (x \in T => g[x] \in Int /\ f[x] <= g[x])
          /\ x \notin T => f[x] <= 0
      OBVIOUS
    <3> QED
      BY <3>2, <3>3, <3>4, <3>5
  <2> QED
    BY <2>1, <2>2
<1>3. SUBSET S \subseteq A
  <2> HIDE DEF A
  <2> QED
    BY <1>2, SubsetInd
<1>4. F(S) <= G(S) /\ S \cap T = T
  BY <1>3
<1> QED
  BY <1>4 DEF F, G

LEMMA SumZero ==
  ASSUME NEW f, NEW S, IsFiniteSet(S), \A x \in S : f[x] = 0
  PROVE  SumFunctionOnSet(f, S) = 0
<1> DEFINE A == {s \in SUBSET S : SumFunctionOnSet(f, s) = 0}
<1>1. ASSUME NEW s \in SUBSET S, \A x \in s : s \ {x} \in A
      PROVE  s \in A
  <2>1. IsFiniteSet(s) /\ \A x \in s : f[x] \in Int
    BY FS_Subset
  <2>2. /\ s = {} => SumFunctionOnSet(f, s) = 0
        /\ \A x \in s : SumFunctionOnSet(f, s) = f[x] + SumFunctionOnSet(f, s \ {x})
    BY <2>1, SumFacts
  <2>3. \A x \in s : SumFunctionOnSet(f, s \ {x}) = 0 /\ f[x] = 0
    BY <1>1
  <2>4. CASE s = {}
    BY <2>2, <2>4
  <2>5. CASE s # {}
    <3>1. PICK x \in s : TRUE
      BY <2>5
    <3>2. SumFunctionOnSet(f, s) = 0 + 0
      BY <2>2, <2>3, <3>1
    <3> QED
      BY <3>2
  <2> QED
    BY <2>4, <2>5
<1> HIDE DEF A
<1>2. SUBSET S \subseteq A
  BY <1>1, SubsetInd
<1> QED
  BY <1>2 DEF A

(* A sum changes as its one term that changes.                             *)
LEMMA SumChanged ==
  ASSUME NEW f, NEW g, NEW S, IsFiniteSet(S), NEW e \in S,
         \A x \in S : f[x] \in Int, g[e] \in Int, \A x \in S \ {e} : g[x] = f[x]
  PROVE  SumFunctionOnSet(g, S) = (SumFunctionOnSet(f, S) - f[e]) + g[e]
<1>1. IsFiniteSet(S \ {e}) /\ \A x \in S : g[x] \in Int
  BY FS_RemoveElement
<1>2. /\ SumFunctionOnSet(g, S) = g[e] + SumFunctionOnSet(g, S \ {e})
      /\ SumFunctionOnSet(f, S) = f[e] + SumFunctionOnSet(f, S \ {e})
  BY <1>1, SumFacts
<1>3. SumFunctionOnSet(g, S \ {e}) = SumFunctionOnSet(f, S \ {e})
  BY <1>1, SumCongruence
<1>4. SumFunctionOnSet(f, S \ {e}) \in Int
  BY <1>1, SumFacts
<1> QED
  BY <1>2, <1>3, <1>4

-----------------------------------------------------------------------------
(* Powers of two.                                                          *)
LEMMA Powers ==
  ASSUME NEW n \in Nat
  PROVE  2^n \in Nat \ {0} /\ 2^(n + 1) = 2 * 2^n
<1> DEFINE S == 1 .. n
           T == 1 .. (n + 1)
           U == {s \cup {n + 1} : s \in SUBSET S}
           b == [s \in SUBSET S |-> s \cup {n + 1}]
<1>1. /\ IsFiniteSet(S) /\ Cardinality(S) = n
      /\ IsFiniteSet(T) /\ Cardinality(T) = n + 1
  BY FS_Interval
<1>2. /\ IsFiniteSet(SUBSET S) /\ Cardinality(SUBSET S) = 2^n
      /\ IsFiniteSet(SUBSET T) /\ Cardinality(SUBSET T) = 2^(n + 1)
  BY <1>1, FS_SUBSET
<1>3. n + 1 \notin S /\ T = S \cup {n + 1}
  OBVIOUS
<1> HIDE DEF S, T
<1>4. ExistsBijection(SUBSET S, U)
  <2>1. b \in Bijection(SUBSET S, U)
    <3>1. \A s, t \in SUBSET S : s \cup {n + 1} = t \cup {n + 1} => s = t
      <4> SUFFICES ASSUME NEW s \in SUBSET S, NEW t \in SUBSET S,
                          s \cup {n + 1} = t \cup {n + 1}
                   PROVE  s = t
        OBVIOUS
      <4>1. s = (s \cup {n + 1}) \ {n + 1} /\ t = (t \cup {n + 1}) \ {n + 1}
        BY <1>3
      <4> QED
        BY <4>1
    <3>2. b \in [SUBSET S -> U] /\ \A u \in U : \E s \in SUBSET S : b[s] = u
      OBVIOUS
    <3>3. IsInjective(b)
      BY <3>1 DEF IsInjective
    <3> HIDE DEF b, U
    <3> QED
      BY <3>2, <3>3 DEF Bijection, Injection, Surjection
  <2> QED
    BY <2>1 DEF ExistsBijection
<1>5. IsFiniteSet(U) /\ Cardinality(U) = 2^n
  BY <1>2, <1>4, FS_Bijection
<1>6. SUBSET T = (SUBSET S) \cup U
  <2>1. ASSUME NEW t \in SUBSET T PROVE t \in (SUBSET S) \cup U
    <3>1. CASE n + 1 \notin t
      BY <1>3, <3>1
    <3>2. CASE n + 1 \in t
      <4>1. t = (t \ {n + 1}) \cup {n + 1} /\ t \ {n + 1} \in SUBSET S
        BY <1>3, <3>2
      <4> QED
        BY <4>1
    <3> QED
      BY <3>1, <3>2
  <2>2. \A t \in (SUBSET S) \cup U : t \in SUBSET T
    BY <1>3
  <2> QED
    BY <2>1, <2>2
<1>7. (SUBSET S) \cap U = {}
  BY <1>3
<1> HIDE DEF U
<1>8. Cardinality((SUBSET S) \cup U) = 2^n + 2^n - 0
  <2>1. Cardinality((SUBSET S) \cap U) = 0
    BY <1>7, FS_EmptySet
  <2>2. Cardinality((SUBSET S) \cup U)
          = Cardinality(SUBSET S) + Cardinality(U) - Cardinality((SUBSET S) \cap U)
    BY <1>2, <1>5, FS_Union
  <2> QED
    BY <1>2, <1>5, <2>1, <2>2
<1>9. 2^n \in Nat /\ 2^n # 0
  <2>1. SUBSET S # {}
    OBVIOUS
  <2> QED
    BY <1>2, <2>1, FS_CardinalityType, FS_EmptySet
<1>10. 2^(n + 1) = 2^n + 2^n - 0
  BY <1>2, <1>6, <1>8
<1> QED
  BY <1>9, <1>10


(* Different powers of two below 2^n sum up to less than 2^n.              *)
LEMMA SumOfPowers ==
  ASSUME NEW n \in Nat, NEW S \in SUBSET (0 .. (n - 1))
  PROVE  SumFunction([i \in S |-> 2^i]) \in 0 .. (2^n - 1)
<1> DEFINE p == [i \in Nat |-> 2^i]
           Below(k) == \A s \in SUBSET (0 .. (k - 1)) : SumFunctionOnSet(p, s) \in 0 .. (2^k - 1)
           N == {k \in Nat : Below(k)}
<1>1. \A i \in Nat : p[i] = 2^i /\ 2^i \in Nat \ {0} /\ 2^(i + 1) = 2 * 2^i
  BY Powers
<1>2. ASSUME NEW k \in Nat, NEW s \in SUBSET (0 .. (k - 1))
      PROVE  IsFiniteSet(s) /\ \A x \in s : x \in Nat /\ p[x] \in Int
  <2>1. IsFiniteSet(0 .. (k - 1))
    BY FS_Interval
  <2>2. IsFiniteSet(s)
    BY <2>1, FS_Subset
  <2>3. \A x \in s : x \in Nat
    OBVIOUS
  <2> HIDE DEF p
  <2> QED
    BY <1>1, <2>2, <2>3
<1> HIDE DEF p
<1>3. 0 \in N
  <2>1. \A s \in SUBSET (0 .. (0 - 1)) : s = {}
    OBVIOUS
  <2>2. SumFunctionOnSet(p, {}) = 0
    BY SumFacts, FS_EmptySet
  <2>3. 0 \in 0 .. (2^0 - 1)
    <3>1. 2^0 \in Nat \ {0}
      BY <1>1
    <3> QED
      BY <3>1
  <2> QED
    BY <2>1, <2>2, <2>3
<1>4. ASSUME NEW k \in Nat, k \in N PROVE k + 1 \in N
  <2>1. ASSUME NEW s \in SUBSET (0 .. ((k + 1) - 1))
        PROVE  SumFunctionOnSet(p, s) \in 0 .. (2^(k + 1) - 1)
    <3> DEFINE t == s \ {k}
    <3>1. t \in SUBSET (0 .. (k - 1))
      OBVIOUS
    <3>2. SumFunctionOnSet(p, t) \in 0 .. (2^k - 1)
      BY <1>4, <3>1
    <3>3. 2^(k + 1) = 2 * 2^k /\ 2^k \in Nat
      BY <1>1
    <3>4. CASE k \in s
      <4>1. SumFunctionOnSet(p, s) = 2^k + SumFunctionOnSet(p, t)
        <5>1. IsFiniteSet(s) /\ \A x \in s : p[x] \in Int
          BY <1>2
        <5>2. SumFunctionOnSet(p, s) = p[k] + SumFunctionOnSet(p, s \ {k})
          BY <3>4, <5>1, SumFacts
        <5> QED
          BY <1>1, <5>2
      <4> HIDE DEF t
      <4> QED
        BY <3>2, <3>3, <4>1
    <3>5. CASE k \notin s
      <4>1. t = s
        BY <3>5
      <4>2. SumFunctionOnSet(p, s) \in 0 .. (2^k - 1)
        BY <3>2, <4>1
      <4> HIDE DEF t
      <4> QED
        BY <3>3, <4>2
    <3> QED
      BY <3>4, <3>5
  <2> QED
    BY <2>1
<1>5. Below(n)
  <2> HIDE DEF N
  <2>1. Nat \subseteq N
    BY <1>3, <1>4, NatInd
  <2> QED
    BY <2>1 DEF N
<1>6. SumFunctionOnSet([i \in S |-> 2^i], S) = SumFunctionOnSet(p, S)
  <2> DEFINE f == [i \in S |-> 2^i]
  <2>1. IsFiniteSet(S) /\ \A x \in S : f[x] \in Int /\ f[x] = p[x]
    BY <1>1, <1>2
  <2> HIDE DEF f
  <2>2. SumFunctionOnSet(f, S) = SumFunctionOnSet(p, S)
    BY <2>1, SumCongruence
  <2> QED
    BY <2>2 DEF f
<1> QED
  BY <1>5, <1>6 DEF SumFunction

-----------------------------------------------------------------------------
(* Division of any integer.                                                *)
LEMMA IntDivMod ==
  ASSUME NEW a \in Int, NEW b \in Nat \ {0}
  PROVE  /\ a \div b \in Int
         /\ a % b \in 0 .. (b - 1)
         /\ a = b * (a \div b) + (a % b)
  BY SMT

LEMMA IntDivModUnique ==
  ASSUME NEW b \in Nat \ {0}, NEW q \in Int, NEW r \in 0 .. (b - 1)
  PROVE  /\ (b * q + r) \div b = q
         /\ (b * q + r) % b = r
  BY SMT

LEMMA IntDivDiv ==
  ASSUME NEW a \in Int, NEW b \in Nat \ {0}, NEW c \in Nat \ {0}
  PROVE  a \div (b * c) = (a \div b) \div c
<1>1. PICK q \in Int, r \in 0 .. (b - 1) : a = b * q + r /\ q = a \div b
  BY IntDivMod
<1>2. PICK p \in Int, s \in 0 .. (c - 1) : q = c * p + s /\ p = q \div c
  BY IntDivMod
<1>3. b * s + r \in 0 .. (b * c - 1)
  <2>1. b * s <= b * (c - 1) /\ b * s >= 0
    BY SMT
  <2>2. b * (c - 1) = b * c - b
    BY SMT
  <2> QED
    BY <2>1, <2>2, SMT
<1>4. PICK m \in Nat \ {0} : m = b * c
  BY SMT
<1>5. PICK t \in 0 .. (m - 1) : t = b * s + r
  BY <1>3, <1>4
<1>6. a = m * p + t
  <2>1. b * q = b * (c * p) + b * s
    BY <1>2, SMT
  <2>2. b * (c * p) = m * p
    BY <1>4, SMT
  <2> QED
    BY <1>1, <1>5, <2>1, <2>2, SMT
<1>7. a \div m = p
  BY <1>6, IntDivModUnique
<1> QED
  BY <1>1, <1>2, <1>4, <1>7

(* Multiples of the divisor come out of a division.                        *)
LEMMA DivPlus ==
  ASSUME NEW a \in Int, NEW k \in Int, NEW b \in Nat \ {0}
  PROVE  (a + b * k) \div b = (a \div b) + k /\ (a + b * k) % b = a % b
<1>1. PICK q \in Int, r \in 0 .. (b - 1) : a = b * q + r /\ q = a \div b /\ r = a % b
  BY IntDivMod
<1>2. PICK p \in Int : p = q + k
  OBVIOUS
<1>3. a + b * k = b * p + r
  <2>1. b * p = b * q + b * k /\ b * q \in Int /\ b * k \in Int
    BY <1>2, SMT
  <2> QED
    BY <1>1, <2>1
<1>4. (b * p + r) \div b = p /\ (b * p + r) % b = r
  BY IntDivModUnique
<1> QED
  BY <1>1, <1>2, <1>3, <1>4

(* Adding a multiple of m changes no remainder.                            *)
LEMMA ModPlus ==
  ASSUME NEW m \in Nat \ {0}, NEW u \in Int, NEW v \in Int, NEW c \in Int, NEW k \in Int,
         c = m * k, u = v + c
  PROVE  u % m = v % m
  BY DivPlus

(* A quotient near zero, and a product near zero.                          *)
LEMMA SmallDiv ==
  ASSUME NEW p \in Nat \ {0}, NEW v \in (-p) .. (p - 1)
  PROVE  (v \div p) % 2 = IF v < 0 THEN 1 ELSE 0
<1>1. v \div p = IF v < 0 THEN -1 ELSE 0
  BY SMT
<1> QED
  BY <1>1

LEMMA SmallMultiple ==
  ASSUME NEW d \in Int, NEW n \in Nat \ {0}, -n < d * n, d * n < n
  PROVE  d = 0
<1>1. d >= 1 => d * n >= n
  BY SMT
<1>2. d <= -1 => d * n <= -n
  BY SMT
<1> QED
  BY <1>1, <1>2

LEMMA SignOfRest ==
  ASSUME NEW r \in Int, NEW a \in Int, r * a >= 0
  PROVE  (a > 0 => r >= 0) /\ (a < 0 => r <= 0)
<1>1. a > 0 /\ r < 0 => r * a < 0
  BY SMT
<1>2. a < 0 /\ r > 0 => r * a < 0
  BY SMT
<1> QED
  BY <1>1, <1>2

LEMMA PowerSum ==
  ASSUME NEW m \in Nat, NEW n \in Nat
  PROVE  2^(m + n) = 2^m * 2^n
<1> DEFINE N == {k \in Nat : 2^(m + k) = 2^m * 2^k}
<1>1. 2^0 = 1
  OBVIOUS
<1>2. 0 \in N
  <2>1. 2^m \in Nat
    BY Powers
  <2> QED
    BY <1>1, <2>1
<1>3. \A k \in Nat : k \in N => k + 1 \in N
  <2> SUFFICES ASSUME NEW k \in Nat, 2^(m + k) = 2^m * 2^k
               PROVE  2^(m + (k + 1)) = 2^m * 2^(k + 1)
    OBVIOUS
  <2>1. /\ 2^(m + (k + 1)) = 2 * 2^(m + k) /\ 2^(k + 1) = 2 * 2^k
        /\ 2^m \in Nat /\ 2^k \in Nat
    <3>1. m + (k + 1) = (m + k) + 1 /\ m + k \in Nat
      OBVIOUS
    <3> QED
      BY <3>1, Powers
  <2>2. \A x, y \in Nat : 2 * (x * y) = x * (2 * y)
    BY SMT
  <2> QED
    BY <2>1, <2>2
<1> HIDE DEF N
<1>4. Nat \subseteq N
  BY <1>2, <1>3, NatInd
<1> QED
  BY <1>4 DEF N

LEMMA PowerUp ==
  ASSUME NEW n \in Nat, NEW j \in Nat, n <= j
  PROVE  2^n <= 2^j
<1>1. PICK d \in Nat : j = n + d
  <2>1. j - n \in Nat /\ j = n + (j - n)
    OBVIOUS
  <2> QED
    BY <2>1
<1>2. PICK p \in Nat \ {0} : p = 2^n
  BY Powers
<1>3. PICK q \in Nat \ {0} : q = 2^d
  BY Powers
<1>4. p <= p * q
  BY SMT
<1> QED
  BY <1>1, <1>2, <1>3, <1>4, PowerSum

-----------------------------------------------------------------------------
(* The bits of an integer, in two's complement.                            *)
BitOf(x, i) == (x \div 2^i) % 2

LEMMA BitType == ASSUME NEW x \in Int, NEW i \in Nat PROVE BitOf(x, i) \in {0, 1}
<1>1. x \div 2^i \in Int
  BY Powers, IntDivMod
<1> QED
  BY <1>1 DEF BitOf

(* What is added above a bit does not change it.                           *)
LEMMA BitPlus ==
  ASSUME NEW x \in Int, NEW k \in Int, NEW n \in Nat, NEW i \in 0 .. (n - 1)
  PROVE  BitOf(x + 2^n * k, i) = BitOf(x, i)
<1>1. PICK p \in Nat \ {0} : p = 2^i
  BY Powers
<1>2. PICK r \in Nat \ {0} : r = 2^(n - 1 - i)
  BY Powers
<1>3. 2^n = p * (2 * r)
  <2>1. n = i + ((n - 1 - i) + 1) /\ n - 1 - i \in Nat /\ i \in Nat /\ (n - 1 - i) + 1 \in Nat
    OBVIOUS
  <2>2. 2^n = 2^i * 2^((n - 1 - i) + 1)
    BY <2>1, PowerSum
  <2>3. 2^((n - 1 - i) + 1) = 2 * r
    BY <1>2, <2>1, Powers
  <2> QED
    BY <1>1, <2>2, <2>3
<1>4. PICK c \in Int : c = r * k
  OBVIOUS
<1>5. 2^n * k = p * (2 * c)
  <2>1. (p * (2 * r)) * k = p * (2 * (r * k))
    BY SMT
  <2> QED
    BY <1>3, <1>4, <2>1
<1>6. (x + p * (2 * c)) \div p = (x \div p) + 2 * c
  <2>1. PICK d \in Int : d = 2 * c
    OBVIOUS
  <2>2. (x + p * d) \div p = (x \div p) + d
    BY DivPlus
  <2> QED
    BY <2>1, <2>2
<1>7. x \div p \in Int
  BY IntDivMod
<1>8. ((x \div p) + 2 * c) % 2 = (x \div p) % 2
  BY <1>7, DivPlus
<1> QED
  BY <1>1, <1>5, <1>6, <1>8 DEF BitOf

LEMMA BitShiftedRight ==
  ASSUME NEW x \in Int, NEW s \in Nat, NEW i \in Nat
  PROVE  BitOf(x \div 2^s, i) = BitOf(x, i + s)
<1>1. 2^s \in Nat \ {0} /\ 2^i \in Nat \ {0} /\ 2^(i + s) = 2^s * 2^i
  <2>1. i + s = s + i
    OBVIOUS
  <2> QED
    BY <2>1, Powers, PowerSum
<1>2. x \div (2^s * 2^i) = (x \div 2^s) \div 2^i
  BY <1>1, IntDivDiv
<1> QED
  BY <1>1, <1>2 DEF BitOf

LEMMA BitShiftedLeft ==
  ASSUME NEW x \in Int, NEW s \in Nat, NEW i \in Nat
  PROVE  BitOf(x * 2^s, i) = IF i < s THEN 0 ELSE BitOf(x, i - s)
<1>1. CASE i < s
  <2>1. i \in 0 .. (s - 1) /\ x * 2^s = 0 + 2^s * x
    <3>1. \A m, n \in Int : m * n = 0 + n * m
      BY SMT
    <3> QED
      BY <1>1, <3>1, Powers
  <2>2. BitOf(0 + 2^s * x, i) = BitOf(0, i)
    <3>1. \A z \in Int : BitOf(z + 2^s * x, i) = BitOf(z, i)
      BY <2>1, BitPlus
    <3> QED
      BY <3>1
  <2>3. \A p \in Nat \ {0} : 0 \div p = 0
    BY SMT
  <2>4. BitOf(0, i) = 0
    BY <2>3, Powers DEF BitOf
  <2> QED
    BY <1>1, <2>1, <2>2, <2>4
<1>2. CASE ~ (i < s)
  <2>1. PICK j \in Nat : i = j + s /\ j = i - s
    BY <1>2
  <2>2. PICK p \in Nat \ {0} : p = 2^s
    BY Powers
  <2>3. (x * p) \div p = x
    <3>1. x * p = p * x + 0 /\ 0 \in 0 .. (p - 1)
      BY SMT
    <3> QED
      BY <3>1, IntDivModUnique
  <2>4. BitOf((x * p) \div p, j) = BitOf(x * p, j + s)
    <3>1. x * p \in Int
      BY SMT
    <3> QED
      BY <2>2, <3>1, BitShiftedRight
  <2> QED
    BY <1>2, <2>1, <2>2, <2>3, <2>4
<1> QED
  BY <1>1, <1>2

(* A number below 2^n is known by its n bits.                              *)
LEMMA BitsUnique ==
  ASSUME NEW n \in Nat, NEW x \in 0 .. (2^n - 1), NEW y \in 0 .. (2^n - 1),
         \A i \in 0 .. (n - 1) : BitOf(x, i) = BitOf(y, i)
  PROVE  x = y
<1> DEFINE Below(k) == 0 .. (2^k - 1)
           Same(k, v, w) == \A i \in 0 .. (k - 1) : BitOf(v, i) = BitOf(w, i)
           Unique(k) == \A v, w \in Below(k) : Same(k, v, w) => v = w
           N == {k \in Nat : Unique(k)}
<1>1. 0 \in N
  <2>1. 2^0 = 1
    OBVIOUS
  <2> QED
    BY <2>1
<1>2. \A k \in Nat : k \in N => k + 1 \in N
  <2> SUFFICES ASSUME NEW k \in Nat, Unique(k) PROVE Unique(k + 1)
    <3> HIDE DEF Unique
    <3> QED
      OBVIOUS
  <2> SUFFICES ASSUME NEW v \in Below(k + 1), NEW w \in Below(k + 1), Same(k + 1, v, w)
               PROVE  v = w
    OBVIOUS
  <2>1. 2^(k + 1) = 2 * 2^k /\ 2^k \in Nat
    BY Powers
  <2>2. ASSUME NEW u \in Below(k + 1)
        PROVE  /\ u \in Nat /\ u \div 2 \in Below(k) /\ u = 2 * (u \div 2) + BitOf(u, 0)
               /\ \A i \in Nat : BitOf(u \div 2, i) = BitOf(u, i + 1)
    <3>1. u \in Nat /\ u \div 2 \in Below(k) /\ u = 2 * (u \div 2) + (u % 2)
      BY <2>1
    <3>2. 2^0 = 1 /\ 2^1 = 2 /\ u \div 1 = u
      OBVIOUS
    <3>3. BitOf(u, 0) = u % 2
      BY <3>2 DEF BitOf
    <3>4. \A i \in Nat : BitOf(u \div 2^1, i) = BitOf(u, i + 1)
      <4>1. u \in Int /\ 1 \in Nat
        BY <3>1
      <4>2. \A s, i \in Nat : BitOf(u \div 2^s, i) = BitOf(u, i + s)
        BY <4>1, BitShiftedRight
      <4> QED
        BY <4>1, <4>2
    <3> QED
      BY <3>1, <3>2, <3>3, <3>4
  <2>3. BitOf(v, 0) = BitOf(w, 0)
    <3>1. 0 \in 0 .. ((k + 1) - 1)
      OBVIOUS
    <3> QED
      BY <3>1
  <2>4. v \div 2 = w \div 2
    <3>1. Same(k, v \div 2, w \div 2)
      <4> SUFFICES ASSUME NEW i \in 0 .. (k - 1) PROVE BitOf(v \div 2, i) = BitOf(w \div 2, i)
        OBVIOUS
      <4>1. i + 1 \in 0 .. ((k + 1) - 1) /\ i \in Nat
        OBVIOUS
      <4> QED
        BY <2>2, <4>1
    <3> QED
      BY <2>2, <3>1
  <2>5. v = 2 * (v \div 2) + BitOf(v, 0) /\ w = 2 * (w \div 2) + BitOf(w, 0)
    BY <2>2
  <2> QED
    BY <2>3, <2>4, <2>5
<1> HIDE DEF N
<1>3. Nat \subseteq N
  BY <1>1, <1>2, NatInd
<1>4. Unique(n)
  BY <1>3 DEF N
<1> QED
  BY <1>4

(* The bits of a sum of different powers of two.                           *)
LEMMA BitsOfSum ==
  ASSUME NEW n \in Nat, NEW S \in SUBSET (0 .. (n - 1)), NEW i \in 0 .. (n - 1)
  PROVE  BitOf(SumFunction([j \in S |-> 2^j]), i) = IF i \in S THEN 1 ELSE 0
<1> DEFINE p == [j \in Nat |-> 2^j]
           Sum(s) == SumFunctionOnSet(p, s)
           Has(s, j) == BitOf(Sum(s), j) = IF j \in s THEN 1 ELSE 0
           Right(k) == \A s \in SUBSET (0 .. (k - 1)) : \A j \in 0 .. (k - 1) : Has(s, j)
           N == {k \in Nat : Right(k)}
<1>1. \A k \in Nat : \A j \in 0 .. (k - 1) : \A z, m \in Int :
        BitOf(z + 2^k * m, j) = BitOf(z, j)
  BY BitPlus
<1>2. \A j \in Nat : p[j] = 2^j /\ 2^j \in Nat \ {0}
  BY Powers
<1> HIDE DEF p
<1>3. ASSUME NEW k \in Nat, NEW s \in SUBSET (0 .. (k - 1))
      PROVE  /\ IsFiniteSet(s) /\ \A x \in s : x \in Nat /\ p[x] \in Int
             /\ Sum(s) = SumFunction([j \in s |-> 2^j])
             /\ Sum(s) \in 0 .. (2^k - 1)
  <2>1. IsFiniteSet(s)
    <3>1. IsFiniteSet(0 .. (k - 1))
      BY FS_Interval
    <3> QED
      BY <3>1, FS_Subset
  <2>2. \A x \in s : x \in Nat /\ p[x] \in Int
    <3>1. \A x \in s : x \in Nat
      OBVIOUS
    <3> QED
      BY <1>2, <3>1
  <2> DEFINE f == [j \in s |-> 2^j]
  <2>3. \A x \in s : f[x] \in Int /\ f[x] = p[x]
    BY <1>2, <2>2
  <2> HIDE DEF f
  <2>4. SumFunctionOnSet(f, s) = SumFunctionOnSet(p, s)
    BY <2>1, <2>3, SumCongruence
  <2>5. Sum(s) = SumFunction([j \in s |-> 2^j])
    BY <2>4 DEF SumFunction, f
  <2> QED
    BY <2>1, <2>2, <2>5, SumOfPowers
<1> HIDE DEF Sum
<1>4. 0 \in N
  OBVIOUS
<1>5. \A k \in Nat : k \in N => k + 1 \in N
  <2> SUFFICES ASSUME NEW k \in Nat, Right(k), NEW s \in SUBSET (0 .. ((k + 1) - 1)),
                      NEW j \in 0 .. ((k + 1) - 1)
               PROVE  Has(s, j)
    <3> HIDE DEF Has
    <3> QED
      OBVIOUS
  <2> DEFINE t == s \ {k}
  <2>1. t \in SUBSET (0 .. (k - 1)) /\ (j # k => j \in 0 .. (k - 1) /\ (j \in s <=> j \in t))
    OBVIOUS
  <2> HIDE DEF t
  <2>2. Sum(t) \in 0 .. (2^k - 1) /\ (j # k => Has(t, j))
    BY <1>3, <2>1
  <2>3. CASE k \in s
    <3>1. Sum(s) = Sum(t) + 2^k * 1
      <4>1. k + 1 \in Nat
        OBVIOUS
      <4>2. IsFiniteSet(s) /\ \A x \in s : p[x] \in Int
        BY <1>3, <4>1
      <4>3. \A x \in s : SumFunctionOnSet(p, s) = p[x] + SumFunctionOnSet(p, s \ {x})
        BY <4>2, SumFacts
      <4>4. Sum(s) = p[k] + Sum(t)
        BY <2>3, <4>3 DEF Sum, t
      <4> QED
        BY <1>2, <2>2, <4>4
    <3>2. CASE j = k
      <4>1. PICK m \in Nat \ {0} : m = 2^k
        BY Powers
      <4>2. PICK u \in 0 .. (m - 1) : u = Sum(t)
        BY <2>2, <4>1
      <4>3. Sum(s) = m * 1 + u
        BY <3>1, <4>1, <4>2
      <4>4. (m * 1 + u) \div m = 1
        BY IntDivModUnique
      <4> QED
        BY <2>3, <3>2, <4>1, <4>3, <4>4 DEF BitOf
    <3>3. CASE j # k
      <4>1. BitOf(Sum(t) + 2^k * 1, j) = BitOf(Sum(t), j)
        <5>1. Sum(t) \in Int /\ 1 \in Int
          BY <2>2
        <5>2. j \in 0 .. (k - 1)
          BY <2>1, <3>3
        <5>3. \A z, m \in Int : BitOf(z + 2^k * m, j) = BitOf(z, j)
          BY <1>1, <5>2
        <5> QED
          BY <5>1, <5>3
      <4> QED
        BY <2>1, <2>2, <3>1, <3>3, <4>1
    <3> QED
      BY <3>2, <3>3
  <2>4. CASE k \notin s
    <3>1. t = s
      BY <2>4 DEF t
    <3>2. CASE j = k
      <4>1. PICK m \in Nat \ {0} : m = 2^k
        BY Powers
      <4>2. PICK u \in 0 .. (m - 1) : u = Sum(s)
        BY <2>2, <3>1, <4>1
      <4>3. u \div m = 0
        <5>1. u = m * 0 + u
          OBVIOUS
        <5> QED
          BY <5>1, IntDivModUnique
      <4> QED
        BY <2>4, <3>2, <4>1, <4>2, <4>3 DEF BitOf
    <3>3. CASE j # k
      BY <2>2, <3>1, <3>3
    <3> QED
      BY <3>2, <3>3
  <2> QED
    BY <2>3, <2>4
<1> HIDE DEF N
<1>6. Nat \subseteq N
  BY <1>4, <1>5, NatInd
<1>7. Right(n)
  BY <1>6 DEF N
<1> QED
  BY <1>3, <1>7

(* Taking a number modulo 2^d keeps its d lowest bits.                     *)
LEMMA LowBits ==
  ASSUME NEW x \in Int, NEW d \in Nat, NEW i \in 0 .. (d - 1)
  PROVE  x % 2^d \in 0 .. (2^d - 1) /\ BitOf(x % 2^d, i) = BitOf(x, i)
<1>1. PICK m \in Nat \ {0} : m = 2^d
  BY Powers
<1>2. x \div m \in Int /\ x % m \in 0 .. (m - 1) /\ x % m \in Int
      /\ x = (x % m) + m * (x \div m)
  BY IntDivMod
<1>3. \A u, k \in Int : BitOf(u + m * k, i) = BitOf(u, i)
  BY <1>1, BitPlus
<1>4. BitOf(x, i) = BitOf(x % m, i)
  BY <1>2, <1>3
<1> QED
  BY <1>1, <1>2, <1>4

(* Numbers with the same d lowest bits are the same modulo 2^d.            *)
LEMMA SameLowBits ==
  ASSUME NEW x \in Int, NEW y \in Int, NEW d \in Nat,
         \A i \in 0 .. (d - 1) : BitOf(x, i) = BitOf(y, i)
  PROVE  x % 2^d = y % 2^d
<1>1. PICK m \in Nat \ {0} : m = 2^d
  BY Powers
<1>2. x % m \in 0 .. (m - 1) /\ y % m \in 0 .. (m - 1)
  BY IntDivMod
<1>3. \A i \in 0 .. (d - 1) : BitOf(x % m, i) = BitOf(y % m, i)
  BY <1>1, LowBits
<1> QED
  BY <1>1, <1>2, <1>3, BitsUnique

(* One more bit of a remainder by a power of two.                          *)
LEMMA OneMoreBit ==
  ASSUME NEW y \in Int, NEW k \in Nat
  PROVE  y % 2^(k + 1) = BitOf(y, k) * 2^k + (y % 2^k)
<1>1. PICK m \in Nat \ {0} : m = 2^k
  BY Powers
<1>2. PICK q \in Int, r \in 0 .. (m - 1) : y = m * q + r /\ q = y \div m /\ r = y % m
  BY IntDivMod
<1>3. PICK u \in Int, b \in 0 .. 1 : q = 2 * u + b /\ b = q % 2
  BY IntDivMod
<1>4. PICK d \in Nat \ {0} : d = 2 * m
  OBVIOUS
<1>5. m * q = d * u + b * m
  BY <1>3, <1>4, SMT
<1>6. PICK e \in 0 .. (d - 1) : e = b * m + r
  <2>1. b * m \in 0 .. m
    <3>1. CASE b = 0
      BY <3>1
    <3>2. CASE b = 1
      BY <3>2
    <3> QED
      BY <1>3, <3>1, <3>2
  <2> QED
    BY <1>2, <1>4, <2>1
<1>7. y = d * u + e
  <2>1. d * u \in Int /\ b * m \in Int
    BY <1>3, <1>4
  <2> QED
    BY <1>2, <1>5, <1>6, <2>1
<1>8. y % d = e
  BY <1>7, IntDivModUnique
<1>9. 2^(k + 1) = d /\ BitOf(y, k) = b
  BY <1>1, <1>2, <1>3, <1>4, Powers DEF BitOf
<1> QED
  BY <1>1, <1>2, <1>6, <1>8, <1>9

(* The bits of a number, each with its weight, add up to a remainder.      *)
LEMMA SumOfBits ==
  ASSUME NEW n \in Nat, NEW y \in Int, NEW g,
         \A i \in 0 .. (n - 1) : g[i] = BitOf(y, i) * 2^i
  PROVE  SumFunctionOnSet(g, 0 .. (n - 1)) = y % 2^n
<1> DEFINE Sum(k) == SumFunctionOnSet(g, 0 .. (k - 1))
           N == {k \in Nat : k <= n => Sum(k) = y % 2^k}
<1>1. 0 \in N
  <2>1. Sum(0) = 0
    <3>1. 0 .. (0 - 1) = {}
      OBVIOUS
    <3> QED
      BY <3>1, SumFacts, FS_EmptySet
  <2>2. 2^0 = 1 /\ y % 1 = 0
    BY SMT
  <2> HIDE DEF Sum
  <2> QED
    BY <2>1, <2>2
<1>2. \A k \in Nat : k \in N => k + 1 \in N
  <2> SUFFICES ASSUME NEW k \in Nat, k \in N, k + 1 <= n
               PROVE  Sum(k + 1) = y % 2^(k + 1)
    OBVIOUS
  <2> DEFINE S == 0 .. k
  <2>1. IsFiniteSet(S) /\ \A i \in S : g[i] \in Int /\ g[i] = BitOf(y, i) * 2^i
    <3>1. IsFiniteSet(S)
      BY FS_Interval
    <3>2. ASSUME NEW i \in S PROVE g[i] \in Int /\ g[i] = BitOf(y, i) * 2^i
      <4>1. i \in 0 .. (n - 1) /\ i \in Nat
        OBVIOUS
      <4>2. BitOf(y, i) \in Int /\ 2^i \in Int
        BY <4>1, BitType, Powers
      <4> QED
        BY <4>1, <4>2
    <3> QED
      BY <3>1, <3>2
  <2>2. SumFunctionOnSet(g, S) = g[k] + SumFunctionOnSet(g, S \ {k})
    <3>1. k \in S
      OBVIOUS
    <3> HIDE DEF S
    <3> QED
      BY <2>1, <3>1, SumFacts
  <2>3. S \ {k} = 0 .. (k - 1) /\ S = 0 .. ((k + 1) - 1) /\ k \in S
    OBVIOUS
  <2>4. Sum(k) = y % 2^k
    OBVIOUS
  <2> HIDE DEF S, N
  <2>5. Sum(k + 1) = g[k] + Sum(k)
    BY <2>2, <2>3
  <2> HIDE DEF Sum
  <2> QED
    BY <2>1, <2>3, <2>4, <2>5, OneMoreBit
<1> HIDE DEF N
<1>3. Nat \subseteq N
  BY <1>1, <1>2, NatInd
<1> QED
  BY <1>3 DEF N

(* n terms, each none or a power of two of its own.                        *)
LEMMA SumBelow ==
  ASSUME NEW n \in Nat, NEW g,
         \A i \in 0 .. (n - 1) : g[i] \in {0, 2^i}
  PROVE  SumFunctionOnSet(g, 0 .. (n - 1)) \in 0 .. (2^n - 1)
<1> DEFINE Sum(k) == SumFunctionOnSet(g, 0 .. (k - 1))
           N == {k \in Nat : k <= n => Sum(k) \in 0 .. (2^k - 1)}
<1>1. 0 \in N
  <2>1. Sum(0) = 0
    <3>1. 0 .. (0 - 1) = {}
      OBVIOUS
    <3> QED
      BY <3>1, SumFacts, FS_EmptySet
  <2>2. 2^0 = 1
    BY SMT
  <2> HIDE DEF Sum
  <2> QED
    BY <2>1, <2>2
<1>2. \A k \in Nat : k \in N => k + 1 \in N
  <2> SUFFICES ASSUME NEW k \in Nat, k \in N, k + 1 <= n
               PROVE  Sum(k + 1) \in 0 .. (2^(k + 1) - 1)
    OBVIOUS
  <2> DEFINE S == 0 .. k
  <2>1. IsFiniteSet(S) /\ \A i \in S : g[i] \in Int /\ g[i] \in {0, 2^i}
    <3>1. IsFiniteSet(S)
      BY FS_Interval
    <3>2. ASSUME NEW i \in S PROVE g[i] \in Int /\ g[i] \in {0, 2^i}
      <4>1. i \in 0 .. (n - 1) /\ i \in Nat
        OBVIOUS
      <4>2. 2^i \in Int
        BY <4>1, Powers
      <4> QED
        BY <4>1, <4>2
    <3> QED
      BY <3>1, <3>2
  <2>2. SumFunctionOnSet(g, S) = g[k] + SumFunctionOnSet(g, S \ {k})
    <3>1. k \in S
      OBVIOUS
    <3> HIDE DEF S
    <3> QED
      BY <2>1, <3>1, SumFacts
  <2>3. S \ {k} = 0 .. (k - 1) /\ S = 0 .. ((k + 1) - 1) /\ k \in S
    OBVIOUS
  <2>4. Sum(k) \in 0 .. (2^k - 1)
    OBVIOUS
  <2> HIDE DEF S, N
  <2>5. Sum(k + 1) = g[k] + Sum(k)
    BY <2>2, <2>3
  <2>6. g[k] \in {0, 2^k} /\ 2^k \in Nat \ {0} /\ 2^(k + 1) = 2 * 2^k
    BY <2>1, <2>3, Powers
  <2> HIDE DEF Sum
  <2> QED
    BY <2>4, <2>5, <2>6
<1> HIDE DEF N
<1>3. Nat \subseteq N
  BY <1>1, <1>2, NatInd
<1> QED
  BY <1>3 DEF N

-----------------------------------------------------------------------------
(* A function is known by its values.                                      *)
LEMMA SameFunction ==
  ASSUME NEW S, NEW T, NEW f \in [S -> T], NEW g \in [S -> T], \A x \in S : f[x] = g[x]
  PROVE  f = g
  OBVIOUS

=============================================================================
