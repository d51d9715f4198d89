----------------------------- MODULE SieveProps -----------------------------
EXTENDS Sieve

Divides(d, k) == \E q \in Index : k = d * q

(* k has a divisor among 2 .. i - 1.                                       *)
Composite(k) == \E d \in 2 .. (i - 1) : Divides(d, k)

(***************************************************************************)
(* The array tells exactly the multiples of the numbers looked at so far,  *)
(* although only multiples of primes were crossed, and within the inner    *)
(* loop the multiples of i below j too (erat.c:12-19).                     *)
(***************************************************************************)
CrossedAreMultiples ==
  \A k \in 2 .. (MAX - 1) :
    numbers[k] = 0 <=> Composite(k) \/ (loop = "inner" /\ k < j /\ Divides(i, k))

IsPrime(k) == k >= 2 /\ \A d \in 2 .. (k - 1) : ~ Divides(d, k)

(* Of the numbers looked at, the primes are printed, each once, in order;  *)
(* of all below MAX when the program returns (erat.c:12-21).               *)
PrintsThePrimes ==
  LET last == IF loop = "returned" THEN MAX - 1 ELSE IF loop = "inner" THEN i ELSE i - 1
  IN  /\ {printed[n] : n \in DOMAIN printed} = {k \in 2 .. last : IsPrime(k)}
      /\ \A m, n \in DOMAIN printed : m < n => printed[m] < printed[n]

=============================================================================
