-------------------------------- MODULE Bits --------------------------------
(***************************************************************************)
(* The C operators & | ^ on unsigned values of Width bits, through the     *)
(* sets of bits they have.                                                 *)
(***************************************************************************)
EXTENDS FiniteSetsExt

CONSTANT Width   \* bits of a word; 32 in the program

ASSUME WidthAssumption == Width \in Nat \ {0}

BitsOf(x)   == {i \in 0 .. (Width - 1) : (x \div 2^i) % 2 = 1}
FromBits(S) == SumFunction([i \in S |-> 2^i])

BitAnd(x, y) == FromBits(BitsOf(x) \cap BitsOf(y))
BitOr(x, y)  == FromBits(BitsOf(x) \cup BitsOf(y))
BitXor(x, y) == FromBits(SymDiff(BitsOf(x), BitsOf(y)))

=============================================================================
