-------------------------------- MODULE Alu ---------------------------------
(***************************************************************************)
(* The arithmetic of src/src/simulate.c on register values.  A register is *)
(* the unsigned reading of its int32_t; Signed is the other reading and    *)
(* Wrap the conversion of an integer back to 32 bits.  Signed overflow,    *)
(* undefined in C, wraps as it does in the code gcc generates here.        *)
(***************************************************************************)
EXTENDS Memory, Bits, Isa

(* A register holds a word of memory and any register value is an address. *)
ASSUME WordAssumption ==
  /\ WordMod = 2^Width
  /\ NPages * PageBytes = WordMod

IntMin == -(WordMod \div 2)

Signed(w) == IF w >= WordMod \div 2 THEN w - WordMod ELSE w
Wrap(x)   == x % WordMod
Bool(b)   == IF b THEN 1 ELSE 0

(* sext of a value whose sign bit weighs m.                                *)
sext(val, m) == IF val >= m THEN val - 2 * m ELSE val

(* Mutant: what is shifted out stays.                                      *)
Shl_wide(a, s) == a * 2^(s % Width)

(* The shifts use the low bits of the amount, & 0x1f: Width is a power of  *)
(* two, so that the bits are those of the amount's signed reading too.     *)
ASSUME ShiftAssumption == WordMod % Width = 0

Shl(a, s) == Wrap(a * 2^(s % Width))
Shr(a, s) == a \div 2^(s % Width)
Sra(a, s) == Wrap(Signed(a) \div 2^(s % Width))

(* The / and % of C truncate towards zero.                                 *)
Magnitude(x) == IF x < 0 THEN -x ELSE x

(* Mutant: division rounds down.                                           *)
Quotient_floor(x, y) == IF y > 0 THEN x \div y ELSE (-x) \div (-y)

Quotient(x, y) ==
  LET q == Magnitude(x) \div Magnitude(y)
  IN  IF (x < 0) # (y < 0) THEN -q ELSE q

Rest(x, y) == x - y * Quotient(x, y)

DIV(a, b) ==
  IF b = 0 THEN Wrap(-1)
  ELSE IF Signed(a) = IntMin /\ Signed(b) = -1 THEN Wrap(IntMin)
  ELSE Wrap(Quotient(Signed(a), Signed(b)))

REM(a, b) ==
  IF b = 0 THEN a
  ELSE IF Signed(a) = IntMin /\ Signed(b) = -1 THEN 0
  ELSE Wrap(Rest(Signed(a), Signed(b)))

DIVU(a, b) == IF b = 0 THEN Wrap(-1) ELSE a \div b
REMU(a, b) == IF b = 0 THEN a ELSE a % b

-----------------------------------------------------------------------------
(* The inner switches on funct3, as tables; the cases they have are those  *)
(* of Isa.                                                                 *)

(* OP with funct7 0x00 or 0x20; only ADD/SUB and SRL/SRA look at which.    *)
basic(funct3, alt, a, b) ==
  << IF alt THEN Wrap(a - b) ELSE Wrap(a + b),
     Shl(a, b),
     Bool(Signed(a) < Signed(b)),
     Bool(a < b),
     BitXor(a, b),
     IF alt THEN Sra(a, b) ELSE Shr(a, b),
     BitOr(a, b),
     BitAnd(a, b) >>[funct3 + 1]

(* OP with funct7 0x01.                                                    *)
muldiv(funct3, a, b) ==
  IF funct3 = 0 THEN Wrap(Signed(a) * Signed(b))
  ELSE << DIV(a, b), DIVU(a, b), REM(a, b), REMU(a, b) >>[funct3 - 3]

(* Branches; 2 and 3, which are no conditions, are never taken.            *)
actual_taken(funct3, a, b) ==
  \/ funct3 = 0 /\ a = b
  \/ funct3 = 1 /\ a # b
  \/ funct3 = 4 /\ Signed(a) < Signed(b)
  \/ funct3 = 5 /\ Signed(a) >= Signed(b)
  \/ funct3 = 6 /\ a < b
  \/ funct3 = 7 /\ a >= b

=============================================================================
