------------------------------- MODULE RiscV --------------------------------
(***************************************************************************)
(* The machine the simulator simulates, as its programs see it: integers   *)
(* in the registers, one flat array of bytes, no pages, no predictor.  The *)
(* results of the instructions are given by what they mean (a quotient and *)
(* a remainder, the bits of a result), not by how C computes them.         *)
(*                                                                         *)
(* The instructions are those of RV32I and RV32M without FENCE, EBREAK and *)
(* the three MULH; the environment calls are 1 (read a character), 2       *)
(* (write one) and 3, 93 (stop).  Every other word stops the machine,      *)
(* except the encodings in Reserved, which may do anything to rd.          *)
(***************************************************************************)
EXTENDS Integers, Sequences

CONSTANTS ByteBase, Width, Reg, Decode, MaxInsns

VARIABLES bytes, x, pc, count, status, input, output, branches

vars == <<bytes, x, pc, count, status, input, output, branches>>

M           == 2^Width
Address     == 0 .. (M - 1)
SignedWord  == (-(M \div 2)) .. ((M \div 2) - 1)

Unsigned(v) == v % M
Narrow(v)   == ((v + M \div 2) % M) - M \div 2

(* Bit i of the two's complement of v, and the integer with given bits.    *)
Bit(v, i) == (v \div 2^i) % 2
WithBits(bit(_)) ==
  CHOOSE v \in SignedWord : \A i \in 0 .. (Width - 1) : Bit(v, i) = bit(i)

(* Division towards zero: the remainder is smaller than the divisor and    *)
(* does not have the sign opposite to the dividend's.                      *)
Divides(a, b, q) ==
  LET r == a - q * b
  IN  -r < (IF b < 0 THEN -b ELSE b) /\ r < (IF b < 0 THEN -b ELSE b) /\ r * a >= 0

Quot(a, b) == IF b = 0 THEN -1 ELSE CHOOSE q \in (-M) .. M : Divides(a, b, q)
Remainder(a, b) == IF b = 0 THEN a ELSE a - b * Quot(a, b)

Truth(b) == IF b THEN 1 ELSE 0

Result(name, a, b) ==
  LET s == b % Width
  IN  CASE name = "ADD"  -> Narrow(a + b)
        [] name = "SUB"  -> Narrow(a - b)
        [] name = "SLT"  -> Truth(a < b)
        [] name = "SLTU" -> Truth(Unsigned(a) < Unsigned(b))
        [] name = "XOR"  -> WithBits(LAMBDA i : Truth(Bit(a, i) # Bit(b, i)))
        [] name = "OR"   -> WithBits(LAMBDA i : Truth(Bit(a, i) = 1 \/ Bit(b, i) = 1))
        [] name = "AND"  -> WithBits(LAMBDA i : Truth(Bit(a, i) = 1 /\ Bit(b, i) = 1))
        [] name = "SLL"  -> WithBits(LAMBDA i : IF i < s THEN 0 ELSE Bit(a, i - s))
        [] name = "SRL"  -> WithBits(LAMBDA i : IF i + s < Width THEN Bit(a, i + s) ELSE 0)
        [] name = "SRA"  -> WithBits(LAMBDA i : Bit(a, IF i + s < Width THEN i + s
                                                                         ELSE Width - 1))
        [] name = "MUL"  -> Narrow(a * b)
        [] name = "DIV"  -> Narrow(Quot(a, b))
        [] name = "REM"  -> Narrow(Remainder(a, b))
        [] name = "DIVU" -> Narrow(Quot(Unsigned(a), Unsigned(b)))
        [] name = "REMU" -> Narrow(Remainder(Unsigned(a), Unsigned(b)))

Holds(name, a, b) ==
  CASE name = "BEQ"  -> a = b
    [] name = "BNE"  -> a # b
    [] name = "BLT"  -> a < b
    [] name = "BGE"  -> ~ (a < b)
    [] name = "BLTU" -> Unsigned(a) < Unsigned(b)
    [] name = "BGEU" -> ~ (Unsigned(a) < Unsigned(b))

-----------------------------------------------------------------------------
(* The tables of the instruction set: a name for <<opcode, funct3>> and,   *)
(* for register operations and shifts, funct7.                             *)
Plain == <<"ADD", "SLL", "SLT", "SLTU", "XOR", "SRL", "OR", "AND">>
Muls  == <<"MUL", "none", "none", "none", "DIV", "DIVU", "REM", "REMU">>
Conds == <<"BEQ", "BNE", "none", "none", "BLT", "BGE", "BLTU", "BGEU">>

OpName(i) ==
  CASE i.funct7 = 0                     -> Plain[i.funct3 + 1]
    [] i.funct7 = 32 /\ i.funct3 = 0    -> "SUB"
    [] i.funct7 = 32 /\ i.funct3 = 5    -> "SRA"
    [] i.funct7 = 1                     -> Muls[i.funct3 + 1]
    [] OTHER                            -> "none"

OpImmName(i) ==
  CASE i.funct3 = 5 /\ i.funct7 = 32        -> "SRA"
    [] i.funct3 = 5 /\ i.funct7 \notin {0, 32} -> "none"
    [] OTHER                                -> Plain[i.funct3 + 1]

(* Encodings no version of the manual gives a meaning to, which the        *)
(* simulator does not refuse.                                              *)
Reserved(i) ==
  \/ i.opcode = 51 /\ i.funct7 = 32 /\ i.funct3 \notin {0, 5}
  \/ i.opcode = 19 /\ i.funct3 = 1 /\ i.funct7 # 0

-----------------------------------------------------------------------------
(* What a byte k bytes up weighs, and so the number of values of k bytes.  *)
Weight(k) ==
  << 1, ByteBase, ByteBase * ByteBase, ByteBase * ByteBase * ByteBase,
     ByteBase * ByteBase * ByteBase * ByteBase >>[k + 1]

ValueAt(a, n) ==
  LET v == [k \in 0 .. 3 |-> IF k < n THEN bytes[a + k] * Weight(k) ELSE 0]
  IN  v[0] + v[1] + v[2] + v[3]

inst == Decode[ValueAt(pc, 4)]
a1   == x[inst.rs1]
a2   == x[inst.rs2]

Init ==
  /\ bytes \in [Address -> 0 .. (ByteBase - 1)]
  /\ x = [r \in Reg |-> 0]
  /\ pc \in Address
  /\ count = 0
  /\ status = "running"
  /\ input \in Seq(0 .. (ByteBase - 1))
  /\ output = <<>>
  /\ branches = <<>>

Executes(opcode) ==
  /\ status = "running" /\ count < MaxInsns
  /\ pc % 4 = 0
  /\ inst.opcode = opcode

Goto(target) == pc' = Unsigned(target) /\ count' = count + 1

(* x0 is hard-wired.                                                       *)
Sets(r, v) == x' = [x EXCEPT ![r] = IF r = 0 THEN 0 ELSE v]

Quiet == UNCHANGED <<bytes, input, output, branches>>

Computes(v) == Sets(inst.rd, v) /\ Goto(pc + 4) /\ UNCHANGED status /\ Quiet

Ends(how) == status' = how /\ Goto(pc + 4) /\ UNCHANGED x /\ Quiet

MisalignedFetch ==
  /\ status = "running" /\ count < MaxInsns
  /\ pc % 4 # 0
  /\ status' = "exited"
  /\ UNCHANGED <<x, pc, count>> /\ Quiet

LoadUpper == \/ Executes(55) /\ Computes(Narrow(inst.imm))
             \/ Executes(23) /\ Computes(Narrow(pc + inst.imm))

Jump ==
  /\ \/ Executes(111) /\ Goto(pc + inst.imm)
     \/ Executes(103) /\ Goto(2 * ((a1 + inst.imm) \div 2))
  /\ Sets(inst.rd, Narrow(pc + 4))
  /\ UNCHANGED status /\ Quiet

(* The log of branches; one of unknown condition is logged as not taken    *)
(* before it stops the machine.                                            *)
Branch ==
  LET name == Conds[inst.funct3 + 1]
      go   == name # "none" /\ Holds(name, a1, a2)
  IN  /\ Executes(99)
      /\ branches' = Append(branches, [pc |-> pc, target |-> Unsigned(pc + inst.imm),
                                       taken |-> Truth(go)])
      /\ IF go THEN Goto(pc + inst.imm) ELSE Goto(pc + 4)
      /\ status' = IF name = "none" THEN "stopped" ELSE status
      /\ UNCHANGED <<bytes, x, input, output>>

addr == Unsigned(a1 + inst.imm)

Bytes(funct3) == 2^(funct3 % 4)

(* A load extends the sign unless bit 2 of funct3 is set.                  *)
Load ==
  LET n == Bytes(inst.funct3)
      v == ValueAt(addr, n)
      m == Weight(n)
  IN  /\ Executes(3)
      /\ \/ /\ inst.funct3 \in {0, 1, 2, 4, 5} /\ addr % n = 0
            /\ Computes(IF inst.funct3 < 4 /\ v >= m \div 2 THEN v - m ELSE v)
         \/ inst.funct3 \in {0, 1, 2, 4, 5} /\ addr % n # 0 /\ Ends("exited")
         \/ inst.funct3 \in {3, 6, 7} /\ Ends("stopped")

Store ==
  LET n == Bytes(inst.funct3)
  IN  /\ Executes(35)
      /\ \/ /\ inst.funct3 \in {0, 1, 2} /\ addr % n = 0
            /\ bytes' = [b \in Address |->
                           IF b \in addr .. (addr + n - 1)
                           THEN (Unsigned(a2) \div Weight(b - addr)) % ByteBase
                           ELSE bytes[b]]
            /\ Goto(pc + 4)
            /\ UNCHANGED <<x, status, input, output, branches>>
         \/ inst.funct3 \in {0, 1, 2} /\ addr % n # 0 /\ Ends("exited")
         \/ inst.funct3 \notin {0, 1, 2} /\ Ends("stopped")

Operate ==
  \/ /\ Executes(19)
     /\ OpImmName(inst) # "none"
     /\ Computes(Result(OpImmName(inst), a1,
                        IF inst.funct3 \in {1, 5} THEN inst.shamt ELSE inst.imm))
  \/ Executes(19) /\ OpImmName(inst) = "none" /\ Ends("stopped")
  \/ Executes(51) /\ OpName(inst) # "none" /\ Computes(Result(OpName(inst), a1, a2))
  \/ Executes(51) /\ OpName(inst) = "none" /\ ~ Reserved(inst) /\ Ends("stopped")

Unspecified ==
  /\ Executes(inst.opcode)
  /\ Reserved(inst)
  /\ \/ Ends("stopped")
     \/ \E v \in SignedWord : Computes(v)

(* The environment: the next character or -1, the low byte of a0, or the   *)
(* end.                                                                    *)
Environment ==
  /\ Executes(115)
  /\ inst.funct3 = 0 /\ inst.funct12 = 0
  /\ \/ /\ x[17] = 1
        /\ IF input = <<>> THEN Sets(10, -1) /\ UNCHANGED input
                           ELSE Sets(10, input[1]) /\ input' = Tail(input)
        /\ Goto(pc + 4)
        /\ UNCHANGED <<bytes, status, output, branches>>
     \/ /\ x[17] = 2
        /\ output' = Append(output, x[10] % ByteBase)
        /\ Goto(pc + 4)
        /\ UNCHANGED <<bytes, x, status, input, branches>>
     \/ x[17] \notin {1, 2} /\ Ends("stopped")

Unsupported ==
  /\ Executes(inst.opcode)
  /\ \/ inst.opcode \notin {55, 23, 111, 103, 99, 3, 35, 19, 51, 115}
     \/ inst.opcode = 115 /\ (inst.funct3 # 0 \/ inst.funct12 # 0)
  /\ Ends("stopped")

Next ==
  \/ MisalignedFetch \/ LoadUpper \/ Jump \/ Branch \/ Load \/ Store
  \/ Operate \/ Unspecified \/ Environment \/ Unsupported

Spec == Init /\ [][Next]_vars

=============================================================================
