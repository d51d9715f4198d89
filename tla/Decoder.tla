------------------------------ MODULE Decoder ------------------------------
(***************************************************************************)
(* The fields and immediates simulate() takes from an instruction word     *)
(* (src/src/simulate.c:11-51 and 123-131; disassemble.c:10-46 and 83-88    *)
(* are the same code again).                                               *)
(*                                                                         *)
(* A word is a function from the bits 0 .. 31 to {0, 1}.  A mask and two   *)
(* shifts move a run of its bits; the runs an immediate is put together    *)
(* from have no bit in common, so | is + there.                            *)
(***************************************************************************)
EXTENDS Isa, FiniteSetsExt

WordBits == 0 .. 31

Bit(inst, i) == inst[i]

(* (inst >> from) & mask of width bits                                     *)
Field(inst, from, width) == SumFunction([i \in 0 .. (width - 1) |-> Bit(inst, from + i) * 2^i])

sext(val, bits) == IF val >= 2^(bits - 1) THEN val - 2^bits ELSE val

imm_i(inst) == sext(Field(inst, 20, 12), 12)
imm_s(inst) == sext(Field(inst, 7, 5) + Field(inst, 25, 7) * 2^5, 12)

(* Mutant: bit 11 of a branch is taken for one of its low bits.            *)
imm_b_low(inst) ==
  sext(Field(inst, 7, 5) + Field(inst, 25, 6) * 2^5 + Field(inst, 31, 1) * 2^12, 13)

imm_b(inst) ==
  sext(Field(inst, 8, 4) * 2 + Field(inst, 25, 6) * 2^5
         + Field(inst, 7, 1) * 2^11 + Field(inst, 31, 1) * 2^12, 13)

(* The upper twenty bits, in place and with their sign.                    *)
imm_u(inst) == sext(Field(inst, 12, 20), 20) * 4096

imm_j(inst) ==
  sext(Field(inst, 21, 10) * 2 + Field(inst, 20, 1) * 2^11
         + Field(inst, 12, 8) * 2^12 + Field(inst, 31, 1) * 2^20, 21)

(* The immediate the case of an opcode asks for.                           *)
imm(inst, opcode) ==
  IF opcode \in {LUI, AUIPC} THEN imm_u(inst)
  ELSE IF opcode = JAL THEN imm_j(inst)
  ELSE IF opcode = BRANCH THEN imm_b(inst)
  ELSE IF opcode = STORE THEN imm_s(inst)
  ELSE imm_i(inst)

Decode(inst) ==
  LET opcode == Field(inst, 0, 7)
  IN  [opcode |-> opcode,
       rd     |-> Field(inst, 7, 5),
       funct3 |-> Field(inst, 12, 3),
       rs1    |-> Field(inst, 15, 5),
       rs2    |-> Field(inst, 20, 5),
       funct7 |-> Field(inst, 25, 7),
       imm    |-> imm(inst, opcode),
       shamt  |-> Field(inst, 20, 5),
       funct12 |-> Field(inst, 20, 12)]

=============================================================================
