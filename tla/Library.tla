------------------------------- MODULE Library -------------------------------
(***************************************************************************)
(* The functions of "src/predictor benchmarks/lib.c" that call the         *)
(* simulator, as the instructions of their asm statements.  What the       *)
(* compiler puts around them is left out: arguments are in a0, a1 and a2   *)
(* already, and a result stays in a0.                                      *)
(***************************************************************************)
EXTENDS Isa

Blank == [opcode |-> 0, rd |-> 0, funct3 |-> 0, rs1 |-> 0, rs2 |-> 0,
          funct7 |-> 0, imm |-> 0, shamt |-> 0, funct12 |-> 0]

I(opcode, funct3, rd, rs1, imm) ==
  [Blank EXCEPT !.opcode = opcode, !.funct3 = funct3, !.rd = rd, !.rs1 = rs1, !.imm = imm]

Li(r, k) == I(OP_IMM, 0, r, 0, k)
Ecall == [Blank EXCEPT !.opcode = SYSTEM]

(* li a7, call; ecall                                                      *)
Stub(call) == <<Li(17, call), Ecall>>

inp              == Stub(1)
outp             == Stub(2)
terminate        == Stub(3)
read_int_buffer  == Stub(4)
write_int_buffer == Stub(5)
open_file        == Stub(6)
close_file       == Stub(6)

=============================================================================
