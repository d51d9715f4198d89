----------------------------- MODULE MCSimulate -----------------------------
(***************************************************************************)
(* Programs for the runs of Simulate, on a machine of eight-bit words in   *)
(* four pages of sixteen words.  A word is the number of its instruction   *)
(* in Menu; a word that is no such number has an unknown opcode.           *)
(***************************************************************************)
EXTENDS SimulateProps

(* The guest library, by name.                                             *)
Lib == INSTANCE Library

Regs == {0, 1, 2, 10, 17}

I(opcode, funct3, rd, rs1, imm) == Lib!I(opcode, funct3, rd, rs1, imm)
Li(r, k) == Lib!Li(r, k)
R(funct7, funct3, rd) ==
  [I(OP, funct3, rd, 1, 0) EXCEPT !.funct7 = funct7, !.rs2 = 2]
Shift5(funct7, funct3, rd, shamt) ==
  [I(OP_IMM, funct3, rd, 1, shamt) EXCEPT !.funct7 = funct7, !.shamt = shamt]
B(funct3, rs1, rs2, imm) ==
  [Lib!Blank EXCEPT !.opcode = BRANCH, !.funct3 = funct3, !.rs1 = rs1, !.rs2 = rs2, !.imm = imm]
S(funct3, rs1, rs2, imm) == [B(funct3, rs1, rs2, imm) EXCEPT !.opcode = STORE]
-----------------------------------------------------------------------------
(* Every instruction on every pair of operands: the operands are loaded    *)
(* from memory, then one instruction of Probes is executed.                *)
Grid(op(_, _), as, bs) ==
  [k \in 1 .. (Len(as) * Len(bs)) |->
     op(as[((k - 1) \div Len(bs)) + 1], bs[((k - 1) % Len(bs)) + 1])]

Funct3 == <<0, 1, 2, 3, 4, 5, 6, 7>>

Register ==
  Grid(LAMBDA f7, f3 : R(f7, f3, 10), <<0, 1, 2, 32>>, Funct3) \o <<R(0, 0, 0), R(0, 0, 1)>>

Immediate ==
  Grid(LAMBDA f3, imm : I(OP_IMM, f3, 10, 1, imm), <<0, 2, 3, 4, 6, 7>>, <<-3, 6>>)
    \o Grid(LAMBDA f7, s : Shift5(f7, 1, 10, s), <<0, 1>>, <<0, 3>>)
    \o Grid(LAMBDA f7, s : Shift5(f7, 5, 10, s), <<0, 1, 32>>, <<0, 3>>)

Control ==
  Grid(LAMBDA f3, imm : B(f3, 1, 2, imm), Funct3, <<8, -12>>)
    \o Grid(LAMBDA rd, imm : I(JAL, 0, rd, 0, imm), <<1>>, <<8, -12, 6>>)
    \o Grid(LAMBDA rd, imm : I(JALR, 0, rd, 1, imm), <<0, 1>>, <<-20, 20>>)
    \o Grid(LAMBDA rd, imm : I(LUI, 0, rd, 0, imm), <<0, 10>>, <<64, -128>>)
    \o <<I(AUIPC, 0, 10, 0, -128)>>

MemoryAccess ==
  Grid(LAMBDA f3, imm : I(LOAD, f3, 10, 1, imm), Funct3, <<0, 1, -2>>)
    \o Grid(LAMBDA f3, imm : S(f3, 1, 2, imm), <<0, 1, 2, 3>>, <<0, 1, 5, -2>>)

Others == <<Lib!Ecall, [Lib!Ecall EXCEPT !.funct12 = 1], [Lib!Ecall EXCEPT !.funct3 = 1],
            [Lib!Blank EXCEPT !.opcode = 15]>>

Probes == Register \o Immediate \o Control \o MemoryAccess \o Others

Load1 == I(LOAD, 2, 1, 0, 64)
Load2 == I(LOAD, 2, 2, 0, 68)

Operands == {0, 3, 9, 127, 128, 251, 255}

-----------------------------------------------------------------------------
(* Programs that use several instructions together; register 17 is a7.     *)

(* Copy the input to the output; getchar's -1 at its end is copied too.    *)
Echo == Lib!inp \o Lib!outp \o <<B(4, 0, 10, -16)>> \o Lib!terminate

(* Count up in a loop inside a loop, then stop through call 93.            *)
Loops == <<Li(1, 3), Li(2, 0), I(OP_IMM, 0, 2, 2, 1), B(4, 2, 1, -4),
           I(OP_IMM, 0, 1, 1, -1), B(1, 1, 0, -16), Li(17, 93), Lib!Ecall>>

(* Call and return, the second time through another return address.        *)
Calls == <<I(JAL, 0, 1, 0, 12), I(JAL, 0, 1, 0, 8), Lib!Ecall,
           I(OP_IMM, 0, 10, 10, 5), I(JALR, 0, 0, 1, 0)>>

(* Copy the word at 64, an instruction, over the next instruction, run it. *)
Rewrite == <<I(LOAD, 2, 1, 0, 64), S(2, 0, 1, 8), Lib!Ecall, Lib!Ecall>>

(* The calls of radix.c to its files and its end.  The simulator stops at  *)
(* each, so each is a program.                                             *)
FileCalls == <<Lib!open_file, Lib!read_int_buffer, Lib!write_int_buffer, Lib!close_file,
               Lib!terminate>>

Menu == Probes \o <<Load1, Load2>> \o Echo \o Loops \o Calls \o Rewrite \o FlattenSeq(FileCalls)

Code(i) == CHOOSE k \in DOMAIN Menu : Menu[k] = i

MenuDecode == [w \in Word |-> IF w \in DOMAIN Menu THEN Menu[w] ELSE Lib!Blank]

-----------------------------------------------------------------------------
(* A program at address 0; its data, if any, at addresses 64 and 68.       *)
Text(program) == [a \in {4 * (k - 1) : k \in DOMAIN program} |-> Code(program[(a \div 4) + 1])]

NoData == [a \in {} |-> 0]

Boot(program, data, inputs, options) ==
  [text |-> Text(program), start |-> 0, data |-> data, input |-> inputs, options |-> options]

ProbeBoots ==
  {Boot(<<Load1, Load2, probe>>,
        {[a \in {64, 68} |-> IF a = 64 THEN v ELSE w] : v \in Operands, w \in Operands},
        {<<>>}, {<<"gshare", 2>>}) : probe \in Range(Probes)}

(* Every predictor.                                                        *)
Options == {"absent", "nt", "btfnt", "bimodal", "gshare"} \X {1, 2, 4}

ScriptBoots ==
  {Boot(Echo, {NoData}, {<<>>, <<2>>, <<3, 0, 1>>}, Options),
   Boot(Loops, {NoData}, {<<>>}, Options),
   Boot(Calls, {NoData}, {<<>>}, Options),
   Boot(Rewrite, {[a \in {64} |-> Code(i)] : i \in {Li(17, 93), B(1, 1, 0, -16)}}, {<<>>}, Options)}
    \cup {Boot(call, {NoData}, {<<2>>}, Options) : call \in Range(FileCalls)}

AllBoots == ProbeBoots \cup ScriptBoots

=============================================================================
