---------------------------- MODULE Disassembler ----------------------------
(***************************************************************************)
(* disassemble() of src/src/disassemble.c.  A line of text is the tuple of *)
(* its parts: the mnemonic, then registers by name and numbers; an address *)
(* is a pair of its value and its symbol.  Column widths, commas and       *)
(* radices are left out.  Numbers are read as signed, an address too, so   *)
(* one that wraps around the address space is negative here.               *)
(***************************************************************************)
EXTENDS Decoder, SequencesExt

NULL == "NULL"

RegNames == << "x0", "ra", "sp", "gp", "tp", "t0", "t1", "t2",
               "s0", "s1", "a0", "a1", "a2", "a3", "a4", "a5",
               "a6", "a7", "s2", "s3", "s4", "s5", "s6", "s7",
               "s8", "s9", "s10", "s11", "t3", "t4", "t5", "t6" >>

reg_name(r) == RegNames[r + 1]

ELF32_ST_BIND(val) == val \div 16

(* Mutant: a symbol local to its file names the address too.               *)
symbols_value_to_sym_local(symbols, value) ==
  LET i == SelectInSeq(symbols, LAMBDA s : s.st_value = value)
  IN  IF i = 0 THEN NULL ELSE symbols[i].st_name

(* The first symbol that is not local and has the value (read_elf.c).      *)
symbols_value_to_sym(symbols, value) ==
  LET i == SelectInSeq(symbols, LAMBDA s : s.st_value = value /\ ELF32_ST_BIND(s.st_info) # 0)
  IN  IF i = 0 THEN NULL ELSE symbols[i].st_name

format_addr(symbols, addr) == <<addr, symbols_value_to_sym(symbols, addr)>>

(* The inner switches on funct3.                                           *)
Hole == "unknown"

BranchName == << "beq", "bne", Hole, Hole, "blt", "bge", "bltu", "bgeu" >>
LoadName   == << "lb", "lh", "lw", Hole, "lbu", "lhu", Hole, Hole >>
StoreName  == << "sb", "sh", "sw", Hole, Hole, Hole, Hole, Hole >>
OpImmName  == << "addi", Hole, "slti", "sltiu", "xori", Hole, "ori", "andi" >>
OpName(f7) ==
  CASE f7 = 0  -> << "add", "sll", "slt", "sltu", "xor", "srl", "or", "and" >>
    [] f7 = 32 -> << "sub", "sll", "slt", "sltu", "xor", "sra", "or", "and" >>
    [] f7 = 1  -> << "mul", Hole, Hole, Hole, "div", "divu", "rem", "remu" >>
    [] OTHER   -> << Hole, Hole, Hole, Hole, Hole, Hole, Hole, Hole >>

Named(names, funct3) == names[funct3 + 1]

ShiftName(d) == IF d.funct3 = 1 THEN "slli" ELSE IF d.funct7 = 0 THEN "srli" ELSE "srai"

NoShift(d) == d.funct3 = 5 /\ d.funct7 \notin {0, 32}

SystemText(d, inst) ==
  IF d.funct3 = 0 /\ d.funct12 = 0 THEN <<"ecall">> ELSE <<"system", inst>>

disassemble(addr, inst, symbols) ==
  LET d      == Decode(inst)
      rd     == reg_name(d.rd)
      rs1    == reg_name(d.rs1)
      rs2    == reg_name(d.rs2)
      target == format_addr(symbols, addr + d.imm)
  IN  CASE d.opcode = LUI    -> <<"lui", rd, d.imm \div 4096>>
        [] d.opcode = AUIPC  -> <<"auipc", rd, d.imm \div 4096>>
        [] d.opcode = JAL    -> <<"jal", rd, target>>
        [] d.opcode = JALR   -> <<"jalr", rd, d.imm, rs1>>
        [] d.opcode = BRANCH -> <<Named(BranchName, d.funct3), rs1, rs2, target>>
        [] d.opcode = LOAD   -> <<Named(LoadName, d.funct3), rd, d.imm, rs1>>
        [] d.opcode = STORE  -> <<Named(StoreName, d.funct3), rs2, d.imm, rs1>>
        [] d.opcode = OP_IMM -> IF NoShift(d) THEN <<"unknown", inst>>
                                ELSE IF d.funct3 \in {1, 5}
                                THEN <<ShiftName(d), rd, rs1, d.shamt>>
                                ELSE <<Named(OpImmName, d.funct3), rd, rs1, d.imm>>
        [] d.opcode = OP     -> <<Named(OpName(d.funct7), d.funct3), rd, rs1, rs2>>
        [] d.opcode = SYSTEM -> SystemText(d, inst)
        [] OTHER -> <<"unknown", inst>>

=============================================================================
