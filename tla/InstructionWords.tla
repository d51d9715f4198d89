-------------------------- MODULE InstructionWords --------------------------
(***************************************************************************)
(* One word, decoded by simulate() and listed by disassemble(): either the *)
(* encoding of an instruction of RV32IM after the manual, or any word.     *)
(***************************************************************************)
EXTENDS Disassembler

CONSTANTS
  Addrs,         \* addresses the word may stand at
  Symbols,       \* the symbol table: a sequence of Elf32_Sym
  Registers,     \* register numbers the instructions use
  Immediates,    \* immediates they use, cut to the width of their format
  Funct7s        \* values of bits 31 .. 25 of the words that are anything

ASSUME WordsAssumption ==
  /\ Addrs \subseteq Int
  /\ Registers \subseteq 0 .. 31 /\ Immediates \subseteq Int /\ Funct7s \subseteq 0 .. 127
  /\ Symbols \in Seq([st_value : Int, st_info : 0 .. 255, st_name : STRING])

VARIABLES
  addr, word,
  intent,        \* history: the instruction that was encoded, if one was
  fields,        \* what simulate() sees in the word; empty before it looks
  line           \* what disassemble() prints

words_vars == <<addr, word, intent, fields, line>>

-----------------------------------------------------------------------------
(* The manual: the fields of each format, as the bits of their value from  *)
(* the highest to the lowest and the bit of the word where the lowest is.  *)
Layout == LET Rs == <<"rs1", 4, 0, 15>>  Rt == <<"rs2", 4, 0, 20>>  Rd == <<"rd", 4, 0, 7>>
              F3 == <<"funct3", 2, 0, 12>>  Op7 == <<"opcode", 6, 0, 0>>
              i(high, low, from) == <<"imm", high, low, from>>
          IN [R |-> {<<"funct7", 6, 0, 25>>, Rt, Rs, F3, Rd, Op7},
              I |-> {i(11, 0, 20), Rs, F3, Rd, Op7},
              E |-> {i(11, 0, 20), Rs, F3, Rd, Op7},
              S |-> {i(11, 5, 25), Rt, Rs, F3, i(4, 0, 7), Op7},
              B |-> {i(12, 12, 31), i(10, 5, 25), Rt, Rs, F3, i(4, 1, 8), i(11, 11, 7), Op7},
              U |-> {<<"upper", 19, 0, 12>>, Rd, Op7},
              J |-> {i(20, 20, 31), i(10, 1, 21), i(11, 11, 20), i(19, 12, 12), Rd, Op7}]

(* Each instruction: format, opcode, funct3, funct7, and its operands in   *)
(* the order of the assembly language ("to" is a jump target).             *)
Manual ==
  LET r(f3, f7)  == <<"R", 51, f3, f7, <<"rd", "rs1", "rs2">> >>
      sh(f3, f7) == <<"R", 19, f3, f7, <<"rd", "rs1", "shamt">> >>
      i(f3)      == <<"I", 19, f3, 0, <<"rd", "rs1", "imm">> >>
      l(op, f3)  == <<"I", op, f3, 0, <<"rd", "imm", "rs1">> >>
      s(f3)      == <<"S", 35, f3, 0, <<"rs2", "imm", "rs1">> >>
      b(f3)      == <<"B", 99, f3, 0, <<"rs1", "rs2", "to">> >>
  IN [lui |-> <<"U", 55, 0, 0, <<"rd", "upper">> >>, auipc |-> <<"U", 23, 0, 0, <<"rd", "upper">> >>,
      jal |-> <<"J", 111, 0, 0, <<"rd", "to">> >>, jalr |-> l(103, 0),
      beq |-> b(0), bne |-> b(1), blt |-> b(4), bge |-> b(5), bltu |-> b(6), bgeu |-> b(7),
      lb |-> l(3, 0), lh |-> l(3, 1), lw |-> l(3, 2), lbu |-> l(3, 4), lhu |-> l(3, 5),
      sb |-> s(0), sh |-> s(1), sw |-> s(2),
      addi |-> i(0), slti |-> i(2), sltiu |-> i(3), xori |-> i(4), ori |-> i(6), andi |-> i(7),
      slli |-> sh(1, 0), srli |-> sh(5, 0), srai |-> sh(5, 32),
      add |-> r(0, 0), sub |-> r(0, 32), sll |-> r(1, 0), slt |-> r(2, 0), sltu |-> r(3, 0),
      xor |-> r(4, 0), srl |-> r(5, 0), sra |-> r(5, 32), or |-> r(6, 0), and |-> r(7, 0),
      mul |-> r(0, 1), div |-> r(4, 1), divu |-> r(5, 1), rem |-> r(6, 1), remu |-> r(7, 1),
      ecall |-> <<"E", 115, 0, 0, <<>> >>]

(* The names of the registers, kind by kind, in the calling convention.    *)
ABI == {<<"x0", 0>>, <<"ra", 1>>, <<"sp", 2>>, <<"gp", 3>>, <<"tp", 4>>}
         \cup ToSet(Zip(<<"t0", "t1", "t2", "t3", "t4", "t5", "t6">>, <<5, 6, 7, 28, 29, 30, 31>>))
         \cup ToSet(Zip(<<"a0", "a1", "a2", "a3", "a4", "a5", "a6", "a7">>, [k \in 1 .. 8 |-> 9 + k]))
         \cup ToSet(Zip(<<"s0", "s1">>, <<8, 9>>))
         \cup ToSet(Zip(<<"s2", "s3", "s4", "s5", "s6", "s7", "s8", "s9", "s10", "s11">>,
                        [k \in 1 .. 10 |-> 17 + k]))

-----------------------------------------------------------------------------
(* A word from a format and the values of its fields.                      *)
Holds(piece, i) == i \in piece[4] .. (piece[4] + (piece[2] - piece[3]))

Encode(format, value) ==
  [i \in WordBits |->
     LET piece == CHOOSE p \in Layout[format] : Holds(p, i)
     IN  (value[piece[1]] \div 2^(piece[3] + (i - piece[4]))) % 2]

(* The immediates of a format are a multiple of its unit, below a width.   *)
Signed(bits) == (-(2^(bits - 1))) .. (2^(bits - 1) - 1)

Fits(format, x) ==
  CASE format \in {"I", "S"} -> x \in Signed(12)
    [] format = "B" -> x \in Signed(13) /\ x % 2 = 0
    [] format = "U" -> x \div 4096 \in Signed(20) /\ x % 4096 = 0
    [] format = "J" -> x \in Signed(21) /\ x % 2 = 0
    [] OTHER -> x = 0

Instructions ==
  {[name |-> n, rd |-> rd, rs1 |-> s, rs2 |-> t, imm |-> x] :
     n \in DOMAIN Manual, rd \in Registers, s \in Registers, t \in Registers, x \in Immediates}

Values(i) ==
  [opcode |-> Manual[i.name][2], funct3 |-> Manual[i.name][3], funct7 |-> Manual[i.name][4],
   rd |-> i.rd, rs1 |-> i.rs1, rs2 |-> i.rs2, imm |-> i.imm,
   upper |-> i.imm \div 4096]

AnyWord ==
  {Encode("R", value) :
     value \in [opcode : 0 .. 127, funct3 : 0 .. 7, funct7 : Funct7s, rd : {1}, rs1 : {2}, rs2 : {0, 1}]}

WordsInit ==
  /\ addr \in Addrs
  /\ \/ /\ intent \in {i \in Instructions : Fits(Manual[i.name][1], i.imm)}
        /\ word = Encode(Manual[intent.name][1], Values(intent))
     \/ /\ intent = <<>>
        /\ word \in AnyWord
  /\ fields = <<>>
  /\ line = <<>>

Read ==
  /\ line = <<>>
  /\ fields' = Decode(word)
  /\ line' = disassemble(addr, word, Symbols)
  /\ UNCHANGED <<addr, word, intent>>

WordsNext == Read

WordsSpec == WordsInit /\ [][WordsNext]_words_vars

-----------------------------------------------------------------------------
Seen    == line # <<>>
Encoded == Seen /\ intent # <<>>

(* The masks and shifts of simulate.c:16-51 and 123-131 undo the permuted  *)
(* layout of every format, up to the sign and the extremes of the          *)
(* immediates.                                                             *)
DecodingInvertsEncoding ==
  Encoded =>
    LET carried == {p[1] : p \in Layout[Manual[intent.name][1]]}
    IN  /\ \A f \in carried \ {"upper"} : fields[f] = Values(intent)[f]
        /\ "upper" \in carried => fields.imm = intent.imm

(* A global symbol that stands at an address, or none if there is none.    *)
NamesOf(a) ==
  LET there == {i \in DOMAIN Symbols : /\ Symbols[i].st_value = a
                                        /\ ELF32_ST_BIND(Symbols[i].st_info) # 0}
  IN  IF there = {} THEN {NULL} ELSE {Symbols[i].st_name : i \in there}

Shows(part, operand) ==
  CASE operand \in {"rd", "rs1", "rs2"} -> <<part, intent[operand]>> \in ABI
    [] operand = "shamt" -> part = intent.rs2
    [] operand = "imm"   -> part = intent.imm
    [] operand = "upper" -> part * 4096 = intent.imm
    [] operand = "to"    -> part[1] = addr + intent.imm /\ part[2] \in NamesOf(part[1])

(* The line of disassemble.c:76-281 is the assembly text of the very       *)
(* instruction the word encodes: its name, and its operands in order.      *)
ListedAsWritten ==
  Encoded =>
    LET operands == Manual[intent.name][5]
    IN  /\ line[1] = intent.name
        /\ Len(line) = 1 + Len(operands)
        /\ \A n \in DOMAIN operands : Shows(line[n + 1], operands[n])

(* disassemble.c gives up on a word exactly when simulate.c would stop at  *)
(* it: two switches written apart accept the same words.                   *)
UnknownToBoth ==
  Seen => (line[1] \in {"unknown", "system"} <=> ~ Known(fields))

=============================================================================
