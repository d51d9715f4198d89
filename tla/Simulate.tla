------------------------------ MODULE Simulate ------------------------------
(***************************************************************************)
(* simulate() of src/src/simulate.c: one action per case of its switch,    *)
(* each the whole iteration of the loop: fetch, case, enforce_x0.          *)
(*                                                                         *)
(* Decode stands for the bit fields of an instruction word; a word gives a *)
(* record of its fields, with imm the sign-extended immediate of its       *)
(* format and shamt, funct12 the fields that overlap it.                   *)
(*                                                                         *)
(* The address space and the registers are narrow (see Memory and Bits);   *)
(* Reg keeps the registers the programs use.                               *)
(***************************************************************************)
EXTENDS Alu, Predictors, Sequences

CONSTANTS
  Reg,         \* numbers of the registers; x0, a0 (10) and a7 (17) at least
  Decode,      \* function from words to instructions
  Boots,       \* records [text, start, data, input, options]: the loaded
               \* programs; data, input and options (names and sizes given
               \* to -b) are sets, of which a run takes one each
  MaxInsns     \* bound on the number of instructions executed

ASSUME RegAssumption == {0, 10, 17} \subseteq Reg /\ Reg \subseteq Nat

(* Every word has fields; those of a register name one.  The immediate is  *)
(* an int32_t.                                                             *)
ASSUME DecodeAssumption ==
  Decode \in [Word -> [opcode : Nat, rd : Reg, funct3 : 0 .. 7, rs1 : Reg, rs2 : Reg,
                       funct7 : Nat, imm : IntMin .. (WordMod \div 2 - 1),
                       shamt : Nat, funct12 : Nat]]

(* The loader puts words at addresses.                                     *)
ASSUME BootAssumption ==
  \A boot \in Boots :
    /\ \A words \in {boot.text} \cup boot.data :
         DOMAIN words \subseteq Addr /\ \A a \in DOMAIN words : words[a] \in Word
    /\ boot.start \in Int
    /\ boot.input \subseteq Seq(Byte)
    /\ \A o \in boot.options : o[2] \in Int

ASSUME InsnsAssumption == MaxInsns \in Nat

VARIABLES
  mem,         \* struct memory
  regs,        \* regs[]
  pc,
  insn_count,
  status,      \* "running", "stopped" (simulate returned), "exited" (exit(-1))
  predictor,
  stats,       \* struct BPStats
  input,       \* characters getchar has not read yet
  output,      \* characters putchar has written
  branches     \* history: the branches executed; only properties read it

cpu  == <<regs, pc, insn_count>>
bp   == <<predictor, stats, branches>>
io   == <<input, output>>
vars == <<mem, cpu, status, bp, io>>

a0 == 10
a7 == 17

EOF == -1

-----------------------------------------------------------------------------
(* The instruction at pc, and the memory once it is fetched.               *)
inst    == Decode[memory_rd_w(mem, pc)]
Fetched == get_page(mem, pc)

r1 == regs[inst.rs1]
r2 == regs[inst.rs2]

Loop == status = "running" /\ insn_count < MaxInsns

Case(opcode) == Loop /\ Aligned(pc, 4) /\ inst.opcode = opcode

Next4 == Wrap(pc + 4)

(* The register file after rd is written, and after enforce_x0.            *)
Write(rd, val) == [regs EXCEPT ![rd] = IF rd # 0 THEN val ELSE @, ![0] = 0]

Advance(newpc) == pc' = newpc /\ insn_count' = insn_count + 1

(* The iteration ends with val in rd.                                      *)
Retire(val, newpc) ==
  /\ regs' = Write(inst.rd, val)
  /\ Advance(newpc)
  /\ UNCHANGED status

(* running = 0: the word is reported and the loop ends.                    *)
Stop ==
  /\ status' = "stopped"
  /\ Advance(Next4)
  /\ UNCHANGED regs

(* A misaligned data access: memory.c ends the process.                    *)
Crash ==
  /\ status' = "exited"
  /\ Advance(Next4)
  /\ UNCHANGED regs

-----------------------------------------------------------------------------
(* The memory that holds the words of a program and of its data, functions *)
(* from aligned addresses, and nothing else: what main hands to simulate.  *)
Image(text, data) ==
  [p \in {page_number(a) : a \in DOMAIN text \cup DOMAIN data} |->
     [i \in Index |-> LET a == p * PageBytes + 4 * i
                      IN  IF a \in DOMAIN text THEN text[a]
                          ELSE IF a \in DOMAIN data THEN data[a] ELSE 0]]

Init ==
  /\ \E boot \in Boots :
       /\ mem \in {Image(boot.text, data) : data \in boot.data}
       /\ input \in boot.input
       /\ pc = Wrap(boot.start)
       /\ predictor \in {build_predictor(o[1], o[2]) : o \in boot.options}
  /\ regs = [r \in Reg |-> 0]
  /\ insn_count = 0
  /\ status = "running"
  /\ stats = NoBranches
  /\ output = <<>>
  /\ branches = <<>>

(* The fetch itself of a misaligned pc ends the process.                   *)
FetchMisaligned ==
  /\ Loop
  /\ ~ Aligned(pc, 4)
  /\ mem' = Fetched
  /\ status' = "exited"
  /\ UNCHANGED <<cpu, bp, io>>

Lui ==
  /\ Case(LUI)
  /\ Retire(Wrap(inst.imm), Next4)
  /\ mem' = Fetched
  /\ UNCHANGED <<bp, io>>

Auipc ==
  /\ Case(AUIPC)
  /\ Retire(Wrap(pc + inst.imm), Next4)
  /\ mem' = Fetched
  /\ UNCHANGED <<bp, io>>

Jal ==
  /\ Case(JAL)
  /\ Retire(Next4, Wrap(pc + inst.imm))
  /\ mem' = Fetched
  /\ UNCHANGED <<bp, io>>

(* The target is computed from rs1 before rd is written.                   *)
Jalr ==
  /\ Case(JALR)
  /\ LET target == Wrap(r1 + inst.imm)
     IN  Retire(Next4, target - (target % 2))
  /\ mem' = Fetched
  /\ UNCHANGED <<bp, io>>

(* Mutant: the predictor is given the address after the branch.            *)
Profiled_late(target, go) == AfterBranch(predictor, stats, Next4, target, Bool(go))

Profiled(target, go) == AfterBranch(predictor, stats, pc, target, Bool(go))

(* Mutant: the program goes where the predictor guesses.                   *)
Destination_guessed(target, go) ==
  IF predict(predictor, pc, target) = TAKEN THEN target ELSE Next4

Destination(target, go) == IF go THEN target ELSE Next4

(* An unknown funct3 counts as a branch that is not taken: the predictor   *)
(* is asked and trained before the loop stops.                             *)
Branch ==
  /\ Case(BRANCH)
  /\ LET target == Wrap(pc + inst.imm)
         go     == Known(inst) /\ actual_taken(inst.funct3, r1, r2)
         after  == Profiled(target, go)
     IN  /\ predictor' = after.predictor
         /\ stats' = after.stats
         /\ branches' = Append(branches, [pc |-> pc, target |-> target, taken |-> Bool(go)])
         /\ Advance(Destination(target, go))
         /\ status' = IF Known(inst) THEN "running" ELSE "stopped"
  /\ mem' = Fetched
  /\ UNCHANGED <<regs, io>>

eff == Wrap(r1 + inst.imm)

(* The width of an access, in bytes.                                       *)
Size(funct3) == <<1, 2, 4>>[(funct3 % 4) + 1]

(* The value of a load from memory m.                                      *)
Loaded(m) ==
  LET b == memory_rd_b(m, eff)
      h == memory_rd_h(m, eff)
  IN  << Wrap(sext(b, ByteBase \div 2)), Wrap(sext(h, Half \div 2)),
         memory_rd_w(m, eff), 0, b, h >>[inst.funct3 + 1]

Load ==
  /\ Case(LOAD)
  /\ IF ~ Known(inst)
     THEN mem' = Fetched /\ Stop
     ELSE /\ mem' = get_page(Fetched, eff)
          /\ IF Aligned(eff, Size(inst.funct3)) THEN Retire(Loaded(Fetched), Next4)
                                                ELSE Crash
  /\ UNCHANGED <<bp, io>>

Stored(m) ==
  << memory_wr_b(m, eff, r2), memory_wr_h(m, eff, r2),
     memory_wr_w(m, eff, r2) >>[inst.funct3 + 1]

Store ==
  /\ Case(STORE)
  /\ IF ~ Known(inst)
     THEN mem' = Fetched /\ Stop
     ELSE IF Aligned(eff, Size(inst.funct3))
     THEN /\ mem' = Stored(Fetched)
          /\ Advance(Next4)
          /\ UNCHANGED <<regs, status>>
     ELSE mem' = Fetched /\ Crash
  /\ UNCHANGED <<bp, io>>

-----------------------------------------------------------------------------
(* The shifts by an immediate take their amount from the rs2 field; SLLI   *)
(* ignores funct7.                                                         *)
OpImm ==
  /\ Case(OP_IMM)
  /\ IF ~ Known(inst)
     THEN Stop
     ELSE Retire(IF inst.funct3 \in {1, 5}
                 THEN basic(inst.funct3, inst.funct7 = 32, r1, inst.shamt)
                 ELSE basic(inst.funct3, FALSE, r1, Wrap(inst.imm)),
                 Next4)
  /\ mem' = Fetched
  /\ UNCHANGED <<bp, io>>

Op ==
  /\ Case(OP)
  /\ IF ~ Known(inst)
     THEN Stop
     ELSE Retire(IF inst.funct7 = 1 THEN muldiv(inst.funct3, r1, r2)
                 ELSE basic(inst.funct3, inst.funct7 = 32, r1, r2),
                 Next4)
  /\ mem' = Fetched
  /\ UNCHANGED <<bp, io>>

-----------------------------------------------------------------------------
(* Mutant: the character read stays in the input.                          *)
getchar_sticky ==
  /\ Signed(regs[a7]) = 1
  /\ regs' = [regs EXCEPT ![a0] = Wrap(IF input = <<>> THEN EOF ELSE Head(input))]
  /\ Advance(Next4)
  /\ UNCHANGED <<status, output, input>>

(* handle_ecall: a7 selects the call.                                      *)
getchar ==
  /\ Signed(regs[a7]) = 1
  /\ regs' = [regs EXCEPT ![a0] = Wrap(IF input = <<>> THEN EOF ELSE Head(input))]
  /\ input' = IF input = <<>> THEN input ELSE Tail(input)
  /\ Advance(Next4)
  /\ UNCHANGED <<status, output>>

putchar ==
  /\ Signed(regs[a7]) = 2
  /\ output' = Append(output, regs[a0] % ByteBase)
  /\ Advance(Next4)
  /\ UNCHANGED <<status, regs, input>>

(* 3 and 93 terminate, and so does every call it does not know.            *)
terminate ==
  /\ Signed(regs[a7]) \notin {1, 2}
  /\ Stop
  /\ UNCHANGED io

System ==
  /\ Case(SYSTEM)
  /\ IF Known(inst) THEN getchar \/ putchar \/ terminate
                    ELSE Stop /\ UNCHANGED io
  /\ mem' = Fetched
  /\ UNCHANGED bp

UnknownOpcode ==
  /\ Loop
  /\ Aligned(pc, 4)
  /\ inst.opcode \notin Opcodes
  /\ Stop
  /\ mem' = Fetched
  /\ UNCHANGED <<bp, io>>

Next ==
  \/ FetchMisaligned
  \/ Lui \/ Auipc \/ Jal \/ Jalr \/ Branch \/ Load \/ Store
  \/ OpImm \/ Op \/ System \/ UnknownOpcode

Spec == Init /\ [][Next]_vars

(* The loop is the only thread of a process the host keeps running.        *)
FairSpec == Spec /\ WF_vars(Next)

=============================================================================
