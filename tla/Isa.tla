--------------------------------- MODULE Isa ---------------------------------
(***************************************************************************)
(* The cases of the switches of simulate() (src/src/simulate.c): which     *)
(* decoded words it executes and at which it stops.                        *)
(***************************************************************************)
EXTENDS Integers

LUI    == 55
AUIPC  == 23
JAL    == 111
JALR   == 103
BRANCH == 99
LOAD   == 3
STORE  == 35
OP_IMM == 19
OP     == 51
SYSTEM == 115

Opcodes == {LUI, AUIPC, JAL, JALR, BRANCH, LOAD, STORE, OP_IMM, OP, SYSTEM}

BranchCases == {0, 1, 4, 5, 6, 7}
LoadCases   == {0, 1, 2, 4, 5}
StoreCases  == {0, 1, 2}

(* OP with funct7 0x01: MULH, MULHSU and MULHU (1, 2, 3) are missing.      *)
MulDivCases == {0, 4, 5, 6, 7}

(* Mutant: the right shifts are not told apart from what is no shift.      *)
Known_anyshift(d) ==
  /\ d.opcode \in Opcodes
  /\ d.opcode = BRANCH => d.funct3 \in BranchCases
  /\ d.opcode = LOAD   => d.funct3 \in LoadCases
  /\ d.opcode = STORE  => d.funct3 \in StoreCases
  /\ d.opcode = OP     => \/ d.funct7 \in {0, 32}
                          \/ d.funct7 = 1 /\ d.funct3 \in MulDivCases
  /\ d.opcode = SYSTEM => d.funct3 = 0 /\ d.funct12 = 0

(* No case sets running = 0 because of the word itself.  SLLI looks at no  *)
(* funct7, JALR at no funct3, and SUB and SRA share theirs with every OP.  *)
Known(d) ==
  /\ d.opcode \in Opcodes
  /\ d.opcode = BRANCH => d.funct3 \in BranchCases
  /\ d.opcode = LOAD   => d.funct3 \in LoadCases
  /\ d.opcode = STORE  => d.funct3 \in StoreCases
  /\ d.opcode = OP_IMM /\ d.funct3 = 5 => d.funct7 \in {0, 32}
  /\ d.opcode = OP     => \/ d.funct7 \in {0, 32}
                          \/ d.funct7 = 1 /\ d.funct3 \in MulDivCases
  /\ d.opcode = SYSTEM => d.funct3 = 0 /\ d.funct12 = 0

=============================================================================
