--------------------------- MODULE Simulate_proofs ---------------------------
(***************************************************************************)
(* What the simulator promises, for every width of a word, every program   *)
(* and every predictor: its state stays within its types, prediction does  *)
(* not change what a program does, the profile is that of the branches     *)
(* which were executed, and a program runs as on a RISC-V machine.         *)
(***************************************************************************)
EXTENDS SimulateProps, MachineLemmas

(* Bare is the same text with another predictor, and an action that does   *)
(* not mention the predictor is the same action, whatever it is made of.   *)
LEMMA SameActions ==
  /\ FetchMisaligned => Bare!FetchMisaligned
  /\ Lui => Bare!Lui
  /\ Auipc => Bare!Auipc
  /\ Jal => Bare!Jal
  /\ Jalr => Bare!Jalr
  /\ Load => Bare!Load
  /\ Store => Bare!Store
  /\ OpImm => Bare!OpImm
  /\ Op => Bare!Op
  /\ System => Bare!System
  /\ UnknownOpcode => Bare!UnknownOpcode
<1> USE DEF Bare!get_page, get_page, Bare!page_number, page_number, Bare!index,
            index, Bare!Index, Index, Bare!PageBytes, PageBytes, Bare!WordAt,
            WordAt, Bare!SetWord, SetWord, Bare!Lane, Lane, Bare!Shift, Shift,
            Bare!PutLane, PutLane, Bare!Half, Half, Bare!WordMod, WordMod,
            Bare!memory_rd_w, memory_rd_w, Bare!memory_rd_h, memory_rd_h,
            Bare!memory_rd_b, memory_rd_b, Bare!memory_wr_w, memory_wr_w,
            Bare!memory_wr_h, memory_wr_h, Bare!memory_wr_b, memory_wr_b,
            Bare!Aligned, Aligned, Bare!Wrap, Wrap, Bare!Signed, Signed, Bare!sext,
            sext, Bare!Bool, Bool, Bare!IntMin, IntMin, Bare!Shl, Shl, Bare!Shr,
            Shr, Bare!Sra, Sra, Bare!Magnitude, Magnitude, Bare!Quotient, Quotient,
            Bare!Rest, Rest, Bare!DIV, DIV, Bare!REM, REM, Bare!DIVU, DIVU,
            Bare!REMU, REMU, Bare!BitsOf, BitsOf, Bare!FromBits, FromBits,
            Bare!BitAnd, BitAnd, Bare!BitOr, BitOr, Bare!BitXor, BitXor,
            Bare!SymDiff, SymDiff, Bare!SumFunction, SumFunction,
            Bare!SumFunctionOnSet, SumFunctionOnSet, Bare!FoldFunctionOnSet,
            FoldFunctionOnSet, Bare!MapThenFoldSet, MapThenFoldSet, Bare!basic,
            basic, Bare!muldiv, muldiv, Bare!actual_taken, actual_taken, Bare!LUI,
            LUI, Bare!AUIPC, AUIPC, Bare!JAL, JAL, Bare!JALR, JALR, Bare!BRANCH,
            BRANCH, Bare!LOAD, LOAD, Bare!STORE, STORE, Bare!OP_IMM, OP_IMM,
            Bare!OP, OP, Bare!SYSTEM, SYSTEM, Bare!Opcodes, Opcodes,
            Bare!BranchCases, BranchCases, Bare!LoadCases, LoadCases,
            Bare!StoreCases, StoreCases, Bare!MulDivCases, MulDivCases, Bare!Known,
            Known, Bare!inst, inst, Bare!Fetched, Fetched, Bare!r1, r1, Bare!r2, r2,
            Bare!eff, eff, Bare!Next4, Next4, Bare!Size, Size, Bare!Loaded, Loaded,
            Bare!Stored, Stored, Bare!Loop, Loop, Bare!Case, Case, Bare!Write,
            Write, Bare!Advance, Advance, Bare!Retire, Retire, Bare!Stop, Stop,
            Bare!Crash, Crash, Bare!a0, a0, Bare!a7, a7, Bare!EOF, EOF, Bare!cpu,
            cpu, Bare!io, io, Bare!bp, bp, Bare!Destination, Destination,
            Bare!getchar, getchar, Bare!putchar, putchar, Bare!terminate, terminate
<1>1. FetchMisaligned => Bare!FetchMisaligned
  BY DEF FetchMisaligned, Bare!FetchMisaligned
<1>2. Lui => Bare!Lui
  BY DEF Lui, Bare!Lui
<1>3. Auipc => Bare!Auipc
  BY DEF Auipc, Bare!Auipc
<1>4. Jal => Bare!Jal
  BY DEF Jal, Bare!Jal
<1>5. Jalr => Bare!Jalr
  BY DEF Jalr, Bare!Jalr
<1>6. Load => Bare!Load
  BY DEF Load, Bare!Load
<1>7. Store => Bare!Store
  BY DEF Store, Bare!Store
<1>8. OpImm => Bare!OpImm
  BY DEF OpImm, Bare!OpImm
<1>9. Op => Bare!Op
  BY DEF Op, Bare!Op
<1>10. System => Bare!System
  BY DEF System, Bare!System
<1>11. UnknownOpcode => Bare!UnknownOpcode
  BY DEF UnknownOpcode, Bare!UnknownOpcode
<1> QED
  BY <1>1, <1>2, <1>3, <1>4, <1>5, <1>6, <1>7, <1>8, <1>9, <1>10, <1>11

(* What becomes of no predictor.                                           *)
LEMMA NothingProfiled ==
  ASSUME NEW target, NEW go
  PROVE  /\ NoPredictor' = Bare!Profiled(target, go).predictor
         /\ NoBranches' = Bare!Profiled(target, go).stats
<1>1. Bare!Profiled(target, go) = [predictor |-> NoPredictor, stats |-> NoBranches]
  BY DEF Bare!Profiled, Bare!AfterBranch, NoPredictor
<1>2. NoPredictor' = NoPredictor /\ NoBranches' = NoBranches
  BY DEF NoPredictor, NoBranches
<1> QED
  BY <1>1, <1>2

(* A branch goes where its operands say; what the predictor is given and   *)
(* what it guesses is left behind.                                         *)
LEMMA SameBranch == Branch => Bare!Branch
<1> SUFFICES ASSUME Branch PROVE Bare!Branch
  OBVIOUS
<1> DEFINE target == Wrap(pc + inst.imm)
           go     == Known(inst) /\ actual_taken(inst.funct3, r1, r2)
<1>1. /\ NoPredictor' = Bare!Profiled(target, go).predictor
      /\ NoBranches' = Bare!Profiled(target, go).stats
  BY NothingProfiled
<1> USE DEF Bare!get_page, get_page, Bare!page_number, page_number, Bare!index,
            index, Bare!Index, Index, Bare!PageBytes, PageBytes, Bare!WordAt,
            WordAt, Bare!SetWord, SetWord, Bare!Lane, Lane, Bare!Shift, Shift,
            Bare!PutLane, PutLane, Bare!Half, Half, Bare!WordMod, WordMod,
            Bare!memory_rd_w, memory_rd_w, Bare!memory_rd_h, memory_rd_h,
            Bare!memory_rd_b, memory_rd_b, Bare!memory_wr_w, memory_wr_w,
            Bare!memory_wr_h, memory_wr_h, Bare!memory_wr_b, memory_wr_b,
            Bare!Aligned, Aligned, Bare!Wrap, Wrap, Bare!Signed, Signed, Bare!sext,
            sext, Bare!Bool, Bool, Bare!IntMin, IntMin, Bare!Shl, Shl, Bare!Shr,
            Shr, Bare!Sra, Sra, Bare!Magnitude, Magnitude, Bare!Quotient, Quotient,
            Bare!Rest, Rest, Bare!DIV, DIV, Bare!REM, REM, Bare!DIVU, DIVU,
            Bare!REMU, REMU, Bare!BitsOf, BitsOf, Bare!FromBits, FromBits,
            Bare!BitAnd, BitAnd, Bare!BitOr, BitOr, Bare!BitXor, BitXor,
            Bare!SymDiff, SymDiff, Bare!SumFunction, SumFunction,
            Bare!SumFunctionOnSet, SumFunctionOnSet, Bare!FoldFunctionOnSet,
            FoldFunctionOnSet, Bare!MapThenFoldSet, MapThenFoldSet, Bare!basic,
            basic, Bare!muldiv, muldiv, Bare!actual_taken, actual_taken, Bare!LUI,
            LUI, Bare!AUIPC, AUIPC, Bare!JAL, JAL, Bare!JALR, JALR, Bare!BRANCH,
            BRANCH, Bare!LOAD, LOAD, Bare!STORE, STORE, Bare!OP_IMM, OP_IMM,
            Bare!OP, OP, Bare!SYSTEM, SYSTEM, Bare!Opcodes, Opcodes,
            Bare!BranchCases, BranchCases, Bare!LoadCases, LoadCases,
            Bare!StoreCases, StoreCases, Bare!MulDivCases, MulDivCases, Bare!Known,
            Known, Bare!inst, inst, Bare!Fetched, Fetched, Bare!r1, r1, Bare!r2, r2,
            Bare!eff, eff, Bare!Next4, Next4, Bare!Size, Size, Bare!Loaded, Loaded,
            Bare!Stored, Stored, Bare!Loop, Loop, Bare!Case, Case, Bare!Write,
            Write, Bare!Advance, Advance, Bare!Retire, Retire, Bare!Stop, Stop,
            Bare!Crash, Crash, Bare!a0, a0, Bare!a7, a7, Bare!EOF, EOF, Bare!cpu,
            cpu, Bare!io, io, Bare!bp, bp, Bare!Destination, Destination,
            Bare!getchar, getchar, Bare!putchar, putchar, Bare!terminate, terminate
<1>2. /\ Case(BRANCH)
      /\ branches' = Append(branches, [pc |-> pc, target |-> target, taken |-> Bool(go)])
      /\ Advance(Destination(target, go))
      /\ status' = IF Known(inst) THEN "running" ELSE "stopped"
      /\ mem' = Fetched
      /\ UNCHANGED <<regs, io>>
  BY DEF Branch
<1> QED
  BY <1>1, <1>2 DEF Bare!Branch

(* simulate.c:171-197: with any predictor the program computes, reads,     *)
(* writes and stops as it does with none.                                  *)
THEOREM OnlyObserves == Spec => PredictorOnlyObserves
<1>1. Next => Bare!Next
  BY SameActions, SameBranch DEF Next, Bare!Next
<1>2. UNCHANGED vars => UNCHANGED Bare!vars
  BY DEF vars, cpu, bp, io, Bare!vars, Bare!cpu, Bare!bp, Bare!io
<1>3. [Next]_vars => [Bare!Next]_(Bare!vars)
  BY <1>1, <1>2
<1> QED
  BY <1>3, PTL DEF Spec, PredictorOnlyObserves

-----------------------------------------------------------------------------
(* Words.                                                                  *)
LEMMA WordFacts ==
  /\ Width \in Nat \ {0} /\ Half \in Nat \ {0}
  /\ WordMod \in Nat \ {0} /\ WordMod = 2^Width
  /\ Word = 0 .. (WordMod - 1) /\ Addr = Word /\ 0 \in Word /\ 1 \in Word
  /\ \A x \in Int : Wrap(x) \in Word
  /\ \A w \in Word : w \in Nat /\ Signed(w) \in Int
<1>1. /\ Width \in Nat \ {0} /\ Half \in Nat \ {0}
      /\ WordMod \in Nat \ {0} /\ WordMod = 2^Width
  BY WidthAssumption, WordAssumption, BaseFacts
<1>2. Word = 0 .. (WordMod - 1) /\ Addr = Word /\ 0 \in Word /\ 1 \in Word
  BY <1>1, WordAssumption, BaseFacts DEF Word, Addr
<1>3. \A x \in Int : Wrap(x) \in Word
  BY <1>1, <1>2 DEF Wrap
<1>4. \A w \in Word : w \in Nat /\ Signed(w) \in Int
  BY <1>1, <1>2 DEF Signed
<1> QED
  BY <1>1, <1>2, <1>3, <1>4

LEMMA BitsType ==
  ASSUME NEW x, NEW y
  PROVE  BitAnd(x, y) \in Word /\ BitOr(x, y) \in Word /\ BitXor(x, y) \in Word
<1>1. \A S \in SUBSET (0 .. (Width - 1)) : FromBits(S) \in Word
  BY WordFacts, SumOfPowers DEF FromBits
<1> QED
  BY <1>1 DEF BitAnd, BitOr, BitXor, BitsOf, SymDiff

LEMMA Quotients ==
  ASSUME NEW a \in Nat, NEW b \in Nat \ {0}
  PROVE  a \div b \in Nat /\ a \div b <= a /\ a % b \in Nat /\ a % b <= a
<1>1. /\ a \div b \in Nat /\ a % b \in 0 .. (b - 1)
      /\ a = b * (a \div b) + (a % b)
  BY DivMod
<1>2. ASSUME NEW q \in Nat, NEW r \in Nat, a = b * q + r
      PROVE  q <= a /\ r <= a
  <2>1. b * q >= q
    BY SMT
  <2> QED
    BY <1>2, <2>1, SMT
<1> QED
  BY <1>1, <1>2

LEMMA BasicType ==
  ASSUME NEW f \in 0 .. 7, NEW alt \in BOOLEAN, NEW a \in Word, NEW b \in Nat
  PROVE  basic(f, alt, a, b) \in Word
<1>1. Wrap(a + b) \in Word /\ Wrap(a - b) \in Word
  <2>1. a + b \in Int /\ a - b \in Int
    BY WordFacts
  <2> QED
    BY <2>1, WordFacts
<1>2. PICK p \in Nat \ {0} : p = 2^(b % Width)
  <2>1. b % Width \in Nat
    BY WordFacts
  <2> QED
    BY <2>1, Powers
<1>3. Shl(a, b) \in Word
  <2>1. a * p \in Int
    BY WordFacts
  <2> QED
    BY <1>2, <2>1, WordFacts DEF Shl
<1>4. Shr(a, b) \in Word
  <2>1. a \div p \in Nat /\ a \div p <= a
    BY WordFacts, Quotients
  <2> QED
    BY <1>2, <2>1, WordFacts DEF Shr
<1>5. Sra(a, b) \in Word
  <2>1. Signed(a) \div p \in Int
    BY WordFacts
  <2> QED
    BY <1>2, <2>1, WordFacts DEF Sra
<1>6. \A c : Bool(c) \in Word
  BY WordFacts DEF Bool
<1>7. basic(f, alt, a, b) \in
        {IF alt THEN Wrap(a - b) ELSE Wrap(a + b), Shl(a, b),
         Bool(Signed(a) < Signed(b)), Bool(a < b), BitXor(a, b),
         IF alt THEN Sra(a, b) ELSE Shr(a, b), BitOr(a, b), BitAnd(a, b)}
  BY DEF basic
<1> QED
  BY <1>1, <1>3, <1>4, <1>5, <1>6, <1>7, BitsType

LEMMA MulDivType ==
  ASSUME NEW f \in MulDivCases, NEW a \in Word, NEW b \in Word
  PROVE  muldiv(f, a, b) \in Word
<1> DEFINE x == Signed(a)
           y == Signed(b)
<1>1. a \in Nat /\ b \in Nat /\ x \in Int /\ y \in Int /\ (b # 0 => y # 0)
  BY WordFacts DEF Signed
<1>2. Wrap(x * y) \in Word
  <2>1. x * y \in Int
    BY <1>1
  <2> QED
    BY <2>1, WordFacts
<1> HIDE DEF x, y
<1>3. b # 0 => Quotient(x, y) \in Int
  <2>1. b # 0 => Magnitude(x) \in Nat /\ Magnitude(y) \in Nat \ {0}
    BY <1>1 DEF Magnitude
  <2>2. b # 0 => Magnitude(x) \div Magnitude(y) \in Int
    BY <2>1
  <2> QED
    BY <2>2 DEF Quotient
<1>4. b # 0 => Rest(x, y) \in Int
  <2>1. b # 0 => y * Quotient(x, y) \in Int
    BY <1>1, <1>3
  <2> QED
    BY <1>1, <2>1 DEF Rest
<1>5. Wrap(-1) \in Word /\ Wrap(IntMin) \in Word /\ 0 \in Word
  <2>1. IntMin \in Int /\ -1 \in Int
    BY WordFacts DEF IntMin
  <2> QED
    BY <2>1, WordFacts
<1>6. DIV(a, b) \in Word
  BY <1>3, <1>5, WordFacts DEF DIV, x, y
<1>7. REM(a, b) \in Word
  BY <1>4, <1>5, WordFacts DEF REM, x, y
<1>8. DIVU(a, b) \in Word /\ REMU(a, b) \in Word
  <2>1. b # 0 => /\ a \div b \in Nat /\ a \div b <= a
                 /\ a % b \in Nat /\ a % b <= a
    BY <1>1, Quotients
  <2>2. \A n \in Nat : n <= a => n \in Word
    BY WordFacts
  <2>3. b # 0 => a \div b \in Word /\ a % b \in Word
    BY <2>1, <2>2
  <2> QED
    BY <1>5, <2>3, WordFacts DEF DIVU, REMU
<1>9. muldiv(f, a, b) \in {Wrap(x * y), DIV(a, b), DIVU(a, b), REM(a, b), REMU(a, b)}
  BY DEF muldiv, MulDivCases, x, y
<1> QED
  BY <1>2, <1>6, <1>7, <1>8, <1>9

-----------------------------------------------------------------------------
(* What an iteration reads.                                                *)
LEMMA InstType ==
  ASSUME TypeOK
  PROVE  /\ inst.opcode \in Nat /\ inst.funct3 \in 0 .. 7 /\ inst.imm \in Int
         /\ inst.rd \in Reg /\ inst.shamt \in Nat
         /\ r1 \in Word /\ r2 \in Word /\ eff \in Addr /\ Next4 \in Word
         /\ Wrap(pc + inst.imm) \in Word /\ Wrap(inst.imm) \in Word
         /\ IsMemory(Fetched)
<1>1. pc \in Addr /\ pc \in Nat /\ IsMemory(mem) /\ regs \in [Reg -> Word]
  BY WordFacts DEF TypeOK
<1>2. memory_rd_w(mem, pc) \in Word /\ IsMemory(Fetched)
  BY <1>1, GetPageType DEF memory_rd_w, Fetched
<1>3. inst \in [opcode : Nat, rd : Reg, funct3 : 0 .. 7, rs1 : Reg, rs2 : Reg,
               funct7 : Nat, imm : IntMin .. (WordMod \div 2 - 1),
               shamt : Nat, funct12 : Nat]
  BY <1>2, DecodeAssumption DEF inst
<1> HIDE DEF inst
<1>4. r1 \in Word /\ r2 \in Word /\ r1 \in Nat /\ inst.imm \in Int
  <2>1. inst.imm \in IntMin .. (WordMod \div 2 - 1)
    BY <1>3
  <2>2. inst.imm \in Int
    BY <2>1
  <2> QED
    BY <1>1, <1>3, <2>2, WordFacts DEF r1, r2
<1>5. r1 + inst.imm \in Int /\ pc + inst.imm \in Int /\ pc + 4 \in Int
  BY <1>1, <1>4
<1>6. /\ Wrap(r1 + inst.imm) \in Word /\ Wrap(pc + inst.imm) \in Word
      /\ Wrap(pc + 4) \in Word /\ Wrap(inst.imm) \in Word
  BY <1>4, <1>5, WordFacts
<1> QED
  BY <1>2, <1>3, <1>4, <1>6, WordFacts DEF eff, Next4

LEMMA WriteType ==
  ASSUME regs \in [Reg -> Word], NEW rd \in Reg, NEW val \in Word
  PROVE  Write(rd, val) \in [Reg -> Word]
  BY WordFacts, RegAssumption DEF Write

LEMMA LoadedType ==
  ASSUME TypeOK, NEW m, IsMemory(m), inst.funct3 \in LoadCases
  PROVE  Loaded(m) \in Word
<1> DEFINE b == memory_rd_b(m, eff)
           h == memory_rd_h(m, eff)
           w == memory_rd_w(m, eff)
<1>1. w \in Word
  BY InstType, GetPageType DEF memory_rd_w
<1>2. h \in 0 .. (Half - 1)
  <2> DEFINE d == IF eff % 4 < 2 THEN 1 ELSE Half
  <2>1. w \in Nat /\ d \in Nat \ {0}
    BY <1>1, WordFacts
  <2>2. h = (w \div d) % Half
    BY DEF memory_rd_h, memory_rd_w
  <2> HIDE DEF w, d, h
  <2>3. w \div d \in Nat
    BY <2>1, Quotients
  <2>4. \A q \in Nat : q % Half \in 0 .. (Half - 1)
    BY WordFacts, DivMod
  <2> QED
    BY <2>2, <2>3, <2>4
<1>3. b \in Byte
  BY InstType, RdBytes
<1>4. Half - 1 < WordMod /\ ByteBase - 1 < WordMod
  <2>1. ByteBase <= ByteBase * ByteBase
    BY BaseFacts, SMT
  <2>2. Half <= Half * Half
    BY WordFacts, SMT
  <2> QED
    BY <2>1, <2>2, BaseFacts DEF Half, WordMod
<1> HIDE DEF b, h, w
<1>5. b \in Word /\ h \in Word
  <2>1. b \in Nat /\ b <= ByteBase - 1 /\ h \in Nat /\ h <= Half - 1
    BY <1>2, <1>3, BaseFacts DEF Byte
  <2>2. \A n \in Nat : n < WordMod => n \in Word
    BY WordFacts
  <2>3. b < WordMod /\ h < WordMod
    BY <1>4, <2>1, BaseFacts
  <2> QED
    BY <2>1, <2>2, <2>3
<1>6. /\ Wrap(sext(b, ByteBase \div 2)) \in Word
      /\ Wrap(sext(h, Half \div 2)) \in Word
  <2>1. sext(b, ByteBase \div 2) \in Int /\ sext(h, Half \div 2) \in Int
    BY <1>2, <1>3, BaseFacts, WordFacts DEF Byte, sext
  <2> QED
    BY <2>1, WordFacts
<1>7. Loaded(m) \in {Wrap(sext(b, ByteBase \div 2)), Wrap(sext(h, Half \div 2)), w, b, h}
  BY DEF Loaded, LoadCases, b, h, w
<1> QED
  BY <1>1, <1>5, <1>6, <1>7

LEMMA StoredType ==
  ASSUME TypeOK, NEW m, IsMemory(m), inst.funct3 \in StoreCases,
         Aligned(eff, Size(inst.funct3))
  PROVE  IsMemory(Stored(m))
<1>1. eff \in Addr /\ r2 \in Word
  BY InstType
<1>2. CASE inst.funct3 = 0
  BY <1>1, <1>2, WrBBytes DEF Stored
<1>3. CASE inst.funct3 = 1
  <2>1. Aligned(eff, 2)
    BY <1>3 DEF Size
  <2> QED
    BY <1>1, <1>3, <2>1, WrHBytes DEF Stored
<1>4. CASE inst.funct3 = 2
  <2>1. Aligned(eff, 4)
    BY <1>4 DEF Size
  <2> QED
    BY <1>1, <1>4, <2>1, WrWBytes DEF Stored
<1> QED
  BY <1>2, <1>3, <1>4 DEF StoreCases

-----------------------------------------------------------------------------
(* Replaying one branch more.                                              *)
Step(s, b) == AfterBranch(s.predictor, s.stats, b.pc, b.target, b.taken)

Start(p) == [predictor |-> p, stats |-> NoBranches]

IsReplay(after, p, bs) ==
  after = [n \in 0 .. Len(bs) |-> IF n = 0 THEN Start(p) ELSE Step(after[n - 1], bs[n])]

LEMMA ReplayDef ==
  ASSUME NEW p, NEW bs
  PROVE  Replay(p, bs) = (CHOOSE after : IsReplay(after, p, bs))[Len(bs)]
  BY DEF Replay, IsReplay, Step, Start

LEMMA ReplayExists ==
  ASSUME NEW p, NEW bs, Len(bs) \in Nat
  PROVE  \E after : IsReplay(after, p, bs)
<1> DEFINE Upto(g, k) == \A n \in 0 .. k : g[n] = IF n = 0 THEN Start(p) ELSE Step(g[n - 1], bs[n])
           N == {k \in Nat : \E g : Upto(g, k)}
<1>1. 0 \in N
  <2>1. Upto([n \in {0} |-> Start(p)], 0)
    OBVIOUS
  <2> QED
    BY <2>1
<1>2. ASSUME NEW k \in Nat, k \in N PROVE k + 1 \in N
  <2>1. PICK g : Upto(g, k)
    BY <1>2
  <2> DEFINE h == [n \in 0 .. (k + 1) |-> IF n = k + 1 THEN Step(g[k], bs[n]) ELSE g[n]]
  <2>2. ASSUME NEW n \in 0 .. (k + 1)
        PROVE  h[n] = IF n = 0 THEN Start(p) ELSE Step(h[n - 1], bs[n])
    <3>1. CASE n = k + 1
      <4>1. h[n] = Step(g[k], bs[n]) /\ h[n - 1] = g[k] /\ n # 0
        BY <3>1
      <4> QED
        BY <4>1
    <3>2. CASE n # k + 1
      <4>1. n \in 0 .. k /\ h[n] = g[n] /\ (n # 0 => h[n - 1] = g[n - 1])
        BY <3>2
      <4> QED
        BY <2>1, <4>1
    <3> QED
      BY <3>1, <3>2
  <2> HIDE DEF h
  <2>3. Upto(h, k + 1)
    BY <2>2
  <2> HIDE DEF Upto
  <2> QED
    BY <2>3
<1>3. Len(bs) \in N
  <2> HIDE DEF N
  <2>1. Nat \subseteq N
    BY <1>1, <1>2, NatInd
  <2> QED
    BY <2>1
<1>4. PICK g : Upto(g, Len(bs))
  BY <1>3
<1> DEFINE after == [n \in 0 .. Len(bs) |-> g[n]]
<1>5. ASSUME NEW n \in 0 .. Len(bs)
      PROVE  after[n] = IF n = 0 THEN Start(p) ELSE Step(after[n - 1], bs[n])
  <2>1. n # 0 => n - 1 \in 0 .. Len(bs)
    OBVIOUS
  <2> QED
    BY <1>4, <2>1
<1>6. IsReplay(after, p, bs)
  BY <1>5 DEF IsReplay
<1> QED
  BY <1>6

LEMMA ReplayStep ==
  ASSUME NEW p, NEW B, NEW bs \in Seq(B), NEW b \in B
  PROVE  /\ bs = <<>> => Replay(p, bs) = Start(p)
         /\ Replay(p, Append(bs, b)) = Step(Replay(p, bs), b)
<1> DEFINE cs == Append(bs, b)
           g  == CHOOSE after : IsReplay(after, p, bs)
           h  == CHOOSE after : IsReplay(after, p, cs)
           k  == Len(bs)
           N  == {n \in Nat : n <= k => g[n] = h[n]}
<1>1. /\ k \in Nat /\ Len(cs) = k + 1 /\ cs[k + 1] = b /\ Len(cs) \in Nat
      /\ \A n \in 1 .. k : cs[n] = bs[n]
  OBVIOUS
<1> HIDE DEF cs
<1>2. IsReplay(g, p, bs) /\ Replay(p, bs) = g[k]
  BY <1>1, ReplayExists, ReplayDef
<1>3. IsReplay(h, p, cs) /\ Replay(p, cs) = h[Len(cs)]
  BY <1>1, ReplayExists, ReplayDef
<1> HIDE DEF g, h
<1>4. \A n \in 0 .. k : g[n] = IF n = 0 THEN Start(p) ELSE Step(g[n - 1], bs[n])
  BY <1>1, <1>2 DEF IsReplay
<1>5. \A n \in 0 .. (k + 1) : h[n] = IF n = 0 THEN Start(p) ELSE Step(h[n - 1], cs[n])
  BY <1>1, <1>3 DEF IsReplay
<1> HIDE DEF k
<1>6. 0 \in N
  BY <1>1, <1>4, <1>5
<1>7. ASSUME NEW n \in Nat, n \in N PROVE n + 1 \in N
  <2>1. SUFFICES ASSUME n + 1 <= k PROVE g[n + 1] = h[n + 1]
    OBVIOUS
  <2>2. n + 1 \in 0 .. k /\ n + 1 \in 0 .. (k + 1) /\ n + 1 \in 1 .. k /\ n + 1 # 0
    BY <1>1, <2>1
  <2>3. g[n + 1] = Step(g[(n + 1) - 1], bs[n + 1]) /\ h[n + 1] = Step(h[(n + 1) - 1], cs[n + 1])
    BY <1>4, <1>5, <2>2
  <2>4. (n + 1) - 1 = n /\ g[n] = h[n] /\ cs[n + 1] = bs[n + 1]
    BY <1>1, <1>7, <2>1, <2>2
  <2> QED
    BY <2>3, <2>4
<1>8. g[k] = h[k]
  <2> HIDE DEF N
  <2>1. Nat \subseteq N
    BY <1>6, <1>7, NatInd
  <2> QED
    BY <1>1, <2>1 DEF N
<1>9. h[k + 1] = Step(h[k], b)
  <2>1. k + 1 \in 0 .. (k + 1) /\ k + 1 # 0 /\ (k + 1) - 1 = k
    BY <1>1
  <2>2. h[k + 1] = Step(h[(k + 1) - 1], cs[k + 1])
    BY <1>5, <2>1
  <2> QED
    BY <1>1, <2>1, <2>2
<1>10. bs = <<>> => k = 0 /\ g[0] = Start(p)
  BY <1>1, <1>4 DEF k
<1> QED
  BY <1>1, <1>2, <1>3, <1>8, <1>9, <1>10 DEF cs

-----------------------------------------------------------------------------
(* The types, and the replay that gives the profile.                       *)
IInv == TypeOK /\ ProfileIsReplay

(* The branches that were executed are those of words.                     *)
Executed == [pc : Word, target : Word, taken : Outcome]

LEMMA ImageType ==
  ASSUME NEW text, NEW data,
         \A words \in {text, data} :
           DOMAIN words \subseteq Addr /\ \A a \in DOMAIN words : words[a] \in Word
  PROVE  IsMemory(Image(text, data))
<1> DEFINE D == {page_number(a) : a \in DOMAIN text \cup DOMAIN data}
           V(a) == IF a \in DOMAIN text THEN text[a]
                   ELSE IF a \in DOMAIN data THEN data[a] ELSE 0
<1>1. D \subseteq PageNo
  BY AddressParts
<1>2. \A a : V(a) \in Word
  BY WordFacts
<1> HIDE DEF D, V
<1>3. Image(text, data) = [p \in D |-> [i \in Index |-> V(p * PageBytes + 4 * i)]]
  BY DEF Image, D, V
<1> QED
  BY <1>1, <1>2, <1>3 DEF IsMemory, Page

LEMMA FreshBuilt ==
  ASSUME NEW n, NEW s \in Int
  PROVE  Fresh(build_predictor(n, s)) = build_predictor(n, s)
<1> DEFINE p == build_predictor(n, s)
<1>1. \/ p = NoPredictor
      \/ p = predictor_nt
      \/ p = predictor_btfnt
      \/ /\ p = predictor_bimodal(s) /\ n = "bimodal" /\ is_power_of_two(s)
      \/ /\ p = predictor_gshare(s) /\ n = "gshare" /\ is_power_of_two(s)
  BY Zenon DEF build_predictor, predictor_bimodal, predictor_gshare
<1>2. CASE p \in {NoPredictor, predictor_nt, predictor_btfnt}
  <2>1. ~ HasTable(p)
    BY <1>2 DEF HasTable, NoPredictor, predictor_nt, predictor_btfnt
  <2> QED
    BY <2>1 DEF Fresh
<1>3. CASE p = predictor_bimodal(s) /\ n = "bimodal" /\ is_power_of_two(s)
  <2>1. p.kind = n /\ p.size = s
    BY <1>3 DEF predictor_bimodal
  <2> QED
    BY <2>1 DEF Fresh
<1>4. CASE p = predictor_gshare(s) /\ n = "gshare" /\ is_power_of_two(s)
  <2>1. p.kind = n /\ p.size = s
    BY <1>4 DEF predictor_gshare
  <2> QED
    BY <2>1 DEF Fresh
<1> QED
  BY <1>1, <1>2, <1>3, <1>4

LEMMA InitIInv == Init => IInv
<1> SUFFICES ASSUME Init PROVE IInv
  OBVIOUS
<1>1. PICK boot \in Boots :
        /\ mem \in {Image(boot.text, data) : data \in boot.data}
        /\ input \in boot.input
        /\ pc = Wrap(boot.start)
        /\ predictor \in {build_predictor(o[1], o[2]) : o \in boot.options}
  BY DEF Init
<1>2. IsMemory(mem) /\ input \in Seq(Byte) /\ pc \in Word
  <2>1. PICK data \in boot.data : mem = Image(boot.text, data)
    BY <1>1
  <2>2. \A words \in {boot.text, data} :
          DOMAIN words \subseteq Addr /\ \A a \in DOMAIN words : words[a] \in Word
    BY <2>1, BootAssumption
  <2>3. boot.start \in Int /\ boot.input \subseteq Seq(Byte)
    BY BootAssumption
  <2> QED
    BY <1>1, <2>1, <2>2, <2>3, ImageType, WordFacts
<1>3. PredictorOK(predictor) /\ Fresh(predictor) = predictor
  <2>1. PICK o \in boot.options : predictor = build_predictor(o[1], o[2])
    BY <1>1
  <2>2. o[2] \in Int
    BY BootAssumption
  <2> QED
    BY <2>1, <2>2, BuildFacts, FreshBuilt
<1>4. /\ regs = [r \in Reg |-> 0] /\ insn_count = 0 /\ status = "running"
      /\ stats = NoBranches /\ output = <<>> /\ branches = <<>>
  BY DEF Init
<1>5. TypeOK
  BY <1>2, <1>3, <1>4, WordFacts, InsnsAssumption DEF TypeOK, NoBranches
<1>6. ProfileIsReplay
  <2>1. <<>> \in Seq({0}) /\ 0 \in {0}
    OBVIOUS
  <2>2. Replay(predictor, <<>>) = Start(predictor)
    BY <2>1, ReplayStep
  <2> QED
    BY <1>3, <1>4, <2>2 DEF ProfileIsReplay, Start
<1> QED
  BY <1>5, <1>6 DEF IInv

(* A step that is not a branch leaves the profile alone.                   *)
LEMMA OtherStep ==
  ASSUME IInv, UNCHANGED bp, IsMemory(mem'), regs' \in [Reg -> Word], pc' \in Word,
         insn_count' \in 0 .. MaxInsns, status' \in {"running", "stopped", "exited"},
         input' \in Seq(Byte), output' \in Seq(Byte)
  PROVE  IInv'
<1>1. predictor' = predictor /\ stats' = stats /\ branches' = branches
  BY DEF bp
<1>2. TypeOK'
  BY <1>1 DEF IInv, TypeOK
<1>3. ProfileIsReplay'
  BY <1>1 DEF IInv, ProfileIsReplay
<1> QED
  BY <1>2, <1>3 DEF IInv

LEMMA LoopType ==
  ASSUME IInv, Loop
  PROVE  /\ IsMemory(mem) /\ regs \in [Reg -> Word] /\ pc \in Word
         /\ insn_count \in 0 .. MaxInsns /\ insn_count + 1 \in 0 .. MaxInsns
         /\ input \in Seq(Byte) /\ output \in Seq(Byte)
         /\ status = "running" /\ IsMemory(Fetched) /\ Next4 \in Word
  BY InstType, InsnsAssumption DEF IInv, TypeOK, Loop

(* The iterations that write rd, or stop.                                  *)
LEMMA RetireStep ==
  ASSUME IInv, Loop, UNCHANGED <<bp, io>>, mem' = Fetched \/ IsMemory(mem'),
         NEW val \in Word, NEW newpc \in Word, Retire(val, newpc)
  PROVE  IInv'
<1>1. inst.rd \in Reg
  BY InstType DEF IInv
<1>2. regs' \in [Reg -> Word]
  BY <1>1, LoopType, WriteType DEF Retire
<1> QED
  BY <1>2, LoopType, OtherStep DEF Retire, Advance, io

LEMMA EndStep ==
  ASSUME IInv, Loop, UNCHANGED <<bp, io>>, mem' = Fetched \/ IsMemory(mem'), Stop \/ Crash
  PROVE  IInv'
  BY LoopType, OtherStep DEF Stop, Crash, Advance, io

-----------------------------------------------------------------------------
(* The actions that retire an instruction or end the loop.                 *)
LEMMA FetchMisalignedStep == IInv /\ FetchMisaligned => IInv'
  BY LoopType, OtherStep DEF FetchMisaligned, cpu, io

LEMMA JumpSteps == IInv /\ (Lui \/ Auipc \/ Jal \/ Jalr) => IInv'
<1>1. ASSUME IInv, Lui PROVE IInv'
  BY <1>1, InstType, RetireStep DEF IInv, Lui, Case, io
<1>2. ASSUME IInv, Auipc PROVE IInv'
  BY <1>2, InstType, RetireStep DEF IInv, Auipc, Case, io
<1>3. ASSUME IInv, Jal PROVE IInv'
  BY <1>3, InstType, RetireStep DEF IInv, Jal, Case, io
<1>4. ASSUME IInv, Jalr PROVE IInv'
  <2> DEFINE target == Wrap(r1 + inst.imm)
             newpc  == target - (target % 2)
  <2>1. target \in Word
    BY <1>4, InstType, WordFacts DEF IInv, eff
  <2>2. newpc \in Word
    <3>1. ASSUME NEW w \in Word PROVE w - (w % 2) \in Word
      <4>1. w \in Nat /\ w < WordMod /\ 2 \in Nat \ {0}
        BY WordFacts
      <4>2. w % 2 \in Nat /\ w % 2 <= w
        BY <4>1, Quotients
      <4> QED
        BY <4>1, <4>2, WordFacts
    <3> QED
      BY <2>1, <3>1
  <2>3. Loop /\ Retire(Next4, newpc) /\ mem' = Fetched /\ UNCHANGED <<bp, io>>
    BY <1>4 DEF Jalr, Case
  <2> HIDE DEF newpc
  <2>4. Next4 \in Word
    BY <1>4, InstType DEF IInv
  <2> QED
    BY <1>4, <2>2, <2>3, <2>4, RetireStep
<1> QED
  BY <1>1, <1>2, <1>3, <1>4

LEMMA LoadStep == IInv /\ Load => IInv'
<1> SUFFICES ASSUME IInv, Load PROVE IInv'
  OBVIOUS
<1>1. Loop /\ UNCHANGED <<bp, io>> /\ inst.opcode = LOAD
  BY DEF Load, Case
<1>2. CASE ~ Known(inst)
  BY <1>1, <1>2, EndStep DEF Load
<1>3. CASE Known(inst)
  <2>1. inst.funct3 \in LoadCases
    BY <1>1, <1>3 DEF Known
  <2>2. IsMemory(Fetched) /\ eff \in Addr /\ Next4 \in Word
    BY InstType DEF IInv
  <2>3. IsMemory(get_page(Fetched, eff))
    BY <2>2, GetPageType
  <2>4. Loaded(Fetched) \in Word
    BY <2>1, <2>2, LoadedType DEF IInv
  <2>5. /\ mem' = get_page(Fetched, eff)
        /\ Retire(Loaded(Fetched), Next4) \/ Crash
    BY <1>3 DEF Load
  <2>6. IsMemory(mem')
    BY <2>3, <2>5
  <2> QED
    BY <1>1, <2>2, <2>4, <2>5, <2>6, RetireStep, EndStep
<1> QED
  BY <1>2, <1>3

LEMMA StoreStep == IInv /\ Store => IInv'
<1> SUFFICES ASSUME IInv, Store PROVE IInv'
  OBVIOUS
<1>1. Loop /\ UNCHANGED <<bp, io>> /\ inst.opcode = STORE
  BY DEF Store, Case
<1>2. CASE mem' = Fetched /\ (Stop \/ Crash)
  BY <1>1, <1>2, EndStep
<1>3. CASE /\ Known(inst) /\ Aligned(eff, Size(inst.funct3))
           /\ mem' = Stored(Fetched) /\ Advance(Next4) /\ UNCHANGED <<regs, status>>
  <2>1. inst.funct3 \in StoreCases
    BY <1>1, <1>3 DEF Known
  <2>2. IsMemory(Stored(Fetched))
    BY <1>3, <2>1, InstType, StoredType DEF IInv
  <2>3. IsMemory(mem')
    BY <1>3, <2>2
  <2> QED
    BY <1>1, <1>3, <2>3, LoopType, OtherStep DEF Advance, io
<1> QED
  BY <1>2, <1>3 DEF Store

LEMMA OpImmStep == IInv /\ OpImm => IInv'
<1> SUFFICES ASSUME IInv, OpImm PROVE IInv'
  OBVIOUS
<1> DEFINE val == IF inst.funct3 \in {1, 5}
                  THEN basic(inst.funct3, inst.funct7 = 32, r1, inst.shamt)
                  ELSE basic(inst.funct3, FALSE, r1, Wrap(inst.imm))
<1>1. val \in Word
  <2>1. /\ inst.funct3 \in 0 .. 7 /\ inst.shamt \in Nat /\ r1 \in Word
        /\ Wrap(inst.imm) \in Nat
    BY InstType, WordFacts DEF IInv
  <2>2. (inst.funct7 = 32) \in BOOLEAN /\ FALSE \in BOOLEAN
    OBVIOUS
  <2>3. basic(inst.funct3, inst.funct7 = 32, r1, inst.shamt) \in Word
    BY <2>1, <2>2, BasicType
  <2>4. basic(inst.funct3, FALSE, r1, Wrap(inst.imm)) \in Word
    BY <2>1, <2>2, BasicType
  <2> QED
    BY <2>3, <2>4
<1>2. /\ Loop /\ UNCHANGED <<bp, io>> /\ mem' = Fetched
      /\ Stop \/ Retire(val, Next4)
  BY DEF OpImm, Case
<1> HIDE DEF val
<1> QED
  BY <1>1, <1>2, LoopType, RetireStep, EndStep

LEMMA OpStep == IInv /\ Op => IInv'
<1> SUFFICES ASSUME IInv, Op PROVE IInv'
  OBVIOUS
<1> DEFINE val == IF inst.funct7 = 1 THEN muldiv(inst.funct3, r1, r2)
                  ELSE basic(inst.funct3, inst.funct7 = 32, r1, r2)
<1>1. Known(inst) => val \in Word
  <2>1. /\ inst.funct3 \in 0 .. 7 /\ r1 \in Word /\ r2 \in Word /\ r2 \in Nat
        /\ inst.opcode = OP
    BY InstType, WordFacts DEF IInv, Op, Case
  <2>2. (inst.funct7 = 32) \in BOOLEAN
    OBVIOUS
  <2>3. basic(inst.funct3, inst.funct7 = 32, r1, r2) \in Word
    BY <2>1, <2>2, BasicType
  <2>4. Known(inst) /\ inst.funct7 = 1 => inst.funct3 \in MulDivCases
    BY <2>1 DEF Known
  <2>5. Known(inst) /\ inst.funct7 = 1 => muldiv(inst.funct3, r1, r2) \in Word
    BY <2>1, <2>4, MulDivType
  <2> QED
    BY <2>3, <2>5
<1>2. /\ Loop /\ UNCHANGED <<bp, io>> /\ mem' = Fetched
      /\ Stop \/ (Known(inst) /\ Retire(val, Next4))
  BY DEF Op, Case
<1> HIDE DEF val
<1> QED
  BY <1>1, <1>2, LoopType, RetireStep, EndStep

LEMMA UnknownOpcodeStep == IInv /\ UnknownOpcode => IInv'
  BY EndStep DEF UnknownOpcode

LEMMA SystemStep == IInv /\ System => IInv'
<1> SUFFICES ASSUME IInv, System PROVE IInv'
  OBVIOUS
<1>1. Loop /\ mem' = Fetched /\ UNCHANGED bp
  BY DEF System, Case
<1>2. CASE Stop /\ UNCHANGED io
  BY <1>1, <1>2, EndStep
<1>3. CASE getchar
  <2> DEFINE c == IF input = <<>> THEN EOF ELSE Head(input)
  <2>1. input \in Seq(Byte) /\ regs \in [Reg -> Word]
    BY <1>1, LoopType
  <2>2. c \in Int
    BY <2>1, BaseFacts DEF EOF, Byte
  <2>3. Wrap(c) \in Word
    BY <2>2, WordFacts
  <2>4. /\ regs' = [regs EXCEPT ![a0] = Wrap(c)]
        /\ input' = IF input = <<>> THEN input ELSE Tail(input)
        /\ Advance(Next4) /\ UNCHANGED <<status, output>>
    BY <1>3 DEF getchar
  <2> HIDE DEF c
  <2>5. input' \in Seq(Byte)
    BY <2>1, <2>4
  <2>6. regs' \in [Reg -> Word]
    BY <2>1, <2>3, <2>4
  <2> QED
    BY <1>1, <2>4, <2>5, <2>6, LoopType, OtherStep DEF Advance
<1>4. CASE putchar
  <2>1. a0 \in Reg
    BY RegAssumption DEF a0
  <2>2. regs[a0] % ByteBase \in Byte
    <3>1. regs[a0] \in Nat
      BY <1>1, <2>1, LoopType, WordFacts
    <3> QED
      BY <3>1, BaseFacts DEF Byte
  <2>3. output' \in Seq(Byte)
    BY <1>1, <1>4, <2>2, LoopType DEF putchar
  <2> QED
    BY <1>1, <1>4, <2>3, LoopType, OtherStep DEF putchar, Advance
<1> QED
  BY <1>2, <1>3, <1>4 DEF System, terminate

(* A branch is one step more of the replay.                                *)
LEMMA BranchStep == IInv /\ Branch => IInv'
<1> SUFFICES ASSUME IInv, Branch PROVE IInv'
  OBVIOUS
<1> DEFINE target == Wrap(pc + inst.imm)
           go     == Known(inst) /\ actual_taken(inst.funct3, r1, r2)
           b      == [pc |-> pc, target |-> target, taken |-> Bool(go)]
           after  == AfterBranch(predictor, stats, pc, target, Bool(go))
<1>1. /\ Loop
      /\ predictor' = after.predictor /\ stats' = after.stats
      /\ branches' = Append(branches, b)
      /\ Advance(Destination(target, go))
      /\ status' \in {"running", "stopped"}
      /\ mem' = Fetched /\ UNCHANGED <<regs, io>>
  BY DEF Branch, Case, Profiled
<1>2. /\ pc \in Word /\ target \in Word /\ Bool(go) \in Outcome
      /\ Destination(target, go) \in Word
  BY <1>1, LoopType, InstType DEF IInv, Bool, Outcome, TAKEN, NOT_TAKEN, Destination
<1> HIDE DEF target, go
<1>3. b \in Executed /\ branches \in Seq(Executed)
  BY <1>2 DEF IInv, TypeOK, Executed
<1>4. /\ PredictorOK(predictor) /\ stats \in [total_branches : Nat, mispredictions : Nat]
      /\ stats.total_branches \in Nat /\ stats.mispredictions \in Nat
  BY DEF IInv, TypeOK
<1>5. /\ PredictorOK(after.predictor)
      /\ after.predictor.kind = predictor.kind
      /\ IF HasTable(predictor) THEN after.predictor.size = predictor.size
                                ELSE after.predictor = predictor
      /\ after.stats \in [total_branches : Nat, mispredictions : Nat]
  BY <1>2, <1>4, AfterBranchFacts
<1>6. after = [predictor |-> after.predictor, stats |-> after.stats]
  BY DEF AfterBranch
<1>7. Step([predictor |-> predictor, stats |-> stats], b) = after
  BY DEF Step
<1> HIDE DEF after
<1>8. Fresh(predictor') = Fresh(predictor)
  BY <1>1, <1>5 DEF Fresh, HasTable
<1> HIDE DEF b
<1>9. Replay(Fresh(predictor), Append(branches, b)) = after
  <2>1. Replay(Fresh(predictor), Append(branches, b))
          = Step(Replay(Fresh(predictor), branches), b)
    BY <1>3, ReplayStep
  <2>2. Replay(Fresh(predictor), branches) = [predictor |-> predictor, stats |-> stats]
    BY DEF IInv, ProfileIsReplay
  <2> QED
    BY <1>7, <2>1, <2>2
<1>10. ProfileIsReplay'
  BY <1>1, <1>6, <1>8, <1>9 DEF ProfileIsReplay
<1>11. branches' \in Seq(Executed)
  BY <1>1, <1>3
<1>12. /\ IsMemory(mem') /\ regs' \in [Reg -> Word] /\ pc' \in Word
       /\ insn_count' \in 0 .. MaxInsns /\ input' \in Seq(Byte) /\ output' \in Seq(Byte)
  BY <1>1, <1>2, LoopType DEF Advance, io
<1>13. TypeOK'
  BY <1>1, <1>5, <1>11, <1>12 DEF TypeOK, Executed
<1> QED
  BY <1>10, <1>13 DEF IInv

LEMMA StepIInv == IInv /\ [Next]_vars => IInv'
<1>1. IInv /\ UNCHANGED vars => IInv'
  BY DEF IInv, TypeOK, ProfileIsReplay, vars, cpu, bp, io
<1> QED
  BY <1>1, FetchMisalignedStep, JumpSteps, BranchStep, LoadStep, StoreStep, OpImmStep,
     OpStep, SystemStep, UnknownOpcodeStep
     DEF Next

(* The machine's values keep their ranges and the profile is a replay at   *)
(* every instruction, for every program and every predictor.               *)
THEOREM Invariant == Spec => []IInv
  BY InitIInv, StepIInv, PTL DEF Spec

(* simulate.c:171-197: the numbers printed are those of a fresh predictor  *)
(* that is fed the branches which were executed, in their order.           *)
THEOREM ProfileReplays == Spec => []ProfileIsReplay
<1>1. IInv => ProfileIsReplay
  BY DEF IInv
<1> QED
  BY <1>1, Invariant, PTL

-----------------------------------------------------------------------------
(* Words as signed numbers.                                                *)
LEMMA HalfFacts ==
  \E h \in Nat \ {0} :
    /\ WordMod = 2 * h /\ WordMod \div 2 = h /\ h = 2^(Width - 1)
    /\ IntMin = -h /\ Machine!M = WordMod
    /\ Machine!SignedWord = (-h) .. (h - 1)
    /\ ByteBase \in Nat /\ Half \in Nat /\ 2 <= ByteBase /\ 2 * ByteBase <= Half /\ Half <= h
<1>1. PICK h \in Nat \ {0} : h = 2^(Width - 1)
  <2>1. Width - 1 \in Nat
    BY WordFacts
  <2> QED
    BY <2>1, Powers
<1>2. 2^((Width - 1) + 1) = 2 * 2^(Width - 1)
  BY WordFacts, Powers
<1>3. WordMod = 2 * h
  BY <1>1, <1>2, WordFacts
<1>4. WordMod \div 2 = h
  BY <1>3
<1>5. Machine!M = WordMod
  BY WordFacts DEF Machine!M
<1>6. /\ ByteBase \in Nat /\ Half \in Nat /\ 2 <= ByteBase /\ 2 * ByteBase <= Half
      /\ 2 * Half <= WordMod
  <2>1. ByteBase \in Nat /\ 2 <= ByteBase
    BY GeometryAssumption
  <2>2. \A b \in Nat : 2 <= b => b * b \in Nat /\ 2 * b <= b * b
    BY SMT
  <2>3. Half \in Nat /\ 2 * ByteBase <= Half
    BY <2>1, <2>2 DEF Half
  <2>4. 2 <= Half
    BY <2>1, <2>3
  <2>5. 2 * Half <= WordMod
    BY <2>2, <2>3, <2>4 DEF WordMod
  <2> QED
    BY <2>1, <2>3, <2>5
<1>7. Half <= h
  BY <1>3, <1>6
<1> QED
  BY <1>1, <1>3, <1>4, <1>5, <1>6, <1>7 DEF Machine!SignedWord, IntMin

(* A register and the number it stands for.                                *)
LEMMA SignedWords ==
  /\ Machine!SignedWord \subseteq Int
  /\ \A w \in Word : Signed(w) \in Machine!SignedWord /\ Wrap(Signed(w)) = w
  /\ \A v \in Machine!SignedWord : Signed(Wrap(v)) = v
  /\ \A w \in Word : Wrap(w) = w
<1>1. PICK h \in Nat \ {0} : /\ WordMod = 2 * h /\ WordMod \div 2 = h
                             /\ Machine!SignedWord = (-h) .. (h - 1)
  BY HalfFacts
<1>2. Machine!SignedWord \subseteq Int
  BY <1>1
<1>3. ASSUME NEW w \in Word
      PROVE  Signed(w) \in Machine!SignedWord /\ Wrap(Signed(w)) = w /\ Wrap(w) = w
  <2>1. w \in 0 .. (2 * h - 1)
    BY <1>1, WordFacts
  <2> QED
    BY <1>1, <2>1, SMT DEF Signed, Wrap
<1>4. ASSUME NEW v \in Machine!SignedWord PROVE Signed(Wrap(v)) = v
  <2>1. v \in (-h) .. (h - 1)
    BY <1>1
  <2>2. v % (2 * h) = IF v < 0 THEN v + 2 * h ELSE v
    BY <2>1, SMT
  <2> QED
    BY <1>1, <2>1, <2>2, SMT DEF Signed, Wrap
<1> QED
  BY <1>2, <1>3, <1>4

LEMMA Narrowed ==
  ASSUME NEW v \in Int
  PROVE  Machine!Narrow(v) = Signed(Wrap(v)) /\ Machine!Unsigned(v) = Wrap(v)
<1>1. PICK h \in Nat \ {0} : WordMod = 2 * h /\ WordMod \div 2 = h /\ Machine!M = WordMod
  BY HalfFacts
<1>2. PICK m \in Nat \ {0} : m = 2 * h
  OBVIOUS
<1>3. ((v + h) % m) - h = IF v % m >= h THEN (v % m) - m ELSE v % m
  <2>1. PICK q \in Int, r \in 0 .. (m - 1) : v = m * q + r /\ r = v % m
    <3>1. v % m \in 0 .. (m - 1) /\ v \div m \in Int /\ v = m * (v \div m) + (v % m)
      BY IntDivMod
    <3> QED
      BY <3>1
  <2>2. PICK c \in Int : c = m * q
    OBVIOUS
  <2>3. (v + h) % m = (r + h) % m
    <3>1. v = c + r
      BY <2>1, <2>2, Zenon
    <3>2. v + h = (r + h) + c /\ v + h \in Int /\ r + h \in Int
      BY <3>1
    <3> QED
      BY <2>2, <3>2, ModPlus
  <2>4. (r + h) % m = IF r >= h THEN r + h - m ELSE r + h
    BY <1>2, SMT
  <2> QED
    BY <1>2, <2>1, <2>3, <2>4
<1> QED
  BY <1>1, <1>2, <1>3 DEF Machine!Narrow, Machine!Unsigned, Signed, Wrap

(* Numbers that a word does not tell apart.                                *)
LEMMA Congruent ==
  ASSUME NEW u \in Int, NEW v \in Int
  PROVE  Wrap(u) = Wrap(v) <=> \E k \in Int : u = v + WordMod * k
<1>1. PICK m \in Nat \ {0} : m = WordMod
  BY WordFacts
<1>2. ASSUME u % m = v % m PROVE \E k \in Int : u = v + m * k
  <2>1. PICK q \in Int, r \in 0 .. (m - 1) : u = m * q + r /\ r = u % m
    BY IntDivMod
  <2>2. PICK p \in Int : v = m * p + r
    BY <1>2, <2>1, IntDivMod
  <2>3. q - p \in Int /\ u = v + m * (q - p)
    <3>1. m * (q - p) = m * q - m * p
      BY SMT
    <3>2. m * q \in Int /\ m * p \in Int
      BY SMT
    <3> QED
      BY <2>1, <2>2, <3>1, <3>2
  <2> QED
    BY <2>3
<1>3. ASSUME NEW k \in Int, u = v + m * k PROVE u % m = v % m
  BY <1>3, DivPlus
<1> QED
  BY <1>1, <1>2, <1>3 DEF Wrap

LEMMA WrapFacts ==
  ASSUME NEW u \in Int, NEW v \in Int
  PROVE  /\ Wrap(Wrap(u) + v) = Wrap(u + v)
         /\ Wrap(Wrap(u) + Wrap(v)) = Wrap(u + v)
         /\ Wrap(Wrap(u) - Wrap(v)) = Wrap(u - v)
<1>1. PICK m \in Nat \ {0} : m = WordMod
  BY WordFacts
<1>2. \A z \in Int : \E q, r, c \in Int : c = m * q /\ z = c + r /\ r = z % m
  <2> SUFFICES ASSUME NEW z \in Int
               PROVE  \E q, r, c \in Int : c = m * q /\ z = c + r /\ r = z % m
    OBVIOUS
  <2>1. z % m \in 0 .. (m - 1) /\ z \div m \in Int /\ z = m * (z \div m) + (z % m)
    BY IntDivMod
  <2>2. z % m \in Int /\ m * (z \div m) \in Int
    BY <2>1
  <2> QED
    BY <2>1, <2>2
<1>3. PICK q, r, c \in Int : c = m * q /\ u = c + r /\ r = u % m
  BY <1>2
<1>4. PICK p, s, d \in Int : d = m * p /\ v = d + s /\ s = v % m
  BY <1>2
<1>5. c = m * q /\ d = m * p
  BY <1>3, <1>4
<1>6. u = c + r /\ v = d + s
  BY <1>3, <1>4
<1>7. PICK t \in Int, e \in Int : e = m * t /\ e = c - d
  <2>1. PICK t \in Int : t = q - p
    OBVIOUS
  <2>2. m * t = m * q - m * p
    BY <2>1, SMT
  <2>3. m * t = c - d /\ c - d \in Int
    BY <1>5, <2>2
  <2> QED
    BY <2>3
<1>8. e = c - d
  BY <1>7
<1>9. u + v = (r + v) + c /\ r + v = (r + s) + d /\ u - v = (r - s) + e
  BY <1>6, <1>8
<1>10. /\ u + v \in Int /\ r + v \in Int /\ r + s \in Int /\ u - v \in Int
      /\ r - s \in Int
  OBVIOUS
<1>11. \A x, y, a, k \in Int : a = m * k /\ x = y + a => x % m = y % m
  BY ModPlus
<1>12. (u + v) % m = (r + v) % m
  BY <1>5, <1>9, <1>10, <1>11
<1>13. (r + v) % m = (r + s) % m
  BY <1>5, <1>9, <1>10, <1>11
<1>14. e = m * t
  BY <1>7
<1>15. (u - v) % m = (r - s) % m
  <2>1. PICK x, y \in Int : x = u - v /\ y = r - s
    OBVIOUS
  <2>2. x = y + e
    BY <1>9, <2>1
  <2>3. x % m = y % m
    BY <1>14, <1>11, <2>2
  <2> QED
    BY <2>1, <2>3
<1> QED
  BY <1>1, <1>3, <1>4, <1>12, <1>13, <1>15 DEF Wrap

-----------------------------------------------------------------------------
(* The bits of words.                                                      *)
LEMMA BitsOfWrapped ==
  ASSUME NEW v \in Int, NEW i \in 0 .. (Width - 1)
  PROVE  BitOf(Wrap(v), i) = BitOf(v, i)
<1>1. Width \in Nat /\ WordMod = 2^Width
  BY WordFacts
<1> QED
  BY <1>1, LowBits DEF Wrap

LEMMA KnownByBits ==
  ASSUME NEW w \in Word, NEW v \in Machine!SignedWord
  PROVE  (\A i \in 0 .. (Width - 1) : BitOf(v, i) = BitOf(w, i)) <=> v = Signed(w)
<1>1. v \in Int /\ Signed(w) \in Int /\ Wrap(v) \in Word /\ Wrap(Signed(w)) = w
      /\ Signed(Wrap(v)) = v
  BY SignedWords, WordFacts
<1>2. ASSUME \A i \in 0 .. (Width - 1) : BitOf(v, i) = BitOf(w, i) PROVE v = Signed(w)
  <2>1. \A i \in 0 .. (Width - 1) : BitOf(Wrap(v), i) = BitOf(w, i)
    BY <1>1, <1>2, BitsOfWrapped
  <2>2. Width \in Nat /\ Word = 0 .. (2^Width - 1)
    BY WordFacts
  <2>3. Wrap(v) = w
    BY <1>1, <2>1, <2>2, BitsUnique
  <2> QED
    BY <1>1, <2>3
<1>3. ASSUME v = Signed(w), NEW i \in 0 .. (Width - 1) PROVE BitOf(v, i) = BitOf(w, i)
  BY <1>1, <1>3, BitsOfWrapped
<1> QED
  BY <1>2, <1>3

(* The bits beyond the sign bit repeat it.                                 *)
LEMMA HighBits ==
  /\ \A w \in Word, j \in Nat : j >= Width => BitOf(w, j) = 0
  /\ \A v \in Machine!SignedWord, j \in Nat :
       j >= Width - 1 => BitOf(v, j) = IF v < 0 THEN 1 ELSE 0
<1>1. PICK h \in Nat \ {0} : h = 2^(Width - 1) /\ Machine!SignedWord = (-h) .. (h - 1)
  BY HalfFacts
<1>2. Width \in Nat /\ Width - 1 \in Nat /\ Word = 0 .. (2^Width - 1) /\ 2^Width \in Nat
  BY WordFacts
<1>3. ASSUME NEW w \in Word, NEW j \in Nat, j >= Width PROVE BitOf(w, j) = 0
  <2>1. PICK p \in Nat \ {0} : p = 2^j
    BY Powers
  <2>2. 2^Width <= p
    BY <1>2, <1>3, <2>1, PowerUp
  <2>3. w \in (-p) .. (p - 1) /\ ~ (w < 0)
    BY <1>2, <2>2
  <2> QED
    BY <2>1, <2>3, SmallDiv DEF BitOf
<1>4. ASSUME NEW v \in Machine!SignedWord, NEW j \in Nat, j >= Width - 1
      PROVE  BitOf(v, j) = IF v < 0 THEN 1 ELSE 0
  <2>1. PICK p \in Nat \ {0} : p = 2^j
    BY Powers
  <2>2. h <= p
    BY <1>1, <1>2, <1>4, <2>1, PowerUp
  <2>3. v \in (-p) .. (p - 1)
    BY <1>1, <2>2
  <2> QED
    BY <2>1, <2>3, SmallDiv DEF BitOf
<1> QED
  BY <1>3, <1>4

-----------------------------------------------------------------------------
(* The results of the instructions.                                        *)
LEMMA Sums ==
  ASSUME NEW x \in Int, NEW y \in Int
  PROVE  /\ Signed(Wrap(Wrap(x) + Wrap(y))) = Machine!Result("ADD", x, y)
         /\ Signed(Wrap(Wrap(x) - Wrap(y))) = Machine!Result("SUB", x, y)
<1>1. x + y \in Int /\ x - y \in Int
  OBVIOUS
<1>2. Signed(Wrap(x + y)) = Machine!Narrow(x + y) /\ Signed(Wrap(x - y)) = Machine!Narrow(x - y)
  BY <1>1, Narrowed
<1> QED
  BY <1>2, WrapFacts DEF Machine!Result

LEMMA Comparisons ==
  ASSUME NEW x \in Machine!SignedWord, NEW y \in Machine!SignedWord
  PROVE  /\ Signed(Bool(Signed(Wrap(x)) < Signed(Wrap(y)))) = Machine!Result("SLT", x, y)
         /\ Signed(Bool(Wrap(x) < Wrap(y))) = Machine!Result("SLTU", x, y)
<1>1. x \in Int /\ y \in Int /\ Signed(Wrap(x)) = x /\ Signed(Wrap(y)) = y
  BY SignedWords
<1>2. Signed(0) = 0 /\ Signed(1) = 1
  <2>1. PICK h \in Nat \ {0} : WordMod \div 2 = h /\ 1 < h
    BY HalfFacts
  <2> QED
    BY <2>1 DEF Signed
<1>3. Machine!Unsigned(x) = Wrap(x) /\ Machine!Unsigned(y) = Wrap(y)
  BY <1>1, Narrowed
<1>4. \A c : Signed(Bool(c)) = Machine!Truth(c)
  BY <1>2 DEF Bool, Machine!Truth
<1> QED
  BY <1>1, <1>3, <1>4 DEF Machine!Result

LEMMA Logic ==
  ASSUME NEW x \in Machine!SignedWord, NEW y \in Machine!SignedWord
  PROVE  /\ Signed(BitXor(Wrap(x), Wrap(y))) = Machine!Result("XOR", x, y)
         /\ Signed(BitOr(Wrap(x), Wrap(y))) = Machine!Result("OR", x, y)
         /\ Signed(BitAnd(Wrap(x), Wrap(y))) = Machine!Result("AND", x, y)
<1>1. x \in Int /\ y \in Int
  BY SignedWords
<1>2. \A i \in 0 .. (Width - 1) : /\ i \in Nat
                                 /\ BitOf(Wrap(x), i) = BitOf(x, i) /\ BitOf(x, i) \in {0, 1}
                                 /\ BitOf(Wrap(y), i) = BitOf(y, i) /\ BitOf(y, i) \in {0, 1}
  <2>1. \A i \in 0 .. (Width - 1) : i \in Nat
    BY WordFacts
  <2> QED
    BY <1>1, <2>1, BitsOfWrapped, BitType
<1>3. /\ BitXor(Wrap(x), Wrap(y)) \in Word /\ BitOr(Wrap(x), Wrap(y)) \in Word
      /\ BitAnd(Wrap(x), Wrap(y)) \in Word
  BY BitsType
<1>4. Signed(BitXor(Wrap(x), Wrap(y))) = Machine!Result("XOR", x, y)
  <2>1. \A i \in 0 .. (Width - 1) :
          BitOf(BitXor(Wrap(x), Wrap(y)), i)
            = Machine!Truth(Machine!Bit(x, i) # Machine!Bit(y, i))
    BY <1>2, BitsOfLogic DEF Machine!Truth, Machine!Bit, BitOf
  <2>2. \A v \in Machine!SignedWord :
          (\A i \in 0 .. (Width - 1) :
             Machine!Bit(v, i) = Machine!Truth(Machine!Bit(x, i) # Machine!Bit(y, i)))
          <=> v = Signed(BitXor(Wrap(x), Wrap(y)))
    BY <1>3, <2>1, KnownByBits DEF Machine!Bit, BitOf
  <2> QED
    BY <1>3, <2>2, SignedWords DEF Machine!Result, Machine!WithBits
<1>5. Signed(BitOr(Wrap(x), Wrap(y))) = Machine!Result("OR", x, y)
  <2>1. \A i \in 0 .. (Width - 1) :
          BitOf(BitOr(Wrap(x), Wrap(y)), i)
            = Machine!Truth(Machine!Bit(x, i) = 1 \/ Machine!Bit(y, i) = 1)
    BY <1>2, BitsOfLogic DEF Machine!Truth, Machine!Bit, BitOf
  <2>2. \A v \in Machine!SignedWord :
          (\A i \in 0 .. (Width - 1) :
             Machine!Bit(v, i) = Machine!Truth(Machine!Bit(x, i) = 1 \/ Machine!Bit(y, i) = 1))
          <=> v = Signed(BitOr(Wrap(x), Wrap(y)))
    BY <1>3, <2>1, KnownByBits DEF Machine!Bit, BitOf
  <2> QED
    BY <1>3, <2>2, SignedWords DEF Machine!Result, Machine!WithBits
<1>6. Signed(BitAnd(Wrap(x), Wrap(y))) = Machine!Result("AND", x, y)
  <2>1. \A i \in 0 .. (Width - 1) :
          BitOf(BitAnd(Wrap(x), Wrap(y)), i)
            = Machine!Truth(Machine!Bit(x, i) = 1 /\ Machine!Bit(y, i) = 1)
    BY <1>2, BitsOfLogic DEF Machine!Truth, Machine!Bit, BitOf
  <2>2. \A v \in Machine!SignedWord :
          (\A i \in 0 .. (Width - 1) :
             Machine!Bit(v, i) = Machine!Truth(Machine!Bit(x, i) = 1 /\ Machine!Bit(y, i) = 1))
          <=> v = Signed(BitAnd(Wrap(x), Wrap(y)))
    BY <1>3, <2>1, KnownByBits DEF Machine!Bit, BitOf
  <2> QED
    BY <1>3, <2>2, SignedWords DEF Machine!Result, Machine!WithBits
<1> QED
  BY <1>4, <1>5, <1>6

(* The amount of a shift is what it is modulo the number of bits.          *)
LEMMA Shifts ==
  ASSUME NEW x \in Machine!SignedWord, NEW b \in Nat, NEW y \in Int, b % Width = y % Width
  PROVE  /\ Signed(Shl(Wrap(x), b)) = Machine!Result("SLL", x, y)
         /\ Signed(Shr(Wrap(x), b)) = Machine!Result("SRL", x, y)
         /\ Signed(Sra(Wrap(x), b)) = Machine!Result("SRA", x, y)
<1>1. /\ x \in Int /\ Wrap(x) \in Word /\ Wrap(x) \in Nat /\ Signed(Wrap(x)) = x
      /\ Width \in Nat \ {0}
  BY SignedWords, WordFacts
<1>2. PICK s \in Nat : s = y % Width /\ s = b % Width
  BY <1>1
<1>3. PICK p \in Nat \ {0} : p = 2^s
  BY Powers
<1>4. /\ Wrap(Wrap(x) * p) \in Word /\ Wrap(x) \div p \in Word /\ Wrap(x \div p) \in Word
      /\ Wrap(x) * p \in Int /\ x \div p \in Int
  <2>1. Wrap(x) * p \in Int /\ x \div p \in Int
    BY <1>1
  <2>2. Wrap(x) \div p \in Nat /\ Wrap(x) \div p <= Wrap(x)
    BY <1>1, Quotients
  <2>3. Wrap(x) \div p \in Word
    BY <1>1, <2>2, WordFacts
  <2> QED
    BY <2>1, <2>3, WordFacts
<1>5. \A i \in 0 .. (Width - 1) :
        BitOf(Wrap(Wrap(x) * p), i) = IF i < s THEN 0 ELSE BitOf(x, i - s)
  <2> SUFFICES ASSUME NEW i \in 0 .. (Width - 1)
               PROVE  BitOf(Wrap(Wrap(x) * p), i) = IF i < s THEN 0 ELSE BitOf(x, i - s)
    OBVIOUS
  <2>1. BitOf(Wrap(Wrap(x) * p), i) = BitOf(Wrap(x) * p, i)
    BY <1>4, BitsOfWrapped
  <2>2. BitOf(Wrap(x) * 2^s, i) = IF i < s THEN 0 ELSE BitOf(Wrap(x), i - s)
    BY <1>1, BitShiftedLeft
  <2>3. i >= s => i - s \in 0 .. (Width - 1)
    BY <1>1
  <2>4. i >= s => BitOf(Wrap(x), i - s) = BitOf(x, i - s)
    BY <1>1, <2>3, BitsOfWrapped
  <2> QED
    BY <1>1, <1>3, <2>1, <2>2, <2>4
<1>6. \A i \in 0 .. (Width - 1) :
        BitOf(Wrap(x) \div p, i) = IF i + s < Width THEN BitOf(x, i + s) ELSE 0
  <2> SUFFICES ASSUME NEW i \in 0 .. (Width - 1)
               PROVE  BitOf(Wrap(x) \div p, i) = IF i + s < Width THEN BitOf(x, i + s) ELSE 0
    OBVIOUS
  <2>1. BitOf(Wrap(x) \div p, i) = BitOf(Wrap(x), i + s)
    BY <1>1, <1>3, BitShiftedRight
  <2>2. i + s < Width => i + s \in 0 .. (Width - 1)
    BY <1>1
  <2>3. i + s < Width => BitOf(Wrap(x), i + s) = BitOf(x, i + s)
    BY <1>1, <2>2, BitsOfWrapped
  <2>4. ~ (i + s < Width) => i + s \in Nat /\ i + s >= Width
    BY <1>1
  <2>5. ~ (i + s < Width) => BitOf(Wrap(x), i + s) = 0
    BY <1>1, <2>4, HighBits
  <2> QED
    BY <2>1, <2>3, <2>5
<1>7. \A i \in 0 .. (Width - 1) :
        BitOf(Wrap(x \div p), i) = BitOf(x, IF i + s < Width THEN i + s ELSE Width - 1)
  <2> SUFFICES ASSUME NEW i \in 0 .. (Width - 1)
               PROVE  BitOf(Wrap(x \div p), i)
                        = BitOf(x, IF i + s < Width THEN i + s ELSE Width - 1)
    OBVIOUS
  <2>1. BitOf(Wrap(x \div p), i) = BitOf(x \div p, i)
    BY <1>4, BitsOfWrapped
  <2>2. BitOf(x \div p, i) = BitOf(x, i + s)
    BY <1>1, <1>3, BitShiftedRight
  <2>3. ~ (i + s < Width) => /\ i + s \in Nat /\ i + s >= Width - 1
                             /\ Width - 1 \in Nat /\ Width - 1 >= Width - 1
    BY <1>1
  <2>4. ~ (i + s < Width) => BitOf(x, i + s) = BitOf(x, Width - 1)
    BY <2>3, HighBits
  <2> QED
    BY <2>1, <2>2, <2>4
<1>8. Signed(Wrap(Wrap(x) * p)) = Machine!Result("SLL", x, y)
  <2>1. \A v \in Machine!SignedWord :
          (\A i \in 0 .. (Width - 1) :
             Machine!Bit(v, i) = IF i < s THEN 0 ELSE Machine!Bit(x, i - s))
          <=> v = Signed(Wrap(Wrap(x) * p))
    BY <1>4, <1>5, KnownByBits DEF Machine!Bit, BitOf
  <2> QED
    BY <1>2, <1>4, <2>1, SignedWords DEF Machine!Result, Machine!WithBits
<1>9. Signed(Wrap(x) \div p) = Machine!Result("SRL", x, y)
  <2>1. \A v \in Machine!SignedWord :
          (\A i \in 0 .. (Width - 1) :
             Machine!Bit(v, i) = IF i + s < Width THEN Machine!Bit(x, i + s) ELSE 0)
          <=> v = Signed(Wrap(x) \div p)
    BY <1>4, <1>6, KnownByBits DEF Machine!Bit, BitOf
  <2> QED
    BY <1>2, <1>4, <2>1, SignedWords DEF Machine!Result, Machine!WithBits
<1>10. Signed(Wrap(x \div p)) = Machine!Result("SRA", x, y)
  <2>1. \A v \in Machine!SignedWord :
          (\A i \in 0 .. (Width - 1) :
             Machine!Bit(v, i) = Machine!Bit(x, IF i + s < Width THEN i + s ELSE Width - 1))
          <=> v = Signed(Wrap(x \div p))
    BY <1>4, <1>7, KnownByBits DEF Machine!Bit, BitOf
  <2> QED
    BY <1>2, <1>4, <2>1, SignedWords DEF Machine!Result, Machine!WithBits
<1> QED
  BY <1>1, <1>2, <1>3, <1>8, <1>9, <1>10 DEF Shl, Shr, Sra

(* The division of C is the one towards zero.                              *)
LEMMA OneQuotient ==
  ASSUME NEW a \in Int, NEW b \in Int \ {0}, NEW q \in Int, NEW p \in Int,
         Machine!Divides(a, b, q), Machine!Divides(a, b, p)
  PROVE  q = p
<1>1. PICK n \in Nat \ {0} : n = IF b < 0 THEN -b ELSE b
  BY SMT
<1>2. PICK r \in Int : r = a - q * b
  OBVIOUS
<1>3. PICK s \in Int : s = a - p * b
  OBVIOUS
<1>4. /\ -n < r /\ r < n /\ r * a >= 0
      /\ -n < s /\ s < n /\ s * a >= 0
  BY <1>1, <1>2, <1>3 DEF Machine!Divides
<1>5. CASE a = 0
  <2>1. \A k \in Int : LET t == a - k * b IN -n < t /\ t < n => k = 0
    <3> SUFFICES ASSUME NEW k \in Int, -n < a - k * b, a - k * b < n PROVE k = 0
      OBVIOUS
    <3>1. a - k * b = -(k * b)
      BY <1>5
    <3>2. IF b < 0 THEN k * n = -(k * b) ELSE k * n = k * b
      BY <1>1
    <3>3. -n < k * n /\ k * n < n
      BY <3>1, <3>2
    <3> QED
      BY <3>3, SmallMultiple
  <2> QED
    BY <1>2, <1>3, <1>4, <2>1
<1>6. CASE a # 0
  <2>1. -n < r - s /\ r - s < n
    <3>1. (a > 0 => r >= 0) /\ (a < 0 => r <= 0) /\ (a > 0 => s >= 0) /\ (a < 0 => s <= 0)
      BY <1>4, SignOfRest
    <3> QED
      BY <1>4, <1>6, <3>1
  <2>2. PICK d \in Int : d = p - q
    OBVIOUS
  <2>3. r - s = d * b
    <3>1. d * b = p * b - q * b
      BY <2>2, SMT
    <3>2. p * b \in Int /\ q * b \in Int
      BY SMT
    <3> QED
      BY <1>2, <1>3, <3>1, <3>2
  <2>4. IF b < 0 THEN d * n = -(d * b) ELSE d * n = d * b
    BY <1>1
  <2>5. -n < d * n /\ d * n < n
    BY <2>1, <2>3, <2>4
  <2>6. d = 0
    BY <2>5, SmallMultiple
  <2> QED
    BY <2>2, <2>6
<1> QED
  BY <1>5, <1>6

LEMMA QuotientDivides ==
  ASSUME NEW a \in Int, NEW b \in Int \ {0}
  PROVE  /\ Machine!Divides(a, b, Quotient(a, b))
         /\ Quotient(a, b) \in Int
         /\ -Magnitude(a) <= Quotient(a, b) /\ Quotient(a, b) <= Magnitude(a)
<1>1. PICK m \in Nat : m = Magnitude(a)
  BY DEF Magnitude
<1>2. PICK n \in Nat \ {0} : n = Magnitude(b)
  BY DEF Magnitude
<1>3. PICK q \in Nat, s \in 0 .. (n - 1) : m = n * q + s /\ q = m \div n /\ q <= m
  <2>1. m \div n \in Nat /\ m % n \in 0 .. (n - 1) /\ m = n * (m \div n) + (m % n) /\ m \div n <= m
    BY DivMod, Quotients
  <2> QED
    BY <2>1
<1>4. PICK c \in Nat : c = n * q
  OBVIOUS
<1>5. PICK z \in Int : z = Quotient(a, b) /\ z = IF (a < 0) # (b < 0) THEN -q ELSE q
  BY <1>1, <1>2, <1>3 DEF Quotient
<1>6. z * b = IF a < 0 THEN -c ELSE c
  <2>1. b = IF b < 0 THEN -n ELSE n
    BY <1>2 DEF Magnitude
  <2>2. /\ q * n = c /\ (-q) * n = -c /\ q * (-n) = -c /\ (-q) * (-n) = c
    BY <1>4, SMT
  <2> QED
    BY <1>5, <2>1, <2>2
<1>7. PICK r \in Int : r = a - z * b
  OBVIOUS
<1>8. m = c + s
  BY <1>3, <1>4
<1>9. r = IF a < 0 THEN -s ELSE s
  BY <1>1, <1>6, <1>7, <1>8 DEF Magnitude
<1>10. r * a >= 0
  <2>1. \A u, v \in Nat : u * v >= 0 /\ (-u) * (-v) >= 0
    BY SMT
  <2>2. a = IF a < 0 THEN -m ELSE m
    BY <1>1 DEF Magnitude
  <2>3. s \in Nat
    OBVIOUS
  <2> QED
    BY <1>9, <2>1, <2>2, <2>3
<1>11. -r < n /\ r < n
  BY <1>9
<1>12. n = IF b < 0 THEN -b ELSE b
  BY <1>2 DEF Magnitude
<1>13. Machine!Divides(a, b, z)
  BY <1>7, <1>10, <1>11, <1>12 DEF Machine!Divides
<1>14. -m <= z /\ z <= m
  BY <1>3, <1>5
<1> QED
  BY <1>1, <1>5, <1>13, <1>14

LEMMA TheQuotient ==
  ASSUME NEW a \in Int, NEW b \in Int \ {0}, -WordMod <= a, a <= WordMod
  PROVE  /\ Machine!Quot(a, b) = Quotient(a, b)
         /\ Machine!Remainder(a, b) = Rest(a, b)
         /\ Quotient(a, b) \in Int /\ Rest(a, b) \in Int
<1>1. PICK z \in Int : z = Quotient(a, b)
  BY QuotientDivides
<1>2. /\ Machine!Divides(a, b, z) /\ -Magnitude(a) <= z /\ z <= Magnitude(a)
  BY <1>1, QuotientDivides
<1>3. WordMod \in Nat /\ Machine!M = WordMod
  BY WordFacts, HalfFacts
<1>4. z \in (-Machine!M) .. Machine!M
  BY <1>2, <1>3 DEF Magnitude
<1>5. \A q \in (-Machine!M) .. Machine!M : Machine!Divides(a, b, q) => q = z
  <2>1. \A q \in (-Machine!M) .. Machine!M : q \in Int
    BY <1>3
  <2> QED
    BY <1>2, <2>1, OneQuotient
<1>6. Machine!Quot(a, b) = z
  BY <1>2, <1>4, <1>5 DEF Machine!Quot
<1> QED
  BY <1>1, <1>6 DEF Machine!Remainder, Rest

LEMMA UnsignedQuotient ==
  ASSUME NEW a \in Nat, NEW b \in Nat \ {0}
  PROVE  Quotient(a, b) = a \div b /\ Rest(a, b) = a % b
<1>1. Quotient(a, b) = a \div b
  BY DEF Quotient, Magnitude
<1>2. PICK q \in Int, r \in Int : q = a \div b /\ r = a % b /\ a = b * q + r
  <2>1. a % b \in 0 .. (b - 1) /\ a \div b \in Int /\ a = b * (a \div b) + (a % b)
    BY IntDivMod
  <2>2. a % b \in Int
    BY <2>1
  <2> QED
    BY <2>1, <2>2
<1>3. PICK c \in Int : c = b * q
  OBVIOUS
<1>4. a - b * q = r
  <2>1. a = c + r
    BY <1>2, <1>3, Zenon
  <2> QED
    BY <1>3, <2>1
<1> QED
  BY <1>1, <1>2, <1>4 DEF Rest

LEMMA Products ==
  ASSUME NEW x \in Machine!SignedWord, NEW y \in Machine!SignedWord
  PROVE  /\ Signed(Wrap(Signed(Wrap(x)) * Signed(Wrap(y)))) = Machine!Result("MUL", x, y)
         /\ Signed(DIV(Wrap(x), Wrap(y))) = Machine!Result("DIV", x, y)
         /\ Signed(REM(Wrap(x), Wrap(y))) = Machine!Result("REM", x, y)
         /\ Signed(DIVU(Wrap(x), Wrap(y))) = Machine!Result("DIVU", x, y)
         /\ Signed(REMU(Wrap(x), Wrap(y))) = Machine!Result("REMU", x, y)
<1>1. /\ x \in Int /\ y \in Int /\ Signed(Wrap(x)) = x /\ Signed(Wrap(y)) = y
      /\ Wrap(x) \in Word /\ Wrap(y) \in Word /\ Wrap(x) \in Nat /\ Wrap(y) \in Nat
  BY SignedWords, WordFacts
<1>2. PICK h \in Nat \ {0} : WordMod = 2 * h /\ WordMod \div 2 = h /\ IntMin = -h
                             /\ Machine!SignedWord = (-h) .. (h - 1) /\ 1 < h
  BY HalfFacts
<1>3. Signed(0) = 0 /\ Wrap(0) = 0 /\ Wrap(h) = h /\ Wrap(-h) = h
  BY <1>2 DEF Signed, Wrap
<1>4. Wrap(y) = 0 <=> y = 0
  BY <1>1, <1>3
<1>5. /\ -WordMod <= x /\ x <= WordMod /\ -WordMod <= Wrap(x) /\ Wrap(x) <= WordMod
  <2>1. Wrap(x) \in 0 .. (2 * h - 1)
    BY <1>1, <1>2, WordFacts
  <2> QED
    BY <1>2, <2>1
<1>6. \A v \in Int : Machine!Narrow(v) = Signed(Wrap(v)) /\ Machine!Unsigned(v) = Wrap(v)
  BY Narrowed
<1>7. Signed(Wrap(Signed(Wrap(x)) * Signed(Wrap(y)))) = Machine!Result("MUL", x, y)
  <2>1. x * y \in Int
    BY <1>1
  <2> QED
    BY <1>1, <1>6, <2>1 DEF Machine!Result
<1>8. CASE y = 0
  <2>1. /\ Machine!Quot(x, y) = -1 /\ Machine!Remainder(x, y) = x
        /\ Machine!Quot(Wrap(x), 0) = -1 /\ Machine!Remainder(Wrap(x), 0) = Wrap(x)
    BY <1>8 DEF Machine!Quot, Machine!Remainder
  <2>2. Wrap(Wrap(x)) = Wrap(x)
    BY <1>1, SignedWords
  <2>3. /\ DIV(Wrap(x), Wrap(y)) = Wrap(-1) /\ REM(Wrap(x), Wrap(y)) = Wrap(x)
        /\ DIVU(Wrap(x), Wrap(y)) = Wrap(-1) /\ REMU(Wrap(x), Wrap(y)) = Wrap(x)
    BY <1>4, <1>8 DEF DIV, REM, DIVU, REMU
  <2>4. /\ Machine!Result("DIV", x, y) = Machine!Narrow(-1)
        /\ Machine!Result("REM", x, y) = Machine!Narrow(x)
        /\ Machine!Result("DIVU", x, y) = Machine!Narrow(-1)
        /\ Machine!Result("REMU", x, y) = Machine!Narrow(Wrap(x))
    BY <1>1, <1>4, <1>6, <1>8, <2>1 DEF Machine!Result
  <2>5. -1 \in Int /\ Wrap(x) \in Int
    BY <1>1
  <2> QED
    BY <1>1, <1>6, <1>7, <2>2, <2>3, <2>4, <2>5
<1>9. CASE y # 0
  <2>1. Wrap(y) # 0 /\ Wrap(y) \in Nat \ {0} /\ Wrap(y) \in Int \ {0} /\ y \in Int \ {0}
    BY <1>1, <1>4, <1>9
  <2>2. /\ Machine!Quot(x, y) = Quotient(x, y) /\ Machine!Remainder(x, y) = Rest(x, y)
        /\ Quotient(x, y) \in Int /\ Rest(x, y) \in Int
    BY <1>1, <1>5, <2>1, TheQuotient
  <2>3. /\ Machine!Quot(Wrap(x), Wrap(y)) = Quotient(Wrap(x), Wrap(y))
        /\ Machine!Remainder(Wrap(x), Wrap(y)) = Rest(Wrap(x), Wrap(y))
        /\ Quotient(Wrap(x), Wrap(y)) \in Int /\ Rest(Wrap(x), Wrap(y)) \in Int
    <3>1. Wrap(x) \in Int
      BY <1>1
    <3> QED
      BY <1>5, <2>1, <3>1, TheQuotient
  <2>4. /\ Machine!Result("DIV", x, y) = Signed(Wrap(Quotient(x, y)))
        /\ Machine!Result("REM", x, y) = Signed(Wrap(Rest(x, y)))
        /\ Machine!Result("DIVU", x, y) = Signed(Wrap(Quotient(Wrap(x), Wrap(y))))
        /\ Machine!Result("REMU", x, y) = Signed(Wrap(Rest(Wrap(x), Wrap(y))))
    BY <1>1, <1>6, <2>2, <2>3 DEF Machine!Result
  <2>5. /\ DIVU(Wrap(x), Wrap(y)) = Wrap(Quotient(Wrap(x), Wrap(y)))
        /\ REMU(Wrap(x), Wrap(y)) = Wrap(Rest(Wrap(x), Wrap(y)))
    <3>1. /\ Quotient(Wrap(x), Wrap(y)) = Wrap(x) \div Wrap(y)
          /\ Rest(Wrap(x), Wrap(y)) = Wrap(x) % Wrap(y)
      BY <1>1, <2>1, UnsignedQuotient
    <3>2. /\ Wrap(x) \div Wrap(y) \in Nat /\ Wrap(x) \div Wrap(y) <= Wrap(x)
          /\ Wrap(x) % Wrap(y) \in Nat /\ Wrap(x) % Wrap(y) <= Wrap(x)
      BY <1>1, <2>1, Quotients
    <3>3. Wrap(x) \div Wrap(y) \in Word /\ Wrap(x) % Wrap(y) \in Word
      <4>1. \A u \in Word, v \in Nat : v <= u => v \in Word
        BY WordFacts
      <4> QED
        BY <1>1, <3>2, <4>1
    <3>4. /\ Wrap(Wrap(x) \div Wrap(y)) = Wrap(x) \div Wrap(y)
          /\ Wrap(Wrap(x) % Wrap(y)) = Wrap(x) % Wrap(y)
      BY <3>3, SignedWords
    <3> QED
      BY <2>1, <3>1, <3>4 DEF DIVU, REMU
  <2>6. CASE x = IntMin /\ y = -1
    <3>1. Quotient(x, y) = h
      <4>1. Magnitude(x) = h /\ Magnitude(y) = 1 /\ h \div 1 = h
        <5>1. x = -h /\ y = -1
          BY <1>2, <2>6
        <5>2. \A n \in Nat : n \div 1 = n
          OBVIOUS
        <5>3. \A n \in Nat \ {0} : Magnitude(-n) = n
          BY DEF Magnitude
        <5> QED
          BY <5>1, <5>2, <5>3
      <4>2. (x < 0) /\ (y < 0)
        BY <1>2, <2>6
      <4> QED
        BY <4>1, <4>2 DEF Quotient
    <3>2. Rest(x, y) = 0
      BY <1>2, <2>6, <3>1 DEF Rest
    <3>3. DIV(Wrap(x), Wrap(y)) = Wrap(IntMin) /\ REM(Wrap(x), Wrap(y)) = 0
      BY <1>1, <2>1, <2>6 DEF DIV, REM
    <3> QED
      BY <1>2, <1>3, <1>7, <2>4, <2>5, <3>1, <3>2, <3>3
  <2>7. CASE ~ (x = IntMin /\ y = -1)
    <3>1. /\ DIV(Wrap(x), Wrap(y)) = Wrap(Quotient(x, y))
          /\ REM(Wrap(x), Wrap(y)) = Wrap(Rest(x, y))
      BY <1>1, <2>1, <2>7 DEF DIV, REM
    <3> QED
      BY <1>7, <2>4, <2>5, <3>1
  <2> QED
    BY <2>6, <2>7
<1> QED
  BY <1>8, <1>9

(* The tables of the code and those of the instruction set.                *)
LEMMA SameAmount ==
  ASSUME NEW y \in Int
  PROVE  Wrap(y) % Width = y % Width
<1>1. PICK w \in Nat \ {0} : w = Width
  BY WordFacts
<1>2. PICK m \in Nat \ {0} : m = WordMod
  BY WordFacts
<1>3. PICK d \in Int : m = w * d
  <2>1. m % w = 0 /\ m = w * (m \div w) + (m % w) /\ m \div w \in Int
    BY <1>1, <1>2, ShiftAssumption, IntDivMod
  <2> QED
    BY <2>1
<1>4. PICK q, r \in Int : r = y % m /\ y = m * q + r
  <2>1. y % m \in 0 .. (m - 1) /\ y \div m \in Int /\ y = m * (y \div m) + (y % m)
    BY IntDivMod
  <2>2. y % m \in Int
    BY <2>1
  <2> QED
    BY <2>1, <2>2
<1>5. PICK k, c \in Int : k = d * q /\ c = w * k
  OBVIOUS
<1>6. m * q = c
  <2>1. (w * d) * q = w * (d * q)
    BY SMT
  <2> QED
    BY <1>3, <1>5, <2>1
<1>7. y = r + c
  <2>1. y = c + r
    BY <1>4, <1>6, Zenon
  <2> QED
    BY <2>1
<1>8. y % w = r % w
  BY <1>5, <1>7, ModPlus
<1> QED
  BY <1>1, <1>2, <1>4, <1>8 DEF Wrap

LEMMA BasicResult ==
  ASSUME NEW x \in Machine!SignedWord, NEW y \in Machine!SignedWord
  PROVE  /\ \A f \in 0 .. 7 :
              Signed(basic(f, FALSE, Wrap(x), Wrap(y))) = Machine!Result(Machine!Plain[f + 1], x, y)
         /\ Signed(basic(0, TRUE, Wrap(x), Wrap(y))) = Machine!Result("SUB", x, y)
         /\ Signed(basic(5, TRUE, Wrap(x), Wrap(y))) = Machine!Result("SRA", x, y)
<1>1. x \in Int /\ y \in Int /\ Wrap(y) \in Nat /\ Wrap(y) % Width = y % Width
  BY SignedWords, SameAmount, WordFacts
<1>2. /\ Signed(Wrap(Wrap(x) + Wrap(y))) = Machine!Result("ADD", x, y)
      /\ Signed(Wrap(Wrap(x) - Wrap(y))) = Machine!Result("SUB", x, y)
  BY <1>1, Sums
<1>3. /\ Signed(Shl(Wrap(x), Wrap(y))) = Machine!Result("SLL", x, y)
      /\ Signed(Shr(Wrap(x), Wrap(y))) = Machine!Result("SRL", x, y)
      /\ Signed(Sra(Wrap(x), Wrap(y))) = Machine!Result("SRA", x, y)
  BY <1>1, Shifts
<1> QED
  BY <1>2, <1>3, Comparisons, Logic DEF basic, Machine!Plain

LEMMA ShiftResult ==
  ASSUME NEW x \in Machine!SignedWord, NEW s \in Nat
  PROVE  /\ Signed(basic(1, FALSE, Wrap(x), s)) = Machine!Result("SLL", x, s)
         /\ Signed(basic(5, FALSE, Wrap(x), s)) = Machine!Result("SRL", x, s)
         /\ Signed(basic(1, TRUE, Wrap(x), s)) = Machine!Result("SLL", x, s)
         /\ Signed(basic(5, TRUE, Wrap(x), s)) = Machine!Result("SRA", x, s)
  BY Shifts DEF basic

LEMMA MulDivResult ==
  ASSUME NEW x \in Machine!SignedWord, NEW y \in Machine!SignedWord, NEW f \in MulDivCases
  PROVE  Signed(muldiv(f, Wrap(x), Wrap(y))) = Machine!Result(Machine!Muls[f + 1], x, y)
  BY Products DEF muldiv, Machine!Muls, MulDivCases

-----------------------------------------------------------------------------
(* The memory, read by bytes.                                              *)
SameBytes(m) == \A b \in Addr : ByteAt(m, b) = ByteAt(mem, b)

LEMMA Values ==
  ASSUME IsMemory(mem), NEW m, IsMemory(m), SameBytes(m), NEW a \in Addr
  PROVE  /\ memory_rd_b(m, a) = Machine!ValueAt(a, 1)
         /\ Aligned(a, 2) => memory_rd_h(m, a) = Machine!ValueAt(a, 2)
         /\ Aligned(a, 4) => memory_rd_w(m, a) = Machine!ValueAt(a, 4)
<1> DEFINE bytes == [b \in Addr |-> ByteAt(mem, b)]
<1>1. ByteBase \in Nat
  BY BaseFacts
<1>2. \A b \in Addr : bytes[b] = ByteAt(m, b) /\ ByteAt(m, b) \in Byte /\ ByteAt(m, b) \in Nat
  BY <1>1, RdBytes DEF SameBytes, Byte
<1>3. /\ Machine!Weight(0) = 1 /\ Machine!Weight(1) = ByteBase
      /\ Machine!Weight(2) = ByteBase * ByteBase
      /\ Machine!Weight(3) = ByteBase * ByteBase * ByteBase
  BY DEF Machine!Weight
<1>4. memory_rd_b(m, a) = Machine!ValueAt(a, 1)
  <2>1. Machine!ValueAt(a, 1) = bytes[a + 0] * 1 + 0 + 0 + 0
    BY <1>3 DEF Machine!ValueAt
  <2>2. a + 0 = a
    BY PageFacts DEF Addr
  <2> QED
    BY <1>2, <2>1, <2>2, RdBytes
<1>5. Aligned(a, 2) => memory_rd_h(m, a) = Machine!ValueAt(a, 2)
  <2> SUFFICES ASSUME Aligned(a, 2) PROVE memory_rd_h(m, a) = Machine!ValueAt(a, 2)
    OBVIOUS
  <2>1. Machine!ValueAt(a, 2) = bytes[a + 0] * 1 + bytes[a + 1] * ByteBase + 0 + 0
    BY <1>3 DEF Machine!ValueAt
  <2>2. a + 0 = a
    BY PageFacts DEF Addr
  <2>3. a + 1 \in Addr /\ memory_rd_h(m, a) = ByteAt(m, a) + ByteBase * ByteAt(m, a + 1)
    BY RdBytes
  <2>4. PICK u, v \in Nat : u = ByteAt(m, a) /\ v = ByteAt(m, a + 1)
    BY <1>2, <2>3
  <2>5. u + ByteBase * v = u * 1 + v * ByteBase + 0 + 0
    BY <1>1, SMT
  <2> QED
    BY <1>2, <2>1, <2>2, <2>3, <2>4, <2>5
<1>6. Aligned(a, 4) => memory_rd_w(m, a) = Machine!ValueAt(a, 4)
  <2> SUFFICES ASSUME Aligned(a, 4) PROVE memory_rd_w(m, a) = Machine!ValueAt(a, 4)
    OBVIOUS
  <2>1. Machine!ValueAt(a, 4)
          = bytes[a + 0] * 1 + bytes[a + 1] * ByteBase + bytes[a + 2] * (ByteBase * ByteBase)
              + bytes[a + 3] * (ByteBase * ByteBase * ByteBase)
    BY <1>3 DEF Machine!ValueAt
  <2>2. a + 0 = a
    BY PageFacts DEF Addr
  <2>3. /\ a + 1 \in Addr /\ a + 2 \in Addr /\ a + 3 \in Addr
        /\ memory_rd_w(m, a) = Compose(ByteAt(m, a), ByteAt(m, a + 1),
                                       ByteAt(m, a + 2), ByteAt(m, a + 3))
    BY RdBytes
  <2>4. PICK u, v, w, z \in Nat : /\ u = ByteAt(m, a) /\ v = ByteAt(m, a + 1)
                                  /\ w = ByteAt(m, a + 2) /\ z = ByteAt(m, a + 3)
    BY <1>2, <2>3
  <2>5. Compose(u, v, w, z) = u * 1 + v * ByteBase + w * (ByteBase * ByteBase)
                                + z * (ByteBase * ByteBase * ByteBase)
    BY <1>1, SMT DEF Compose
  <2> QED
    BY <1>2, <2>1, <2>2, <2>3, <2>4, <2>5
<1> QED
  BY <1>4, <1>5, <1>6

(* What an instruction finds.                                              *)
LEMMA SameInst ==
  ASSUME TypeOK
  PROVE  /\ Aligned(pc, 4) => Machine!inst = inst
         /\ Machine!inst = inst => /\ Machine!a1 = Signed(r1) /\ Machine!a2 = Signed(r2)
                                   /\ Machine!addr = eff
         /\ SameBytes(Fetched)
<1>1. IsMemory(mem) /\ pc \in Addr /\ regs \in [Reg -> Word]
  BY WordFacts DEF TypeOK
<1>2. SameBytes(mem)
  BY DEF SameBytes
<1>3. Aligned(pc, 4) => Machine!inst = inst
  BY <1>1, <1>2, Values DEF Machine!inst, inst
<1>4. SameBytes(Fetched)
  BY <1>1, GetPageType DEF SameBytes, Fetched
<1>5. inst.rs1 \in Reg /\ inst.rs2 \in Reg /\ inst.imm \in Int
  <2>1. memory_rd_w(mem, pc) \in Word
    BY <1>1, RdBytes
  <2> QED
    BY <2>1, InstType, DecodeAssumption DEF inst
<1>6. Machine!inst = inst => Machine!a1 = Signed(r1) /\ Machine!a2 = Signed(r2)
  BY <1>5 DEF Machine!a1, Machine!a2, r1, r2
<1>7. Machine!inst = inst => Machine!addr = eff
  <2>1. r1 \in Word /\ r1 \in Int
    BY InstType, WordFacts
  <2>2. Signed(r1) \in Int /\ Wrap(Signed(r1)) = r1
    BY <2>1, SignedWords, WordFacts
  <2>3. Signed(r1) + inst.imm \in Int
    BY <1>5, <2>2
  <2>4. Machine!Unsigned(Signed(r1) + inst.imm) = Wrap(Signed(r1) + inst.imm)
    BY <2>3, Narrowed
  <2>5. Wrap(Wrap(Signed(r1)) + inst.imm) = Wrap(Signed(r1) + inst.imm)
    BY <1>5, <2>2, WrapFacts
  <2> QED
    BY <1>6, <2>2, <2>4, <2>5 DEF Machine!addr, eff
<1> QED
  BY <1>3, <1>4, <1>6, <1>7

LEMMA InstNumbers ==
  ASSUME TypeOK
  PROVE  /\ inst.imm \in Machine!SignedWord /\ inst.imm \in Int
         /\ inst.rd \in Reg /\ inst.funct3 \in 0 .. 7
         /\ pc \in Int /\ pc + inst.imm \in Int /\ pc + 4 \in Int
         /\ r1 \in Word /\ r2 \in Word /\ r1 \in Nat /\ r2 \in Nat /\ Next4 \in Word
         /\ Signed(r1) \in Machine!SignedWord /\ Signed(r2) \in Machine!SignedWord
         /\ Signed(r1) \in Int /\ Signed(r2) \in Int /\ Signed(r1) + inst.imm \in Int
         /\ Wrap(Signed(r1)) = r1 /\ Wrap(Signed(r2)) = r2
         /\ eff \in Addr /\ eff \in Nat
<1>1. /\ inst.imm \in Int /\ inst.rd \in Reg /\ inst.funct3 \in 0 .. 7
      /\ r1 \in Word /\ r2 \in Word /\ eff \in Addr /\ Next4 \in Word
  BY InstType
<1>2. /\ pc \in Int /\ r1 \in Nat /\ r2 \in Nat /\ eff \in Nat
  BY <1>1, WordFacts DEF TypeOK
<1>3. /\ Signed(r1) \in Machine!SignedWord /\ Signed(r2) \in Machine!SignedWord
      /\ Signed(r1) \in Int /\ Signed(r2) \in Int
      /\ Wrap(Signed(r1)) = r1 /\ Wrap(Signed(r2)) = r2
  BY <1>1, SignedWords
<1>4. pc + inst.imm \in Int /\ pc + 4 \in Int /\ Signed(r1) + inst.imm \in Int
  BY <1>1, <1>2, <1>3
<1>5. inst.imm \in Machine!SignedWord
  <2>1. memory_rd_w(mem, pc) \in Word
    BY RdBytes, WordFacts DEF TypeOK
  <2>2. inst.imm \in IntMin .. (WordMod \div 2 - 1)
    BY <2>1, DecodeAssumption DEF inst
  <2> QED
    BY <2>2, HalfFacts
<1> QED
  BY <1>1, <1>2, <1>3, <1>4, <1>5

(* x0 stays zero.                                                          *)
Hardwired == regs[0] = 0

LEMMA MachineGoto ==
  ASSUME NEW t \in Int, Advance(Wrap(t))
  PROVE  Machine!Goto(t)
  BY Narrowed DEF Machine!Goto, Advance

LEMMA MachineSets ==
  ASSUME TypeOK, Hardwired, NEW rd \in Reg, NEW val \in Word, regs' = Write(rd, val)
  PROVE  Machine!Sets(rd, Signed(val))
<1>1. regs \in [Reg -> Word] /\ 0 \in Reg
  BY RegAssumption DEF TypeOK
<1>2. Signed(0) = 0
  BY WordFacts DEF Signed
<1>3. \A r \in Reg : Signed(regs'[r]) = IF r = 0 THEN 0 ELSE IF r = rd THEN Signed(val)
                                                    ELSE Signed(regs[r])
  BY <1>1, <1>2 DEF Write, Hardwired
<1>4. Signed(regs[0]) = 0
  BY <1>2 DEF Hardwired
<1> QED
  BY <1>3, <1>4 DEF Machine!Sets

LEMMA MachineQuiet ==
  ASSUME SameBytes(mem'), UNCHANGED <<bp, io>>
  PROVE  Machine!Quiet
<1>1. [a \in Addr |-> ByteAt(mem', a)] = [a \in Addr |-> ByteAt(mem, a)]
  BY DEF SameBytes
<1> QED
  BY <1>1 DEF Machine!Quiet, bp, io

LEMMA MachineComputes ==
  ASSUME TypeOK, Hardwired, SameBytes(mem'), UNCHANGED <<bp, io>>, Machine!inst = inst,
         NEW val \in Word, Retire(val, Next4)
  PROVE  Machine!Computes(Signed(val))
<1>1. inst.rd \in Reg /\ pc + 4 \in Int
  BY InstType, WordFacts DEF TypeOK
<1>2. Machine!Sets(inst.rd, Signed(val))
  BY <1>1, MachineSets DEF Retire
<1>3. Machine!Goto(pc + 4)
  BY <1>1, MachineGoto DEF Retire, Next4
<1>4. Machine!Quiet
  BY MachineQuiet
<1> QED
  BY <1>2, <1>3, <1>4 DEF Machine!Computes, Retire

LEMMA MachineEnds ==
  ASSUME TypeOK, SameBytes(mem'), UNCHANGED <<bp, io>>, NEW how, status' = how,
         Advance(Next4), UNCHANGED regs
  PROVE  Machine!Ends(how)
<1>1. pc + 4 \in Int
  BY WordFacts DEF TypeOK
<1>2. Machine!Goto(pc + 4)
  BY <1>1, MachineGoto DEF Next4
<1>3. Machine!Quiet
  BY MachineQuiet
<1> QED
  BY <1>2, <1>3 DEF Machine!Ends

LEMMA MachineExecutes ==
  ASSUME TypeOK, Loop, Aligned(pc, 4)
  PROVE  Machine!inst = inst /\ Machine!Executes(inst.opcode)
  BY SameInst DEF Machine!Executes, Loop, Aligned

-----------------------------------------------------------------------------
(* Every step of the simulator is one of the machine.                      *)
LEMMA FetchMisalignedIs ==
  ASSUME TypeOK, FetchMisaligned
  PROVE  Machine!Next
<1>1. /\ Loop /\ ~ Aligned(pc, 4) /\ mem' = Fetched /\ status' = "exited"
      /\ UNCHANGED <<regs, pc, insn_count>> /\ UNCHANGED <<bp, io>>
  BY DEF FetchMisaligned, cpu
<1>2. SameBytes(mem')
  BY <1>1, SameInst
<1>3. Machine!Quiet
  BY <1>1, <1>2, MachineQuiet
<1>4. Machine!MisalignedFetch
  BY <1>1, <1>3 DEF Machine!MisalignedFetch, Loop, Aligned
<1> QED
  BY <1>4 DEF Machine!Next

LEMMA UpperIs ==
  ASSUME TypeOK, Hardwired, Lui \/ Auipc
  PROVE  Machine!Next
<1>1. /\ Loop /\ Aligned(pc, 4) /\ mem' = Fetched /\ UNCHANGED <<bp, io>>
      /\ \/ inst.opcode = 55 /\ Retire(Wrap(inst.imm), Next4)
         \/ inst.opcode = 23 /\ Retire(Wrap(pc + inst.imm), Next4)
  BY DEF Lui, Auipc, Case, LUI, AUIPC
<1>2. SameBytes(mem')
  BY <1>1, SameInst
<1>3. Machine!inst = inst /\ Machine!Executes(inst.opcode)
  BY <1>1, MachineExecutes
<1>4. /\ Wrap(inst.imm) \in Word /\ Wrap(pc + inst.imm) \in Word
      /\ inst.imm \in Int /\ pc + inst.imm \in Int
  BY InstType, InstNumbers
<1>5. /\ Machine!Narrow(inst.imm) = Signed(Wrap(inst.imm))
      /\ Machine!Narrow(pc + inst.imm) = Signed(Wrap(pc + inst.imm))
  BY <1>4, Narrowed
<1>6. CASE inst.opcode = 55 /\ Retire(Wrap(inst.imm), Next4)
  <2>1. Machine!Computes(Signed(Wrap(inst.imm)))
    BY <1>1, <1>2, <1>3, <1>4, <1>6, MachineComputes
  <2>2. Machine!LoadUpper
    BY <1>3, <1>5, <1>6, <2>1 DEF Machine!LoadUpper
  <2> QED
    BY <2>2 DEF Machine!Next
<1>7. CASE inst.opcode = 23 /\ Retire(Wrap(pc + inst.imm), Next4)
  <2>1. Machine!Computes(Signed(Wrap(pc + inst.imm)))
    BY <1>1, <1>2, <1>3, <1>4, <1>7, MachineComputes
  <2>2. Machine!LoadUpper
    BY <1>3, <1>5, <1>7, <2>1 DEF Machine!LoadUpper
  <2> QED
    BY <2>2 DEF Machine!Next
<1> QED
  BY <1>1, <1>6, <1>7

(* The target of JALR: its lowest bit is cleared.                          *)
LEMMA EvenTarget ==
  ASSUME NEW u \in Int
  PROVE  Wrap(u) - (Wrap(u) % 2) = Wrap(2 * (u \div 2))
<1>1. PICK h \in Nat \ {0} : WordMod = 2 * h /\ 1 < h
  BY HalfFacts
<1>2. PICK t \in {0, 1} : t = u % 2
  OBVIOUS
<1>3. PICK w \in Word : w = Wrap(u)
  BY WordFacts
<1>4. w \in Nat /\ t \in Word /\ Wrap(t) = t
  BY <1>3, SignedWords, WordFacts
<1>5. w % 2 = t
  <2>1. \E k \in Int : w = u + WordMod * k
    <3>1. Wrap(w) = Wrap(u) /\ w \in Int
      BY <1>3, <1>4, SignedWords
    <3> QED
      BY <3>1, Congruent
  <2>2. PICK k \in Int : w = u + WordMod * k
    BY <2>1
  <2>3. PICK c, d \in Int : d = h * k /\ c = 2 * d
    OBVIOUS
  <2>4. WordMod * k = c
    <3>1. (2 * h) * k = 2 * (h * k)
      BY SMT
    <3> QED
      BY <1>1, <2>3, <3>1
  <2>5. w = u + c /\ w \in Int
    BY <1>4, <2>2, <2>4
  <2>6. w % 2 = u % 2
    BY <2>3, <2>5, ModPlus
  <2> QED
    BY <1>2, <2>6
<1>6. 2 * (u \div 2) = u - t
  BY <1>2
<1>7. w - t \in Word
  <2>1. t = 1 => w # 0
    BY <1>5
  <2>2. w - t \in Nat /\ w - t <= w
    BY <1>4, <2>1
  <2>3. \A v \in Word, z \in Nat : z <= v => z \in Word
    BY WordFacts
  <2> QED
    BY <2>2, <2>3
<1>8. Wrap(u - t) = Wrap(w - t)
  BY <1>3, <1>4, WrapFacts
<1>9. Wrap(w - t) = w - t
  BY <1>7, SignedWords
<1> QED
  BY <1>3, <1>5, <1>6, <1>8, <1>9

LEMMA JumpIs ==
  ASSUME TypeOK, Hardwired, Jal \/ Jalr
  PROVE  Machine!Next
<1> DEFINE target == Wrap(r1 + inst.imm)
<1>1. /\ Loop /\ Aligned(pc, 4) /\ mem' = Fetched /\ UNCHANGED <<bp, io>>
      /\ \/ inst.opcode = 111 /\ Retire(Next4, Wrap(pc + inst.imm))
         \/ inst.opcode = 103 /\ Retire(Next4, target - (target % 2))
  BY DEF Jal, Jalr, Case, JAL, JALR
<1>2. SameBytes(mem')
  BY <1>1, SameInst
<1>3. Machine!inst = inst /\ Machine!Executes(inst.opcode)
  BY <1>1, MachineExecutes
<1>4. Machine!Quiet
  BY <1>1, <1>2, MachineQuiet
<1>5. /\ inst.rd \in Reg /\ Next4 \in Word /\ inst.imm \in Int /\ pc + inst.imm \in Int
      /\ pc + 4 \in Int /\ r1 \in Word /\ r1 \in Int /\ Signed(r1) + inst.imm \in Int
  BY InstNumbers
<1>6. Machine!Narrow(pc + 4) = Signed(Next4)
  BY <1>5, Narrowed DEF Next4
<1>7. Machine!Sets(inst.rd, Signed(Next4)) /\ UNCHANGED status
  BY <1>1, <1>5, MachineSets DEF Retire
<1>8. CASE inst.opcode = 111 /\ Retire(Next4, Wrap(pc + inst.imm))
  <2>1. Machine!Goto(pc + inst.imm)
    BY <1>5, <1>8, MachineGoto DEF Retire
  <2>2. Machine!Jump
    BY <1>3, <1>4, <1>6, <1>7, <1>8, <2>1 DEF Machine!Jump
  <2> QED
    BY <2>2 DEF Machine!Next
<1>9. CASE inst.opcode = 103 /\ Retire(Next4, target - (target % 2))
  <2>1. PICK u \in Int : u = Signed(r1) + inst.imm
    BY <1>5
  <2>2. target = Wrap(u)
    <3>1. Wrap(Wrap(Signed(r1)) + inst.imm) = Wrap(Signed(r1) + inst.imm)
      BY <1>5, SignedWords, WrapFacts
    <3> QED
      BY <1>5, <2>1, <3>1, SignedWords
  <2>3. target - (target % 2) = Wrap(2 * (u \div 2)) /\ 2 * (u \div 2) \in Int
    BY <2>2, EvenTarget
  <2>4. Machine!Goto(2 * (u \div 2))
    BY <1>9, <2>3, MachineGoto DEF Retire
  <2>5. Machine!a1 = Signed(r1)
    BY <1>3, SameInst
  <2>6. Machine!Jump
    BY <1>3, <1>4, <1>6, <1>7, <1>9, <2>1, <2>4, <2>5 DEF Machine!Jump
  <2> QED
    BY <2>6 DEF Machine!Next
<1> QED
  BY <1>1, <1>8, <1>9

LEMMA Conditions ==
  ASSUME NEW f \in 0 .. 7, NEW a \in Word, NEW b \in Word
  PROVE  /\ f \in BranchCases <=> Machine!Conds[f + 1] # "none"
         /\ f \in BranchCases =>
              (actual_taken(f, a, b) <=> Machine!Holds(Machine!Conds[f + 1], Signed(a), Signed(b)))
<1>1. /\ Signed(a) \in Int /\ Signed(b) \in Int /\ (Signed(a) = Signed(b) <=> a = b)
      /\ Machine!Unsigned(Signed(a)) = a /\ Machine!Unsigned(Signed(b)) = b
      /\ a \in Nat /\ b \in Nat
  BY SignedWords, WordFacts, Narrowed
<1>2. f \in BranchCases <=> Machine!Conds[f + 1] # "none"
  BY DEF BranchCases, Machine!Conds
<1>3. ASSUME f \in BranchCases
      PROVE  actual_taken(f, a, b) <=> Machine!Holds(Machine!Conds[f + 1], Signed(a), Signed(b))
  <2>1. /\ Machine!Conds[1] = "BEQ" /\ Machine!Conds[2] = "BNE" /\ Machine!Conds[5] = "BLT"
        /\ Machine!Conds[6] = "BGE" /\ Machine!Conds[7] = "BLTU" /\ Machine!Conds[8] = "BGEU"
    BY DEF Machine!Conds
  <2>2. /\ actual_taken(0, a, b) <=> Machine!Holds("BEQ", Signed(a), Signed(b))
        /\ actual_taken(1, a, b) <=> Machine!Holds("BNE", Signed(a), Signed(b))
    BY <1>1 DEF actual_taken, Machine!Holds
  <2>3. /\ actual_taken(4, a, b) <=> Machine!Holds("BLT", Signed(a), Signed(b))
        /\ actual_taken(5, a, b) <=> Machine!Holds("BGE", Signed(a), Signed(b))
    BY <1>1 DEF actual_taken, Machine!Holds
  <2>4. /\ actual_taken(6, a, b) <=> Machine!Holds("BLTU", Signed(a), Signed(b))
        /\ actual_taken(7, a, b) <=> Machine!Holds("BGEU", Signed(a), Signed(b))
    BY <1>1 DEF actual_taken, Machine!Holds
  <2> QED
    BY <1>3, <2>1, <2>2, <2>3, <2>4 DEF BranchCases
<1> QED
  BY <1>2, <1>3

LEMMA BranchIs ==
  ASSUME TypeOK, Hardwired, Branch
  PROVE  Machine!Next
<1> DEFINE target == Wrap(pc + inst.imm)
           go     == Known(inst) /\ actual_taken(inst.funct3, r1, r2)
           name   == Machine!Conds[inst.funct3 + 1]
<1>1. /\ Loop /\ Aligned(pc, 4) /\ inst.opcode = 99
      /\ branches' = Append(branches, [pc |-> pc, target |-> target, taken |-> Bool(go)])
      /\ Advance(Destination(target, go))
      /\ status' = IF Known(inst) THEN "running" ELSE "stopped"
      /\ mem' = Fetched
      /\ UNCHANGED <<regs, io>>
  BY DEF Branch, Case, BRANCH
<1>2. SameBytes(mem')
  BY <1>1, SameInst
<1>3. [a \in Addr |-> ByteAt(mem', a)] = [a \in Addr |-> ByteAt(mem, a)]
  BY <1>2 DEF SameBytes
<1>4. /\ Machine!inst = inst /\ Machine!Executes(99)
      /\ Machine!a1 = Signed(r1) /\ Machine!a2 = Signed(r2)
  BY <1>1, MachineExecutes, SameInst
<1>5. /\ inst.funct3 \in 0 .. 7 /\ inst.imm \in Int /\ pc + inst.imm \in Int
      /\ pc + 4 \in Int /\ r1 \in Word /\ r2 \in Word
  BY InstNumbers
<1>6. Known(inst) <=> inst.funct3 \in BranchCases
  BY <1>1 DEF Known, Opcodes, BRANCH, LOAD, STORE, OP_IMM, OP, SYSTEM
<1>7. /\ Known(inst) <=> name # "none"
      /\ go <=> (name # "none" /\ Machine!Holds(name, Machine!a1, Machine!a2))
  BY <1>4, <1>5, <1>6, Conditions
<1>8. Bool(go) = Machine!Truth(name # "none" /\ Machine!Holds(name, Machine!a1, Machine!a2))
  BY <1>7 DEF Bool, Machine!Truth
<1>9. Machine!Unsigned(pc + inst.imm) = target
  BY <1>5, Narrowed
<1>10. IF name # "none" /\ Machine!Holds(name, Machine!a1, Machine!a2)
       THEN Machine!Goto(pc + inst.imm) ELSE Machine!Goto(pc + 4)
  <2>1. go => Machine!Goto(pc + inst.imm)
    BY <1>1, <1>5, MachineGoto DEF Destination
  <2>2. ~ go => Machine!Goto(pc + 4)
    BY <1>1, <1>5, MachineGoto DEF Destination, Next4
  <2> QED
    BY <1>7, <2>1, <2>2
<1>11. status' = IF name = "none" THEN "stopped" ELSE status
  BY <1>1, <1>7 DEF Loop
<1> HIDE DEF go, target
<1>12. Machine!Branch
  BY <1>1, <1>3, <1>4, <1>8, <1>9, <1>10, <1>11 DEF Machine!Branch, io
<1> QED
  BY <1>12 DEF Machine!Next

LEMMA UnknownOpcodeIs ==
  ASSUME TypeOK, Hardwired, UnknownOpcode
  PROVE  Machine!Next
<1>1. /\ Loop /\ Aligned(pc, 4) /\ mem' = Fetched /\ UNCHANGED <<bp, io>>
      /\ inst.opcode \notin Opcodes /\ Stop
  BY DEF UnknownOpcode
<1>2. Machine!inst = inst /\ Machine!Executes(inst.opcode) /\ SameBytes(mem')
  BY <1>1, MachineExecutes, SameInst
<1>3. Machine!Ends("stopped")
  BY <1>1, <1>2, MachineEnds DEF Stop
<1>4. inst.opcode \notin {55, 23, 111, 103, 99, 3, 35, 19, 51, 115}
  BY <1>1 DEF Opcodes, LUI, AUIPC, JAL, JALR, BRANCH, LOAD, STORE, OP_IMM, OP, SYSTEM
<1>5. Machine!Unsupported
  BY <1>2, <1>3, <1>4 DEF Machine!Unsupported
<1> QED
  BY <1>5 DEF Machine!Next

LEMMA ImmediateValue ==
  ASSUME TypeOK, inst.opcode = 19
  PROVE  /\ Known(inst) <=> Machine!OpImmName(inst) # "none"
         /\ Known(inst) =>
              Signed(IF inst.funct3 \in {1, 5}
                     THEN basic(inst.funct3, inst.funct7 = 32, r1, inst.shamt)
                     ELSE basic(inst.funct3, FALSE, r1, Wrap(inst.imm)))
                = Machine!Result(Machine!OpImmName(inst), Signed(r1),
                                 IF inst.funct3 \in {1, 5} THEN inst.shamt ELSE inst.imm)
<1>1. /\ inst.funct3 \in 0 .. 7 /\ inst.shamt \in Nat /\ inst.imm \in Machine!SignedWord
      /\ Signed(r1) \in Machine!SignedWord /\ Wrap(Signed(r1)) = r1
  BY InstType, InstNumbers
<1>2. Known(inst) <=> (inst.funct3 = 5 => inst.funct7 \in {0, 32})
  BY DEF Known, Opcodes, LUI, AUIPC, JAL, JALR, BRANCH, LOAD, STORE, OP_IMM, OP, SYSTEM
<1>3. \A f \in 0 .. 7 : Machine!Plain[f + 1] # "none"
  BY DEF Machine!Plain
<1>4. Machine!Plain[1 + 1] = "SLL" /\ Machine!Plain[5 + 1] = "SRL"
  BY DEF Machine!Plain
<1>5. Machine!OpImmName(inst) = IF inst.funct3 = 5 /\ inst.funct7 = 32 THEN "SRA"
                                ELSE IF inst.funct3 = 5 /\ inst.funct7 \notin {0, 32} THEN "none"
                                ELSE Machine!Plain[inst.funct3 + 1]
  BY DEF Machine!OpImmName
<1>6. Known(inst) <=> Machine!OpImmName(inst) # "none"
  BY <1>1, <1>2, <1>3, <1>5
<1>7. CASE inst.funct3 \in {1, 5}
  <2>1. /\ Signed(basic(1, FALSE, r1, inst.shamt)) = Machine!Result("SLL", Signed(r1), inst.shamt)
        /\ Signed(basic(5, FALSE, r1, inst.shamt)) = Machine!Result("SRL", Signed(r1), inst.shamt)
        /\ Signed(basic(1, TRUE, r1, inst.shamt)) = Machine!Result("SLL", Signed(r1), inst.shamt)
        /\ Signed(basic(5, TRUE, r1, inst.shamt)) = Machine!Result("SRA", Signed(r1), inst.shamt)
    BY <1>1, ShiftResult
  <2>2. CASE inst.funct7 = 32
    BY <1>4, <1>5, <1>6, <1>7, <2>1, <2>2
  <2>3. CASE inst.funct7 # 32
    <3>1. (inst.funct7 = 32) = FALSE
      BY <2>3
    <3> QED
      BY <1>2, <1>4, <1>5, <1>6, <1>7, <2>1, <3>1
  <2> QED
    BY <2>2, <2>3
<1>8. CASE inst.funct3 \notin {1, 5}
  <2>1. Signed(basic(inst.funct3, FALSE, r1, Wrap(inst.imm)))
          = Machine!Result(Machine!Plain[inst.funct3 + 1], Signed(r1), inst.imm)
    BY <1>1, BasicResult
  <2> QED
    BY <1>5, <1>6, <1>8, <2>1
<1> QED
  BY <1>7, <1>8

LEMMA OpImmIs ==
  ASSUME TypeOK, Hardwired, OpImm
  PROVE  Machine!Next
<1> DEFINE val == IF inst.funct3 \in {1, 5}
                  THEN basic(inst.funct3, inst.funct7 = 32, r1, inst.shamt)
                  ELSE basic(inst.funct3, FALSE, r1, Wrap(inst.imm))
<1>1. /\ Loop /\ Aligned(pc, 4) /\ inst.opcode = 19 /\ mem' = Fetched /\ UNCHANGED <<bp, io>>
      /\ IF Known(inst) THEN Retire(val, Next4) ELSE Stop
  BY DEF OpImm, Case, OP_IMM
<1>2. /\ Machine!inst = inst /\ Machine!Executes(19) /\ SameBytes(mem')
      /\ Machine!a1 = Signed(r1)
  BY <1>1, MachineExecutes, SameInst
<1>3. CASE Known(inst)
  <2>1. val \in Word
    <3>1. /\ inst.funct3 \in 0 .. 7 /\ r1 \in Word /\ inst.shamt \in Nat /\ Wrap(inst.imm) \in Nat
          /\ (inst.funct7 = 32) \in BOOLEAN /\ FALSE \in BOOLEAN
      BY InstType, InstNumbers, WordFacts
    <3> QED
      BY <3>1, BasicType
  <2> HIDE DEF val
  <2>2. Machine!Computes(Signed(val))
    BY <1>1, <1>2, <1>3, <2>1, MachineComputes
  <2>3. /\ Machine!OpImmName(inst) # "none"
        /\ Signed(val) = Machine!Result(Machine!OpImmName(inst), Signed(r1),
                                        IF inst.funct3 \in {1, 5} THEN inst.shamt ELSE inst.imm)
    BY <1>1, <1>3, ImmediateValue DEF val
  <2>4. Machine!Operate
    BY <1>2, <2>2, <2>3 DEF Machine!Operate
  <2> QED
    BY <2>4 DEF Machine!Next
<1>4. CASE ~ Known(inst)
  <2>1. Machine!Ends("stopped")
    BY <1>1, <1>2, <1>4, MachineEnds DEF Stop
  <2>2. Machine!OpImmName(inst) = "none"
    BY <1>1, <1>4, ImmediateValue
  <2>3. Machine!Operate
    BY <1>2, <2>1, <2>2 DEF Machine!Operate
  <2> QED
    BY <2>3 DEF Machine!Next
<1> QED
  BY <1>3, <1>4

LEMMA RegisterValue ==
  ASSUME TypeOK, inst.opcode = 51
  PROVE  /\ Known(inst) <=> Machine!Reserved(inst) \/ Machine!OpName(inst) # "none"
         /\ Known(inst) /\ ~ Machine!Reserved(inst) =>
              Signed(IF inst.funct7 = 1 THEN muldiv(inst.funct3, r1, r2)
                     ELSE basic(inst.funct3, inst.funct7 = 32, r1, r2))
                = Machine!Result(Machine!OpName(inst), Signed(r1), Signed(r2))
<1>1. /\ inst.funct3 \in 0 .. 7
      /\ Signed(r1) \in Machine!SignedWord /\ Wrap(Signed(r1)) = r1
      /\ Signed(r2) \in Machine!SignedWord /\ Wrap(Signed(r2)) = r2
  BY InstNumbers
<1>2. Known(inst) <=> \/ inst.funct7 \in {0, 32}
                      \/ inst.funct7 = 1 /\ inst.funct3 \in MulDivCases
  BY DEF Known, Opcodes, LUI, AUIPC, JAL, JALR, BRANCH, LOAD, STORE, OP_IMM, OP, SYSTEM
<1>3. \A f \in 0 .. 7 : /\ Machine!Plain[f + 1] # "none"
                        /\ Machine!Muls[f + 1] # "none" <=> f \in MulDivCases
  BY DEF Machine!Plain, Machine!Muls, MulDivCases
<1>4. Machine!OpName(inst) = IF inst.funct7 = 0 THEN Machine!Plain[inst.funct3 + 1]
                             ELSE IF inst.funct7 = 32 /\ inst.funct3 = 0 THEN "SUB"
                             ELSE IF inst.funct7 = 32 /\ inst.funct3 = 5 THEN "SRA"
                             ELSE IF inst.funct7 = 1 THEN Machine!Muls[inst.funct3 + 1]
                             ELSE "none"
  BY DEF Machine!OpName
<1>5. Machine!Reserved(inst) <=> inst.funct7 = 32 /\ inst.funct3 \notin {0, 5}
  BY DEF Machine!Reserved
<1>6. Known(inst) <=> Machine!Reserved(inst) \/ Machine!OpName(inst) # "none"
  BY <1>1, <1>2, <1>3, <1>4, <1>5
<1>7. ASSUME Known(inst), ~ Machine!Reserved(inst)
      PROVE  Signed(IF inst.funct7 = 1 THEN muldiv(inst.funct3, r1, r2)
                    ELSE basic(inst.funct3, inst.funct7 = 32, r1, r2))
               = Machine!Result(Machine!OpName(inst), Signed(r1), Signed(r2))
  <2>1. CASE inst.funct7 = 1 /\ inst.funct3 \in MulDivCases
    <3>1. Signed(muldiv(inst.funct3, r1, r2))
            = Machine!Result(Machine!Muls[inst.funct3 + 1], Signed(r1), Signed(r2))
      BY <1>1, <2>1, MulDivResult
    <3> QED
      BY <1>4, <2>1, <3>1
  <2>2. CASE inst.funct7 = 0
    <3>1. (inst.funct7 = 32) = FALSE /\ inst.funct7 # 1
      BY <2>2
    <3>2. Signed(basic(inst.funct3, FALSE, r1, r2))
            = Machine!Result(Machine!Plain[inst.funct3 + 1], Signed(r1), Signed(r2))
      <4>1. Signed(basic(inst.funct3, FALSE, Wrap(Signed(r1)), Wrap(Signed(r2))))
              = Machine!Result(Machine!Plain[inst.funct3 + 1], Signed(r1), Signed(r2))
        BY <1>1, BasicResult
      <4> QED
        BY <1>1, <4>1
    <3> QED
      BY <1>4, <2>2, <3>1, <3>2
  <2>3. CASE inst.funct7 = 32
    <3>1. (inst.funct7 = 32) = TRUE /\ inst.funct7 # 1 /\ inst.funct7 # 0
      BY <2>3
    <3>2. /\ Signed(basic(0, TRUE, r1, r2)) = Machine!Result("SUB", Signed(r1), Signed(r2))
          /\ Signed(basic(5, TRUE, r1, r2)) = Machine!Result("SRA", Signed(r1), Signed(r2))
      <4>1. /\ Signed(basic(0, TRUE, Wrap(Signed(r1)), Wrap(Signed(r2))))
                 = Machine!Result("SUB", Signed(r1), Signed(r2))
            /\ Signed(basic(5, TRUE, Wrap(Signed(r1)), Wrap(Signed(r2))))
                 = Machine!Result("SRA", Signed(r1), Signed(r2))
        BY <1>1, BasicResult
      <4> QED
        BY <1>1, <4>1
    <3>3. inst.funct3 \in {0, 5}
      BY <1>5, <1>7, <2>3
    <3> QED
      BY <1>4, <3>1, <3>2, <3>3
  <2> QED
    BY <1>2, <1>7, <2>1, <2>2, <2>3
<1> QED
  BY <1>6, <1>7

LEMMA OpIs ==
  ASSUME TypeOK, Hardwired, Op
  PROVE  Machine!Next
<1> DEFINE val == IF inst.funct7 = 1 THEN muldiv(inst.funct3, r1, r2)
                  ELSE basic(inst.funct3, inst.funct7 = 32, r1, r2)
<1>1. /\ Loop /\ Aligned(pc, 4) /\ inst.opcode = 51 /\ mem' = Fetched /\ UNCHANGED <<bp, io>>
      /\ IF Known(inst) THEN Retire(val, Next4) ELSE Stop
  BY DEF Op, Case, OP
<1>2. /\ Machine!inst = inst /\ Machine!Executes(51) /\ SameBytes(mem')
      /\ Machine!a1 = Signed(r1) /\ Machine!a2 = Signed(r2)
  BY <1>1, MachineExecutes, SameInst
<1>3. CASE Known(inst)
  <2>1. val \in Word
    <3>1. /\ inst.funct3 \in 0 .. 7 /\ r1 \in Word /\ r2 \in Word /\ r2 \in Nat
          /\ (inst.funct7 = 32) \in BOOLEAN
      BY InstNumbers
    <3>2. inst.funct7 = 1 => inst.funct3 \in MulDivCases
      BY <1>1, <1>3 DEF Known, OP
    <3>3. basic(inst.funct3, inst.funct7 = 32, r1, r2) \in Word
      BY <3>1, BasicType
    <3>4. inst.funct7 = 1 => muldiv(inst.funct3, r1, r2) \in Word
      BY <3>1, <3>2, MulDivType
    <3> QED
      BY <3>3, <3>4
  <2> HIDE DEF val
  <2>2. Machine!Computes(Signed(val))
    BY <1>1, <1>2, <1>3, <2>1, MachineComputes
  <2>3. CASE Machine!Reserved(inst)
    <3>1. Signed(val) \in Machine!SignedWord
      BY <2>1, SignedWords
    <3>2. Machine!Unspecified
      BY <1>1, <1>2, <2>2, <2>3, <3>1 DEF Machine!Unspecified
    <3> QED
      BY <3>2 DEF Machine!Next
  <2>4. CASE ~ Machine!Reserved(inst)
    <3>1. /\ Machine!OpName(inst) # "none"
          /\ Signed(val) = Machine!Result(Machine!OpName(inst), Signed(r1), Signed(r2))
      BY <1>1, <1>3, <2>4, RegisterValue DEF val
    <3>2. Machine!Operate
      BY <1>2, <2>2, <3>1 DEF Machine!Operate
    <3> QED
      BY <3>2 DEF Machine!Next
  <2> QED
    BY <2>3, <2>4
<1>4. CASE ~ Known(inst)
  <2>1. Machine!Ends("stopped")
    BY <1>1, <1>2, <1>4, MachineEnds DEF Stop
  <2>2. Machine!OpName(inst) = "none" /\ ~ Machine!Reserved(inst)
    BY <1>1, <1>4, RegisterValue
  <2>3. Machine!Operate
    BY <1>2, <2>1, <2>2 DEF Machine!Operate
  <2> QED
    BY <2>3 DEF Machine!Next
<1> QED
  BY <1>3, <1>4

(* The sign bit of a byte and of a halfword.                               *)
LEMMA EvenBase ==
  /\ 2 * (ByteBase \div 2) = ByteBase
  /\ 2 * (Half \div 2) = Half
<1>1. \A b \in Nat : b % 2 = 1 => (b * b) % 2 = 1
  <2> SUFFICES ASSUME NEW b \in Nat, b % 2 = 1 PROVE (b * b) % 2 = 1
    OBVIOUS
  <2>1. PICK c \in Nat : b = 2 * c + 1
    <3>1. b = 2 * (b \div 2) + 1 /\ b \div 2 \in Nat
      OBVIOUS
    <3> QED
      BY <3>1
  <2>2. PICK d \in Nat : d = 2 * (c * c) + 2 * c
    OBVIOUS
  <2>3. b * b = 2 * d + 1
    <3>1. (2 * c + 1) * (2 * c + 1) = 2 * (2 * (c * c) + 2 * c) + 1
      BY SMT
    <3> QED
      BY <2>1, <2>2, <3>1
  <2> QED
    BY <2>3
<1>2. PICK h \in Nat : WordMod = 2 * h /\ ByteBase \in Nat /\ Half \in Nat
  BY HalfFacts
<1>3. WordMod % 2 # 1
  BY <1>2
<1>4. Half % 2 # 1
  BY <1>1, <1>2, <1>3 DEF WordMod
<1>5. ByteBase % 2 # 1
  BY <1>1, <1>2, <1>4 DEF Half
<1> QED
  BY <1>2, <1>4, <1>5

LEMMA Extended ==
  /\ \A b \in 0 .. (ByteBase - 1) :
       /\ Signed(Wrap(sext(b, ByteBase \div 2))) = IF b >= ByteBase \div 2 THEN b - ByteBase ELSE b
       /\ Signed(b) = b
  /\ \A b \in 0 .. (Half - 1) :
       /\ Signed(Wrap(sext(b, Half \div 2))) = IF b >= Half \div 2 THEN b - Half ELSE b
       /\ Signed(b) = b
<1>1. PICK h \in Nat \ {0} :
        /\ WordMod \div 2 = h /\ Machine!SignedWord = (-h) .. (h - 1)
        /\ ByteBase \in Nat /\ Half \in Nat /\ 2 * ByteBase <= Half /\ Half <= h
  BY HalfFacts
<1>2. ASSUME NEW m \in Nat, m <= h, 2 * (m \div 2) = m, NEW b \in 0 .. (m - 1)
      PROVE  /\ Signed(Wrap(sext(b, m \div 2))) = IF b >= m \div 2 THEN b - m ELSE b
             /\ Signed(b) = b
  <2>1. sext(b, m \div 2) = IF b >= m \div 2 THEN b - m ELSE b
    BY <1>2 DEF sext
  <2>2. sext(b, m \div 2) \in (-h) .. (h - 1)
    BY <1>2, <2>1
  <2>3. Signed(b) = b
    BY <1>1, <1>2 DEF Signed
  <2> QED
    BY <1>1, <2>1, <2>2, <2>3, SignedWords
<1>3. ByteBase <= h
  BY <1>1
<1> QED
  BY <1>1, <1>2, <1>3, EvenBase

(* The widths of the accesses.                                             *)
LEMMA Widths ==
  /\ Machine!Bytes(0) = 1 /\ Machine!Bytes(1) = 2 /\ Machine!Bytes(2) = 4
  /\ Machine!Bytes(4) = 1 /\ Machine!Bytes(5) = 2
  /\ Size(0) = 1 /\ Size(1) = 2 /\ Size(2) = 4 /\ Size(4) = 1 /\ Size(5) = 2
<1>1. 0 % 4 = 0 /\ 1 % 4 = 1 /\ 2 % 4 = 2 /\ 4 % 4 = 0 /\ 5 % 4 = 1
  OBVIOUS
<1>2. 2^0 = 1 /\ 2^1 = 2 /\ 2^2 = 4
  OBVIOUS
<1> QED
  BY <1>1, <1>2 DEF Machine!Bytes, Size

LEMMA Weights ==
  /\ Machine!Weight(1) = ByteBase /\ Machine!Weight(2) = Half /\ Machine!Weight(4) = WordMod
  /\ \A k \in 0 .. 3 : Machine!Weight(k) = Shift(k)
<1>1. ByteBase \in Nat
  BY BaseFacts
<1>2. ByteBase * ByteBase * ByteBase * ByteBase = (ByteBase * ByteBase) * (ByteBase * ByteBase)
  BY <1>1, SMT
<1> QED
  BY <1>1, <1>2 DEF Machine!Weight, Shift, Half, WordMod

LEMMA LoadValue ==
  ASSUME TypeOK, Machine!inst = inst, NEW m, IsMemory(m), SameBytes(m),
         inst.funct3 \in LoadCases, Aligned(eff, Size(inst.funct3))
  PROVE  LET n == Machine!Bytes(inst.funct3)
             v == Machine!ValueAt(Machine!addr, n)
             w == Machine!Weight(n)
         IN  Signed(Loaded(m)) = IF inst.funct3 < 4 /\ v >= w \div 2 THEN v - w ELSE v
<1>1. IsMemory(mem) /\ eff \in Addr /\ Machine!addr = eff
  BY InstNumbers, SameInst DEF TypeOK
<1>2. /\ memory_rd_b(m, eff) = Machine!ValueAt(eff, 1)
      /\ Aligned(eff, 2) => memory_rd_h(m, eff) = Machine!ValueAt(eff, 2)
      /\ Aligned(eff, 4) => memory_rd_w(m, eff) = Machine!ValueAt(eff, 4)
  BY <1>1, Values
<1>3. /\ memory_rd_b(m, eff) \in 0 .. (ByteBase - 1)
      /\ Aligned(eff, 2) => memory_rd_h(m, eff) \in 0 .. (Half - 1)
      /\ memory_rd_w(m, eff) \in Word
  BY <1>1, RdBytes DEF Byte
<1>4. CASE inst.funct3 = 0
  <2>1. Loaded(m) = Wrap(sext(memory_rd_b(m, eff), ByteBase \div 2))
    BY <1>4 DEF Loaded
  <2> QED
    BY <1>1, <1>2, <1>3, <1>4, <2>1, Widths, Weights, Extended
<1>5. CASE inst.funct3 = 1
  <2>1. Loaded(m) = Wrap(sext(memory_rd_h(m, eff), Half \div 2))
    BY <1>5 DEF Loaded
  <2> QED
    BY <1>1, <1>2, <1>3, <1>5, <2>1, Widths, Weights, Extended
<1>6. CASE inst.funct3 = 2
  <2>1. Loaded(m) = memory_rd_w(m, eff)
    BY <1>6 DEF Loaded
  <2>2. Signed(memory_rd_w(m, eff))
          = IF memory_rd_w(m, eff) >= WordMod \div 2 THEN memory_rd_w(m, eff) - WordMod
                                                     ELSE memory_rd_w(m, eff)
    BY DEF Signed
  <2> QED
    BY <1>1, <1>2, <1>6, <2>1, <2>2, Widths, Weights
<1>7. CASE inst.funct3 = 4
  <2>1. Loaded(m) = memory_rd_b(m, eff)
    BY <1>7 DEF Loaded
  <2> QED
    BY <1>1, <1>2, <1>3, <1>7, <2>1, Widths, Extended
<1>8. CASE inst.funct3 = 5
  <2>1. Loaded(m) = memory_rd_h(m, eff)
    BY <1>8 DEF Loaded
  <2> QED
    BY <1>1, <1>2, <1>3, <1>8, <2>1, Widths, Extended
<1> QED
  BY <1>4, <1>5, <1>6, <1>7, <1>8 DEF LoadCases

LEMMA LoadIs ==
  ASSUME TypeOK, Hardwired, Load
  PROVE  Machine!Next
<1>1. /\ Loop /\ Aligned(pc, 4) /\ inst.opcode = 3 /\ UNCHANGED <<bp, io>>
      /\ IF ~ Known(inst)
         THEN mem' = Fetched /\ Stop
         ELSE /\ mem' = get_page(Fetched, eff)
              /\ IF Aligned(eff, Size(inst.funct3)) THEN Retire(Loaded(Fetched), Next4)
                                                    ELSE Crash
  BY DEF Load, Case, LOAD
<1>2. /\ Machine!inst = inst /\ Machine!Executes(3) /\ Machine!addr = eff
      /\ SameBytes(Fetched) /\ IsMemory(Fetched) /\ inst.funct3 \in 0 .. 7 /\ eff \in Addr
  BY <1>1, MachineExecutes, SameInst, InstType, InstNumbers
<1>3. Known(inst) <=> inst.funct3 \in LoadCases
  BY <1>1 DEF Known, Opcodes, LUI, AUIPC, JAL, JALR, BRANCH, LOAD, STORE, OP_IMM, OP, SYSTEM
<1>4. CASE ~ Known(inst)
  <2>1. Machine!Ends("stopped")
    BY <1>1, <1>2, <1>4, MachineEnds DEF Stop
  <2>2. inst.funct3 \in {3, 6, 7}
    BY <1>2, <1>3, <1>4 DEF LoadCases
  <2>3. Machine!Load
    BY <1>2, <2>1, <2>2 DEF Machine!Load
  <2> QED
    BY <2>3 DEF Machine!Next
<1>5. CASE Known(inst)
  <2>1. SameBytes(mem')
    <3>1. \A b \in Addr : ByteAt(get_page(Fetched, eff), b) = ByteAt(Fetched, b)
      BY <1>2, GetPageType
    <3> QED
      BY <1>1, <1>2, <1>5, <3>1 DEF SameBytes
  <2>2. /\ inst.funct3 \in {0, 1, 2, 4, 5}
        /\ Machine!Bytes(inst.funct3) = Size(inst.funct3)
    BY <1>3, <1>5, Widths DEF LoadCases
  <2>3. CASE Aligned(eff, Size(inst.funct3))
    <3>1. Loaded(Fetched) \in Word
      BY <1>2, <1>3, <1>5, LoadedType
    <3>2. Machine!Computes(Signed(Loaded(Fetched)))
      BY <1>1, <1>2, <1>5, <2>1, <2>3, <3>1, MachineComputes
    <3>3. LET n == Machine!Bytes(inst.funct3)
              v == Machine!ValueAt(Machine!addr, n)
              w == Machine!Weight(n)
          IN  Signed(Loaded(Fetched)) = IF inst.funct3 < 4 /\ v >= w \div 2 THEN v - w ELSE v
      BY <1>2, <1>3, <1>5, <2>3, LoadValue
    <3>4. Machine!addr % Machine!Bytes(inst.funct3) = 0
      BY <1>2, <2>2, <2>3 DEF Aligned
    <3>5. Machine!Load
      BY <1>2, <2>2, <3>2, <3>3, <3>4 DEF Machine!Load
    <3> QED
      BY <3>5 DEF Machine!Next
  <2>4. CASE ~ Aligned(eff, Size(inst.funct3))
    <3>1. Machine!Ends("exited")
      BY <1>1, <1>5, <2>1, <2>4, MachineEnds DEF Crash
    <3>2. Machine!addr % Machine!Bytes(inst.funct3) # 0
      BY <1>2, <2>2, <2>4 DEF Aligned
    <3>3. Machine!Load
      BY <1>2, <2>2, <3>1, <3>2 DEF Machine!Load
    <3> QED
      BY <3>3 DEF Machine!Next
  <2> QED
    BY <2>3, <2>4
<1> QED
  BY <1>4, <1>5

LEMMA StoredBytes ==
  ASSUME TypeOK, Machine!inst = inst, inst.funct3 \in StoreCases,
         Aligned(eff, Size(inst.funct3)), mem' = Stored(Fetched)
  PROVE  LET n == Machine!Bytes(inst.funct3)
         IN  [b \in Addr |-> ByteAt(mem', b)]
               = [b \in Addr |->
                    IF b \in Machine!addr .. (Machine!addr + n - 1)
                    THEN (Machine!Unsigned(Machine!a2) \div Machine!Weight(b - Machine!addr))
                           % ByteBase
                    ELSE ByteAt(mem, b)]
<1>1. /\ Machine!addr = eff /\ Machine!a2 = Signed(r2) /\ IsMemory(Fetched) /\ SameBytes(Fetched)
      /\ eff \in Addr /\ eff \in Nat /\ r2 \in Word /\ Signed(r2) \in Int /\ Wrap(Signed(r2)) = r2
  BY SameInst, InstType, InstNumbers
<1>2. Machine!Unsigned(Machine!a2) = r2
  BY <1>1, Narrowed
<1>3. \A b \in Addr : b \in Nat
  BY WordFacts
<1>4. ASSUME NEW n \in {1, 2, 4},
             \A b \in Addr : ByteAt(mem', b) = IF b \in eff .. (eff + n - 1)
                                               THEN Lane(r2, b - eff) ELSE ByteAt(Fetched, b)
      PROVE  [b \in Addr |-> ByteAt(mem', b)]
               = [b \in Addr |->
                    IF b \in Machine!addr .. (Machine!addr + n - 1)
                    THEN (Machine!Unsigned(Machine!a2) \div Machine!Weight(b - Machine!addr))
                           % ByteBase
                    ELSE ByteAt(mem, b)]
  <2> SUFFICES ASSUME NEW b \in Addr
               PROVE  ByteAt(mem', b)
                        = IF b \in eff .. (eff + n - 1)
                          THEN (r2 \div Machine!Weight(b - eff)) % ByteBase
                          ELSE ByteAt(mem, b)
    BY <1>1, <1>2
  <2>1. b \in eff .. (eff + n - 1) => b - eff \in 0 .. 3
    BY <1>1, <1>3
  <2>2. b \in eff .. (eff + n - 1) => Machine!Weight(b - eff) = Shift(b - eff)
    BY <2>1, Weights
  <2> QED
    BY <1>1, <1>4, <2>2 DEF Lane, SameBytes
<1>5. CASE inst.funct3 = 0
  <2>1. mem' = memory_wr_b(Fetched, eff, r2)
    BY <1>5 DEF Stored
  <2>2. \A b \in Addr : ByteAt(mem', b) = IF b = eff THEN Lane(r2, 0) ELSE ByteAt(Fetched, b)
    BY <1>1, <2>1, WrBBytes
  <2>3. \A b \in Addr : ByteAt(mem', b) = IF b \in eff .. (eff + 1 - 1)
                                          THEN Lane(r2, b - eff) ELSE ByteAt(Fetched, b)
    <3>1. \A b \in Addr : /\ b \in eff .. (eff + 1 - 1) <=> b = eff
                          /\ b = eff => b - eff = 0
      BY <1>1, <1>3
    <3> QED
      BY <2>2, <3>1
  <2> QED
    BY <1>4, <1>5, <2>3, Widths
<1>6. CASE inst.funct3 = 1
  <2>1. mem' = memory_wr_h(Fetched, eff, r2) /\ Aligned(eff, 2)
    BY <1>6, Widths DEF Stored
  <2>2. \A b \in Addr : ByteAt(mem', b) = IF b \in eff .. (eff + 1)
                                          THEN Lane(r2, b - eff) ELSE ByteAt(Fetched, b)
    BY <1>1, <2>1, WrHBytes
  <2>3. eff + 2 - 1 = eff + 1
    BY <1>1
  <2> QED
    BY <1>4, <1>6, <2>2, <2>3, Widths
<1>7. CASE inst.funct3 = 2
  <2>1. mem' = memory_wr_w(Fetched, eff, r2) /\ Aligned(eff, 4)
    BY <1>7, Widths DEF Stored
  <2>2. \A b \in Addr : ByteAt(mem', b) = IF b \in eff .. (eff + 3)
                                          THEN Lane(r2, b - eff) ELSE ByteAt(Fetched, b)
    BY <1>1, <2>1, WrWBytes
  <2>3. eff + 4 - 1 = eff + 3
    BY <1>1
  <2> QED
    BY <1>4, <1>7, <2>2, <2>3, Widths
<1> QED
  BY <1>5, <1>6, <1>7 DEF StoreCases

LEMMA StoreIs ==
  ASSUME TypeOK, Hardwired, Store
  PROVE  Machine!Next
<1>1. /\ Loop /\ Aligned(pc, 4) /\ inst.opcode = 35 /\ UNCHANGED <<bp, io>>
      /\ IF ~ Known(inst)
         THEN mem' = Fetched /\ Stop
         ELSE IF Aligned(eff, Size(inst.funct3))
         THEN mem' = Stored(Fetched) /\ Advance(Next4) /\ UNCHANGED <<regs, status>>
         ELSE mem' = Fetched /\ Crash
  BY DEF Store, Case, STORE
<1>2. /\ Machine!inst = inst /\ Machine!Executes(35) /\ Machine!addr = eff
      /\ SameBytes(Fetched) /\ inst.funct3 \in 0 .. 7 /\ pc + 4 \in Int
  BY <1>1, MachineExecutes, SameInst, InstNumbers
<1>3. Known(inst) <=> inst.funct3 \in StoreCases
  BY <1>1 DEF Known, Opcodes, LUI, AUIPC, JAL, JALR, BRANCH, LOAD, STORE, OP_IMM, OP, SYSTEM
<1>4. CASE ~ Known(inst)
  <2>1. Machine!Ends("stopped")
    BY <1>1, <1>2, <1>4, MachineEnds DEF Stop
  <2>2. inst.funct3 \notin {0, 1, 2}
    BY <1>3, <1>4 DEF StoreCases
  <2>3. Machine!Store
    BY <1>2, <2>1, <2>2 DEF Machine!Store
  <2> QED
    BY <2>3 DEF Machine!Next
<1>5. CASE Known(inst)
  <2>1. /\ inst.funct3 \in {0, 1, 2}
        /\ Machine!Bytes(inst.funct3) = Size(inst.funct3)
    BY <1>3, <1>5, Widths DEF StoreCases
  <2>2. CASE Aligned(eff, Size(inst.funct3))
    <3>1. LET n == Machine!Bytes(inst.funct3)
          IN  [b \in Addr |-> ByteAt(mem', b)]
                = [b \in Addr |->
                     IF b \in Machine!addr .. (Machine!addr + n - 1)
                     THEN (Machine!Unsigned(Machine!a2) \div Machine!Weight(b - Machine!addr))
                            % ByteBase
                     ELSE ByteAt(mem, b)]
      BY <1>1, <1>2, <1>3, <1>5, <2>2, StoredBytes
    <3>2. Machine!addr % Machine!Bytes(inst.funct3) = 0
      BY <1>2, <2>1, <2>2 DEF Aligned
    <3>3. Machine!Goto(pc + 4)
      BY <1>1, <1>2, <1>5, <2>2, MachineGoto DEF Next4
    <3>4. Machine!Address = Addr
      BY HalfFacts, WordFacts DEF Machine!Address
    <3>5. \A b \in Addr : [c \in Addr |-> ByteAt(mem, c)][b] = ByteAt(mem, b)
      OBVIOUS
    <3>6. /\ UNCHANGED <<regs, status, input, output, branches>>
      BY <1>1, <1>5, <2>2 DEF io, bp
    <3>7. Machine!Store
      BY <1>2, <2>1, <3>1, <3>2, <3>3, <3>4, <3>5, <3>6 DEF Machine!Store
    <3> QED
      BY <3>7 DEF Machine!Next
  <2>3. CASE ~ Aligned(eff, Size(inst.funct3))
    <3>1. Machine!Ends("exited")
      BY <1>1, <1>2, <1>5, <2>3, MachineEnds DEF Crash
    <3>2. Machine!addr % Machine!Bytes(inst.funct3) # 0
      BY <1>2, <2>1, <2>3 DEF Aligned
    <3>3. Machine!Store
      BY <1>2, <2>1, <3>1, <3>2 DEF Machine!Store
    <3> QED
      BY <3>3 DEF Machine!Next
  <2> QED
    BY <2>2, <2>3
<1> QED
  BY <1>4, <1>5

(* A character fits a register, and its byte does not depend on how the    *)
(* register is read.                                                       *)
LEMMA Characters ==
  /\ Signed(Wrap(EOF)) = -1
  /\ \A c \in Byte : Signed(Wrap(c)) = c /\ Wrap(c) \in Word
  /\ Wrap(EOF) \in Word
  /\ \A w \in Word : Signed(w) % ByteBase = w % ByteBase
<1>1. PICK h \in Nat \ {0} :
        /\ WordMod = 2 * h /\ WordMod \div 2 = h /\ Machine!SignedWord = (-h) .. (h - 1)
        /\ ByteBase \in Nat /\ Half \in Nat /\ 2 <= ByteBase /\ 2 * ByteBase <= Half /\ Half <= h
  BY HalfFacts
<1>2. Signed(Wrap(EOF)) = -1 /\ Wrap(EOF) \in Word
  <2>1. -1 \in (-h) .. (h - 1) /\ -1 \in Int
    BY <1>1
  <2> QED
    BY <1>1, <2>1, SignedWords, WordFacts DEF EOF
<1>3. \A c \in Byte : Signed(Wrap(c)) = c /\ Wrap(c) \in Word
  <2>1. \A c \in Byte : c \in (-h) .. (h - 1) /\ c \in Int
    BY <1>1 DEF Byte
  <2> QED
    BY <1>1, <2>1, SignedWords, WordFacts
<1>4. ASSUME NEW w \in Word PROVE Signed(w) % ByteBase = w % ByteBase
  <2>1. PICK c \in Int : WordMod = ByteBase * c
    <3>1. (ByteBase * ByteBase) * (ByteBase * ByteBase) = ByteBase * (ByteBase * ByteBase * ByteBase)
      BY <1>1, SMT
    <3>2. ByteBase * ByteBase * ByteBase \in Int
      BY <1>1
    <3> QED
      BY <3>1, <3>2 DEF WordMod, Half
  <2>2. w \in Int /\ Signed(w) \in Int /\ ByteBase \in Nat \ {0} /\ WordMod \in Int
    BY <1>1, SignedWords, WordFacts
  <2>3. CASE Signed(w) = w
    BY <2>3
  <2>4. CASE Signed(w) # w
    <3>1. w = Signed(w) + WordMod
      BY <1>1, <2>2, <2>4 DEF Signed
    <3> QED
      BY <2>1, <2>2, <3>1, ModPlus
  <2> QED
    BY <2>3, <2>4
<1> QED
  BY <1>2, <1>3, <1>4

LEMMA SystemIs ==
  ASSUME TypeOK, Hardwired, System
  PROVE  Machine!Next
<1>1. /\ Loop /\ Aligned(pc, 4) /\ inst.opcode = 115 /\ mem' = Fetched /\ UNCHANGED bp
      /\ IF Known(inst) THEN getchar \/ putchar \/ terminate ELSE Stop /\ UNCHANGED io
  BY DEF System, Case, SYSTEM
<1>2. /\ Machine!inst = inst /\ Machine!Executes(115) /\ SameBytes(mem') /\ pc + 4 \in Int
  BY <1>1, MachineExecutes, SameInst, InstNumbers
<1>3. Known(inst) <=> inst.funct3 = 0 /\ inst.funct12 = 0
  BY <1>1 DEF Known, Opcodes, LUI, AUIPC, JAL, JALR, BRANCH, LOAD, STORE, OP_IMM, OP, SYSTEM
<1>4. [a \in Addr |-> ByteAt(mem', a)] = [a \in Addr |-> ByteAt(mem, a)]
  BY <1>2 DEF SameBytes
<1>5. /\ regs \in [Reg -> Word] /\ 10 \in Reg /\ 17 \in Reg /\ input \in Seq(Byte)
  BY RegAssumption DEF TypeOK
<1>6. Advance(Next4) => Machine!Goto(pc + 4)
  BY <1>2, MachineGoto DEF Next4
<1>7. UNCHANGED branches
  BY <1>1 DEF bp
<1> DEFINE X == [r \in Reg |-> Signed(regs[r])]
<1>8. X[10] = Signed(regs[10]) /\ X[17] = Signed(regs[17])
  BY <1>5
<1>9. CASE ~ Known(inst)
  <2>1. Machine!Ends("stopped")
    BY <1>1, <1>2, <1>9, MachineEnds DEF Stop
  <2>2. Machine!Unsupported
    BY <1>1, <1>2, <1>3, <1>9, <2>1 DEF Machine!Unsupported
  <2> QED
    BY <2>2 DEF Machine!Next
<1>10. CASE Known(inst) /\ getchar
  <2>1. /\ Signed(regs[17]) = 1
        /\ regs' = [regs EXCEPT ![10] = Wrap(IF input = <<>> THEN EOF ELSE Head(input))]
        /\ input' = IF input = <<>> THEN input ELSE Tail(input)
        /\ Advance(Next4) /\ UNCHANGED <<status, output>>
    BY <1>10 DEF getchar, a0, a7
  <2>2. IF input = <<>> THEN Machine!Sets(10, -1) ELSE Machine!Sets(10, input[1])
    <3>1. ASSUME NEW v \in Int, regs' = [regs EXCEPT ![10] = Wrap(v)], Signed(Wrap(v)) = v
          PROVE  Machine!Sets(10, v)
      <4>1. \A r \in Reg : Signed(regs'[r]) = IF r = 10 THEN v ELSE Signed(regs[r])
        BY <1>5, <3>1
      <4>2. [r \in Reg |-> Signed(regs'[r])] = [[r \in Reg |-> Signed(regs[r])] EXCEPT ![10] = v]
        BY <1>5, <4>1
      <4>3. (IF 10 = 0 THEN 0 ELSE v) = v
        OBVIOUS
      <4> QED
        BY <4>2, <4>3 DEF Machine!Sets
    <3>2. CASE input = <<>>
      <4>1. regs' = [regs EXCEPT ![10] = Wrap(-1)] /\ -1 \in Int /\ Signed(Wrap(-1)) = -1
        BY <2>1, <3>2, Characters DEF EOF
      <4>2. Machine!Sets(10, -1)
        BY <3>1, <4>1
      <4> QED
        BY <3>2, <4>2
    <3>3. CASE input # <<>>
      <4>1. Head(input) = input[1] /\ input[1] \in Byte /\ input[1] \in Int
        BY <1>5, <3>3, BaseFacts DEF Byte
      <4> QED
        BY <2>1, <3>1, <3>3, <4>1, Characters
    <3> QED
      BY <3>2, <3>3
  <2>3. Machine!Environment
    BY <1>2, <1>3, <1>4, <1>6, <1>7, <1>8, <1>10, <2>1, <2>2 DEF Machine!Environment
  <2> QED
    BY <2>3 DEF Machine!Next
<1>11. CASE Known(inst) /\ putchar
  <2>1. /\ Signed(regs[17]) = 2
        /\ output' = Append(output, regs[10] % ByteBase)
        /\ Advance(Next4) /\ UNCHANGED <<status, regs, input>>
    BY <1>11 DEF putchar, a0, a7
  <2>2. X[10] % ByteBase = regs[10] % ByteBase
    BY <1>5, <1>8, Characters
  <2>3. Machine!Environment
    BY <1>2, <1>3, <1>4, <1>6, <1>7, <1>8, <1>11, <2>1, <2>2 DEF Machine!Environment
  <2> QED
    BY <2>3 DEF Machine!Next
<1>12. CASE Known(inst) /\ terminate
  <2>1. Signed(regs[17]) \notin {1, 2} /\ Stop /\ UNCHANGED io
    BY <1>12 DEF terminate, a7
  <2>2. Machine!Ends("stopped")
    BY <1>1, <1>2, <2>1, MachineEnds DEF Stop
  <2>3. Machine!Environment
    BY <1>2, <1>3, <1>8, <1>12, <2>1, <2>2 DEF Machine!Environment
  <2> QED
    BY <2>3 DEF Machine!Next
<1> QED
  BY <1>1, <1>9, <1>10, <1>11, <1>12

-----------------------------------------------------------------------------
(* The invariant, and the theorem.                                         *)
LEMMA HardwiredStep == TypeOK /\ Hardwired /\ [Next]_vars => Hardwired'
<1> SUFFICES ASSUME TypeOK, Hardwired, [Next]_vars PROVE regs'[0] = 0
  BY DEF Hardwired
<1>1. regs \in [Reg -> Word] /\ 0 \in Reg /\ regs[0] = 0 /\ inst.rd \in Reg
  BY RegAssumption, InstNumbers DEF TypeOK, Hardwired
<1>2. UNCHANGED regs => regs'[0] = 0
  BY <1>1
<1>3. ASSUME NEW val, NEW newpc, Retire(val, newpc) PROVE regs'[0] = 0
  BY <1>1, <1>3 DEF Retire, Write
<1>4. (Lui \/ Auipc \/ Jal \/ Jalr) => regs'[0] = 0
  BY <1>3 DEF Lui, Auipc, Jal, Jalr
<1>5. (FetchMisaligned \/ Branch \/ Store \/ UnknownOpcode) => regs'[0] = 0
  BY <1>2 DEF FetchMisaligned, Branch, Store, UnknownOpcode, Stop, Crash, cpu
<1>6. Load => regs'[0] = 0
  BY <1>2, <1>3 DEF Load, Stop, Crash
<1>7. (OpImm \/ Op) => regs'[0] = 0
  BY <1>2, <1>3 DEF OpImm, Op, Stop
<1>8. System => regs'[0] = 0
  BY <1>1, <1>2 DEF System, getchar, putchar, terminate, Stop, a0
<1>9. UNCHANGED vars => regs'[0] = 0
  BY <1>2 DEF vars, cpu
<1> QED
  BY <1>4, <1>5, <1>6, <1>7, <1>8, <1>9 DEF Next

LEMMA InitMachine == Init => Hardwired /\ Machine!Init
<1> SUFFICES ASSUME Init PROVE Hardwired /\ Machine!Init
  OBVIOUS
<1>1. TypeOK
  BY InitIInv DEF IInv
<1>2. /\ regs = [r \in Reg |-> 0] /\ insn_count = 0 /\ status = "running"
      /\ output = <<>> /\ branches = <<>>
  BY DEF Init
<1>3. Hardwired
  BY <1>2, RegAssumption DEF Hardwired
<1>4. Machine!Address = Addr /\ Addr = Word
  BY HalfFacts, WordFacts DEF Machine!Address
<1>5. [a \in Addr |-> ByteAt(mem, a)] \in [Machine!Address -> 0 .. (ByteBase - 1)]
  BY <1>1, <1>4, RdBytes DEF TypeOK, Byte
<1>6. [r \in Reg |-> Signed(regs[r])] = [r \in Reg |-> 0]
  <2>1. Signed(0) = 0
    BY WordFacts DEF Signed
  <2> QED
    BY <1>2, <2>1
<1>7. pc \in Machine!Address /\ input \in Seq(0 .. (ByteBase - 1))
  BY <1>1, <1>4 DEF TypeOK, Byte
<1>8. Machine!Init
  BY <1>2, <1>5, <1>6, <1>7 DEF Machine!Init
<1> QED
  BY <1>3, <1>8

LEMMA StepMachine == TypeOK /\ Hardwired /\ [Next]_vars => [Machine!Next]_(Machine!vars)
<1> SUFFICES ASSUME TypeOK, Hardwired, [Next]_vars PROVE [Machine!Next]_(Machine!vars)
  OBVIOUS
<1>1. Next => Machine!Next
  BY FetchMisalignedIs, UpperIs, JumpIs, BranchIs, LoadIs, StoreIs, OpImmIs, OpIs, SystemIs,
     UnknownOpcodeIs DEF Next
<1>2. UNCHANGED vars => UNCHANGED Machine!vars
  BY DEF vars, cpu, bp, io, Machine!vars
<1> QED
  BY <1>1, <1>2

(* simulate.c:102-435: whatever the program is, registers, pc and memory   *)
(* hold words, since no shift, no division and no extension leaves 32      *)
(* bits, and x0 reads 0 after every instruction that names it as rd.       *)
THEOREM TypeCorrect == Spec => [](TypeOK /\ Hardwired)
<1>1. Init => IInv /\ Hardwired
  BY InitIInv, InitMachine
<1>2. IInv /\ Hardwired /\ [Next]_vars => IInv' /\ Hardwired'
  BY StepIInv, HardwiredStep DEF IInv
<1>3. IInv => TypeOK
  BY DEF IInv
<1> QED
  BY <1>1, <1>2, <1>3, PTL DEF Spec

(* A program runs as the instruction set says: every step of the loop of   *)
(* simulate(), with its casts, its cases of division and of shifts, its    *)
(* accesses to memory by bytes, its system calls and its register zero, is *)
(* a step of the machine whose registers are signed numbers and whose      *)
(* memory is one array of bytes.                                           *)
THEOREM RunsRiscV == Spec => ImplementsRiscV
<1>1. Init => IInv /\ Hardwired /\ Machine!Init
  BY InitIInv, InitMachine
<1>2. IInv /\ Hardwired /\ [Next]_vars => IInv' /\ Hardwired'
  BY StepIInv, HardwiredStep DEF IInv
<1>3. IInv /\ Hardwired /\ [Next]_vars => [Machine!Next]_(Machine!vars)
  BY StepMachine DEF IInv
<1> QED
  BY <1>1, <1>2, <1>3, PTL DEF Spec, ImplementsRiscV, Machine!Spec

=============================================================================
