---------------------- MODULE MemoryPredictor_proofs -----------------------
(***************************************************************************)
(* The two data structures of the simulator.                               *)
(*                                                                         *)
(* Memory, for every geometry and every client: PagedMemory keeps its type *)
(* and implements FlatMemory.  MemoryOK is inductive; the refinement is    *)
(* one step of FlatMemory, or a stutter, per call.                         *)
(*                                                                         *)
(* Predictors, for every program, every predictor and every table size:    *)
(* what two bits guarantee.  That proof never needs to know which entry a  *)
(* branch uses: EntryInv speaks of one entry, and a branch moves at most   *)
(* one.  Where no entry is shared, which one a branch uses does matter,    *)
(* and AliasFree implements TwoLevelPredictor.                             *)
(***************************************************************************)
EXTENDS PagedMemory, AliasFree, MachineLemmas

LEMMA TypeIsMemory == MemoryOK => IsMemory(mem)
  BY DEF MemoryOK, IsMemory

LEMMA EmptyMemory == IsMemory(memory_create) /\ \A a \in Addr : ByteAt(memory_create, a) = 0
  BY DEF memory_create, IsMemory, ByteAt

(* What a call returns or stores has the right type.                       *)
LEMMA CallTypes ==
  ASSUME NEW a \in Sites, MemoryOK
  PROVE  /\ a \in Addr
         /\ IsMemory(get_page(mem, a))
         /\ memory_rd_w(mem, a) \in Word
         /\ memory_rd_b(mem, a) \in Word
         /\ Aligned(a, 2) => memory_rd_h(mem, a) \in Word
         /\ \A d \in Data :
              /\ Aligned(a, 4) => IsMemory(memory_wr_w(mem, a, d))
              /\ Aligned(a, 2) => IsMemory(memory_wr_h(mem, a, d))
              /\ IsMemory(memory_wr_b(mem, a, d))
<1>1. a \in Addr /\ IsMemory(mem) /\ \A d \in Data : d \in Word
  BY ClientAssumption, TypeIsMemory
<1>2. Byte \subseteq Word /\ 0 .. (Half - 1) \subseteq Word
  <2>1. ByteBase <= Half /\ Half <= WordMod
    <3>1. ASSUME NEW x \in Nat, x > 1 PROVE x <= x * x
      BY <3>1, SMT
    <3> QED
      BY <3>1, BaseFacts DEF Half, WordMod
  <2> QED
    BY <2>1, BaseFacts, SMT DEF Byte, Word
<1>3. memory_rd_w(mem, a) \in Word /\ memory_rd_b(mem, a) \in Byte
      /\ (Aligned(a, 2) => memory_rd_h(mem, a) \in 0 .. (Half - 1))
  BY <1>1, RdBytes
<1>4. IsMemory(get_page(mem, a))
  BY <1>1, GetPageType
<1> QED
  BY <1>1, <1>2, <1>3, <1>4, WrWBytes, WrHBytes, WrBBytes

LEMMA TypeStep == MemoryOK /\ [MemoryNext]_memory_vars => MemoryOK'
<1> SUFFICES ASSUME MemoryOK, [MemoryNext]_memory_vars PROVE MemoryOK'
  OBVIOUS
<1>1. MemoryOK' <=> IsMemory(mem') /\ process' \in {"running", "exited"} /\ result' \in Word
  BY DEF MemoryOK, IsMemory
<1>2. IsMemory(mem) /\ process \in {"running", "exited"} /\ result \in Word
  BY TypeIsMemory DEF MemoryOK
<1>3. ASSUME NEW addr \in Sites, RdW(addr) PROVE MemoryOK'
  BY <1>1, <1>2, <1>3, CallTypes DEF RdW, Exit
<1>4. ASSUME NEW addr \in Sites, RdH(addr) PROVE MemoryOK'
  BY <1>1, <1>2, <1>4, CallTypes DEF RdH, Exit
<1>5. ASSUME NEW addr \in Sites, RdB(addr) PROVE MemoryOK'
  BY <1>1, <1>2, <1>5, CallTypes DEF RdB
<1>6. ASSUME NEW addr \in Sites, NEW data \in Data, WrW(addr, data) PROVE MemoryOK'
  BY <1>1, <1>2, <1>6, CallTypes DEF WrW, Exit
<1>7. ASSUME NEW addr \in Sites, NEW data \in Data, WrH(addr, data) PROVE MemoryOK'
  BY <1>1, <1>2, <1>7, CallTypes DEF WrH, Exit
<1>8. ASSUME NEW addr \in Sites, NEW data \in Data, WrB(addr, data) PROVE MemoryOK'
  BY <1>1, <1>2, <1>8, CallTypes DEF WrB
<1>9. CASE UNCHANGED memory_vars
  BY <1>1, <1>2, <1>9 DEF memory_vars
<1> QED
  BY <1>3, <1>4, <1>5, <1>6, <1>7, <1>8, <1>9 DEF MemoryNext

(* Pages stay within the array of page pointers and words within their     *)
(* width, for every geometry and every sequence of calls.                  *)
THEOREM MemoryTyped == MemorySpec => []MemoryOK
<1>1. MemoryInit => MemoryOK
  BY EmptyMemory, BaseFacts DEF MemoryInit, MemoryOK, IsMemory, Word
<1> QED
  BY <1>1, TypeStep, PTL DEF MemorySpec

-----------------------------------------------------------------------------
(* The refinement.                                                         *)

BytesOf(m) == [a \in Addr |-> ByteAt(m, a)]

LEMMA FlatAddr == Flat!Addr = Addr
  BY DEF Flat!Addr, Addr, PageBytes

LEMMA FlatByteOf == ASSUME NEW v, NEW k \in 0 .. 3 PROVE Flat!ByteOf(v, k) = Lane(v, k)
  BY DEF Flat!ByteOf, Lane, Shift, Half

LEMMA Units == Aligned(0, 1) /\ \A a \in Addr : a % 1 = 0 /\ a .. (a + 1 - 1) = {a} /\ a - a = 0
<1>1. \A a \in Nat : a % 1 = 0 /\ a .. (a + 1 - 1) = {a} /\ a - a = 0
  BY SMT
<1> QED
  BY <1>1, Neighbours DEF Aligned

LEMMA LoadSteps ==
  ASSUME MemoryOK, NEW a \in Sites
  PROVE  /\ RdW(a) => Flat!Load(a, 4) \/ Flat!Misaligned(a, 4)
         /\ RdH(a) => Flat!Load(a, 2) \/ Flat!Misaligned(a, 2)
         /\ RdB(a) => Flat!Load(a, 1)
<1>1. a \in Addr /\ IsMemory(mem)
  BY ClientAssumption, TypeIsMemory
<1>2. BytesOf(get_page(mem, a)) = BytesOf(mem)
  BY <1>1, GetPageType DEF BytesOf
<1>3. /\ BytesOf(mem)[a] = ByteAt(mem, a)
      /\ a + 1 \in Addr => BytesOf(mem)[a + 1] = ByteAt(mem, a + 1)
      /\ a + 2 \in Addr => BytesOf(mem)[a + 2] = ByteAt(mem, a + 2)
      /\ a + 3 \in Addr => BytesOf(mem)[a + 3] = ByteAt(mem, a + 3)
  BY <1>1 DEF BytesOf
<1>4. RdW(a) => Flat!Load(a, 4) \/ Flat!Misaligned(a, 4)
  <2>1. Aligned(a, 4) => memory_rd_w(mem, a) = Flat!ValueAt(a, 4)
    BY <1>1, <1>3, RdBytes DEF Flat!ValueAt, BytesOf, Compose
  <2> QED
    BY <1>2, <2>1 DEF RdW, Exit, Flat!Load, Flat!Misaligned, BytesOf, Aligned
<1>5. RdH(a) => Flat!Load(a, 2) \/ Flat!Misaligned(a, 2)
  <2>1. Aligned(a, 2) => memory_rd_h(mem, a) = Flat!ValueAt(a, 2)
    BY <1>1, <1>3, RdBytes DEF Flat!ValueAt, BytesOf
  <2> QED
    BY <1>2, <2>1 DEF RdH, Exit, Flat!Load, Flat!Misaligned, BytesOf, Aligned
<1>6. RdB(a) => Flat!Load(a, 1)
  <2>1. memory_rd_b(mem, a) = Flat!ValueAt(a, 1)
    BY <1>1, <1>3, RdBytes DEF Flat!ValueAt, BytesOf
  <2> QED
    BY <1>1, <1>2, <2>1, Units DEF RdB, Flat!Load, BytesOf
<1> QED
  BY <1>4, <1>5, <1>6

LEMMA StoreSteps ==
  ASSUME MemoryOK, NEW a \in Sites, NEW d \in Data
  PROVE  /\ WrW(a, d) => Flat!Store(a, 4, d) \/ Flat!Misaligned(a, 4)
         /\ WrH(a, d) => Flat!Store(a, 2, d) \/ Flat!Misaligned(a, 2)
         /\ WrB(a, d) => Flat!Store(a, 1, d)
<1>1. a \in Addr /\ a \in Nat /\ d \in Word /\ IsMemory(mem)
  BY ClientAssumption, TypeIsMemory, Neighbours
<1>2. \A b \in Addr : /\ b \in a .. (a + 4 - 1) => b - a \in 0 .. 3
                      /\ b \in a .. (a + 2 - 1) => b - a \in 0 .. 3
  BY <1>1, SMT
<1>3. a .. (a + 4 - 1) = a .. (a + 3) /\ a .. (a + 2 - 1) = a .. (a + 1)
  BY <1>1, SMT
<1>4. ASSUME NEW n \in {1, 2, 4}, NEW m,
             \A b \in Addr : ByteAt(m, b)
               = IF b \in a .. (a + n - 1) THEN Lane(d, b - a) ELSE ByteAt(mem, b)
      PROVE  BytesOf(m) = [b \in Flat!Addr |-> IF b \in a .. (a + n - 1)
                                               THEN Flat!ByteOf(d, b - a)
                                               ELSE BytesOf(mem)[b]]
  <2>1. ASSUME NEW b \in Addr, b \in a .. (a + n - 1)
        PROVE  Lane(d, b - a) = Flat!ByteOf(d, b - a)
    <3>1. b - a \in 0 .. 3
      <4>1. b \in Nat
        BY Neighbours
      <4> QED
        BY <1>1, <2>1, <4>1, SMT
    <3> QED
      BY <3>1, FlatByteOf
  <2> QED
    BY <1>4, <2>1, FlatAddr DEF BytesOf
<1>5. WrW(a, d) => Flat!Store(a, 4, d) \/ Flat!Misaligned(a, 4)
  <2>1. Aligned(a, 4) => \A b \in Addr : ByteAt(memory_wr_w(mem, a, d), b)
               = IF b \in a .. (a + 4 - 1) THEN Lane(d, b - a) ELSE ByteAt(mem, b)
    BY <1>1, <1>3, WrWBytes
  <2> QED
    BY <1>4, <2>1 DEF WrW, Exit, Flat!Store, Flat!Misaligned, BytesOf, Aligned
<1>6. WrH(a, d) => Flat!Store(a, 2, d) \/ Flat!Misaligned(a, 2)
  <2>1. Aligned(a, 2) => \A b \in Addr : ByteAt(memory_wr_h(mem, a, d), b)
               = IF b \in a .. (a + 2 - 1) THEN Lane(d, b - a) ELSE ByteAt(mem, b)
    BY <1>1, <1>3, WrHBytes
  <2> QED
    BY <1>4, <2>1 DEF WrH, Exit, Flat!Store, Flat!Misaligned, BytesOf, Aligned
<1>7. WrB(a, d) => Flat!Store(a, 1, d)
  <2>1. \A b \in Addr : ByteAt(memory_wr_b(mem, a, d), b)
               = IF b \in a .. (a + 1 - 1) THEN Lane(d, b - a) ELSE ByteAt(mem, b)
    BY <1>1, Units, WrBBytes
  <2>2. a % 1 = 0
    BY <1>1, Units
  <2> QED
    BY <1>4, <2>1, <2>2 DEF WrB, Flat!Store, BytesOf
<1> QED
  BY <1>5, <1>6, <1>7

(* Paging, lanes, masks and shifts are invisible: whatever the client      *)
(* calls, memory.c behaves as one flat array of zeroed bytes.              *)
THEOREM RefinesFlatMemory == MemorySpec => ImplementsFlatMemory
<1>1. MemoryInit => Flat!Init
  BY EmptyMemory, FlatAddr DEF MemoryInit, Flat!Init
<1>2. MemoryOK /\ [MemoryNext]_memory_vars => [Flat!Next]_(Flat!vars)
  <2> SUFFICES ASSUME MemoryOK, [MemoryNext]_memory_vars PROVE [Flat!Next]_(Flat!vars)
    OBVIOUS
  <2>1. ASSUME NEW a \in Sites, RdW(a) \/ RdH(a) \/ RdB(a) PROVE Flat!Next
    BY <2>1, LoadSteps DEF Flat!Next
  <2>2. ASSUME NEW a \in Sites, NEW d \in Data, WrW(a, d) \/ WrH(a, d) \/ WrB(a, d)
        PROVE  Flat!Next
    BY <2>2, StoreSteps DEF Flat!Next
  <2>3. CASE UNCHANGED memory_vars
    BY <2>3 DEF memory_vars, Flat!vars
  <2> QED
    BY <2>1, <2>2, <2>3 DEF MemoryNext
<1> QED
  BY <1>1, <1>2, MemoryTyped, PTL DEF MemorySpec, ImplementsFlatMemory, Flat!Spec

-----------------------------------------------------------------------------
(* How the counter c of an entry is tied to its history: the last outcome  *)
(* l, the number of runs r, the length s of the last one and the           *)
(* mispredictions m.  A counter that leans against its last outcome has    *)
(* one more misprediction to make, which the bound must leave room for.    *)
EntryInv(c, l, r, s, m) ==
  IF r = 0 THEN s = 0 /\ m = 0 /\ c = WeaklyTaken
  ELSE /\ s >= 1
       /\ m <= 2 * r - 1
       /\ l = TAKEN => /\ c >= 1
                       /\ c = 1 => m <= 2 * r - 2
                       /\ s >= 2 => c >= 2
                       /\ s >= 3 => c = 3
       /\ l = NOT_TAKEN => /\ c <= 2
                           /\ c = 2 => m <= 2 * r - 2
                           /\ s >= 2 => c <= 1
                           /\ s >= 3 => c = 0

IInv ==
  /\ TypeOK
  /\ \A e \in Entries :
       EntryInv(predictor.table[e], last[e], runs[e], streak[e], missed[e])

-----------------------------------------------------------------------------

(* One outcome at one entry.                                               *)
LEMMA EntryStep ==
  ASSUME NEW c \in Counter, NEW l \in Outcome, NEW r \in Nat, NEW s \in Nat,
         NEW m \in Nat, NEW taken \in Outcome,
         EntryInv(c, l, r, s, m)
  PROVE  LET again == r > 0 /\ l = taken
             miss == Guess(c >= WeaklyTaken) # taken
         IN  /\ Count(c, taken) \in Counter
             /\ EntryInv(Count(c, taken), taken, IF again THEN r ELSE r + 1,
                         IF again THEN s + 1 ELSE 1, IF miss THEN m + 1 ELSE m)
<1>1. taken = 1 \/ taken = 0
  BY DEF Outcome, TAKEN, NOT_TAKEN
<1>2. l = 1 \/ l = 0
  BY DEF Outcome, TAKEN, NOT_TAKEN
<1>3. c = 0 \/ c = 1 \/ c = 2 \/ c = 3
  BY SMT DEF Counter
<1>4. CASE taken = 1
  BY <1>2, <1>3, <1>4, SMT
     DEF EntryInv, Count, Guess, Counter, WeaklyTaken, TAKEN, NOT_TAKEN
<1>5. CASE taken = 0
  BY <1>2, <1>3, <1>5, SMT
     DEF EntryInv, Count, Guess, Counter, WeaklyTaken, TAKEN, NOT_TAKEN
<1> QED
  BY <1>1, <1>4, <1>5

(* What an entry's invariant says of the properties.                       *)
LEMMA EntryFacts ==
  ASSUME NEW c \in Counter, NEW l \in Outcome, NEW r \in Nat, NEW s \in Nat,
         NEW m \in Nat, EntryInv(c, l, r, s, m)
  PROVE  /\ IF r = 0 THEN m = 0 ELSE m <= 2 * r - 1
         /\ s >= 2 => Guess(c >= WeaklyTaken) = l
         /\ s >= 3 => \A taken \in Outcome : Guess(Count(c, taken) >= WeaklyTaken) = l
  BY SMT DEF EntryInv, Count, Guess, Counter, Outcome, WeaklyTaken, TAKEN, NOT_TAKEN

-----------------------------------------------------------------------------
LEMMA InitIInv == Init => IInv
<1> SUFFICES ASSUME Init PROVE IInv
  OBVIOUS
<1>1. PICK n \in Names, s \in Sizes : predictor = build_predictor(n, s)
  BY DEF Init
<1>2. PredictorOK(predictor) /\ \A e \in Entries : predictor.table[e] = WeaklyTaken
  <2>1. s \in Int
    BY SizesAssumption
  <2> QED
    BY <1>1, <2>1, BuildFacts DEF Entries
<1>3. TypeOK
  BY <1>2 DEF Init, TypeOK, Outcome, NoBranches
<1> QED
  BY <1>2, <1>3 DEF Init, IInv, EntryInv

LEMMA StepIInv == IInv /\ [Next]_vars => IInv'
<1> SUFFICES ASSUME IInv, [Next]_vars PROVE IInv'
  OBVIOUS
<1>1. CASE UNCHANGED vars
  BY <1>1 DEF vars, history, IInv, TypeOK, Entries
<1>2. ASSUME NEW b \in program, NEW taken \in Outcome, Branch(b, taken)
      PROVE  IInv'
  <2> DEFINE e == Entry(predictor, b.pc)
             miss == predict(predictor, b.pc, b.target) # taken
  <2>1. /\ predictor' = update(predictor, b.pc, b.target, taken)
        /\ stats' \in [total_branches : Nat, mispredictions : Nat]
        /\ program' = program
    BY <1>2 DEF Branch, AfterBranch, IInv, TypeOK
  <2>2. CASE ~ HasTable(predictor)
    <3>1. predictor' = predictor /\ UNCHANGED history
      BY <1>2, <2>1, <2>2 DEF Branch, update, HasTable
    <3> QED
      BY <2>1, <3>1 DEF history, IInv, TypeOK, Entries
  <2>3. CASE HasTable(predictor)
    <3>1. /\ PredictorOK(predictor') /\ HasTable(predictor')
          /\ DOMAIN predictor'.table = DOMAIN predictor.table
          /\ predictor'.table = [predictor.table EXCEPT ![e] = Count(@, taken)]
      BY <2>1, <2>3, UpdateFacts DEF IInv, TypeOK
    <3>2. Entries' = Entries /\ Entries = DOMAIN predictor.table
      BY <2>3, <3>1 DEF Entries
    <3>3. Remember(e, taken, miss)
      BY <1>2, <2>3 DEF Branch
    <3>4. /\ predictor.table \in [Entries -> Counter]
          /\ last \in [Entries -> Outcome] /\ runs \in [Entries -> Nat]
          /\ streak \in [Entries -> Nat] /\ missed \in [Entries -> Nat]
      <4>1. predictor.table \in [0 .. (predictor.size - 1) -> Counter]
        BY <2>3, TableFacts DEF IInv, TypeOK
      <4> QED
        BY <3>2, <4>1 DEF IInv, TypeOK
    <3>5. e \in Entries => miss = (Guess(predictor.table[e] >= WeaklyTaken) # taken)
      BY <2>3 DEF predict, HasTable, Guess
    <3> HIDE DEF e, miss
    <3>6. /\ last' \in [Entries -> Outcome] /\ runs' \in [Entries -> Nat]
          /\ streak' \in [Entries -> Nat] /\ missed' \in [Entries -> Nat]
      <4>1. CASE e \in Entries
        <5>1. runs[e] \in Nat /\ streak[e] \in Nat /\ missed[e] \in Nat
          BY <3>4, <4>1
        <5>2. runs[e] + 1 \in Nat /\ streak[e] + 1 \in Nat /\ missed[e] + 1 \in Nat
          BY <5>1
        <5> QED
          BY <3>3, <3>4, <4>1, <5>1, <5>2 DEF Remember
      <4>2. CASE e \notin Entries
        BY <3>3, <3>4, <4>2 DEF Remember
      <4> QED
        BY <4>1, <4>2
    <3>7. ASSUME NEW f \in Entries, f # e
          PROVE  EntryInv(predictor'.table[f], last'[f], runs'[f], streak'[f], missed'[f])
      <4>1. /\ predictor'.table[f] = predictor.table[f] /\ last'[f] = last[f]
            /\ runs'[f] = runs[f] /\ streak'[f] = streak[f] /\ missed'[f] = missed[f]
        BY <3>1, <3>3, <3>4, <3>7 DEF Remember
      <4> QED
        BY <4>1 DEF IInv
    <3>8. ASSUME e \in Entries
          PROVE  EntryInv(predictor'.table[e], last'[e], runs'[e], streak'[e], missed'[e])
      <4> DEFINE again == runs[e] > 0 /\ last[e] = taken
      <4>1. /\ predictor'.table[e] = Count(predictor.table[e], taken)
            /\ last'[e] = taken
            /\ runs'[e] = IF again THEN runs[e] ELSE runs[e] + 1
            /\ streak'[e] = IF again THEN streak[e] + 1 ELSE 1
            /\ missed'[e] = IF miss THEN missed[e] + 1 ELSE missed[e]
        BY <3>1, <3>3, <3>4, <3>8 DEF Remember
      <4>2. EntryInv(predictor.table[e], last[e], runs[e], streak[e], missed[e])
        BY <3>8 DEF IInv
      <4>3. /\ predictor.table[e] \in Counter /\ last[e] \in Outcome /\ runs[e] \in Nat
            /\ streak[e] \in Nat /\ missed[e] \in Nat
        BY <3>4, <3>8
      <4>4. EntryInv(Count(predictor.table[e], taken), taken,
                     IF again THEN runs[e] ELSE runs[e] + 1,
                     IF again THEN streak[e] + 1 ELSE 1,
                     IF Guess(predictor.table[e] >= WeaklyTaken) # taken
                     THEN missed[e] + 1 ELSE missed[e])
        BY <4>2, <4>3, EntryStep
      <4> QED
        BY <3>5, <3>8, <4>1, <4>4
    <3> QED
      BY <2>1, <3>1, <3>2, <3>6, <3>7, <3>8 DEF IInv, TypeOK
  <2> QED
    BY <2>2, <2>3
<1> QED
  BY <1>1, <1>2 DEF Next, Outcome

(* What ties each counter to the outcomes its entry has seen holds at every*)
(* branch, for every program, predictor and table size.                    *)
THEOREM Invariant == Spec => []IInv
  BY InitIInv, StepIInv, PTL DEF Spec

(* Counters stay within two bits and tables keep their size.               *)
THEOREM TypeCorrect == Spec => []TypeOK
<1>1. IInv => TypeOK
  BY DEF IInv
<1> QED
  BY <1>1, Invariant, PTL

LEMMA EntryTypes ==
  ASSUME IInv, NEW e \in Entries
  PROVE  /\ predictor.table[e] \in Counter /\ last[e] \in Outcome
         /\ runs[e] \in Nat /\ streak[e] \in Nat /\ missed[e] \in Nat
<1>1. HasTable(predictor) /\ Entries = DOMAIN predictor.table
  BY DEF Entries
<1>2. predictor.table \in [0 .. (predictor.size - 1) -> Counter]
  BY <1>1, TableFacts DEF IInv, TypeOK
<1> QED
  BY <1>1, <1>2 DEF IInv, TypeOK

(* Two mispredictions per run of equal outcomes, for every table size and  *)
(* every sharing of entries.                                               *)
THEOREM MissBound == Spec => []MissesBounded
<1>1. IInv => MissesBounded
  BY EntryTypes, EntryFacts DEF IInv, MissesBounded
<1> QED
  BY <1>1, Invariant, PTL

(* The hysteresis of the counters, for every table size and every sharing. *)
THEOREM Hysteresis == Spec => []TwoInARowDecide
<1>1. IInv => TwoInARowDecide
  <2> SUFFICES ASSUME IInv, NEW e \in Entries
               PROVE  /\ streak[e] >= 2 => Guess(predictor.table[e] >= WeaklyTaken) = last[e]
                      /\ streak[e] >= 3 =>
                           \A taken \in Outcome :
                             Guess(Count(predictor.table[e], taken) >= WeaklyTaken) = last[e]
    BY DEF TwoInARowDecide
  <2> QED
    BY EntryTypes, EntryFacts DEF IInv
<1> QED
  BY <1>1, Invariant, PTL
-----------------------------------------------------------------------------
(* A branch of the program always finds its entry in the table: the index  *)
(* is reduced to its size, whatever gshare keeps as history.               *)
LEMMA EntryOfTable ==
  ASSUME NEW p, PredictorOK(p), HasTable(p), NEW pc \in Nat
  PROVE  Entry(p, pc) \in DOMAIN p.table
<1>1. p.size \in Nat \ {0} /\ DOMAIN p.table = 0 .. (p.size - 1)
  BY TableFacts
<1>2. \A x \in Int : x % p.size \in 0 .. (p.size - 1)
  BY <1>1
<1>3. pc \div 4 \in Int
  OBVIOUS
<1>4. \A x, y : BitXor(x, y) \in Int
  <2>1. \A S \in SUBSET (0 .. (Width - 1)) : FromBits(S) \in 0 .. (2^Width - 1)
    BY WidthAssumption, SumOfPowers DEF FromBits
  <2> QED
    BY <2>1 DEF BitXor, BitsOf, SymDiff
<1>5. CASE p.kind = "bimodal"
  BY <1>1, <1>2, <1>3, <1>5 DEF Entry, bimodal_index
<1>6. CASE p.kind = "gshare"
  <2>1. gshare_index(p, pc) \in 0 .. (p.size - 1)
    BY <1>2, <1>4 DEF gshare_index
  <2> QED
    BY <1>1, <1>6, <2>1 DEF Entry
<1> QED
  BY <1>5, <1>6 DEF HasTable

(* Every misprediction of the profile was made from one entry.             *)
MissesAdd ==
  HasTable(predictor) => stats.mispredictions = SumFunctionOnSet(missed, Entries)

LEMMA EntriesFinite == IInv => IsFiniteSet(Entries) /\ \A e \in Entries : missed[e] \in Int
<1> SUFFICES ASSUME IInv PROVE IsFiniteSet(Entries) /\ \A e \in Entries : missed[e] \in Int
  OBVIOUS
<1>1. IsFiniteSet(Entries)
  <2>1. CASE HasTable(predictor)
    <3>1. predictor.size \in Int /\ Entries = 0 .. (predictor.size - 1)
      BY <2>1, TableFacts DEF IInv, TypeOK, Entries
    <3> QED
      BY <3>1, FS_Interval
  <2>2. CASE ~ HasTable(predictor)
    BY <2>2, FS_EmptySet DEF Entries
  <2> QED
    BY <2>1, <2>2
<1> QED
  BY <1>1 DEF IInv, TypeOK

LEMMA InitMissesAdd == Init => MissesAdd
<1> SUFFICES ASSUME Init PROVE MissesAdd
  OBVIOUS
<1>1. IsFiniteSet(Entries)
  BY InitIInv, EntriesFinite
<1>2. \A e \in Entries : missed[e] = 0
  BY DEF Init
<1> QED
  BY <1>1, <1>2, SumZero DEF Init, MissesAdd, NoBranches

LEMMA StepMissesAdd == IInv /\ IInv' /\ MissesAdd /\ [Next]_vars => MissesAdd'
<1> SUFFICES ASSUME IInv, IInv', MissesAdd, [Next]_vars, HasTable(predictor)'
             PROVE  stats'.mispredictions = SumFunctionOnSet(missed', Entries')
  BY DEF MissesAdd
<1>1. CASE UNCHANGED vars
  BY <1>1 DEF vars, history, MissesAdd, Entries
<1>2. ASSUME NEW b \in program, NEW taken \in Outcome, Branch(b, taken)
      PROVE  stats'.mispredictions = SumFunctionOnSet(missed', Entries')
  <2> DEFINE e    == Entry(predictor, b.pc)
             miss == predict(predictor, b.pc, b.target) # taken
             after == AfterBranch(predictor, stats, b.pc, b.target, taken)
  <2>1. /\ predictor' = after.predictor /\ stats' = after.stats
        /\ PredictorOK(predictor) /\ predictor.kind # "none"
        /\ stats.total_branches \in Nat /\ stats.mispredictions \in Nat
    BY <1>2 DEF Branch, IInv, TypeOK
  <2>2. /\ after.predictor.kind = predictor.kind
        /\ after.stats.mispredictions =
             IF miss THEN stats.mispredictions + 1 ELSE stats.mispredictions
    BY <2>1, AfterBranchFacts
  <2>3. HasTable(predictor)
    BY <2>1, <2>2 DEF HasTable
  <2>4. Entries' = Entries /\ Entries = DOMAIN predictor.table
    <3>1. predictor' = update(predictor, b.pc, b.target, taken)
      BY <2>1 DEF AfterBranch
    <3>2. /\ PredictorOK(predictor') /\ HasTable(predictor')
          /\ DOMAIN predictor'.table = DOMAIN predictor.table
          /\ predictor'.table =
               [predictor.table EXCEPT ![Entry(predictor, b.pc)] = Count(@, taken)]
      BY <2>1, <2>3, <3>1, UpdateFacts
    <3> QED
      BY <2>3, <3>2 DEF Entries
  <2>5. e \in Entries
    <3>1. b.pc \in Nat
      BY ProgramAssumption DEF IInv, TypeOK
    <3> QED
      BY <2>1, <2>3, <2>4, <3>1, EntryOfTable
  <2>6. missed' = [missed EXCEPT ![e] = IF miss THEN @ + 1 ELSE @]
    BY <1>2, <2>3 DEF Branch, Remember
  <2> HIDE DEF e, miss, after
  <2>7. /\ IsFiniteSet(Entries) /\ \A x \in Entries : missed[x] \in Int
        /\ missed \in [Entries -> Nat]
    BY EntriesFinite DEF IInv, TypeOK
  <2>8. /\ missed'[e] = IF miss THEN missed[e] + 1 ELSE missed[e]
        /\ missed'[e] \in Int
        /\ \A x \in Entries \ {e} : missed'[x] = missed[x]
    BY <2>5, <2>6, <2>7
  <2>9. SumFunctionOnSet(missed', Entries)
          = (SumFunctionOnSet(missed, Entries) - missed[e]) + missed'[e]
    BY <2>5, <2>7, <2>8, SumChanged
  <2>10. stats.mispredictions = SumFunctionOnSet(missed, Entries)
    BY <2>3 DEF MissesAdd
  <2>11. missed[e] \in Nat
    BY <2>5, <2>7
  <2> QED
    BY <2>1, <2>2, <2>4, <2>8, <2>9, <2>10, <2>11
<1> QED
  BY <1>1, <1>2 DEF Next, Outcome

(* The whole profile is bounded by what the runs of outcomes can cost, for *)
(* every program, every table size and every sharing of entries.           *)
THEOREM ProfileBound == Spec => []ProfileBounded
<1>1. ASSUME IInv, MissesAdd PROVE ProfileBounded
  <2> DEFINE T == {f \in Entries : runs[f] > 0}
             cost == [e \in T |-> 2 * runs[e] - 1]
  <2>1. IsFiniteSet(Entries) /\ \A e \in Entries : missed[e] \in Int
    BY <1>1, EntriesFinite
  <2>2. MissesBounded
    BY <1>1, EntryTypes, EntryFacts DEF IInv, MissesBounded
  <2>3. \A e \in Entries : runs[e] \in Nat
    BY <1>1 DEF IInv, TypeOK
  <2>4. \A e \in Entries : missed[e] \in Int /\ (e \notin T => missed[e] <= 0)
    BY <2>1, <2>2, <2>3 DEF MissesBounded
  <2>5. \A e \in T : cost[e] \in Int /\ missed[e] <= cost[e]
    BY <2>2, <2>3 DEF MissesBounded
  <2>6. T \in SUBSET Entries
    OBVIOUS
  <2>7. DOMAIN cost = T
    OBVIOUS
  <2>8. ProfileBounded = (HasTable(predictor) => stats.mispredictions <= SumFunction(cost))
    BY DEF ProfileBounded
  <2> HIDE DEF T, cost
  <2>9. SumFunctionOnSet(missed, Entries) <= SumFunctionOnSet(cost, T)
    BY <2>1, <2>4, <2>5, <2>6, SumBounded
  <2> QED
    BY <1>1, <2>7, <2>8, <2>9 DEF MissesAdd, SumFunction
<1>2. Init => IInv /\ MissesAdd
  BY InitIInv, InitMissesAdd
<1>3. IInv /\ MissesAdd /\ [Next]_vars => IInv' /\ MissesAdd'
  BY StepIInv, StepMissesAdd
<1> QED
  BY <1>1, <1>2, <1>3, PTL DEF Spec

-----------------------------------------------------------------------------
(* Gshare under one register, and where nothing is shared.                 *)
(* A pattern of outcomes as a history register.                            *)
LEMMA RegisterBits ==
  ASSUME NEW d \in 0 .. (Width - 1), NEW h \in [1 .. d -> Outcome]
  PROVE  Register(h) \in Nat /\ \A i \in 0 .. (d - 1) : BitOf(Register(h), i) = h[i + 1]
<1> DEFINE S == {i - 1 : i \in {j \in DOMAIN h : h[j] = TAKEN}}
<1>1. d \in Nat
  BY WidthAssumption
<1>2. S \in SUBSET (0 .. (d - 1)) /\ \A i \in 0 .. (d - 1) : i \in S <=> h[i + 1] = TAKEN
  <2>1. ASSUME NEW i \in 0 .. (d - 1), i \in S PROVE h[i + 1] = TAKEN
    <3>1. PICK k \in DOMAIN h : i = k - 1 /\ h[k] = TAKEN
      BY <2>1
    <3>2. k = i + 1
      BY <1>1, <3>1
    <3> QED
      BY <3>1, <3>2
  <2>2. ASSUME NEW i \in 0 .. (d - 1), h[i + 1] = TAKEN PROVE i \in S
    <3>1. i + 1 \in DOMAIN h /\ i = (i + 1) - 1
      BY <1>1
    <3> QED
      BY <2>2, <3>1
  <2>3. S \subseteq 0 .. (d - 1)
    BY <1>1
  <2> QED
    BY <2>1, <2>2, <2>3
<1> HIDE DEF S
<1>3. SumFunction([i \in S |-> 2^i]) \in 0 .. (2^d - 1)
  BY <1>1, <1>2, SumOfPowers
<1>4. \A i \in 0 .. (d - 1) : BitOf(SumFunction([j \in S |-> 2^j]), i) = IF i \in S THEN 1 ELSE 0
  BY <1>1, <1>2, BitsOfSum
<1>5. \A i \in 0 .. (d - 1) : h[i + 1] = IF i \in S THEN 1 ELSE 0
  <2>1. \A i \in 0 .. (d - 1) : h[i + 1] \in Outcome
    BY <1>1
  <2> QED
    BY <1>2, <2>1 DEF Outcome, TAKEN, NOT_TAKEN
<1>6. Register(h) = SumFunction([i \in S |-> 2^i])
  BY DEF Register, FromBits, S
<1>7. 2^d \in Nat
  BY <1>1, Powers
<1> QED
  BY <1>3, <1>4, <1>5, <1>6, <1>7

(* The index of gshare under a register g: branches at one address with    *)
(* registers that differ in a bit it uses have different entries.          *)
LEMMA IndexBits ==
  ASSUME NEW d \in 0 .. (Width - 1), NEW pc \in Nat, NEW g \in Nat
  PROVE  LET x == gshare_index([size |-> 2^d, ghr |-> g], pc) IN
         /\ x \in 0 .. (2^d - 1)
         /\ \A i \in 0 .. (d - 1) :
              BitOf(x, i) = IF (BitOf(pc \div 4, i) = 1) # (BitOf(g, i) = 1) THEN 1 ELSE 0
<1> DEFINE a == pc \div 4
           z == BitXor(a % 2^d, g % 2^d)
           x == gshare_index([size |-> 2^d, ghr |-> g], pc)
<1>1. d \in Nat /\ Width \in Nat /\ 2^d \in Nat \ {0}
  BY WidthAssumption, Powers
<1>2. a \in Int
  BY IntDivMod
<1>3. x = z % 2^d
  BY DEF gshare_index
<1>4. z \in Int
  <2>1. \A S \in SUBSET (0 .. (Width - 1)) : FromBits(S) \in 0 .. (2^Width - 1)
    BY <1>1, SumOfPowers DEF FromBits
  <2>2. SymDiff(BitsOf(a % 2^d), BitsOf(g % 2^d)) \in SUBSET (0 .. (Width - 1))
    BY DEF BitsOf, SymDiff
  <2>3. 2^Width \in Nat
    BY <1>1, Powers
  <2> QED
    BY <2>1, <2>2, <2>3 DEF BitXor
<1>5. ASSUME NEW i \in 0 .. (d - 1)
      PROVE  BitOf(x, i) = IF (BitOf(a, i) = 1) # (BitOf(g, i) = 1) THEN 1 ELSE 0
  <2>1. BitOf(x, i) = BitOf(z, i)
    BY <1>1, <1>3, <1>4, LowBits
  <2>2. i \in 0 .. (Width - 1)
    BY <1>1
  <2>3. BitOf(z, i) = IF (BitOf(a % 2^d, i) = 1) # (BitOf(g % 2^d, i) = 1) THEN 1 ELSE 0
    BY <2>2, BitsOfLogic
  <2>4. BitOf(a % 2^d, i) = BitOf(a, i) /\ BitOf(g % 2^d, i) = BitOf(g, i)
    BY <1>1, <1>2, LowBits
  <2> QED
    BY <2>1, <2>3, <2>4
<1>6. x \in 0 .. (2^d - 1)
  BY <1>1, <1>3, <1>4, IntDivMod
<1> QED
  BY <1>5, <1>6

-----------------------------------------------------------------------------
(* What is true of a gshare predictor at any time.                         *)
GshareOK(p) ==
  p.kind = "gshare" =>
    \E k \in 0 .. (Width - 1) :
       /\ p.size = 2^k
       /\ p.ghr_bits = IF k = 0 THEN 1 ELSE k
       /\ p.ghr \in Nat

LEMMA BuildGshare ==
  ASSUME NEW n, NEW s \in Sizes
  PROVE  LET p == build_predictor(n, s) IN GshareOK(p) /\ (p.kind = "gshare" => p.ghr = 0)
<1> DEFINE p == build_predictor(n, s)
<1>1. \/ p = NoPredictor
      \/ p = predictor_nt
      \/ p = predictor_btfnt
      \/ p = predictor_bimodal(s) /\ is_power_of_two(s)
      \/ p = predictor_gshare(s) /\ is_power_of_two(s)
  BY Zenon DEF build_predictor, predictor_bimodal, predictor_gshare
<1> HIDE DEF p
<1>2. CASE p \in {NoPredictor, predictor_nt, predictor_btfnt}
  BY <1>2 DEF p, GshareOK, NoPredictor, predictor_nt, predictor_btfnt
<1>3. CASE p = predictor_bimodal(s) /\ is_power_of_two(s)
  <2>1. p.kind = "bimodal"
    BY <1>3 DEF predictor_bimodal
  <2> QED
    BY <2>1 DEF GshareOK, p
<1>4. CASE p = predictor_gshare(s) /\ is_power_of_two(s)
  <2>1. p = [kind |-> "gshare", size |-> s,
             table |-> [i \in 0 .. (s - 1) |-> WeaklyTaken], ghr |-> 0,
             ghr_bits |-> IF log2_int(s) <= 0 THEN 1 ELSE log2_int(s)]
    BY <1>4 DEF predictor_gshare
  <2>2. /\ p.kind = "gshare" /\ p.size = s /\ p.ghr = 0
        /\ p.ghr_bits = IF log2_int(s) <= 0 THEN 1 ELSE log2_int(s)
    BY <2>1
  <2>3. s \in 1 .. (2^Width - 1)
    <3>1. Width - 1 \in Nat /\ (Width - 1) + 1 = Width
      BY WidthAssumption
    <3>2. PICK h \in Nat \ {0} : h = 2^(Width - 1) /\ 2^Width = 2 * h
      BY <3>1, Powers
    <3>3. s \in (-h) .. (h - 1)
      BY <3>2, SizesAssumption
    <3> QED
      BY <1>4, <3>2, <3>3 DEF is_power_of_two
  <2>4. PICK k \in 0 .. (Width - 1) : s = 2^k
    BY <1>4, <2>3, PowerOfTwo DEF is_power_of_two
  <2>5. log2_int(s) = k /\ k \in Nat
    BY <2>4, LogOfPower
  <2>6. p.ghr_bits = IF k = 0 THEN 1 ELSE k
    BY <2>2, <2>5
  <2> QED
    BY <2>2, <2>4, <2>6 DEF GshareOK, p
<1> QED
  BY <1>1, <1>2, <1>3, <1>4 DEF p

LEMMA UpdateGshare ==
  ASSUME NEW p, PredictorOK(p), p.kind = "gshare", NEW pc, NEW target, NEW taken,
         NEW q, q = update(p, pc, target, taken)
  PROVE  /\ q.kind = "gshare" /\ q.size = p.size /\ q.ghr_bits = p.ghr_bits
         /\ q.ghr = (2 * p.ghr + taken) % 2^p.ghr_bits
<1>1. p = [kind |-> "gshare", size |-> p.size, table |-> p.table,
           ghr |-> p.ghr, ghr_bits |-> p.ghr_bits]
  BY TableFacts DEF HasTable
<1>2. PICK t : Trained(p, pc, taken) = [p EXCEPT !.table = t]
  BY <1>1 DEF Trained
<1> DEFINE g == (2 * p.ghr + taken) % 2^p.ghr_bits
           r == [kind |-> "gshare", size |-> p.size, table |-> t,
                 ghr |-> p.ghr, ghr_bits |-> p.ghr_bits]
<1>3. Trained(p, pc, taken) = r
  BY <1>1, <1>2
<1>4. q = [r EXCEPT !.ghr = (2 * @ + taken) % 2^p.ghr_bits]
  BY <1>3 DEF update
<1>5. r.ghr = p.ghr
  OBVIOUS
<1>6. q = [r EXCEPT !.ghr = g]
  BY <1>4, <1>5
<1> HIDE DEF g
<1>7. q = [kind |-> "gshare", size |-> p.size, table |-> t, ghr |-> g, ghr_bits |-> p.ghr_bits]
  BY <1>6
<1> QED
  BY <1>7 DEF g

LEMMA GshareStep ==
  ASSUME NEW p, PredictorOK(p), p.kind = "gshare", GshareOK(p),
         NEW pc, NEW target, NEW taken \in Outcome
  PROVE  GshareOK(update(p, pc, target, taken))
<1> DEFINE q == update(p, pc, target, taken)
<1>1. /\ q.kind = "gshare" /\ q.size = p.size /\ q.ghr_bits = p.ghr_bits
      /\ q.ghr = (2 * p.ghr + taken) % 2^p.ghr_bits
  BY UpdateGshare
<1> HIDE DEF q
<1>2. PICK k \in 0 .. (Width - 1) : /\ p.size = 2^k /\ p.ghr_bits = IF k = 0 THEN 1 ELSE k
                                    /\ p.ghr \in Nat
  BY DEF GshareOK
<1>3. p.ghr_bits \in Nat /\ 2 * p.ghr + taken \in Nat
  BY <1>2, WidthAssumption DEF Outcome, TAKEN, NOT_TAKEN
<1>4. q.ghr \in Nat
  <2>1. PICK m \in Nat \ {0} : m = 2^p.ghr_bits
    BY <1>3, Powers
  <2>2. \A v \in Nat : v % m \in 0 .. (m - 1)
    BY IntDivMod
  <2>3. (2 * p.ghr + taken) % m \in 0 .. (m - 1)
    BY <1>3, <2>2
  <2> QED
    BY <1>1, <2>1, <2>3
<1>5. GshareOK(q)
  BY <1>1, <1>2, <1>4 DEF GshareOK
<1> QED
  BY <1>5 DEF q

-----------------------------------------------------------------------------
(* Where nothing is shared.                                                *)
Recent(d) == [i \in 1 .. d |-> (predictor.ghr \div 2^(i - 1)) % 2]

(* How far a predictor looks back.                                         *)
LEMMA Lookback ==
  ASSUME TypeOK, GshareOK(predictor), NEW d, Private(d)
  PROVE  /\ predictor.kind = "bimodal" => d = 0
         /\ predictor.kind = "gshare" =>
              /\ d \in 0 .. (Width - 1)
              /\ predictor.size = 2^d
              /\ predictor.ghr \in Nat
              /\ d # 0 => predictor.ghr_bits = d
         /\ d \in Nat
         /\ predictor.kind \in {"bimodal", "gshare"}
<1>1. predictor.kind \in {"bimodal", "gshare"} /\ d = Depth
  BY DEF Private, HasTable
<1>2. CASE predictor.kind = "bimodal"
  BY <1>1, <1>2 DEF Depth
<1>3. CASE predictor.kind = "gshare"
  <2>1. PICK k \in 0 .. (Width - 1) : /\ predictor.size = 2^k
                                      /\ predictor.ghr_bits = IF k = 0 THEN 1 ELSE k
                                      /\ predictor.ghr \in Nat
    BY <1>3 DEF GshareOK
  <2>2. d = k
    BY <1>1, <1>3, <2>1, LogOfPower DEF Depth
  <2> QED
    BY <1>3, <2>1, <2>2
<1> QED
  BY <1>1, <1>2, <1>3

(* The bits of a register are outcomes.                                    *)
LEMMA RecentIs ==
  ASSUME TypeOK, GshareOK(predictor), NEW d, Private(d)
  PROVE  /\ Recent(d) \in [1 .. d -> Outcome]
         /\ \A b \in program : <<b, Recent(d)>> \in Contexts(d)
         /\ \A i \in 1 .. d : Recent(d)[i] = BitOf(predictor.ghr, i - 1)
<1>1. \A i \in 1 .. d : Recent(d)[i] = BitOf(predictor.ghr, i - 1)
  BY DEF Recent, BitOf
<1>2. \A i \in 1 .. d : Recent(d)[i] \in Outcome
  <2> SUFFICES ASSUME NEW i \in 1 .. d PROVE Recent(d)[i] \in Outcome
    OBVIOUS
  <2>1. predictor.kind = "gshare" /\ d \in Nat /\ predictor.ghr \in Int
    BY Lookback
  <2>2. i - 1 \in Nat
    BY <2>1
  <2> QED
    BY <1>1, <2>1, <2>2, BitType DEF Outcome, TAKEN, NOT_TAKEN
<1>3. Recent(d) \in [1 .. d -> Outcome]
  BY <1>2 DEF Recent
<1> QED
  BY <1>1, <1>3 DEF Contexts

(* The program's branches have addresses.                                  *)
LEMMA Addresses == TypeOK => \A b \in program : b.pc \in Nat
  BY ProgramAssumption DEF TypeOK

(* Every context has an entry of its own.                                  *)
LEMMA OwnEntry ==
  ASSUME TypeOK, GshareOK(predictor), NEW d, Private(d)
  PROVE  /\ \A c \in Contexts(d) : EntryOf(c) \in DOMAIN predictor.table
         /\ \A b, c \in Contexts(d) : EntryOf(b) = EntryOf(c) => b = c
<1>1. /\ predictor.size \in Nat \ {0} /\ DOMAIN predictor.table = 0 .. (predictor.size - 1)
  BY TableFacts DEF TypeOK, Private
<1>2. \A c \in Contexts(d) : /\ c = <<c[1], c[2]>> /\ c[1] \in program /\ c[1].pc \in Nat
                             /\ c[2] \in [1 .. d -> Outcome]
  BY Addresses DEF Contexts
<1>3. CASE predictor.kind = "bimodal"
  <2>1. \A c \in Contexts(d) : EntryOf(c) = bimodal_index(predictor, c[1].pc)
    BY <1>3 DEF EntryOf
  <2>2. \A n \in Nat : bimodal_index(predictor, n) \in 0 .. (predictor.size - 1)
    <3> SUFFICES ASSUME NEW n \in Nat
                 PROVE  bimodal_index(predictor, n) \in 0 .. (predictor.size - 1)
      OBVIOUS
    <3>1. n \div 4 \in Int
      BY IntDivMod
    <3> QED
      BY <1>1, <3>1, IntDivMod DEF bimodal_index
  <2>3. ASSUME NEW b \in Contexts(d), NEW c \in Contexts(d), EntryOf(b) = EntryOf(c)
        PROVE  b = c
    <3>1. b[1] = c[1]
      BY <1>2, <1>3, <2>1, <2>3 DEF Private
    <3>2. b[2] = c[2]
      <4>1. d = 0
        BY <1>3, Lookback
      <4> QED
        BY <1>2, <4>1
    <3> QED
      BY <1>2, <3>1, <3>2
  <2> QED
    BY <1>1, <1>2, <2>1, <2>2, <2>3
<1>4. CASE predictor.kind = "gshare"
  <2>1. d \in 0 .. (Width - 1) /\ predictor.size = 2^d
    BY <1>4, Lookback
  <2>2. \A c \in Contexts(d) :
          EntryOf(c) = gshare_index([size |-> 2^d, ghr |-> Register(c[2])], c[1].pc)
    BY <1>4, <2>1 DEF EntryOf
  <2>3. \A c \in Contexts(d) : EntryOf(c) \in 0 .. (predictor.size - 1)
    <3>1. \A n, g \in Nat : gshare_index([size |-> 2^d, ghr |-> g], n) \in 0 .. (2^d - 1)
      BY <2>1, IndexBits
    <3>2. \A h \in [1 .. d -> Outcome] : Register(h) \in Nat
      BY <2>1, RegisterBits
    <3>3. ASSUME NEW c \in Contexts(d) PROVE EntryOf(c) \in 0 .. (2^d - 1)
      <4>1. PICK g \in Nat : g = Register(c[2])
        BY <1>2, <3>2
      <4>2. PICK n \in Nat : n = c[1].pc
        BY <1>2
      <4>3. EntryOf(c) = gshare_index([size |-> 2^d, ghr |-> g], n)
        BY <2>2, <4>1, <4>2
      <4> QED
        BY <3>1, <4>3
    <3> QED
      BY <2>1, <3>3
  <2>4. \A n \in Nat, h \in [1 .. d -> Outcome] : \A i \in 0 .. (d - 1) :
          BitOf(gshare_index([size |-> 2^d, ghr |-> Register(h)], n), i)
            = IF (BitOf(n \div 4, i) = 1) # (h[i + 1] = 1) THEN 1 ELSE 0
    <3> SUFFICES ASSUME NEW n \in Nat, NEW h \in [1 .. d -> Outcome], NEW i \in 0 .. (d - 1)
                 PROVE  BitOf(gshare_index([size |-> 2^d, ghr |-> Register(h)], n), i)
                          = IF (BitOf(n \div 4, i) = 1) # (h[i + 1] = 1) THEN 1 ELSE 0
      OBVIOUS
    <3>1. PICK g \in Nat : g = Register(h) /\ BitOf(g, i) = h[i + 1]
      BY <2>1, RegisterBits
    <3>2. BitOf(gshare_index([size |-> 2^d, ghr |-> g], n), i)
            = IF (BitOf(n \div 4, i) = 1) # (BitOf(g, i) = 1) THEN 1 ELSE 0
      BY <2>1, IndexBits
    <3> QED
      BY <3>1, <3>2
  <2>5. ASSUME NEW n \in Nat, NEW g \in [1 .. d -> Outcome], NEW h \in [1 .. d -> Outcome],
               gshare_index([size |-> 2^d, ghr |-> Register(g)], n)
                 = gshare_index([size |-> 2^d, ghr |-> Register(h)], n)
        PROVE  g = h
    <3>1. ASSUME NEW i \in 0 .. (d - 1) PROVE (g[i + 1] = 1) <=> (h[i + 1] = 1)
      <4> DEFINE e(f) == BitOf(gshare_index([size |-> 2^d, ghr |-> Register(f)], n), i)
      <4>1. e(g) = IF (BitOf(n \div 4, i) = 1) # (g[i + 1] = 1) THEN 1 ELSE 0
        BY <2>1, <2>4
      <4>2. e(h) = IF (BitOf(n \div 4, i) = 1) # (h[i + 1] = 1) THEN 1 ELSE 0
        BY <2>1, <2>4
      <4>3. e(g) = e(h)
        BY <2>5
      <4> QED
        BY <4>1, <4>2, <4>3
    <3>2. \A j \in 1 .. d : g[j] = h[j]
      <4> SUFFICES ASSUME NEW j \in 1 .. d PROVE g[j] = h[j]
        OBVIOUS
      <4>1. j - 1 \in 0 .. (d - 1) /\ (j - 1) + 1 = j
        BY <2>1
      <4>2. (g[j] = 1) <=> (h[j] = 1)
        BY <3>1, <4>1
      <4> QED
        BY <4>2 DEF Outcome, TAKEN, NOT_TAKEN
    <3> QED
      BY <2>1, <3>2, SameFunction
  <2>6. ASSUME NEW b \in Contexts(d), NEW c \in Contexts(d), EntryOf(b) = EntryOf(c)
        PROVE  b = c
    <3>1. b[1] = c[1]
      BY <1>2, <1>4 DEF Private
    <3>2. b[2] = c[2]
      BY <1>2, <2>2, <2>5, <2>6, <3>1
    <3> QED
      BY <1>2, <3>1, <3>2
  <2> QED
    BY <1>1, <2>3, <2>6
<1> QED
  BY <1>3, <1>4, Lookback

(* The entry that predict and update use is that of the branch in the      *)
(* context of the last outcomes.                                           *)
LEMMA CurrentEntry ==
  ASSUME TypeOK, GshareOK(predictor), NEW d, Private(d), NEW b \in program
  PROVE  EntryOf(<<b, Recent(d)>>) = Entry(predictor, b.pc)
<1>1. CASE predictor.kind = "bimodal"
  BY <1>1 DEF EntryOf, Entry
<1>2. CASE predictor.kind = "gshare"
  <2>1. d \in 0 .. (Width - 1) /\ d \in Nat /\ predictor.size = 2^d /\ predictor.ghr \in Nat
    BY <1>2, Lookback
  <2> DEFINE g == Register(Recent(d))
  <2>2. g \in Nat /\ \A i \in 0 .. (d - 1) : BitOf(g, i) = Recent(d)[i + 1]
    BY <2>1, RecentIs, RegisterBits
  <2>3. ASSUME NEW i \in 0 .. (d - 1) PROVE BitOf(g, i) = BitOf(predictor.ghr, i)
    <3>1. i + 1 \in 1 .. d /\ (i + 1) - 1 = i
      BY <2>1
    <3> HIDE DEF g
    <3>2. Recent(d)[i + 1] = BitOf(predictor.ghr, (i + 1) - 1)
      BY <3>1, RecentIs
    <3> QED
      BY <2>2, <3>1, <3>2
  <2> HIDE DEF g
  <2>4. g % 2^d = predictor.ghr % 2^d
    <3>1. g \in Int /\ predictor.ghr \in Int
      BY <2>1, <2>2
    <3> QED
      BY <2>1, <2>3, <3>1, SameLowBits
  <2>5. EntryOf(<<b, Recent(d)>>) = gshare_index([size |-> 2^d, ghr |-> g], b.pc)
    BY <1>2, <2>1 DEF EntryOf, g
  <2>6. Entry(predictor, b.pc) = gshare_index(predictor, b.pc)
    BY <1>2 DEF Entry
  <2> QED
    BY <2>1, <2>4, <2>5, <2>6 DEF gshare_index
<1> QED
  BY <1>1, <1>2, Lookback

(* The register shifts as the list of the last outcomes does.              *)
LEMMA RecentStep ==
  ASSUME TypeOK, GshareOK(predictor), NEW d, Private(d), NEW pc, NEW target,
         NEW taken \in Outcome, predictor' = update(predictor, pc, target, taken)
  PROVE  Recent(d)' = [i \in 1 .. d |-> IF i = 1 THEN taken ELSE Recent(d)[i - 1]]
<1>1. d \in Nat
  BY Lookback
<1>2. ASSUME NEW i \in 1 .. d
      PROVE  (predictor'.ghr \div 2^(i - 1)) % 2 = IF i = 1 THEN taken ELSE Recent(d)[i - 1]
  <2>1. d # 0
    BY <1>1
  <2>2. /\ predictor.kind = "gshare" /\ predictor.ghr \in Nat
        /\ predictor.ghr_bits = d
    BY <2>1, Lookback
  <2>3. predictor'.ghr = (2 * predictor.ghr + taken) % 2^d
    BY <2>2, UpdateGshare DEF TypeOK
  <2>4. PICK g \in Nat : g = predictor.ghr
    BY <2>2
  <2>5. taken \in {0, 1} /\ 2 * g + taken \in Int /\ i - 1 \in 0 .. (d - 1)
    BY <1>1 DEF Outcome, TAKEN, NOT_TAKEN
  <2>6. (predictor'.ghr \div 2^(i - 1)) % 2 = BitOf(2 * g + taken, i - 1)
    <3>1. BitOf((2 * g + taken) % 2^d, i - 1) = BitOf(2 * g + taken, i - 1)
      BY <1>1, <2>5, LowBits
    <3> QED
      BY <2>3, <2>4, <3>1 DEF BitOf
  <2>7. CASE i = 1
    <3>1. 2^(i - 1) = 1
      BY <2>7
    <3>2. ((2 * g + taken) \div 1) % 2 = taken
      BY <2>5
    <3> QED
      BY <2>6, <2>7, <3>1, <3>2 DEF BitOf
  <2>8. CASE i # 1
    <3>1. i - 2 \in Nat /\ i - 1 = (i - 2) + 1 /\ i - 1 \in 1 .. d /\ (i - 1) - 1 = i - 2
      BY <1>1, <2>8
    <3>2. PICK p \in Nat \ {0} : p = 2^(i - 2) /\ 2^(i - 1) = 2 * p
      BY <3>1, Powers
    <3>3. (2 * g + taken) \div (2 * p) = g \div p
      <4>1. PICK q \in Int, r \in 0 .. (p - 1) : g = p * q + r /\ q = g \div p
        <5>1. \A v \in Int : /\ v \div p \in Int /\ v % p \in 0 .. (p - 1)
                            /\ v = p * (v \div p) + (v % p)
          BY IntDivMod
        <5>2. g \in Int
          OBVIOUS
        <5> QED
          BY <5>1, <5>2
      <4>2. PICK m \in Nat \ {0} : m = 2 * p
        OBVIOUS
      <4>3. PICK n \in Int : n = p * q
        OBVIOUS
      <4>4. m * q = 2 * n
        BY <4>2, <4>3, SMT
      <4>5. 2 * g + taken = m * q + (2 * r + taken) /\ 2 * r + taken \in 0 .. (m - 1)
        BY <2>5, <4>1, <4>2, <4>3, <4>4
      <4>6. (m * q + (2 * r + taken)) \div m = q
        BY <4>5, IntDivModUnique
      <4> QED
        BY <4>1, <4>2, <4>5, <4>6
    <3>4. BitOf(2 * g + taken, i - 1) = BitOf(g, i - 2)
      BY <3>2, <3>3 DEF BitOf
    <3>5. Recent(d)[i - 1] = BitOf(g, i - 2)
      BY <2>4, <3>1, RecentIs
    <3> QED
      BY <2>6, <2>8, <3>4, <3>5
  <2> QED
    BY <2>7, <2>8
<1> QED
  BY <1>2 DEF Recent

(* Two bits are a direction and whether it is sure.                        *)
LEMMA AutomatonStep ==
  ASSUME NEW c \in Counter, NEW taken \in Outcome
  PROVE  LET guess == Guess(c >= WeaklyTaken)
             next == Guess(Count(c, taken) >= WeaklyTaken)
         IN  /\ guess = taken => next = guess /\ Count(c, taken) \in {0, 3}
             /\ guess # taken => Count(c, taken) \notin {0, 3}
             /\ guess # taken /\ c \in {0, 3} => next = guess
             /\ guess # taken /\ c \notin {0, 3} => next = taken
<1>1. c \in {0, 1, 2, 3} /\ taken \in {0, 1}
  BY DEF Counter, Outcome, TAKEN, NOT_TAKEN
<1> QED
  BY <1>1 DEF Guess, Count, WeaklyTaken, TAKEN, NOT_TAKEN

-----------------------------------------------------------------------------
Directions(d) == [c \in Contexts(d) |-> Guess(CounterOf(c) >= WeaklyTaken)]
Sure(d) == {c \in Contexts(d) : CounterOf(c) \in {0, 3}}

LEMMA TwoLevelInit ==
  ASSUME Init, NEW d, Private(d)
  PROVE  TwoLevel(d)!Init
<1>1. PICK n \in Names, s \in Sizes : predictor = build_predictor(n, s)
  BY DEF Init
<1>2. TypeOK /\ GshareOK(predictor) /\ (predictor.kind = "gshare" => predictor.ghr = 0)
  BY <1>1, InitIInv, BuildGshare DEF IInv
<1>3. \A c \in Contexts(d) : CounterOf(c) = WeaklyTaken
  <2>1. \A e \in DOMAIN predictor.table : predictor.table[e] = WeaklyTaken
    <3>1. s \in Int
      BY SizesAssumption, WidthAssumption, Powers
    <3> QED
      BY <1>1, <3>1, BuildFacts DEF Private
  <2> QED
    BY <1>2, <2>1, OwnEntry DEF CounterOf
<1>4. TwoLevel(d)!Automata = Contexts(d)
  BY DEF TwoLevel!Automata, TwoLevel!Outcomes, Contexts, Outcome, TAKEN, NOT_TAKEN
<1>5. [c \in Contexts(d) |-> Guess(CounterOf(c) >= WeaklyTaken)] = [c \in Contexts(d) |-> 1]
  BY <1>3 DEF Guess, WeaklyTaken, TAKEN
<1>6. {c \in Contexts(d) : CounterOf(c) \in {0, 3}} = {}
  BY <1>3 DEF WeaklyTaken
<1>7. [i \in 1 .. d |-> (predictor.ghr \div 2^(i - 1)) % 2] = [i \in 1 .. d |-> 0]
  <2>1. ASSUME NEW i \in 1 .. d PROVE (predictor.ghr \div 2^(i - 1)) % 2 = 0
    <3>1. d \in Nat /\ predictor.kind = "gshare"
      BY <1>2, Lookback
    <3>2. PICK p \in Nat \ {0} : p = 2^(i - 1)
      <4>1. i - 1 \in Nat
        BY <3>1
      <4> QED
        BY <4>1, Powers
    <3>3. (0 \div p) % 2 = 0
      BY SMT
    <3> QED
      BY <1>2, <3>1, <3>2, <3>3
  <2> QED
    BY <2>1
<1>8. stats = [total_branches |-> 0, mispredictions |-> 0]
  BY DEF Init, NoBranches
<1> QED
  BY <1>4, <1>5, <1>6, <1>7, <1>8 DEF TwoLevel!Init

LEMMA TwoLevelStep ==
  ASSUME TypeOK, GshareOK(predictor), NEW d, Private(d),
         NEW b \in program, NEW taken \in Outcome, Branch(b, taken)
  PROVE  TwoLevel(d)!Next
<1> DEFINE k == <<b, Recent(d)>>
           ctr == CounterOf(k)
           guess == Guess(ctr >= WeaklyTaken)
<1>1. /\ predictor' = update(predictor, b.pc, b.target, taken)
      /\ predict(predictor, b.pc, b.target) = guess
      /\ program' = program
      /\ stats.total_branches < MaxBranches
      /\ stats \in [total_branches : Nat, mispredictions : Nat]
      /\ stats' = [total_branches |-> stats.total_branches + 1,
                   mispredictions |-> IF guess # taken THEN stats.mispredictions + 1
                                      ELSE stats.mispredictions]
  <2>1. predictor.kind # "none" /\ predictor.kind # "btfnt"
    BY Lookback
  <2>2. predict(predictor, b.pc, b.target) = guess
    <3>1. HasTable(predictor) /\ predictor.table[Entry(predictor, b.pc)] = ctr
      BY CurrentEntry DEF CounterOf, Private
    <3> HIDE DEF ctr
    <3> QED
      BY <2>1, <3>1 DEF predict, Guess
  <2> HIDE DEF guess
  <2> QED
    BY <2>1, <2>2 DEF Branch, AfterBranch, TypeOK
<1>2. /\ k \in Contexts(d) /\ EntryOf(k) = Entry(predictor, b.pc)
      /\ \A c \in Contexts(d) : EntryOf(c) = EntryOf(k) => c = k
  BY RecentIs, CurrentEntry, OwnEntry
<1> HIDE DEF k
<1>3. Contexts(d)' = Contexts(d)
  BY <1>1 DEF Contexts
<1>4. predictor'.kind = predictor.kind /\ predictor'.size = predictor.size
  BY <1>1, UpdateKeeps DEF TypeOK, Private
<1>5. \A c \in Contexts(d) : CounterOf(c)' = IF c = k THEN Count(ctr, taken) ELSE CounterOf(c)
  <2> SUFFICES ASSUME NEW c \in Contexts(d)
               PROVE  CounterOf(c)' = IF c = k THEN Count(ctr, taken) ELSE CounterOf(c)
    OBVIOUS
  <2>1. EntryOf(c)' = EntryOf(c)
    BY <1>4 DEF EntryOf, bimodal_index, gshare_index
  <2>2. predictor'.table = [predictor.table EXCEPT ![EntryOf(k)] = Count(@, taken)]
    <3>1. PredictorOK(predictor) /\ HasTable(predictor)
      BY DEF TypeOK, Private
    <3>2. predictor'.table
            = [predictor.table EXCEPT ![Entry(predictor, b.pc)] = Count(@, taken)]
      BY <1>1, <3>1, UpdateFacts
    <3> QED
      BY <1>2, <3>2
  <2>3. EntryOf(c) \in DOMAIN predictor.table /\ EntryOf(k) \in DOMAIN predictor.table
    BY <1>2, OwnEntry
  <2> QED
    BY <1>2, <2>1, <2>2, <2>3 DEF CounterOf
<1>6. ctr \in Counter
  <2>1. EntryOf(k) \in DOMAIN predictor.table
    BY <1>2, OwnEntry
  <2> QED
    BY <2>1, TableFacts DEF CounterOf, TypeOK, Private
<1> HIDE DEF ctr
<1>7. /\ guess = taken => /\ Guess(Count(ctr, taken) >= WeaklyTaken) = guess
                          /\ Count(ctr, taken) \in {0, 3}
      /\ guess # taken => Count(ctr, taken) \notin {0, 3}
      /\ guess # taken /\ ctr \in {0, 3} => Guess(Count(ctr, taken) >= WeaklyTaken) = guess
      /\ guess # taken /\ ctr \notin {0, 3} =>
           Guess(Count(ctr, taken) >= WeaklyTaken) = taken
  BY <1>6, AutomatonStep
<1>8. Directions(d)[k] = guess /\ (k \in Sure(d) <=> ctr \in {0, 3})
  BY <1>2 DEF Directions, Sure, ctr
<1>9. Directions(d)' = [Directions(d) EXCEPT ![k] = Guess(Count(ctr, taken) >= WeaklyTaken)]
  BY <1>2, <1>3, <1>5 DEF Directions
<1>10. Sure(d)' = IF Count(ctr, taken) \in {0, 3} THEN Sure(d) \cup {k} ELSE Sure(d) \ {k}
  BY <1>2, <1>3, <1>5 DEF Sure
<1> HIDE DEF guess
<1>11. Recent(d)' = [i \in 1 .. d |-> IF i = 1 THEN taken ELSE Recent(d)[i - 1]]
  BY <1>1, RecentStep
<1>12. Directions(d)[k] = taken => TwoLevel(d)!Right(k)
  <2> SUFFICES ASSUME guess = taken PROVE TwoLevel(d)!Right(k)
    BY <1>8
  <2>1. Directions(d)' = Directions(d)
    BY <1>2, <1>7, <1>8, <1>9 DEF Directions
  <2>2. Sure(d)' = Sure(d) \cup {k}
    BY <1>7, <1>10
  <2>3. stats' = [stats EXCEPT !.total_branches = @ + 1]
    BY <1>1
  <2> QED
    BY <2>1, <2>2, <2>3 DEF TwoLevel!Right, Directions, Sure
<1>13. Directions(d)[k] # taken => TwoLevel(d)!Wrong(k, taken)
  <2> SUFFICES ASSUME guess # taken PROVE TwoLevel(d)!Wrong(k, taken)
    BY <1>8
  <2>1. \/ k \in Sure(d) /\ Sure(d)' = Sure(d) \ {k} /\ Directions(d)' = Directions(d)
        \/ /\ k \notin Sure(d) /\ Sure(d)' = Sure(d)
           /\ Directions(d)' = [Directions(d) EXCEPT ![k] = taken]
    <3>1. CASE ctr \in {0, 3}
      <4>1. Directions(d)' = Directions(d)
        BY <1>2, <1>7, <1>8, <1>9, <3>1 DEF Directions
      <4>2. Sure(d)' = Sure(d) \ {k}
        BY <1>7, <1>10
      <4> QED
        BY <1>8, <3>1, <4>1, <4>2
    <3>2. CASE ctr \notin {0, 3}
      <4>1. Directions(d)' = [Directions(d) EXCEPT ![k] = taken]
        BY <1>7, <1>9, <3>2
      <4>2. Sure(d)' = Sure(d)
        BY <1>7, <1>8, <1>10, <3>2
      <4> QED
        BY <1>8, <3>2, <4>1, <4>2
    <3> QED
      BY <3>1, <3>2
  <2>2. stats' = [total_branches |-> stats.total_branches + 1,
                  mispredictions |-> stats.mispredictions + 1]
    BY <1>1
  <2> QED
    BY <2>1, <2>2 DEF TwoLevel!Wrong, Directions, Sure
<1>14. TwoLevel(d)!Branch(b, taken)
  BY <1>1, <1>11, <1>12, <1>13 DEF TwoLevel!Branch, Directions, Recent, k
<1> QED
  BY <1>14 DEF TwoLevel!Next, TwoLevel!Outcomes, Outcome, TAKEN, NOT_TAKEN

(* predictor.c:64-65 and 116-117: where no entry is shared, masks, XOR and *)
(* the history register come to nothing more than a table of automata, one *)
(* for each branch and each pattern of the last outcomes.                  *)
THEOREM PrivateAutomata == Spec => ImplementsTwoLevel
<1> DEFINE Inv == IInv /\ GshareOK(predictor)
<1>1. Init => Inv
  <2> SUFFICES ASSUME Init PROVE Inv
    OBVIOUS
  <2> QED
    BY InitIInv, BuildGshare DEF Init
<1>2. Inv /\ [Next]_vars => Inv'
  <2> SUFFICES ASSUME Inv, [Next]_vars PROVE Inv'
    OBVIOUS
  <2>1. IInv'
    BY StepIInv
  <2>2. CASE UNCHANGED vars
    BY <2>1, <2>2 DEF vars
  <2>3. ASSUME NEW b \in program, NEW taken \in Outcome, Branch(b, taken)
        PROVE  GshareOK(predictor')
    <3>1. predictor' = update(predictor, b.pc, b.target, taken) /\ PredictorOK(predictor)
      BY <2>3 DEF Branch, AfterBranch, IInv, TypeOK
    <3>2. CASE predictor.kind = "gshare"
      BY <3>1, <3>2, GshareStep
    <3>3. CASE predictor.kind # "gshare"
      <4>1. predictor'.kind # "gshare"
        <5>1. CASE HasTable(predictor)
          BY <3>1, <3>3, <5>1, UpdateKeeps
        <5>2. CASE ~ HasTable(predictor)
          BY <3>1, <3>3, <5>2 DEF update, HasTable
        <5> QED
          BY <5>1, <5>2
      <4> QED
        BY <4>1 DEF GshareOK
    <3> QED
      BY <3>2, <3>3
  <2> QED
    BY <2>1, <2>2, <2>3 DEF Next, Outcome
<1>3. Init => \A d \in Depths : Private(d) => TwoLevel(d)!Init
  BY TwoLevelInit
<1>4. Inv /\ [Next]_vars => [\A d \in Depths : Private(d) => TwoLevel(d)!Next]_vars
  <2> SUFFICES ASSUME Inv, Next, NEW d \in Depths, Private(d) PROVE TwoLevel(d)!Next
    OBVIOUS
  <2>1. PICK b \in program, taken \in Outcome : Branch(b, taken)
    BY DEF Next, Outcome
  <2> QED
    BY <2>1, TwoLevelStep DEF IInv
<1> HIDE DEF Inv
<1> QED
  BY <1>1, <1>2, <1>3, <1>4, PTL DEF Spec, ImplementsTwoLevel

=============================================================================
