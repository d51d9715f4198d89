----------------------------- MODULE Predictors -----------------------------
(***************************************************************************)
(* src/src/predictor.c: the four branch predictors behind struct           *)
(* Predictor, as operators over a predictor's state, and the factory       *)
(* build_predictor of src/src/main.c.                                      *)
(*                                                                         *)
(* A predictor is a record; its "kind" stands for the three function       *)
(* pointers.  NoPredictor is the NULL pointer, which the simulator tests   *)
(* for.  A constructor that malloc fails returns NULL too; the model       *)
(* leaves that out.                                                        *)
(***************************************************************************)
EXTENDS Bits

TAKEN     == 1
NOT_TAKEN == 0

NoPredictor == [kind |-> "none"]

(* The constructors of the tables accept only a power of two, so the mask  *)
(* size - 1 is the remainder by size.                                      *)
is_power_of_two(x) == x > 0 /\ BitAnd(x, x - 1) = 0

(* The number of times x can be halved before it is 1.                     *)
log2_int(x) == Cardinality({i \in 0 .. (Width - 1) : x \div 2^i > 1})

WeaklyTaken == 2

predictor_nt    == [kind |-> "nt"]
predictor_btfnt == [kind |-> "btfnt"]

predictor_bimodal(size) ==
  IF is_power_of_two(size)
  THEN [kind |-> "bimodal", size |-> size,
        table |-> [i \in 0 .. (size - 1) |-> WeaklyTaken]]
  ELSE NoPredictor

predictor_gshare(size) ==
  IF is_power_of_two(size)
  THEN [kind |-> "gshare", size |-> size,
        table |-> [i \in 0 .. (size - 1) |-> WeaklyTaken],
        ghr |-> 0,
        ghr_bits |-> IF log2_int(size) <= 0 THEN 1 ELSE log2_int(size)]
  ELSE NoPredictor

(* pred_name is NULL without -b; any name not listed gives NULL as well.   *)
build_predictor(name, size) ==
  CASE name = "nt"      -> predictor_nt
    [] name = "btfnt"   -> predictor_btfnt
    [] name = "bimodal" -> predictor_bimodal(size)
    [] name = "gshare"  -> predictor_gshare(size)
    [] OTHER            -> NoPredictor

-----------------------------------------------------------------------------
HasTable(p) == p.kind \in {"bimodal", "gshare"}

(* The predictors that exist.                                              *)
Counter == 0 .. 3
Outcome == {TAKEN, NOT_TAKEN}

PredictorOK(p) ==
  \/ p \in {NoPredictor, predictor_nt, predictor_btfnt}
  \/ /\ HasTable(p)
     /\ p = IF p.kind = "bimodal"
            THEN [kind |-> "bimodal", size |-> p.size, table |-> p.table]
            ELSE [kind |-> "gshare", size |-> p.size, table |-> p.table,
                  ghr |-> p.ghr, ghr_bits |-> p.ghr_bits]
     /\ p.size \in Nat \ {0}
     /\ p.table \in [0 .. (p.size - 1) -> Counter]

bimodal_index(p, instr_pc) == (instr_pc \div 4) % p.size

gshare_index(p, instr_pc) ==
  BitXor((instr_pc \div 4) % p.size, p.ghr % p.size) % p.size

Entry(p, instr_pc) ==
  IF p.kind = "bimodal" THEN bimodal_index(p, instr_pc) ELSE gshare_index(p, instr_pc)

(* Mutant: nothing stops the counter.                                      *)
Count_unsaturated(ctr, taken) == IF taken = TAKEN THEN ctr + 1 ELSE ctr - 1

(* Mutant: the counter has two bits and wraps around.                      *)
Count_wrapping(ctr, taken) == (IF taken = TAKEN THEN ctr + 1 ELSE ctr - 1) % 4

(* Mutant: the counter stops counting up one step early.                   *)
Count_short(ctr, taken) ==
  IF taken = TAKEN THEN IF ctr < 2 THEN ctr + 1 ELSE ctr
                   ELSE IF ctr > 0 THEN ctr - 1 ELSE ctr

(* The 2-bit counter saturates at 0 and 3.                                 *)
Count(ctr, taken) ==
  IF taken = TAKEN THEN IF ctr < 3 THEN ctr + 1 ELSE ctr
                   ELSE IF ctr > 0 THEN ctr - 1 ELSE ctr

Guess(taken) == IF taken THEN TAKEN ELSE NOT_TAKEN

predict(p, instr_pc, target_pc) ==
  Guess(\/ p.kind = "btfnt" /\ target_pc < instr_pc
        \/ HasTable(p) /\ p.table[Entry(p, instr_pc)] >= WeaklyTaken)

Trained(p, instr_pc, taken) ==
  [p EXCEPT !.table[Entry(p, instr_pc)] = Count(@, taken)]

(* Mutant: gshare shifts its history before it looks for the counter.      *)
update_history_first(p, instr_pc, target_pc, taken) ==
  IF p.kind = "gshare"
  THEN Trained([p EXCEPT !.ghr = (2 * @ + taken) % 2^p.ghr_bits], instr_pc, taken)
  ELSE IF p.kind = "bimodal" THEN Trained(p, instr_pc, taken)
  ELSE p

(* gshare shifts the outcome into its history after it used the history to *)
(* find the counter.                                                       *)
update(p, instr_pc, target_pc, taken) ==
  IF p.kind = "gshare"
  THEN [Trained(p, instr_pc, taken) EXCEPT !.ghr = (2 * @ + taken) % 2^p.ghr_bits]
  ELSE IF p.kind = "bimodal" THEN Trained(p, instr_pc, taken)
  ELSE p

-----------------------------------------------------------------------------
NoBranches == [total_branches |-> 0, mispredictions |-> 0]

(* Mutant: a miss is any branch that was not predicted taken.              *)
AfterBranch_untaken(p, st, pc, target, taken) ==
  IF p.kind = "none" THEN [predictor |-> p, stats |-> st]
  ELSE [predictor |-> update(p, pc, target, taken),
        stats |-> [total_branches |-> st.total_branches + 1,
                   mispredictions |-> IF predict(p, pc, target) # TAKEN
                                      THEN st.mispredictions + 1
                                      ELSE st.mispredictions]]

(* What the simulator does with a predictor and its statistics around one  *)
(* branch: predict and count, then count a miss, then train.  Without a    *)
(* predictor (NULL) it touches neither.                                    *)
AfterBranch(p, st, pc, target, taken) ==
  IF p.kind = "none" THEN [predictor |-> p, stats |-> st]
  ELSE [predictor |-> update(p, pc, target, taken),
        stats |-> [total_branches |-> st.total_branches + 1,
                   mispredictions |-> IF predict(p, pc, target) # taken
                                      THEN st.mispredictions + 1
                                      ELSE st.mispredictions]]

=============================================================================
