-------------------------- MODULE BranchPredictor ---------------------------
(***************************************************************************)
(* A predictor driven by the branches of a running program, as the branch  *)
(* case of src/src/simulate.c drives it: predict, count, resolve, count a  *)
(* miss, train.  The program is arbitrary: any of its branches may be      *)
(* next, with any outcome.                                                 *)
(*                                                                         *)
(* last, runs, streak and missed are history variables: what happened so   *)
(* far at each table entry.  Only the properties read them.                *)
(***************************************************************************)
EXTENDS Predictors

CONSTANTS
  Names,        \* names given to -b
  Sizes,        \* sizes given to -b
  Programs,     \* sets of records [pc, target]: the branches of a program
  MaxBranches   \* bound on the number of branches executed

ASSUME ProgramAssumption ==
  \A p \in Programs : \A b \in p : b.pc \in Nat /\ b.target \in Nat
(* atoi returns an int.                                                    *)
ASSUME SizesAssumption == Sizes \subseteq (-(2^(Width - 1))) .. (2^(Width - 1) - 1)

VARIABLES
  program,      \* the branches of the program that runs
  predictor,    \* struct Predictor
  stats,        \* struct BPStats
  last,         \* entry -> outcome of the last branch that used it
  runs,         \* entry -> number of maximal runs of equal outcomes at it
  streak,       \* entry -> length of the current run
  missed        \* entry -> mispredictions made from it

history == <<last, runs, streak, missed>>
vars == <<program, predictor, stats, history>>

Entries == IF HasTable(predictor) THEN DOMAIN predictor.table ELSE {}

Init ==
  /\ program \in Programs
  /\ predictor \in {build_predictor(n, s) : n \in Names, s \in Sizes}
  /\ stats = NoBranches
  /\ last = [e \in Entries |-> NOT_TAKEN]
  /\ runs = [e \in Entries |-> 0]
  /\ streak = [e \in Entries |-> 0]
  /\ missed = [e \in Entries |-> 0]

Remember(e, taken, miss) ==
  LET again == runs[e] > 0 /\ last[e] = taken
  IN  /\ last' = [last EXCEPT ![e] = taken]
      /\ runs' = [runs EXCEPT ![e] = IF again THEN @ ELSE @ + 1]
      /\ streak' = [streak EXCEPT ![e] = IF again THEN @ + 1 ELSE 1]
      /\ missed' = [missed EXCEPT ![e] = IF miss THEN @ + 1 ELSE @]

Branch(b, taken) ==
  /\ stats.total_branches < MaxBranches
  /\ predictor.kind # "none"
  /\ LET after == AfterBranch(predictor, stats, b.pc, b.target, taken)
     IN  predictor' = after.predictor /\ stats' = after.stats
  /\ IF HasTable(predictor)
     THEN Remember(Entry(predictor, b.pc), taken,
                   predict(predictor, b.pc, b.target) # taken)
     ELSE UNCHANGED history
  /\ UNCHANGED program

Next == \E b \in program, taken \in {TAKEN, NOT_TAKEN} : Branch(b, taken)

Spec == Init /\ [][Next]_vars

-----------------------------------------------------------------------------
(* Every counter is one of 0..3, and the histories are about the entries   *)
(* of the table.                                                           *)
TypeOK ==
  /\ program \in Programs
  /\ PredictorOK(predictor)
  /\ stats \in [total_branches : Nat, mispredictions : Nat]
  /\ last \in [Entries -> Outcome]
  /\ runs \in [Entries -> Nat]
  /\ streak \in [Entries -> Nat]
  /\ missed \in [Entries -> Nat]

(* predictor.c:65, "2-bit saturating counters": whatever branches share an *)
(* entry and in whatever order, each run of equal outcomes there costs at  *)
(* most two mispredictions, and the first, from "weakly taken", only one.  *)
MissesBounded ==
  \A e \in Entries : IF runs[e] = 0 THEN missed[e] = 0
                                    ELSE missed[e] <= 2 * runs[e] - 1

(* The hysteresis of the two bits: two equal outcomes in a row at an entry *)
(* decide its next guess whatever was there before, and after three a      *)
(* single contrary outcome does not change it.                             *)
TwoInARowDecide ==
  \A e \in Entries :
    LET ctr == predictor.table[e]
    IN  /\ streak[e] >= 2 => Guess(ctr >= WeaklyTaken) = last[e]
        /\ streak[e] >= 3 =>
             \A taken \in Outcome :
                Guess(Count(ctr, taken) >= WeaklyTaken) = last[e]

(* simulate.c:171-197: the mispredictions of the profile are those the     *)
(* entries made, so over the whole program they never exceed what the runs *)
(* of outcomes at all the entries can cost.                                *)
ProfileBounded ==
  HasTable(predictor) =>
    stats.mispredictions <=
      SumFunction([e \in {f \in Entries : runs[f] > 0} |-> 2 * runs[e] - 1])

=============================================================================
