----------------------------- MODULE AliasFree ------------------------------
(***************************************************************************)
(* BranchPredictor where branches and patterns do not share table entries: *)
(* then the shared table, its index arithmetic and the history register    *)
(* are an implementation of TwoLevelPredictor.                             *)
(***************************************************************************)
EXTENDS BranchPredictor

(* Outcomes the predictor looks back on.                                   *)
Depth == IF predictor.kind = "gshare" THEN log2_int(predictor.size) ELSE 0

(* The branches of the program with each pattern of d outcomes, the last   *)
(* one first.                                                              *)
Contexts(d) == program \X [1 .. d -> Outcome]

(* A pattern as the history register has it: the last outcome is bit 0.    *)
Register(h) == FromBits({i - 1 : i \in {j \in DOMAIN h : h[j] = TAKEN}})

(* The entry of the table that serves a context.                           *)
EntryOf(c) ==
  IF predictor.kind = "bimodal" THEN bimodal_index(predictor, c[1].pc)
  ELSE gshare_index([size |-> predictor.size, ghr |-> Register(c[2])], c[1].pc)

CounterOf(c) == predictor.table[EntryOf(c)]

(* The size of the table keeps the branches of the program apart; the      *)
(* patterns of gshare keep one branch apart from itself only.              *)
Private(d) ==
  /\ HasTable(predictor) /\ d = Depth
  /\ \A b, c \in program :
       \/ b = c
       \/ /\ predictor.kind = "bimodal"
          /\ bimodal_index(predictor, b.pc) # bimodal_index(predictor, c.pc)

TwoLevel(d) == INSTANCE TwoLevelPredictor WITH
  Depth     <- d,
  direction <- [c \in Contexts(d) |-> Guess(CounterOf(c) >= WeaklyTaken)],
  sure      <- {c \in Contexts(d) : CounterOf(c) \in {0, 3}},
  recent    <- [i \in 1 .. d |-> (predictor.ghr \div 2^(i - 1)) % 2]

Depths == 0 .. Width

(* With one entry per branch (bimodal) or per recent pattern (gshare), the *)
(* predictor guesses, learns and counts exactly as private two-bit         *)
(* automata selected by the last outcomes would (predictor.c:64-65 and     *)
(* 116-117).                                                               *)
ImplementsTwoLevel ==
  /\ \A d \in Depths : Private(d) => TwoLevel(d)!Init
  /\ [][\A d \in Depths : Private(d) => TwoLevel(d)!Next]_vars

=============================================================================
