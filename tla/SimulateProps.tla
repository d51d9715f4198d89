--------------------------- MODULE SimulateProps ----------------------------
(***************************************************************************)
(* What the simulator promises, as properties of Simulate.                 *)
(***************************************************************************)
EXTENDS Simulate, SequencesExt

TypeOK ==
  /\ IsMemory(mem)
  /\ regs \in [Reg -> Word]
  /\ pc \in Word
  /\ insn_count \in 0 .. MaxInsns
  /\ status \in {"running", "stopped", "exited"}
  /\ PredictorOK(predictor)
  /\ stats \in [total_branches : Nat, mispredictions : Nat]
  /\ input \in Seq(Byte) /\ output \in Seq(Byte)
  /\ branches \in Seq([pc : Word, target : Word, taken : Outcome])

-----------------------------------------------------------------------------
Machine == INSTANCE RiscV WITH
  bytes <- [a \in Addr |-> ByteAt(mem, a)],
  x     <- [r \in Reg |-> Signed(regs[r])],
  count <- insn_count

(* simulate() executes programs as the instruction set defines them,       *)
(* whatever the predictor: the C of its switch, its casts, its special     *)
(* cases of division, the lanes of memory.c and the hard-wired x0 give the *)
(* results, the order of effects and the end that RiscV gives, also for    *)
(* programs that rewrite themselves.  Stat.insns counts the instructions.  *)
ImplementsRiscV == Machine!Spec

(* The same loop with no predictor at all, which may take the same steps.  *)
Bare == INSTANCE Simulate WITH
  predictor <- NoPredictor, stats <- NoBranches

(* Prediction only observes: with any predictor, after any mispredictions, *)
(* the program computes, reads, writes and stops as it does with none.     *)
PredictorOnlyObserves == [][Bare!Next]_(Bare!vars)

-----------------------------------------------------------------------------
(* A predictor as it was built.                                            *)
Fresh(p) == IF HasTable(p) THEN build_predictor(p.kind, p.size) ELSE p

(* The predictor and the statistics after a predictor saw branches.        *)
Replay(p, bs) ==
  LET after[n \in 0 .. Len(bs)] ==
        IF n = 0 THEN [predictor |-> p, stats |-> NoBranches]
        ELSE AfterBranch(after[n - 1].predictor, after[n - 1].stats,
                         bs[n].pc, bs[n].target, bs[n].taken)
  IN  after[Len(bs)]

(* The profile is a function of the branches the machine executed: fed to  *)
(* a fresh predictor one by one, they give the predictor and the numbers   *)
(* the simulator has now.  No branch is predicted or trained twice, missed *)
(* or attributed to another address.                                       *)
ProfileIsReplay ==
  [predictor |-> predictor, stats |-> stats] = Replay(Fresh(predictor), branches)

(* The programs of the run end by themselves: no loop of the simulator     *)
(* keeps one running.                                                      *)
Terminates == <>(status # "running")

(* simulate.c:97-98, "it can run RV32I + RV32M programs": no instruction   *)
(* of RV32M (OP with funct7 0x01) stops the simulation.                    *)
RunsRV32M ==
  [][Case(OP) /\ inst.funct7 = 1 => status' # "stopped"]_vars

=============================================================================
