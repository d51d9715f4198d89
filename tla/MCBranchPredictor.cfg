\* Every predictor, with sizes that are and are not powers of two.  Three
\* branches share entries in the small tables and none in a bimodal table of
\* four; one branch shares none in gshare.  Eight branches are enough for a
\* counter to saturate, for a contrary run and for the recovery from it, and
\* for patterns of two outcomes to come again.
SPECIFICATION Spec
CONSTANTS
  Width = 5
  Names = {"absent", "nt", "btfnt", "bimodal", "gshare"}
  Sizes <- MCSizes
  Programs <- MCPrograms
  MaxBranches = 8
INVARIANTS TypeOK MissesBounded TwoInARowDecide ProfileBounded
PROPERTY ImplementsTwoLevel
CHECK_DEADLOCK FALSE
