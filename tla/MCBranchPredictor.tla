------------------------- MODULE MCBranchPredictor --------------------------
(* The programs of the run of BranchPredictor.                             *)
EXTENDS AliasFree

MCSizes == {-4, 0, 1, 2, 3, 4}

(* Forward, backward and to itself; a loop.                                *)
MCPrograms == { {[pc |-> 0, target |-> 12], [pc |-> 4, target |-> 0], [pc |-> 8, target |-> 8]},
                {[pc |-> 12, target |-> 4]} }

=============================================================================
