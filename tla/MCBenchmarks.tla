----------------------------- MODULE MCBenchmarks -----------------------------
(* For radix: numbers that branch at each bit and share a leaf, a request  *)
(* for one and one for more than a batch.                                  *)
EXTENDS Benchmarks

MCRequests == {0, 1, 3, 4, 6, -1, -3}

=============================================================================
