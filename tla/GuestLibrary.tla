----------------------------- MODULE GuestLibrary -----------------------------
(***************************************************************************)
(* "src/predictor benchmarks/lib.c", linked into each guest program: a     *)
(* program that uses the heap, or one that uses the string functions.  The *)
(* two share no state.                                                     *)
(***************************************************************************)
EXTENDS Heap, Strings

VARIABLE part   \* the part of the library that the program uses

library_vars == <<part, vars, strings_vars>>

LibraryInit ==
  /\ part \in {"heap", "strings"}
  /\ Init /\ StringsInit
  /\ part = "heap" => input = <<>>

UseHeap == part = "heap" /\ Next /\ UNCHANGED <<part, strings_vars>>
UseStrings == part = "strings" /\ StringsNext /\ UNCHANGED <<part, vars>>

(* A string function that was called goes on; no program has to use the    *)
(* heap.                                                                   *)
LibrarySpec ==
  LibraryInit /\ [][UseHeap \/ UseStrings]_library_vars /\ WF_library_vars(UseStrings)

=============================================================================
