------------------------------ MODULE HostHeap ------------------------------
(***************************************************************************)
(* What a run of the simulator allocates of the host and gives back: the   *)
(* calls of malloc, calloc and free in main.c, memory.c, predictor.c and   *)
(* read_elf.c.  Any allocation may fail.  A NULL pointer that is used      *)
(* unchecked ends the process ("crash"), and so does exit() ("exit").      *)
(***************************************************************************)
EXTENDS Integers, SequencesExt

CONSTANTS
  NPages   \* 0x10000, the pages a memory can have

ASSUME NPagesAssumption == NPages \in Nat \ {0}

(* The blocks, by the pointers that hold them.                             *)
mem       == <<"mem">>
page(j)   == <<"mem->pages", j>>
segment   == <<"segment_data">>
headers   == <<"section_headers">>
symbols   == <<"symbols">>
strtab    == <<"symbols->strtab">>
syms      == <<"symbols->symbols">>
predictor == <<"p">>
state     == <<"p->state">>
table     == <<"s->table">>

VARIABLES
  at,      \* where the run is
  live,    \* the blocks allocated and not freed
  pages,   \* the numbers of the page pointers that are not NULL
  pred,    \* the constructor main calls; "NULL" when there is no predictor
  todo,    \* calls of free to be made
  misuse   \* blocks freed twice, or read to find another after their end

vars == <<at, live, pages, pred, todo, misuse>>

Init ==
  /\ at = "args"
  /\ live \in {{}, {mem}}       \* memory_create
  /\ pages = {}
  /\ pred = "NULL"
  /\ todo = <<>> /\ misuse = {}

At(place) == at = place /\ todo = <<>>

Go(place) == at' = place /\ UNCHANGED <<pages, pred, todo, misuse>>

-----------------------------------------------------------------------------
(* get_page from anywhere: the page is the first thing mem is read for.    *)
Touch ==
  /\ At("args") \/ (At("segments") /\ segment \in live) \/ At("list") \/ At("run")
  /\ \E j \in (0 .. (NPages - 1)) \ pages :
       \/ mem \in live /\ live' = live \cup {page(j)} /\ pages' = pages \cup {j} /\ UNCHANGED at
       \/ at' = "crash" /\ UNCHANGED <<live, pages>>
  /\ UNCHANGED <<pred, todo, misuse>>

(* The arguments are stored; the options may end the process.              *)
EndArgs == At("args") /\ UNCHANGED live /\ (Go("segments") \/ Go("exit"))

(* read_elf: malloc is checked, a header may be wrong, and a segment that  *)
(* is short leaves with the buffer.                                        *)
ReadSegment ==
  /\ At("segments") /\ segment \notin live
  /\ \/ live' = live \cup {segment} /\ Go("segments")
     \/ UNCHANGED live /\ Go("exit")
     \/ live' = live \cup {segment} /\ Go("exit")

FreeSegment ==
  /\ At("segments") /\ segment \in live
  /\ live' = live \ {segment} /\ Go("segments")

EndSegments ==
  /\ At("segments") /\ segment \notin live
  /\ UNCHANGED live /\ Go("headers")

(* symbols_read_from_elf: its mallocs are not checked, and what was read   *)
(* may be wrong.                                                           *)
Unchecked(block, here, next) ==
  /\ At(here)
  /\ \/ UNCHANGED live /\ Go("crash")
     \/ live' = live \cup {block} /\ (Go(next) \/ Go("exit"))

ReadHeaders == Unchecked(headers, "headers", "symbols")

NoTables == At("symbols") /\ live' = live \ {headers} /\ Go("exit")

NewSymbols == Unchecked(symbols, "symbols", "strtab")
ReadStrtab == Unchecked(strtab, "strtab", "syms")
ReadSyms   == Unchecked(syms, "syms", "symbols read")

SymbolsRead ==
  /\ At("symbols read")
  /\ live' = live \ {headers}
  /\ (Go("list") \/ Go("build"))

-----------------------------------------------------------------------------
(* A call of free, and the block its argument was read from.               *)
Of(block, through) == [block |-> block, through |-> through]

Constructors == {"NULL", "nt", "btfnt", "bimodal", "gshare"}

HasTable(kind) == kind \in {"bimodal", "gshare"}

(* What a constructor allocates, in this order.                            *)
Allocated(kind) ==
  IF kind = "NULL" THEN <<>> ELSE IF HasTable(kind) THEN <<predictor, state, table>>
                                                    ELSE <<predictor>>

(* Which one main calls; a table of a wrong size gives NULL at once.       *)
ChooseConstructor ==
  /\ At("build") /\ pred = "NULL"
  /\ pred' \in Constructors
  /\ at' = IF pred' = "NULL" THEN "run" ELSE at
  /\ UNCHANGED <<live, pages, todo, misuse>>

(* Mutant: only the first block is given back.                             *)
Undo_first(k) == IF k = 0 THEN <<>> ELSE <<Of(predictor, predictor)>>

(* A constructor that fails at its block k + 1 frees the k before it.      *)
Undo(k) ==
  [l \in 1 .. k |-> Of(Allocated("gshare")[k + 1 - l], Allocated("gshare")[k + 1 - l])]

Construct ==
  /\ At("build") /\ pred # "NULL"
  /\ LET blocks == Allocated(pred)
         k      == Cardinality(live \cap ToSet(blocks))
     IN  \/ /\ live' = live \cup {blocks[k + 1]}
            /\ at' = IF k + 1 = Len(blocks) THEN "run" ELSE at
            /\ UNCHANGED <<pred, todo>>
         \/ /\ pred' = "NULL" /\ todo' = Undo(k) /\ at' = "run"
            /\ UNCHANGED live
  /\ UNCHANGED <<pages, misuse>>

(* Mutant: the state goes before the table that it points to.              *)
destroy_state_first(kind) ==
  IF kind = "NULL" THEN <<>>
  ELSE (IF HasTable(kind) THEN <<Of(state, predictor), Of(table, state)>> ELSE <<>>)
         \o <<Of(predictor, predictor)>>

destroy(kind) ==
  IF kind = "NULL" THEN <<>>
  ELSE (IF HasTable(kind) THEN <<Of(table, state), Of(state, predictor)>> ELSE <<>>)
         \o <<Of(predictor, predictor)>>

symbols_delete == <<Of(strtab, symbols), Of(syms, symbols), Of(symbols, symbols)>>

memory_delete ==
  [j \in 1 .. NPages |-> Of(page(j - 1), mem)] \o <<Of(mem, mem)>>

(* free() of a pointer to a page that is NULL is skipped.                  *)
Free ==
  /\ todo # <<>>
  /\ LET call == Head(todo)
         null == \E j \in 0 .. (NPages - 1) : call.block = page(j) /\ j \notin pages
     IN  /\ misuse' = misuse \cup (({call.through} \cup (IF null THEN {} ELSE {call.block})) \ live)
         /\ live' = live \ {call.block}
  /\ todo' = Tail(todo)
  /\ UNCHANGED <<at, pages, pred>>

(* simulate() may call exit (a misaligned access).                         *)
Exit == At("run") /\ UNCHANGED live /\ Go("exit")

(* memory_delete looks for the pages in mem, which may be NULL.            *)
Clean(calls) ==
  /\ IF mem \in live
     THEN todo' = calls \o symbols_delete \o memory_delete /\ at' = "end"
     ELSE at' = "crash" /\ UNCHANGED todo
  /\ UNCHANGED <<live, pages, pred, misuse>>

EndListing    == At("list") /\ Clean(<<>>)
EndSimulation == At("run") /\ Clean(destroy(pred))

Next ==
  \/ Touch \/ EndArgs \/ ReadSegment \/ FreeSegment \/ EndSegments
  \/ ReadHeaders \/ NoTables \/ NewSymbols \/ ReadStrtab \/ ReadSyms \/ SymbolsRead
  \/ ChooseConstructor \/ Construct \/ Free \/ Exit \/ EndListing \/ EndSimulation

Spec == Init /\ [][Next]_vars

-----------------------------------------------------------------------------
(* When main returns, from a listing or a simulation, nothing that it or   *)
(* the loader, the memory or the predictor allocated is left (main.c:137,  *)
(* 183-187), whatever allocation of a constructor failed.  Nothing is      *)
(* freed twice, and no pointer is read out of a block that was freed:      *)
(* tables go before their state, pages before their memory                 *)
(* (predictor.c:89-97, 146-154, memory.c:15-23, read_elf.c:222-227).       *)
FreedOnce ==
  /\ At("end") => live = {}
  /\ misuse = {}

(* A constructor gives all of a predictor or, if any allocation fails,     *)
(* NULL and nothing at all (predictor.c:98-114, 155-174).                  *)
WholePredictors ==
  At("run") => live \cap {predictor, state, table} = ToSet(Allocated(pred))

=============================================================================
