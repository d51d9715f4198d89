----------------------------- MODULE Host_proofs -----------------------------
(***************************************************************************)
(* The host program: what it allocates, and the words it decodes.          *)
(*                                                                         *)
(* Nothing is leaked, freed twice or read after its end, for every number  *)
(* of pages and whichever allocations fail.  The argument is about the     *)
(* calls of free that are still to be made: each frees something that is   *)
(* still allocated and that no later call needs, and together they free    *)
(* all there is.                                                           *)
(*                                                                         *)
(* simulate() and disassemble() read a word as what it was encoded from:   *)
(* a run of bits is worth a part of the value that was cut up, and the     *)
(* parts of each format add up to the value.  The tables of the two are    *)
(* compared with the manual entry by entry.                                *)
(***************************************************************************)
EXTENDS HostHeap, InstructionWords, SequenceTheorems, DataLemmas

PageNo == 0 .. (NPages - 1)
Pages  == {page(j) : j \in PageNo}

LoaderBlocks    == {segment, headers, symbols, strtab, syms}
PredictorBlocks == {predictor, state, table}
Blocks          == {mem} \cup Pages \cup LoaderBlocks \cup PredictorBlocks

Places == {"args", "segments", "headers", "symbols", "strtab", "syms", "symbols read",
           "list", "build", "run", "end", "exit", "crash"}

Over == {"end", "exit", "crash"}

-----------------------------------------------------------------------------
(* A sequence of calls of free that never frees what a later one needs.    *)
Calls == [block : Blocks, through : Blocks]

Freed(calls)    == {calls[l].block : l \in DOMAIN calls}
Followed(calls) == {calls[l].through : l \in DOMAIN calls}

Ordered(calls) ==
  \A l, m \in DOMAIN calls :
    l < m => calls[l].block # calls[m].block /\ calls[l].block # calls[m].through

(* A page that was never allocated, whose free does nothing.               *)
NullPage(block) == \E j \in PageNo : block = page(j) /\ j \notin pages

TypeOK ==
  /\ at \in Places /\ pred \in Constructors
  /\ live \subseteq Blocks /\ pages \subseteq PageNo
  /\ todo \in Seq(Calls)

(* Every call to be made finds its block, and what it reads the block from.*)
CallsFind ==
  /\ Ordered(todo)
  /\ \A l \in DOMAIN todo : /\ todo[l].through \in live
                            /\ todo[l].block \in live \/ NullPage(todo[l].block)

(* The memory owns the pages that its pointers say.                        *)
MemoryOwnsPages ==
  at \notin Over => /\ \A j \in PageNo : page(j) \in live <=> j \in pages
                    /\ pages # {} => mem \in live

(* What the loader holds at each place of a run.                           *)
Held(place) ==
  CASE place \in {"args", "headers"}      -> {}
    [] place = "symbols"                  -> {headers}
    [] place = "strtab"                   -> {headers, symbols}
    [] place = "syms"                     -> {headers, symbols, strtab}
    [] place = "symbols read"             -> {headers, symbols, strtab, syms}
    [] place \in {"list", "build", "run"} -> {symbols, strtab, syms}
    [] OTHER                              -> {}

LoaderHolds ==
  IF at = "segments" THEN live \cap LoaderBlocks \subseteq {segment}
  ELSE at \notin Over => live \cap LoaderBlocks = Held(at)

(* What a constructor that is not done has allocated.                      *)
Begun(kind) ==
  IF HasTable(kind) THEN {{}, {predictor}, {predictor, state}} ELSE {{}}

PredictorHolds ==
  CASE at = "build" -> live \cap PredictorBlocks \in Begun(pred)
    [] at = "run"   -> /\ Freed(todo) \subseteq PredictorBlocks
                       /\ (live \cap PredictorBlocks) \ Freed(todo) = ToSet(Allocated(pred))
    [] OTHER        -> at \notin Over => live \cap PredictorBlocks = {} /\ pred = "NULL"

IInv ==
  /\ TypeOK
  /\ CallsFind
  /\ MemoryOwnsPages
  /\ LoaderHolds
  /\ PredictorHolds
  /\ at \notin {"run", "end"} => todo = <<>>
  /\ at = "end" => live \subseteq Freed(todo)
  /\ misuse = {}

-----------------------------------------------------------------------------
(* Each pointer of the program is a block of its own.                      *)
LEMMA BlocksDiffer ==
  /\ segment # headers /\ segment # symbols /\ segment # strtab /\ segment # syms
  /\ segment # predictor /\ segment # state /\ segment # table /\ segment # mem
  /\ headers # symbols /\ headers # strtab /\ headers # syms
  /\ headers # predictor /\ headers # state /\ headers # table /\ headers # mem
  /\ symbols # strtab /\ symbols # syms
  /\ symbols # predictor /\ symbols # state /\ symbols # table /\ symbols # mem
  /\ strtab # syms
  /\ strtab # predictor /\ strtab # state /\ strtab # table /\ strtab # mem
  /\ syms # predictor /\ syms # state /\ syms # table /\ syms # mem
  /\ predictor # state /\ predictor # table /\ predictor # mem
  /\ state # table /\ state # mem /\ table # mem
  BY DEF mem, segment, headers, symbols, strtab, syms, predictor, state, table

LEMMA PagesDiffer ==
  ASSUME NEW j \in PageNo
  PROVE  /\ page(j) \notin {mem} \cup LoaderBlocks \cup PredictorBlocks
         /\ \A k \in PageNo : page(j) = page(k) => j = k
<1>1. page(j) \notin {mem, segment, headers, symbols, strtab, syms, predictor, state, table}
  BY DEF page, mem, segment, headers, symbols, strtab, syms, predictor, state, table
<1>2. \A k \in PageNo : page(j) = page(k) => j = k
  BY DEF page
<1> QED
  BY <1>1, <1>2 DEF LoaderBlocks, PredictorBlocks

(* Calls that do not disturb each other may be made one after the other.   *)
LEMMA OrderedConcat ==
  ASSUME NEW s \in Seq(Calls), NEW t \in Seq(Calls), Ordered(s), Ordered(t),
         Freed(s) \cap (Freed(t) \cup Followed(t)) = {}
  PROVE  /\ s \o t \in Seq(Calls) /\ Ordered(s \o t)
         /\ Freed(s \o t) = Freed(s) \cup Freed(t)
         /\ Followed(s \o t) = Followed(s) \cup Followed(t)
<1> DEFINE u == s \o t
<1>1. /\ u \in Seq(Calls) /\ Len(u) = Len(s) + Len(t)
      /\ \A l \in 1 .. Len(s) : u[l] = s[l]
      /\ \A l \in 1 .. Len(t) : u[Len(s) + l] = t[l]
  OBVIOUS
<1>2. /\ DOMAIN s = 1 .. Len(s) /\ DOMAIN t = 1 .. Len(t) /\ DOMAIN u = 1 .. Len(u)
      /\ Len(s) \in Nat /\ Len(t) \in Nat
  BY <1>1
<1> HIDE DEF u
<1>3. ASSUME NEW l \in DOMAIN u
      PROVE  \/ l \in DOMAIN s /\ u[l] = s[l]
             \/ l - Len(s) \in DOMAIN t /\ u[l] = t[l - Len(s)]
  <2>1. CASE l <= Len(s)
    BY <1>1, <1>2, <2>1
  <2>2. CASE l > Len(s)
    <3>1. l - Len(s) \in 1 .. Len(t)
      BY <1>1, <1>2, <2>2
    <3>2. u[Len(s) + (l - Len(s))] = t[l - Len(s)] /\ Len(s) + (l - Len(s)) = l
      BY <1>1, <1>2, <3>1
    <3> QED
      BY <1>2, <3>1, <3>2
  <2> QED
    BY <1>2, <2>1, <2>2
<1>4. /\ \A l \in DOMAIN s : l \in DOMAIN u /\ u[l] = s[l]
      /\ \A l \in DOMAIN t : Len(s) + l \in DOMAIN u /\ u[Len(s) + l] = t[l]
  BY <1>1, <1>2
<1>5. Freed(u) = Freed(s) \cup Freed(t)
  <2>1. Freed(u) \subseteq Freed(s) \cup Freed(t)
    BY <1>3, Zenon DEF Freed
  <2>2. Freed(s) \subseteq Freed(u)
    BY <1>4 DEF Freed
  <2>3. Freed(t) \subseteq Freed(u)
    BY <1>4 DEF Freed
  <2> QED
    BY <2>1, <2>2, <2>3
<1>6. Followed(u) = Followed(s) \cup Followed(t)
  <2>1. Followed(u) \subseteq Followed(s) \cup Followed(t)
    BY <1>3, Zenon DEF Followed
  <2>2. Followed(s) \subseteq Followed(u)
    BY <1>4 DEF Followed
  <2>3. Followed(t) \subseteq Followed(u)
    BY <1>4 DEF Followed
  <2> QED
    BY <2>1, <2>2, <2>3
<1>7. ASSUME NEW l \in DOMAIN u, NEW m \in DOMAIN u, l < m
      PROVE  u[l].block # u[m].block /\ u[l].block # u[m].through
  <2>1. CASE m <= Len(s)
    <3>1. l \in DOMAIN s /\ m \in DOMAIN s /\ u[l] = s[l] /\ u[m] = s[m]
      BY <1>1, <1>2, <1>7, <2>1
    <3> QED
      BY <1>7, <3>1 DEF Ordered
  <2>2. CASE l > Len(s)
    <3>1. /\ l - Len(s) \in DOMAIN t /\ u[l] = t[l - Len(s)]
          /\ m - Len(s) \in DOMAIN t /\ u[m] = t[m - Len(s)]
          /\ l - Len(s) < m - Len(s)
      BY <1>2, <1>3, <1>7, <2>2
    <3> QED
      BY <3>1 DEF Ordered
  <2>3. CASE l <= Len(s) /\ m > Len(s)
    <3>1. l \in DOMAIN s /\ u[l] = s[l] /\ m - Len(s) \in DOMAIN t /\ u[m] = t[m - Len(s)]
      BY <1>1, <1>2, <1>3, <2>3
    <3>2. u[l].block \in Freed(s) /\ u[m].block \in Freed(t) /\ u[m].through \in Followed(t)
      BY <3>1 DEF Freed, Followed
    <3> QED
      BY <3>2
  <2> QED
    BY <1>1, <1>2, <2>1, <2>2, <2>3
<1> QED
  BY <1>1, <1>5, <1>6, <1>7 DEF Ordered, u

(* Making the first of the calls.                                          *)
LEMMA OrderedTail ==
  ASSUME NEW s \in Seq(Calls), s # <<>>, Ordered(s)
  PROVE  /\ Tail(s) \in Seq(Calls) /\ Ordered(Tail(s))
         /\ Head(s) = s[1] /\ 1 \in DOMAIN s
         /\ \A l \in DOMAIN Tail(s) : l + 1 \in DOMAIN s /\ Tail(s)[l] = s[l + 1]
         /\ \A l \in DOMAIN Tail(s) : /\ Tail(s)[l].block # Head(s).block
                                      /\ Tail(s)[l].through # Head(s).block
         /\ Freed(s) = {Head(s).block} \cup Freed(Tail(s))
<1>1. /\ Tail(s) \in Seq(Calls) /\ Len(s) \in Nat /\ Len(s) >= 1
      /\ Head(s) = s[1] /\ 1 \in DOMAIN s /\ Len(Tail(s)) = Len(s) - 1
      /\ DOMAIN s = 1 .. Len(s) /\ DOMAIN Tail(s) = 1 .. (Len(s) - 1)
      /\ \A l \in 1 .. (Len(s) - 1) : Tail(s)[l] = s[l + 1]
  OBVIOUS
<1> DEFINE t == Tail(s)
<1> HIDE DEF t
<1>2. \A l \in DOMAIN t : l + 1 \in DOMAIN s /\ t[l] = s[l + 1] /\ 1 < l + 1
  BY <1>1 DEF t
<1>3. Ordered(t)
  <2>1. \A l, m \in DOMAIN t : l < m => l + 1 < m + 1
    BY <1>1 DEF t
  <2> QED
    BY <1>2, <2>1 DEF Ordered
<1>4. \A l \in DOMAIN t : t[l].block # s[1].block /\ t[l].through # s[1].block
  BY <1>1, <1>2 DEF Ordered
<1>5. Freed(s) = {s[1].block} \cup Freed(t)
  <2>1. \A l \in DOMAIN s : l = 1 \/ (l - 1 \in DOMAIN t /\ t[l - 1] = s[l])
    BY <1>1 DEF t
  <2> QED
    BY <1>1, <1>2, <2>1 DEF Freed
<1> QED
  BY <1>1, <1>2, <1>3, <1>4, <1>5 DEF t

-----------------------------------------------------------------------------
(* The calls of free of each part of the program.                          *)
LEMMA AllocatedFacts ==
  ASSUME NEW kind \in Constructors
  PROVE  ToSet(Allocated(kind)) = IF kind = "NULL" THEN {}
                                  ELSE IF HasTable(kind) THEN {predictor, state, table}
                                  ELSE {predictor}
<1>1. CASE kind = "NULL"
  BY <1>1 DEF Allocated, ToSet
<1>2. CASE kind # "NULL" /\ HasTable(kind)
  <2>1. Allocated(kind) = <<predictor, state, table>> /\ DOMAIN Allocated(kind) = 1 .. 3
    BY <1>2 DEF Allocated
  <2> QED
    BY <1>2, <2>1 DEF ToSet
<1>3. CASE kind # "NULL" /\ ~ HasTable(kind)
  <2>1. Allocated(kind) = <<predictor>> /\ DOMAIN Allocated(kind) = 1 .. 1
    BY <1>3 DEF Allocated
  <2> QED
    BY <1>3, <2>1 DEF ToSet
<1> QED
  BY <1>1, <1>2, <1>3

LEMMA DestroyFacts ==
  ASSUME NEW kind \in Constructors
  PROVE  /\ destroy(kind) \in Seq(Calls) /\ Ordered(destroy(kind))
         /\ Freed(destroy(kind)) = ToSet(Allocated(kind))
         /\ Followed(destroy(kind)) \subseteq ToSet(Allocated(kind))
<1>1. predictor \in Blocks /\ state \in Blocks /\ table \in Blocks
  BY DEF Blocks, PredictorBlocks
<1>2. CASE kind = "NULL"
  <2>1. destroy(kind) = <<>>
    BY <1>2 DEF destroy
  <2>2. <<>> \in Seq(Calls) /\ Freed(<<>>) = {} /\ Followed(<<>>) = {} /\ Ordered(<<>>)
    BY DEF Freed, Followed, Ordered
  <2> QED
    BY <1>2, <2>1, <2>2, AllocatedFacts
<1>3. CASE kind # "NULL" /\ HasTable(kind)
  <2> DEFINE s == <<Of(table, state), Of(state, predictor)>>
             t == <<Of(predictor, predictor)>>
  <2>1. destroy(kind) = s \o t
    BY <1>3 DEF destroy
  <2>2. /\ s \in Seq(Calls) /\ Ordered(s)
        /\ Freed(s) = {table, state} /\ Followed(s) = {state, predictor}
    <3>1. s \in Seq(Calls) /\ DOMAIN s = 1 .. 2
      BY <1>1 DEF Calls, Of
    <3> QED
      BY <3>1, BlocksDiffer DEF Ordered, Freed, Followed, Of
  <2>3. t \in Seq(Calls) /\ Ordered(t) /\ Freed(t) = {predictor} /\ Followed(t) = {predictor}
    <3>1. t \in Seq(Calls) /\ DOMAIN t = 1 .. 1
      BY <1>1 DEF Calls, Of
    <3> QED
      BY <3>1 DEF Ordered, Freed, Followed, Of
  <2> HIDE DEF s, t
  <2>4. Freed(s) \cap (Freed(t) \cup Followed(t)) = {}
    BY <2>2, <2>3, BlocksDiffer
  <2>5. /\ s \o t \in Seq(Calls) /\ Ordered(s \o t)
        /\ Freed(s \o t) = {predictor, state, table}
        /\ Followed(s \o t) = {state, predictor}
    <3>1. /\ s \o t \in Seq(Calls) /\ Ordered(s \o t)
          /\ Freed(s \o t) = Freed(s) \cup Freed(t)
          /\ Followed(s \o t) = Followed(s) \cup Followed(t)
      BY <2>2, <2>3, <2>4, OrderedConcat
    <3> QED
      BY <2>2, <2>3, <3>1
  <2>6. ToSet(Allocated(kind)) = {predictor, state, table}
    BY <1>3, AllocatedFacts
  <2> QED
    BY <2>1, <2>5, <2>6
<1>4. CASE kind # "NULL" /\ ~ HasTable(kind)
  <2>1. destroy(kind) = <<Of(predictor, predictor)>>
    <3>1. destroy(kind) = <<>> \o <<Of(predictor, predictor)>>
      BY <1>4 DEF destroy
    <3>2. <<Of(predictor, predictor)>> \in Seq({Of(predictor, predictor)})
      OBVIOUS
    <3> QED
      BY <3>1, <3>2
  <2>2. destroy(kind) \in Seq(Calls) /\ DOMAIN destroy(kind) = 1 .. 1
    BY <1>1, <2>1 DEF Calls, Of
  <2>3. Freed(destroy(kind)) = {predictor} /\ Followed(destroy(kind)) = {predictor}
    BY <2>1, <2>2 DEF Freed, Followed, Of
  <2>4. Ordered(destroy(kind))
    BY <2>2 DEF Ordered
  <2> QED
    BY <1>4, <2>2, <2>3, <2>4, AllocatedFacts
<1> QED
  BY <1>2, <1>3, <1>4

(* The blocks of a constructor before its block k + 1.                     *)
First(k) == IF k = 0 THEN {} ELSE IF k = 1 THEN {predictor} ELSE {predictor, state}

LEMMA UndoFacts ==
  ASSUME NEW k \in 0 .. 2
  PROVE  /\ Undo(k) \in Seq(Calls) /\ Ordered(Undo(k))
         /\ Freed(Undo(k)) = First(k) /\ Followed(Undo(k)) = First(k)
<1>1. predictor \in Blocks /\ state \in Blocks /\ table \in Blocks
  BY DEF Blocks, PredictorBlocks
<1>2. Allocated("gshare") = <<predictor, state, table>>
  BY DEF Allocated, HasTable
<1>3. \A l \in 1 .. k : k + 1 - l \in 1 .. 2
  OBVIOUS
<1>4. /\ Undo(k) \in Seq(Calls) /\ DOMAIN Undo(k) = 1 .. k
      /\ \A l \in 1 .. k : Undo(k)[l] = Of(<<predictor, state>>[k + 1 - l],
                                          <<predictor, state>>[k + 1 - l])
  <2>1. \A n \in 1 .. 2 : /\ Allocated("gshare")[n] = <<predictor, state>>[n]
                          /\ <<predictor, state>>[n] \in Blocks
    BY <1>1, <1>2
  <2>2. \A l \in 1 .. k : Of(<<predictor, state>>[k + 1 - l], <<predictor, state>>[k + 1 - l])
                            \in Calls
    BY <1>3, <2>1 DEF Calls, Of
  <2> QED
    BY <1>3, <2>1, <2>2 DEF Undo
<1>5. CASE k = 0
  BY <1>4, <1>5 DEF Ordered, Freed, Followed, First
<1>6. CASE k = 1
  BY <1>4, <1>6 DEF Ordered, Freed, Followed, First, Of
<1>7. CASE k = 2
  <2>1. Undo(k)[1] = Of(state, state) /\ Undo(k)[2] = Of(predictor, predictor)
    BY <1>4, <1>7
  <2> QED
    BY <1>4, <1>7, <2>1, BlocksDiffer DEF Ordered, Freed, Followed, First, Of
<1> QED
  BY <1>5, <1>6, <1>7

LEMMA SymbolsDeleteFacts ==
  /\ symbols_delete \in Seq(Calls) /\ Ordered(symbols_delete)
  /\ Freed(symbols_delete) = {symbols, strtab, syms}
  /\ Followed(symbols_delete) = {symbols}
<1>1. symbols \in Blocks /\ strtab \in Blocks /\ syms \in Blocks
  BY DEF Blocks, LoaderBlocks
<1>2. /\ symbols_delete = <<Of(strtab, symbols), Of(syms, symbols), Of(symbols, symbols)>>
      /\ symbols_delete \in Seq(Calls) /\ DOMAIN symbols_delete = 1 .. 3
  BY <1>1 DEF symbols_delete, Calls, Of
<1> QED
  BY <1>2, BlocksDiffer DEF Ordered, Freed, Followed, Of

LEMMA MemoryDeleteFacts ==
  /\ memory_delete \in Seq(Calls) /\ Ordered(memory_delete)
  /\ Freed(memory_delete) = {mem} \cup Pages
  /\ Followed(memory_delete) = {mem}
<1> DEFINE s == [j \in 1 .. NPages |-> Of(page(j - 1), mem)]
           t == <<Of(mem, mem)>>
<1>1. NPages \in Nat \ {0}
  BY NPagesAssumption
<1>2. \A j \in 1 .. NPages : j - 1 \in PageNo
  BY <1>1 DEF PageNo
<1>3. /\ mem \in Blocks /\ \A j \in PageNo : page(j) \in Blocks /\ page(j) # mem
      /\ \A j, k \in PageNo : page(j) = page(k) => j = k
  BY PagesDiffer DEF Blocks, Pages
<1>4. s \in Seq(Calls) /\ DOMAIN s = 1 .. NPages
  BY <1>1, <1>2, <1>3 DEF Calls, Of
<1>5. \A j \in 1 .. NPages : s[j].block = page(j - 1) /\ s[j].through = mem
  BY DEF Of
<1> HIDE DEF s
<1>6. Ordered(s)
  <2>1. SUFFICES ASSUME NEW l \in 1 .. NPages, NEW m \in 1 .. NPages, l < m
                 PROVE  page(l - 1) # page(m - 1) /\ page(l - 1) # mem
    BY <1>4, <1>5 DEF Ordered
  <2>2. l - 1 # m - 1 /\ l - 1 \in PageNo /\ m - 1 \in PageNo
    BY <1>1, <1>2, <2>1
  <2> QED
    BY <1>3, <2>2
<1>7. Freed(s) = Pages
  <2>1. \A j \in PageNo : j + 1 \in 1 .. NPages /\ (j + 1) - 1 = j
    BY <1>1 DEF PageNo
  <2>2. Freed(s) \subseteq Pages
    BY <1>2, <1>4, <1>5 DEF Freed, Pages
  <2>3. Pages \subseteq Freed(s)
    BY <1>4, <1>5, <2>1 DEF Freed, Pages
  <2> QED
    BY <2>2, <2>3
<1>8. Followed(s) = {mem}
  BY <1>1, <1>4, <1>5 DEF Followed
<1>9. t \in Seq(Calls) /\ Ordered(t) /\ Freed(t) = {mem} /\ Followed(t) = {mem}
  BY <1>3 DEF Calls, Of, Ordered, Freed, Followed
<1>10. mem \notin Pages
  BY <1>3 DEF Pages
<1> HIDE DEF t
<1>11. Freed(s) \cap (Freed(t) \cup Followed(t)) = {}
  BY <1>7, <1>9, <1>10
<1>12. memory_delete = s \o t
  BY DEF memory_delete, s, t
<1> QED
  BY <1>4, <1>6, <1>7, <1>8, <1>9, <1>11, <1>12, OrderedConcat

-----------------------------------------------------------------------------
LEMMA InitIInv == Init => IInv
<1> SUFFICES ASSUME Init PROVE IInv
  OBVIOUS
<1>1. /\ at = "args" /\ live \subseteq {mem} /\ pages = {} /\ pred = "NULL"
      /\ todo = <<>> /\ misuse = {}
  BY DEF Init
<1>2. TypeOK
  BY <1>1 DEF TypeOK, Places, Constructors, Blocks
<1>3. CallsFind
  BY <1>1 DEF CallsFind, Ordered
<1>4. MemoryOwnsPages
  BY <1>1, PagesDiffer DEF MemoryOwnsPages
<1>5. LoaderHolds
  BY <1>1, BlocksDiffer DEF LoaderHolds, Held, LoaderBlocks
<1>6. PredictorHolds
  BY <1>1, BlocksDiffer DEF PredictorHolds, PredictorBlocks
<1> QED
  BY <1>1, <1>2, <1>3, <1>4, <1>5, <1>6 DEF IInv

(* A step that leaves no call of free to be made.                          *)
LEMMA QuietStep ==
  ASSUME todo' = <<>>, misuse' = {}, TypeOK', MemoryOwnsPages', LoaderHolds',
         PredictorHolds', at' # "end"
  PROVE  IInv'
<1>1. CallsFind'
  BY DEF CallsFind, Ordered
<1> QED
  BY <1>1 DEF IInv

(* A step that takes or gives a block which is not of the memory.          *)
LEMMA OtherBlocks ==
  ASSUME IInv, at \notin Over, pages' = pages,
         NEW block \in LoaderBlocks \cup PredictorBlocks,
         live' \in {live, live \cup {block}, live \ {block}}
  PROVE  MemoryOwnsPages' /\ live' \subseteq Blocks
<1>1. block # mem /\ \A j \in PageNo : page(j) # block
  BY BlocksDiffer, PagesDiffer DEF LoaderBlocks, PredictorBlocks
<1>2. block \in Blocks
  BY DEF Blocks
<1> QED
  BY <1>1, <1>2 DEF IInv, MemoryOwnsPages, TypeOK

LEMMA LoaderStep ==
  ASSUME IInv, todo = <<>>, todo' = <<>>, misuse' = misuse, pages' = pages, pred' = pred,
         at \notin Over \cup {"build", "run"}, at' \in Places \ {"run", "end"},
         NEW block \in LoaderBlocks,
         live' \in {live, live \cup {block}, live \ {block}},
         LoaderHolds'
  PROVE  IInv'
<1>1. MemoryOwnsPages' /\ live' \subseteq Blocks
  BY OtherBlocks DEF Over
<1>2. TypeOK'
  BY <1>1 DEF IInv, TypeOK
<1>3. PredictorHolds'
  <2>1. block \notin PredictorBlocks
    BY BlocksDiffer DEF LoaderBlocks, PredictorBlocks
  <2>2. live \cap PredictorBlocks = {} /\ pred = "NULL"
    BY DEF IInv, PredictorHolds, Over
  <2>3. live' \cap PredictorBlocks = {} /\ pred' = "NULL"
    BY <2>1, <2>2
  <2> QED
    BY <2>3 DEF PredictorHolds, Begun, HasTable
<1> QED
  BY <1>1, <1>2, <1>3, QuietStep DEF IInv

LEMMA TouchStep ==
  ASSUME IInv, Touch PROVE IInv'
<1>1. /\ todo = <<>> /\ todo' = <<>> /\ misuse' = {} /\ pred' = pred
      /\ at \in {"args", "segments", "list", "run"}
  BY DEF Touch, At, IInv
<1>2. PICK j \in PageNo \ pages :
        \/ mem \in live /\ live' = live \cup {page(j)} /\ pages' = pages \cup {j} /\ at' = at
        \/ at' = "crash" /\ UNCHANGED <<live, pages>>
  BY DEF Touch, PageNo
<1>3. CASE at' = "crash" /\ UNCHANGED <<live, pages>>
  BY <1>1, <1>3, QuietStep
     DEF IInv, TypeOK, Places, MemoryOwnsPages, LoaderHolds, PredictorHolds, Over
<1>4. CASE mem \in live /\ live' = live \cup {page(j)} /\ pages' = pages \cup {j} /\ at' = at
  <2>1. /\ page(j) \notin {mem} \cup LoaderBlocks \cup PredictorBlocks
        /\ \A k \in PageNo : page(k) = page(j) => k = j
    BY PagesDiffer
  <2>2. TypeOK'
    BY <1>1, <1>4 DEF IInv, TypeOK, Blocks, Pages
  <2>3. MemoryOwnsPages'
    BY <1>4, <2>1 DEF IInv, MemoryOwnsPages
  <2>4. live' \cap LoaderBlocks = live \cap LoaderBlocks
        /\ live' \cap PredictorBlocks = live \cap PredictorBlocks
    BY <1>4, <2>1
  <2>5. LoaderHolds' /\ PredictorHolds'
    BY <1>1, <1>4, <2>4 DEF IInv, LoaderHolds, PredictorHolds
  <2> QED
    BY <1>1, <1>4, <2>2, <2>3, <2>5, QuietStep
<1> QED
  BY <1>2, <1>3, <1>4

LEMMA LoaderActions ==
  ASSUME IInv,
         \/ EndArgs \/ ReadSegment \/ FreeSegment \/ EndSegments
         \/ ReadHeaders \/ NoTables \/ NewSymbols \/ ReadStrtab \/ ReadSyms \/ SymbolsRead
  PROVE  IInv'
<1> USE BlocksDiffer DEF IInv, LoaderHolds, Held, LoaderBlocks, Over, Places, At, Go
<1>1. CASE EndArgs
  BY <1>1, LoaderStep DEF EndArgs
<1>2. CASE ReadSegment
  BY <1>2, LoaderStep DEF ReadSegment
<1>3. CASE FreeSegment
  BY <1>3, LoaderStep DEF FreeSegment
<1>4. CASE EndSegments
  BY <1>4, LoaderStep DEF EndSegments
<1>5. CASE ReadHeaders
  BY <1>5, LoaderStep DEF ReadHeaders, Unchecked
<1>6. CASE NoTables
  BY <1>6, LoaderStep DEF NoTables
<1>7. CASE NewSymbols
  BY <1>7, LoaderStep DEF NewSymbols, Unchecked
<1>8. CASE ReadStrtab
  BY <1>8, LoaderStep DEF ReadStrtab, Unchecked
<1>9. CASE ReadSyms
  BY <1>9, LoaderStep DEF ReadSyms, Unchecked
<1>10. CASE SymbolsRead
  BY <1>10, LoaderStep DEF SymbolsRead
<1> QED
  BY <1>1, <1>2, <1>3, <1>4, <1>5, <1>6, <1>7, <1>8, <1>9, <1>10

LEMMA ChooseStep ==
  ASSUME IInv, ChooseConstructor PROVE IInv'
<1>1. /\ at = "build" /\ pred = "NULL" /\ todo = <<>> /\ todo' = <<>> /\ misuse' = {}
      /\ live' = live /\ pages' = pages /\ pred' \in Constructors
      /\ at' = IF pred' = "NULL" THEN "run" ELSE "build"
  BY DEF ChooseConstructor, At, IInv
<1>2. TypeOK' /\ MemoryOwnsPages' /\ LoaderHolds'
  BY <1>1 DEF IInv, TypeOK, Places, MemoryOwnsPages, LoaderHolds, Held, Over
<1>3. live \cap PredictorBlocks = {}
  BY <1>1 DEF IInv, PredictorHolds, Begun, HasTable
<1>4. PredictorHolds'
  <2>1. CASE pred' = "NULL"
    <3>1. Freed(todo') = {} /\ ToSet(Allocated(pred')) = {}
      BY <1>1, <2>1, AllocatedFacts DEF Freed
    <3> QED
      BY <1>1, <1>3, <2>1, <3>1 DEF PredictorHolds
  <2>2. CASE pred' # "NULL"
    BY <1>1, <1>3, <2>2 DEF PredictorHolds, Begun
  <2> QED
    BY <2>1, <2>2
<1> QED
  BY <1>1, <1>2, <1>4, QuietStep

(* Where a constructor is: the blocks it has, and its next.                *)
LEMMA ConstructFacts ==
  ASSUME IInv, At("build"), pred # "NULL"
  PROVE  LET k == Cardinality(live \cap ToSet(Allocated(pred)))
         IN  /\ k \in 0 .. 2 /\ live \cap PredictorBlocks = First(k)
             /\ k + 1 \in 1 .. Len(Allocated(pred))
             /\ Allocated(pred)[k + 1] \in PredictorBlocks
             /\ IF k + 1 = Len(Allocated(pred))
                THEN First(k) \cup {Allocated(pred)[k + 1]} = ToSet(Allocated(pred))
                ELSE First(k) \cup {Allocated(pred)[k + 1]} \in Begun(pred)
<1> DEFINE k == Cardinality(live \cap ToSet(Allocated(pred)))
           Goal(n) ==
             /\ n \in 0 .. 2 /\ live \cap PredictorBlocks = First(n)
             /\ n + 1 \in 1 .. Len(Allocated(pred))
             /\ Allocated(pred)[n + 1] \in PredictorBlocks
             /\ IF n + 1 = Len(Allocated(pred))
                THEN First(n) \cup {Allocated(pred)[n + 1]} = ToSet(Allocated(pred))
                ELSE First(n) \cup {Allocated(pred)[n + 1]} \in Begun(pred)
<1> HIDE DEF Goal
<1> SUFFICES Goal(k)
  BY DEF Goal
<1>1. /\ at = "build" /\ pred \in Constructors /\ live \cap PredictorBlocks \in Begun(pred)
  BY DEF IInv, TypeOK, PredictorHolds, At
<1>2. /\ Cardinality({}) = 0 /\ Cardinality({predictor}) = 1
      /\ Cardinality({predictor, state}) = 2
  <2>1. Cardinality({}) = 0
    BY FS_EmptySet
  <2>2. IsFiniteSet({predictor}) /\ Cardinality({predictor}) = 1
    BY FS_Singleton
  <2>3. Cardinality({predictor} \cup {state}) = 2
    BY <2>2, BlocksDiffer, FS_AddElement
  <2>4. {predictor} \cup {state} = {predictor, state}
    OBVIOUS
  <2> QED
    BY <2>1, <2>2, <2>3, <2>4
<1>3. CASE HasTable(pred)
  <2>1. /\ Allocated(pred) = <<predictor, state, table>> /\ Len(Allocated(pred)) = 3
        /\ ToSet(Allocated(pred)) = {predictor, state, table}
    BY <1>1, <1>3, AllocatedFacts DEF Allocated
  <2>2. live \cap {predictor, state, table} \in {{}, {predictor}, {predictor, state}}
    BY <1>1, <1>3 DEF Begun, PredictorBlocks
  <2>3. CASE live \cap {predictor, state, table} = {}
    <3>1. k = 0
      BY <1>2, <2>1, <2>3
    <3> HIDE DEF k
    <3>2. Allocated(pred)[1] = predictor /\ First(0) = {}
      BY <2>1 DEF First
    <3>3. Goal(0)
      BY <1>3, <2>1, <2>3, <3>2 DEF PredictorBlocks, Begun, Goal
    <3> QED
      BY <3>1, <3>3
  <2>4. CASE live \cap {predictor, state, table} = {predictor}
    <3>1. k = 1
      BY <1>2, <2>1, <2>4
    <3> HIDE DEF k
    <3>2. Allocated(pred)[2] = state /\ First(1) = {predictor}
      BY <2>1 DEF First
    <3>3. Goal(1)
      BY <1>3, <2>1, <2>4, <3>2 DEF PredictorBlocks, Begun, Goal
    <3> QED
      BY <3>1, <3>3
  <2>5. CASE live \cap {predictor, state, table} = {predictor, state}
    <3>1. k = 2
      BY <1>2, <2>1, <2>5
    <3> HIDE DEF k
    <3>2. Allocated(pred)[3] = table /\ First(2) = {predictor, state}
      BY <2>1 DEF First
    <3>3. Goal(2)
      BY <2>1, <2>5, <3>2 DEF PredictorBlocks, Goal
    <3> QED
      BY <3>1, <3>3
  <2> QED
    BY <2>2, <2>3, <2>4, <2>5
<1>4. CASE ~ HasTable(pred)
  <2>1. /\ Allocated(pred) = <<predictor>> /\ Len(Allocated(pred)) = 1
        /\ ToSet(Allocated(pred)) = {predictor}
    BY <1>1, <1>4, AllocatedFacts DEF Allocated
  <2>2. live \cap PredictorBlocks = {} /\ live \cap {predictor} = {}
    BY <1>1, <1>4 DEF Begun, PredictorBlocks
  <2> QED
    BY <1>2, <2>1, <2>2 DEF First, PredictorBlocks, Goal
<1> QED
  BY <1>3, <1>4

LEMMA ConstructStep ==
  ASSUME IInv, Construct PROVE IInv'
<1> DEFINE k     == Cardinality(live \cap ToSet(Allocated(pred)))
           block == Allocated(pred)[k + 1]
<1>1. /\ At("build") /\ at = "build" /\ pred # "NULL" /\ pages' = pages /\ misuse' = {}
      /\ todo = <<>>
  BY DEF Construct, IInv, At
<1>2. /\ k \in 0 .. 2 /\ live \cap PredictorBlocks = First(k)
      /\ block \in PredictorBlocks
      /\ IF k + 1 = Len(Allocated(pred)) THEN First(k) \cup {block} = ToSet(Allocated(pred))
                                         ELSE First(k) \cup {block} \in Begun(pred)
  BY <1>1, ConstructFacts
<1>3. \/ /\ live' = live \cup {block} /\ pred' = pred /\ todo' = todo
         /\ at' = IF k + 1 = Len(Allocated(pred)) THEN "run" ELSE at
      \/ /\ pred' = "NULL" /\ todo' = Undo(k) /\ at' = "run" /\ live' = live
  BY DEF Construct
<1> HIDE DEF k, block
<1>4. CASE /\ live' = live \cup {block} /\ pred' = pred /\ todo' = todo
           /\ at' = IF k + 1 = Len(Allocated(pred)) THEN "run" ELSE at
  <2>1. MemoryOwnsPages' /\ live' \subseteq Blocks
    BY <1>1, <1>2, <1>4, OtherBlocks DEF Over
  <2>2. TypeOK'
    BY <1>1, <1>4, <2>1 DEF IInv, TypeOK, Places
  <2>3. LoaderHolds'
    <3>1. block \notin LoaderBlocks
      BY <1>2, BlocksDiffer DEF LoaderBlocks, PredictorBlocks
    <3> QED
      BY <1>1, <1>4, <3>1 DEF IInv, LoaderHolds, Held, Over
  <2>4. live' \cap PredictorBlocks = First(k) \cup {block}
    BY <1>2, <1>4
  <2>5. PredictorHolds'
    <3>1. Freed(todo') = {}
      BY <1>1, <1>4 DEF Freed
    <3> QED
      BY <1>1, <1>2, <1>4, <2>4, <3>1 DEF PredictorHolds, PredictorBlocks
  <2> QED
    BY <1>1, <1>4, <2>1, <2>2, <2>3, <2>5, QuietStep
<1>5. CASE pred' = "NULL" /\ todo' = Undo(k) /\ at' = "run" /\ live' = live
  <2>1. /\ todo' \in Seq(Calls) /\ Ordered(todo')
        /\ Freed(todo') = First(k) /\ Followed(todo') = First(k)
    BY <1>2, <1>5, UndoFacts
  <2>2. TypeOK' /\ MemoryOwnsPages' /\ LoaderHolds'
    BY <1>1, <1>5, <2>1
       DEF IInv, TypeOK, Places, Constructors, MemoryOwnsPages, LoaderHolds, Held, Over
  <2>3. CallsFind'
    <3>1. First(k) \subseteq live'
      BY <1>2, <1>5
    <3> QED
      BY <2>1, <3>1 DEF CallsFind, Freed, Followed
  <2>4. PredictorHolds'
    <3>1. ToSet(Allocated(pred')) = {}
      BY <1>5, AllocatedFacts DEF Constructors
    <3>2. First(k) \subseteq PredictorBlocks
      BY <1>2
    <3> QED
      BY <1>2, <1>5, <2>1, <3>1, <3>2 DEF PredictorHolds
  <2> QED
    BY <1>1, <1>5, <2>2, <2>3, <2>4 DEF IInv
<1> QED
  BY <1>3, <1>4, <1>5

LEMMA FreeStep ==
  ASSUME IInv, Free PROVE IInv'
<1> DEFINE call == Head(todo)
<1>1. /\ todo \in Seq(Calls) /\ todo # <<>> /\ Ordered(todo) /\ misuse = {}
      /\ at \in {"run", "end"} /\ live \subseteq Blocks
  BY DEF Free, IInv, TypeOK, CallsFind
<1>2. /\ todo' = Tail(todo) /\ live' = live \ {call.block}
      /\ at' = at /\ pages' = pages /\ pred' = pred
      /\ misuse' = (({call.through} \cup (IF NullPage(call.block) THEN {} ELSE {call.block}))
                      \ live)
  BY <1>1 DEF Free, NullPage, PageNo
<1>3. /\ todo' \in Seq(Calls) /\ Ordered(todo')
      /\ call = todo[1] /\ 1 \in DOMAIN todo
      /\ \A l \in DOMAIN todo' : l + 1 \in DOMAIN todo /\ todo'[l] = todo[l + 1]
      /\ \A l \in DOMAIN todo' : todo'[l].block # call.block /\ todo'[l].through # call.block
      /\ Freed(todo) = {call.block} \cup Freed(todo')
  BY <1>1, <1>2, OrderedTail
<1>4. call.through \in live /\ (call.block \in live \/ NullPage(call.block))
  BY <1>3 DEF IInv, CallsFind
<1> HIDE DEF call
<1>5. misuse' = {}
  BY <1>2, <1>4
<1>6. TypeOK'
  BY <1>2, <1>3 DEF IInv, TypeOK
<1>7. CallsFind'
  <2>1. \A l \in DOMAIN todo' : /\ todo'[l].through \in live'
                                /\ todo'[l].block \in live' \/ NullPage(todo'[l].block)
    BY <1>2, <1>3 DEF IInv, CallsFind
  <2>2. \A block : NullPage(block) => NullPage(block)'
    BY <1>2 DEF NullPage
  <2> QED
    BY <1>3, <2>1, <2>2 DEF CallsFind
<1>8. call.block \notin Freed(todo')
  BY <1>3 DEF Freed
<1>9. CASE at = "end"
  <2>1. live' \subseteq Freed(todo')
    BY <1>2, <1>3, <1>9 DEF IInv
  <2> QED
    BY <1>2, <1>5, <1>6, <1>7, <1>9, <2>1
       DEF IInv, MemoryOwnsPages, LoaderHolds, Held, PredictorHolds, Over
<1>10. CASE at = "run"
  <2>1. /\ Freed(todo) \subseteq PredictorBlocks
        /\ (live \cap PredictorBlocks) \ Freed(todo) = ToSet(Allocated(pred))
    BY <1>10 DEF IInv, PredictorHolds
  <2>2. call.block \in PredictorBlocks
    BY <1>3, <2>1
  <2>3. MemoryOwnsPages'
    BY <1>2, <1>10, <2>2, OtherBlocks DEF Over
  <2>4. LoaderHolds'
    <3>1. call.block \notin LoaderBlocks
      BY <2>2, BlocksDiffer DEF LoaderBlocks, PredictorBlocks
    <3> QED
      BY <1>2, <1>10, <3>1 DEF IInv, LoaderHolds, Held, Over
  <2>5. PredictorHolds'
    <3>1. (live' \cap PredictorBlocks) \ Freed(todo') = (live \cap PredictorBlocks) \ Freed(todo)
      BY <1>2, <1>3, <1>8
    <3> QED
      BY <1>2, <1>3, <1>10, <2>1, <3>1 DEF PredictorHolds
  <2> QED
    BY <1>2, <1>5, <1>6, <1>7, <1>10, <2>3, <2>4, <2>5 DEF IInv
<1> QED
  BY <1>1, <1>9, <1>10

LEMMA ExitStep ==
  ASSUME IInv, Exit PROVE IInv'
<1>1. /\ todo = <<>> /\ todo' = <<>> /\ misuse' = {} /\ at' = "exit"
      /\ live' = live /\ pages' = pages /\ pred' = pred
  BY DEF Exit, At, Go, IInv
<1> QED
  BY <1>1, QuietStep
     DEF IInv, TypeOK, Places, MemoryOwnsPages, LoaderHolds, Held, PredictorHolds, Over

(* main cleans up: the calls free all there is.                            *)
LEMMA CleanStep ==
  ASSUME IInv, todo = <<>>, at \in {"list", "run"},
         NEW calls \in Seq(Calls), Clean(calls), Ordered(calls),
         Freed(calls) = live \cap PredictorBlocks, Followed(calls) \subseteq live \cap PredictorBlocks
  PROVE  IInv'
<1>1. /\ live' = live /\ pages' = pages /\ pred' = pred /\ misuse' = {}
  BY DEF Clean, IInv
<1>2. CASE mem \notin live
  <2>1. at' = "crash" /\ todo' = <<>>
    BY <1>2 DEF Clean
  <2> QED
    BY <1>1, <2>1, QuietStep
       DEF IInv, TypeOK, Places, MemoryOwnsPages, LoaderHolds, Held, PredictorHolds, Over
<1>3. CASE mem \in live
  <2> DEFINE part == calls \o symbols_delete
  <2>1. at' = "end" /\ todo' = part \o memory_delete
    BY <1>3 DEF Clean
  <2>2. live \cap LoaderBlocks = {symbols, strtab, syms}
    BY DEF IInv, LoaderHolds, Held, Over
  <2>3. /\ part \in Seq(Calls) /\ Ordered(part)
        /\ Freed(part) = Freed(calls) \cup Freed(symbols_delete)
        /\ Followed(part) = Followed(calls) \cup Followed(symbols_delete)
    <3>1. PredictorBlocks \cap LoaderBlocks = {}
      BY BlocksDiffer DEF PredictorBlocks, LoaderBlocks
    <3>2. Freed(calls) \cap (Freed(symbols_delete) \cup Followed(symbols_delete)) = {}
      BY <3>1, SymbolsDeleteFacts DEF LoaderBlocks
    <3> QED
      BY <3>2, SymbolsDeleteFacts, OrderedConcat
  <2> HIDE DEF part
  <2>4. Freed(part) = live \cap (PredictorBlocks \cup LoaderBlocks)
    BY <2>2, <2>3, SymbolsDeleteFacts
  <2>5. Followed(part) \subseteq live
    BY <2>2, <2>3, SymbolsDeleteFacts
  <2>6. (PredictorBlocks \cup LoaderBlocks) \cap ({mem} \cup Pages) = {}
    BY BlocksDiffer, PagesDiffer DEF PredictorBlocks, LoaderBlocks, Pages
  <2>7. /\ todo' \in Seq(Calls) /\ Ordered(todo')
        /\ Freed(todo') = Freed(part) \cup Freed(memory_delete)
        /\ Followed(todo') = Followed(part) \cup Followed(memory_delete)
    <3>1. Freed(part) \cap (Freed(memory_delete) \cup Followed(memory_delete)) = {}
      BY <2>4, <2>6, MemoryDeleteFacts
    <3> QED
      BY <2>1, <2>3, <3>1, MemoryDeleteFacts, OrderedConcat
  <2>8. live \subseteq Freed(todo')
    BY <2>4, <2>7, MemoryDeleteFacts DEF IInv, TypeOK, Blocks
  <2>9. Followed(todo') \subseteq live
    BY <1>3, <2>5, <2>7, MemoryDeleteFacts
  <2>10. \A block \in Freed(todo') : block \in live \/ NullPage(block)
    <3>1. \A block \in Pages : block \in live \/ NullPage(block)
      BY DEF IInv, MemoryOwnsPages, Over, Pages, NullPage
    <3> QED
      BY <1>3, <2>4, <2>7, <3>1, MemoryDeleteFacts
  <2>11. CallsFind'
    <3>1. \A block : NullPage(block) => NullPage(block)'
      BY <1>1 DEF NullPage
    <3>2. \A l \in DOMAIN todo' : /\ todo'[l].block \in Freed(todo')
                                  /\ todo'[l].through \in Followed(todo')
      BY DEF Freed, Followed
    <3> QED
      BY <1>1, <2>7, <2>9, <2>10, <3>1, <3>2 DEF CallsFind
  <2> QED
    BY <1>1, <2>1, <2>7, <2>8, <2>11
       DEF IInv, TypeOK, Places, MemoryOwnsPages, LoaderHolds, Held, PredictorHolds, Over
<1> QED
  BY <1>2, <1>3

LEMMA EndStep ==
  ASSUME IInv, EndListing \/ EndSimulation PROVE IInv'
<1>1. CASE EndListing
  <2>1. todo = <<>> /\ at = "list" /\ Clean(<<>>)
    BY <1>1 DEF EndListing, At
  <2>2. live \cap PredictorBlocks = {}
    BY <2>1 DEF IInv, PredictorHolds, Over
  <2>3. <<>> \in Seq(Calls) /\ Freed(<<>>) = {} /\ Followed(<<>>) = {} /\ Ordered(<<>>)
    BY DEF Freed, Followed, Ordered
  <2> QED
    BY <2>1, <2>2, <2>3, CleanStep
<1>2. CASE EndSimulation
  <2>1. todo = <<>> /\ at = "run" /\ Clean(destroy(pred)) /\ pred \in Constructors
    BY <1>2 DEF EndSimulation, At, IInv, TypeOK
  <2>2. live \cap PredictorBlocks = ToSet(Allocated(pred))
    <3>1. Freed(todo) = {}
      BY <2>1 DEF Freed
    <3> QED
      BY <2>1, <3>1 DEF IInv, PredictorHolds
  <2> QED
    BY <2>1, <2>2, DestroyFacts, CleanStep
<1> QED
  BY <1>1, <1>2

LEMMA StepIInv == IInv /\ [Next]_vars => IInv'
<1> SUFFICES ASSUME IInv, [Next]_vars PROVE IInv'
  OBVIOUS
<1>1. CASE UNCHANGED vars
  <2>1. \A block : NullPage(block)' <=> NullPage(block)
    BY <1>1 DEF vars, NullPage
  <2> QED
    BY <1>1, <2>1 DEF vars, IInv, TypeOK, CallsFind, MemoryOwnsPages, LoaderHolds, PredictorHolds
<1>2. CASE Next
  BY <1>2, TouchStep, LoaderActions, ChooseStep, ConstructStep, FreeStep, ExitStep, EndStep
     DEF Next
<1> QED
  BY <1>1, <1>2

(* The invariant of a run: what is allocated, by whom, and who frees it.   *)
THEOREM Invariant == Spec => []IInv
<1> QED
  BY InitIInv, StepIInv, PTL DEF Spec

(* main.c:137, 183-187: when main returns nothing is left, and nothing was *)
(* freed twice or read after its end.                                      *)
THEOREM NothingLeft == Spec => []FreedOnce
<1>1. IInv => FreedOnce
  <2> SUFFICES ASSUME IInv PROVE FreedOnce
    OBVIOUS
  <2>1. At("end") => live = {}
    BY DEF IInv, At, Freed
  <2> QED
    BY <2>1 DEF IInv, FreedOnce
<1> QED
  BY <1>1, Invariant, PTL

(* predictor.c:98-114, 155-174: a constructor gives all of a predictor or  *)
(* nothing at all.                                                         *)
THEOREM AllOrNothing == Spec => []WholePredictors
<1>1. IInv => WholePredictors
  <2> SUFFICES ASSUME IInv, At("run") PROVE live \cap PredictorBlocks = ToSet(Allocated(pred))
    BY DEF WholePredictors, PredictorBlocks
  <2>1. Freed(todo) = {}
    BY DEF At, Freed
  <2> QED
    BY <2>1 DEF IInv, PredictorHolds, At
<1> QED
  BY <1>1, Invariant, PTL

-----------------------------------------------------------------------------
(* What the proofs call a word.                                            *)
Words == [WordBits -> {0, 1}]

(* A run of bits is a number of as many bits.                              *)
LEMMA FieldType ==
  ASSUME NEW w \in Words, NEW f \in Nat, NEW n \in Nat, f + n <= 32
  PROVE  Field(w, f, n) \in 0 .. (2^n - 1)
<1> DEFINE g == [i \in 0 .. (n - 1) |-> Bit(w, f + i) * 2^i]
<1>1. ASSUME NEW i \in 0 .. (n - 1) PROVE g[i] \in {0, 2^i}
  <2>1. w[f + i] \in {0, 1} /\ i \in Nat
    BY DEF Words, WordBits
  <2>2. 2^i \in Nat
    BY <2>1, Powers
  <2> QED
    BY <2>1, <2>2 DEF Bit
<1>2. DOMAIN g = 0 .. (n - 1) /\ Field(w, f, n) = SumFunctionOnSet(g, DOMAIN g)
  BY DEF Field, SumFunction
<1> HIDE DEF g
<1> QED
  BY <1>1, <1>2, SumBelow

(* Where a word has the bits of y, a field is what they are worth.         *)
LEMMA FieldIs ==
  ASSUME NEW w \in Words, NEW f \in Nat, NEW n \in Nat, f + n <= 32, NEW y \in Int,
         \A i \in 0 .. (n - 1) : w[f + i] = BitOf(y, i)
  PROVE  Field(w, f, n) = y % 2^n
<1> DEFINE g == [i \in 0 .. (n - 1) |-> Bit(w, f + i) * 2^i]
<1>1. \A i \in 0 .. (n - 1) : g[i] = BitOf(y, i) * 2^i
  BY DEF Bit
<1>2. DOMAIN g = 0 .. (n - 1) /\ Field(w, f, n) = SumFunctionOnSet(g, DOMAIN g)
  BY DEF Field, SumFunction
<1> HIDE DEF g
<1> QED
  BY <1>1, <1>2, SumOfBits

(* A power of two that the provers do not multiply out.                    *)
Exp(n) == 2^n

LEMMA ExpStep == Exp(0) = 1 /\ \A n \in Nat : Exp(n) \in Nat /\ Exp(n + 1) = 2 * Exp(n)
<1>1. Exp(0) = 1
  BY DEF Exp
<1> QED
  BY <1>1, Powers DEF Exp

LEMMA SmallPowers ==
  /\ Exp(0) = 1 /\ Exp(1) = 2 /\ Exp(3) = 8 /\ Exp(4) = 16 /\ Exp(5) = 32 /\ Exp(6) = 64
  /\ Exp(7) = 128 /\ Exp(8) = 256 /\ Exp(10) = 1024 /\ Exp(11) = 2048 /\ Exp(12) = 4096
  /\ Exp(13) = 8192 /\ Exp(19) = 524288 /\ Exp(20) = 1048576 /\ Exp(21) = 2097152
<1>1. Exp(1) = 2 /\ Exp(2) = 4 /\ Exp(3) = 8 /\ Exp(4) = 16 /\ Exp(5) = 32
  BY ExpStep, 1 = 0 + 1, 2 = 1 + 1, 3 = 2 + 1, 4 = 3 + 1, 5 = 4 + 1, SMT
<1>2. Exp(6) = 64 /\ Exp(7) = 128 /\ Exp(8) = 256 /\ Exp(9) = 512 /\ Exp(10) = 1024
  BY ExpStep, <1>1, 6 = 5 + 1, 7 = 6 + 1, 8 = 7 + 1, 9 = 8 + 1, 10 = 9 + 1, SMT
<1>3. /\ Exp(11) = 2048 /\ Exp(12) = 4096 /\ Exp(13) = 8192 /\ Exp(14) = 16384
      /\ Exp(15) = 32768
  BY ExpStep, <1>2, 11 = 10 + 1, 12 = 11 + 1, 13 = 12 + 1, 14 = 13 + 1, 15 = 14 + 1, SMT
<1>4. /\ Exp(16) = 65536 /\ Exp(17) = 131072 /\ Exp(18) = 262144 /\ Exp(19) = 524288
      /\ Exp(20) = 1048576 /\ Exp(21) = 2097152
  BY ExpStep, <1>3, 16 = 15 + 1, 17 = 16 + 1, 18 = 17 + 1, 19 = 18 + 1, 20 = 19 + 1,
     21 = 20 + 1, SMT
<1> QED
  BY ExpStep, <1>1, <1>2, <1>3, <1>4, SMT

-----------------------------------------------------------------------------
(* Every bit of a word is a bit of one field of its format.                *)
LEMMA Formats ==
  /\ DOMAIN Layout = {"R", "I", "E", "S", "B", "U", "J"}
  /\ Layout["R"] = {<<"funct7", 6, 0, 25>>, <<"rs2", 4, 0, 20>>, <<"rs1", 4, 0, 15>>,
                    <<"funct3", 2, 0, 12>>, <<"rd", 4, 0, 7>>, <<"opcode", 6, 0, 0>>}
  /\ Layout["I"] = {<<"imm", 11, 0, 20>>, <<"rs1", 4, 0, 15>>, <<"funct3", 2, 0, 12>>,
                    <<"rd", 4, 0, 7>>, <<"opcode", 6, 0, 0>>}
  /\ Layout["E"] = {<<"imm", 11, 0, 20>>, <<"rs1", 4, 0, 15>>, <<"funct3", 2, 0, 12>>,
                    <<"rd", 4, 0, 7>>, <<"opcode", 6, 0, 0>>}
  /\ Layout["S"] = {<<"imm", 11, 5, 25>>, <<"rs2", 4, 0, 20>>, <<"rs1", 4, 0, 15>>,
                    <<"funct3", 2, 0, 12>>, <<"imm", 4, 0, 7>>, <<"opcode", 6, 0, 0>>}
  /\ Layout["B"] = {<<"imm", 12, 12, 31>>, <<"imm", 10, 5, 25>>, <<"rs2", 4, 0, 20>>,
                    <<"rs1", 4, 0, 15>>, <<"funct3", 2, 0, 12>>, <<"imm", 4, 1, 8>>,
                    <<"imm", 11, 11, 7>>, <<"opcode", 6, 0, 0>>}
  /\ Layout["U"] = {<<"upper", 19, 0, 12>>, <<"rd", 4, 0, 7>>, <<"opcode", 6, 0, 0>>}
  /\ Layout["J"] = {<<"imm", 20, 20, 31>>, <<"imm", 10, 1, 21>>, <<"imm", 11, 11, 20>>,
                    <<"imm", 19, 12, 12>>, <<"rd", 4, 0, 7>>, <<"opcode", 6, 0, 0>>}
  BY SMT DEF Layout

(* The pieces of a format neither overlap nor leave a bit out.             *)
Tiles(pieces) ==
  /\ \A p \in pieces : /\ p[2] \in Nat /\ p[3] \in Nat /\ p[4] \in Nat
                        /\ p[3] <= p[2] /\ p[4] + (p[2] - p[3]) <= 31
  /\ \A p, q \in pieces : \A i \in WordBits : Holds(p, i) /\ Holds(q, i) => p = q
  /\ \A i \in WordBits : \E p \in pieces : Holds(p, i) /\ p[3] + (i - p[4]) \in Nat

LEMMA LayoutFacts == \A format \in DOMAIN Layout : Tiles(Layout[format])
<1>1. Tiles(Layout["R"])
  BY Formats, SMT DEF Tiles, Holds, WordBits
<1>2. Tiles(Layout["I"])
  BY Formats, SMT DEF Tiles, Holds, WordBits
<1>3. Tiles(Layout["E"])
  BY Formats, SMT DEF Tiles, Holds, WordBits
<1>4. Tiles(Layout["S"])
  BY Formats, SMT DEF Tiles, Holds, WordBits
<1>5. Tiles(Layout["B"])
  BY Formats, SMT DEF Tiles, Holds, WordBits
<1>6. Tiles(Layout["U"])
  BY Formats, SMT DEF Tiles, Holds, WordBits
<1>7. Tiles(Layout["J"])
  BY Formats, SMT DEF Tiles, Holds, WordBits
<1> QED
  BY <1>1, <1>2, <1>3, <1>4, <1>5, <1>6, <1>7, Formats

(* An encoding is a word.                                                  *)
LEMMA EncodeType ==
  ASSUME NEW format \in DOMAIN Layout, NEW value,
         \A p \in Layout[format] : value[p[1]] \in Int
  PROVE  Encode(format, value) \in Words
<1>1. ASSUME NEW i \in WordBits
      PROVE  LET p == CHOOSE q \in Layout[format] : Holds(q, i)
             IN  (value[p[1]] \div 2^(p[3] + (i - p[4]))) % 2 \in {0, 1}
  <2> DEFINE p == CHOOSE q \in Layout[format] : Holds(q, i)
  <2>1. p \in Layout[format] /\ Holds(p, i) /\ p[3] + (i - p[4]) \in Nat
    <3>1. PICK q \in Layout[format] : Holds(q, i) /\ q[3] + (i - q[4]) \in Nat
      BY LayoutFacts DEF Tiles
    <3>2. p = q
      BY <3>1, LayoutFacts DEF Tiles
    <3> QED
      BY <3>1, <3>2
  <2> HIDE DEF p
  <2>2. PICK k \in Nat : k = p[3] + (i - p[4])
    BY <2>1
  <2>3. BitOf(value[p[1]], k) \in {0, 1}
    BY <2>1, BitType
  <2> QED
    BY <2>2, <2>3 DEF BitOf, p
<1> QED
  BY <1>1 DEF Encode, Words

(* The bits low .. low + n - 1 of a field stand at from in a format.        *)
IsPiece(format, name, low, from, n) ==
  /\ format \in DOMAIN Layout
  /\ \E p \in Layout[format] : p[1] = name /\ p[2] = low + (n - 1) /\ p[3] = low /\ p[4] = from

(* A word encodes the values of a format, and one of them is x.            *)
Encodes(w, format, value) == w \in Words /\ w = Encode(format, value)

Gives(value, name, x) == x \in Int /\ value[name] = x

(* The run of bits where a piece is has the bits of the piece.             *)
LEMMA PieceField ==
  ASSUME NEW format, NEW value, NEW w, Encodes(w, format, value),
         NEW name, NEW low \in Nat, NEW from \in Nat, NEW n \in Nat,
         IsPiece(format, name, low, from, n),
         NEW x \in Int, Gives(value, name, x)
  PROVE  Field(w, from, n) = (x \div Exp(low)) % Exp(n)
<1> PICK p \in Layout[format] : p[1] = name /\ p[2] = low + (n - 1) /\ p[3] = low /\ p[4] = from
  BY DEF IsPiece
<1>3. x \in Int /\ x = value[name]
  BY DEF Gives
<1>1. n >= 1 /\ from + (n - 1) <= 31 /\ format \in DOMAIN Layout
  BY LayoutFacts DEF Tiles, IsPiece
<1>2. w \in Words /\ w = Encode(format, value)
  BY DEF Encodes
<1>4. PICK y \in Int : y = x \div 2^low
  <2>1. PICK m \in Nat \ {0} : m = 2^low
    BY Powers
  <2>2. x \div m \in Int
    BY <1>3, IntDivMod
  <2> QED
    BY <2>1, <2>2
<1>5. ASSUME NEW i \in 0 .. (n - 1) PROVE w[from + i] = BitOf(y, i)
  <2>1. PICK j \in WordBits : j = from + i /\ j - from = i
    BY <1>1 DEF WordBits
  <2>2. Holds(p, j)
    BY <1>1, <2>1 DEF Holds
  <2>3. p = CHOOSE q \in Layout[format] : Holds(q, j)
    BY <1>1, <2>1, <2>2, LayoutFacts DEF Tiles
  <2>4. Encode(format, value)[j] = (value[p[1]] \div 2^(p[3] + (j - p[4]))) % 2
    BY <2>1, <2>3, Zenon DEF Encode
  <2>5. w[j] = BitOf(x, low + i)
    BY <1>2, <1>3, <2>1, <2>4 DEF BitOf
  <2>6. low + i = i + low /\ i \in Nat
    OBVIOUS
  <2> QED
    BY <1>3, <1>4, <2>1, <2>5, <2>6, BitShiftedRight
<1>6. from + n <= 32
  BY <1>1
<1> QED
  BY <1>2, <1>4, <1>5, <1>6, FieldIs DEF Exp

(* A field that is whole in its format.                                    *)
LEMMA WholeField ==
  ASSUME NEW format, NEW value, NEW w, Encodes(w, format, value),
         NEW name, NEW from \in Nat, NEW n \in Nat, IsPiece(format, name, 0, from, n),
         NEW x \in Int, Gives(value, name, x)
  PROVE  Field(w, from, n) = x % Exp(n)
<1>1. Field(w, from, n) = (x \div Exp(0)) % Exp(n)
  BY PieceField
<1>2. x \div 1 = x
  BY SMT
<1> QED
  BY <1>1, <1>2, SmallPowers, SMT

-----------------------------------------------------------------------------
(* Where the fields of each format are.                                    *)
LEMMA Pieces_R ==
  /\ IsPiece("R", "opcode", 0, 0, 7) /\ IsPiece("R", "rd", 0, 7, 5)
  /\ IsPiece("R", "funct3", 0, 12, 3)
  /\ IsPiece("R", "rs1", 0, 15, 5) /\ IsPiece("R", "rs2", 0, 20, 5)
  /\ IsPiece("R", "funct7", 0, 25, 7)
  BY Formats, SMT DEF IsPiece

LEMMA Pieces_I ==
  /\ IsPiece("I", "opcode", 0, 0, 7) /\ IsPiece("I", "rd", 0, 7, 5)
  /\ IsPiece("I", "funct3", 0, 12, 3)
  /\ IsPiece("I", "rs1", 0, 15, 5) /\ IsPiece("I", "imm", 0, 20, 12)
  BY Formats, SMT DEF IsPiece

LEMMA Pieces_E ==
  /\ IsPiece("E", "opcode", 0, 0, 7) /\ IsPiece("E", "rd", 0, 7, 5)
  /\ IsPiece("E", "funct3", 0, 12, 3)
  /\ IsPiece("E", "rs1", 0, 15, 5) /\ IsPiece("E", "imm", 0, 20, 12)
  BY Formats, SMT DEF IsPiece

LEMMA Pieces_S ==
  /\ IsPiece("S", "opcode", 0, 0, 7) /\ IsPiece("S", "funct3", 0, 12, 3)
  /\ IsPiece("S", "rs1", 0, 15, 5)
  /\ IsPiece("S", "rs2", 0, 20, 5) /\ IsPiece("S", "imm", 0, 7, 5)
  /\ IsPiece("S", "imm", 5, 25, 7)
  BY Formats, SMT DEF IsPiece

LEMMA Pieces_B ==
  /\ IsPiece("B", "opcode", 0, 0, 7) /\ IsPiece("B", "funct3", 0, 12, 3)
  /\ IsPiece("B", "rs1", 0, 15, 5)
  /\ IsPiece("B", "rs2", 0, 20, 5) /\ IsPiece("B", "imm", 1, 8, 4)
  /\ IsPiece("B", "imm", 5, 25, 6)
  /\ IsPiece("B", "imm", 11, 7, 1) /\ IsPiece("B", "imm", 12, 31, 1)
  BY Formats, SMT DEF IsPiece

LEMMA Pieces_U ==
  /\ IsPiece("U", "opcode", 0, 0, 7) /\ IsPiece("U", "rd", 0, 7, 5)
  /\ IsPiece("U", "upper", 0, 12, 20)
  BY Formats, SMT DEF IsPiece

LEMMA Pieces_J ==
  /\ IsPiece("J", "opcode", 0, 0, 7) /\ IsPiece("J", "rd", 0, 7, 5)
  /\ IsPiece("J", "imm", 1, 21, 10) /\ IsPiece("J", "imm", 11, 20, 1)
  /\ IsPiece("J", "imm", 12, 12, 8) /\ IsPiece("J", "imm", 20, 31, 1)
  BY Formats, SMT DEF IsPiece

(* sext() undoes taking a number modulo a power of two.                   *)
LEMMA SignExtension ==
  ASSUME NEW x \in Int
  PROVE  /\ -2048 <= x /\ x < 2048 => sext(x % 4096, 12) = x
         /\ -4096 <= x /\ x < 4096 => sext(x % 8192, 13) = x
         /\ -524288 <= x /\ x < 524288 => sext(x % 1048576, 20) = x
         /\ -1048576 <= x /\ x < 1048576 => sext(x % 2097152, 21) = x
<1>1. /\ 2^(12 - 1) = 2048 /\ 2^12 = 4096 /\ 2^(13 - 1) = 4096 /\ 2^13 = 8192
      /\ 2^(20 - 1) = 524288 /\ 2^20 = 1048576 /\ 2^(21 - 1) = 1048576 /\ 2^21 = 2097152
  BY SmallPowers, SMT DEF Exp
<1>2. -2048 <= x /\ x < 2048 => sext(x % 4096, 12) = x
  BY <1>1, SMT DEF sext
<1>3. -4096 <= x /\ x < 4096 => sext(x % 8192, 13) = x
  BY <1>1, SMT DEF sext
<1>4. -524288 <= x /\ x < 524288 => sext(x % 1048576, 20) = x
  BY <1>1, SMT DEF sext
<1>5. -1048576 <= x /\ x < 1048576 => sext(x % 2097152, 21) = x
  BY <1>1, SMT DEF sext
<1> QED
  BY <1>2, <1>3, <1>4, <1>5, SMT

Even(x) == x % 2 = 0

(* An immediate put together from the pieces it is cut into.               *)
PartsS(x) == (x % 32) + ((x \div 32) % 128) * 32

PartsB(x) == ((x \div 2) % 16) * 2 + ((x \div 32) % 64) * 32
               + ((x \div 2048) % 2) * 2048 + ((x \div 4096) % 2) * 4096

PartsJ(x) == ((x \div 2) % 1024) * 2 + ((x \div 2048) % 2) * 2048
               + ((x \div 4096) % 256) * 4096 + ((x \div 1048576) % 2) * 1048576

(* Division as one fact, which the provers instantiate.                    *)
Split(y, m, q, r) == y = m * q + r /\ 0 <= r /\ r < m

LEMMA Quotient ==
  ASSUME NEW y \in Int, NEW m \in Nat \ {0}
  PROVE  \E q, r \in Int : Split(y, m, q, r)
<1>1. /\ y = m * (y \div m) + (y % m) /\ y \div m \in Int /\ y % m \in Int
      /\ 0 <= y % m /\ y % m < m
  BY SMT
<1> QED
  BY <1>1 DEF Split

LEMMA ImmediatePieces ==
  ASSUME NEW x \in Int
  PROVE  /\ PartsS(x) = x % 4096
         /\ Even(x) => PartsB(x) = x % 8192 /\ PartsJ(x) = x % 2097152
<1>1. PartsS(x) = x % 4096
  BY SMT DEF PartsS
<1>2. ASSUME Even(x) PROVE PartsB(x) = x % 8192
  <2>1. PICK a \in Int : x = 2 * a
    BY <1>2, SMT DEF Even
  <2>2. PICK b, r \in Int : Split(a, 16, b, r)
    BY Quotient, SMT
  <2>3. PICK d, s \in Int : Split(b, 64, d, s)
    BY Quotient, SMT
  <2>4. PICK e, t \in Int : Split(d, 2, e, t)
    BY Quotient, SMT
  <2>5. PICK f, u \in Int : Split(e, 2, f, u)
    BY Quotient, SMT
  <2>6. (x \div 2) % 16 = r
    BY <2>1, <2>2, SMT DEF Split
  <2>7. (x \div 32) % 64 = s
    BY <2>1, <2>2, <2>3, SMT DEF Split
  <2>8. (x \div 2048) % 2 = t
    BY <2>1, <2>2, <2>3, <2>4, SMT DEF Split
  <2>9. (x \div 4096) % 2 = u
    BY <2>1, <2>2, <2>3, <2>4, <2>5, SMT DEF Split
  <2>10. x % 8192 = r * 2 + s * 32 + t * 2048 + u * 4096
    BY <2>1, <2>2, <2>3, <2>4, <2>5, SMT DEF Split
  <2> QED
    BY <2>6, <2>7, <2>8, <2>9, <2>10, SMT DEF PartsB
<1>3. ASSUME Even(x) PROVE PartsJ(x) = x % 2097152
  <2>1. PICK a \in Int : x = 2 * a
    BY <1>3, SMT DEF Even
  <2>2. PICK b, r \in Int : Split(a, 1024, b, r)
    BY Quotient, SMT
  <2>3. PICK d, s \in Int : Split(b, 2, d, s)
    BY Quotient, SMT
  <2>4. PICK e, t \in Int : Split(d, 256, e, t)
    BY Quotient, SMT
  <2>5. PICK f, u \in Int : Split(e, 2, f, u)
    BY Quotient, SMT
  <2>6. (x \div 2) % 1024 = r
    BY <2>1, <2>2, SMT DEF Split
  <2>7. (x \div 2048) % 2 = s
    BY <2>1, <2>2, <2>3, SMT DEF Split
  <2>8. (x \div 4096) % 256 = t
    BY <2>1, <2>2, <2>3, <2>4, SMT DEF Split
  <2>9. (x \div 1048576) % 2 = u
    BY <2>1, <2>2, <2>3, <2>4, <2>5, SMT DEF Split
  <2>10. x % 2097152 = r * 2 + s * 2048 + t * 4096 + u * 1048576
    BY <2>1, <2>2, <2>3, <2>4, <2>5, SMT DEF Split
  <2> QED
    BY <2>6, <2>7, <2>8, <2>9, <2>10, SMT DEF PartsJ
<1> QED
  BY <1>1, <1>2, <1>3, SMT

LEMMA Shifts == 2^5 = 32 /\ 2^11 = 2048 /\ 2^12 = 4096 /\ 2^20 = 1048576
  BY SmallPowers, SMT DEF Exp

(* Each immediate of the source on the encodings of its format.            *)
LEMMA ImmediateOfB ==
  ASSUME NEW w, NEW value, Encodes(w, "B", value), NEW x \in Int, Gives(value, "imm", x),
         Even(x), -4096 <= x, x < 4096
  PROVE  imm_b(w) = x
<1>1. /\ Field(w, 8, 4) = (x \div Exp(1)) % Exp(4)
      /\ Field(w, 25, 6) = (x \div Exp(5)) % Exp(6)
      /\ Field(w, 7, 1) = (x \div Exp(11)) % Exp(1)
      /\ Field(w, 31, 1) = (x \div Exp(12)) % Exp(1)
  BY Pieces_B, PieceField, SMT
<1>2. /\ Field(w, 8, 4) = (x \div 2) % 16 /\ Field(w, 25, 6) = (x \div 32) % 64
      /\ Field(w, 7, 1) = (x \div 2048) % 2 /\ Field(w, 31, 1) = (x \div 4096) % 2
  BY <1>1, SmallPowers, SMT
<1>3. imm_b(w) = sext(PartsB(x), 13)
  BY <1>2, Shifts, SMT DEF imm_b, PartsB
<1>4. PartsB(x) = x % 8192
  BY ImmediatePieces, SMT
<1>5. sext(x % 8192, 13) = x
  BY SignExtension, SMT
<1> QED
  BY <1>3, <1>4, <1>5, SMT

LEMMA ImmediateOfJ ==
  ASSUME NEW w, NEW value, Encodes(w, "J", value), NEW x \in Int, Gives(value, "imm", x),
         Even(x), -1048576 <= x, x < 1048576
  PROVE  imm_j(w) = x
<1>1. /\ Field(w, 21, 10) = (x \div Exp(1)) % Exp(10)
      /\ Field(w, 20, 1) = (x \div Exp(11)) % Exp(1)
      /\ Field(w, 12, 8) = (x \div Exp(12)) % Exp(8)
      /\ Field(w, 31, 1) = (x \div Exp(20)) % Exp(1)
  BY Pieces_J, PieceField, SMT
<1>2. /\ Field(w, 21, 10) = (x \div 2) % 1024 /\ Field(w, 20, 1) = (x \div 2048) % 2
      /\ Field(w, 12, 8) = (x \div 4096) % 256 /\ Field(w, 31, 1) = (x \div 1048576) % 2
  BY <1>1, SmallPowers, SMT
<1>3. imm_j(w) = sext(PartsJ(x), 21)
  BY <1>2, Shifts, SMT DEF imm_j, PartsJ
<1>4. PartsJ(x) = x % 2097152
  BY ImmediatePieces, SMT
<1>5. sext(x % 2097152, 21) = x
  BY SignExtension, SMT
<1> QED
  BY <1>3, <1>4, <1>5, SMT

LEMMA ImmediateOfS ==
  ASSUME NEW w, NEW value, Encodes(w, "S", value), NEW x \in Int, Gives(value, "imm", x),
         -2048 <= x, x < 2048
  PROVE  imm_s(w) = x
<1>1. /\ Field(w, 7, 5) = (x \div Exp(0)) % Exp(5)
      /\ Field(w, 25, 7) = (x \div Exp(5)) % Exp(7)
  BY Pieces_S, PieceField, SMT
<1>2. Field(w, 7, 5) = x % 32 /\ Field(w, 25, 7) = (x \div 32) % 128
  BY <1>1, SmallPowers, SMT
<1>3. imm_s(w) = sext(PartsS(x), 12)
  BY <1>2, Shifts, SMT DEF imm_s, PartsS
<1> QED
  BY <1>3, ImmediatePieces, SignExtension, SMT

LEMMA ImmediateOfU ==
  ASSUME NEW w, NEW value, Encodes(w, "U", value), NEW x \in Int, Gives(value, "upper", x),
         -524288 <= x, x < 524288
  PROVE  imm_u(w) = x * 4096
<1>1. Field(w, 12, 20) = x % 1048576
  BY Pieces_U, WholeField, SmallPowers, SMT
<1>2. sext(x % 1048576, 20) = x
  BY SignExtension, SMT
<1> QED
  BY <1>1, <1>2, SMT DEF imm_u

LEMMA ImmediateOfI ==
  ASSUME NEW w, NEW format, format \in {"I", "E"}, NEW value, Encodes(w, format, value),
         NEW x \in Int, Gives(value, "imm", x), -2048 <= x, x < 2048
  PROVE  imm_i(w) = x /\ Field(w, 20, 12) = x % 4096
<1>1. IsPiece(format, "imm", 0, 20, 12)
  BY Pieces_I, Pieces_E, SMT
<1>2. Field(w, 20, 12) = x % 4096
  BY <1>1, WholeField, SmallPowers, SMT
<1> QED
  BY <1>2, SignExtension, SMT DEF imm_i

-----------------------------------------------------------------------------
(* The instructions of the manual, and what it says of each.               *)
Names == DOMAIN Manual

LEMMA NamesOfManual ==
  Names = {"lui", "auipc", "jal", "jalr", "beq", "bne", "blt", "bge", "bltu", "bgeu",
           "lb", "lh", "lw", "lbu", "lhu", "sb", "sh", "sw",
           "addi", "slti", "sltiu", "xori", "ori", "andi", "slli", "srli", "srai",
           "add", "sub", "sll", "slt", "sltu", "xor", "srl", "sra", "or", "and",
           "mul", "div", "divu", "rem", "remu", "ecall"}
  BY SMT DEF Names, Manual

LEMMA ManualType ==
  \A n \in Names : /\ Manual[n][1] \in DOMAIN Layout
                   /\ Manual[n][2] \in Nat /\ Manual[n][2] < 128
                   /\ Manual[n][3] \in Nat /\ Manual[n][3] < 8
                   /\ Manual[n][4] \in Nat /\ Manual[n][4] < 128
<1>1. \A n \in Names : Manual[n][1] \in {"R", "I", "E", "S", "B", "U", "J"}
  BY NamesOfManual, SMT DEF Manual
<1>2. \A n \in Names : Manual[n][2] \in Nat /\ Manual[n][2] < 128
  BY NamesOfManual, SMT DEF Manual
<1>3. \A n \in Names : Manual[n][3] \in Nat /\ Manual[n][3] < 8
  BY NamesOfManual, SMT DEF Manual
<1>4. \A n \in Names : Manual[n][4] \in Nat /\ Manual[n][4] < 128
  BY NamesOfManual, SMT DEF Manual
<1> QED
  BY <1>1, <1>2, <1>3, <1>4, Formats, SMT

(* The opcode, name and operands in each format: the inner switches of     *)
(* disassemble() have the very names.                                      *)
LEMMA ManualUpper ==
  \A n \in Names :
    Manual[n][1] = "U" => /\ \/ Manual[n][2] = LUI /\ n = "lui"
                             \/ Manual[n][2] = AUIPC /\ n = "auipc"
                          /\ Manual[n][5] = <<"rd", "upper">>
  BY NamesOfManual, SMT DEF Manual, LUI, AUIPC

LEMMA ManualJump ==
  \A n \in Names :
    Manual[n][1] = "J" => Manual[n][2] = JAL /\ n = "jal" /\ Manual[n][5] = <<"rd", "to">>
  BY NamesOfManual, SMT DEF Manual, JAL

LEMMA ManualBranch ==
  \A n \in Names :
    Manual[n][1] = "B" => /\ Manual[n][2] = BRANCH /\ BranchName[Manual[n][3] + 1] = n
                          /\ Manual[n][5] = <<"rs1", "rs2", "to">>
  BY NamesOfManual, SMT DEF Manual, BRANCH, BranchName

LEMMA ManualStore ==
  \A n \in Names :
    Manual[n][1] = "S" => /\ Manual[n][2] = STORE /\ StoreName[Manual[n][3] + 1] = n
                          /\ Manual[n][5] = <<"rs2", "imm", "rs1">>
  BY NamesOfManual, SMT DEF Manual, STORE, StoreName

LEMMA ManualEcall ==
  \A n \in Names : Manual[n][1] = "E" => /\ Manual[n][2] = SYSTEM /\ Manual[n][3] = 0
                                          /\ n = "ecall" /\ Manual[n][5] = <<>>
  BY NamesOfManual, SMT DEF Manual, SYSTEM

LEMMA ManualImmediate ==
  \A n \in Names : Manual[n][1] = "I" =>
    \/ Manual[n][2] = JALR /\ n = "jalr" /\ Manual[n][5] = <<"rd", "imm", "rs1">>
    \/ /\ Manual[n][2] = LOAD /\ LoadName[Manual[n][3] + 1] = n
       /\ Manual[n][5] = <<"rd", "imm", "rs1">>
    \/ /\ Manual[n][2] = OP_IMM /\ Manual[n][3] \notin {1, 5}
       /\ OpImmName[Manual[n][3] + 1] = n
       /\ Manual[n][5] = <<"rd", "rs1", "imm">>
  BY NamesOfManual, SMT DEF Manual, JALR, LOAD, OP_IMM, LoadName, OpImmName

LEMMA ManualRegister ==
  \A n \in Names : Manual[n][1] = "R" =>
    \/ /\ Manual[n][2] = OP /\ OpName(Manual[n][4])[Manual[n][3] + 1] = n
       /\ Manual[n][5] = <<"rd", "rs1", "rs2">>
    \/ /\ Manual[n][2] = OP_IMM
       /\ \/ Manual[n][3] = 1 /\ n = "slli"
          \/ Manual[n][3] = 5 /\ Manual[n][4] = 0 /\ n = "srli"
          \/ Manual[n][3] = 5 /\ Manual[n][4] = 32 /\ n = "srai"
       /\ Manual[n][5] = <<"rd", "rs1", "shamt">>
  BY NamesOfManual, SMT DEF Manual, OP, OP_IMM, OpName

(* reg_name() is the calling convention.                                   *)
LEMMA RegisterNames == \A r \in Nat : r < 32 => <<reg_name(r), r>> \in ABI
<1>1. \A r \in 0 .. 31 : <<reg_name(r), r>> \in ABI
  BY SMT DEF reg_name, RegNames, ABI, ToSet, Zip
<1> QED
  BY <1>1, SMT

(* A symbol that is found stands where it was looked for and is not local. *)
LEMMA SymbolFound ==
  ASSUME NEW a \in Int
  PROVE  symbols_value_to_sym(Symbols, a) \in NamesOf(a)
<1> DEFINE I == {i \in 1 .. Len(Symbols) :
                   Symbols[i].st_value = a /\ ELF32_ST_BIND(Symbols[i].st_info) # 0}
           there == {i \in DOMAIN Symbols : /\ Symbols[i].st_value = a
                                             /\ ELF32_ST_BIND(Symbols[i].st_info) # 0}
<1>1. I = there /\ I \subseteq Nat
  BY WordsAssumption, LenProperties
<1>2. CASE I = {}
  BY <1>1, <1>2 DEF symbols_value_to_sym, SelectInSeq, NamesOf
<1>3. CASE I # {}
  <2>1. \E x \in I : \A y \in I : x <= y
    <3> HIDE DEF I
    <3> QED
      BY <1>1, <1>3, LeastOfSet
  <2>2. Min(I) \in I
    <3> HIDE DEF I
    <3> QED
      BY <2>1 DEF Min
  <2>3. Min(I) # 0
    BY <2>2
  <2>4. symbols_value_to_sym(Symbols, a) = Symbols[Min(I)].st_name
    BY <1>3, <2>3 DEF symbols_value_to_sym, SelectInSeq
  <2>5. NamesOf(a) = {Symbols[i].st_name : i \in there}
    BY <1>1, <1>3 DEF NamesOf
  <2> HIDE DEF I, there
  <2> QED
    BY <1>1, <2>2, <2>4, <2>5
<1> QED
  BY <1>2, <1>3

-----------------------------------------------------------------------------
(* The fields of an instruction, which its word is the encoding of.        *)
LEMMA InstructionType ==
  ASSUME NEW i \in Instructions
  PROVE  /\ i.name \in Names /\ i.imm \in Int
         /\ i.rd \in Nat /\ i.rd < 32 /\ i.rs1 \in Nat /\ i.rs1 < 32
         /\ i.rs2 \in Nat /\ i.rs2 < 32
<1>1. \A r \in Registers : r \in Nat /\ r < 32
  BY WordsAssumption, SMT
<1>2. /\ i.name \in DOMAIN Manual /\ i.imm \in Immediates
      /\ i.rd \in Registers /\ i.rs1 \in Registers /\ i.rs2 \in Registers
  BY DEF Instructions
<1> QED
  BY <1>1, <1>2, WordsAssumption DEF Names

LEMMA ValuesGive ==
  ASSUME NEW i \in Instructions
  PROVE  /\ Gives(Values(i), "opcode", Manual[i.name][2])
         /\ Gives(Values(i), "funct3", Manual[i.name][3])
         /\ Gives(Values(i), "funct7", Manual[i.name][4]) /\ Gives(Values(i), "rd", i.rd)
         /\ Gives(Values(i), "rs1", i.rs1) /\ Gives(Values(i), "rs2", i.rs2)
         /\ Gives(Values(i), "imm", i.imm) /\ Gives(Values(i), "upper", i.imm \div 4096)
<1>1. i.imm \div 4096 \in Int
  BY InstructionType, SMT
<1>2. Manual[i.name][2] \in Int /\ Manual[i.name][3] \in Int /\ Manual[i.name][4] \in Int
  BY InstructionType, ManualType
<1> QED
  BY <1>1, <1>2, InstructionType DEF Values, Gives

(* The fields of the formats that a word is decoded by.                    *)
LEMMA PieceNames ==
  \A format \in DOMAIN Layout : \A p \in Layout[format] :
    p[1] \in {"opcode", "funct3", "funct7", "rd", "rs1", "rs2", "imm", "upper"}
  BY Formats, SMT

Word(i) == Encode(Manual[i.name][1], Values(i))

LEMMA WordType ==
  ASSUME NEW i \in Instructions
  PROVE  Encodes(Word(i), Manual[i.name][1], Values(i))
<1>1. PICK format \in DOMAIN Layout : format = Manual[i.name][1]
  BY InstructionType, ManualType
<1>2. PICK value : value = Values(i)
  OBVIOUS
<1>3. \A p \in Layout[format] : value[p[1]] \in Int
  <2> TAKE p \in Layout[format]
  <2>1. p[1] \in {"opcode", "funct3", "funct7", "rd", "rs1", "rs2", "imm", "upper"}
    BY PieceNames
  <2> QED
    BY <1>2, <2>1, ValuesGive DEF Gives
<1>4. Encode(format, value) \in Words
  BY <1>3, EncodeType
<1> QED
  BY <1>1, <1>2, <1>4 DEF Word, Encodes

LEMMA PlainPieces ==
  \A f \in DOMAIN Layout :
    /\ IsPiece(f, "opcode", 0, 0, 7)
    /\ f \notin {"S", "B"} => IsPiece(f, "rd", 0, 7, 5)
    /\ f \notin {"U", "J"} => IsPiece(f, "funct3", 0, 12, 3) /\ IsPiece(f, "rs1", 0, 15, 5)
    /\ f \in {"R", "S", "B"} => IsPiece(f, "rs2", 0, 20, 5)
    /\ f = "R" => IsPiece(f, "funct7", 0, 25, 7)
<1> TAKE f \in DOMAIN Layout
<1> QED
  BY Formats, Pieces_R, Pieces_I, Pieces_E, Pieces_S, Pieces_B, Pieces_U, Pieces_J, SMT

(* A field whose value fits is read back as it is.                         *)
LEMMA PlainField ==
  ASSUME NEW format, NEW value, NEW w, Encodes(w, format, value),
         NEW name, NEW from \in Nat, NEW n \in Nat, IsPiece(format, name, 0, from, n),
         NEW x \in Nat, Gives(value, name, x), x < Exp(n)
  PROVE  Field(w, from, n) = x
<1>1. Field(w, from, n) = x % Exp(n)
  BY WholeField
<1>2. PICK m \in Nat : m = Exp(n)
  BY ExpStep
<1>3. x % m = x
  BY <1>2, SMT
<1> QED
  BY <1>1, <1>2, <1>3

(* What is read of the word of an instruction.                             *)
Plain(i, w) ==
  LET m == Manual[i.name]
      f == m[1]
  IN  /\ Field(w, 0, 7) = m[2]
      /\ f \notin {"S", "B"} => Field(w, 7, 5) = i.rd
      /\ f \notin {"U", "J"} => Field(w, 12, 3) = m[3] /\ Field(w, 15, 5) = i.rs1
      /\ f \in {"R", "S", "B"} => Field(w, 20, 5) = i.rs2
      /\ f = "R" => Field(w, 25, 7) = m[4]

LEMMA PlainFields ==
  ASSUME NEW i \in Instructions
  PROVE  Plain(i, Word(i))
<1> DEFINE w == Word(i)
           v == Values(i)
           f == Manual[i.name][1]
<1>1. Encodes(w, f, v) /\ f \in DOMAIN Layout /\ i.name \in Names
  BY WordType, InstructionType, ManualType
<1>2. Exp(3) = 8 /\ Exp(5) = 32 /\ Exp(7) = 128
  BY SmallPowers, SMT
<1>3. /\ Manual[i.name][2] \in Nat /\ Manual[i.name][2] < Exp(7)
      /\ Manual[i.name][3] \in Nat /\ Manual[i.name][3] < Exp(3)
      /\ Manual[i.name][4] \in Nat /\ Manual[i.name][4] < Exp(7)
  BY <1>1, <1>2, ManualType, SMT
<1>4. /\ i.rd \in Nat /\ i.rd < Exp(5) /\ i.rs1 \in Nat /\ i.rs1 < Exp(5)
      /\ i.rs2 \in Nat /\ i.rs2 < Exp(5)
  BY <1>2, InstructionType, SMT
<1>5. /\ Gives(v, "opcode", Manual[i.name][2]) /\ Gives(v, "funct3", Manual[i.name][3])
      /\ Gives(v, "funct7", Manual[i.name][4]) /\ Gives(v, "rd", i.rd)
      /\ Gives(v, "rs1", i.rs1) /\ Gives(v, "rs2", i.rs2)
  BY ValuesGive
<1> HIDE DEF w, v, f
<1>6. Field(w, 0, 7) = Manual[i.name][2]
  BY <1>1, <1>3, <1>5, PlainPieces, PlainField, SMT
<1>7. f \notin {"S", "B"} => Field(w, 7, 5) = i.rd
  BY <1>1, <1>4, <1>5, PlainPieces, PlainField, SMT
<1>8. f \notin {"U", "J"} => Field(w, 12, 3) = Manual[i.name][3]
  BY <1>1, <1>3, <1>5, PlainPieces, PlainField, SMT
<1>9. f \notin {"U", "J"} => Field(w, 15, 5) = i.rs1
  BY <1>1, <1>4, <1>5, PlainPieces, PlainField, SMT
<1>10. f \in {"R", "S", "B"} => Field(w, 20, 5) = i.rs2
  BY <1>1, <1>4, <1>5, PlainPieces, PlainField, SMT
<1>11. f = "R" => Field(w, 25, 7) = Manual[i.name][4]
  BY <1>1, <1>3, <1>5, PlainPieces, PlainField, SMT
<1> QED
  BY <1>6, <1>7, <1>8, <1>9, <1>10, <1>11 DEF Plain, w, f

(* The immediates of each format.                                          *)
LEMMA FitsFacts ==
  ASSUME NEW x \in Int
  PROVE  /\ Fits("I", x) => -2048 <= x /\ x < 2048
         /\ Fits("S", x) => -2048 <= x /\ x < 2048
         /\ Fits("B", x) => -4096 <= x /\ x < 4096 /\ Even(x)
         /\ Fits("U", x) => -524288 <= x \div 4096 /\ x \div 4096 < 524288 /\ x % 4096 = 0
         /\ Fits("J", x) => -1048576 <= x /\ x < 1048576 /\ Even(x)
         /\ Fits("E", x) => x = 0
<1>1. ASSUME NEW k \in Nat, NEW y \in Int
      PROVE  y \in Signed(k + 1) => -Exp(k) <= y /\ y < Exp(k)
  <2>1. PICK m \in Nat : m = 2^k
    BY Powers
  <2>2. (k + 1) - 1 = k
    OBVIOUS
  <2> QED
    BY <2>1, <2>2 DEF Signed, Exp
<1>2. \A y \in Int : /\ y \in Signed(12) => -2048 <= y /\ y < 2048
                     /\ y \in Signed(13) => -4096 <= y /\ y < 4096
                     /\ y \in Signed(20) => -524288 <= y /\ y < 524288
                     /\ y \in Signed(21) => -1048576 <= y /\ y < 1048576
  BY <1>1, SmallPowers, 12 = 11 + 1, 13 = 12 + 1, 20 = 19 + 1, 21 = 20 + 1, SMT
<1>3. Fits("I", x) => -2048 <= x /\ x < 2048
  BY <1>2, SMT DEF Fits
<1>4. Fits("S", x) => -2048 <= x /\ x < 2048
  BY <1>2, SMT DEF Fits
<1>5. Fits("B", x) => -4096 <= x /\ x < 4096 /\ Even(x)
  BY <1>2, SMT DEF Fits, Even
<1>6. Fits("U", x) => -524288 <= x \div 4096 /\ x \div 4096 < 524288 /\ x % 4096 = 0
  BY <1>2, SMT DEF Fits
<1>7. Fits("J", x) => -1048576 <= x /\ x < 1048576 /\ Even(x)
  BY <1>2, SMT DEF Fits, Even
<1>8. Fits("E", x) => x = 0
  BY SMT DEF Fits
<1> QED
  BY <1>3, <1>4, <1>5, <1>6, <1>7, <1>8, SMT

(* Decode() on the word of an instruction.                                 *)
Means(i, d) ==
  LET m == Manual[i.name]
      f == m[1]
  IN  /\ d.opcode = m[2]
      /\ f \notin {"S", "B"} => d.rd = i.rd
      /\ f \notin {"U", "J"} => d.funct3 = m[3] /\ d.rs1 = i.rs1
      /\ f \in {"R", "S", "B"} => d.rs2 = i.rs2 /\ d.shamt = i.rs2
      /\ f = "R" => d.funct7 = m[4]
      /\ f # "R" => d.imm = i.imm
      /\ f = "E" => d.funct12 = 0

(* The immediate that the opcode asks for is that of the format.           *)
LEMMA Immediate ==
  ASSUME NEW i \in Instructions, Fits(Manual[i.name][1], i.imm), Manual[i.name][1] # "R"
  PROVE  imm(Word(i), Manual[i.name][2]) = i.imm
<1> DEFINE n == i.name
           f == Manual[i.name][1]
           w == Word(i)
           x == i.imm
<1>1. /\ Encodes(w, f, Values(i)) /\ f \in DOMAIN Layout /\ n \in Names
      /\ x \in Int /\ Gives(Values(i), "imm", x)
  BY WordType, InstructionType, ManualType, ValuesGive
<1>2. PICK v : v = Values(i)
  OBVIOUS
<1>3. Fits(f, x) /\ f # "R"
  OBVIOUS
<1>4. Gives(v, "upper", x \div 4096)
  BY <1>2, ValuesGive
<1> HIDE DEF n, f, w, x
<1>5. CASE f = "U"
  <2>1. PICK u \in Int : u = x \div 4096 /\ x = u * 4096
    <3>1. x \div 4096 \in Int /\ x = (x \div 4096) * 4096
      BY <1>1, <1>3, <1>5, FitsFacts, SMT
    <3> QED
      BY <3>1, SMT
  <2>2. imm_u(w) = u * 4096
    BY <1>1, <1>2, <1>3, <1>4, <1>5, <2>1, FitsFacts, ImmediateOfU, SMT
  <2>3. Manual[n][2] \in {LUI, AUIPC}
    BY <1>1, <1>5, ManualUpper DEF f, n
  <2> QED
    BY <2>1, <2>2, <2>3, SMT DEF imm, n, w, x
<1>6. CASE f = "J"
  <2>1. imm_j(w) = x
    BY <1>1, <1>2, <1>3, <1>6, FitsFacts, ImmediateOfJ, SMT
  <2>2. Manual[n][2] = JAL
    BY <1>1, <1>6, ManualJump DEF f, n
  <2> QED
    BY <2>1, <2>2, SMT DEF imm, n, w, x, LUI, AUIPC, JAL
<1>7. CASE f = "B"
  <2>1. imm_b(w) = x
    BY <1>1, <1>2, <1>3, <1>7, FitsFacts, ImmediateOfB, SMT
  <2>2. Manual[n][2] = BRANCH
    BY <1>1, <1>7, ManualBranch DEF f, n
  <2> QED
    BY <2>1, <2>2, SMT DEF imm, n, w, x, LUI, AUIPC, JAL, BRANCH
<1>8. CASE f = "S"
  <2>1. imm_s(w) = x
    BY <1>1, <1>2, <1>3, <1>8, FitsFacts, ImmediateOfS, SMT
  <2>2. Manual[n][2] = STORE
    BY <1>1, <1>8, ManualStore DEF f, n
  <2> QED
    BY <2>1, <2>2, SMT DEF imm, n, w, x, LUI, AUIPC, JAL, BRANCH, STORE
<1>9. CASE f \in {"I", "E"}
  <2>1. imm_i(w) = x
    BY <1>1, <1>2, <1>3, <1>9, FitsFacts, ImmediateOfI, SMT
  <2>2. Manual[n][2] \notin {LUI, AUIPC, JAL, BRANCH, STORE}
    <3>1. Manual[n][2] \in {JALR, LOAD, OP_IMM, SYSTEM}
      BY <1>1, <1>9, ManualImmediate, ManualEcall DEF f, n
    <3> QED
      BY <3>1, SMT DEF LUI, AUIPC, JAL, BRANCH, STORE, JALR, LOAD, OP_IMM, SYSTEM
  <2> QED
    BY <2>1, <2>2, SMT DEF imm, n, w, x
<1> QED
  BY <1>1, <1>3, <1>5, <1>6, <1>7, <1>8, <1>9, Formats, SMT DEF n, w, x

(* Decode() inverts Encode().                                              *)
LEMMA Decoded ==
  ASSUME NEW i \in Instructions, Fits(Manual[i.name][1], i.imm)
  PROVE  Means(i, Decode(Word(i)))
<1>1. Plain(i, Word(i))
  BY PlainFields
<1>2. Manual[i.name][1] # "R" => imm(Word(i), Manual[i.name][2]) = i.imm
  BY Immediate
<1>3. Manual[i.name][1] = "E" => Field(Word(i), 20, 12) = 0
  <2> SUFFICES ASSUME Manual[i.name][1] = "E" PROVE Field(Word(i), 20, 12) = 0
    OBVIOUS
  <2>1. i.imm = 0
    BY FitsFacts, InstructionType
  <2>2. Encodes(Word(i), "E", Values(i)) /\ Gives(Values(i), "imm", 0)
    BY <2>1, WordType, ValuesGive
  <2>3. Field(Word(i), 20, 12) = 0 % 4096
    BY <2>2, ImmediateOfI, SMT
  <2> QED
    BY <2>3, SMT
<1> QED
  BY <1>1, <1>2, <1>3 DEF Plain, Decode, Means

-----------------------------------------------------------------------------
(* The line of each opcode.                                                *)
LEMMA LineOfOpcode ==
  ASSUME NEW a, NEW w, NEW d, d = Decode(w), NEW text, text = disassemble(a, w, Symbols)
  PROVE  LET rd  == reg_name(d.rd)
             rs1 == reg_name(d.rs1)
             rs2 == reg_name(d.rs2)
             to  == format_addr(Symbols, a + d.imm)
         IN  /\ d.opcode = LUI    => text = <<"lui", rd, d.imm \div 4096>>
             /\ d.opcode = AUIPC  => text = <<"auipc", rd, d.imm \div 4096>>
             /\ d.opcode = JAL    => text = <<"jal", rd, to>>
             /\ d.opcode = JALR   => text = <<"jalr", rd, d.imm, rs1>>
             /\ d.opcode = BRANCH => text = <<Named(BranchName, d.funct3), rs1, rs2, to>>
             /\ d.opcode = LOAD   => text = <<Named(LoadName, d.funct3), rd, d.imm, rs1>>
             /\ d.opcode = STORE  => text = <<Named(StoreName, d.funct3), rs2, d.imm, rs1>>
             /\ d.opcode = OP_IMM =>
                  /\ NoShift(d) => text = <<"unknown", w>>
                  /\ ~ NoShift(d) /\ d.funct3 \in {1, 5} =>
                       text = <<ShiftName(d), rd, rs1, d.shamt>>
                  /\ ~ NoShift(d) /\ d.funct3 \notin {1, 5} =>
                       text = <<Named(OpImmName, d.funct3), rd, rs1, d.imm>>
             /\ d.opcode = OP     => text = <<Named(OpName(d.funct7), d.funct3), rd, rs1, rs2>>
             /\ d.opcode = SYSTEM => text = SystemText(d, w)
             /\ d.opcode \notin Opcodes => text = <<"unknown", w>>
  BY SMT
     DEF disassemble, Opcodes, LUI, AUIPC, JAL, JALR, BRANCH, LOAD, STORE, OP_IMM, OP, SYSTEM

(* What a word without a name is listed as.                                *)
NoName == {"unknown", "system"}

(* The holes of the tables are the cases that simulate() lacks.            *)
LEMMA Holes ==
  \A f \in Nat : f < 8 => /\ BranchName[f + 1] \in NoName <=> f \notin BranchCases
                          /\ LoadName[f + 1] \in NoName <=> f \notin LoadCases
                          /\ StoreName[f + 1] \in NoName <=> f \notin StoreCases
                          /\ OpImmName[f + 1] \in NoName <=> f \in {1, 5}
<1>1. \A f \in 0 .. 7 : BranchName[f + 1] \in NoName <=> f \notin BranchCases
  BY SMT DEF BranchName, BranchCases, Hole, NoName
<1>2. \A f \in 0 .. 7 : LoadName[f + 1] \in NoName <=> f \notin LoadCases
  BY SMT DEF LoadName, LoadCases, Hole, NoName
<1>3. \A f \in 0 .. 7 : StoreName[f + 1] \in NoName <=> f \notin StoreCases
  BY SMT DEF StoreName, StoreCases, Hole, NoName
<1>4. \A f \in 0 .. 7 : OpImmName[f + 1] \in NoName <=> f \in {1, 5}
  BY SMT DEF OpImmName, Hole, NoName
<1> QED
  BY <1>1, <1>2, <1>3, <1>4, SMT

(* The same of the table that funct7 chooses.                              *)
LEMMA OpHoles ==
  \A f \in Nat, f7 \in Nat :
    f < 8 => (OpName(f7)[f + 1] \in NoName
                <=> ~ (f7 \in {0, 32} \/ (f7 = 1 /\ f \in MulDivCases)))
<1>1. \A f \in 0 .. 7 : /\ OpName(0)[f + 1] \notin NoName
                        /\ OpName(32)[f + 1] \notin NoName
                        /\ OpName(1)[f + 1] \in NoName <=> f \notin MulDivCases
  BY SMT DEF OpName, MulDivCases, Hole, NoName
<1>2. \A f7 \in Nat : f7 \notin {0, 1, 32} =>
        OpName(f7) = << Hole, Hole, Hole, Hole, Hole, Hole, Hole, Hole >>
  BY SMT DEF OpName
<1>3. \A f \in 0 .. 7 : << Hole, Hole, Hole, Hole, Hole, Hole, Hole, Hole >>[f + 1] \in NoName
  BY SMT DEF Hole, NoName
<1> QED
  BY <1>1, <1>2, <1>3, SMT

(* funct3 and funct7 of a word are in the tables.                          *)
LEMMA DecodeType ==
  ASSUME NEW w \in Words
  PROVE  LET d == Decode(w)
         IN  d.funct3 \in Nat /\ d.funct3 < 8 /\ d.funct7 \in Nat /\ d.funct7 < 128
<1>1. Field(w, 12, 3) \in 0 .. (Exp(3) - 1) /\ Field(w, 25, 7) \in 0 .. (Exp(7) - 1)
  <2>1. 12 + 3 <= 32 /\ 25 + 7 <= 32
    BY SMT
  <2>2. \A f, n \in Nat : f + n <= 32 => Field(w, f, n) \in 0 .. (Exp(n) - 1)
    BY FieldType DEF Exp
  <2> QED
    BY <2>1, <2>2, SMT
<1>2. /\ Field(w, 12, 3) \in Nat /\ Field(w, 12, 3) < 8
      /\ Field(w, 25, 7) \in Nat /\ Field(w, 25, 7) < 128
  BY <1>1, SmallPowers, SMT
<1> QED
  BY <1>2 DEF Decode

(* The two switches accept the same words.                                 *)
LEMMA SameWordsKnown ==
  ASSUME NEW a, NEW w \in Words
  PROVE  disassemble(a, w, Symbols)[1] \in NoName <=> ~ Known(Decode(w))
<1> PICK d : d = Decode(w)
  OBVIOUS
<1> PICK text : text = disassemble(a, w, Symbols)
  OBVIOUS
<1>1. d.funct3 \in Nat /\ d.funct3 < 8 /\ d.funct7 \in Nat /\ d.funct7 < 128
  BY DecodeType
<1>2. CASE d.opcode \in {LUI, AUIPC, JAL, JALR}
  <2>1. text[1] \in {"lui", "auipc", "jal", "jalr"}
    BY <1>2, LineOfOpcode
  <2>2. Known(d)
    BY <1>2, SMT
       DEF Known, Opcodes, LUI, AUIPC, JAL, JALR, BRANCH, LOAD, STORE, OP_IMM, OP, SYSTEM
  <2> QED
    BY <2>1, <2>2 DEF NoName
<1>3. CASE d.opcode = BRANCH
  <2>1. text[1] = BranchName[d.funct3 + 1]
    BY <1>3, LineOfOpcode DEF Named
  <2>2. Known(d) <=> d.funct3 \in BranchCases
    BY <1>3, SMT
       DEF Known, Opcodes, LUI, AUIPC, JAL, JALR, BRANCH, LOAD, STORE, OP_IMM, OP, SYSTEM
  <2> QED
    BY <1>1, <2>1, <2>2, Holes
<1>4. CASE d.opcode = LOAD
  <2>1. text[1] = LoadName[d.funct3 + 1]
    BY <1>4, LineOfOpcode DEF Named
  <2>2. Known(d) <=> d.funct3 \in LoadCases
    BY <1>4, SMT
       DEF Known, Opcodes, LUI, AUIPC, JAL, JALR, BRANCH, LOAD, STORE, OP_IMM, OP, SYSTEM
  <2> QED
    BY <1>1, <2>1, <2>2, Holes
<1>5. CASE d.opcode = STORE
  <2>1. text[1] = StoreName[d.funct3 + 1]
    BY <1>5, LineOfOpcode DEF Named
  <2>2. Known(d) <=> d.funct3 \in StoreCases
    BY <1>5, SMT
       DEF Known, Opcodes, LUI, AUIPC, JAL, JALR, BRANCH, LOAD, STORE, OP_IMM, OP, SYSTEM
  <2> QED
    BY <1>1, <2>1, <2>2, Holes
<1>6. CASE d.opcode = OP_IMM
  <2>1. Known(d) <=> ~ NoShift(d)
    BY <1>6, SMT
       DEF Known, NoShift, Opcodes, LUI, AUIPC, JAL, JALR, BRANCH, LOAD, STORE, OP_IMM, OP, SYSTEM
  <2>2. CASE NoShift(d)
    BY <1>6, <2>1, <2>2, LineOfOpcode DEF NoName
  <2>3. CASE ~ NoShift(d) /\ d.funct3 \in {1, 5}
    <3>1. text[1] \in {"slli", "srli", "srai"}
      BY <1>6, <2>3, LineOfOpcode DEF ShiftName
    <3> QED
      BY <2>1, <2>3, <3>1 DEF NoName
  <2>4. CASE ~ NoShift(d) /\ d.funct3 \notin {1, 5}
    <3>1. text[1] = OpImmName[d.funct3 + 1]
      BY <1>6, <2>4, LineOfOpcode DEF Named
    <3> QED
      BY <1>1, <2>1, <2>4, <3>1, Holes
  <2> QED
    BY <2>2, <2>3, <2>4
<1>7. CASE d.opcode = OP
  <2>1. text[1] = OpName(d.funct7)[d.funct3 + 1]
    BY <1>7, LineOfOpcode DEF Named
  <2>2. Known(d) <=> d.funct7 \in {0, 32} \/ (d.funct7 = 1 /\ d.funct3 \in MulDivCases)
    BY <1>7, SMT
       DEF Known, Opcodes, LUI, AUIPC, JAL, JALR, BRANCH, LOAD, STORE, OP_IMM, OP, SYSTEM
  <2> QED
    BY <1>1, <2>1, <2>2, OpHoles
<1>8. CASE d.opcode = SYSTEM
  <2>1. text = SystemText(d, w)
    BY <1>8, LineOfOpcode
  <2>2. Known(d) <=> d.funct3 = 0 /\ d.funct12 = 0
    BY <1>8, SMT
       DEF Known, Opcodes, LUI, AUIPC, JAL, JALR, BRANCH, LOAD, STORE, OP_IMM, OP, SYSTEM
  <2> QED
    BY <2>1, <2>2 DEF SystemText, NoName
<1>9. CASE d.opcode \notin Opcodes
  BY <1>9, LineOfOpcode DEF Known, NoName
<1> QED
  BY <1>2, <1>3, <1>4, <1>5, <1>6, <1>7, <1>8, <1>9 DEF Opcodes

-----------------------------------------------------------------------------
(* The word is one of the two kinds, and what was read is what the code    *)
(* makes of that word.                                                     *)
WordsInv ==
  /\ addr \in Addrs
  /\ \/ /\ intent \in Instructions /\ Fits(Manual[intent.name][1], intent.imm)
        /\ word = Word(intent)
     \/ intent = <<>> /\ word \in AnyWord
  /\ \/ fields = <<>> /\ line = <<>>
     \/ fields = Decode(word) /\ line = disassemble(addr, word, Symbols)

LEMMA AnyWordType == AnyWord \subseteq Words
<1> SUFFICES ASSUME NEW w \in AnyWord PROVE w \in Words
  OBVIOUS
<1> PICK v \in [opcode : 0 .. 127, funct3 : 0 .. 7, funct7 : Funct7s,
                rd : {1}, rs1 : {2}, rs2 : {0, 1}] :
      w = Encode("R", v)
  BY DEF AnyWord
<1>1. /\ v.opcode \in Int /\ v.funct3 \in Int /\ v.funct7 \in Int
      /\ v.rd \in Int /\ v.rs1 \in Int /\ v.rs2 \in Int
  <2>1. /\ v.opcode \in 0 .. 127 /\ v.funct3 \in 0 .. 7 /\ v.funct7 \in Funct7s
        /\ v.rd \in {1} /\ v.rs1 \in {2} /\ v.rs2 \in {0, 1}
    BY Zenon
  <2>2. 0 .. 127 \subseteq Int /\ 0 .. 7 \subseteq Int /\ Funct7s \subseteq Int
    BY WordsAssumption, SMT
  <2>3. {1} \subseteq Int /\ {2} \subseteq Int /\ {0, 1} \subseteq Int
    OBVIOUS
  <2> QED
    BY <2>1, <2>2, <2>3, Zenon
<1>2. "R" \in DOMAIN Layout
  BY Formats
<1>3. \A p \in Layout["R"] : p[1] \in {"opcode", "funct3", "funct7", "rd", "rs1", "rs2"}
  BY Formats, SMT
<1>4. \A p \in Layout["R"] : v[p[1]] \in Int
  BY <1>1, <1>3
<1>5. Encode("R", v) \in Words
  BY <1>2, <1>4, EncodeType
<1> QED
  BY <1>5

LEMMA WordsInitInv == WordsInit => WordsInv
  BY DEF WordsInit, WordsInv, Word

LEMMA WordsStepInv == WordsInv /\ [WordsNext]_words_vars => WordsInv'
  BY DEF WordsInv, WordsNext, Read, words_vars

(* What has been read of the word of an instruction.                       *)
LEMMA ReadOf ==
  ASSUME WordsInv, Encoded
  PROVE  /\ intent \in Instructions /\ intent.name \in Names
         /\ Fits(Manual[intent.name][1], intent.imm)
         /\ word = Word(intent)
         /\ fields = Decode(word) /\ line = disassemble(addr, word, Symbols)
         /\ Means(intent, fields)
<1>1. /\ intent \in Instructions /\ Fits(Manual[intent.name][1], intent.imm)
      /\ word = Word(intent)
      /\ fields = Decode(word) /\ line = disassemble(addr, word, Symbols)
  BY DEF WordsInv, Encoded, Seen
<1> QED
  BY <1>1, InstructionType, Decoded

(* The fields of each format.                                              *)
Carried(format) == {p[1] : p \in Layout[format]}

LEMMA CarriedFields ==
  /\ Carried("R") = {"opcode", "rd", "funct3", "rs1", "rs2", "funct7"}
  /\ Carried("I") = {"opcode", "rd", "funct3", "rs1", "imm"}
  /\ Carried("E") = {"opcode", "rd", "funct3", "rs1", "imm"}
  /\ Carried("S") = {"opcode", "funct3", "rs1", "rs2", "imm"}
  /\ Carried("B") = {"opcode", "funct3", "rs1", "rs2", "imm"}
  /\ Carried("U") = {"opcode", "rd", "upper"}
  /\ Carried("J") = {"opcode", "rd", "imm"}
<1>1. Carried("R") = {"opcode", "rd", "funct3", "rs1", "rs2", "funct7"}
  BY Formats, SMT DEF Carried
<1>2. Carried("I") = {"opcode", "rd", "funct3", "rs1", "imm"}
  BY Formats, SMT DEF Carried
<1>3. Carried("E") = {"opcode", "rd", "funct3", "rs1", "imm"}
  BY Formats, SMT DEF Carried
<1>4. Carried("S") = {"opcode", "funct3", "rs1", "rs2", "imm"}
  BY Formats, SMT DEF Carried
<1>5. Carried("B") = {"opcode", "funct3", "rs1", "rs2", "imm"}
  BY Formats, SMT DEF Carried
<1>6. Carried("U") = {"opcode", "rd", "upper"}
  BY Formats, SMT DEF Carried
<1>7. Carried("J") = {"opcode", "rd", "imm"}
  BY Formats, SMT DEF Carried
<1> QED
  BY <1>1, <1>2, <1>3, <1>4, <1>5, <1>6, <1>7

(* Every field that the format carries is read as it was written.          *)
LEMMA Inverts == WordsInv => DecodingInvertsEncoding
<1> SUFFICES ASSUME WordsInv, Encoded
             PROVE  LET carried == {p[1] : p \in Layout[Manual[intent.name][1]]}
                    IN  /\ \A f \in carried \ {"upper"} : fields[f] = Values(intent)[f]
                        /\ "upper" \in carried => fields.imm = intent.imm
  BY DEF DecodingInvertsEncoding
<1> DEFINE format == Manual[intent.name][1]
           carried == Carried(format)
<1>1. format \in {"R", "I", "E", "S", "B", "U", "J"}
  BY ReadOf, ManualType, Formats
<1>2. Means(intent, fields)
  BY ReadOf
<1>3. /\ format = "R" => carried = {"opcode", "rd", "funct3", "rs1", "rs2", "funct7"}
      /\ format \in {"I", "E"} => carried = {"opcode", "rd", "funct3", "rs1", "imm"}
      /\ format \in {"S", "B"} => carried = {"opcode", "funct3", "rs1", "rs2", "imm"}
      /\ format = "U" => carried = {"opcode", "rd", "upper"}
      /\ format = "J" => carried = {"opcode", "rd", "imm"}
  BY CarriedFields
<1>4. PICK v : v = Values(intent)
  OBVIOUS
<1>5. /\ v.opcode = Manual[intent.name][2] /\ v.funct3 = Manual[intent.name][3]
      /\ v.funct7 = Manual[intent.name][4]
      /\ v.rd = intent.rd /\ v.rs1 = intent.rs1 /\ v.rs2 = intent.rs2 /\ v.imm = intent.imm
  BY <1>4 DEF Values
<1>6. /\ fields.opcode = v.opcode
      /\ format \notin {"S", "B"} => fields.rd = v.rd
      /\ format \notin {"U", "J"} => fields.funct3 = v.funct3 /\ fields.rs1 = v.rs1
      /\ format \in {"R", "S", "B"} => fields.rs2 = v.rs2
      /\ format = "R" => fields.funct7 = v.funct7
      /\ format # "R" => fields.imm = v.imm
  BY <1>2, <1>5 DEF Means
<1> HIDE DEF format, carried
<1>7. CASE format = "R"
  BY <1>3, <1>4, <1>5, <1>6, <1>7 DEF carried, format, Carried
<1>8. CASE format \in {"I", "E"}
  BY <1>3, <1>4, <1>5, <1>6, <1>8 DEF carried, format, Carried
<1>9. CASE format \in {"S", "B"}
  BY <1>3, <1>4, <1>5, <1>6, <1>9 DEF carried, format, Carried
<1>10. CASE format = "U"
  BY <1>3, <1>4, <1>5, <1>6, <1>10 DEF carried, format, Carried
<1>11. CASE format = "J"
  BY <1>3, <1>4, <1>5, <1>6, <1>11 DEF carried, format, Carried
<1> QED
  BY <1>1, <1>7, <1>8, <1>9, <1>10, <1>11

LEMMA SameUnknown == WordsInv => UnknownToBoth
<1> SUFFICES ASSUME WordsInv, Seen PROVE line[1] \in NoName <=> ~ Known(fields)
  BY DEF UnknownToBoth, NoName
<1>1. fields = Decode(word) /\ line = disassemble(addr, word, Symbols)
  BY DEF WordsInv, Seen
<1>2. word \in Words
  BY WordType, AnyWordType DEF WordsInv, Encodes
<1> QED
  BY <1>1, <1>2, SameWordsKnown

-----------------------------------------------------------------------------
(* A line and its operands, part by part.                                  *)
LEMMA TwoOperands ==
  ASSUME NEW text, NEW n, NEW p, NEW q, text = <<n, p, q>>,
         NEW operands, NEW x, NEW y, operands = <<x, y>>, Shows(p, x), Shows(q, y)
  PROVE  /\ Len(text) = 1 + Len(operands)
         /\ \A k \in DOMAIN operands : Shows(text[k + 1], operands[k])
<1>1. DOMAIN operands = {1, 2} /\ text[1 + 1] = p /\ text[2 + 1] = q
  BY SMT
<1>2. Len(text) = 1 + Len(operands)
  BY SMT
<1> QED
  BY <1>1, <1>2

LEMMA ThreeOperands ==
  ASSUME NEW text, NEW n, NEW p, NEW q, NEW r, text = <<n, p, q, r>>,
         NEW operands, NEW x, NEW y, NEW z, operands = <<x, y, z>>,
         Shows(p, x), Shows(q, y), Shows(r, z)
  PROVE  /\ Len(text) = 1 + Len(operands)
         /\ \A k \in DOMAIN operands : Shows(text[k + 1], operands[k])
<1>1. DOMAIN operands = {1, 2, 3} /\ text[1 + 1] = p /\ text[2 + 1] = q /\ text[3 + 1] = r
  BY SMT
<1>2. Len(text) = 1 + Len(operands)
  BY SMT
<1> QED
  BY <1>1, <1>2

(* Each part that disassemble() prints shows its operand.                  *)
LEMMA PartsShow ==
  ASSUME WordsInv, Encoded
  PROVE  /\ Shows(reg_name(intent.rd), "rd")
         /\ Shows(reg_name(intent.rs1), "rs1")
         /\ Shows(reg_name(intent.rs2), "rs2")
         /\ Shows(intent.rs2, "shamt") /\ Shows(intent.imm, "imm")
         /\ Manual[intent.name][1] = "U" => Shows(intent.imm \div 4096, "upper")
         /\ Shows(format_addr(Symbols, addr + intent.imm), "to")
<1>1. /\ intent.imm \in Int
      /\ intent.rd \in Nat /\ intent.rd < 32 /\ intent.rs1 \in Nat /\ intent.rs1 < 32
      /\ intent.rs2 \in Nat /\ intent.rs2 < 32
  BY ReadOf, InstructionType
<1>2. Shows(reg_name(intent.rd), "rd")
  BY <1>1, RegisterNames DEF Shows
<1>3. Shows(reg_name(intent.rs1), "rs1")
  BY <1>1, RegisterNames DEF Shows
<1>4. Shows(reg_name(intent.rs2), "rs2")
  BY <1>1, RegisterNames DEF Shows
<1>5. Shows(intent.rs2, "shamt")
  BY DEF Shows
<1>6. Shows(intent.imm, "imm")
  BY DEF Shows
<1>7. Manual[intent.name][1] = "U" => Shows(intent.imm \div 4096, "upper")
  <2> HAVE Manual[intent.name][1] = "U"
  <2>1. intent.imm % 4096 = 0
    BY <1>1, ReadOf, FitsFacts
  <2>2. (intent.imm \div 4096) * 4096 = intent.imm
    BY <1>1, <2>1, SMT
  <2> QED
    BY <2>2, SMT DEF Shows
<1>8. Shows(format_addr(Symbols, addr + intent.imm), "to")
  <2>1. PICK a \in Int : a = addr + intent.imm
    BY <1>1, WordsAssumption DEF WordsInv
  <2>2. symbols_value_to_sym(Symbols, a) \in NamesOf(a)
    BY SymbolFound
  <2> QED
    BY <2>1, <2>2 DEF Shows, format_addr
<1> QED
  BY <1>2, <1>3, <1>4, <1>5, <1>6, <1>7, <1>8

(* A line with a name and its operands.                                    *)
Says(text, n, operands) ==
  /\ text[1] = n
  /\ Len(text) = 1 + Len(operands)
  /\ \A k \in DOMAIN operands : Shows(text[k + 1], operands[k])

(* The line is the assembly text, format by format.                        *)
LEMMA Listed == WordsInv => ListedAsWritten
<1> SUFFICES ASSUME WordsInv, Encoded
             PROVE  Says(line, intent.name, Manual[intent.name][5])
  BY DEF ListedAsWritten, Says
<1> DEFINE m == Manual[intent.name]
           d == fields
           rd == reg_name(intent.rd)
           rs1 == reg_name(intent.rs1)
           rs2 == reg_name(intent.rs2)
           to == format_addr(Symbols, addr + intent.imm)
<1>1. intent.name \in Names /\ m[1] \in {"R", "I", "E", "S", "B", "U", "J"}
  BY ReadOf, ManualType, Formats
<1>2. Means(intent, d)
  BY ReadOf
<1>3. d = Decode(word) /\ line = disassemble(addr, word, Symbols)
  BY ReadOf
<1>4. CASE m[1] = "U"
  <2>1. line = <<intent.name, rd, intent.imm \div 4096>>
    BY <1>1, <1>2, <1>3, <1>4, LineOfOpcode, ManualUpper DEF Means
  <2>2. m[5] = <<"rd", "upper">>
    BY <1>1, <1>4, ManualUpper
  <2>3. line[1] = intent.name
    BY <2>1
  <2> QED
    BY <1>4, <2>1, <2>2, <2>3, PartsShow, TwoOperands DEF Says
<1>5. CASE m[1] = "J"
  <2>1. line = <<intent.name, rd, to>>
    BY <1>1, <1>2, <1>3, <1>5, LineOfOpcode, ManualJump DEF Means
  <2>2. m[5] = <<"rd", "to">>
    BY <1>1, <1>5, ManualJump
  <2>3. line[1] = intent.name
    BY <2>1
  <2> HIDE DEF to, rd
  <2>4. Shows(rd, "rd") /\ Shows(to, "to")
    BY PartsShow DEF rd, to
  <2> QED
    BY <2>1, <2>2, <2>3, <2>4, TwoOperands DEF Says
<1>6. CASE m[1] = "B"
  <2>1. line = <<intent.name, rs1, rs2, to>>
    BY <1>1, <1>2, <1>3, <1>6, LineOfOpcode, ManualBranch DEF Means, Named
  <2>2. m[5] = <<"rs1", "rs2", "to">>
    BY <1>1, <1>6, ManualBranch
  <2>3. line[1] = intent.name
    BY <2>1
  <2>4. Shows(rs1, "rs1") /\ Shows(rs2, "rs2") /\ Shows(to, "to")
    BY PartsShow
  <2> HIDE DEF to, rs1, rs2
  <2> QED
    BY <2>1, <2>2, <2>3, <2>4, ThreeOperands DEF Says
<1>7. CASE m[1] = "S"
  <2>1. line = <<intent.name, rs2, intent.imm, rs1>>
    BY <1>1, <1>2, <1>3, <1>7, LineOfOpcode, ManualStore DEF Means, Named
  <2>2. m[5] = <<"rs2", "imm", "rs1">>
    BY <1>1, <1>7, ManualStore
  <2>3. line[1] = intent.name
    BY <2>1
  <2>4. Shows(rs1, "rs1") /\ Shows(rs2, "rs2") /\ Shows(intent.imm, "imm")
    BY PartsShow
  <2> HIDE DEF rs1, rs2
  <2> QED
    BY <2>1, <2>2, <2>3, <2>4, ThreeOperands DEF Says
<1>8. CASE m[1] = "E"
  <2>1. line = <<"ecall">>
    BY <1>1, <1>2, <1>3, <1>8, LineOfOpcode, ManualEcall DEF Means, SystemText
  <2>2. m[5] = <<>> /\ intent.name = "ecall"
    BY <1>1, <1>8, ManualEcall
  <2>3. Len(line) = 1 + Len(m[5]) /\ line[1] = intent.name /\ DOMAIN m[5] = {}
    BY <2>1, <2>2, SMT
  <2> QED
    BY <2>3 DEF Says
<1>9. CASE m[1] = "I"
  <2>1. CASE m[2] \in {JALR, LOAD}
    <3>1. m[5] = <<"rd", "imm", "rs1">>
      BY <1>1, <1>9, <2>1, ManualImmediate, SMT DEF JALR, LOAD, OP_IMM
    <3>2. line = <<intent.name, rd, intent.imm, rs1>>
      <4>1. CASE m[2] = JALR
        <5>1. intent.name = "jalr"
          BY <1>1, <1>9, <4>1, ManualImmediate, SMT DEF JALR, LOAD, OP_IMM
        <5> QED
          BY <1>2, <1>3, <1>9, <4>1, <5>1, LineOfOpcode DEF Means
      <4>2. CASE m[2] = LOAD
        <5>1. LoadName[m[3] + 1] = intent.name
          BY <1>1, <1>9, <4>2, ManualImmediate, SMT DEF JALR, LOAD, OP_IMM
        <5> QED
          BY <1>2, <1>3, <1>9, <4>2, <5>1, LineOfOpcode DEF Means, Named
      <4> QED
        BY <2>1, <4>1, <4>2
    <3>3. line[1] = intent.name
      BY <3>2
    <3>4. Shows(rd, "rd") /\ Shows(rs1, "rs1") /\ Shows(intent.imm, "imm")
      BY PartsShow
    <3> HIDE DEF rs1, rd
    <3> QED
      BY <3>1, <3>2, <3>3, <3>4, ThreeOperands DEF Says
  <2>2. CASE m[2] \notin {JALR, LOAD}
    <3>1. /\ m[5] = <<"rd", "rs1", "imm">> /\ m[2] = OP_IMM
          /\ m[3] \notin {1, 5} /\ OpImmName[m[3] + 1] = intent.name
      BY <1>1, <1>9, <2>2, ManualImmediate
    <3>2. ~ NoShift(d) /\ d.funct3 \notin {1, 5} /\ d.funct3 = m[3]
      BY <1>2, <1>9, <3>1 DEF Means, NoShift
    <3>3. line = <<intent.name, rd, rs1, intent.imm>>
      BY <1>2, <1>3, <1>9, <3>1, <3>2, LineOfOpcode DEF Means, Named
    <3>4. line[1] = intent.name
      BY <3>3
    <3>5. Shows(rd, "rd") /\ Shows(rs1, "rs1") /\ Shows(intent.imm, "imm")
      BY PartsShow
    <3> HIDE DEF rs1, rd
    <3> QED
      BY <3>1, <3>3, <3>4, <3>5, ThreeOperands DEF Says
  <2> QED
    BY <2>1, <2>2
<1>10. CASE m[1] = "R"
  <2>1. /\ d.opcode = m[2] /\ d.funct3 = m[3] /\ d.funct7 = m[4]
        /\ d.rd = intent.rd /\ d.rs1 = intent.rs1 /\ d.rs2 = intent.rs2
        /\ d.shamt = intent.rs2
    BY <1>2, <1>10, Formats DEF Means
  <2>2. CASE m[2] = OP
    <3>1. OpName(m[4])[m[3] + 1] = intent.name /\ m[5] = <<"rd", "rs1", "rs2">>
      BY <1>1, <1>10, <2>2, ManualRegister, SMT DEF OP, OP_IMM
    <3>2. line = <<intent.name, rd, rs1, rs2>>
      BY <1>3, <2>1, <2>2, <3>1, LineOfOpcode DEF Named
    <3>3. line[1] = intent.name
      BY <3>2
    <3>4. Shows(rd, "rd") /\ Shows(rs1, "rs1") /\ Shows(rs2, "rs2")
      BY PartsShow
    <3> HIDE DEF rs1, rs2, rd
    <3> QED
      BY <3>1, <3>2, <3>3, <3>4, ThreeOperands DEF Says
  <2>3. CASE m[2] # OP
    <3>1. /\ m[2] = OP_IMM /\ m[5] = <<"rd", "rs1", "shamt">>
          /\ \/ m[3] = 1 /\ intent.name = "slli"
             \/ m[3] = 5 /\ m[4] = 0 /\ intent.name = "srli"
             \/ m[3] = 5 /\ m[4] = 32 /\ intent.name = "srai"
      BY <1>1, <1>10, <2>3, ManualRegister
    <3>2. ~ NoShift(d) /\ d.funct3 \in {1, 5} /\ ShiftName(d) = intent.name
      BY <2>1, <3>1, SMT DEF NoShift, ShiftName
    <3>3. line = <<intent.name, rd, rs1, intent.rs2>>
      BY <1>3, <2>1, <3>1, <3>2, LineOfOpcode
    <3>4. line[1] = intent.name
      BY <3>3
    <3>5. Shows(rd, "rd") /\ Shows(rs1, "rs1") /\ Shows(intent.rs2, "shamt")
      BY PartsShow
    <3> HIDE DEF rs1, rd
    <3> QED
      BY <3>1, <3>3, <3>4, <3>5, ThreeOperands DEF Says
  <2> QED
    BY <2>2, <2>3
<1> QED
  BY <1>1, <1>4, <1>5, <1>6, <1>7, <1>8, <1>9, <1>10

-----------------------------------------------------------------------------
(* The invariant: each word is one of the two kinds, and both readers have *)
(* read that word or none.                                                 *)
THEOREM WordsInvariant == WordsSpec => []WordsInv
  BY WordsInitInv, WordsStepInv, PTL DEF WordsSpec

(* simulate.c:16-51 and 123-131: every field and immediate, permuted as it *)
(* may be, is decoded as it was encoded, for all registers and immediates. *)
THEOREM WordsDecoded == WordsSpec => []DecodingInvertsEncoding
  BY WordsInvariant, Inverts, PTL

(* disassemble.c:76-281: what is listed is the assembly text of the very   *)
(* instruction the word encodes, for every address and symbol table.       *)
THEOREM WordsListed == WordsSpec => []ListedAsWritten
  BY WordsInvariant, Listed, PTL

(* The switches of disassemble.c and simulate.c, written apart, accept the *)
(* same words.                                                             *)
THEOREM WordsUnknown == WordsSpec => []UnknownToBoth
  BY WordsInvariant, SameUnknown, PTL

=============================================================================
