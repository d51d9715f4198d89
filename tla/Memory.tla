------------------------------- MODULE Memory -------------------------------
(***************************************************************************)
(* src/src/memory.c: the simulated memory, an array of lazily allocated    *)
(* pages of int words, as operators over its value.                        *)
(*                                                                         *)
(* A memory is a function from the pages allocated so far to their words;  *)
(* a page whose pointer is NULL is outside the domain.  A word is the      *)
(* unsigned reading of the C int, its lane k the k-th byte.  The geometry  *)
(* is a parameter: the program has ByteBase = 2^8, NPages = 2^16 and       *)
(* PageWords = 2^14.  Masks and shifts by whole bytes are \div and % by    *)
(* powers of ByteBase; a C int address is the residue in Addr that its     *)
(* bits denote.                                                            *)
(***************************************************************************)
EXTENDS Integers

CONSTANTS
  ByteBase,   \* number of values of a byte
  NPages,     \* length of the array of page pointers
  PageWords   \* words in a page

ASSUME GeometryAssumption ==
  /\ ByteBase \in Nat \ {0, 1}
  /\ NPages \in Nat \ {0}
  /\ PageWords \in Nat \ {0}

Half     == ByteBase * ByteBase
WordMod  == Half * Half
Byte     == 0 .. (ByteBase - 1)
Word     == 0 .. (WordMod - 1)
PageNo   == 0 .. (NPages - 1)
Index    == 0 .. (PageWords - 1)
Page     == [Index -> Word]
PageBytes == 4 * PageWords
Addr     == 0 .. (NPages * PageBytes - 1)

Aligned(addr, n) == addr % n = 0

page_number(addr) == (addr \div PageBytes) % NPages
index(addr)       == (addr \div 4) % PageWords

(* The memories that exist.                                                *)
IsMemory(m) == DOMAIN m \subseteq PageNo /\ m \in [DOMAIN m -> Page]

memory_create == [p \in {} |-> [i \in Index |-> 0]]

(* The page of addr is calloc'ed on its first use, by a read as much as by *)
(* a write.                                                                *)
get_page(mem, addr) ==
  IF page_number(addr) \in DOMAIN mem THEN mem
  ELSE [p \in DOMAIN mem \cup {page_number(addr)} |->
          IF p \in DOMAIN mem THEN mem[p] ELSE [i \in Index |-> 0]]

WordAt(mem, addr) == get_page(mem, addr)[page_number(addr)][index(addr)]

SetWord(mem, addr, w) ==
  [get_page(mem, addr) EXCEPT ![page_number(addr)][index(addr)] = w]

(* What a shift left by k whole bytes multiplies by.                       *)
Shift(k) == <<1, ByteBase, Half, Half * ByteBase>>[k + 1]

Lane(w, k) == (w \div Shift(k)) % ByteBase

PutLane(w, k, b) == w - Lane(w, k) * Shift(k) + b * Shift(k)

-----------------------------------------------------------------------------
(* The six accessors, on an address they accept; a misaligned word or      *)
(* halfword access ends the process instead (see the modules that use      *)
(* them).                                                                  *)

memory_wr_w(mem, addr, data) == SetWord(mem, addr, data)

(* Mutant: the halves of the word are taken for each other.                *)
memory_wr_h_swapped(mem, addr, data) ==
  LET w == WordAt(mem, addr)
      h == data % Half
  IN  SetWord(mem, addr, IF addr % 4 >= 2 THEN w - (w % Half) + h
                                          ELSE (w % Half) + h * Half)

memory_wr_h(mem, addr, data) ==
  LET w == WordAt(mem, addr)
      h == data % Half
  IN  SetWord(mem, addr, IF addr % 4 < 2 THEN w - (w % Half) + h
                                         ELSE (w % Half) + h * Half)

(* Mutant: the stored byte is not masked.                                  *)
memory_wr_b_unmasked(mem, addr, data) ==
  SetWord(mem, addr, PutLane(WordAt(mem, addr), addr % 4, data))

memory_wr_b(mem, addr, data) ==
  SetWord(mem, addr, PutLane(WordAt(mem, addr), addr % 4, data % ByteBase))

memory_rd_w(mem, addr) == WordAt(mem, addr)

memory_rd_h(mem, addr) ==
  (WordAt(mem, addr) \div (IF addr % 4 < 2 THEN 1 ELSE Half)) % Half

memory_rd_b(mem, addr) == Lane(WordAt(mem, addr), addr % 4)

-----------------------------------------------------------------------------
(* The byte stored at an address: the lane of its word, 0 in a page that   *)
(* was never touched.                                                      *)
ByteAt(m, addr) ==
  IF page_number(addr) \in DOMAIN m
  THEN Lane(m[page_number(addr)][index(addr)], addr % 4)
  ELSE 0

=============================================================================
