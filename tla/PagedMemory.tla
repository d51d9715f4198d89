---------------------------- MODULE PagedMemory ----------------------------
(***************************************************************************)
(* The memory as its users see it: an arbitrary sequence of calls of the   *)
(* functions of src/src/memory.h on one struct memory.  Every function     *)
(* that finds a misaligned address prints and calls exit(-1).              *)
(***************************************************************************)
EXTENDS Memory

CONSTANTS
  Sites,    \* the addresses the callers pass
  Data      \* the words they store

ASSUME ClientAssumption == Sites \subseteq Addr /\ Data \subseteq Word

VARIABLES
  mem,      \* the pages
  process,  \* "running", or "exited" once exit(-1) was called
  result    \* value returned by the last read

memory_vars == <<mem, process, result>>

MemoryOK ==
  /\ DOMAIN mem \subseteq PageNo
  /\ mem \in [DOMAIN mem -> Page]
  /\ process \in {"running", "exited"}
  /\ result \in Word

MemoryInit ==
  /\ mem = memory_create
  /\ process = "running"
  /\ result = 0

(* exit(-1); only the allocation a read makes before its check remains.    *)
Exit(m) ==
  /\ process' = "exited"
  /\ mem' = m
  /\ UNCHANGED result

WrW(addr, data) ==
  /\ process = "running"
  /\ IF Aligned(addr, 4)
     THEN mem' = memory_wr_w(mem, addr, data) /\ UNCHANGED <<process, result>>
     ELSE Exit(mem)

WrH(addr, data) ==
  /\ process = "running"
  /\ IF Aligned(addr, 2)
     THEN mem' = memory_wr_h(mem, addr, data) /\ UNCHANGED <<process, result>>
     ELSE Exit(mem)

WrB(addr, data) ==
  /\ process = "running"
  /\ mem' = memory_wr_b(mem, addr, data)
  /\ UNCHANGED <<process, result>>

RdW(addr) ==
  /\ process = "running"
  /\ IF Aligned(addr, 4)
     THEN /\ result' = memory_rd_w(mem, addr)
          /\ mem' = get_page(mem, addr)
          /\ UNCHANGED process
     ELSE Exit(get_page(mem, addr))

RdH(addr) ==
  /\ process = "running"
  /\ IF Aligned(addr, 2)
     THEN /\ result' = memory_rd_h(mem, addr)
          /\ mem' = get_page(mem, addr)
          /\ UNCHANGED process
     ELSE Exit(get_page(mem, addr))

RdB(addr) ==
  /\ process = "running"
  /\ result' = memory_rd_b(mem, addr)
  /\ mem' = get_page(mem, addr)
  /\ UNCHANGED process

MemoryNext ==
  \E addr \in Sites :
    \/ RdW(addr) \/ RdH(addr) \/ RdB(addr)
    \/ \E data \in Data : WrW(addr, data) \/ WrH(addr, data) \/ WrB(addr, data)

MemorySpec == MemoryInit /\ [][MemoryNext]_memory_vars

-----------------------------------------------------------------------------
Flat == INSTANCE FlatMemory WITH bytes <- [a \in Addr |-> ByteAt(mem, a)]

(* The pages, words, masks and shifts of memory.c implement a flat         *)
(* little-endian array of zeroed bytes: no store changes a byte outside    *)
(* the bytes it names, and every load, of any width, returns what the      *)
(* stores before it, of any width, left there, zero-extended.              *)
ImplementsFlatMemory == Flat!Spec

=============================================================================
