----------------------------- MODULE FlatMemory -----------------------------
(***************************************************************************)
(* What the interface src/src/memory.h promises: a flat array of bytes,    *)
(* initially zero, read and written in little-endian units of one, two or  *)
(* four bytes, "data er nul-forlaenget" (zero-extended); an access that is *)
(* not aligned to its unit ends the process.                               *)
(***************************************************************************)
EXTENDS Integers

CONSTANTS ByteBase, NPages, PageWords, Sites, Data

VARIABLES bytes, process, result

vars == <<bytes, process, result>>

Addr == 0 .. (NPages * (4 * PageWords) - 1)

Init ==
  /\ bytes = [a \in Addr |-> 0]
  /\ process = "running"
  /\ result = 0

(* The k-th byte of a value, and the value of n consecutive bytes.         *)
ByteOf(v, k) ==
  (v \div <<1, ByteBase, ByteBase * ByteBase,
            ByteBase * ByteBase * ByteBase>>[k + 1]) % ByteBase

ValueAt(a, n) ==
  IF n = 1 THEN bytes[a]
  ELSE IF n = 2 THEN bytes[a] + ByteBase * bytes[a + 1]
  ELSE bytes[a] + ByteBase * (bytes[a + 1]
         + ByteBase * (bytes[a + 2] + ByteBase * bytes[a + 3]))

Store(a, n, v) ==
  /\ process = "running"
  /\ a % n = 0
  /\ bytes' = [b \in Addr |-> IF b \in a .. (a + n - 1) THEN ByteOf(v, b - a)
                                                        ELSE bytes[b]]
  /\ UNCHANGED <<process, result>>

Load(a, n) ==
  /\ process = "running"
  /\ a % n = 0
  /\ result' = ValueAt(a, n)
  /\ UNCHANGED <<bytes, process>>

Misaligned(a, n) ==
  /\ process = "running"
  /\ a % n # 0
  /\ process' = "exited"
  /\ UNCHANGED <<bytes, result>>

Next ==
  \E a \in Sites, n \in {1, 2, 4} :
    \/ Load(a, n)
    \/ Misaligned(a, n)
    \/ \E v \in Data : Store(a, n, v)

Spec == Init /\ [][Next]_vars

=============================================================================
