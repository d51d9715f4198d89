---------------------------- MODULE MachineLemmas ----------------------------
(***************************************************************************)
(* Facts about the operators of Memory and Predictors that the proofs      *)
(* about their users cite: how a word is made of its lanes, and how an     *)
(* address is made of a page number, an index and a lane; what             *)
(* constructing and training a predictor does.                             *)
(***************************************************************************)
EXTENDS Memory, Predictors, DataLemmas

-----------------------------------------------------------------------------
(* Words and their lanes.                                                  *)

Compose(l0, l1, l2, l3) ==
  l0 + ByteBase * (l1 + ByteBase * (l2 + ByteBase * l3))

LEMMA BaseFacts ==
  /\ ByteBase \in Nat /\ ByteBase > 1
  /\ Half \in Nat /\ Half > 1
  /\ WordMod \in Nat /\ WordMod > 1
  BY GeometryAssumption, SMT DEF Half, WordMod

LEMMA ComposeWord ==
  ASSUME NEW l0 \in Byte, NEW l1 \in Byte, NEW l2 \in Byte, NEW l3 \in Byte
  PROVE  /\ Compose(l0, l1, l2, l3) \in Word
         /\ l0 + ByteBase * l1 \in 0 .. (Half - 1)
<1>1. ASSUME NEW x \in Byte, NEW n \in Nat \ {0}, NEW y \in 0 .. (n - 1)
      PROVE  x + ByteBase * y \in 0 .. (ByteBase * n - 1)
  <2>1. ByteBase * y <= ByteBase * (n - 1) /\ ByteBase * y >= 0
    BY BaseFacts, SMT
  <2> QED
    BY <2>1, BaseFacts, SMT DEF Byte
<1>2. /\ ByteBase \in Nat \ {0} /\ Half \in Nat \ {0}
      /\ ByteBase * Half \in Nat \ {0}
      /\ Byte = 0 .. (ByteBase - 1)
  BY BaseFacts, SMT DEF Byte
<1>3. l0 + ByteBase * l1 \in 0 .. (Half - 1)
  BY <1>1, <1>2 DEF Half
<1> DEFINE t2 == l2 + ByteBase * l3
           t1 == l1 + ByteBase * t2
<1>4. t2 \in 0 .. (Half - 1)
  BY <1>1, <1>2 DEF Half
<1> HIDE DEF t2
<1>5. t1 \in 0 .. (ByteBase * Half - 1)
  BY <1>1, <1>2, <1>4
<1> HIDE DEF t1
<1>6. l0 + ByteBase * t1 \in 0 .. (ByteBase * (ByteBase * Half) - 1)
  BY <1>1, <1>2, <1>5
<1>7. ByteBase * (ByteBase * Half) = WordMod
  BY <1>2, SMT DEF Half, WordMod
<1> QED
  BY <1>3, <1>6, <1>7 DEF Word, Compose, t1, t2

(* The lanes and halves of a word given by its bytes.                      *)
LEMMA ComposeLanes ==
  ASSUME NEW l0 \in Byte, NEW l1 \in Byte, NEW l2 \in Byte, NEW l3 \in Byte,
         NEW w, w = Compose(l0, l1, l2, l3)
  PROVE  /\ Lane(w, 0) = l0 /\ Lane(w, 1) = l1
         /\ Lane(w, 2) = l2 /\ Lane(w, 3) = l3
         /\ w % Half = l0 + ByteBase * l1
         /\ w \div Half = l2 + ByteBase * l3
<1>1. /\ l0 \in Nat /\ l1 \in Nat /\ l2 \in Nat /\ l3 \in Nat
      /\ l0 \in 0 .. (ByteBase - 1) /\ l1 \in 0 .. (ByteBase - 1)
      /\ l2 \in 0 .. (ByteBase - 1) /\ l3 \in 0 .. (ByteBase - 1)
      /\ ByteBase \in Nat \ {0} /\ Half \in Nat \ {0}
  BY BaseFacts DEF Byte
<1>2. PICK t2 \in Nat : t2 = ByteBase * l3 + l2
  BY <1>1, SMT
<1>3. PICK t1 \in Nat : t1 = ByteBase * t2 + l1
  BY <1>1, SMT
<1>4. w \in Nat /\ w = ByteBase * t1 + l0
  BY <1>1, <1>2, <1>3, SMT DEF Compose
<1>5. w \div ByteBase = t1 /\ w % ByteBase = l0
  BY <1>1, <1>4, DivModUnique
<1>6. t1 \div ByteBase = t2 /\ t1 % ByteBase = l1
  BY <1>1, <1>3, DivModUnique
<1>7. t2 \div ByteBase = l3 /\ t2 % ByteBase = l2
  BY <1>1, <1>2, DivModUnique
<1>8. w \div Half = t2
  BY <1>1, <1>4, <1>5, <1>6, DivDiv DEF Half
<1>9. w \div (Half * ByteBase) = l3
  <2>1. w \div (Half * ByteBase) = (w \div Half) \div ByteBase
    BY <1>1, <1>4, DivDiv
  <2> QED
    BY <1>7, <1>8, <2>1
<1>10. l3 % ByteBase = l3 /\ w \div 1 = w
  BY <1>1, <1>4, SMT
<1>11. w % Half = l0 + ByteBase * l1
  <2>1. PICK h \in 0 .. (Half - 1) : h = l0 + ByteBase * l1
    BY ComposeWord
  <2>2. ByteBase * t1 = Half * t2 + ByteBase * l1
    BY <1>1, <1>3, SMT DEF Half
  <2>3. w = Half * t2 + h
    BY <1>1, <1>4, <2>1, <2>2, SMT
  <2>4. w % Half = h
    BY <1>1, <2>3, DivModUnique
  <2> QED
    BY <2>1, <2>4
<1> QED
  BY <1>1, <1>2, <1>5, <1>6, <1>7, <1>8, <1>9, <1>10, <1>11 DEF Lane, Shift

(* Every word is composed of its lanes.                                    *)
LEMMA WordLanes ==
  ASSUME NEW w \in Word
  PROVE  /\ \A k \in 0 .. 3 : Lane(w, k) \in Byte
         /\ w = Compose(Lane(w, 0), Lane(w, 1), Lane(w, 2), Lane(w, 3))
<1>1. ByteBase \in Nat \ {0} /\ Half \in Nat \ {0} /\ w \in Nat /\ w < WordMod
  BY BaseFacts DEF Word
<1>2. \A x \in Nat : \E t \in Nat, l \in Byte : x = ByteBase * t + l
  <2> TAKE x \in Nat
  <2>1. /\ x \div ByteBase \in Nat /\ x % ByteBase \in 0 .. (ByteBase - 1)
        /\ x = ByteBase * (x \div ByteBase) + (x % ByteBase)
    BY <1>1, DivMod
  <2> QED
    BY <2>1 DEF Byte
<1>3. PICK t1 \in Nat, l0 \in Byte : w = ByteBase * t1 + l0
  BY <1>2, <1>1
<1>4. PICK t2 \in Nat, l1 \in Byte : t1 = ByteBase * t2 + l1
  BY <1>2, <1>1
<1>5. PICK t3 \in Nat, l2 \in Byte : t2 = ByteBase * t3 + l2
  BY <1>2, <1>1
<1>6. t3 \in Byte
  <2>1. \A t \in Nat : ~ (t >= ByteBase) => t \in Byte
    BY <1>1 DEF Byte
  <2> SUFFICES ASSUME t3 >= ByteBase  PROVE FALSE
    BY <2>1
  <2>2. t2 >= Half
    <3>1. ByteBase * t3 >= ByteBase * ByteBase
      BY <1>1, SMT
    <3> QED
      BY <1>1, <1>5, <3>1, SMT DEF Half, Byte
  <2>3. t1 >= ByteBase * Half
    <3>1. ByteBase * t2 >= ByteBase * Half
      BY <1>1, <2>2, SMT
    <3> QED
      BY <1>1, <1>4, <3>1, SMT DEF Byte
  <2>4. w >= ByteBase * (ByteBase * Half)
    <3>1. ByteBase * t1 >= ByteBase * (ByteBase * Half)
      BY <1>1, <2>3, SMT
    <3> QED
      BY <1>1, <1>3, <3>1, SMT DEF Byte
  <2>5. ByteBase * (ByteBase * Half) = WordMod
    BY <1>1, SMT DEF Half, WordMod
  <2> QED
    BY <1>1, <2>4, <2>5, BaseFacts
<1>7. w = Compose(l0, l1, l2, t3)
  <2>1. l0 \in Nat /\ l1 \in Nat /\ l2 \in Nat
    BY <1>1 DEF Byte
  <2>2. t2 = l2 + ByteBase * t3 /\ t1 = l1 + ByteBase * t2 /\ w = l0 + ByteBase * t1
    BY <1>1, <1>3, <1>4, <1>5, <2>1, SMT
  <2> QED
    BY <2>2 DEF Compose
<1>8. Lane(w, 0) = l0 /\ Lane(w, 1) = l1 /\ Lane(w, 2) = l2 /\ Lane(w, 3) = t3
  BY <1>6, <1>7, ComposeLanes
<1>9. \A k \in 0 .. 3 : k = 0 \/ k = 1 \/ k = 2 \/ k = 3
  BY SMT
<1> QED
  BY <1>6, <1>7, <1>8, <1>9

(* The value of a word as the sum of its weighted lanes.                   *)
LEMMA ComposeSum ==
  ASSUME NEW x0 \in Nat, NEW x1 \in Nat, NEW x2 \in Nat, NEW x3 \in Nat
  PROVE  Compose(x0, x1, x2, x3)
           = x0 * Shift(0) + x1 * Shift(1) + x2 * Shift(2) + x3 * Shift(3)
<1>1. ByteBase \in Nat /\ Half \in Nat /\ Half = ByteBase * ByteBase
  BY BaseFacts DEF Half
<1>2. ByteBase * (ByteBase * x3) = x3 * Half
  BY <1>1, SMT
<1>3. ByteBase * (ByteBase * (ByteBase * x3)) = x3 * (Half * ByteBase)
  BY <1>1, <1>2, SMT
<1>4. ByteBase * (x2 + ByteBase * x3) = ByteBase * x2 + ByteBase * (ByteBase * x3)
  BY <1>1, SMT
<1>5. ByteBase * (ByteBase * x2) = x2 * Half
  BY <1>1, SMT
<1>6. ByteBase * (x1 + ByteBase * (x2 + ByteBase * x3))
        = ByteBase * x1 + ByteBase * (ByteBase * x2)
            + ByteBase * (ByteBase * (ByteBase * x3))
  BY <1>1, <1>4, SMT
<1>7. Compose(x0, x1, x2, x3)
        = x0 + ByteBase * x1 + x2 * Half + x3 * (Half * ByteBase)
  BY <1>1, <1>3, <1>5, <1>6, SMT DEF Compose
<1>8. Shift(0) = 1 /\ Shift(1) = ByteBase /\ Shift(2) = Half /\ Shift(3) = Half * ByteBase
  BY DEF Shift
<1> QED
  BY <1>1, <1>7, <1>8, SMT

(* Replacing one lane of a word leaves the others.                         *)
LEMMA PutLaneLanes ==
  ASSUME NEW w \in Word, NEW k \in 0 .. 3, NEW b \in Byte
  PROVE  /\ PutLane(w, k, b) \in Word
         /\ \A j \in 0 .. 3 : Lane(PutLane(w, k, b), j) = IF j = k THEN b ELSE Lane(w, j)
<1>1. PICK l0 \in Byte, l1 \in Byte, l2 \in Byte, l3 \in Byte :
        /\ w = Compose(l0, l1, l2, l3)
        /\ Lane(w, 0) = l0 /\ Lane(w, 1) = l1 /\ Lane(w, 2) = l2 /\ Lane(w, 3) = l3
  <2>1. Lane(w, 0) \in Byte /\ Lane(w, 1) \in Byte /\ Lane(w, 2) \in Byte /\ Lane(w, 3) \in Byte
    BY WordLanes
  <2> QED
    BY <2>1, WordLanes
<1>2. ByteBase \in Nat /\ Half = ByteBase * ByteBase
      /\ l0 \in Nat /\ l1 \in Nat /\ l2 \in Nat /\ l3 \in Nat /\ b \in Nat
  BY BaseFacts DEF Byte, Half
<1>3. k = 0 \/ k = 1 \/ k = 2 \/ k = 3
  BY SMT
<1> DEFINE m(j) == IF j = k THEN b ELSE Lane(w, j)
<1>4. PutLane(w, k, b) = Compose(m(0), m(1), m(2), m(3))
  <2>1. /\ Shift(0) \in Nat /\ Shift(1) \in Nat /\ Shift(2) \in Nat /\ Shift(3) \in Nat
    BY <1>2, SMT DEF Shift
  <2>2. w = l0 * Shift(0) + l1 * Shift(1) + l2 * Shift(2) + l3 * Shift(3)
    BY <1>1, <1>2, ComposeSum
  <2>3. PutLane(w, k, b) = w - Lane(w, k) * Shift(k) + b * Shift(k)
    BY DEF PutLane
  <2>4. CASE k = 0
    <3>1. PutLane(w, k, b)
            = b * Shift(0) + l1 * Shift(1) + l2 * Shift(2) + l3 * Shift(3)
      BY <1>1, <1>2, <2>1, <2>2, <2>3, <2>4, SMT
    <3> QED
      BY <1>1, <1>2, <2>4, <3>1, ComposeSum
  <2>5. CASE k = 1
    <3>1. PutLane(w, k, b)
            = l0 * Shift(0) + b * Shift(1) + l2 * Shift(2) + l3 * Shift(3)
      BY <1>1, <1>2, <2>1, <2>2, <2>3, <2>5, SMT
    <3> QED
      BY <1>1, <1>2, <2>5, <3>1, ComposeSum
  <2>6. CASE k = 2
    <3>1. PutLane(w, k, b)
            = l0 * Shift(0) + l1 * Shift(1) + b * Shift(2) + l3 * Shift(3)
      BY <1>1, <1>2, <2>1, <2>2, <2>3, <2>6, SMT
    <3> QED
      BY <1>1, <1>2, <2>6, <3>1, ComposeSum
  <2>7. CASE k = 3
    <3>1. PutLane(w, k, b)
            = l0 * Shift(0) + l1 * Shift(1) + l2 * Shift(2) + b * Shift(3)
      BY <1>1, <1>2, <2>1, <2>2, <2>3, <2>7, SMT
    <3> QED
      BY <1>1, <1>2, <2>7, <3>1, ComposeSum
  <2> QED
    BY <1>3, <2>4, <2>5, <2>6, <2>7
<1>5. m(0) \in Byte /\ m(1) \in Byte /\ m(2) \in Byte /\ m(3) \in Byte
  BY <1>1
<1>6. /\ Lane(PutLane(w, k, b), 0) = m(0) /\ Lane(PutLane(w, k, b), 1) = m(1)
      /\ Lane(PutLane(w, k, b), 2) = m(2) /\ Lane(PutLane(w, k, b), 3) = m(3)
  BY <1>4, <1>5, ComposeLanes
<1>7. \A j \in 0 .. 3 : j = 0 \/ j = 1 \/ j = 2 \/ j = 3
  BY SMT
<1> QED
  BY <1>4, <1>5, <1>6, <1>7, ComposeWord

-----------------------------------------------------------------------------
(* Addresses and pages.                                                    *)

LEMMA PageFacts ==
  /\ PageWords \in Nat \ {0} /\ NPages \in Nat \ {0}
  /\ PageBytes \in Nat \ {0} /\ PageBytes = 4 * PageWords
  BY GeometryAssumption, SMT DEF PageBytes

LEMMA PageDiv ==
  ASSUME NEW a \in Nat
  PROVE  a \div PageBytes = (a \div 4) \div PageWords
<1>1. PICK four \in Nat \ {0} : four = 4
  BY SMT
<1>2. a \div (four * PageWords) = (a \div four) \div PageWords
  BY PageFacts, DivDiv
<1> QED
  BY <1>1, <1>2, PageFacts

LEMMA AddressParts ==
  ASSUME NEW a \in Addr
  PROVE  /\ page_number(a) \in PageNo
         /\ index(a) \in Index
         /\ a % 4 \in 0 .. 3
         /\ a \div 4 = PageWords * page_number(a) + index(a)
<1>1. /\ a \in Nat /\ a < NPages * PageBytes
      /\ PageWords \in Nat \ {0} /\ NPages \in Nat \ {0} /\ PageBytes \in Nat \ {0}
      /\ NPages * PageBytes \in Nat
  BY PageFacts, SMT DEF Addr
<1>2. PICK q \in Nat : q = a \div 4
  BY <1>1, DivMod
<1>3. PICK p \in Nat, i \in 0 .. (PageWords - 1) :
        q = PageWords * p + i /\ p = q \div PageWords /\ i = q % PageWords
  BY <1>1, DivMod
<1>4. a \div PageBytes = p
  BY <1>1, <1>2, <1>3, PageDiv
<1>5. p < NPages
  <2> SUFFICES ASSUME p >= NPages PROVE FALSE
    BY <1>1
  <2>1. PageBytes * p >= PageBytes * NPages
    BY <1>1, SMT
  <2>2. a >= PageBytes * p
    <3>1. PICK b \in Nat \ {0} : b = PageBytes
      BY <1>1
    <3>2. a = b * p + (a % b) /\ a % b \in 0 .. (b - 1)
      BY <1>1, <1>4, <3>1, DivMod
    <3>3. PICK r \in Nat : a = b * p + r
      BY <3>2, SMT
    <3> QED
      BY <1>1, <3>1, <3>3, SMT
  <2>3. PageBytes * NPages = NPages * PageBytes /\ PageBytes * p \in Nat
    BY <1>1, SMT
  <2> QED
    BY <1>1, <2>1, <2>2, <2>3
<1>6. p % NPages = p
  BY <1>1, <1>5, SMT
<1>7. page_number(a) = p /\ index(a) = i
  BY <1>2, <1>3, <1>4, <1>6 DEF page_number, index
<1>8. a % 4 \in 0 .. 3
  BY <1>1, SMT
<1>9. a \div 4 = PageWords * page_number(a) + index(a)
  BY <1>2, <1>3, <1>7
<1>10. p \in PageNo /\ i \in Index
  BY <1>1, <1>3, <1>5 DEF PageNo, Index
<1> QED
  BY <1>7, <1>8, <1>9, <1>10

(* Two addresses share page and index exactly when they are in one word.   *)
LEMMA SameWord ==
  ASSUME NEW a \in Addr, NEW b \in Addr
  PROVE  (page_number(a) = page_number(b) /\ index(a) = index(b))
           <=> a \div 4 = b \div 4
<1>1. ASSUME a \div 4 = b \div 4
      PROVE  page_number(a) = page_number(b) /\ index(a) = index(b)
  <2>1. a \in Nat /\ b \in Nat
    BY DEF Addr
  <2>2. a \div PageBytes = b \div PageBytes
    BY <1>1, <2>1, PageDiv
  <2> QED
    BY <1>1, <2>2 DEF page_number, index
<1> QED
  BY <1>1, AddressParts

(* What get_page gives.                                                    *)
LEMMA GetPageType ==
  ASSUME NEW m, IsMemory(m), NEW a \in Addr
  PROVE  /\ IsMemory(get_page(m, a))
         /\ WordAt(m, a) \in Word
         /\ \A b \in Addr : ByteAt(get_page(m, a), b) = ByteAt(m, b)
<1>1. page_number(a) \in PageNo /\ index(a) \in Index
  BY AddressParts
<1>2. 0 \in Word
  BY BaseFacts DEF Word
<1>3. IsMemory(get_page(m, a))
  BY <1>1, <1>2 DEF IsMemory, get_page, Page
<1>4. WordAt(m, a) \in Word
  BY <1>1, <1>3 DEF IsMemory, get_page, Page, WordAt
<1>5. Lane(0, 0) = 0 /\ Lane(0, 1) = 0 /\ Lane(0, 2) = 0 /\ Lane(0, 3) = 0
  <2>1. 0 \in Byte /\ Compose(0, 0, 0, 0) = 0
    BY BaseFacts, SMT DEF Byte, Compose
  <2> QED
    BY <2>1, ComposeLanes
<1>6. ASSUME NEW b \in Addr
      PROVE  ByteAt(get_page(m, a), b) = ByteAt(m, b)
  <2>1. b % 4 \in 0 .. 3 /\ index(b) \in Index
    BY AddressParts
  <2>2. Lane(0, b % 4) = 0
    BY <1>5, <2>1, SMT
  <2> QED
    BY <2>1, <2>2 DEF ByteAt, get_page
<1> QED
  BY <1>3, <1>4, <1>6

(* Storing a word changes the four bytes of that word and no other.        *)
LEMMA SetWordBytes ==
  ASSUME NEW m, IsMemory(m), NEW a \in Addr, NEW w \in Word
  PROVE  /\ IsMemory(SetWord(m, a, w))
         /\ \A b \in Addr : ByteAt(SetWord(m, a, w), b)
                              = IF b \div 4 = a \div 4 THEN Lane(w, b % 4)
                                                       ELSE ByteAt(m, b)
<1> DEFINE g == get_page(m, a)
<1>1. page_number(a) \in PageNo /\ index(a) \in Index
  BY AddressParts
<1>2. IsMemory(g) /\ page_number(a) \in DOMAIN g
      /\ \A b \in Addr : ByteAt(g, b) = ByteAt(m, b)
  BY GetPageType DEF get_page
<1>3. SetWord(m, a, w) = [g EXCEPT ![page_number(a)][index(a)] = w]
  BY DEF SetWord
<1> HIDE DEF g
<1>4. IsMemory(SetWord(m, a, w))
  BY <1>1, <1>2, <1>3 DEF IsMemory, Page
<1>5. ASSUME NEW b \in Addr
      PROVE  ByteAt(SetWord(m, a, w), b)
               = IF b \div 4 = a \div 4 THEN Lane(w, b % 4) ELSE ByteAt(g, b)
  <2>1. page_number(b) \in PageNo /\ index(b) \in Index
    BY AddressParts
  <2>2. CASE b \div 4 = a \div 4
    <3>1. page_number(b) = page_number(a) /\ index(b) = index(a)
      BY <2>2, SameWord
    <3> QED
      BY <1>1, <1>2, <1>3, <2>2, <3>1 DEF ByteAt, IsMemory, Page
  <2>3. CASE b \div 4 # a \div 4
    <3>1. page_number(b) # page_number(a) \/ index(b) # index(a)
      BY <2>3, SameWord
    <3> QED
      BY <1>1, <1>2, <1>3, <2>1, <2>3, <3>1 DEF ByteAt, IsMemory, Page
  <2> QED
    BY <2>2, <2>3
<1> QED
  BY <1>2, <1>4, <1>5

-----------------------------------------------------------------------------
(* The six accessors, byte by byte.                                        *)

LEMMA ByteAtType ==
  ASSUME NEW m, IsMemory(m), NEW a \in Addr
  PROVE  ByteAt(m, a) \in Byte /\ ByteAt(m, a) = Lane(WordAt(m, a), a % 4)
<1>1. WordAt(m, a) \in Word /\ ByteAt(get_page(m, a), a) = ByteAt(m, a)
  BY GetPageType
<1>2. ByteAt(get_page(m, a), a) = Lane(WordAt(m, a), a % 4)
  BY DEF ByteAt, get_page, WordAt
<1>3. a % 4 \in 0 .. 3
  BY AddressParts
<1> QED
  BY <1>1, <1>2, <1>3, WordLanes

(* The bytes of the word and of the halfword that an address names.        *)
LEMMA Neighbours ==
  ASSUME NEW a \in Addr
  PROVE  /\ a \in Nat
         /\ a % 2 = 0 => /\ a + 1 \in Addr
                         /\ a % 4 \in {0, 2}
                         /\ (a + 1) % 4 = (a % 4) + 1
                         /\ (a + 1) \div 4 = a \div 4
         /\ a % 4 = 0 => /\ a % 2 = 0
                         /\ a + 1 \in Addr /\ a + 2 \in Addr /\ a + 3 \in Addr
                         /\ (a + 1) \div 4 = a \div 4
                         /\ (a + 2) \div 4 = a \div 4
                         /\ (a + 3) \div 4 = a \div 4
                         /\ (a + 1) % 4 = 1 /\ (a + 2) % 4 = 2 /\ (a + 3) % 4 = 3
<1>1. PICK n \in Nat : NPages * PageBytes = 4 * n
  <2>1. NPages * PageWords \in Nat
    BY PageFacts, SMT
  <2>2. NPages * PageBytes = 4 * (NPages * PageWords)
    BY PageFacts, SMT
  <2> QED
    BY <2>1, <2>2
<1>2. Addr = 0 .. (4 * n - 1)
  BY <1>1 DEF Addr
<1> QED
  BY <1>2, SMT

(* Addresses of one word hold lanes of one word.                           *)
LEMMA SameWordAt ==
  ASSUME NEW m, NEW a \in Addr, NEW b \in Addr, a \div 4 = b \div 4
  PROVE  WordAt(m, a) = WordAt(m, b)
  BY SameWord DEF WordAt, get_page

LEMMA WrWBytes ==
  ASSUME NEW m, IsMemory(m), NEW a \in Addr, Aligned(a, 4), NEW d \in Word
  PROVE  /\ IsMemory(memory_wr_w(m, a, d))
         /\ \A b \in Addr : ByteAt(memory_wr_w(m, a, d), b)
              = IF b \in a .. (a + 3) THEN Lane(d, b - a) ELSE ByteAt(m, b)
<1>1. \A b \in Addr : /\ (b \div 4 = a \div 4) <=> b \in a .. (a + 3)
                      /\ b \in a .. (a + 3) => b % 4 = b - a
  <2> TAKE b \in Addr
  <2>1. a \in Nat /\ b \in Nat /\ a % 4 = 0
    BY Neighbours DEF Aligned
  <2>2. \A x, y \in Nat : x % 4 = 0 =>
          /\ (y \div 4 = x \div 4) <=> y \in x .. (x + 3)
          /\ y \in x .. (x + 3) => y % 4 = y - x
    BY SMT
  <2> QED
    BY <2>1, <2>2
<1> QED
  BY <1>1, SetWordBytes DEF memory_wr_w

(* The two bytes of the halfword a store keeps of its data.                *)
LEMMA HalfLanes ==
  ASSUME NEW d \in Word
  PROVE  \E l0 \in Byte, l1 \in Byte :
            /\ Lane(d, 0) = l0 /\ Lane(d, 1) = l1
            /\ d % Half = l0 + ByteBase * l1
<1>1. Lane(d, 0) \in Byte /\ Lane(d, 1) \in Byte /\ Lane(d, 2) \in Byte /\ Lane(d, 3) \in Byte
      /\ d = Compose(Lane(d, 0), Lane(d, 1), Lane(d, 2), Lane(d, 3))
  BY WordLanes
<1>2. d % Half = Lane(d, 0) + ByteBase * Lane(d, 1)
  BY <1>1, ComposeLanes
<1> QED
  BY <1>1, <1>2

LEMMA WrHBytes ==
  ASSUME NEW m, IsMemory(m), NEW a \in Addr, Aligned(a, 2), NEW d \in Word
  PROVE  /\ IsMemory(memory_wr_h(m, a, d))
         /\ \A b \in Addr : ByteAt(memory_wr_h(m, a, d), b)
              = IF b \in a .. (a + 1) THEN Lane(d, b - a) ELSE ByteAt(m, b)
<1> DEFINE w == WordAt(m, a)
           h == d % Half
           v == IF a % 4 < 2 THEN w - (w % Half) + h ELSE (w % Half) + h * Half
<1>1. w \in Word
  BY GetPageType
<1>2. PICK l0 \in Byte, l1 \in Byte, l2 \in Byte, l3 \in Byte :
        /\ w = Compose(l0, l1, l2, l3)
        /\ Lane(w, 0) = l0 /\ Lane(w, 1) = l1 /\ Lane(w, 2) = l2 /\ Lane(w, 3) = l3
        /\ w % Half = l0 + ByteBase * l1
  <2>1. Lane(w, 0) \in Byte /\ Lane(w, 1) \in Byte /\ Lane(w, 2) \in Byte /\ Lane(w, 3) \in Byte
        /\ w = Compose(Lane(w, 0), Lane(w, 1), Lane(w, 2), Lane(w, 3))
    BY <1>1, WordLanes
  <2> HIDE DEF w
  <2>2. w % Half = Lane(w, 0) + ByteBase * Lane(w, 1)
    BY <2>1, ComposeLanes
  <2> QED
    BY <2>1, <2>2
<1>3. PICK d0 \in Byte, d1 \in Byte :
        Lane(d, 0) = d0 /\ Lane(d, 1) = d1 /\ h = d0 + ByteBase * d1
  BY HalfLanes
<1>4. /\ ByteBase \in Nat /\ Half \in Nat /\ Half = ByteBase * ByteBase
      /\ l0 \in Nat /\ l1 \in Nat /\ l2 \in Nat /\ l3 \in Nat /\ d0 \in Nat /\ d1 \in Nat
      /\ a \in Nat /\ a % 4 \in {0, 2}
  BY BaseFacts, Neighbours DEF Byte, Half, Aligned
<1> HIDE DEF w, h
<1>5. CASE a % 4 = 0
  <2>1. v = Compose(d0, d1, l2, l3)
    <3>1. v = w - (w % Half) + h
      BY <1>5, SMT
    <3> QED
      BY <1>2, <1>3, <1>4, <3>1, SMT DEF Compose
  <2>2. v \in Word /\ Lane(v, 0) = d0 /\ Lane(v, 1) = d1 /\ Lane(v, 2) = l2 /\ Lane(v, 3) = l3
    BY <2>1, ComposeLanes, ComposeWord
  <2> HIDE DEF v
  <2>3. ASSUME NEW b \in Addr, b \div 4 = a \div 4
        PROVE  Lane(v, b % 4) = IF b \in a .. (a + 1) THEN Lane(d, b - a) ELSE ByteAt(m, b)
    <3>1. ByteAt(m, b) = Lane(w, b % 4)
      BY <2>3, ByteAtType, SameWordAt DEF w
    <3>2. b = a \/ b = a + 1 \/ b = a + 2 \/ b = a + 3
      BY <1>4, <1>5, <2>3, Neighbours, SMT
    <3>3. CASE b = a
      <4>1. b % 4 = 0 /\ b - a = 0 /\ b \in a .. (a + 1)
        BY <1>4, <1>5, <3>3, SMT
      <4> QED
        BY <1>3, <2>2, <4>1
    <3>4. CASE b = a + 1
      <4>1. b % 4 = 1 /\ b - a = 1 /\ b \in a .. (a + 1)
        BY <1>4, <1>5, <3>4, SMT
      <4> QED
        BY <1>3, <2>2, <4>1
    <3>5. CASE b = a + 2
      <4>1. b % 4 = 2 /\ b \notin a .. (a + 1)
        BY <1>4, <1>5, <3>5, SMT
      <4> QED
        BY <1>2, <2>2, <3>1, <4>1
    <3>6. CASE b = a + 3
      <4>1. b % 4 = 3 /\ b \notin a .. (a + 1)
        BY <1>4, <1>5, <3>6, SMT
      <4> QED
        BY <1>2, <2>2, <3>1, <4>1
    <3> QED
      BY <3>2, <3>3, <3>4, <3>5, <3>6
  <2>4. ASSUME NEW b \in Addr, b \div 4 # a \div 4
        PROVE  b \notin a .. (a + 1)
    BY <1>4, <1>5, <2>4, Neighbours, SMT
  <2>5. memory_wr_h(m, a, d) = SetWord(m, a, v)
    BY DEF memory_wr_h, v, w, h
  <2> QED
    BY <2>2, <2>3, <2>4, <2>5, SetWordBytes
<1>6. CASE a % 4 = 2
  <2>1. v = Compose(l0, l1, d0, d1)
    <3>1. v = (w % Half) + h * Half
      BY <1>6, SMT
    <3>2. (d0 + ByteBase * d1) * Half
            = ByteBase * (ByteBase * (d0 + ByteBase * d1))
      BY <1>4, SMT
    <3>3. ByteBase * (l1 + ByteBase * (d0 + ByteBase * d1))
            = ByteBase * l1 + ByteBase * (ByteBase * (d0 + ByteBase * d1))
      BY <1>4, SMT
    <3> QED
      BY <1>2, <1>3, <1>4, <3>1, <3>2, <3>3, SMT DEF Compose
  <2>2. v \in Word /\ Lane(v, 0) = l0 /\ Lane(v, 1) = l1 /\ Lane(v, 2) = d0 /\ Lane(v, 3) = d1
    BY <2>1, ComposeLanes, ComposeWord
  <2> HIDE DEF v
  <2>3. ASSUME NEW b \in Addr, b \div 4 = a \div 4
        PROVE  Lane(v, b % 4) = IF b \in a .. (a + 1) THEN Lane(d, b - a) ELSE ByteAt(m, b)
    <3>1. ByteAt(m, b) = Lane(w, b % 4)
      BY <2>3, ByteAtType, SameWordAt DEF w
    <3>2. b = a \/ b = a + 1 \/ b = a - 1 \/ b = a - 2
      BY <1>4, <1>6, <2>3, Neighbours, SMT
    <3>3. CASE b = a
      <4>1. b % 4 = 2 /\ b - a = 0 /\ b \in a .. (a + 1)
        BY <1>4, <1>6, <3>3, SMT
      <4> QED
        BY <1>3, <2>2, <4>1
    <3>4. CASE b = a + 1
      <4>1. b % 4 = 3 /\ b - a = 1 /\ b \in a .. (a + 1)
        BY <1>4, <1>6, <3>4, SMT
      <4> QED
        BY <1>3, <2>2, <4>1
    <3>5. CASE b = a - 1
      <4>1. b % 4 = 1 /\ b \notin a .. (a + 1)
        BY <1>4, <1>6, <3>5, SMT
      <4> QED
        BY <1>2, <2>2, <3>1, <4>1
    <3>6. CASE b = a - 2
      <4>1. b % 4 = 0 /\ b \notin a .. (a + 1)
        BY <1>4, <1>6, <3>6, SMT
      <4> QED
        BY <1>2, <2>2, <3>1, <4>1
    <3> QED
      BY <3>2, <3>3, <3>4, <3>5, <3>6
  <2>4. ASSUME NEW b \in Addr, b \div 4 # a \div 4
        PROVE  b \notin a .. (a + 1)
    BY <1>4, <1>6, <2>4, Neighbours, SMT
  <2>5. memory_wr_h(m, a, d) = SetWord(m, a, v)
    BY DEF memory_wr_h, v, w, h
  <2> QED
    BY <2>2, <2>3, <2>4, <2>5, SetWordBytes
<1> QED
  BY <1>4, <1>5, <1>6

LEMMA WrBBytes ==
  ASSUME NEW m, IsMemory(m), NEW a \in Addr, NEW d \in Word
  PROVE  /\ IsMemory(memory_wr_b(m, a, d))
         /\ \A b \in Addr : ByteAt(memory_wr_b(m, a, d), b)
              = IF b = a THEN Lane(d, 0) ELSE ByteAt(m, b)
<1> DEFINE w == WordAt(m, a)
           v == PutLane(w, a % 4, d % ByteBase)
<1>1. w \in Word /\ a % 4 \in 0 .. 3 /\ a \in Nat
  BY GetPageType, AddressParts, Neighbours
<1>2. d % ByteBase \in Byte /\ Lane(d, 0) = d % ByteBase
  <2>1. d \in Nat /\ d \div 1 = d
    BY BaseFacts, SMT DEF Word
  <2>2. d % ByteBase \in Byte
    BY <2>1, BaseFacts, DivMod DEF Byte
  <2> QED
    BY <2>1, <2>2 DEF Lane, Shift
<1>3. v \in Word /\ \A j \in 0 .. 3 : Lane(v, j) = IF j = a % 4 THEN d % ByteBase ELSE Lane(w, j)
  BY <1>1, <1>2, PutLaneLanes
<1>4. ASSUME NEW b \in Addr, b \div 4 = a \div 4
      PROVE  Lane(v, b % 4) = IF b = a THEN Lane(d, 0) ELSE ByteAt(m, b)
  <2>1. b % 4 \in 0 .. 3 /\ (b % 4 = a % 4 <=> b = a)
    BY <1>1, <1>4, Neighbours, SMT
  <2>2. ByteAt(m, b) = Lane(w, b % 4)
    BY <1>4, ByteAtType, SameWordAt
  <2> HIDE DEF w, v
  <2> QED
    BY <1>2, <1>3, <2>1, <2>2
<1>5. memory_wr_b(m, a, d) = SetWord(m, a, v)
  BY DEF memory_wr_b
<1> HIDE DEF w, v
<1> QED
  BY <1>3, <1>4, <1>5, SetWordBytes

LEMMA RdBytes ==
  ASSUME NEW m, IsMemory(m), NEW a \in Addr
  PROVE  /\ memory_rd_b(m, a) = ByteAt(m, a) /\ ByteAt(m, a) \in Byte
         /\ Aligned(a, 2) =>
              /\ a + 1 \in Addr
              /\ memory_rd_h(m, a) = ByteAt(m, a) + ByteBase * ByteAt(m, a + 1)
              /\ memory_rd_h(m, a) \in 0 .. (Half - 1)
         /\ Aligned(a, 4) =>
              /\ a + 1 \in Addr /\ a + 2 \in Addr /\ a + 3 \in Addr
              /\ memory_rd_w(m, a) = Compose(ByteAt(m, a), ByteAt(m, a + 1),
                                             ByteAt(m, a + 2), ByteAt(m, a + 3))
         /\ memory_rd_w(m, a) \in Word
<1> DEFINE w == WordAt(m, a)
<1>1. w \in Word /\ ByteAt(m, a) \in Byte /\ ByteAt(m, a) = Lane(w, a % 4)
  BY GetPageType, ByteAtType
<1>2. Lane(w, 0) \in Byte /\ Lane(w, 1) \in Byte /\ Lane(w, 2) \in Byte /\ Lane(w, 3) \in Byte
      /\ w = Compose(Lane(w, 0), Lane(w, 1), Lane(w, 2), Lane(w, 3))
  BY <1>1, WordLanes
<1>3. \A b \in Addr : b \div 4 = a \div 4 => ByteAt(m, b) = Lane(w, b % 4)
  BY ByteAtType, SameWordAt
<1>4. memory_rd_b(m, a) = Lane(w, a % 4) /\ memory_rd_w(m, a) = w
      /\ memory_rd_h(m, a) = (w \div (IF a % 4 < 2 THEN 1 ELSE Half)) % Half
  BY DEF memory_rd_b, memory_rd_w, memory_rd_h
<1> HIDE DEF w
<1>5. ASSUME Aligned(a, 4)
      PROVE  /\ a + 1 \in Addr /\ a + 2 \in Addr /\ a + 3 \in Addr
             /\ w = Compose(ByteAt(m, a), ByteAt(m, a + 1),
                            ByteAt(m, a + 2), ByteAt(m, a + 3))
  <2>1. /\ a + 1 \in Addr /\ a + 2 \in Addr /\ a + 3 \in Addr /\ a % 4 = 0
        /\ (a + 1) \div 4 = a \div 4 /\ (a + 2) \div 4 = a \div 4 /\ (a + 3) \div 4 = a \div 4
        /\ (a + 1) % 4 = 1 /\ (a + 2) % 4 = 2 /\ (a + 3) % 4 = 3
    BY <1>5, Neighbours DEF Aligned
  <2> QED
    BY <1>1, <1>2, <1>3, <2>1
<1>6. ASSUME Aligned(a, 2)
      PROVE  /\ a + 1 \in Addr
             /\ memory_rd_h(m, a) = ByteAt(m, a) + ByteBase * ByteAt(m, a + 1)
             /\ memory_rd_h(m, a) \in 0 .. (Half - 1)
  <2>1. /\ a + 1 \in Addr /\ a % 4 \in {0, 2} /\ (a + 1) \div 4 = a \div 4
        /\ (a + 1) % 4 = (a % 4) + 1
    BY <1>6, Neighbours DEF Aligned
  <2>2. w % Half = Lane(w, 0) + ByteBase * Lane(w, 1)
        /\ w \div Half = Lane(w, 2) + ByteBase * Lane(w, 3)
    BY <1>2, ComposeLanes
  <2>3. ByteAt(m, a + 1) = Lane(w, (a % 4) + 1)
    BY <1>3, <2>1
  <2>4. CASE a % 4 = 0
    <3>1. memory_rd_h(m, a) = w % Half
      <4>1. w \in Nat /\ w \div 1 = w
        BY <1>1, BaseFacts, SMT DEF Word
      <4>2. a % 4 < 2
        BY <2>4
      <4> QED
        BY <1>4, <4>1, <4>2
    <3>2. ByteAt(m, a) = Lane(w, 0) /\ ByteAt(m, a + 1) = Lane(w, 1)
      BY <1>1, <2>3, <2>4
    <3> QED
      BY <1>2, <2>1, <2>2, <3>1, <3>2, ComposeWord
  <2>5. CASE a % 4 = 2
    <3>1. memory_rd_h(m, a) = (w \div Half) % Half
      <4>1. ~ (a % 4 < 2)
        BY <2>5
      <4> QED
        BY <1>4, <4>1
    <3>2. PICK h \in 0 .. (Half - 1) : h = Lane(w, 2) + ByteBase * Lane(w, 3)
      BY <1>2, ComposeWord
    <3>3. h % Half = h
      BY <3>2, BaseFacts, SMT
    <3>4. ByteAt(m, a) = Lane(w, 2) /\ ByteAt(m, a + 1) = Lane(w, 3)
      <4>1. (a % 4) + 1 = 3
        BY <2>5
      <4> QED
        BY <1>1, <2>3, <2>5, <4>1
    <3> QED
      BY <2>1, <2>2, <3>1, <3>2, <3>3, <3>4
  <2> QED
    BY <2>1, <2>4, <2>5
<1> QED
  BY <1>1, <1>4, <1>5, <1>6

-----------------------------------------------------------------------------
(* Predictors.                                                             *)

(* The parts of a predictor that has a table.                              *)
LEMMA TableFacts ==
  ASSUME NEW p, PredictorOK(p), HasTable(p)
  PROVE  /\ p.size \in Nat \ {0}
         /\ p.table \in [0 .. (p.size - 1) -> Counter]
         /\ p.kind = "bimodal" =>
              p = [kind |-> "bimodal", size |-> p.size, table |-> p.table]
         /\ p.kind = "gshare" =>
              p = [kind |-> "gshare", size |-> p.size, table |-> p.table,
                   ghr |-> p.ghr, ghr_bits |-> p.ghr_bits]
<1>1. p \notin {NoPredictor, predictor_nt, predictor_btfnt}
  BY DEF HasTable, NoPredictor, predictor_nt, predictor_btfnt
<1> QED
  BY <1>1 DEF PredictorOK

(* What training does to a predictor: at most one counter moves, by one    *)
(* step of Count.                                                          *)
LEMMA UpdateFacts ==
  ASSUME NEW p, PredictorOK(p), HasTable(p), NEW pc, NEW target, NEW taken \in Outcome,
         NEW q, q = update(p, pc, target, taken)
  PROVE  /\ PredictorOK(q) /\ HasTable(q)
         /\ DOMAIN q.table = DOMAIN p.table
         /\ q.table = [p.table EXCEPT ![Entry(p, pc)] = Count(@, taken)]
<1> DEFINE e == Entry(p, pc)
           t == [p.table EXCEPT ![e] = Count(@, taken)]
<1>1. /\ p.size \in Nat \ {0}
      /\ p.table \in [0 .. (p.size - 1) -> Counter]
  BY TableFacts
<1>2. t \in [0 .. (p.size - 1) -> Counter]
  <2>1. \A c \in Counter : Count(c, taken) \in Counter
    BY SMT DEF Count, Counter
  <2> QED
    BY <1>1, <2>1
<1> HIDE DEF e
<1>3. CASE p.kind = "bimodal"
  <2>1. p = [kind |-> "bimodal", size |-> p.size, table |-> p.table]
    BY <1>3, TableFacts
  <2>2. q = [p EXCEPT !.table = t]
    BY <1>3, <2>1 DEF update, Trained, e
  <2> HIDE DEF t
  <2>3. q = [kind |-> "bimodal", size |-> p.size, table |-> t]
    BY <2>1, <2>2
  <2>4. q.kind = "bimodal" /\ q.size = p.size /\ q.table = t
    BY <2>3
  <2>5. PredictorOK(q) /\ HasTable(q)
    BY <1>1, <1>2, <2>3, <2>4 DEF PredictorOK, HasTable
  <2>6. DOMAIN q.table = DOMAIN p.table
    BY <1>1, <1>2, <2>4
  <2> QED
    BY <2>4, <2>5, <2>6 DEF t, e
<1>4. CASE p.kind = "gshare"
  <2>1. p = [kind |-> "gshare", size |-> p.size, table |-> p.table,
             ghr |-> p.ghr, ghr_bits |-> p.ghr_bits]
    BY <1>4, TableFacts
  <2>2. Trained(p, pc, taken) = [p EXCEPT !.table = t]
    BY <2>1 DEF Trained, e
  <2>3. PICK g : q = [Trained(p, pc, taken) EXCEPT !.ghr = g]
    BY <1>4 DEF update
  <2> HIDE DEF t
  <2>4. q = [kind |-> "gshare", size |-> p.size, table |-> t,
             ghr |-> g, ghr_bits |-> p.ghr_bits]
    <3> DEFINE r == [kind |-> "gshare", size |-> p.size, table |-> t,
                     ghr |-> p.ghr, ghr_bits |-> p.ghr_bits]
    <3>1. Trained(p, pc, taken) = r
      BY <2>1, <2>2
    <3>2. q = [r EXCEPT !.ghr = g]
      BY <2>3, <3>1
    <3> QED
      BY <3>2
  <2>5. /\ q.kind = "gshare" /\ q.size = p.size /\ q.table = t
        /\ q.ghr = g /\ q.ghr_bits = p.ghr_bits
    BY <2>4
  <2>6. PredictorOK(q) /\ HasTable(q)
    BY <1>1, <1>2, <2>4, <2>5 DEF PredictorOK, HasTable
  <2>7. DOMAIN q.table = DOMAIN p.table
    BY <1>1, <1>2, <2>5
  <2> QED
    BY <2>5, <2>6, <2>7 DEF t, e
<1> QED
  BY <1>3, <1>4 DEF HasTable

(* Training changes neither what a predictor is nor how large its table is. *)
LEMMA UpdateKeeps ==
  ASSUME NEW p, PredictorOK(p), HasTable(p), NEW pc, NEW target, NEW taken
  PROVE  update(p, pc, target, taken).kind = p.kind /\ update(p, pc, target, taken).size = p.size
<1>1. CASE p.kind = "bimodal"
  <2>1. p = [kind |-> "bimodal", size |-> p.size, table |-> p.table]
    BY <1>1, TableFacts
  <2>2. PICK t : Trained(p, pc, taken) = [p EXCEPT !.table = t]
    BY <2>1 DEF Trained
  <2>3. update(p, pc, target, taken) = Trained(p, pc, taken)
    BY <1>1 DEF update
  <2> QED
    BY <2>1, <2>2, <2>3
<1>2. CASE p.kind = "gshare"
  <2>1. p = [kind |-> "gshare", size |-> p.size, table |-> p.table,
             ghr |-> p.ghr, ghr_bits |-> p.ghr_bits]
    BY <1>2, TableFacts
  <2>2. PICK t : Trained(p, pc, taken) = [p EXCEPT !.table = t]
    BY <2>1 DEF Trained
  <2>3. PICK g : update(p, pc, target, taken) = [Trained(p, pc, taken) EXCEPT !.ghr = g]
    BY <1>2 DEF update
  <2> QED
    BY <2>1, <2>2, <2>3
<1> QED
  BY <1>1, <1>2 DEF HasTable

-----------------------------------------------------------------------------
(* What a constructor returns has the right type and only weakly taken     *)
(* counters.                                                               *)
LEMMA BuildFacts ==
  ASSUME NEW n, NEW s \in Int
  PROVE  LET p == build_predictor(n, s) IN
         /\ PredictorOK(p)
         /\ HasTable(p) => \A e \in DOMAIN p.table : p.table[e] = WeaklyTaken
<1> DEFINE p == build_predictor(n, s)
<1>1. is_power_of_two(s) => s \in Nat \ {0}
  BY DEF is_power_of_two
<1>2. \/ p = NoPredictor
      \/ p = predictor_nt
      \/ p = predictor_btfnt
      \/ p = predictor_bimodal(s) /\ is_power_of_two(s)
      \/ p = predictor_gshare(s) /\ is_power_of_two(s)
  BY Zenon DEF build_predictor, predictor_bimodal, predictor_gshare
<1> HIDE DEF p
<1>3. CASE p \in {NoPredictor, predictor_nt, predictor_btfnt}
  BY <1>3 DEF p, PredictorOK, HasTable, NoPredictor, predictor_nt, predictor_btfnt
<1>4. CASE p = predictor_bimodal(s) /\ is_power_of_two(s)
  <2>1. p = [kind |-> "bimodal", size |-> s,
             table |-> [i \in 0 .. (s - 1) |-> WeaklyTaken]]
    BY <1>4 DEF predictor_bimodal
  <2>2. p.kind = "bimodal" /\ p.size = s
        /\ p.table = [i \in 0 .. (s - 1) |-> WeaklyTaken]
    BY <2>1
  <2> QED
    BY <1>1, <1>4, <2>1, <2>2 DEF p, PredictorOK, HasTable, Counter, WeaklyTaken
<1>5. CASE p = predictor_gshare(s) /\ is_power_of_two(s)
  <2>1. PICK b : p = [kind |-> "gshare", size |-> s,
                      table |-> [i \in 0 .. (s - 1) |-> WeaklyTaken],
                      ghr |-> 0, ghr_bits |-> b]
    BY <1>5 DEF predictor_gshare
  <2>2. p.kind = "gshare" /\ p.size = s
        /\ p.table = [i \in 0 .. (s - 1) |-> WeaklyTaken]
        /\ p.ghr = 0 /\ p.ghr_bits = b
    BY <2>1
  <2> QED
    BY <1>1, <1>5, <2>1, <2>2 DEF p, PredictorOK, HasTable, Counter, WeaklyTaken
<1> QED
  BY <1>2, <1>3, <1>4, <1>5

(* What one branch does to a predictor and to the statistics.              *)
LEMMA AfterBranchFacts ==
  ASSUME NEW p, PredictorOK(p), NEW st, NEW pc, NEW target, NEW t \in Outcome,
         st.total_branches \in Nat, st.mispredictions \in Nat
  PROVE  LET after == AfterBranch(p, st, pc, target, t) IN
         /\ PredictorOK(after.predictor)
         /\ after.predictor.kind = p.kind
         /\ IF HasTable(p) THEN after.predictor.size = p.size ELSE after.predictor = p
         /\ p.kind = "none" => after.stats = st
         /\ p.kind # "none" =>
              /\ after.stats \in [total_branches : Nat, mispredictions : Nat]
              /\ after.stats.total_branches = st.total_branches + 1
              /\ after.stats.mispredictions =
                   IF predict(p, pc, target) # t THEN st.mispredictions + 1
                                                 ELSE st.mispredictions
<1> DEFINE q == update(p, pc, target, t)
           m == IF predict(p, pc, target) # t THEN st.mispredictions + 1
                                              ELSE st.mispredictions
<1>1. CASE p.kind = "none"
  BY <1>1 DEF AfterBranch, HasTable
<1>2. CASE p.kind # "none"
  <2>1. AfterBranch(p, st, pc, target, t)
          = [predictor |-> q,
             stats |-> [total_branches |-> st.total_branches + 1, mispredictions |-> m]]
    BY <1>2 DEF AfterBranch
  <2>2. /\ PredictorOK(q) /\ q.kind = p.kind
        /\ IF HasTable(p) THEN q.size = p.size ELSE q = p
    <3>1. CASE HasTable(p)
      <4>1. PredictorOK(q)
        BY <3>1, UpdateFacts
      <4>2. q.kind = p.kind /\ q.size = p.size
        BY <3>1, UpdateKeeps
      <4> QED
        BY <3>1, <4>1, <4>2
    <3>2. CASE ~ HasTable(p)
      <4>1. q = p
        BY <3>2 DEF update, HasTable
      <4> QED
        BY <3>2, <4>1
    <3> QED
      BY <3>1, <3>2
  <2>3. m \in Nat
    OBVIOUS
  <2> HIDE DEF q
  <2> QED
    BY <1>2, <2>1, <2>2, <2>3
<1> QED
  BY <1>1, <1>2

-----------------------------------------------------------------------------
(* The bits of & | ^, and of sums of powers.                               *)
LEMMA BitOfFromBits ==
  ASSUME NEW S \in SUBSET (0 .. (Width - 1)), NEW i \in 0 .. (Width - 1)
  PROVE  BitOf(FromBits(S), i) = IF i \in S THEN 1 ELSE 0
  BY WidthAssumption, BitsOfSum DEF FromBits

LEMMA BitsOfLogic ==
  ASSUME NEW a, NEW b, NEW i \in 0 .. (Width - 1)
  PROVE  /\ BitOf(BitXor(a, b), i) = IF (BitOf(a, i) = 1) # (BitOf(b, i) = 1) THEN 1 ELSE 0
         /\ BitOf(BitOr(a, b), i) = IF BitOf(a, i) = 1 \/ BitOf(b, i) = 1 THEN 1 ELSE 0
         /\ BitOf(BitAnd(a, b), i) = IF BitOf(a, i) = 1 /\ BitOf(b, i) = 1 THEN 1 ELSE 0
<1>1. \A x : BitsOf(x) \in SUBSET (0 .. (Width - 1)) /\ (i \in BitsOf(x) <=> BitOf(x, i) = 1)
  BY DEF BitsOf, BitOf
<1>2. BitOf(BitXor(a, b), i) = IF i \in SymDiff(BitsOf(a), BitsOf(b)) THEN 1 ELSE 0
  BY <1>1, BitOfFromBits DEF BitXor, SymDiff
<1>3. BitOf(BitOr(a, b), i) = IF i \in BitsOf(a) \cup BitsOf(b) THEN 1 ELSE 0
  BY <1>1, BitOfFromBits DEF BitOr
<1>4. BitOf(BitAnd(a, b), i) = IF i \in BitsOf(a) \cap BitsOf(b) THEN 1 ELSE 0
  BY <1>1, BitOfFromBits DEF BitAnd
<1> QED
  BY <1>1, <1>2, <1>3, <1>4 DEF SymDiff

(* A size that the constructors accept.                                    *)
LEMMA PowerOfTwo ==
  ASSUME NEW x \in 1 .. (2^Width - 1), BitAnd(x, x - 1) = 0
  PROVE  \E k \in 0 .. (Width - 1) : x = 2^k
<1> DEFINE Above == {i \in Nat : x < 2^i}
<1>1. Width \in Nat /\ 2^Width \in Nat
  BY WidthAssumption, Powers
<1>2. Above # {} /\ Above \subseteq Nat
  BY <1>1
<1>3. PICK m \in Above : \A i \in Above : m <= i
  BY <1>2, LeastOfSet
<1>4. m \in Nat /\ x < 2^m /\ m <= Width
  BY <1>1, <1>3
<1>5. m # 0
  <2>1. m = 0 => 2^m = 1
    OBVIOUS
  <2>2. x >= 1
    BY <1>1
  <2> QED
    BY <1>1, <1>4, <2>1, <2>2
<1>6. PICK k \in 0 .. (Width - 1) : k = m - 1
  BY <1>1, <1>4, <1>5
<1>7. PICK p \in Nat \ {0} : p = 2^k /\ 2^m = 2 * p
  <2>1. k \in Nat /\ m = k + 1
    BY <1>4, <1>6
  <2> QED
    BY <2>1, Powers
<1>8. p <= x /\ x < 2 * p
  <2>1. k \notin Above /\ k \in Nat
    BY <1>3, <1>4, <1>6
  <2> QED
    BY <1>4, <1>7, <2>1
<1>9. CASE x # p
  <2>1. x \div p = 1 /\ (x - 1) \div p = 1
    BY <1>8, <1>9, SMT
  <2>2. BitOf(x, k) = 1 /\ BitOf(x - 1, k) = 1
    BY <1>7, <2>1 DEF BitOf
  <2>3. BitOf(BitAnd(x, x - 1), k) = 1
    BY <2>2, BitsOfLogic
  <2>4. 0 \div p = 0
    BY SMT
  <2> QED
    BY <1>7, <2>3, <2>4 DEF BitOf
<1> QED
  BY <1>7, <1>9

LEMMA LogOfPower ==
  ASSUME NEW k \in 0 .. (Width - 1)
  PROVE  log2_int(2^k) = k
<1>1. Width \in Nat \ {0} /\ k \in Nat
  BY WidthAssumption
<1>2. ASSUME NEW i \in 0 .. (Width - 1) PROVE 2^k \div 2^i > 1 <=> i < k
  <2>1. PICK p \in Nat \ {0} : p = 2^k
    BY <1>1, Powers
  <2>2. PICK q \in Nat \ {0} : q = 2^i
    BY Powers
  <2>3. CASE i < k
    <3>1. PICK j \in Nat : k = i + (j + 1)
      <4>1. k - i - 1 \in Nat /\ k = i + ((k - i - 1) + 1)
        BY <1>1, <2>3
      <4> QED
        BY <4>1
    <3>2. PICK r \in Nat \ {0} : r = 2^j /\ 2^(j + 1) = 2 * r
      BY Powers
    <3>3. p = q * (2 * r)
      <4>1. 2^(i + (j + 1)) = 2^i * 2^(j + 1)
        <5>1. i \in Nat /\ j + 1 \in Nat
          BY <1>1
        <5> QED
          BY <5>1, PowerSum
      <4> QED
        BY <2>1, <2>2, <3>1, <3>2, <4>1
    <3>4. \A c \in Nat : (q * c + 0) \div q = c
      BY IntDivModUnique
    <3>5. p \div q = 2 * r
      BY <3>3, <3>4
    <3> QED
      BY <2>1, <2>2, <2>3, <3>5
  <2>4. CASE ~ (i < k)
    <3>1. p <= q
      BY <1>1, <2>1, <2>2, <2>4, PowerUp
    <3>2. p \div q <= 1
      BY <3>1, SMT
    <3>3. p \div q \in Int
      BY IntDivMod
    <3> QED
      BY <2>1, <2>2, <2>4, <3>2, <3>3
  <2> QED
    BY <2>3, <2>4
<1>3. {i \in 0 .. (Width - 1) : 2^k \div 2^i > 1} = 0 .. (k - 1)
  BY <1>1, <1>2
<1>4. Cardinality(0 .. (k - 1)) = k
  BY <1>1, FS_Interval
<1> QED
  BY <1>3, <1>4 DEF log2_int

=============================================================================
