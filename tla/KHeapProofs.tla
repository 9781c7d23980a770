------------------------------ MODULE KHeapProofs ------------------------------
(***************************************************************************)
(* Proofs about the blocks of KHeap and their allocator, for any sizes of  *)
(* pages, blocks and requests, and any number of pages and frames.         *)
(*                                                                         *)
(* KHeapInv: what the words of the block area mean.  There is a set of     *)
(* blocks, laid end to end from the first one to the break, whose tags     *)
(* have their sizes and whether they are in use, of which no two           *)
(* neighbours are free and the free ones are in the list.  In use are the  *)
(* blocks of the callers of kmalloc() and the elements of the page list,   *)
(* each as large as what was asked for.  From bottom to top: words and     *)
(* tags, blocks laid end to end, taking, splitting, joining and resizing   *)
(* one, alloc_block() and sbrk(), the page list, the calls, and the walk   *)
(* along the tags by which HeapTiled and BlocksOwned find the blocks.      *)
(***************************************************************************)
EXTENDS KHeap, CommonTheorems

-----------------------------------------------------------------------------
(* The lowest bit of a tag *)

Evens == {n \in Int : n % 2 = 0}

\* Even numbers.
LEMMA EvenSums ==
  ASSUME NEW m \in Evens, NEW n \in Evens
  PROVE  m + n \in Evens /\ m - n \in Evens
BY DEF Evens

\* A tag of size n, with or without the flag.
LEMMA Flags ==
  ASSUME NEW n \in Evens
  PROVE  /\ n \in Int /\ n % 2 = 0 /\ (n + 1) % 2 = 1
         /\ n - (n % 2) = n /\ (n + 1) - ((n + 1) % 2) = n
         /\ n # Garbage => OrOne(n) = n + 1
         /\ Minus1(n + 1) = IF n = -2 THEN Garbage ELSE n
         /\ n + 1 # Garbage => OrOne(n + 1) = n + 1
BY DEF Evens, OrOne, Minus1, Garbage

-----------------------------------------------------------------------------
(* Lists in the order of their elements *)

Ordered(s) == \A i, j \in DOMAIN s : i < j => s[i] < s[j]

\* The list of the numbers F in their order.
InOrder(s, F) == s \in Seq(Int) /\ Ordered(s) /\ Elems(s) = F

\* An ordered list has no element twice.
LEMMA OrderedOnce ==
  ASSUME NEW s \in Seq(Int), Ordered(s)
  PROVE  \A i, j \in DOMAIN s : /\ s[i] < s[j] <=> i < j
                                /\ s[i] = s[j] => i = j
<1>1. DOMAIN s = 1 .. Len(s) /\ Len(s) \in Nat /\ \A i \in DOMAIN s : s[i] \in Int
  OBVIOUS
<1>2. ASSUME NEW i \in DOMAIN s, NEW j \in DOMAIN s
      PROVE  (s[i] < s[j] <=> i < j) /\ (s[i] = s[j] => i = j)
  <2>1. i \in Int /\ j \in Int /\ s[i] \in Int /\ s[j] \in Int
    BY <1>1
  <2>2. (i < j => s[i] < s[j]) /\ (j < i => s[j] < s[i])
    BY DEF Ordered
  <2>3. QED
    BY <2>1, <2>2
<1>3. QED
  BY <1>2

\* The elements of two lists, one behind the other.
LEMMA Concatenated ==
  ASSUME NEW S, NEW a \in Seq(S), NEW b \in Seq(S)
  PROVE  /\ a \o b \in Seq(S) /\ Len(a \o b) = Len(a) + Len(b)
         /\ \A i \in 1 .. Len(a) + Len(b) : (a \o b)[i] = IF i <= Len(a) THEN a[i] ELSE b[i - Len(a)]
OBVIOUS

\* Removing an element.
LEMMA OrderedRemove ==
  ASSUME NEW s \in Seq(Int), Ordered(s), NEW h \in DOMAIN s
  PROVE  InOrder(RemoveAt(s, h), Elems(s) \ {s[h]})
<1> DEFINE r == RemoveAt(s, h)
           at(i) == IF i < h THEN i ELSE i + 1
<1>0. Len(s) \in Nat /\ DOMAIN s = 1 .. Len(s) /\ h \in 1 .. Len(s)
  OBVIOUS
<1>1. /\ r \in Seq(Int) /\ Len(r) = Len(s) - 1
      /\ \A i \in 1 .. Len(s) - 1 : r[i] = s[at(i)]
  BY RemoveElement
<1> HIDE DEF r
<1>2. DOMAIN r = 1 .. Len(s) - 1
  BY <1>1
<1>3. /\ \A i \in DOMAIN r : at(i) \in DOMAIN s /\ at(i) # h /\ r[i] = s[at(i)]
      /\ \A i, j \in DOMAIN r : i < j => at(i) < at(j)
  <2>1. ASSUME NEW i \in DOMAIN r
        PROVE  at(i) \in DOMAIN s /\ at(i) # h /\ r[i] = s[at(i)]
    <3>1. i \in 1 .. Len(s) - 1 /\ at(i) \in DOMAIN s /\ at(i) # h
      BY <1>0, <1>2
    <3> HIDE DEF at
    <3>2. QED
      BY <1>1, <3>1
  <2>2. ASSUME NEW i \in DOMAIN r, NEW j \in DOMAIN r, i < j
        PROVE  at(i) < at(j)
    BY <1>0, <1>2, <2>2
  <2>3. QED
    BY <2>1, <2>2
<1>4. \A k \in DOMAIN s : k # h => \E i \in DOMAIN r : at(i) = k
  <2>1. ASSUME NEW k \in DOMAIN s, k # h
        PROVE  \E i \in DOMAIN r : at(i) = k
    <3>1. CASE k < h
      BY <1>0, <1>2, <3>1
    <3>2. CASE ~(k < h)
      <4>1. k \in Int /\ k > h /\ k <= Len(s) /\ h >= 1 /\ h \in Int
        BY <1>0, <2>1, <3>2
      <4>2. k - 1 \in DOMAIN r /\ at(k - 1) = k
        BY <1>0, <1>2, <4>1
      <4>3. QED
        BY <4>2
    <3>3. QED
      BY <3>1, <3>2
  <2>2. QED
    BY <2>1
<1> HIDE DEF at
<1>5. Ordered(r)
  BY <1>3 DEF Ordered
<1>6. Elems(r) = Elems(s) \ {s[h]}
  <2>1. ASSUME NEW x \in Elems(r)
        PROVE  x \in Elems(s) \ {s[h]}
    <3>1. PICK i \in DOMAIN r : x = r[i]
      BY DEF Elems
    <3>2. x = s[at(i)] /\ at(i) \in DOMAIN s /\ at(i) # h
      BY <1>3, <3>1
    <3>3. QED
      BY <3>2, OrderedOnce DEF Elems
  <2>2. ASSUME NEW x \in Elems(s), x # s[h]
        PROVE  x \in Elems(r)
    <3>1. PICK k \in DOMAIN s : x = s[k]
      BY DEF Elems
    <3>2. PICK i \in DOMAIN r : at(i) = k
      BY <1>4, <2>2, <3>1
    <3>3. QED
      BY <1>3, <3>1, <3>2 DEF Elems
  <2>3. QED
    BY <2>1, <2>2
<1>7. QED
  BY <1>1, <1>5, <1>6 DEF r, InOrder

\* For the elements x, v is where w is.
SamePlace(x, v, w) == (x < w => x < v) /\ (x > w => x > v)

\* Replacing an element by one that has the same place in the order.
LEMMA OrderedReplace ==
  ASSUME NEW s \in Seq(Int), Ordered(s), NEW h \in DOMAIN s, NEW v \in Int,
         \A x \in Elems(s) : SamePlace(x, v, s[h])
  PROVE  InOrder(ReplaceAt(s, h, v), (Elems(s) \ {s[h]}) \union {v})
<1> DEFINE r == ReplaceAt(s, h, v)
<1>1. /\ r \in Seq(Int) /\ DOMAIN r = DOMAIN s /\ r[h] = v /\ \A i \in DOMAIN s : i # h => r[i] = s[i]
      /\ \A i \in DOMAIN s : i \in Int /\ s[i] \in Int
  BY DEF ReplaceAt
<1> HIDE DEF r
<1>2. Ordered(r)
  <2>1. ASSUME NEW i \in DOMAIN s, NEW j \in DOMAIN s, i < j
        PROVE  r[i] < r[j]
    <3>1. s[i] < s[j] /\ s[i] \in Elems(s) /\ s[j] \in Elems(s)
      BY <2>1 DEF Ordered, Elems
    <3>2. CASE i = h
      <4>1. j # h /\ s[j] > s[h]
        BY <1>1, <2>1, <3>1, <3>2
      <4>2. QED
        BY <1>1, <3>1, <3>2, <4>1 DEF SamePlace
    <3>3. CASE j = h
      <4>1. i # h /\ s[i] < s[h]
        BY <1>1, <2>1, <3>1, <3>3
      <4>2. QED
        BY <1>1, <3>1, <3>3, <4>1 DEF SamePlace
    <3>4. CASE i # h /\ j # h
      BY <1>1, <3>1, <3>4
    <3>5. QED
      BY <3>2, <3>3, <3>4
  <2>2. QED
    BY <1>1, <2>1 DEF Ordered
<1>3. Elems(r) = (Elems(s) \ {s[h]}) \union {v}
  <2>1. \A i \in DOMAIN s : i # h => s[i] # s[h]
    BY OrderedOnce
  <2>2. QED
    BY <1>1, <2>1 DEF Elems
<1>4. QED
  BY <1>1, <1>2, <1>3 DEF r, InOrder

\* r is s with v at position h.
Inserted(r, S, s, h, v) ==
  /\ r \in Seq(S) /\ DOMAIN r = 1 .. Len(s) + 1
  /\ \A i \in 1 .. Len(s) + 1 : r[i] = IF i < h THEN s[i] ELSE IF i = h THEN v ELSE s[i - 1]

\* Inserting an element.
LEMMA InsertElement ==
  ASSUME NEW S, NEW s \in Seq(S), NEW h \in 1 .. Len(s) + 1, NEW v \in S
  PROVE  Inserted(InsertAt(s, h, v), S, s, h, v)
<1>1. Len(s) \in Nat /\ DOMAIN s = 1 .. Len(s) /\ \A i \in DOMAIN s : s[i] \in S
  OBVIOUS
<1> DEFINE a == SubSeq(s, 1, h - 1)
           b == SubSeq(s, h, Len(s))
           c == a \o <<v>>
           r == InsertAt(s, h, v)
<1>2. /\ a \in Seq(S) /\ Len(a) = h - 1 /\ \A i \in 1 .. h - 1 : a[i] = s[i]
  BY <1>1
<1>3. /\ b \in Seq(S) /\ Len(b) = Len(s) - h + 1 /\ \A i \in 1 .. Len(s) - h + 1 : b[i] = s[h + i - 1]
  BY <1>1
<1>4. r = c \o b
  BY DEF InsertAt
<1> HIDE DEF a, b
<1>5. c \in Seq(S) /\ Len(c) = h /\ c[h] = v /\ \A i \in 1 .. h - 1 : c[i] = s[i]
  <2>1. c = Append(a, v) /\ h \in Int /\ h >= 1
    BY <1>2
  <2>2. Len(a) + 1 = h
    BY <1>2, <2>1
  <2>3. Append(a, v) \in Seq(S) /\ Len(Append(a, v)) = h /\ Append(a, v)[h] = v
    BY <1>2, <2>2
  <2>4. \A i \in 1 .. h - 1 : Append(a, v)[i] = a[i]
    BY <1>2, <2>2
  <2>5. QED
    BY <1>2, <2>1, <2>3, <2>4
<1> HIDE DEF c
<1>6. /\ c \o b \in Seq(S) /\ Len(c \o b) = Len(c) + Len(b)
      /\ \A i \in 1 .. Len(c) + Len(b) : (c \o b)[i] = IF i <= Len(c) THEN c[i] ELSE b[i - Len(c)]
  BY <1>3, <1>5, Concatenated
<1>7. r \in Seq(S) /\ DOMAIN r = 1 .. Len(s) + 1
  BY <1>1, <1>3, <1>4, <1>5, <1>6
<1>8. ASSUME NEW i \in DOMAIN r
      PROVE  r[i] = IF i < h THEN s[i] ELSE IF i = h THEN v ELSE s[i - 1]
  <2>1. i \in 1 .. Len(c) + Len(b)
    BY <1>1, <1>3, <1>5, <1>7
  <2>2. CASE i <= h
    BY <1>1, <1>4, <1>5, <1>6, <1>7, <2>1, <2>2
  <2>3. CASE i > h
    <3>0. i \in Int /\ i <= Len(s) + 1 /\ h \in Int /\ Len(s) \in Nat
      BY <1>1, <1>7
    <3>1. i - h \in 1 .. Len(s) - h + 1 /\ h + (i - h) - 1 = i - 1 /\ ~(i <= Len(c)) /\ ~(i < h) /\ i # h
      BY <1>5, <2>3, <3>0
    <3>2. b[i - h] = s[i - 1]
      BY <1>3, <3>1
    <3>3. QED
      BY <1>4, <1>5, <1>6, <2>1, <3>1, <3>2
  <2>4. QED
    BY <1>1, <1>7, <2>2, <2>3
<1>9. QED
  BY <1>7, <1>8 DEF r, Inserted

\* Inserting an element where it belongs.
LEMMA OrderedInsert ==
  ASSUME NEW s \in Seq(Int), Ordered(s), NEW h \in 1 .. Len(s) + 1, NEW v \in Int,
         \A i \in DOMAIN s : (i < h => s[i] < v) /\ (i >= h => s[i] > v)
  PROVE  InOrder(InsertAt(s, h, v), Elems(s) \union {v})
<1> DEFINE r == InsertAt(s, h, v)
<1>1. Len(s) \in Nat /\ DOMAIN s = 1 .. Len(s) /\ \A i \in DOMAIN s : s[i] \in Int
  OBVIOUS
<1>2. /\ r \in Seq(Int) /\ DOMAIN r = 1 .. Len(s) + 1
      /\ \A i \in 1 .. Len(s) + 1 : r[i] = IF i < h THEN s[i] ELSE IF i = h THEN v ELSE s[i - 1]
  <2>1. Inserted(r, Int, s, h, v)
    BY InsertElement
  <2> HIDE DEF r
  <2>2. QED
    BY <2>1 DEF Inserted
<1>3. \A i \in DOMAIN r : r[i] = IF i < h THEN s[i] ELSE IF i = h THEN v ELSE s[i - 1]
  <2> HIDE DEF r
  <2>1. QED
    BY <1>2
<1> HIDE DEF r
<1>4. \A i \in DOMAIN r : i < h \/ i = h \/ i > h
  BY <1>2
<1>5. /\ \A i \in DOMAIN r : i < h => i \in DOMAIN s /\ r[i] = s[i] /\ s[i] < v /\ s[i] \in Int
      /\ \A i \in DOMAIN r : i > h => i - 1 \in DOMAIN s /\ r[i] = s[i - 1] /\ s[i - 1] > v /\ s[i - 1] \in Int
      /\ h \in DOMAIN r /\ r[h] = v
  <2>1. ASSUME NEW i \in DOMAIN r, i < h
        PROVE  i \in DOMAIN s /\ r[i] = s[i] /\ s[i] < v /\ s[i] \in Int
    BY <1>1, <1>2, <1>3, <2>1
  <2>2. ASSUME NEW i \in DOMAIN r, i > h
        PROVE  i - 1 \in DOMAIN s /\ r[i] = s[i - 1] /\ s[i - 1] > v /\ s[i - 1] \in Int
    <3>0. i \in Int /\ i <= Len(s) + 1 /\ h \in Int /\ h >= 1 /\ Len(s) \in Nat
      BY <1>1, <1>2
    <3>1. i - 1 \in DOMAIN s /\ i - 1 >= h /\ ~(i < h) /\ i # h
      BY <1>1, <2>2, <3>0
    <3>2. QED
      BY <1>1, <1>3, <3>1
  <2>3. h \in DOMAIN r
    BY <1>1, <1>2
  <2>4. ~(h < h)
    BY <1>1
  <2>5. QED
    BY <1>3, <2>1, <2>2, <2>3, <2>4
<1>6. Ordered(r)
  <2>1. ASSUME NEW i \in DOMAIN r, NEW j \in DOMAIN r, i < j
        PROVE  r[i] < r[j]
    <3>1. i \in Int /\ j \in Int /\ h \in Int
      BY <1>2
    <3>2. CASE j < h
      <4>1. i < h
        BY <2>1, <3>1, <3>2
      <4>2. QED
        BY <1>5, <2>1, <3>2, <4>1 DEF Ordered
    <3>3. CASE i > h
      <4>1. j > h /\ i - 1 < j - 1
        BY <2>1, <3>1, <3>3
      <4>2. QED
        BY <1>5, <3>3, <4>1 DEF Ordered
    <3>4. CASE j = h
      BY <1>5, <2>1, <3>4
    <3>5. CASE i = h
      <4>1. j > h
        BY <2>1, <3>1, <3>5
      <4>2. QED
        BY <1>5, <3>5, <4>1
    <3>6. CASE i < h /\ j > h
      <4>1. s[i] < v /\ v < s[j - 1] /\ s[i] \in Int /\ s[j - 1] \in Int
        BY <1>5, <3>6
      <4>2. r[i] = s[i] /\ r[j] = s[j - 1]
        BY <1>5, <3>6
      <4>3. QED
        BY <4>1, <4>2
    <3>7. QED
      BY <3>1, <3>2, <3>3, <3>4, <3>5, <3>6
  <2>2. QED
    BY <2>1 DEF Ordered
<1>7. Elems(r) = Elems(s) \union {v}
  <2>1. ASSUME NEW x \in Elems(r)
        PROVE  x \in Elems(s) \union {v}
    <3>1. PICK i \in DOMAIN r : x = r[i]
      BY DEF Elems
    <3>2. QED
      BY <1>4, <1>5, <3>1 DEF Elems
  <2>2. ASSUME NEW k \in DOMAIN s
        PROVE  s[k] \in Elems(r)
    <3>1. CASE k < h
      <4>1. k \in DOMAIN r
        BY <1>1, <1>2
      <4>2. QED
        BY <1>5, <3>1, <4>1 DEF Elems
    <3>2. CASE k >= h
      <4>1. k + 1 \in DOMAIN r /\ k + 1 > h /\ (k + 1) - 1 = k
        BY <1>1, <1>2, <3>2
      <4>2. QED
        BY <1>5, <4>1 DEF Elems
    <3>3. QED
      BY <1>1, <3>1, <3>2
  <2>3. v \in Elems(r)
    BY <1>5 DEF Elems
  <2>4. QED
    BY <2>1, <2>2, <2>3 DEF Elems
<1>8. QED
  BY <1>2, <1>6, <1>7 DEF r, InOrder

-----------------------------------------------------------------------------
(* The words of the heap *)

Mems == UNION {[D -> Int] : D \in SUBSET Int}

\* The memory m has v at a and differs from mem only there.
OneWord(m, mem, a, v) ==
  /\ m \in Mems
  /\ \A x \in Int : Word(m, x) = IF x = a THEN v ELSE IF x = a - 2 \/ x = a + 2 THEN Garbage
                                  ELSE Word(mem, x)

\* Writing a word destroys those that it overlaps.
LEMMA PutWord ==
  ASSUME NEW mem \in Mems, NEW a \in Int, NEW v \in Int
  PROVE  OneWord(Put(mem, a, v), mem, a, v)
<1>1. PICK D \in SUBSET Int : mem \in [D -> Int]
  BY DEF Mems
<1> DEFINE E == (D \ {a - 2, a, a + 2}) \union (IF v = Garbage THEN {} ELSE {a})
           m == [x \in E |-> IF x = a THEN v ELSE mem[x]]
<1>2. Put(mem, a, v) = m
  BY <1>1 DEF Put
<1>3. E \in SUBSET Int /\ a - 2 # a /\ a + 2 # a
  BY <1>1
<1>4. /\ \A x \in E : x # a => x \in D
      /\ a \in E <=> v # Garbage
      /\ \A x \in Int : x \notin {a - 2, a, a + 2} => (x \in E <=> x \in D)
      /\ a - 2 \notin E /\ a + 2 \notin E
  BY <1>3
<1> HIDE DEF E
<1>5. m \in [E -> Int]
  BY <1>1, <1>4
<1>6. m \in Mems
  BY <1>3, <1>5 DEF Mems
<1>7. DOMAIN m = E /\ DOMAIN mem = D
  BY <1>1
<1>8. ASSUME NEW x \in Int
      PROVE  Word(m, x) = IF x = a THEN v ELSE IF x = a - 2 \/ x = a + 2 THEN Garbage ELSE Word(mem, x)
  <2>1. CASE x = a
    BY <1>4, <1>7, <2>1 DEF Word
  <2>2. CASE x \in {a - 2, a + 2}
    BY <1>3, <1>4, <1>7, <2>2 DEF Word
  <2>3. CASE x \notin {a - 2, a, a + 2}
    BY <1>4, <1>7, <2>3 DEF Word
  <2>4. QED
    BY <2>1, <2>2, <2>3
<1>9. QED
  BY <1>2, <1>6, <1>8 DEF OneWord

\* Data destroys the words that it may overlap.
LEMMA ScribbleWord ==
  ASSUME NEW mem \in Mems, NEW a \in Int, NEW n \in Int
  PROVE  /\ Scribble(mem, a, n) \in Mems
         /\ \A x \in Int : Word(Scribble(mem, a, n), x) = IF x <= a - 4 \/ x >= a + n THEN Word(mem, x)
                                                          ELSE Garbage
<1>1. PICK D \in SUBSET Int : mem \in [D -> Int]
  BY DEF Mems
<1> DEFINE E == {y \in D : y <= a - 4 \/ y >= a + n}
           m == [x \in E |-> mem[x]]
<1>2. Scribble(mem, a, n) = m
  BY <1>1 DEF Scribble
<1>3. E \in SUBSET Int /\ E \subseteq D
  BY <1>1
<1>4. \A x \in Int : x \in E <=> x \in D /\ (x <= a - 4 \/ x >= a + n)
  OBVIOUS
<1> HIDE DEF E
<1>5. m \in [E -> Int]
  BY <1>1, <1>3
<1>6. m \in Mems
  BY <1>3, <1>5 DEF Mems
<1>7. DOMAIN m = E /\ DOMAIN mem = D
  BY <1>1
<1>8. QED
  BY <1>2, <1>4, <1>6, <1>7 DEF Word

\* Words are numbers.
LEMMA WordType ==
  ASSUME NEW mem \in Mems, NEW x \in Int
  PROVE  Word(mem, x) \in Int
BY DEF Mems, Word, Garbage

-----------------------------------------------------------------------------
(* The blocks of a heap: their addresses B and their sizes z *)

Shape(B, z) == B \subseteq Int /\ z \in [B -> Evens] /\ \A b \in B : z[b] >= 16

\* They lie side by side from lo to hi.
Laid(B, z, lo, hi) ==
  /\ Shape(B, z) /\ lo \in B /\ hi \in Int
  /\ \A b \in B : lo <= b /\ b + z[b] <= hi
  /\ \A b \in B : b + z[b] \in B \union {hi}
  /\ \A b \in B : b = lo \/ \E c \in B : c + z[c] = b
  /\ \E c \in B : c + z[c] = hi
  /\ \A b, c \in B : b < c => b + z[b] <= c

\* The numbers in it.
LEMMA LaidTypes ==
  ASSUME NEW B, NEW z, NEW lo, NEW hi, Laid(B, z, lo, hi)
  PROVE  /\ lo \in Int /\ hi \in Int
         /\ \A b \in B : b \in Int /\ z[b] \in Int /\ z[b] \in Evens /\ z[b] >= 16
BY DEF Laid, Shape, Evens

\* Two neighbours become one block.
Joined(B, z, b, c) == [d \in B \ {c} |-> IF d = b THEN z[b] + z[c] ELSE z[d]]

(* Joining two neighbours, as merge_block() does, keeps the blocks laid end to end. *)
LEMMA JoinLaid ==
  ASSUME NEW B, NEW z, NEW lo, NEW hi, Laid(B, z, lo, hi), NEW b \in B, NEW c \in B, b + z[b] = c
  PROVE  Laid(B \ {c}, Joined(B, z, b, c), lo, hi)
<1> DEFINE y == Joined(B, z, b, c)
           A == B \ {c}
<1>1. /\ lo \in Int /\ hi \in Int
      /\ \A d \in B : d \in Int /\ z[d] \in Int /\ z[d] \in Evens /\ z[d] >= 16
  BY LaidTypes
<1>2. b # c /\ b \in A /\ b < c
  BY <1>1
<1>3. y[b] = z[b] + z[c] /\ y[b] \in Evens /\ y[b] \in Int /\ y[b] >= 16 /\ b + y[b] = c + z[c]
  BY <1>1, <1>2, EvenSums DEF Joined
<1>4. \A d \in A : d # b => y[d] = z[d]
  BY DEF Joined
<1>5. y \in [A -> Evens]
  BY <1>1, <1>3 DEF Joined
<1> HIDE DEF y
<1>6. Shape(A, y)
  BY <1>1, <1>3, <1>4, <1>5 DEF Shape
<1>7. c # lo /\ lo \in A
  BY <1>1, <1>2 DEF Laid
<1>8. \A d \in A : lo <= d /\ d + y[d] <= hi
  BY <1>3, <1>4 DEF Laid
<1>9. \A d \in B : d + z[d] = c => d = b
  <2>1. ASSUME NEW d \in B, d + z[d] = c, d # b
        PROVE  FALSE
    <3>1. d + z[d] <= b \/ b + z[b] <= d
      BY <1>1, <2>1 DEF Laid
    <3>2. QED
      BY <1>1, <2>1, <3>1
  <2>2. QED
    BY <2>1
<1>10. \A d \in A : d + y[d] \in A \union {hi}
  <2>1. ASSUME NEW d \in A
        PROVE  d + y[d] \in A \union {hi}
    <3>1. CASE d = b
      <4>1. c + z[c] \in B \union {hi} /\ c + z[c] # c
        BY <1>1 DEF Laid
      <4>2. QED
        BY <1>3, <3>1, <4>1
    <3>2. CASE d # b
      <4>1. d + z[d] \in B \union {hi} /\ d + z[d] # c
        BY <1>9, <3>2 DEF Laid
      <4>2. QED
        BY <1>4, <3>2, <4>1
    <3>3. QED
      BY <3>1, <3>2
  <2>2. QED
    BY <2>1
<1>11. \A e \in B \union {hi} : (\E d \in B : d + z[d] = e) /\ e # c => \E d \in A : d + y[d] = e
  <2>1. ASSUME NEW e \in B \union {hi}, NEW d \in B, d + z[d] = e, e # c
        PROVE  \E f \in A : f + y[f] = e
    <3>1. CASE d = c
      BY <1>2, <1>3, <2>1, <3>1
    <3>2. CASE d # c
      <4>1. d # b /\ d \in A
        BY <2>1, <3>2
      <4>2. QED
        BY <1>4, <2>1, <4>1
    <3>3. QED
      BY <3>1, <3>2
  <2>2. QED
    BY <2>1
<1>12. \A d \in A : d = lo \/ \E f \in A : f + y[f] = d
  BY <1>11 DEF Laid
<1>13. \E f \in A : f + y[f] = hi
  <2>1. c # hi
    <3>1. c + z[c] <= hi
      BY DEF Laid
    <3>2. QED
      BY <1>1, <3>1
  <2>2. QED
    BY <1>11, <2>1 DEF Laid
<1>14. \A d, e \in A : d < e => d + y[d] <= e
  <2>1. ASSUME NEW d \in A, NEW e \in A, d < e
        PROVE  d + y[d] <= e
    <3>1. d + z[d] <= e
      BY <2>1 DEF Laid
    <3>2. CASE d = b
      <4>1. c <= e /\ c # e
        BY <3>1, <3>2
      <4>2. c < e
        BY <1>1, <4>1
      <4>3. c + z[c] <= e
        BY <4>2 DEF Laid
      <4>4. QED
        BY <1>3, <3>2, <4>3
    <3>3. CASE d # b
      BY <1>4, <3>1, <3>3
    <3>4. QED
      BY <3>2, <3>3
  <2>2. QED
    BY <2>1
<1>15. QED
  BY <1>6, <1>7, <1>8, <1>10, <1>12, <1>13, <1>14 DEF Laid, y

\* A block becomes two, the first of size n.
Cut(B, z, b, n) == [d \in B \union {b + n} |-> IF d = b THEN n ELSE IF d = b + n THEN z[b] - n ELSE z[d]]

(* Cutting a block in two, as the allocator does with a free block that is larger
   than the request, keeps the blocks laid end to end. *)
LEMMA CutLaid ==
  ASSUME NEW B, NEW z, NEW lo, NEW hi, Laid(B, z, lo, hi), NEW b \in B, NEW n \in Evens,
         n >= 16, z[b] - n >= 16
  PROVE  Laid(B \union {b + n}, Cut(B, z, b, n), lo, hi) /\ b + n \notin B
<1> DEFINE r == b + n
           y == Cut(B, z, b, n)
           A == B \union {r}
<1>1. /\ lo \in Int /\ hi \in Int /\ n \in Int
      /\ \A d \in B : d \in Int /\ z[d] \in Int /\ z[d] \in Evens /\ z[d] >= 16
  BY LaidTypes DEF Evens
<1>2. r \in Int /\ b < r /\ r < b + z[b] /\ r # b
  BY <1>1
<1>3. \A d \in B : d # b => d + z[d] <= b \/ b + z[b] <= d
  BY <1>1 DEF Laid
<1>4. r \notin B
  <2>1. ASSUME r \in B
        PROVE  FALSE
    <3>1. b + z[b] <= r
      BY <1>2, <2>1 DEF Laid
    <3>2. QED
      BY <1>1, <1>2, <3>1
  <2>2. QED
    BY <2>1
<1>5. /\ y[b] = n /\ y[r] = z[b] - n /\ r + y[r] = b + z[b] /\ b + y[b] = r
      /\ y[r] \in Evens /\ y[r] \in Int
  <2>1. y[b] = n /\ y[r] = z[b] - n
    BY <1>2 DEF Cut
  <2>2. z[b] - n \in Evens
    BY <1>1, EvenSums
  <2>3. QED
    BY <1>1, <1>2, <2>1, <2>2
<1>6. \A d \in B : d # b => y[d] = z[d]
  BY <1>4 DEF Cut
<1>7. y \in [A -> Evens]
  BY <1>1, <1>5 DEF Cut
<1> HIDE DEF y
<1>8. Shape(A, y)
  BY <1>1, <1>2, <1>5, <1>6, <1>7 DEF Shape
<1>9. \A d \in A : lo <= d /\ d + y[d] <= hi
  <2>1. lo <= b /\ b + z[b] <= hi
    BY DEF Laid
  <2>2. lo <= r /\ r + y[r] <= hi /\ b + y[b] <= hi
    BY <1>1, <1>2, <1>5, <2>1
  <2>3. QED
    BY <1>6, <2>2 DEF Laid
<1>10. \A d \in A : d + y[d] \in A \union {hi}
  <2>1. b + z[b] \in A \union {hi}
    BY DEF Laid
  <2>2. QED
    BY <1>5, <1>6, <2>1 DEF Laid
<1>11. \A e \in B \union {hi} : (\E d \in B : d + z[d] = e) => \E d \in A : d + y[d] = e
  BY <1>5, <1>6
<1>12. \A d \in A : d = lo \/ \E f \in A : f + y[f] = d
  BY <1>5, <1>11 DEF Laid
<1>13. \E f \in A : f + y[f] = hi
  BY <1>11 DEF Laid
<1>14. \A d, e \in A : d < e => d + y[d] <= e
  <2>1. ASSUME NEW d \in A, NEW e \in A, d < e
        PROVE  d + y[d] <= e
    <3>1. CASE d = b
      <4>1. CASE e = r
        BY <1>1, <1>5, <3>1, <4>1
      <4>2. CASE e # r
        <5>1. b + z[b] <= e
          BY <2>1, <3>1, <4>2 DEF Laid
        <5>2. QED
          BY <1>1, <1>2, <1>5, <3>1, <4>2, <5>1
      <4>3. QED
        BY <4>1, <4>2
    <3>2. CASE d = r
      <4>1. e \in B /\ e # b
        BY <1>1, <1>2, <2>1, <3>2
      <4>2. b < e
        BY <1>1, <1>2, <2>1, <3>2, <4>1
      <4>3. b + z[b] <= e
        BY <4>1, <4>2 DEF Laid
      <4>4. QED
        BY <1>5, <3>2, <4>3
    <3>3. CASE d # b /\ d # r /\ e = r
      <4>1. d + z[d] <= b
        BY <1>1, <1>2, <1>3, <2>1, <3>3
      <4>2. QED
        BY <1>1, <1>2, <1>6, <3>3, <4>1
    <3>4. CASE d # b /\ d # r /\ e # r
      BY <1>6, <2>1, <3>4 DEF Laid
    <3>5. QED
      BY <3>1, <3>2, <3>3, <3>4
  <2>2. QED
    BY <2>1
<1>15. lo \in A
  BY DEF Laid
<1>16. hi \in Int
  BY <1>1
<1>17. QED
  BY <1>4, <1>8, <1>9, <1>10, <1>12, <1>13, <1>14, <1>15, <1>16 DEF Laid, y

\* A block is added at the end.
Added(B, z, hi, n) == [d \in B \union {hi} |-> IF d = hi THEN n ELSE z[d]]

(* Adding a block at the end, as sbrk() does when it moves the break, keeps the
   blocks laid end to end. *)
LEMMA AddLaid ==
  ASSUME NEW B, NEW z, NEW lo, NEW hi, Laid(B, z, lo, hi), NEW n \in Evens, n >= 16
  PROVE  Laid(B \union {hi}, Added(B, z, hi, n), lo, hi + n) /\ hi \notin B
<1> DEFINE y == Added(B, z, hi, n)
           A == B \union {hi}
<1>1. /\ lo \in Int /\ hi \in Int /\ n \in Int
      /\ \A d \in B : d \in Int /\ z[d] \in Int /\ z[d] \in Evens /\ z[d] >= 16 /\ d + z[d] <= hi
  <2>1. /\ lo \in Int /\ hi \in Int
        /\ \A d \in B : d \in Int /\ z[d] \in Int /\ z[d] \in Evens /\ z[d] >= 16
    BY LaidTypes
  <2>2. \A d \in B : d + z[d] <= hi
    BY DEF Laid
  <2>3. n \in Int
    BY DEF Evens
  <2>4. QED
    BY <2>1, <2>2, <2>3
<1>2. \A d \in B : d < hi
  BY <1>1
<1>3. hi \notin B
  BY <1>1, <1>2
<1>4. y[hi] = n /\ \A d \in B : y[d] = z[d]
  BY <1>3 DEF Added
<1>5. y \in [A -> Evens]
  BY <1>1 DEF Added
<1> HIDE DEF y
<1>6. Shape(A, y)
  BY <1>1, <1>4, <1>5 DEF Shape
<1>7. lo <= hi /\ lo \in A /\ hi + n \in Int
  <2>1. lo \in B
    BY DEF Laid
  <2>2. QED
    BY <1>1, <1>2, <2>1
<1>8. \A d \in A : lo <= d /\ d + y[d] <= hi + n
  <2>1. \A d \in B : lo <= d
    BY DEF Laid
  <2>2. QED
    BY <1>1, <1>4, <1>7, <2>1
<1>9. \A d \in A : d + y[d] \in A \union {hi + n}
  BY <1>4 DEF Laid
<1>10. \A d \in A : d = lo \/ \E f \in A : f + y[f] = d
  BY <1>4 DEF Laid
<1>11. \E f \in A : f + y[f] = hi + n
  BY <1>4
<1>12. \A d, e \in A : d < e => d + y[d] <= e
  <2>1. ASSUME NEW d \in A, NEW e \in A, d < e
        PROVE  d + y[d] <= e
    <3>1. d # hi
      BY <1>1, <1>2, <2>1
    <3>2. CASE e = hi
      BY <1>1, <1>4, <3>1, <3>2
    <3>3. CASE e # hi
      BY <1>4, <2>1, <3>1, <3>3 DEF Laid
    <3>4. QED
      BY <3>2, <3>3
  <2>2. QED
    BY <2>1
<1>13. QED
  BY <1>3, <1>6, <1>7, <1>8, <1>9, <1>10, <1>11, <1>12 DEF Laid, y


-----------------------------------------------------------------------------
(* The state of the allocator *)

Allocators == [mem : Mems, fbl : Seq(Int), brk : Int, up : BOOLEAN]

First == KERNEL_HEAP_START + 8          \* the first block
Tag(z, U, b) == IF b \in U THEN z[b] + 1 ELSE z[b]

\* Header and footer of block b; of x only the header.
Tags(mem, z, U, b, x) == /\ Word(mem, b - 4) = Tag(z, U, b)
                         /\ b # x => Word(mem, b + z[b] - 8) = Tag(z, U, b)

\* The words of a heap with blocks B, those of U allocated, that ends at hi.
Tagged(mem, B, z, U, hi, x) ==
  /\ Word(mem, KERNEL_HEAP_START) = 1 /\ Word(mem, hi - 4) = 1
  /\ \A b \in B : Tags(mem, z, U, b, x)

\* No two free blocks touch.
Apart(B, z, U, hi) == \A b \in B \ U : b + z[b] \in U \union {hi}

FreeList(s, F) == Ordered(s) /\ Elems(s) = F

\* The heap consists of the blocks B of sizes z, those of U allocated; the
\* footer of x, if it is a block, is not written yet.
Tiled(da, B, z, U, x) ==
  /\ da \in Allocators /\ da.up /\ U \subseteq B
  /\ Laid(B, z, First, da.brk) /\ Tagged(da.mem, B, z, U, da.brk, x)
  /\ Apart(B, z, U, da.brk) /\ FreeList(da.fbl, B \ U)

\* The start of the heap.
LEMMA StartType ==
  /\ KERNEL_HEAP_START \in Int /\ KERNEL_HEAP_START % 4 = 0 /\ KERNEL_HEAP_START >= 32
  /\ KERNEL_HEAP_START \in Evens /\ First \in Int /\ First = KERNEL_HEAP_START + 8 /\ First > 0
<1>1. /\ PAGE_SIZE \in Nat /\ DYN_ALLOC_MAX_BLOCK_SIZE \in Nat /\ PAGE_SIZE % 4 = 0
      /\ DYN_ALLOC_MAX_BLOCK_SIZE >= 8 /\ DYN_ALLOC_MAX_BLOCK_SIZE + 8 + 16 <= PAGE_SIZE
  BY PageAssumption DEF DYN_ALLOC_MIN_BLOCK_SIZE
<1>2. PAGE_SIZE >= 32 /\ PAGE_SIZE % 2 = 0
  BY <1>1
<1>3. QED
  BY <1>1, <1>2 DEF KERNEL_HEAP_START, First, Evens

\* Its parts.
LEMMA AllocatorTypes ==
  ASSUME NEW da \in Allocators
  PROVE  da.mem \in Mems /\ da.fbl \in Seq(Int) /\ da.brk \in Int /\ da.up \in BOOLEAN
BY DEF Allocators

\* The allocator e differs from da in its words m and its list s.
Wrote(e, da, m, s) ==
  e \in Allocators /\ e.mem = m /\ e.fbl = s /\ e.brk = da.brk /\ e.up = da.up

\* Assignments to its parts.
LEMMA SetAllocator ==
  ASSUME NEW da \in Allocators, NEW m \in Mems, NEW s \in Seq(Int)
  PROVE  /\ Wrote([da EXCEPT !.mem = m], da, m, da.fbl)
         /\ Wrote([da EXCEPT !.mem = m, !.fbl = s], da, m, s)
BY DEF Allocators, Wrote

\* Outside of p .. q, m has the words of mem.
Outside(m, mem, p, q) == \A y \in Int : y <= p - 8 \/ y >= q - 4 => Word(m, y) = Word(mem, y)

\* A change between p and q leaves the tags of the blocks before and after.
LEMMA Retagged ==
  ASSUME NEW mem, NEW m, NEW B, NEW z, NEW U, NEW hi, NEW x,
         Laid(B, z, First, hi), Tagged(mem, B, z, U, hi, x),
         NEW p \in Int, NEW q \in Int, First <= p, q <= hi, Outside(m, mem, p, q)
  PROVE  /\ Word(m, KERNEL_HEAP_START) = 1 /\ Word(m, hi - 4) = 1
         /\ \A d \in B : d + z[d] <= p \/ q <= d => Tags(m, z, U, d, x)
<1>1. /\ First \in Int /\ hi \in Int /\ First = KERNEL_HEAP_START + 8 /\ KERNEL_HEAP_START \in Int
      /\ \A d \in B : d \in Int /\ z[d] \in Int /\ z[d] >= 16
  BY LaidTypes, StartType
<1>2. Word(m, KERNEL_HEAP_START) = 1
  <2>1. KERNEL_HEAP_START <= p - 8
    BY <1>1
  <2>2. QED
    BY <1>1, <2>1 DEF Tagged, Outside
<1>3. Word(m, hi - 4) = 1
  <2>1. hi - 4 >= q - 4 /\ hi - 4 \in Int
    BY <1>1
  <2>2. QED
    BY <2>1 DEF Tagged, Outside
<1>4. ASSUME NEW d \in B, d + z[d] <= p \/ q <= d
      PROVE  Tags(m, z, U, d, x)
  <2>1. d - 4 \in Int /\ d + z[d] - 8 \in Int
    BY <1>1
  <2>2. d - 4 <= p - 8 \/ d - 4 >= q - 4
    BY <1>1, <1>4
  <2>3. d + z[d] - 8 <= p - 8 \/ d + z[d] - 8 >= q - 4
    BY <1>1, <1>4
  <2>4. Word(m, d - 4) = Word(mem, d - 4) /\ Word(m, d + z[d] - 8) = Word(mem, d + z[d] - 8)
    BY <2>1, <2>2, <2>3 DEF Outside
  <2>5. QED
    BY <2>4 DEF Tagged, Tags
<1>5. QED
  BY <1>2, <1>3, <1>4

\* Where the other blocks are, seen from one.
LEMMA Beside ==
  ASSUME NEW B, NEW z, NEW lo, NEW hi, Laid(B, z, lo, hi), NEW b \in B
  PROVE  \A d \in B : d # b => /\ d + z[d] <= b \/ b + z[b] <= d
                               /\ d < b <=> d + z[d] <= b
                               /\ d > b <=> b + z[b] <= d
                               /\ d + z[d] # b + z[b]
<1>1. \A d \in B : d \in Int /\ z[d] \in Int /\ z[d] >= 16
  BY LaidTypes
<1>2. ASSUME NEW d \in B, d # b
      PROVE  /\ d + z[d] <= b \/ b + z[b] <= d
             /\ d < b <=> d + z[d] <= b
             /\ d > b <=> b + z[b] <= d
             /\ d + z[d] # b + z[b]
  <2>1. (d < b => d + z[d] <= b) /\ (b < d => b + z[b] <= d)
    BY DEF Laid
  <2>2. QED
    BY <1>1, <1>2, <2>1
<1>3. QED
  BY <1>2

-----------------------------------------------------------------------------
(* free_block() *)

\* The tag of a block, and what is before it and after it.
Around(da, B, z, U, b, x) ==
  /\ Header(da, b) = Tag(z, U, b)
  /\ \/ b = First /\ Word(da.mem, b - 8) = 1
     \/ \E c \in B : c + z[c] = b /\ c # x /\ Word(da.mem, b - 8) = Tag(z, U, c)
  /\ b + z[b] \in B \union {da.brk}
  /\ \A d \in B \union {da.brk} : \/ d = da.brk /\ Word(da.mem, d - 4) = 1
                                  \/ d \in B /\ Word(da.mem, d - 4) = Tag(z, U, d)

\* What the words before and after a block say.
LEMMA Neighbours ==
  ASSUME NEW da, NEW B, NEW z, NEW U, NEW b \in B, NEW x, x \in {0, b}, Tiled(da, B, z, U, x)
  PROVE  Around(da, B, z, U, b, x)
<1>1. /\ First = KERNEL_HEAP_START + 8 /\ KERNEL_HEAP_START \in Int /\ First > 0 /\ First \in Int
      /\ da.brk \in Int /\ \A d \in B : d \in Int /\ z[d] \in Int /\ z[d] >= 16 /\ First <= d
  <2>1. Laid(B, z, First, da.brk)
    BY DEF Tiled
  <2>2. da.brk \in Int /\ \A d \in B : d \in Int /\ z[d] \in Int /\ z[d] >= 16
    BY <2>1, LaidTypes
  <2>3. \A d \in B : First <= d
    BY <2>1 DEF Laid
  <2>4. QED
    BY <2>2, <2>3, StartType
<1>2. \A d \in B : Tags(da.mem, z, U, d, x)
  BY DEF Tiled, Tagged
<1>3. Header(da, b) = Tag(z, U, b)
  BY <1>2 DEF Tags, Header
<1>4. \/ b = First /\ Word(da.mem, b - 8) = 1
      \/ \E c \in B : c + z[c] = b /\ c # x /\ Word(da.mem, b - 8) = Tag(z, U, c)
  <2>1. CASE b = First
    <3>1. b - 8 = KERNEL_HEAP_START
      BY <1>1, <2>1
    <3>2. QED
      BY <2>1, <3>1 DEF Tiled, Tagged
  <2>2. CASE b # First
    <3>1. PICK c \in B : c + z[c] = b
      BY <2>2 DEF Tiled, Laid
    <3>2. c # b /\ c # 0 /\ c + z[c] - 8 = b - 8
      BY <1>1, <3>1
    <3>3. QED
      BY <1>2, <3>1, <3>2 DEF Tags
  <2>3. QED
    BY <2>1, <2>2
<1>5. b + z[b] \in B \union {da.brk}
  BY DEF Tiled, Laid
<1>6. \A d \in B \union {da.brk} : \/ d = da.brk /\ Word(da.mem, d - 4) = 1
                                   \/ d \in B /\ Word(da.mem, d - 4) = Tag(z, U, d)
  <2>1. Word(da.mem, da.brk - 4) = 1
    BY DEF Tiled, Tagged
  <2>2. \A d \in B : Word(da.mem, d - 4) = Tag(z, U, d)
    BY <1>2 DEF Tags
  <2>3. QED
    BY <2>1, <2>2
<1>7. QED
  BY <1>3, <1>4, <1>5, <1>6 DEF Around


-----------------------------------------------------------------------------
(* The words that a call writes *)

\* The word at x is not overlapped by one at p.
Away(x, p) == x # p - 2 /\ x # p /\ x # p + 2

\* The memory r has v at p and w at q, and differs from mem only there.
TwoWords(r, mem, p, v, q, w) ==
  /\ r \in Mems /\ Word(r, p) = v /\ Word(r, q) = w
  /\ \A x \in Int : Away(x, p) /\ Away(x, q) => Word(r, x) = Word(mem, x)

\* Two words that do not overlap.
LEMMA PutTwo ==
  ASSUME NEW mem \in Mems, NEW p \in Int, NEW q \in Int, p + 4 <= q \/ q + 4 <= p,
         NEW v \in Int, NEW w \in Int
  PROVE  TwoWords(Put(Put(mem, p, v), q, w), mem, p, v, q, w)
<1> DEFINE m == Put(mem, p, v)
           r == Put(m, q, w)
<1>1. /\ m \in Mems
      /\ \A x \in Int : Word(m, x) = IF x = p THEN v ELSE IF x = p - 2 \/ x = p + 2 THEN Garbage
                                     ELSE Word(mem, x)
  <2>1. OneWord(m, mem, p, v)
    BY PutWord
  <2>2. QED
    BY <2>1 DEF OneWord
<1> HIDE DEF m
<1>2. /\ r \in Mems
      /\ \A x \in Int : Word(r, x) = IF x = q THEN w ELSE IF x = q - 2 \/ x = q + 2 THEN Garbage
                                     ELSE Word(m, x)
  <2>1. OneWord(r, m, q, w)
    BY <1>1, PutWord
  <2>2. QED
    BY <2>1 DEF OneWord
<1> HIDE DEF r
<1>3. Away(p, q)
  BY DEF Away
<1>4. Word(r, p) = v /\ Word(r, q) = w
  BY <1>1, <1>2, <1>3 DEF Away
<1>5. \A x \in Int : Away(x, p) /\ Away(x, q) => Word(r, x) = Word(mem, x)
  BY <1>1, <1>2 DEF Away
<1>6. TwoWords(r, mem, p, v, q, w)
  BY <1>2, <1>4, <1>5 DEF TwoWords
<1>7. QED
  BY <1>6 DEF m, r

\* Header h and footer w of a block of n bytes, and data in it.
Framed(mem, a, n, h, w, k) == Scribble(Put(Put(mem, a - 4, h), a + n - 8, w), a, k)

\* The memory m has header h and footer w of a block of n bytes at a.
HasFrame(m, mem, a, n, h, w) ==
  m \in Mems /\ Word(m, a - 4) = h /\ Word(m, a + n - 8) = w /\ Outside(m, mem, a, a + n)

(* Writing the header and the footer of one block, as set_block_data() does, leaves
   exactly these words. *)
LEMMA FramedWords ==
  ASSUME NEW mem \in Mems, NEW a \in Int, NEW n \in Int, n >= 16, NEW h \in Int, NEW w \in Int,
         NEW k \in Int, 0 <= k, k <= n - 8
  PROVE  HasFrame(Framed(mem, a, n, h, w, k), mem, a, n, h, w)
<1> DEFINE p == a - 4
           q == a + n - 8
           m == Put(Put(mem, p, h), q, w)
           r == Scribble(m, a, k)
<1>1. p \in Int /\ q \in Int /\ p + 4 <= q /\ q >= a + k /\ p = a - 4
  OBVIOUS
<1>2. \A x \in Int : x <= a - 8 \/ x >= a + n - 4 =>
        Away(x, p) /\ Away(x, q) /\ (x <= a - 4 \/ x >= a + k)
  BY DEF Away
<1>3. Framed(mem, a, n, h, w, k) = r
  BY DEF Framed
<1> HIDE DEF p, q
<1>9. TwoWords(m, mem, p, h, q, w)
  BY <1>1, PutTwo
<1> HIDE DEF m
<1>4. /\ m \in Mems /\ Word(m, p) = h /\ Word(m, q) = w
      /\ \A x \in Int : Away(x, p) /\ Away(x, q) => Word(m, x) = Word(mem, x)
  BY <1>9 DEF TwoWords
<1>5. r \in Mems /\ \A x \in Int : x <= a - 4 \/ x >= a + k => Word(r, x) = Word(m, x)
  BY <1>4, ScribbleWord
<1> HIDE DEF r
<1>6. Word(r, p) = h /\ Word(r, q) = w
  BY <1>1, <1>4, <1>5
<1>7. ASSUME NEW x \in Int, x <= a - 8 \/ x >= a + n - 4
      PROVE  Word(r, x) = Word(mem, x)
  <2>1. Away(x, p) /\ Away(x, q) /\ (x <= a - 4 \/ x >= a + k)
    BY <1>2, <1>7
  <2>2. Word(r, x) = Word(m, x)
    BY <1>5, <2>1
  <2>3. Word(m, x) = Word(mem, x)
    BY <1>4, <2>1
  <2>4. QED
    BY <2>2, <2>3
<1>8. QED
  <2>1. HasFrame(r, mem, a, n, h, w)
    BY <1>5, <1>6, <1>7 DEF p, q, HasFrame, Outside
  <2>2. QED
    BY <1>3, <2>1

\* The tags of two blocks of k and n - k bytes in the place of one of n.
SplitTags(mem, a, n, k, u, v) ==
  Put(Put(Put(Put(mem, a + k - 8, u), a - 4, u), a + k - 4, v), a + n - 8, v)

\* The memory m has the tag u of a block of k bytes at a and the tag v of one of n - k.
HasSplit(m, mem, a, n, k, u, v) ==
  /\ m \in Mems /\ Outside(m, mem, a, a + n)
  /\ Word(m, a - 4) = u /\ Word(m, a + k - 8) = u
  /\ Word(m, a + k - 4) = v /\ Word(m, a + n - 8) = v

(* Writing the tags of the two parts of a block that is split leaves exactly these
   words. *)
LEMMA SplitWords ==
  ASSUME NEW mem \in Mems, NEW a \in Int, NEW n \in Int, NEW k \in Int, k >= 16, n - k >= 16,
         NEW u \in Int, NEW v \in Int
  PROVE  HasSplit(SplitTags(mem, a, n, k, u, v), mem, a, n, k, u, v)
<1> DEFINE p == a + k - 8
           q == a - 4
           r == a + k - 4
           s == a + n - 8
           m1 == Put(Put(mem, p, u), q, u)
           m2 == Put(Put(m1, r, v), s, v)
<1>1. p \in Int /\ q \in Int /\ r \in Int /\ s \in Int /\ q + 4 <= p /\ r + 4 <= s
  OBVIOUS
<1>2. /\ Away(p, r) /\ Away(p, s) /\ Away(q, r) /\ Away(q, s)
      /\ \A x \in Int : x <= a - 8 \/ x >= a + n - 4 =>
           /\ Away(x, p) /\ Away(x, q)
           /\ Away(x, r) /\ Away(x, s)
  BY DEF Away
<1>3. SplitTags(mem, a, n, k, u, v) = m2
  BY DEF SplitTags
<1> HIDE DEF p, q, r, s
<1>4. /\ m1 \in Mems /\ Word(m1, p) = u /\ Word(m1, q) = u
      /\ \A x \in Int : Away(x, p) /\ Away(x, q) => Word(m1, x) = Word(mem, x)
  <2>1. TwoWords(m1, mem, p, u, q, u)
    BY <1>1, PutTwo
  <2> HIDE DEF m1
  <2>2. QED
    BY <2>1 DEF TwoWords
<1> HIDE DEF m1
<1>5. /\ m2 \in Mems /\ Word(m2, r) = v /\ Word(m2, s) = v
      /\ \A x \in Int : Away(x, r) /\ Away(x, s) => Word(m2, x) = Word(m1, x)
  <2>1. TwoWords(m2, m1, r, v, s, v)
    BY <1>1, <1>4, PutTwo
  <2> HIDE DEF m2
  <2>2. QED
    BY <2>1 DEF TwoWords
<1> HIDE DEF m2
<1>6. Word(m2, p) = u /\ Word(m2, q) = u
  <2>1. Word(m2, p) = Word(m1, p) /\ Word(m2, q) = Word(m1, q)
    BY <1>1, <1>2, <1>5
  <2>2. QED
    BY <1>4, <2>1
<1>7. ASSUME NEW x \in Int, x <= a - 8 \/ x >= a + n - 4
      PROVE  Word(m2, x) = Word(mem, x)
  <2>1. /\ Away(x, p) /\ Away(x, q)
        /\ Away(x, r) /\ Away(x, s)
    BY <1>2, <1>7
  <2>2. Word(m2, x) = Word(m1, x)
    BY <1>5, <2>1
  <2>3. Word(m1, x) = Word(mem, x)
    BY <1>4, <2>1
  <2>4. QED
    BY <2>2, <2>3
<1>8. QED
  <2>1. HasSplit(m2, mem, a, n, k, u, v)
    BY <1>5, <1>6, <1>7 DEF p, q, r, s, HasSplit, Outside
  <2>2. QED
    BY <1>3, <2>1

\* Each block of B2 is one of B outside of p .. q, or has its own tags in m.
Kept(m, B, z, U, x, p, q, B2, z2, U2, x2) ==
  \A d \in B2 : \/ /\ d \in B /\ (d + z[d] <= p \/ q <= d) /\ z2[d] = z[d]
                   /\ d \in U2 <=> d \in U
                   /\ d = x => d = x2
                \/ Tags(m, z2, U2, d, x2)

\* Blocks that a change between p and q leaves alone keep their tags; those it
\* makes have the tags of their sizes.
LEMMA Rewritten ==
  ASSUME NEW mem, NEW m, NEW B, NEW z, NEW U, NEW hi, NEW x,
         Laid(B, z, First, hi), Tagged(mem, B, z, U, hi, x),
         NEW p \in Int, NEW q \in Int, First <= p, q <= hi, Outside(m, mem, p, q),
         NEW B2, NEW z2, NEW U2, NEW x2, Kept(m, B, z, U, x, p, q, B2, z2, U2, x2)
  PROVE  Tagged(m, B2, z2, U2, hi, x2)
<1>1. /\ Word(m, KERNEL_HEAP_START) = 1 /\ Word(m, hi - 4) = 1
      /\ \A d \in B : d + z[d] <= p \/ q <= d => Tags(m, z, U, d, x)
  BY Retagged
<1>2. ASSUME NEW d \in B2
      PROVE  Tags(m, z2, U2, d, x2)
  <2>1. CASE /\ d \in B /\ (d + z[d] <= p \/ q <= d) /\ z2[d] = z[d]
             /\ d \in U2 <=> d \in U
             /\ d = x => d = x2
    <3>1. Tags(m, z, U, d, x) /\ Tag(z2, U2, d) = Tag(z, U, d) /\ (d # x2 => d # x)
      BY <1>1, <2>1 DEF Tag
    <3>2. QED
      BY <2>1, <3>1 DEF Tags
  <2>2. QED
    BY <2>1 DEF Kept
<1>3. QED
  BY <1>1, <1>2 DEF Tagged


-----------------------------------------------------------------------------
(* The blocks around one that is freed *)

\* A heap whose allocator is written between p and q only.
LEMMA Retiled ==
  ASSUME NEW da, NEW B, NEW z, NEW U, NEW x, Tiled(da, B, z, U, x),
         NEW e \in Allocators, e.brk = da.brk, e.up,
         NEW p \in Int, NEW q \in Int, First <= p, q <= da.brk, Outside(e.mem, da.mem, p, q),
         NEW B2, NEW z2, NEW U2 \in SUBSET B2, NEW x2, Laid(B2, z2, First, da.brk),
         Kept(e.mem, B, z, U, x, p, q, B2, z2, U2, x2),
         Apart(B2, z2, U2, da.brk), FreeList(e.fbl, B2 \ U2)
  PROVE  Tiled(e, B2, z2, U2, x2)
<1>1. Laid(B, z, First, da.brk) /\ Tagged(da.mem, B, z, U, da.brk, x)
  BY DEF Tiled
<1>2. Tagged(e.mem, B2, z2, U2, da.brk, x2)
  BY <1>1, Rewritten
<1>3. QED
  BY <1>2 DEF Tiled

\* Tags of blocks are 16 at least, with their lowest bit for allocated ones.
LEMMA TagType ==
  ASSUME NEW B, NEW z, NEW lo, NEW hi, Laid(B, z, lo, hi), NEW U, NEW b \in B
  PROVE  /\ Tag(z, U, b) \in Int /\ Tag(z, U, b) >= 16
         /\ Tag(z, U, b) % 2 = IF b \in U THEN 1 ELSE 0
<1>1. z[b] \in Int /\ z[b] >= 16 /\ z[b] \in Evens
  BY LaidTypes
<1>2. (z[b] + 1) % 2 = 1 /\ z[b] % 2 = 0
  BY <1>1, Flags
<1>3. QED
  BY <1>1, <1>2 DEF Tag

\* What free_block() finds out about the neighbours of an allocated block.
Surrounded(da, B, z, U, b) ==
  /\ Header(da, b) = z[b] + 1
  /\ Word(da.mem, b - 8) % 2 = 1 => /\ \A d \in B \ U : d + z[d] # b
                                    /\ Word(da.mem, b - 8) = 1 => b = First
  /\ Word(da.mem, b - 8) % 2 # 1 =>
       \E c \in B \ U : c + z[c] = b /\ Word(da.mem, b - 8) = z[c]
  /\ \A d \in B \union {da.brk} : d = b + z[b] =>
       /\ Word(da.mem, d - 4) % 2 = 1 => /\ d \in U \union {da.brk}
                                         /\ Word(da.mem, d - 4) = 1 => d = da.brk
       /\ Word(da.mem, d - 4) % 2 # 1 => d \in B \ U /\ Word(da.mem, d - 4) = z[d]
  /\ b + z[b] \in B \union {da.brk}

(* This is what surrounds a block in use, which free_block() finds by the tags next
   to it. *)
LEMMA Surroundings ==
  ASSUME NEW da, NEW B, NEW z, NEW U, NEW b \in U, NEW x, x \in {0, b}, Tiled(da, B, z, U, x)
  PROVE  Surrounded(da, B, z, U, b)
<1>1. b \in B /\ Laid(B, z, First, da.brk)
  BY DEF Tiled
<1>2. /\ Header(da, b) = Tag(z, U, b)
      /\ \/ b = First /\ Word(da.mem, b - 8) = 1
         \/ \E c \in B : c + z[c] = b /\ c # x /\ Word(da.mem, b - 8) = Tag(z, U, c)
      /\ b + z[b] \in B \union {da.brk}
      /\ \A d \in B \union {da.brk} : \/ d = da.brk /\ Word(da.mem, d - 4) = 1
                                      \/ d \in B /\ Word(da.mem, d - 4) = Tag(z, U, d)
  <2>1. Around(da, B, z, U, b, x)
    BY <1>1, Neighbours
  <2>2. QED
    BY <2>1 DEF Around
<1>3. \A d \in B : /\ Tag(z, U, d) \in Int /\ Tag(z, U, d) >= 16
                   /\ Tag(z, U, d) % 2 = IF d \in U THEN 1 ELSE 0
                   /\ d \in Int /\ z[d] \in Int /\ z[d] >= 16 /\ First <= d /\ First \in Int
  <2>1. \A d \in B : First <= d
    BY <1>1 DEF Laid
  <2>2. QED
    BY <1>1, <2>1, TagType, LaidTypes
<1>4. Header(da, b) = z[b] + 1
  BY <1>2 DEF Tag
<1>5. 1 % 2 = 1
  OBVIOUS
<1>6. CASE b = First /\ Word(da.mem, b - 8) = 1
  <2>1. \A d \in B \ U : d + z[d] # b
    BY <1>3, <1>6
  <2>2. \A d \in B \union {da.brk} : d = b + z[b] =>
              /\ Word(da.mem, d - 4) % 2 = 1 => /\ d \in U \union {da.brk}
                                                /\ Word(da.mem, d - 4) = 1 => d = da.brk
              /\ Word(da.mem, d - 4) % 2 # 1 => d \in B \ U /\ Word(da.mem, d - 4) = z[d]
    BY <1>2, <1>3, <1>5 DEF Tag
  <2>3. QED
    BY <1>2, <1>4, <1>5, <1>6, <2>1, <2>2 DEF Surrounded
<1>7. CASE \E c \in B : c + z[c] = b /\ c # x /\ Word(da.mem, b - 8) = Tag(z, U, c)
  <2>1. PICK c \in B : c + z[c] = b /\ Word(da.mem, b - 8) = Tag(z, U, c)
    BY <1>7
  <2>2. \A d \in B : d # c => d + z[d] # b
    BY <1>1, <2>1, Beside
  <2>3. Word(da.mem, b - 8) % 2 = 1 =>
              /\ \A d \in B \ U : d + z[d] # b
              /\ Word(da.mem, b - 8) # 1
    BY <1>3, <2>1, <2>2
  <2>4. Word(da.mem, b - 8) % 2 # 1 => c \in B \ U /\ Word(da.mem, b - 8) = z[c]
    BY <1>3, <2>1 DEF Tag
  <2>5. \A d \in B \union {da.brk} : d = b + z[b] =>
              /\ Word(da.mem, d - 4) % 2 = 1 => /\ d \in U \union {da.brk}
                                                /\ Word(da.mem, d - 4) = 1 => d = da.brk
              /\ Word(da.mem, d - 4) % 2 # 1 => d \in B \ U /\ Word(da.mem, d - 4) = z[d]
    BY <1>2, <1>3, <1>5 DEF Tag
  <2>6. QED
    BY <1>2, <1>4, <2>1, <2>3, <2>4, <2>5 DEF Surrounded
<1>8. QED
  BY <1>2, <1>6, <1>7

\* Where a block is in the free list.
LEMMA PositionIs ==
  ASSUME NEW da \in Allocators, NEW va \in Elems(da.fbl)
  PROVE  Position(da, va) \in DOMAIN da.fbl /\ da.fbl[Position(da, va)] = va
<1>1. \E i \in DOMAIN da.fbl : da.fbl[i] = va
  BY DEF Elems
<1>2. QED
  BY <1>1 DEF Position


-----------------------------------------------------------------------------
(* free_block() *)

\* The block va is free, alone or as a part of f; nothing else happened.
FreedAs(e, brk, B, z, U, x, n, V, B2, z2, x2, f) ==
  /\ e.brk = brk /\ Tiled(e, B2, z2, V, x2) /\ f \in B2 \ V /\ z2[f] >= n
  /\ x2 \in {0, f} /\ (x = 0 => x2 = 0)
  /\ \A u \in V : z2[u] = z[u]
  /\ \A g \in B2 \ V : g # f => g \in B \ U /\ z2[g] = z[g]

Freed(e, da, B, z, U, x, va) ==
  \E B2, z2, x2, f : FreedAs(e, da.brk, B, z, U, x, z[va], U \ {va}, B2, z2, x2, f)

\* Where free_block() puts a block into the list.
Place(s, va, prev, next) ==
  IF prev = 1 THEN 1
  ELSE IF next = 1 \/ \A i \in DOMAIN s : s[i] < va THEN Len(s) + 1
  ELSE CHOOSE i \in DOMAIN s : s[i] > va /\ \A j \in 1 .. i - 1 : s[j] <= va

\* It is where the block belongs.
LEMMA PlaceInOrder ==
  ASSUME NEW s \in Seq(Int), Ordered(s), NEW va \in Int, va \notin Elems(s), NEW prev, NEW next,
         prev = 1 => \A i \in DOMAIN s : s[i] > va, next = 1 => \A i \in DOMAIN s : s[i] < va
  PROVE  /\ Place(s, va, prev, next) \in 1 .. Len(s) + 1
         /\ \A i \in DOMAIN s : /\ i < Place(s, va, prev, next) => s[i] < va
                                /\ i >= Place(s, va, prev, next) => s[i] > va
<1> DEFINE at == Place(s, va, prev, next)
<1>1. Len(s) \in Nat /\ DOMAIN s = 1 .. Len(s) /\ \A i \in DOMAIN s : s[i] \in Int /\ s[i] # va
  BY DEF Elems
<1>2. CASE prev = 1
  <2>1. at = 1
    BY <1>2 DEF Place
  <2>2. QED
    BY <1>1, <1>2, <2>1
<1>3. CASE prev # 1 /\ (next = 1 \/ \A i \in DOMAIN s : s[i] < va)
  <2>1. at = Len(s) + 1
    BY <1>3 DEF Place
  <2>2. \A i \in DOMAIN s : s[i] < va
    BY <1>3
  <2>3. QED
    BY <1>1, <2>1, <2>2
<1>4. CASE prev # 1 /\ ~(next = 1 \/ \A i \in DOMAIN s : s[i] < va)
  <2> DEFINE T == {i \in DOMAIN s : s[i] > va}
             Is(i) == i \in DOMAIN s /\ s[i] > va /\ \A j \in 1 .. i - 1 : s[j] <= va
  <2>1. T \in SUBSET Nat /\ T # {}
    BY <1>1, <1>4
  <2>2. PICK t \in T : \A j \in T : t <= j
    BY <2>1, LeastNat
  <2>3. Is(t)
    <3>1. ASSUME NEW j \in 1 .. t - 1
          PROVE  s[j] <= va
      <4>1. j \in DOMAIN s /\ ~(t <= j)
        BY <1>1, <2>2
      <4>2. j \notin T
        BY <2>2, <4>1
      <4>3. QED
        BY <1>1, <4>1, <4>2
    <3>2. QED
      BY <2>2, <3>1
  <2>4. at = CHOOSE i \in DOMAIN s : s[i] > va /\ \A j \in 1 .. i - 1 : s[j] <= va
    BY <1>4 DEF Place
  <2>5. Is(at)
    BY <2>3, <2>4
  <2> HIDE DEF at
  <2>6. ASSUME NEW i \in DOMAIN s
        PROVE  (i < at => s[i] < va) /\ (i >= at => s[i] > va)
    <3>1. at \in 1 .. Len(s) /\ i \in 1 .. Len(s) /\ s[at] > va /\ s[at] \in Int
      BY <1>1, <2>5
    <3>2. CASE i < at
      <4>1. i \in 1 .. at - 1
        BY <3>1, <3>2
      <4>2. s[i] <= va
        BY <2>5, <4>1
      <4>3. QED
        BY <1>1, <3>1, <3>2, <4>2
    <3>3. CASE i = at
      BY <3>1, <3>3
    <3>4. CASE i > at
      <4>1. s[at] < s[i]
        BY <1>1, <3>1, <3>4 DEF Ordered
      <4>2. QED
        BY <1>1, <3>1, <3>4, <4>1
    <3>5. QED
      BY <3>1, <3>2, <3>3, <3>4
  <2>7. at \in 1 .. Len(s) + 1
    BY <1>1, <2>5
  <2>8. QED
    BY <2>6, <2>7 DEF at
<1>5. QED
  BY <1>2, <1>3, <1>4


\* The parts of a heap that is tiled.
LEMMA TiledTypes ==
  ASSUME NEW da, NEW B, NEW z, NEW U, NEW x, Tiled(da, B, z, U, x)
  PROVE  /\ da \in Allocators /\ da.up /\ U \subseteq B /\ Laid(B, z, First, da.brk)
         /\ Apart(B, z, U, da.brk) /\ da.fbl \in Seq(Int) /\ Ordered(da.fbl) /\ Elems(da.fbl) = B \ U
         /\ da.mem \in Mems /\ da.brk \in Int /\ First \in Int /\ First > 0
         /\ \A b \in B : /\ b \in Int /\ z[b] \in Int /\ z[b] >= 16 /\ z[b] \in Evens
                         /\ First <= b /\ b + z[b] <= da.brk
<1>1. /\ da \in Allocators /\ da.up /\ U \subseteq B /\ Laid(B, z, First, da.brk)
      /\ Apart(B, z, U, da.brk) /\ Ordered(da.fbl) /\ Elems(da.fbl) = B \ U
  BY DEF Tiled, FreeList
<1>2. da.fbl \in Seq(Int) /\ da.mem \in Mems
  BY <1>1, AllocatorTypes
<1>3. /\ da.brk \in Int /\ First \in Int /\ First > 0
      /\ \A b \in B : b \in Int /\ z[b] \in Int /\ z[b] >= 16 /\ z[b] \in Evens
  BY <1>1, LaidTypes, StartType
<1>4. \A b \in B : First <= b /\ b + z[b] <= da.brk
  BY <1>1 DEF Laid
<1>5. QED
  BY <1>1, <1>2, <1>3, <1>4

\* free_block() without a free neighbour.
LEMMA FreeAlone ==
  ASSUME NEW da, NEW B, NEW z, NEW U, NEW x, Tiled(da, B, z, U, x), NEW va \in U, x \in {0, va},
         Header(da, va) = z[va] + 1, \A c \in B \ U : c + z[c] # va,
         NEW d \in U \union {da.brk}, d = va + z[va],
         NEW prev, prev = 1 => va = First, NEW next, next = 1 => d = da.brk
  PROVE  Freed(free_alone(da, va, d - 8, prev, next), da, B, z, U, x, va)
<1> DEFINE n == z[va]
           w == Minus1(Word(da.mem, va + n - 8))
           m == Framed(da.mem, va, n, n, w, n - 8)
           s == InsertAt(da.fbl, Place(da.fbl, va, prev, next), va)
           e == [da EXCEPT !.mem = m, !.fbl = s]
           V == U \ {va}
<1>1. /\ da \in Allocators /\ da.up /\ U \subseteq B /\ Laid(B, z, First, da.brk)
      /\ Apart(B, z, U, da.brk) /\ da.fbl \in Seq(Int) /\ Ordered(da.fbl) /\ Elems(da.fbl) = B \ U
      /\ da.mem \in Mems /\ da.brk \in Int /\ First \in Int /\ First > 0
      /\ \A b \in B : /\ b \in Int /\ z[b] \in Int /\ z[b] >= 16 /\ z[b] \in Evens
                      /\ First <= b /\ b + z[b] <= da.brk
  BY TiledTypes
<1>2. va \in B /\ va \in Int /\ n \in Int /\ n >= 16 /\ n \in Evens /\ d \in Int /\ First <= va /\ d <= da.brk
  BY <1>1
<1>3. free_alone(da, va, d - 8, prev, next) = e
  <2>1. d - 8 = va + n - 8 /\ (d - 8) - va = n - 8 /\ Header(da, va) - 1 = n
    BY <1>2
  <2>2. free_alone(da, va, d - 8, prev, next) =
          [da EXCEPT !.mem = Scribble(Put(Put(da.mem, va - 4, Header(da, va) - 1),
                                          d - 8, Minus1(Word(da.mem, d - 8))), va, (d - 8) - va),
                     !.fbl = s]
    BY <1>1 DEF free_alone, Place
  <2> HIDE DEF s, n
  <2>3. QED
    BY <2>1, <2>2 DEF Framed
<1>4. w \in Int /\ (va # x => w = n)
  <2>1. Word(da.mem, va + n - 8) \in Int
    <3>1. va + n - 8 \in Int
      BY <1>2
    <3>2. QED
      BY <1>1, <3>1, WordType
  <2>2. Tags(da.mem, z, U, va, x)
    BY <1>2 DEF Tiled, Tagged
  <2>3. va # x => Word(da.mem, va + n - 8) = n + 1
    BY <2>2 DEF Tags, Tag
  <2>4. Minus1(n + 1) = n
    BY <1>2, Flags
  <2>5. \A y \in Int : Minus1(y) \in Int
    BY DEF Minus1, Garbage
  <2>6. QED
    BY <2>1, <2>3, <2>4, <2>5
<1>5. m \in Mems /\ Word(m, va - 4) = n /\ Word(m, va + n - 8) = w /\ Outside(m, da.mem, va, d)
  <2>1. n - 8 \in Int /\ 0 <= n - 8 /\ n - 8 <= n - 8
    BY <1>2
  <2>2. HasFrame(m, da.mem, va, n, n, w)
    BY <1>1, <1>2, <1>4, <2>1, FramedWords
  <2> HIDE DEF m, w
  <2>3. QED
    BY <2>2 DEF HasFrame
<1> HIDE DEF m
<1>6. s \in Seq(Int) /\ Ordered(s) /\ Elems(s) = (B \ U) \union {va}
  <2>1. \A i \in DOMAIN da.fbl : da.fbl[i] \in B \ U
    BY <1>1 DEF Elems
  <2>2. prev = 1 => \A i \in DOMAIN da.fbl : da.fbl[i] > va
    <3>1. ASSUME prev = 1, NEW c \in B \ U
          PROVE  c > va
      BY <1>1, <1>2, <3>1
    <3>2. QED
      BY <2>1, <3>1
  <2>3. next = 1 => \A i \in DOMAIN da.fbl : da.fbl[i] < va
    <3>1. ASSUME next = 1, NEW c \in B \ U
          PROVE  c < va
      <4>1. c # va /\ c \in Int /\ z[c] >= 16 /\ z[c] \in Int /\ c + z[c] <= va + n
        BY <1>1, <1>2, <3>1
      <4>2. c + z[c] <= va \/ va + n <= c
        BY <1>1, <1>2, <4>1, Beside
      <4>3. QED
        BY <1>2, <4>1, <4>2
    <3>2. QED
      BY <2>1, <3>1
  <2>4. va \notin Elems(da.fbl)
    BY <1>1
  <2>5. /\ Place(da.fbl, va, prev, next) \in 1 .. Len(da.fbl) + 1
        /\ \A i \in DOMAIN da.fbl : /\ i < Place(da.fbl, va, prev, next) => da.fbl[i] < va
                                    /\ i >= Place(da.fbl, va, prev, next) => da.fbl[i] > va
    BY <1>1, <1>2, <2>2, <2>3, <2>4, PlaceInOrder
  <2>6. InOrder(s, (B \ U) \union {va})
    BY <1>1, <1>2, <2>5, OrderedInsert
  <2> HIDE DEF s
  <2>7. QED
    BY <2>6 DEF InOrder
<1> HIDE DEF s
<1>7. e \in Allocators /\ e.mem = m /\ e.fbl = s /\ e.brk = da.brk /\ e.up
  <2>1. Wrote(e, da, m, s)
    BY <1>1, <1>5, <1>6, SetAllocator
  <2>2. QED
    BY <1>1, <2>1 DEF Wrote
<1> HIDE DEF e
<1>8. Tags(e.mem, z, V, va, x)
  <2>1. Tag(z, V, va) = n
    BY DEF Tag
  <2>2. QED
    BY <1>4, <1>5, <1>7, <2>1 DEF Tags
<1>9. \A c \in B : c # va => /\ c + z[c] <= va \/ d <= c
                             /\ c \in V <=> c \in U
                             /\ c # x
  <2>1. \A c \in B : c # 0
    BY <1>1
  <2>2. \A c \in B : c # va => c + z[c] <= va \/ va + z[va] <= c
    BY <1>1, <1>2, Beside
  <2>3. QED
    BY <2>1, <2>2
<1>10. Apart(B, z, V, da.brk)
  <2>1. va + z[va] \in V \union {da.brk}
    BY <1>2
  <2>2. \A c \in B \ U : c + z[c] \in V \union {da.brk}
    BY <1>1 DEF Apart
  <2>3. QED
    BY <1>2, <2>1, <2>2 DEF Apart
<1>11. FreeList(e.fbl, B \ V)
  <2>1. B \ V = (B \ U) \union {va}
    BY <1>2
  <2>2. QED
    BY <1>6, <1>7, <2>1 DEF FreeList
<1>12. Tiled(e, B, z, V, x)
  <2>1. V \in SUBSET B
    BY <1>1
  <2>2. Kept(e.mem, B, z, U, x, va, d, B, z, V, x)
    BY <1>8, <1>9 DEF Kept
  <2>3. Outside(e.mem, da.mem, va, d)
    BY <1>5, <1>7
  <2>4. QED
    BY <1>1, <1>2, <1>7, <1>10, <1>11, <2>1, <2>2, <2>3, Retiled
<1>13. Freed(e, da, B, z, U, x, va)
  <2>1. /\ va \in B \ (U \ {va}) /\ z[va] >= z[va] /\ x \in {0, va}
        /\ \A g \in B \ (U \ {va}) : g # va => g \in B \ U
    BY <1>2
  <2>2. QED
    <3>1. FreedAs(e, da.brk, B, z, U, x, z[va], V, B, z, x, va)
      BY <1>7, <1>12, <2>1 DEF FreedAs
    <3>2. QED
      BY <3>1 DEF Freed
<1>14. QED
  BY <1>3, <1>13


\* free_block() with a free block before it.
LEMMA FreePrev ==
  ASSUME NEW da, NEW B, NEW z, NEW U, NEW x, Tiled(da, B, z, U, x), NEW va \in U, x \in {0, va},
         Header(da, va) = z[va] + 1, NEW c \in B \ U, c + z[c] = va,
         NEW d \in U \union {da.brk}, d = va + z[va]
  PROVE  Freed(free_with_prev(da, va, d - 8, z[c]), da, B, z, U, x, va)
<1> DEFINE n == z[c] + z[va]
           m == Framed(da.mem, c, n, n, n, n - 8)
           e == [da EXCEPT !.mem = m]
           V == U \ {va}
           A == B \ {va}
           y == Joined(B, z, c, va)
<1>1. /\ da \in Allocators /\ da.up /\ U \subseteq B /\ Laid(B, z, First, da.brk)
      /\ Apart(B, z, U, da.brk) /\ da.fbl \in Seq(Int) /\ Ordered(da.fbl) /\ Elems(da.fbl) = B \ U
      /\ da.mem \in Mems /\ da.brk \in Int /\ First \in Int /\ First > 0
      /\ \A b \in B : /\ b \in Int /\ z[b] \in Int /\ z[b] >= 16 /\ z[b] \in Evens
                      /\ First <= b /\ b + z[b] <= da.brk
  BY TiledTypes
<1>2. /\ va \in B /\ va \in Int /\ z[va] \in Int /\ z[va] >= 16 /\ c \in Int /\ z[c] \in Int /\ z[c] >= 16
      /\ First <= c /\ d \in Int /\ d <= da.brk /\ n \in Int /\ n >= 16 /\ d = c + n /\ c # va /\ c < va
  <2>1. /\ va \in B /\ va \in Int /\ z[va] \in Int /\ z[va] >= 16 /\ va + z[va] <= da.brk
        /\ c \in Int /\ z[c] \in Int /\ z[c] >= 16 /\ First <= c
    BY <1>1
  <2>2. d \in Int /\ d <= da.brk
    BY <2>1
  <2>3. n \in Int /\ n >= 16 /\ d = c + n /\ c # va /\ c < va
    BY <2>1
  <2>4. QED
    BY <2>1, <2>2, <2>3
<1>3. free_with_prev(da, va, d - 8, z[c]) = e
  <2> DEFINE hp == va - 4 - z[c]
             total == Header(da, va) - 1 + z[c]
             f == d - 8
             a == hp + 4
             k == total - 8
  <2>1. free_with_prev(da, va, f, z[c]) =
          [da EXCEPT !.mem = Scribble(Put(Put(@, hp, total), f, total), a, k)]
    BY DEF free_with_prev
  <2>2. hp = c - 4 /\ total = n /\ f = c + n - 8 /\ a = c /\ k = n - 8
    BY <1>2
  <2> HIDE DEF hp, total, a, k, n
  <2>3. QED
    BY <2>1, <2>2 DEF Framed
<1>4. m \in Mems /\ Word(m, c - 4) = n /\ Word(m, c + n - 8) = n /\ Outside(m, da.mem, c, d)
  <2>1. n - 8 \in Int /\ 0 <= n - 8 /\ n - 8 <= n - 8
    BY <1>2
  <2>2. HasFrame(m, da.mem, c, n, n, n)
    BY <1>1, <1>2, <2>1, FramedWords
  <2> HIDE DEF m, n
  <2>3. QED
    BY <1>2, <2>2 DEF HasFrame
<1> HIDE DEF m
<1>5. e \in Allocators /\ e.mem = m /\ e.fbl = da.fbl /\ e.brk = da.brk /\ e.up
  <2>1. Wrote(e, da, m, da.fbl)
    BY <1>1, <1>4, SetAllocator
  <2>2. QED
    BY <1>1, <2>1 DEF Wrote
<1> HIDE DEF e
<1>6. Laid(A, y, First, da.brk)
  BY <1>1, <1>2, JoinLaid
<1>7. c \in A /\ c \notin V /\ y[c] = n /\ \A b \in A : b # c => y[b] = z[b]
  BY <1>2 DEF Joined
<1> HIDE DEF y, n
<1>8. Tags(e.mem, y, V, c, 0)
  <2>1. Tag(y, V, c) = n
    BY <1>7 DEF Tag
  <2>2. QED
    BY <1>4, <1>5, <1>7, <2>1 DEF Tags
<1>9. \A b \in A : b # c => /\ b + z[b] <= c \/ d <= b
                            /\ b \in V <=> b \in U
                            /\ b # x
  <2>1. \A b \in A : b # 0 /\ b # va
    BY <1>1
  <2>2. \A b \in B : b # c => b + z[b] <= c \/ c + z[c] <= b
    BY <1>1, Beside
  <2>3. \A b \in B : b # va => b + z[b] <= va \/ va + z[va] <= b
    BY <1>1, <1>2, Beside
  <2>4. ASSUME NEW b \in A, b # c
        PROVE  b + z[b] <= c \/ d <= b
    <3>1. b \in B /\ b # va /\ b \in Int /\ z[b] \in Int /\ z[b] >= 16
      BY <1>1
    <3>2. b + z[b] <= c \/ va <= b
      BY <2>2, <2>4, <3>1
    <3>3. b + z[b] <= va \/ d <= b
      BY <2>3, <3>1
    <3>4. QED
      BY <1>2, <3>1, <3>2, <3>3
  <2>5. QED
    BY <2>1, <2>4
<1>10. Apart(A, y, V, da.brk)
  <2>1. c + y[c] \in V \union {da.brk}
    <3>1. c + y[c] = d /\ d # va
      BY <1>2, <1>7
    <3>2. d \in V \union {da.brk}
      BY <3>1
    <3>3. QED
      BY <3>1, <3>2
  <2>2. \A b \in B \ U : b + z[b] \in U \union {da.brk}
    BY <1>1 DEF Apart
  <2>3. \A b \in B : b # c => b + z[b] # va
    <3>1. \A b \in B : b # c => b + z[b] # c + z[c]
      BY <1>1, Beside
    <3>2. QED
      BY <3>1
  <2>4. ASSUME NEW b \in A \ V, b # c
        PROVE  b + y[b] \in V \union {da.brk}
    <3>1. b \in B \ U /\ y[b] = z[b]
      BY <1>7, <1>9, <2>4
    <3>2. QED
      BY <2>2, <2>3, <2>4, <3>1
  <2>5. QED
    BY <2>1, <2>4 DEF Apart
<1>11. FreeList(e.fbl, A \ V)
  <2>1. A \ V = B \ U
    BY <1>2
  <2>2. QED
    BY <1>1, <1>5, <2>1 DEF FreeList
<1>12. Tiled(e, A, y, V, 0)
  <2>1. V \in SUBSET A
    BY <1>1
  <2>2. Kept(e.mem, B, z, U, x, c, d, A, y, V, 0)
    BY <1>7, <1>8, <1>9 DEF Kept
  <2>3. Outside(e.mem, da.mem, c, d)
    BY <1>4, <1>5
  <2>4. QED
    BY <1>1, <1>2, <1>5, <1>6, <1>10, <1>11, <2>1, <2>2, <2>3, Retiled
<1>13. Freed(e, da, B, z, U, x, va)
  <2>1. c \in A \ V /\ 0 \in {0, c}
    BY <1>7
  <2>2. y[c] >= z[va]
    BY <1>2, <1>7 DEF n
  <2>3. \A u \in V : y[u] = z[u]
    BY <1>1, <1>7
  <2>4. \A g \in A \ V : g # c => g \in B \ U /\ y[g] = z[g]
    BY <1>7, <1>9
  <2>5. FreedAs(e, da.brk, B, z, U, x, z[va], V, A, y, 0, c)
    BY <1>5, <1>12, <2>1, <2>2, <2>3, <2>4 DEF FreedAs
  <2>6. QED
    BY <2>5 DEF Freed
<1>14. QED
  BY <1>3, <1>13

\* free_block() with a free block after it.
LEMMA FreeNext ==
  ASSUME NEW da, NEW B, NEW z, NEW U, NEW x, Tiled(da, B, z, U, x), NEW va \in U, x \in {0, va},
         Header(da, va) = z[va] + 1, \A c \in B \ U : c + z[c] # va,
         NEW d \in B \ U, d = va + z[va]
  PROVE  Freed(free_with_next(da, va, d - 8, z[d], d - 4), da, B, z, U, x, va)
<1> DEFINE n == z[va] + z[d]
           mem0 == Put(da.mem, d - 8, Minus1(Word(da.mem, d - 8)))
           m == Framed(mem0, va, n, n, n, n - 8)
           s == ReplaceAt(da.fbl, Position(da, d), va)
           e == [da EXCEPT !.mem = m, !.fbl = s]
           V == U \ {va}
           A == B \ {d}
           y == Joined(B, z, va, d)
           q == d + z[d]
<1>1. /\ da \in Allocators /\ da.up /\ U \subseteq B /\ Laid(B, z, First, da.brk)
      /\ Apart(B, z, U, da.brk) /\ da.fbl \in Seq(Int) /\ Ordered(da.fbl) /\ Elems(da.fbl) = B \ U
      /\ da.mem \in Mems /\ da.brk \in Int /\ First \in Int /\ First > 0
      /\ \A b \in B : /\ b \in Int /\ z[b] \in Int /\ z[b] >= 16 /\ z[b] \in Evens
                      /\ First <= b /\ b + z[b] <= da.brk
  BY TiledTypes
<1>2. /\ va \in B /\ va \in Int /\ z[va] \in Int /\ z[va] >= 16 /\ d \in Int /\ z[d] \in Int /\ z[d] >= 16
      /\ First <= va /\ q \in Int /\ q <= da.brk /\ n \in Int /\ n >= 16 /\ q = va + n /\ d # va /\ va < d
  <2>1. /\ va \in B /\ va \in Int /\ z[va] \in Int /\ z[va] >= 16 /\ First <= va
        /\ d \in Int /\ z[d] \in Int /\ z[d] >= 16 /\ d + z[d] <= da.brk
    BY <1>1
  <2>2. q \in Int /\ q <= da.brk /\ n \in Int /\ n >= 16
    BY <2>1
  <2>3. q = va + n /\ d # va /\ va < d
    BY <2>1
  <2>4. QED
    BY <2>1, <2>2, <2>3
<1>3. free_with_next(da, va, d - 8, z[d], d - 4) = e
  <2> DEFINE total == Header(da, va) - 1 + z[d]
             f == d - 4 + z[d] - 4
             k == total - 8
             g == d - 4 + 4
  <2>1. free_with_next(da, va, d - 8, z[d], d - 4) =
          [da EXCEPT !.mem = Scribble(Put(Put(mem0, va - 4, total), f, total), va, k),
                     !.fbl = ReplaceAt(@, Position(da, g), va)]
    BY DEF free_with_next
  <2>2. total = n /\ f = va + n - 8 /\ k = n - 8 /\ g = d
    BY <1>2
  <2> HIDE DEF total, f, k, g, n, mem0
  <2>3. QED
    BY <2>1, <2>2 DEF Framed
<1>4. m \in Mems /\ Word(m, va - 4) = n /\ Word(m, va + n - 8) = n /\ Outside(m, da.mem, va, q)
  <2>1. d - 8 \in Int /\ Minus1(Word(da.mem, d - 8)) \in Int
    <3>1. d - 8 \in Int
      BY <1>2
    <3>2. Word(da.mem, d - 8) \in Int
      BY <1>1, <3>1, WordType
    <3>3. QED
      BY <3>1, <3>2 DEF Minus1, Garbage
  <2>2. /\ mem0 \in Mems
        /\ \A w \in Int : w # d - 8 /\ w # d - 8 - 2 /\ w # d - 8 + 2 => Word(mem0, w) = Word(da.mem, w)
    <3>1. OneWord(mem0, da.mem, d - 8, Minus1(Word(da.mem, d - 8)))
      BY <1>1, <2>1, PutWord
    <3>2. QED
      BY <3>1 DEF OneWord
  <2> HIDE DEF mem0
  <2>3. n - 8 \in Int /\ 0 <= n - 8 /\ n - 8 <= n - 8
    BY <1>2
  <2>4. HasFrame(m, mem0, va, n, n, n)
    BY <1>2, <2>2, <2>3, FramedWords
  <2> HIDE DEF m, n
  <2>5. m \in Mems /\ Word(m, va - 4) = n /\ Word(m, va + n - 8) = n /\ Outside(m, mem0, va, q)
    BY <1>2, <2>4 DEF HasFrame
  <2>6. \A w \in Int : w <= va - 8 \/ w >= q - 4 => w # d - 8 /\ w # d - 8 - 2 /\ w # d - 8 + 2
    BY <1>2
  <2>7. Outside(m, da.mem, va, q)
    BY <2>2, <2>5, <2>6 DEF Outside
  <2>8. QED
    BY <2>5, <2>7
<1> HIDE DEF m
<1>5. /\ s \in Seq(Int) /\ Ordered(s) /\ Elems(s) = ((B \ U) \ {d}) \union {va}
  <2>1. Position(da, d) \in DOMAIN da.fbl /\ da.fbl[Position(da, d)] = d
    BY <1>1, PositionIs
  <2>2. ASSUME NEW b \in B \ U
        PROVE  SamePlace(b, va, d)
    <3>1. b # va /\ b \in Int /\ z[b] \in Int /\ z[b] >= 16
      BY <1>1
    <3>2. b + z[b] <= va \/ d <= b
      BY <1>1, <1>2, <3>1, Beside
    <3>3. QED
      BY <1>2, <3>1, <3>2 DEF SamePlace
  <2> DEFINE h == Position(da, d)
  <2>3. s = ReplaceAt(da.fbl, h, va)
    OBVIOUS
  <2>4. h \in DOMAIN da.fbl /\ da.fbl[h] = d
    BY <2>1
  <2> HIDE DEF h, s
  <2>5. \A b \in Elems(da.fbl) : SamePlace(b, va, da.fbl[h])
    BY <1>1, <2>2, <2>4
  <2>6. InOrder(s, (Elems(da.fbl) \ {da.fbl[h]}) \union {va})
    BY <1>1, <1>2, <2>3, <2>4, <2>5, OrderedReplace
  <2>7. QED
    BY <1>1, <2>4, <2>6 DEF InOrder
<1> HIDE DEF s
<1>6. e \in Allocators /\ e.mem = m /\ e.fbl = s /\ e.brk = da.brk /\ e.up
  <2>1. Wrote(e, da, m, s)
    BY <1>1, <1>4, <1>5, SetAllocator
  <2>2. QED
    BY <1>1, <2>1 DEF Wrote
<1> HIDE DEF e
<1>7. Laid(A, y, First, da.brk)
  BY <1>1, <1>2, JoinLaid
<1>8. va \in A /\ va \notin V /\ y[va] = n /\ \A b \in A : b # va => y[b] = z[b]
  BY <1>2 DEF Joined
<1> HIDE DEF y, n
<1>9. Tags(e.mem, y, V, va, 0)
  <2>1. Tag(y, V, va) = n
    BY <1>8 DEF Tag
  <2>2. QED
    BY <1>4, <1>6, <1>8, <2>1 DEF Tags
<1>10. \A b \in A : b # va => /\ b + z[b] <= va \/ q <= b
                              /\ b \in V <=> b \in U
                              /\ b # x
  <2>1. \A b \in A : b # 0
    BY <1>1
  <2>2. \A b \in B : b # va => b + z[b] <= va \/ va + z[va] <= b
    BY <1>1, <1>2, Beside
  <2>3. \A b \in B : b # d => b + z[b] <= d \/ d + z[d] <= b
    BY <1>1, Beside
  <2>4. ASSUME NEW b \in A, b # va
        PROVE  b + z[b] <= va \/ q <= b
    <3>1. b \in B /\ b # d /\ b \in Int /\ z[b] \in Int /\ z[b] >= 16
      BY <1>1
    <3>2. b + z[b] <= va \/ d <= b
      BY <2>2, <2>4, <3>1
    <3>3. b + z[b] <= d \/ q <= b
      BY <2>3, <3>1
    <3>4. QED
      BY <1>2, <3>1, <3>2, <3>3
  <2>5. QED
    BY <2>1, <2>4
<1>11. Apart(A, y, V, da.brk)
  <2>1. \A b \in B \ U : b + z[b] \in U \union {da.brk}
    BY <1>1 DEF Apart
  <2>2. va + y[va] \in V \union {da.brk}
    <3>1. q \in U \union {da.brk} /\ q # va
      BY <1>2, <2>1
    <3>2. QED
      BY <1>2, <1>8, <3>1
  <2>3. ASSUME NEW b \in A \ V, b # va
        PROVE  b + y[b] \in V \union {da.brk}
    <3>1. b \in B \ U /\ y[b] = z[b]
      BY <1>8, <1>10, <2>3
    <3>2. QED
      BY <2>1, <3>1
  <2>4. QED
    BY <2>2, <2>3 DEF Apart
<1>12. FreeList(e.fbl, A \ V)
  <2>1. A \ V = ((B \ U) \ {d}) \union {va}
    BY <1>2
  <2>2. QED
    BY <1>5, <1>6, <2>1 DEF FreeList
<1>13. Tiled(e, A, y, V, 0)
  <2>1. V \in SUBSET A
    BY <1>1
  <2>2. Kept(e.mem, B, z, U, x, va, q, A, y, V, 0)
    BY <1>8, <1>9, <1>10 DEF Kept
  <2>3. Outside(e.mem, da.mem, va, q)
    BY <1>4, <1>6
  <2>4. QED
    BY <1>1, <1>2, <1>6, <1>7, <1>11, <1>12, <2>1, <2>2, <2>3, Retiled
<1>14. Freed(e, da, B, z, U, x, va)
  <2>1. va \in A \ V /\ 0 \in {0, va}
    BY <1>8
  <2>2. y[va] >= z[va]
    BY <1>2, <1>8 DEF n
  <2>3. \A u \in V : y[u] = z[u]
    BY <1>1, <1>8
  <2>4. \A g \in A \ V : g # va => g \in B \ U /\ y[g] = z[g]
    BY <1>8, <1>10
  <2> HIDE DEF A, V
  <2>5. FreedAs(e, da.brk, B, z, U, x, z[va], V, A, y, 0, va)
    BY <1>6, <1>13, <2>1, <2>2, <2>3, <2>4 DEF FreedAs
  <2>6. QED
    BY <2>5 DEF Freed, V
<1>15. QED
  BY <1>3, <1>14


\* free_block() between two free blocks.
LEMMA FreeBoth ==
  ASSUME NEW da, NEW B, NEW z, NEW U, NEW x, Tiled(da, B, z, U, x), NEW va \in U, x \in {0, va},
         Header(da, va) = z[va] + 1, NEW c \in B \ U, c + z[c] = va,
         NEW d \in B \ U, d = va + z[va]
  PROVE  Freed(free_with_both(da, va, d - 8, z[c], z[d], d - 4), da, B, z, U, x, va)
<1> DEFINE n == z[c] + z[va] + z[d]
           w == Minus1(Word(da.mem, d - 8))
           mem0 == Put(Put(da.mem, va - 4, z[va]), d - 8, w)
           m == Framed(mem0, c, n, n, n, n - 8)
           s == Unlink(da, d)
           e == [da EXCEPT !.mem = m, !.fbl = s]
           V == U \ {va}
           z1 == Joined(B, z, va, d)
           A == (B \ {d}) \ {va}
           y == Joined(B \ {d}, z1, c, va)
           q == d + z[d]
<1>1. /\ da \in Allocators /\ da.up /\ U \subseteq B /\ Laid(B, z, First, da.brk)
      /\ Apart(B, z, U, da.brk) /\ da.fbl \in Seq(Int) /\ Ordered(da.fbl) /\ Elems(da.fbl) = B \ U
      /\ da.mem \in Mems /\ da.brk \in Int /\ First \in Int /\ First > 0
      /\ \A b \in B : /\ b \in Int /\ z[b] \in Int /\ z[b] >= 16 /\ z[b] \in Evens
                      /\ First <= b /\ b + z[b] <= da.brk
  BY TiledTypes
<1>2. /\ va \in B /\ va \in Int /\ z[va] \in Int /\ z[va] >= 16 /\ d \in Int /\ z[d] \in Int /\ z[d] >= 16
      /\ c \in Int /\ z[c] \in Int /\ z[c] >= 16
      /\ First <= c /\ q \in Int /\ q <= da.brk /\ n \in Int /\ n >= 16 /\ q = c + n
      /\ d # va /\ va < d /\ c # va /\ c < va /\ c # d
  <2>1. /\ va \in B /\ va \in Int /\ z[va] \in Int /\ z[va] >= 16
        /\ d \in Int /\ z[d] \in Int /\ z[d] >= 16 /\ d + z[d] <= da.brk
        /\ c \in Int /\ z[c] \in Int /\ z[c] >= 16 /\ First <= c
    BY <1>1
  <2>2. q \in Int /\ q <= da.brk /\ n \in Int /\ n >= 16
    BY <2>1
  <2>3. q = c + n /\ d # va /\ va < d /\ c # va /\ c < va /\ c # d
    BY <2>1
  <2>4. QED
    BY <2>1, <2>2, <2>3
<1>3. free_with_both(da, va, d - 8, z[c], z[d], d - 4) = e
  <2> DEFINE hp == va - 4 - z[c]
             total == Word(da.mem, hp) + Header(da, va) - 1 + z[d]
             h == Header(da, va) - 1
             f == d - 4 + z[d] - 4
             a == hp + 4
             k == total - 8
             g == d - 4 + 4
  <2>1. free_with_both(da, va, d - 8, z[c], z[d], d - 4) =
          [da EXCEPT !.mem = Scribble(Put(Put(Put(Put(da.mem, va - 4, h), d - 8, w), hp, total), f, total), a, k),
                     !.fbl = Unlink(da, g)]
    BY DEF free_with_both
  <2>2. Word(da.mem, c - 4) = z[c]
    <3>1. Tags(da.mem, z, U, c, x)
      BY DEF Tiled, Tagged
    <3>2. QED
      BY <3>1 DEF Tags, Tag
  <2>3. hp = c - 4 /\ h = z[va] /\ f = c + n - 8 /\ a = c /\ g = d
    BY <1>2
  <2>4. total = n /\ k = n - 8
    <3>1. total = z[c] + Header(da, va) - 1 + z[d]
      BY <2>2, <2>3
    <3>2. QED
      BY <1>2, <3>1
  <2> HIDE DEF hp, total, h, f, a, k, g, n, w
  <2>5. QED
    BY <2>1, <2>3, <2>4 DEF Framed
<1>4. m \in Mems /\ Word(m, c - 4) = n /\ Word(m, c + n - 8) = n /\ Outside(m, da.mem, c, q)
  <2> DEFINE p1 == va - 4
             p2 == d - 8
  <2>1. p1 \in Int /\ p2 \in Int /\ p1 + 4 <= p2 /\ w \in Int
    <3>1. p1 \in Int /\ p2 \in Int /\ p1 + 4 <= p2
      BY <1>2
    <3>2. Word(da.mem, d - 8) \in Int
      BY <1>1, <3>1, WordType
    <3>3. QED
      BY <3>1, <3>2 DEF Minus1, Garbage
  <2>2. \A v \in Int : v <= c - 8 \/ v >= q - 4 => Away(v, p1) /\ Away(v, p2)
    BY <1>2 DEF Away
  <2>3. mem0 = Put(Put(da.mem, p1, z[va]), p2, w)
    OBVIOUS
  <2> HIDE DEF p1, p2, w, mem0
  <2>4. TwoWords(mem0, da.mem, p1, z[va], p2, w)
    BY <1>1, <1>2, <2>1, <2>3, PutTwo
  <2>5. mem0 \in Mems /\ \A v \in Int : Away(v, p1) /\ Away(v, p2) => Word(mem0, v) = Word(da.mem, v)
    BY <2>4 DEF TwoWords
  <2>6. n - 8 \in Int /\ 0 <= n - 8 /\ n - 8 <= n - 8
    BY <1>2
  <2>7. HasFrame(m, mem0, c, n, n, n)
    BY <1>2, <2>5, <2>6, FramedWords
  <2> HIDE DEF m, n
  <2>8. m \in Mems /\ Word(m, c - 4) = n /\ Word(m, c + n - 8) = n /\ Outside(m, mem0, c, q)
    BY <1>2, <2>7 DEF HasFrame
  <2>9. Outside(m, da.mem, c, q)
    BY <2>2, <2>5, <2>8 DEF Outside
  <2>10. QED
    BY <2>8, <2>9
<1> HIDE DEF m
<1>5. s \in Seq(Int) /\ Ordered(s) /\ Elems(s) = (B \ U) \ {d}
  <2> DEFINE h == Position(da, d)
  <2>1. h \in DOMAIN da.fbl /\ da.fbl[h] = d
    BY <1>1, PositionIs
  <2>2. s = RemoveAt(da.fbl, h)
    BY DEF Unlink
  <2> HIDE DEF h, s
  <2>3. InOrder(s, Elems(da.fbl) \ {da.fbl[h]})
    BY <1>1, <2>1, <2>2, OrderedRemove
  <2>4. QED
    BY <1>1, <2>1, <2>3 DEF InOrder
<1> HIDE DEF s
<1>6. e \in Allocators /\ e.mem = m /\ e.fbl = s /\ e.brk = da.brk /\ e.up
  <2>1. Wrote(e, da, m, s)
    BY <1>1, <1>4, <1>5, SetAllocator
  <2>2. QED
    BY <1>1, <2>1 DEF Wrote
<1> HIDE DEF e
<1>7. Laid(A, y, First, da.brk)
  <2>1. Laid(B \ {d}, z1, First, da.brk)
    BY <1>1, <1>2, JoinLaid
  <2>2. z1[c] = z[c]
    BY <1>2 DEF Joined
  <2>3. c \in B \ {d} /\ va \in B \ {d} /\ c + z1[c] = va
    BY <1>2, <2>2
  <2> HIDE DEF z1
  <2>4. QED
    BY <2>1, <2>3, JoinLaid
<1>8. c \in A /\ c \notin V /\ y[c] = n /\ \A b \in A : b # c => y[b] = z[b]
  <2>1. z1[c] = z[c] /\ z1[va] = z[va] + z[d] /\ \A b \in B \ {d} : b # va => z1[b] = z[b]
    BY <1>2 DEF Joined
  <2> HIDE DEF z1
  <2>2. y[c] = z1[c] + z1[va] /\ \A b \in A : b # c => y[b] = z1[b]
    BY <1>2 DEF Joined
  <2> HIDE DEF y
  <2>3. y[c] = z[c] + (z[va] + z[d])
    BY <2>1, <2>2
  <2>4. QED
    BY <1>2, <2>1, <2>2, <2>3
<1> HIDE DEF y, n
<1>9. Tags(e.mem, y, V, c, 0)
  <2>1. Tag(y, V, c) = n
    BY <1>8 DEF Tag
  <2>2. QED
    BY <1>4, <1>6, <1>8, <2>1 DEF Tags
<1>10. \A b \in A : b # c => /\ b + z[b] <= c \/ q <= b
                             /\ b \in V <=> b \in U
                             /\ b # x
  <2>1. \A b \in A : b # 0 /\ b # va
    BY <1>1
  <2>2. \A b \in B : b # c => b + z[b] <= c \/ c + z[c] <= b
    BY <1>1, Beside
  <2>3. \A b \in B : b # va => b + z[b] <= va \/ va + z[va] <= b
    BY <1>1, <1>2, Beside
  <2>4. \A b \in B : b # d => b + z[b] <= d \/ d + z[d] <= b
    BY <1>1, Beside
  <2>5. ASSUME NEW b \in A, b # c
        PROVE  b + z[b] <= c \/ q <= b
    <3>1. b \in B /\ b # d /\ b # va /\ b \in Int /\ z[b] \in Int /\ z[b] >= 16
      BY <1>1
    <3>2. b + z[b] <= c \/ va <= b
      BY <2>2, <2>5, <3>1
    <3>3. b + z[b] <= va \/ d <= b
      BY <2>3, <3>1
    <3>4. b + z[b] <= d \/ q <= b
      BY <2>4, <3>1
    <3>5. QED
      BY <1>2, <3>1, <3>2, <3>3, <3>4
  <2>6. QED
    BY <2>1, <2>5
<1>11. Apart(A, y, V, da.brk)
  <2>1. \A b \in B \ U : b + z[b] \in U \union {da.brk}
    BY <1>1 DEF Apart
  <2>2. c + y[c] \in V \union {da.brk}
    <3>1. q \in U \union {da.brk} /\ q # va
      BY <1>2, <2>1
    <3>2. QED
      BY <1>2, <1>8, <3>1
  <2>3. \A b \in B : b # c => b + z[b] # va
    <3>1. \A b \in B : b # c => b + z[b] # c + z[c]
      BY <1>1, Beside
    <3>2. QED
      BY <3>1
  <2>4. ASSUME NEW b \in A \ V, b # c
        PROVE  b + y[b] \in V \union {da.brk}
    <3>1. b \in B \ U /\ y[b] = z[b]
      BY <1>8, <1>10, <2>4
    <3>2. QED
      BY <2>1, <2>3, <2>4, <3>1
  <2>5. QED
    BY <2>2, <2>4 DEF Apart
<1>12. FreeList(e.fbl, A \ V)
  <2>1. A \ V = (B \ U) \ {d}
    BY <1>2
  <2>2. QED
    BY <1>5, <1>6, <2>1 DEF FreeList
<1>13. Tiled(e, A, y, V, 0)
  <2>1. V \in SUBSET A
    BY <1>1
  <2>2. Kept(e.mem, B, z, U, x, c, q, A, y, V, 0)
    BY <1>8, <1>9, <1>10 DEF Kept
  <2>3. Outside(e.mem, da.mem, c, q)
    BY <1>4, <1>6
  <2>4. QED
    BY <1>1, <1>2, <1>6, <1>7, <1>11, <1>12, <2>1, <2>2, <2>3, Retiled
<1>14. Freed(e, da, B, z, U, x, va)
  <2>1. c \in A \ V /\ 0 \in {0, c}
    BY <1>8
  <2>2. y[c] >= z[va]
    BY <1>2, <1>8 DEF n
  <2>3. \A u \in V : y[u] = z[u]
    BY <1>1, <1>8
  <2>4. \A g \in A \ V : g # c => g \in B \ U /\ y[g] = z[g]
    BY <1>8, <1>10
  <2> HIDE DEF A, V
  <2>5. FreedAs(e, da.brk, B, z, U, x, z[va], V, A, y, 0, c)
    BY <1>6, <1>13, <2>1, <2>2, <2>3, <2>4 DEF FreedAs
  <2>6. QED
    BY <2>5 DEF Freed, V
<1>15. QED
  BY <1>3, <1>14

\* free_block() of an allocated block.
LEMMA FreeBlock ==
  ASSUME NEW da, NEW B, NEW z, NEW U, NEW x, Tiled(da, B, z, U, x), NEW va \in U, x \in {0, va}
  PROVE  Freed(free_block(da, va), da, B, z, U, x, va)
<1> DEFINE d == va + z[va]
           prev == Word(da.mem, va - 8)
           next == Word(da.mem, d - 4)
<1>1. /\ da \in Allocators /\ da.up /\ U \subseteq B /\ Laid(B, z, First, da.brk)
      /\ Apart(B, z, U, da.brk) /\ da.fbl \in Seq(Int) /\ Ordered(da.fbl) /\ Elems(da.fbl) = B \ U
      /\ da.mem \in Mems /\ da.brk \in Int /\ First \in Int /\ First > 0
      /\ \A b \in B : /\ b \in Int /\ z[b] \in Int /\ z[b] >= 16 /\ z[b] \in Evens
                      /\ First <= b /\ b + z[b] <= da.brk
  BY TiledTypes
<1>2. va \in B /\ va \in Int /\ z[va] \in Int /\ va # 0 /\ z[va] >= 16 /\ z[va] \in Evens
  BY <1>1
<1>3. Surrounded(da, B, z, U, va)
  BY Surroundings
<1>4. /\ Header(da, va) = z[va] + 1
      /\ prev % 2 = 1 => /\ \A c \in B \ U : c + z[c] # va
                         /\ prev = 1 => va = First
      /\ prev % 2 # 1 => \E c \in B \ U : c + z[c] = va /\ prev = z[c]
      /\ next % 2 = 1 => /\ d \in U \union {da.brk}
                         /\ next = 1 => d = da.brk
      /\ next % 2 # 1 => d \in B \ U /\ next = z[d]
  BY <1>3 DEF Surrounded
<1>5. ~(va = NULL \/ is_free_block(da, va))
  <2>1. (z[va] + 1) % 2 = 1
    BY <1>2, Flags
  <2>2. QED
    BY <1>2, <1>4, <2>1 DEF NULL, is_free_block
<1>6. free_block(da, va) =
        IF prev % 2 = 1 /\ next % 2 = 1 THEN free_alone(da, va, d - 8, prev, next)
        ELSE IF next % 2 = 1 THEN free_with_prev(da, va, d - 8, prev)
        ELSE IF prev % 2 = 1 THEN free_with_next(da, va, d - 8, next, d - 4)
        ELSE free_with_both(da, va, d - 8, prev, next, d - 4)
  <2> DEFINE footer == va + (Header(da, va) - 1) - 8
             hn == va + (Header(da, va) - 1) - 4
  <2>1. footer = d - 8 /\ hn = d - 4
    BY <1>2, <1>4
  <2>2. free_block(da, va) =
        IF prev % 2 = 1 /\ Word(da.mem, hn) % 2 = 1 THEN free_alone(da, va, footer, prev, Word(da.mem, hn))
        ELSE IF Word(da.mem, hn) % 2 = 1 THEN free_with_prev(da, va, footer, prev)
        ELSE IF prev % 2 = 1 THEN free_with_next(da, va, footer, Word(da.mem, hn), hn)
        ELSE free_with_both(da, va, footer, prev, Word(da.mem, hn), hn)
    BY <1>5 DEF free_block
  <2> HIDE DEF footer, hn
  <2>3. QED
    BY <2>1, <2>2
<1>7. d = va + z[va]
  OBVIOUS
<1> HIDE DEF d, prev, next
<1>8. CASE prev % 2 = 1 /\ next % 2 = 1
  <2>1. /\ \A c \in B \ U : c + z[c] # va
        /\ prev = 1 => va = First
        /\ d \in U \union {da.brk} /\ (next = 1 => d = da.brk)
    BY <1>4, <1>8
  <2>2. free_block(da, va) = free_alone(da, va, d - 8, prev, next)
    BY <1>6, <1>8
  <2>3. Freed(free_alone(da, va, d - 8, prev, next), da, B, z, U, x, va)
    BY <1>4, <1>7, <2>1, FreeAlone
  <2>4. QED
    BY <2>2, <2>3
<1>9. CASE prev % 2 # 1 /\ next % 2 = 1
  <2>1. PICK c \in B \ U : c + z[c] = va /\ prev = z[c]
    BY <1>4, <1>9
  <2>2. QED
    BY <1>4, <1>6, <1>7, <1>9, <2>1, FreePrev
<1>10. CASE prev % 2 = 1 /\ next % 2 # 1
  BY <1>4, <1>6, <1>7, <1>10, FreeNext
<1>11. CASE prev % 2 # 1 /\ next % 2 # 1
  <2>1. PICK c \in B \ U : c + z[c] = va /\ prev = z[c]
    BY <1>4, <1>11
  <2>2. QED
    BY <1>4, <1>6, <1>7, <1>11, <2>1, FreeBoth
<1>12. QED
  BY <1>8, <1>9, <1>10, <1>11


-----------------------------------------------------------------------------
(* alloc_block_FF() and alloc_block_BF() *)

\* Data in the payloads of two blocks leaves their tags.
LEMMA ScribbleSplit ==
  ASSUME NEW m, NEW mem, NEW a \in Int, NEW n \in Int, NEW k \in Int, k >= 16, n - k >= 16,
         NEW u, NEW v, HasSplit(m, mem, a, n, k, u, v), NEW b \in Int, NEW j \in Int, j >= 0,
         (b = a /\ j <= k - 8) \/ (b = a + k /\ j <= n - k - 8)
  PROVE  HasSplit(Scribble(m, b, j), mem, a, n, k, u, v)
<1> DEFINE r == Scribble(m, b, j)
           p == a - 4
           q == a + k - 8
           p2 == a + k - 4
           q2 == a + n - 8
<1>1. p \in Int /\ q \in Int /\ p2 \in Int /\ q2 \in Int
  OBVIOUS
<1>2. /\ p <= b - 4 \/ p >= b + j
      /\ q <= b - 4 \/ q >= b + j
      /\ p2 <= b - 4 \/ p2 >= b + j
      /\ q2 <= b - 4 \/ q2 >= b + j
      /\ \A y \in Int : y <= a - 8 \/ y >= a + n - 4 => y <= b - 4 \/ y >= b + j
  OBVIOUS
<1>3. /\ m \in Mems /\ Word(m, p) = u /\ Word(m, q) = u /\ Word(m, p2) = v /\ Word(m, q2) = v
      /\ \A y \in Int : y <= a - 8 \/ y >= a + n - 4 => Word(m, y) = Word(mem, y)
  BY DEF HasSplit, Outside
<1>4. r \in Mems /\ \A y \in Int : y <= b - 4 \/ y >= b + j => Word(r, y) = Word(m, y)
  BY <1>3, ScribbleWord
<1> HIDE DEF r, p, q, p2, q2
<1>5. Word(r, p) = u /\ Word(r, q) = u /\ Word(r, p2) = v /\ Word(r, q2) = v
  BY <1>1, <1>2, <1>3, <1>4
<1>6. Outside(r, mem, a, a + n)
  BY <1>2, <1>3, <1>4 DEF Outside
<1>7. HasSplit(r, mem, a, n, k, u, v)
  BY <1>4, <1>5, <1>6 DEF HasSplit, p, q, p2, q2
<1>8. QED
  BY <1>7 DEF r

\* Blocks other than va are in V if they are in U.
Besides(B, va, V, U) == \A b \in B : b # va => (b \in V <=> b \in U)

\* A block is cut in two.
LEMMA CutTiled ==
  ASSUME NEW da, NEW B, NEW z, NEW U, NEW x, Tiled(da, B, z, U, x), NEW va \in B, x \in {0, va},
         NEW k \in Evens, k >= 16, z[va] - k >= 16, NEW rest, rest = va + k,
         NEW e \in Allocators, e.brk = da.brk, e.up, NEW V \in SUBSET (B \union {rest}), va \in V,
         Besides(B, va, V, U), NEW y, y = Cut(B, z, va, k),
         HasSplit(e.mem, da.mem, va, z[va], k, k + 1, Tag(y, V, rest)),
         Apart(B \union {rest}, y, V, da.brk), FreeList(e.fbl, (B \union {rest}) \ V)
  PROVE  Tiled(e, B \union {rest}, y, V, 0)
<1> DEFINE A == B \union {rest}
           q == va + z[va]
<1>1. /\ da \in Allocators /\ da.up /\ U \subseteq B /\ Laid(B, z, First, da.brk)
      /\ Apart(B, z, U, da.brk) /\ da.fbl \in Seq(Int) /\ Ordered(da.fbl) /\ Elems(da.fbl) = B \ U
      /\ da.mem \in Mems /\ da.brk \in Int /\ First \in Int /\ First > 0
      /\ \A b \in B : /\ b \in Int /\ z[b] \in Int /\ z[b] >= 16 /\ z[b] \in Evens
                      /\ First <= b /\ b + z[b] <= da.brk
  BY TiledTypes
<1>2. /\ va \in Int /\ z[va] \in Int /\ k \in Int /\ rest \in Int /\ q \in Int /\ First <= va
      /\ q <= da.brk /\ rest # va /\ rest + (z[va] - k) = q
  <2>1. k \in Int
    BY DEF Evens
  <2>2. va \in Int /\ z[va] \in Int /\ First <= va /\ va + z[va] <= da.brk
    BY <1>1
  <2>3. QED
    BY <2>1, <2>2
<1>3. Laid(A, y, First, da.brk) /\ rest \notin B
  BY <1>1, CutLaid
<1>4. y[va] = k /\ y[rest] = z[va] - k /\ \A b \in B : b # va => y[b] = z[b]
  BY <1>2, <1>3 DEF Cut
<1>5. Tags(e.mem, y, V, va, 0) /\ Tags(e.mem, y, V, rest, 0)
  <2>1. /\ Word(e.mem, va - 4) = k + 1 /\ Word(e.mem, va + k - 8) = k + 1
        /\ Word(e.mem, va + k - 4) = Tag(y, V, rest) /\ Word(e.mem, va + z[va] - 8) = Tag(y, V, rest)
    BY DEF HasSplit
  <2>2. Tag(y, V, va) = k + 1
    BY <1>4 DEF Tag
  <2>3. rest - 4 = va + k - 4 /\ rest + (z[va] - k) - 8 = va + z[va] - 8
    BY <1>2
  <2>4. Word(e.mem, rest - 4) = Tag(y, V, rest) /\ Word(e.mem, rest + y[rest] - 8) = Tag(y, V, rest)
    BY <1>4, <2>1, <2>3
  <2>5. QED
    BY <1>4, <2>1, <2>2, <2>4 DEF Tags
<1>6. \A b \in B : b # va => b + z[b] <= va \/ q <= b
  BY <1>1, Beside
<1>7. \A b \in B : b # va => b # x
  BY <1>1
<1>8. Kept(e.mem, B, z, U, x, va, q, A, y, V, 0)
  BY <1>4, <1>5, <1>6, <1>7 DEF Kept, Besides
<1>9. Outside(e.mem, da.mem, va, q)
  BY DEF HasSplit
<1>10. QED
  BY <1>1, <1>2, <1>3, <1>8, <1>9, Retiled

\* Headers of free blocks are their sizes.
LEMMA FreeHeaders ==
  ASSUME NEW da, NEW B, NEW z, NEW U, NEW x, Tiled(da, B, z, U, x)
  PROVE  \A i \in DOMAIN da.fbl : /\ da.fbl[i] \in B \ U
                                  /\ Header(da, da.fbl[i]) = z[da.fbl[i]]
<1>1. \A b \in B \ U : Header(da, b) = z[b]
  <2>1. \A b \in B : Tags(da.mem, z, U, b, x)
    BY DEF Tiled, Tagged
  <2>2. QED
    BY <2>1 DEF Tags, Tag, Header
<1>2. \A i \in DOMAIN da.fbl : da.fbl[i] \in B \ U
  BY DEF Tiled, FreeList, Elems
<1>3. QED
  BY <1>1, <1>2

\* Where a strategy finds a block.
Choice(da, n, strat) == IF strat = "FF" THEN FirstFit(da, n) ELSE BestFit(da, n)

\* It finds one if there is one.
LEMMA ChoiceFits ==
  ASSUME NEW da, NEW B, NEW z, NEW U, NEW x, Tiled(da, B, z, U, x), NEW n \in Int,
         Sufficient(da, n) # {}, NEW strat
  PROVE  Choice(da, n, strat) \in Sufficient(da, n)
<1> DEFINE S == Sufficient(da, n)
           hd(i) == Header(da, da.fbl[i])
<1>1. S \in SUBSET Nat /\ \A i \in S : hd(i) \in Nat
  <2>1. da.fbl \in Seq(Int) /\ \A b \in B : z[b] \in Int /\ z[b] >= 16
    BY TiledTypes
  <2>2. DOMAIN da.fbl \in SUBSET Nat
    BY <2>1
  <2>3. S \subseteq DOMAIN da.fbl
    BY DEF Sufficient
  <2>4. \A i \in DOMAIN da.fbl : da.fbl[i] \in B /\ hd(i) = z[da.fbl[i]]
    BY FreeHeaders
  <2>5. \A b \in B : z[b] \in Nat
    BY <2>1
  <2> HIDE DEF S, hd
  <2>6. QED
    BY <2>2, <2>3, <2>4, <2>5
<1>2. CASE strat = "FF"
  <2>1. \E i \in S : \A j \in S : i <= j
    BY <1>1, LeastNat
  <2>2. FirstFit(da, n) \in S
    BY <2>1 DEF FirstFit
  <2>3. QED
    BY <1>2, <2>2 DEF Choice
<1>3. CASE strat # "FF"
  <2> DEFINE H == {hd(i) : i \in S}
  <2>1. H \in SUBSET Nat /\ H # {}
    BY <1>1
  <2>2. PICK h \in H : \A g \in H : h <= g
    BY <2>1, LeastNat
  <2> DEFINE T == {i \in S : hd(i) = h}
  <2>3. T \in SUBSET Nat /\ T # {}
    BY <1>1, <2>2
  <2>4. PICK i \in T : \A j \in T : i <= j
    BY <2>3, LeastNat
  <2>5. ASSUME NEW j \in S \ {i}
        PROVE  hd(i) < hd(j) \/ (hd(i) = hd(j) /\ i < j)
    <3>1. i \in Nat /\ j \in Nat /\ j # i /\ hd(i) \in Nat /\ hd(j) \in Nat
      BY <1>1, <2>4
    <3>2. hd(i) = h /\ h <= hd(j)
      BY <2>2, <2>4
    <3>3. hd(j) = h => i <= j
      BY <2>4
    <3> HIDE DEF hd
    <3>4. QED
      BY <3>1, <3>2, <3>3
  <2>6. \E r \in S : \A j \in S \ {r} : hd(r) < hd(j) \/ (hd(r) = hd(j) /\ r < j)
    BY <2>4, <2>5
  <2>7. BestFit(da, n) \in S
    BY <2>6 DEF BestFit
  <2>8. QED
    BY <1>3, <2>7 DEF Choice
<1>4. QED
  BY <1>2, <1>3


\* The block va holds n bytes and is allocated; nothing else happened.
GivenAs(e, brk, B, z, U, va, n, V, B2, z2) ==
  /\ e.brk = brk /\ Tiled(e, B2, z2, V, 0) /\ va \in V \ U /\ z2[va] >= n + 8
  /\ \A u \in U : z2[u] = z[u]

Given(e, da, B, z, U, va, n) ==
  \E B2, z2 : GivenAs(e, da.brk, B, z, U, va, n, U \union {va}, B2, z2)

\* What is written when all of a block is taken ...
Whole(da, i, n) ==
  LET va  == da.fbl[i]
      hd  == Header(da, va)
      old == va + hd - 8
  IN  [da EXCEPT !.mem = Put(Put(da.mem, va - 4, OrOne(hd)), old, OrOne(Word(da.mem, old))),
                 !.fbl = RemoveAt(@, i)]

\* ... and when a part of it is.
Split(da, i, n) ==
  LET va    == da.fbl[i]
      hd    == Header(da, va)
      total == n + 8
      rest  == va + total
  IN  [da EXCEPT !.mem = Scribble(Put(Put(Put(Put(da.mem, va + n, total + 1), va - 4, total + 1),
                                          rest - 4, hd - total), va + hd - 8, hd - total),
                                  rest, hd - total - 8),
                 !.fbl = ReplaceAt(@, i, rest)]

\* The owner writes the block.
Used(d, va, n) == [d EXCEPT !.mem = Scribble(@, va, n)]

(* A free block that is taken whole leaves the blocks where they are. *)
LEMMA TakeWhole ==
  ASSUME NEW da, NEW B, NEW z, NEW U, Tiled(da, B, z, U, 0), NEW i \in DOMAIN da.fbl,
         NEW va, va = da.fbl[i], NEW n \in Int, n >= 0, z[va] >= n + 8
  PROVE  Given(Used(Whole(da, i, n), va, n), da, B, z, U, va, n)
<1> DEFINE k == z[va]
           f == va + k - 8
           m0 == Put(Put(da.mem, va - 4, k + 1), f, k + 1)
           m == Framed(da.mem, va, k, k + 1, k + 1, n)
           s == RemoveAt(da.fbl, i)
           d == [da EXCEPT !.mem = m0, !.fbl = s]
           e == [d EXCEPT !.mem = m]
           V == U \union {va}
           q == va + k
<1>1. /\ da \in Allocators /\ da.up /\ U \subseteq B /\ Laid(B, z, First, da.brk)
      /\ Apart(B, z, U, da.brk) /\ da.fbl \in Seq(Int) /\ Ordered(da.fbl) /\ Elems(da.fbl) = B \ U
      /\ da.mem \in Mems /\ da.brk \in Int /\ First \in Int /\ First > 0
      /\ \A b \in B : /\ b \in Int /\ z[b] \in Int /\ z[b] >= 16 /\ z[b] \in Evens
                      /\ First <= b /\ b + z[b] <= da.brk
  BY TiledTypes
<1>2. va \in B \ U /\ Header(da, va) = k
  BY FreeHeaders
<1>3. /\ va \in Int /\ k \in Int /\ k >= 16 /\ k \in Evens /\ First <= va /\ q \in Int /\ q <= da.brk
      /\ va # 0 /\ f \in Int /\ va - 4 \in Int /\ va - 4 + 4 <= f /\ k + 1 \in Int
  <2>1. va \in Int /\ k \in Int /\ k >= 16 /\ k \in Evens /\ First <= va /\ va + k <= da.brk
    BY <1>1, <1>2
  <2>2. First \in Int /\ First > 0 /\ da.brk \in Int
    BY <1>1
  <2> HIDE DEF k
  <2>3. va # 0 /\ q \in Int /\ q <= da.brk
    BY <2>1, <2>2
  <2>4. f \in Int /\ va - 4 \in Int /\ va - 4 + 4 <= f /\ k + 1 \in Int
    BY <2>1
  <2>5. QED
    BY <2>1, <2>3, <2>4
<1>4. OrOne(Header(da, va)) = k + 1 /\ OrOne(Word(da.mem, f)) = k + 1
  <2>1. Tags(da.mem, z, U, va, 0)
    BY <1>2 DEF Tiled, Tagged
  <2>2. Word(da.mem, f) = k
    BY <1>2, <1>3, <2>1 DEF Tags, Tag
  <2>3. OrOne(k) = k + 1
    <3>1. k # Garbage
      BY <1>3 DEF Garbage
    <3>2. QED
      BY <1>3, <3>1, Flags
  <2>4. QED
    BY <1>2, <2>2, <2>3
<1>5. Used(Whole(da, i, n), va, n) = e
  <2>1. Whole(da, i, n) = [da EXCEPT !.mem = Put(Put(da.mem, va - 4, OrOne(Header(da, va))),
                                                 va + Header(da, va) - 8,
                                                 OrOne(Word(da.mem, va + Header(da, va) - 8))),
                                     !.fbl = RemoveAt(@, i)]
    BY DEF Whole
  <2> HIDE DEF k
  <2>2. Whole(da, i, n) = d
    BY <1>2, <1>4, <2>1
  <2>3. d.mem = m0
    BY <1>1 DEF Allocators
  <2> HIDE DEF d, m0
  <2>4. Used(d, va, n) = [d EXCEPT !.mem = Scribble(m0, va, n)]
    BY <2>3 DEF Used
  <2>5. QED
    BY <2>2, <2>4 DEF Framed, m0
<1>6. m0 \in Mems
  <2> DEFINE p == va - 4
             h == k + 1
  <2>1. p \in Int /\ f \in Int /\ p + 4 <= f /\ h \in Int
    BY <1>3
  <2> HIDE DEF p, f, h
  <2>2. TwoWords(Put(Put(da.mem, p, h), f, h), da.mem, p, h, f, h)
    BY <1>1, <2>1, PutTwo
  <2>3. QED
    BY <2>2 DEF TwoWords, p, h
<1>7. m \in Mems /\ Word(m, va - 4) = k + 1 /\ Word(m, va + k - 8) = k + 1 /\ Outside(m, da.mem, va, q)
  <2>1. 0 <= n /\ n <= k - 8
    BY <1>3
  <2>2. HasFrame(m, da.mem, va, k, k + 1, k + 1)
    BY <1>1, <1>3, <2>1, FramedWords
  <2> HIDE DEF m
  <2>3. QED
    BY <2>2 DEF HasFrame
<1> HIDE DEF m, m0
<1>8. s \in Seq(Int) /\ Ordered(s) /\ Elems(s) = (B \ U) \ {va}
  <2>1. InOrder(s, Elems(da.fbl) \ {da.fbl[i]})
    BY <1>1, OrderedRemove
  <2> HIDE DEF s
  <2>2. QED
    BY <1>1, <2>1 DEF InOrder
<1> HIDE DEF s
<1>9. e \in Allocators /\ e.mem = m /\ e.fbl = s /\ e.brk = da.brk /\ e.up
  <2>1. Wrote(d, da, m0, s)
    BY <1>1, <1>6, <1>8, SetAllocator
  <2> HIDE DEF d
  <2>2. d \in Allocators /\ d.fbl = s /\ d.brk = da.brk /\ d.up
    BY <1>1, <2>1 DEF Wrote
  <2>3. Wrote(e, d, m, d.fbl)
    BY <1>7, <1>8, <2>2, SetAllocator
  <2>4. QED
    BY <2>2, <2>3 DEF Wrote
<1> HIDE DEF e
<1>10. Tags(e.mem, z, V, va, 0)
  <2>1. Tag(z, V, va) = k + 1
    BY DEF Tag
  <2>2. QED
    BY <1>7, <1>9, <2>1 DEF Tags
<1>11. \A b \in B : b # va => (b + z[b] <= va \/ q <= b) /\ (b \in V <=> b \in U) /\ b # 0
  <2>1. \A b \in B : b # va => b + z[b] <= va \/ va + z[va] <= b
    BY <1>1, <1>2, Beside
  <2>2. QED
    BY <1>1, <2>1
<1>12. Apart(B, z, V, da.brk)
  BY <1>1 DEF Apart
<1>13. FreeList(e.fbl, B \ V)
  <2>1. B \ V = (B \ U) \ {va}
    OBVIOUS
  <2>2. QED
    BY <1>8, <1>9, <2>1 DEF FreeList
<1>14. Tiled(e, B, z, V, 0)
  <2>1. V \in SUBSET B
    BY <1>1, <1>2
  <2>2. Kept(e.mem, B, z, U, 0, va, q, B, z, V, 0)
    BY <1>10, <1>11 DEF Kept
  <2>3. Outside(e.mem, da.mem, va, q)
    BY <1>7, <1>9
  <2>4. QED
    BY <1>1, <1>3, <1>9, <1>12, <1>13, <2>1, <2>2, <2>3, Retiled
<1>15. Given(e, da, B, z, U, va, n)
  <2>1. GivenAs(e, da.brk, B, z, U, va, n, V, B, z)
    BY <1>2, <1>9, <1>14 DEF GivenAs
  <2>2. QED
    BY <2>1 DEF Given
<1>16. QED
  BY <1>5, <1>15

(* A free block that is split gives one block in use and a free one after it. *)
LEMMA TakeSplit ==
  ASSUME NEW da, NEW B, NEW z, NEW U, NEW x, Tiled(da, B, z, U, x), NEW i \in DOMAIN da.fbl,
         NEW va, va = da.fbl[i], x \in {0, va}, NEW n \in Evens, n >= 8, z[va] >= n + 24
  PROVE  Given(Used(Split(da, i, n), va, n), da, B, z, U, va, n)
<1> DEFINE h == z[va]
           k == n + 8
           v == h - k
           rest == va + k
           m0 == SplitTags(da.mem, va, h, k, k + 1, v)
           m1 == Scribble(m0, rest, v - 8)
           m == Scribble(m1, va, n)
           s == ReplaceAt(da.fbl, i, rest)
           d == [da EXCEPT !.mem = m1, !.fbl = s]
           e == [d EXCEPT !.mem = m]
           V == U \union {va}
           A == B \union {rest}
           y == Cut(B, z, va, k)
<1>1. /\ da \in Allocators /\ da.up /\ U \subseteq B /\ Laid(B, z, First, da.brk)
      /\ Apart(B, z, U, da.brk) /\ da.fbl \in Seq(Int) /\ Ordered(da.fbl) /\ Elems(da.fbl) = B \ U
      /\ da.mem \in Mems /\ da.brk \in Int /\ First \in Int /\ First > 0
      /\ \A b \in B : /\ b \in Int /\ z[b] \in Int /\ z[b] >= 16 /\ z[b] \in Evens
                      /\ First <= b /\ b + z[b] <= da.brk
  BY TiledTypes
<1>2. va \in B \ U /\ Header(da, va) = h
  BY FreeHeaders
<1>3. va \in Int /\ h \in Int /\ h \in Evens /\ n \in Int
  BY <1>1, <1>2 DEF Evens
<1>4. /\ k \in Int /\ k >= 16 /\ h - k >= 16 /\ v \in Int /\ rest \in Int /\ rest # va /\ rest > va /\ rest < va + h
      /\ rest + v = va + h /\ k + 1 \in Int /\ v - 8 \in Int /\ v - 8 >= 0 /\ v - 8 <= h - k - 8 /\ n <= k - 8
  <2>1. h >= n + 24
    OBVIOUS
  <2> HIDE DEF h
  <2>2. k \in Int /\ k >= 16 /\ h - k >= 16 /\ v \in Int /\ k + 1 \in Int /\ n <= k - 8
    BY <1>3, <2>1
  <2>3. v - 8 \in Int /\ v - 8 >= 0 /\ v - 8 <= h - k - 8
    BY <1>3, <2>2
  <2> HIDE DEF k
  <2>4. rest \in Int /\ rest # va /\ rest > va /\ rest < va + h /\ rest + v = va + h
    BY <1>3, <2>2
  <2>5. QED
    BY <2>2, <2>3, <2>4
<1>5. k \in Evens
  <2>1. 8 \in Evens
    BY DEF Evens
  <2>2. QED
    BY <2>1, EvenSums
<1>6. Used(Split(da, i, n), va, n) = e
  <2> DEFINE hd == Header(da, va)
             a == va + n
             f == va + hd - 8
             g == hd - k
  <2>1. Split(da, i, n) = [da EXCEPT !.mem = Scribble(Put(Put(Put(Put(da.mem, a, k + 1), va - 4, k + 1),
                                                            rest - 4, g), f, g), rest, g - 8),
                                     !.fbl = s]
    BY <1>1 DEF Split
  <2>2. a = va + k - 8 /\ f = va + h - 8 /\ g = v /\ rest - 4 = va + k - 4
    BY <1>2, <1>3
  <2> HIDE DEF a, f, g, h, k, v
  <2>3. Split(da, i, n) = d
    <3> HIDE DEF s
    <3>1. m0 = Put(Put(Put(Put(da.mem, a, k + 1), va - 4, k + 1), rest - 4, g), f, g)
      BY <2>2 DEF SplitTags
    <3> HIDE DEF m0, rest
    <3>2. QED
      BY <2>1, <2>2, <3>1
  <2>4. d.mem = m1
    BY <1>1 DEF Allocators
  <2> HIDE DEF d, m1
  <2>5. QED
    BY <2>3, <2>4 DEF Used
<1>7. HasSplit(m1, da.mem, va, h, k, k + 1, v) /\ HasSplit(m, da.mem, va, h, k, k + 1, v)
  <2>1. rest = va + k
    OBVIOUS
  <2> HIDE DEF h, k, v, m0, m1, m, rest
  <2>2. HasSplit(m0, da.mem, va, h, k, k + 1, v)
    BY <1>1, <1>3, <1>4, SplitWords DEF m0
  <2>3. HasSplit(m1, da.mem, va, h, k, k + 1, v)
    BY <1>3, <1>4, <2>1, <2>2, ScribbleSplit DEF m1
  <2>4. HasSplit(m, da.mem, va, h, k, k + 1, v)
    BY <1>3, <1>4, <2>1, <2>3, ScribbleSplit DEF m
  <2>5. QED
    BY <2>3, <2>4
<1> HIDE DEF m0, m1, m
<1>8. m1 \in Mems /\ m \in Mems
  BY <1>7 DEF HasSplit
<1>9. s \in Seq(Int) /\ Ordered(s) /\ Elems(s) = ((B \ U) \ {va}) \union {rest}
  <2>1. ASSUME NEW b \in B \ U
        PROVE  SamePlace(b, rest, va)
    <3>1. b \in Int /\ z[b] \in Int /\ z[b] >= 16
      BY <1>1
    <3>2. b # va => b + z[b] <= va \/ va + h <= b
      BY <1>1, <1>2, Beside
    <3> HIDE DEF h, rest
    <3>3. QED
      BY <1>3, <1>4, <3>1, <3>2 DEF SamePlace
  <2> HIDE DEF rest
  <2>2. \A b \in Elems(da.fbl) : SamePlace(b, rest, da.fbl[i])
    BY <1>1, <2>1
  <2>3. InOrder(s, (Elems(da.fbl) \ {da.fbl[i]}) \union {rest})
    BY <1>1, <1>4, <2>2, OrderedReplace
  <2> HIDE DEF s
  <2>4. QED
    BY <1>1, <2>3 DEF InOrder
<1> HIDE DEF s
<1>10. e \in Allocators /\ e.mem = m /\ e.fbl = s /\ e.brk = da.brk /\ e.up
  <2>1. Wrote(d, da, m1, s)
    BY <1>1, <1>8, <1>9, SetAllocator
  <2> HIDE DEF d
  <2>2. d \in Allocators /\ d.fbl = s /\ d.brk = da.brk /\ d.up
    BY <1>1, <2>1 DEF Wrote
  <2>3. Wrote(e, d, m, d.fbl)
    BY <1>8, <1>9, <2>2, SetAllocator
  <2>4. QED
    BY <2>2, <2>3 DEF Wrote
<1> HIDE DEF e
<1>11. rest \notin B
  <2>1. z[va] - k >= 16 /\ va \in B
    BY <1>2, <1>4
  <2> HIDE DEF k
  <2>2. va + k \notin B
    BY <1>1, <1>4, <1>5, <2>1, CutLaid
  <2>3. QED
    BY <2>2
<1>12. y[va] = k /\ y[rest] = v /\ \A b \in B : b # va => y[b] = z[b]
  BY <1>2, <1>4, <1>11 DEF Cut
<1>13. Apart(A, y, V, da.brk)
  <2>1. \A b \in B \ U : b + z[b] \in V \union {da.brk}
    BY <1>1 DEF Apart
  <2> HIDE DEF y, h, v, k, rest
  <2>2. rest + y[rest] \in V \union {da.brk}
    BY <1>2, <1>4, <1>12, <2>1 DEF h
  <2>3. QED
    BY <1>12, <2>1, <2>2 DEF Apart
<1>14. A \ V = ((B \ U) \ {va}) \union {rest}
  <2> HIDE DEF rest
  <2>1. QED
    BY <1>1, <1>2, <1>4, <1>11
<1>15. FreeList(e.fbl, A \ V)
  BY <1>9, <1>10, <1>14 DEF FreeList
<1>16. Tag(y, V, rest) = v
  <2> HIDE DEF rest, y, v
  <2>1. QED
    BY <1>1, <1>4, <1>11, <1>12 DEF Tag
<1>17. Tiled(e, A, y, V, 0)
  <2>1. V \in SUBSET A /\ va \in V /\ Besides(B, va, V, U)
    BY <1>1, <1>2 DEF Besides
  <2>2. HasSplit(e.mem, da.mem, va, z[va], k, k + 1, Tag(y, V, rest))
    BY <1>7, <1>10, <1>16
  <2>3. rest = va + k /\ y = Cut(B, z, va, k) /\ va \in B /\ z[va] - k >= 16
    BY <1>2, <1>4
  <2>4. k >= 16 /\ k \in Evens /\ e \in Allocators /\ e.brk = da.brk /\ e.up
        /\ Apart(B \union {rest}, y, V, da.brk) /\ FreeList(e.fbl, (B \union {rest}) \ V)
        /\ V \in SUBSET (B \union {rest})
    BY <1>4, <1>5, <1>10, <1>13, <1>15, <2>1
  <2>5. Tiled(da, B, z, U, x) /\ x \in {0, va}
    OBVIOUS
  <2> HIDE DEF rest, y, k, V, h, v, A
  <2>6. Tiled(e, B \union {rest}, y, V, 0)
    BY ONLY <2>1, <2>2, <2>3, <2>4, <2>5, CutTiled
  <2>7. QED
    BY <2>6 DEF A
<1>18. Given(e, da, B, z, U, va, n)
  <2>1. \A u \in U : y[u] = z[u]
    BY <1>1, <1>2, <1>12
  <2>2. y[va] >= n + 8
    BY <1>4, <1>12
  <2> HIDE DEF y, A
  <2>3. GivenAs(e, da.brk, B, z, U, va, n, V, A, y)
    BY <1>2, <1>10, <1>17, <2>1, <2>2 DEF GivenAs
  <2>4. QED
    BY <2>3 DEF Given
<1>19. QED
  BY <1>6, <1>18


\* take() does one or the other.
LEMMA TakeIs ==
  ASSUME NEW da, NEW i, NEW n
  PROVE  take(da, i, n) = IF Header(da, da.fbl[i]) - (n + 8) < 16 THEN Whole(da, i, n) ELSE Split(da, i, n)
BY DEF take, Whole, Split

\* Only the block x, whose footer may be wrong, and it with room to spare can give n bytes.
Roomy(B, z, U, x, n) ==
  x # 0 => x \in B \ U /\ z[x] >= n + 24 /\ \A b \in B \ U : b # x => z[b] < n + 8

\* alloc_block() hands out a block that was free, and nothing else changes hands.
LEMMA AllocBlock ==
  ASSUME NEW da, NEW B, NEW z, NEW U, NEW x, Tiled(da, B, z, U, x), NEW n \in Evens, n >= 8,
         Sufficient(da, n) # {}, Roomy(B, z, U, x, n), NEW strat
  PROVE  Given(alloc_block(da, n, strat).da, da, B, z, U, alloc_block(da, n, strat).va, n)
<1> DEFINE i == Choice(da, n, strat)
           va == da.fbl[i]
<1>1. n \in Int
  BY DEF Evens
<1>2. i \in DOMAIN da.fbl /\ Header(da, va) >= n + 8
  <2>1. i \in Sufficient(da, n)
    BY <1>1, ChoiceFits
  <2> HIDE DEF i
  <2>2. QED
    BY <2>1 DEF Sufficient
<1>3. alloc_block(da, n, strat) = [da |-> Used(take(da, i, n), va, n), va |-> va]
  BY DEF alloc_block, Used, Choice
<1> HIDE DEF i
<1>4. va \in B \ U /\ Header(da, va) = z[va]
  BY <1>2, FreeHeaders
<1>5. x \in {0, va} /\ (x # 0 => z[va] >= n + 24)
  <2>1. \A b \in B : z[b] \in Int
    BY TiledTypes
  <2> HIDE DEF va
  <2>2. QED
    BY <1>1, <1>2, <1>4, <2>1 DEF Roomy
<1>6. z[va] \in Int /\ z[va] >= n + 8
  <2>1. \A b \in B : z[b] \in Int
    BY TiledTypes
  <2>2. QED
    BY <1>2, <1>4, <2>1
<1>7. Given(Used(take(da, i, n), va, n), da, B, z, U, va, n)
  <2>1. CASE z[va] - (n + 8) < 16
    <3>1. x = 0 /\ n >= 0
      BY <1>1, <1>5, <1>6, <2>1
    <3>2. take(da, i, n) = Whole(da, i, n)
      BY <1>4, <2>1, TakeIs
    <3>3. Tiled(da, B, z, U, 0)
      BY <3>1
    <3>4. QED
      BY <1>1, <1>2, <1>6, <3>1, <3>2, <3>3, TakeWhole
  <2>2. CASE ~(z[va] - (n + 8) < 16)
    <3>1. z[va] >= n + 24
      BY <1>1, <1>6, <2>2
    <3>2. take(da, i, n) = Split(da, i, n)
      BY <1>4, <2>2, TakeIs
    <3>3. QED
      BY <1>2, <1>5, <3>1, <3>2, TakeSplit
  <2>3. QED
    BY <2>1, <2>2
<1>8. QED
  BY <1>3, <1>7

-----------------------------------------------------------------------------
(* The heap grows *)

\* The header of a page of its own, its footer 4 bytes too low, and the new END word.
EndTags(mem, hi, n) == Put(Put(Put(mem, hi - 4, n + 1), hi + n - 12, n + 1), hi + n - 4, 1)

HasEnd(m, mem, hi, n) ==
  /\ m \in Mems /\ Word(m, hi - 4) = n + 1 /\ Word(m, hi + n - 4) = 1
  /\ \A y \in Int : y <= hi - 8 => Word(m, y) = Word(mem, y)

\* What these words are, and that those below stay.
LEMMA EndWords ==
  ASSUME NEW mem \in Mems, NEW hi \in Int, NEW n \in Int, n >= 32
  PROVE  HasEnd(EndTags(mem, hi, n), mem, hi, n)
<1> DEFINE a == hi - 4
           b == hi + n - 12
           c == hi + n - 4
           m1 == Put(mem, a, n + 1)
           m2 == Put(m1, b, n + 1)
           m3 == Put(m2, c, 1)
<1>1. a \in Int /\ b \in Int /\ c \in Int /\ n + 1 \in Int
  OBVIOUS
<1>2. a + 16 <= b /\ b + 8 = c /\ \A y \in Int : y <= hi - 8 => y + 4 <= a
  OBVIOUS
<1> HIDE DEF a, b, c
<1>3. OneWord(m1, mem, a, n + 1)
  BY <1>1, PutWord
<1> HIDE DEF m1
<1>4. m1 \in Mems
  BY <1>3 DEF OneWord
<1>5. OneWord(m2, m1, b, n + 1)
  BY <1>1, <1>4, PutWord
<1> HIDE DEF m2
<1>6. m2 \in Mems
  BY <1>5 DEF OneWord
<1>7. OneWord(m3, m2, c, 1)
  BY <1>1, <1>6, PutWord
<1> HIDE DEF m3
<1>8. m3 \in Mems /\ Word(m3, c) = 1
  BY <1>1, <1>7 DEF OneWord
<1>9. Word(m3, a) = n + 1
  <2>1. Word(m1, a) = n + 1
    BY <1>1, <1>3 DEF OneWord
  <2>2. Word(m2, a) = Word(m1, a)
    BY <1>1, <1>2, <1>5 DEF OneWord
  <2>3. Word(m3, a) = Word(m2, a)
    BY <1>1, <1>2, <1>7 DEF OneWord
  <2>4. QED
    BY <2>1, <2>2, <2>3
<1>10. ASSUME NEW y \in Int, y <= hi - 8
       PROVE  Word(m3, y) = Word(mem, y)
  <2>1. y + 4 <= a
    BY <1>2, <1>10
  <2>2. Word(m1, y) = Word(mem, y)
    BY <1>1, <1>3, <2>1 DEF OneWord
  <2>3. Word(m2, y) = Word(m1, y)
    BY <1>1, <1>2, <1>5, <2>1 DEF OneWord
  <2>4. Word(m3, y) = Word(m2, y)
    BY <1>1, <1>2, <1>7, <2>1 DEF OneWord
  <2>5. QED
    BY <2>2, <2>3, <2>4
<1>11. m3 = EndTags(mem, hi, n)
  BY DEF EndTags, m1, m2, m3, a, b, c
<1>12. QED
  BY <1>8, <1>9, <1>10, <1>11 DEF HasEnd, a, c

\* A block n bytes long, its footer not yet written, after the last one.
LEMMA EndTiled ==
  ASSUME NEW da, NEW B, NEW z, NEW U, Tiled(da, B, z, U, 0), NEW n \in Evens, n >= 32,
         NEW e \in Allocators, NEW hi, hi = da.brk, e.brk = hi + n, e.up, e.fbl = da.fbl,
         HasEnd(e.mem, da.mem, hi, n)
  PROVE  Tiled(e, B \union {hi}, Added(B, z, hi, n), U \union {hi}, hi) /\ hi # 0 /\ hi \notin B
<1> DEFINE A == B \union {hi}
           y == Added(B, z, hi, n)
           V == U \union {hi}
           m == e.mem
<1>1. /\ da \in Allocators /\ da.up /\ U \subseteq B /\ Laid(B, z, First, da.brk)
      /\ Apart(B, z, U, da.brk) /\ da.fbl \in Seq(Int) /\ Ordered(da.fbl) /\ Elems(da.fbl) = B \ U
      /\ da.mem \in Mems /\ da.brk \in Int /\ First \in Int /\ First > 0
      /\ \A b \in B : /\ b \in Int /\ z[b] \in Int /\ z[b] >= 16 /\ z[b] \in Evens
                      /\ First <= b /\ b + z[b] <= da.brk
  BY TiledTypes
<1>2. Laid(A, y, First, hi + n) /\ hi \notin B
  <2>1. n >= 16
    BY DEF Evens
  <2>2. QED
    BY <1>1, <2>1, AddLaid
<1>3. y[hi] = n /\ \A b \in B : y[b] = z[b] /\ (b \in V <=> b \in U) /\ b # hi
  BY <1>2 DEF Added
<1> HIDE DEF y
<1>4. First \in B /\ First + 16 <= hi
  <2>1. First \in B
    BY <1>1 DEF Laid
  <2>2. QED
    BY <1>1, <2>1
<1>5. hi # 0
  BY <1>1, <1>4
<1>6. m \in Mems /\ Word(m, hi - 4) = n + 1 /\ Word(m, hi + n - 4) = 1
      /\ \A w \in Int : w <= hi - 8 => Word(m, w) = Word(da.mem, w)
  BY DEF HasEnd
<1>7. Word(m, KERNEL_HEAP_START) = 1
  <2>1. Word(da.mem, KERNEL_HEAP_START) = 1
    BY DEF Tiled, Tagged
  <2>2. KERNEL_HEAP_START \in Int /\ KERNEL_HEAP_START <= hi - 8
    BY <1>1, <1>4, StartType
  <2>3. QED
    BY <1>6, <2>1, <2>2
<1>8. ASSUME NEW b \in A
      PROVE  Tags(m, y, V, b, hi)
  <2>1. CASE b = hi
    <3>1. Tag(y, V, hi) = n + 1
      BY <1>3 DEF Tag
    <3>2. QED
      BY <1>6, <2>1, <3>1 DEF Tags
  <2>2. CASE b # hi
    <3>1. b \in B /\ y[b] = z[b] /\ Tag(y, V, b) = Tag(z, U, b)
      BY <1>3, <2>2 DEF Tag
    <3>2. b # 0 /\ b \in Int /\ z[b] \in Int /\ b - 4 <= hi - 8 /\ b + z[b] - 8 <= hi - 8
      BY <1>1, <3>1
    <3>3. Tags(da.mem, z, U, b, 0)
      BY <3>1 DEF Tiled, Tagged
    <3>4. Word(m, b - 4) = Word(da.mem, b - 4) /\ Word(m, b + z[b] - 8) = Word(da.mem, b + z[b] - 8)
      BY <1>6, <3>2
    <3>5. QED
      BY <3>1, <3>2, <3>3, <3>4 DEF Tags
  <2>3. QED
    BY <2>1, <2>2
<1>9. A \ V = B \ U
  BY <1>2
<1>10. Apart(A, y, V, hi + n)
  BY <1>1, <1>3, <1>9 DEF Apart
<1>11. FreeList(e.fbl, A \ V) /\ V \subseteq A
  BY <1>1, <1>9 DEF FreeList
<1> HIDE DEF A, V
<1>12. Tiled(e, A, y, V, hi)
  <2>1. Tagged(m, A, y, V, hi + n, hi)
    <3>1. Word(m, (hi + n) - 4) = 1
      <4>1. n \in Int /\ hi \in Int
        BY <1>1 DEF Evens
      <4>2. (hi + n) - 4 = hi + n - 4
        BY <4>1
      <4>3. QED
        BY <1>6, <4>2
    <3>2. \A b \in A : Tags(m, y, V, b, hi)
      BY <1>8
    <3> HIDE DEF m
    <3>3. QED
      BY <1>7, <3>1, <3>2 DEF Tagged
  <2>2. e.brk = hi + n
    OBVIOUS
  <2>3. QED
    BY <1>2, <1>10, <1>11, <2>1, <2>2 DEF Tiled
<1>13. QED
  BY <1>2, <1>5, <1>12 DEF A, V, y

\* The allocator after sbrk() moved the break by a page.
Broke(da) == [da EXCEPT !.brk = @ + PAGE_SIZE]

\* A heap that grew by a page: what was allocated is, and the last free block, whose footer may
\* be missing, is the only one that was not free before.
GrownAs(e, brk, B, z, U, B2, z2, x, f) ==
  /\ e.brk = brk /\ Tiled(e, B2, z2, U, x) /\ f \in B2 \ U /\ z2[f] >= PAGE_SIZE /\ x \in {0, f}
  /\ \A u \in U : z2[u] = z[u]
  /\ \A g \in B2 \ U : g # f => g \in B \ U /\ z2[g] = z[g]

Grown(e, brk, B, z, U) == \E B2, z2, x, f : GrownAs(e, brk, B, z, U, B2, z2, x, f)

\* The size of a page.
LEMMA PageType ==
  /\ PAGE_SIZE \in Nat /\ PAGE_SIZE \in Evens /\ PAGE_SIZE >= 32
  /\ DYN_ALLOC_MAX_BLOCK_SIZE \in Nat /\ DYN_ALLOC_MAX_BLOCK_SIZE >= 8
  /\ DYN_ALLOC_MAX_BLOCK_SIZE + 24 <= PAGE_SIZE /\ PAGE_SIZE % 4 = 0
<1>1. /\ PAGE_SIZE \in Nat /\ DYN_ALLOC_MAX_BLOCK_SIZE \in Nat /\ PAGE_SIZE % 4 = 0
      /\ DYN_ALLOC_MAX_BLOCK_SIZE >= 8 /\ DYN_ALLOC_MAX_BLOCK_SIZE + 8 + 16 <= PAGE_SIZE
  BY PageAssumption DEF DYN_ALLOC_MIN_BLOCK_SIZE
<1>2. PAGE_SIZE >= 32 /\ PAGE_SIZE % 2 = 0
  BY <1>1
<1>3. QED
  BY <1>1, <1>2 DEF Evens

\* A heap that is in use grows by a page.
LEMMA ExtendTiled ==
  ASSUME NEW da, NEW B, NEW z, NEW U, Tiled(da, B, z, U, 0)
  PROVE  Grown(Extended(Broke(da), 1), da.brk + PAGE_SIZE, B, z, U)
<1> DEFINE hi == da.brk
           n == PAGE_SIZE
           d == Broke(da)
           m == EndTags(da.mem, hi, n)
           e == [d EXCEPT !.mem = m]
           A == B \union {hi}
           y == Added(B, z, hi, n)
           V == U \union {hi}
<1>1. /\ da \in Allocators /\ da.up /\ U \subseteq B
      /\ da.fbl \in Seq(Int)
      /\ da.mem \in Mems /\ da.brk \in Int
  BY TiledTypes
<1>2. n \in Int /\ n \in Evens /\ n >= 32
  BY PageType
<1>3. HasEnd(m, da.mem, hi, n)
  <2> HIDE DEF n
  <2>1. QED
    BY <1>1, <1>2, EndWords
<1>4. d \in Allocators /\ d.mem = da.mem /\ d.fbl = da.fbl /\ d.brk = hi + n /\ d.up
  BY <1>1, <1>2 DEF Allocators, Broke
<1>5. Extended(d, 1) = free_block(e, hi)
  <2> DEFINE size == 1 * PAGE_SIZE
             addr == d.brk - size
             mem2 == Put(Put(Put(d.mem, addr - 4, size + 1), addr - 4 + size - 8, size + 1),
                         addr - 4 + size, 1)
  <2>1. Extended(d, 1) = free_block([d EXCEPT !.mem = mem2], addr)
    BY <1>4 DEF Extended
  <2>2. size = n
    BY <1>2
  <2>3. addr = hi
    BY <1>1, <1>2, <1>4, <2>2
  <2> HIDE DEF size, addr, n, d
  <2>4. hi - 4 + n - 8 = hi + n - 12 /\ hi - 4 + n = hi + n - 4
    BY <1>1, <1>2
  <2>5. mem2 = m
    BY <1>4, <2>2, <2>3, <2>4 DEF EndTags
  <2> HIDE DEF mem2, m
  <2>6. QED
    BY <2>1, <2>3, <2>5
<1> HIDE DEF m, d
<1>6. e \in Allocators /\ e.mem = m /\ e.fbl = da.fbl /\ e.brk = hi + n /\ e.up
  <2>1. m \in Mems
    BY <1>3 DEF HasEnd
  <2>2. Wrote(e, d, m, d.fbl)
    BY <1>1, <1>4, <2>1, SetAllocator
  <2>3. QED
    BY <1>4, <2>2 DEF Wrote
<1> HIDE DEF e, n
<1>7. Tiled(e, A, y, V, hi) /\ hi # 0 /\ hi \notin B
  <2>1. HasEnd(e.mem, da.mem, hi, n)
    BY <1>3, <1>6
  <2>2. QED
    BY <1>2, <1>6, <2>1, EndTiled
<1>8. y[hi] = n /\ \A b \in B : y[b] = z[b]
  BY <1>7 DEF Added
<1> HIDE DEF y
<1>9. V \ {hi} = U /\ A \ V = B \ U /\ hi \in V /\ hi \notin U
  BY <1>1, <1>7
<1> HIDE DEF A, V
<1>10. Freed(free_block(e, hi), e, A, y, V, hi, hi)
  BY <1>7, <1>9, FreeBlock
<1>11. PICK B2, z2, x, f : FreedAs(free_block(e, hi), e.brk, A, y, V, hi, y[hi], U, B2, z2, x, f)
  BY <1>9, <1>10 DEF Freed
<1>12. GrownAs(free_block(e, hi), da.brk + PAGE_SIZE, B, z, U, B2, z2, x, f)
  <2>1. /\ free_block(e, hi).brk = e.brk /\ Tiled(free_block(e, hi), B2, z2, U, x) /\ f \in B2 \ U
        /\ z2[f] >= y[hi] /\ x \in {0, f}
        /\ \A u \in U : z2[u] = y[u]
        /\ \A g \in B2 \ U : g # f => g \in A \ V /\ z2[g] = y[g]
    BY <1>11 DEF FreedAs
  <2> HIDE DEF hi
  <2>2. free_block(e, hi).brk = da.brk + PAGE_SIZE
    BY <1>6, <2>1 DEF hi, n
  <2>3. z2[f] >= PAGE_SIZE
    BY <1>8, <2>1 DEF n
  <2>4. \A u \in U : z2[u] = z[u]
    BY <1>1, <1>8, <2>1
  <2>5. \A g \in B2 \ U : g # f => g \in B \ U /\ z2[g] = z[g]
    BY <1>8, <1>9, <2>1
  <2>6. QED
    BY <2>1, <2>2, <2>3, <2>4, <2>5 DEF GrownAs
<1>13. QED
  BY <1>5, <1>12 DEF Grown, d

\* The allocator before its first page, and with it.
Blank == [mem |-> <<>>, fbl |-> <<>>, brk |-> KERNEL_HEAP_START, up |-> FALSE]
Fresh == Broke(Blank)

\* Its one block.
OnlyBlock == [b \in {First} |-> PAGE_SIZE - 8]

\* initialize_dynamic_allocator() makes one free block of the page.
LEMMA StartTiled ==
  LET e == initialize_dynamic_allocator(Fresh, KERNEL_HEAP_START, PAGE_SIZE)
  IN  Tiled(e, {First}, OnlyBlock, {}, 0) /\ e.brk = KERNEL_HEAP_START + PAGE_SIZE
<1> DEFINE e == initialize_dynamic_allocator(Fresh, KERNEL_HEAP_START, PAGE_SIZE)
           s == KERNEL_HEAP_START
           n == PAGE_SIZE
           hi == s + n
           m1 == Put(Put(<<>>, s, 1), s + n - 4, 1)
           m == Framed(m1, First, n - 8, n - 8, n - 8, n - 16)
           z == OnlyBlock
<1>1. n \in Int /\ n \in Evens /\ n >= 32 /\ n % 2 = 0 /\ n # 0
  BY PageType DEF Evens
<1>2. s \in Int /\ First \in Int /\ First = s + 8 /\ First > 0
  BY StartType
<1>3. <<>> \in Mems /\ Fresh.mem = <<>> /\ Fresh.brk = hi
  BY DEF Mems, Fresh, Broke, Blank
<1>4. e = [Fresh EXCEPT !.mem = m, !.fbl = <<First>>, !.up = TRUE]
  <2>1. e = [Fresh EXCEPT !.mem = Scribble(Put(Put(m1, s + 4, n - 8), s + n - 8, n - 8), s + 8, n - 16),
                          !.fbl = <<s + 8>>, !.up = TRUE]
    <3> DEFINE even == IF n % 2 = 1 THEN n + 1 ELSE n
               t == IF even < 24 THEN 24 ELSE even
               w1 == Put(Put(Fresh.mem, s, 1), s + t - 4, 1)
               w2 == Put(Put(w1, s + 4, t - 8), s + t - 8, t - 8)
    <3>1. e = IF even = 0 THEN Fresh
              ELSE [Fresh EXCEPT !.mem = Scribble(w2, s + 8, t - 16), !.fbl = <<s + 8>>, !.up = TRUE]
      BY DEF initialize_dynamic_allocator
    <3>2. even = n
      BY <1>1
    <3>3. t = n
      BY <1>1, <3>2
    <3>4. w1 = m1
      BY <1>3, <3>3
    <3> HIDE DEF even, t, w1, m1, n, s, e
    <3>5. QED
      BY <1>1, <3>1, <3>2, <3>3, <3>4
  <2>2. s + 4 = First - 4 /\ s + n - 8 = First + (n - 8) - 8 /\ s + 8 = First
    BY <1>1, <1>2
  <2> HIDE DEF m1, n, s, e
  <2>3. m = Scribble(Put(Put(m1, s + 4, n - 8), s + n - 8, n - 8), s + 8, n - 16)
    BY <2>2 DEF Framed
  <2> HIDE DEF m
  <2>4. QED
    BY <2>1, <2>2, <2>3
<1> HIDE DEF e
<1>5. TwoWords(m1, <<>>, s, 1, s + n - 4, 1)
  <2> DEFINE q == s + n - 4
             w == <<>>
  <2>1. q \in Int /\ s + 4 <= q /\ 1 \in Int
    BY <1>1, <1>2
  <2>2. w \in Mems /\ m1 = Put(Put(w, s, 1), q, 1)
    BY <1>3
  <2> HIDE DEF q, n, s, w, m1
  <2>3. TwoWords(Put(Put(w, s, 1), q, 1), w, s, 1, q, 1)
    BY <1>2, <2>1, <2>2, PutTwo
  <2>4. QED
    BY <2>2, <2>3 DEF q, w
<1> HIDE DEF m1
<1>6. HasFrame(m, m1, First, n - 8, n - 8, n - 8)
  <2> DEFINE k == n - 8
             j == n - 16
  <2>1. k \in Int /\ k >= 16 /\ j \in Int /\ 0 <= j /\ j <= k - 8
    BY <1>1
  <2>2. m1 \in Mems
    BY <1>5 DEF TwoWords
  <2> HIDE DEF k, j
  <2>3. HasFrame(Framed(m1, First, k, k, k, j), m1, First, k, k, k)
    BY <1>2, <2>1, <2>2, FramedWords
  <2>4. QED
    BY <2>3 DEF k, j
<1> HIDE DEF m
<1>7. /\ m \in Mems /\ Word(m, First - 4) = n - 8 /\ Word(m, First + (n - 8) - 8) = n - 8
      /\ Word(m, s) = 1 /\ Word(m, hi - 4) = 1
  <2>1. m \in Mems /\ Word(m, First - 4) = n - 8 /\ Word(m, First + (n - 8) - 8) = n - 8
    BY <1>6 DEF HasFrame
  <2>2. Word(m1, s) = 1 /\ Word(m1, s + n - 4) = 1
    BY <1>5 DEF TwoWords
  <2>3. Outside(m, m1, First, First + (n - 8))
    BY <1>6 DEF HasFrame
  <2>4. Word(m, s) = Word(m1, s)
    <3>1. s <= First - 8
      BY <1>2
    <3> HIDE DEF s, n
    <3>2. QED
      BY <1>2, <2>3, <3>1 DEF Outside
  <2>5. Word(m, hi - 4) = Word(m1, s + n - 4)
    <3> DEFINE p == hi - 4
    <3>1. p \in Int /\ p >= First + (n - 8) - 4 /\ p = s + n - 4
      BY <1>1, <1>2
    <3>2. p >= (First + (n - 8)) - 4
      BY <1>1, <1>2
    <3> HIDE DEF p, n, s
    <3>3. Word(m, p) = Word(m1, p)
      BY <2>3, <3>1, <3>2 DEF Outside
    <3>4. QED
      BY <3>1, <3>3 DEF p
  <2>6. QED
    BY <2>1, <2>2, <2>4, <2>5
<1>8. e \in Allocators /\ e.mem = m /\ e.fbl = <<First>> /\ e.brk = hi /\ e.up
  <2>1. <<First>> \in Seq(Int)
    BY <1>2
  <2>2. hi \in Int
    BY <1>1, <1>2
  <2>3. Fresh \in [mem : Mems, fbl : Seq(Int), brk : Int, up : BOOLEAN]
    <3>1. <<>> \in Seq(Int) /\ s \in Int /\ n \in Int
      BY <1>1, <1>2
    <3> DEFINE a == <<>>
               f == <<>>
    <3>2. a \in Mems /\ f \in Seq(Int)
      BY <1>3, <3>1
    <3>3. Fresh = [[mem |-> a, fbl |-> f, brk |-> s, up |-> FALSE] EXCEPT !.brk = s + n]
      BY DEF Fresh, Broke, Blank
    <3> HIDE DEF a, f, s, n
    <3>4. QED
      BY <2>2, <3>1, <3>2, <3>3
  <2> HIDE DEF hi
  <2>4. QED
    BY <1>3, <1>4, <1>7, <2>1, <2>2, <2>3 DEF Allocators
<1>9. z[First] = n - 8 /\ n - 8 \in Evens /\ n - 8 >= 16 /\ n - 8 \in Int /\ First + (n - 8) = hi
  <2>1. 8 \in Evens
    BY DEF Evens
  <2>2. n - 8 \in Evens
    BY <1>1, <2>1, EvenSums
  <2>3. z[First] = n - 8
    BY DEF OnlyBlock
  <2>4. QED
    BY <1>1, <1>2, <2>2, <2>3
<1>10. z \in [{First} -> Evens]
  BY <1>9 DEF OnlyBlock
<1> HIDE DEF z
<1>11. Laid({First}, z, First, hi)
  <2>1. Shape({First}, z)
    BY <1>2, <1>9, <1>10 DEF Shape
  <2>2. hi \in Int /\ First <= First /\ First + z[First] = hi /\ hi <= hi
    BY <1>1, <1>2, <1>9
  <2> HIDE DEF hi
  <2>3. QED
    BY <1>2, <2>1, <2>2 DEF Laid
<1>12. Tagged(m, {First}, z, {}, hi, 0)
  <2>1. Tag(z, {}, First) = n - 8
    BY <1>9 DEF Tag
  <2>2. Tags(m, z, {}, First, 0)
    BY <1>7, <1>9, <2>1 DEF Tags
  <2> HIDE DEF hi
  <2>3. QED
    BY <1>7, <2>2 DEF Tagged
<1>13. Apart({First}, z, {}, hi)
  <2>1. First + z[First] = hi
    BY <1>9
  <2> HIDE DEF hi
  <2>2. QED
    BY <2>1 DEF Apart
<1>14. FreeList(e.fbl, {First} \ {})
  <2>1. Elems(<<First>>) = {First} /\ Ordered(<<First>>)
    BY <1>2 DEF Elems, Ordered
  <2>2. QED
    BY <1>8, <2>1 DEF FreeList
<1> HIDE DEF hi
<1>15. Tiled(e, {First}, z, {}, 0)
  BY <1>8, <1>11, <1>12, <1>13, <1>14 DEF Tiled
<1>16. QED
  BY <1>8, <1>15 DEF e, hi, z

-----------------------------------------------------------------------------
(* realloc_block_FF() in place *)

\* The block va holds n bytes now, all others are as they were.
ResizedAs(e, brk, z, U, va, n, B2, z2) ==
  /\ e.brk = brk /\ Tiled(e, B2, z2, U, 0) /\ z2[va] >= n + 8
  /\ \A u \in U : u # va => z2[u] = z[u]

Resized(e, da, z, U, va, n) == \E B2, z2 : ResizedAs(e, da.brk, z, U, va, n, B2, z2)

\* The end of a block is cut off and freed.
LEMMA ShrinkBlock ==
  ASSUME NEW da, NEW B, NEW z, NEW U, Tiled(da, B, z, U, 0), NEW va \in U,
         NEW n \in Evens, n >= 8, z[va] >= n + 24
  PROVE  Resized(shrink(da, va, n), da, z, U, va, n)
<1> DEFINE h == z[va]
           k == n + 8
           v == h - k
           rest == va + k
           m == SplitTags(da.mem, va, h, k, k + 1, v + 1)
           e == [da EXCEPT !.mem = m]
           V == U \union {rest}
           A == B \union {rest}
           y == Cut(B, z, va, k)
<1>1. /\ da \in Allocators /\ da.up /\ U \subseteq B /\ Laid(B, z, First, da.brk)
      /\ Apart(B, z, U, da.brk) /\ da.fbl \in Seq(Int) /\ Ordered(da.fbl) /\ Elems(da.fbl) = B \ U
      /\ da.mem \in Mems /\ da.brk \in Int /\ First \in Int /\ First > 0
      /\ \A b \in B : /\ b \in Int /\ z[b] \in Int /\ z[b] >= 16 /\ z[b] \in Evens
                      /\ First <= b /\ b + z[b] <= da.brk
  BY TiledTypes
<1>2. va \in B /\ va \in Int /\ h \in Int /\ h \in Evens /\ n \in Int
  BY <1>1 DEF Evens
<1>3. Header(da, va) = h + 1
  <2>1. Tags(da.mem, z, U, va, 0)
    BY <1>2 DEF Tiled, Tagged
  <2>2. QED
    BY <2>1 DEF Tags, Tag, Header
<1>4. /\ k \in Int /\ k >= 16 /\ h - k >= 16 /\ v \in Int /\ rest \in Int /\ rest # va
      /\ k + 1 \in Int /\ v + 1 \in Int
  <2>1. h >= n + 24
    OBVIOUS
  <2> HIDE DEF h
  <2>2. k \in Int /\ k >= 16 /\ h - k >= 16 /\ v \in Int /\ k + 1 \in Int /\ v + 1 \in Int
    BY <1>2, <2>1
  <2> HIDE DEF k
  <2>3. rest \in Int /\ rest # va
    BY <1>2, <2>2
  <2>4. QED
    BY <2>2, <2>3
<1>5. k \in Evens
  <2>1. 8 \in Evens
    BY DEF Evens
  <2>2. QED
    BY <2>1, EvenSums
<1>6. shrink(da, va, n) = free_block(e, rest)
  <2> DEFINE actual == Header(da, va) - 1
             f == va + actual - 8
             g == actual - k + 1
             a == va + n
             mem1 == Put(Put(da.mem, a, k + 1), va - 4, k + 1)
             mem2 == Put(Put(mem1, rest - 4, g), f, g)
  <2>1. shrink(da, va, n) = free_block([da EXCEPT !.mem = mem2], rest)
    BY DEF shrink
  <2>2. a = va + k - 8 /\ rest - 4 = va + k - 4
    BY <1>2
  <2> HIDE DEF k
  <2>3. f = va + h - 8 /\ g = v + 1
    BY <1>2, <1>3, <1>4
  <2> HIDE DEF a, f, g, h, v
  <2>4. mem2 = m
    BY <2>2, <2>3 DEF SplitTags
  <2> HIDE DEF mem2, m, rest
  <2>5. QED
    BY <2>1, <2>4
<1>7. HasSplit(m, da.mem, va, h, k, k + 1, v + 1)
  <2> HIDE DEF h, k, v
  <2>1. QED
    BY <1>1, <1>2, <1>4, SplitWords
<1> HIDE DEF m
<1>8. e \in Allocators /\ e.mem = m /\ e.fbl = da.fbl /\ e.brk = da.brk /\ e.up
  <2>1. m \in Mems
    BY <1>7 DEF HasSplit
  <2>2. Wrote(e, da, m, da.fbl)
    BY <1>1, <2>1, SetAllocator
  <2>3. QED
    BY <1>1, <2>2 DEF Wrote
<1> HIDE DEF e
<1>9. rest \notin B
  <2>1. z[va] - k >= 16 /\ va \in B
    BY <1>2, <1>4
  <2> HIDE DEF k
  <2>2. va + k \notin B
    BY <1>1, <1>4, <1>5, <2>1, CutLaid
  <2>3. QED
    BY <2>2
<1>10. y[va] = k /\ y[rest] = v /\ \A b \in B : b # va => y[b] = z[b]
  BY <1>2, <1>4, <1>9 DEF Cut
<1>11. A \ V = B \ U /\ V \subseteq A /\ rest \in V /\ va \in V /\ V \ {rest} = U
  <2> HIDE DEF rest
  <2>1. QED
    BY <1>1, <1>9
<1>12. Apart(A, y, V, da.brk)
  <2>1. \A b \in B \ U : b + z[b] \in U \union {da.brk}
    BY <1>1 DEF Apart
  <2>2. \A b \in B \ U : y[b] = z[b]
    BY <1>10
  <2> HIDE DEF y, rest, A
  <2>3. QED
    BY <1>11, <2>1, <2>2 DEF Apart
<1>13. FreeList(e.fbl, A \ V)
  BY <1>1, <1>8, <1>11 DEF FreeList
<1>14. Tag(y, V, rest) = v + 1
  BY <1>10, <1>11 DEF Tag
<1>15. Tiled(e, A, y, V, 0)
  <2>1. V \in SUBSET A /\ va \in V
    BY <1>11
  <2>2. Besides(B, va, V, U)
    BY <1>9 DEF Besides
  <2>3. HasSplit(e.mem, da.mem, va, z[va], k, k + 1, Tag(y, V, rest))
    BY <1>7, <1>8, <1>14
  <2>4. rest = va + k /\ y = Cut(B, z, va, k) /\ va \in B /\ z[va] - k >= 16
    BY <1>2, <1>4
  <2>5. k >= 16 /\ k \in Evens /\ e \in Allocators /\ e.brk = da.brk /\ e.up
        /\ Apart(B \union {rest}, y, V, da.brk) /\ FreeList(e.fbl, (B \union {rest}) \ V)
        /\ V \in SUBSET (B \union {rest})
    BY <1>4, <1>5, <1>8, <1>12, <1>13, <2>1
  <2>6. Tiled(da, B, z, U, 0) /\ 0 \in {0, va}
    OBVIOUS
  <2> HIDE DEF rest, y, k, V, h, v, A
  <2>7. Tiled(e, B \union {rest}, y, V, 0)
    BY ONLY <2>1, <2>2, <2>3, <2>4, <2>5, <2>6, CutTiled
  <2>8. QED
    BY <2>7 DEF A
<1>16. PICK B2, z2, x2, f : FreedAs(free_block(e, rest), e.brk, A, y, V, 0, y[rest], U, B2, z2, x2, f)
  <2> HIDE DEF rest, y, k, V, h, v, A
  <2>1. Freed(free_block(e, rest), e, A, y, V, 0, rest)
    BY <1>11, <1>15, FreeBlock
  <2>2. QED
    BY <1>11, <2>1 DEF Freed
<1>17. ResizedAs(free_block(e, rest), da.brk, z, U, va, n, B2, z2)
  <2> HIDE DEF rest, y, V, h, v, A
  <2>1. /\ free_block(e, rest).brk = e.brk /\ Tiled(free_block(e, rest), B2, z2, U, x2)
        /\ x2 = 0 /\ \A u \in U : z2[u] = y[u]
    BY <1>16 DEF FreedAs
  <2>2. z2[va] >= n + 8
    BY <1>2, <1>10, <2>1
  <2>3. \A u \in U : u # va => z2[u] = z[u]
    BY <1>1, <1>10, <2>1
  <2>4. QED
    BY <1>8, <2>1, <2>2, <2>3 DEF ResizedAs
<1>18. QED
  BY <1>6, <1>17 DEF Resized

\* absorb() of all of the next block ...
AllOfNext(da, va, d, t) ==
  [da EXCEPT !.mem = Framed(@, va, t, t + 1, t + 1, t - 8), !.fbl = Unlink(da, d)]

\* ... and of a part of it.
PartOfNext(da, va, d, t, k) ==
  LET rest == va + k
  IN  [da EXCEPT !.mem = Scribble(Scribble(SplitTags(@, va, t, k, k + 1, t - k), va, k - 8),
                                  rest, t - k - 8),
                 !.fbl = ReplaceAt(@, Position(da, d), rest)]

\* It is one or the other, where the links survive.
Absorbs(da, va, n, d, h, g) ==
  LinksSurvive(da, va, n) =>
    absorb(da, va, n) = IF h + g - (n + 8) < 16 THEN AllOfNext(da, va, d, h + g)
                        ELSE PartOfNext(da, va, d, h + g, n + 8)

LEMMA AbsorbIs ==
  ASSUME NEW da, NEW va \in Int, NEW n \in Int, NEW h \in Int, NEW g \in Int, NEW d,
         Header(da, va) = h + 1, d = va + h, Word(da.mem, d - 4) = g
  PROVE  Absorbs(da, va, n, d, h, g)
<1> SUFFICES ASSUME LinksSurvive(da, va, n)
             PROVE  absorb(da, va, n) = IF h + g - (n + 8) < 16 THEN AllOfNext(da, va, d, h + g)
                                        ELSE PartOfNext(da, va, d, h + g, n + 8)
  BY DEF Absorbs
<1> DEFINE actual == Header(da, va) - 1
           hn == va + actual - 4
           next == Word(da.mem, hn)
           footer == hn + next - 4
           total == n + 8
           left == actual + next - total
           rest == va + total
           t == h + g
           whole == Put(Put(da.mem, va - 4, actual + next + 1), footer, actual + next + 1)
           split == Put(Put(Put(Put(da.mem, va + n, total + 1), va - 4, total + 1),
                            rest - 4, left), footer, left)
<1>1. absorb(da, va, n) =
        IF left < 16
        THEN [da EXCEPT !.mem = Scribble(whole, va, actual + next - 8), !.fbl = Unlink(da, hn + 4)]
        ELSE [da EXCEPT !.mem = Scribble(Scribble(split, va, n), rest, left - 8),
                        !.fbl = ReplaceAt(@, Position(da, hn + 4), rest)]
  BY DEF absorb
<1>2. actual = h
  OBVIOUS
<1>3. hn = d - 4 /\ hn + 4 = d /\ next = g
  <2> HIDE DEF actual
  <2>1. hn = d - 4 /\ hn + 4 = d
    BY <1>2
  <2> HIDE DEF hn
  <2>2. QED
    BY <2>1
<1>4. /\ actual + next + 1 = t + 1 /\ actual + next - 8 = t - 8 /\ footer = va + t - 8
      /\ left = t - total /\ va + n = va + total - 8 /\ rest - 4 = va + total - 4 /\ total - 8 = n
      /\ left - 8 = t - total - 8 /\ t + 1 \in Int /\ left = h + g - (n + 8)
  <2> HIDE DEF actual, hn, next
  <2>1. QED
    BY <1>2, <1>3
<1>5. Scribble(whole, va, actual + next - 8) = Framed(da.mem, va, t, t + 1, t + 1, t - 8)
  <2> HIDE DEF actual, hn, next, footer, t
  <2>1. QED
    BY <1>4 DEF Framed
<1>6. split = SplitTags(da.mem, va, t, total, total + 1, t - total)
  <2> HIDE DEF actual, hn, next, footer, t, left, total, rest
  <2>1. rest = va + total
    BY DEF rest
  <2>2. QED
    BY <1>4 DEF SplitTags
<1> HIDE DEF actual, hn, next, footer, t, whole, split, left
<1>7. absorb(da, va, n) =
        IF t - total < 16
        THEN [da EXCEPT !.mem = Framed(da.mem, va, t, t + 1, t + 1, t - 8), !.fbl = Unlink(da, d)]
        ELSE [da EXCEPT !.mem = Scribble(Scribble(SplitTags(da.mem, va, t, total, total + 1, t - total), va, total - 8),
                                         rest, t - total - 8),
                        !.fbl = ReplaceAt(@, Position(da, d), rest)]
  <2> HIDE DEF total, rest
  <2>1. QED
    BY <1>1, <1>3, <1>4, <1>5, <1>6
<1>8. QED
  BY <1>7 DEF AllOfNext, PartOfNext, t

\* The next block joins this one.
LEMMA AbsorbAll ==
  ASSUME NEW da, NEW B, NEW z, NEW U, Tiled(da, B, z, U, 0), NEW va \in U,
         NEW d \in B \ U, d = va + z[va], NEW n \in Int, z[va] + z[d] >= n + 8
  PROVE  Resized(AllOfNext(da, va, d, z[va] + z[d]), da, z, U, va, n)
<1> DEFINE t == z[va] + z[d]
           m == Framed(da.mem, va, t, t + 1, t + 1, t - 8)
           s == RemoveAt(da.fbl, Position(da, d))
           e == [da EXCEPT !.mem = m, !.fbl = s]
           A == B \ {d}
           y == Joined(B, z, va, d)
           q == d + z[d]
<1>1. /\ da \in Allocators /\ da.up /\ U \subseteq B /\ Laid(B, z, First, da.brk)
      /\ Apart(B, z, U, da.brk) /\ da.fbl \in Seq(Int) /\ Ordered(da.fbl) /\ Elems(da.fbl) = B \ U
      /\ da.mem \in Mems /\ da.brk \in Int /\ First \in Int /\ First > 0
      /\ \A b \in B : /\ b \in Int /\ z[b] \in Int /\ z[b] >= 16 /\ z[b] \in Evens
                      /\ First <= b /\ b + z[b] <= da.brk
  BY TiledTypes
<1>2. /\ va \in B /\ va \in Int /\ z[va] \in Int /\ z[va] >= 16 /\ d \in Int /\ z[d] \in Int /\ z[d] >= 16
      /\ First <= va /\ q \in Int /\ q <= da.brk /\ t \in Int /\ t >= 16 /\ q = va + t /\ d # va /\ va < d
  <2>1. /\ va \in B /\ va \in Int /\ z[va] \in Int /\ z[va] >= 16 /\ First <= va
        /\ d \in Int /\ z[d] \in Int /\ z[d] >= 16 /\ d + z[d] <= da.brk
    BY <1>1
  <2>2. q \in Int /\ q <= da.brk /\ t \in Int /\ t >= 16
    BY <2>1
  <2>3. q = va + t /\ d # va /\ va < d
    BY <2>1
  <2>4. QED
    BY <2>1, <2>2, <2>3
<1>3. AllOfNext(da, va, d, t) = e
  BY DEF AllOfNext, Unlink
<1>4. m \in Mems /\ Word(m, va - 4) = t + 1 /\ Word(m, va + t - 8) = t + 1 /\ Outside(m, da.mem, va, q)
  <2>1. t - 8 \in Int /\ 0 <= t - 8 /\ t - 8 <= t - 8 /\ t + 1 \in Int
    BY <1>2
  <2> HIDE DEF t
  <2>2. HasFrame(m, da.mem, va, t, t + 1, t + 1)
    BY <1>1, <1>2, <2>1, FramedWords
  <2> HIDE DEF m
  <2>3. QED
    BY <1>2, <2>2 DEF HasFrame
<1> HIDE DEF m
<1>5. s \in Seq(Int) /\ Ordered(s) /\ Elems(s) = (B \ U) \ {d}
  <2> DEFINE h == Position(da, d)
  <2>1. h \in DOMAIN da.fbl /\ da.fbl[h] = d
    BY <1>1, PositionIs
  <2>2. s = RemoveAt(da.fbl, h)
    OBVIOUS
  <2> HIDE DEF h, s
  <2>3. InOrder(s, Elems(da.fbl) \ {da.fbl[h]})
    BY <1>1, <2>1, <2>2, OrderedRemove
  <2>4. QED
    BY <1>1, <2>1, <2>3 DEF InOrder
<1> HIDE DEF s
<1>6. e \in Allocators /\ e.mem = m /\ e.fbl = s /\ e.brk = da.brk /\ e.up
  <2>1. Wrote(e, da, m, s)
    BY <1>1, <1>4, <1>5, SetAllocator
  <2>2. QED
    BY <1>1, <2>1 DEF Wrote
<1> HIDE DEF e
<1>7. Laid(A, y, First, da.brk)
  BY <1>1, <1>2, JoinLaid
<1>8. va \in A /\ y[va] = t /\ \A b \in A : b # va => y[b] = z[b]
  BY <1>2 DEF Joined
<1> HIDE DEF y, t
<1>9. Tags(e.mem, y, U, va, 0)
  <2>1. Tag(y, U, va) = t + 1
    BY <1>8 DEF Tag
  <2>2. QED
    BY <1>4, <1>6, <1>8, <2>1 DEF Tags
<1>10. \A b \in A : b # va => b + z[b] <= va \/ q <= b
  <2>1. \A b \in B : b # va => b + z[b] <= va \/ va + z[va] <= b
    BY <1>1, <1>2, Beside
  <2>2. \A b \in B : b # d => b + z[b] <= d \/ d + z[d] <= b
    BY <1>1, Beside
  <2>3. ASSUME NEW b \in A, b # va
        PROVE  b + z[b] <= va \/ q <= b
    <3>1. b \in B /\ b # d /\ b \in Int /\ z[b] \in Int /\ z[b] >= 16
      BY <1>1
    <3>2. b + z[b] <= va \/ d <= b
      BY <2>1, <2>3, <3>1
    <3>3. b + z[b] <= d \/ q <= b
      BY <2>2, <3>1
    <3>4. QED
      BY <1>2, <3>1, <3>2, <3>3
  <2>4. QED
    BY <2>3
<1>11. Apart(A, y, U, da.brk)
  <2>1. \A b \in B \ U : b + z[b] \in U \union {da.brk}
    BY <1>1 DEF Apart
  <2>2. \A b \in A \ U : b \in B \ U /\ y[b] = z[b]
    BY <1>8
  <2> HIDE DEF A
  <2>3. QED
    BY <2>1, <2>2 DEF Apart
<1>12. FreeList(e.fbl, A \ U)
  <2>1. A \ U = (B \ U) \ {d}
    OBVIOUS
  <2>2. QED
    BY <1>5, <1>6, <2>1 DEF FreeList
<1>13. Tiled(e, A, y, U, 0)
  <2>1. U \in SUBSET A
    BY <1>1
  <2>2. \A b \in A : b # 0
    BY <1>1
  <2>3. Kept(e.mem, B, z, U, 0, va, q, A, y, U, 0)
    BY <1>8, <1>9, <1>10, <2>2 DEF Kept
  <2>4. Outside(e.mem, da.mem, va, q)
    BY <1>4, <1>6
  <2>5. QED
    BY <1>1, <1>2, <1>6, <1>7, <1>11, <1>12, <2>1, <2>3, <2>4, Retiled
<1>14. Resized(e, da, z, U, va, n)
  <2>1. y[va] >= n + 8
    BY <1>8 DEF t
  <2>2. \A u \in U : u # va => y[u] = z[u]
    BY <1>1, <1>8
  <2> HIDE DEF A
  <2>3. ResizedAs(e, da.brk, z, U, va, n, A, y)
    BY <1>6, <1>13, <2>1, <2>2 DEF ResizedAs
  <2>4. QED
    BY <2>3 DEF Resized
<1>15. QED
  BY <1>3, <1>14 DEF t

\* A part of the next block joins this one.
LEMMA AbsorbPart ==
  ASSUME NEW da, NEW B, NEW z, NEW U, Tiled(da, B, z, U, 0), NEW va \in U,
         NEW d \in B \ U, d = va + z[va], NEW n \in Evens, n >= 8, n + 8 > z[va],
         z[va] + z[d] >= n + 24
  PROVE  Resized(PartOfNext(da, va, d, z[va] + z[d], n + 8), da, z, U, va, n)
<1> DEFINE t == z[va] + z[d]
           k == n + 8
           v == t - k
           rest == va + k
           m0 == SplitTags(da.mem, va, t, k, k + 1, v)
           m == Scribble(Scribble(m0, va, k - 8), rest, v - 8)
           s == ReplaceAt(da.fbl, Position(da, d), rest)
           e == [da EXCEPT !.mem = m, !.fbl = s]
           C == B \ {d}
           w == Joined(B, z, va, d)
           A == C \union {rest}
           y == Cut(C, w, va, k)
           q == d + z[d]
<1>1. /\ da \in Allocators /\ da.up /\ U \subseteq B /\ Laid(B, z, First, da.brk)
      /\ Apart(B, z, U, da.brk) /\ da.fbl \in Seq(Int) /\ Ordered(da.fbl) /\ Elems(da.fbl) = B \ U
      /\ da.mem \in Mems /\ da.brk \in Int /\ First \in Int /\ First > 0
      /\ \A b \in B : /\ b \in Int /\ z[b] \in Int /\ z[b] >= 16 /\ z[b] \in Evens
                      /\ First <= b /\ b + z[b] <= da.brk
  BY TiledTypes
<1>2. /\ va \in B /\ va \in Int /\ z[va] \in Int /\ z[va] >= 16 /\ d \in Int /\ z[d] \in Int /\ z[d] >= 16
      /\ First <= va /\ q \in Int /\ q <= da.brk /\ t \in Int /\ t >= 16 /\ q = va + t /\ d # va /\ va < d
  <2>1. /\ va \in B /\ va \in Int /\ z[va] \in Int /\ z[va] >= 16 /\ First <= va
        /\ d \in Int /\ z[d] \in Int /\ z[d] >= 16 /\ d + z[d] <= da.brk
    BY <1>1
  <2>2. q \in Int /\ q <= da.brk /\ t \in Int /\ t >= 16
    BY <2>1
  <2>3. q = va + t /\ d # va /\ va < d
    BY <2>1
  <2>4. QED
    BY <2>1, <2>2, <2>3
<1>3. PartOfNext(da, va, d, t, k) = e
  BY DEF PartOfNext
<1>4. /\ k \in Int /\ k >= 16 /\ t - k >= 16 /\ v \in Int /\ rest \in Int /\ k + 1 \in Int
      /\ k - 8 \in Int /\ k - 8 >= 0 /\ v - 8 \in Int /\ v - 8 >= 0 /\ rest = va + k
      /\ rest > d /\ rest < q /\ rest + v = q
  <2>1. n \in Int
    BY DEF Evens
  <2>2. t >= n + 24
    OBVIOUS
  <2>3. k > z[va]
    OBVIOUS
  <2> HIDE DEF t, q
  <2>4. k \in Int /\ k >= 16 /\ t - k >= 16 /\ v \in Int /\ k + 1 \in Int
    BY <1>2, <2>1, <2>2
  <2> HIDE DEF k
  <2>5. k - 8 \in Int /\ k - 8 >= 0 /\ v - 8 \in Int /\ v - 8 >= 0 /\ rest \in Int /\ rest = va + k
    BY <1>2, <2>4
  <2>6. rest > d /\ rest < q /\ rest + v = q
    BY <1>2, <2>3, <2>4
  <2>7. QED
    BY <2>4, <2>5, <2>6
<1>5. k \in Evens
  <2>1. 8 \in Evens
    BY DEF Evens
  <2>2. QED
    BY <2>1, EvenSums
<1>6. HasSplit(m, da.mem, va, t, k, k + 1, v)
  <2> DEFINE m1 == Scribble(m0, va, k - 8)
             i == k - 8
             j == v - 8
  <2>1. HasSplit(m0, da.mem, va, t, k, k + 1, v)
    <3> HIDE DEF t, k, v
    <3>1. QED
      BY <1>1, <1>2, <1>4, SplitWords
  <2>2. i \in Int /\ i >= 0 /\ i <= k - 8 /\ j \in Int /\ j >= 0 /\ j <= t - k - 8
    BY <1>2, <1>4
  <2> HIDE DEF i, j, t, k, v, m0, rest
  <2>3. HasSplit(Scribble(m0, va, i), da.mem, va, t, k, k + 1, v)
    BY <1>2, <1>4, <2>1, <2>2, ScribbleSplit
  <2>4. m1 = Scribble(m0, va, i)
    BY DEF i
  <2> HIDE DEF m1
  <2>5. HasSplit(Scribble(m1, rest, j), da.mem, va, t, k, k + 1, v)
    BY <1>2, <1>4, <2>2, <2>3, <2>4, ScribbleSplit
  <2>6. QED
    BY <2>5 DEF j, m1
<1> HIDE DEF m, m0
<1>7. m \in Mems
  BY <1>6 DEF HasSplit
<1>8. s \in Seq(Int) /\ Ordered(s) /\ Elems(s) = ((B \ U) \ {d}) \union {rest}
  <2> DEFINE h == Position(da, d)
  <2>1. h \in DOMAIN da.fbl /\ da.fbl[h] = d
    BY <1>1, PositionIs
  <2>2. s = ReplaceAt(da.fbl, h, rest)
    OBVIOUS
  <2> HIDE DEF h, s, rest
  <2>3. ASSUME NEW b \in B \ U
        PROVE  SamePlace(b, rest, d)
    <3>1. b \in Int /\ z[b] \in Int /\ z[b] >= 16
      BY <1>1
    <3>2. b # d => b + z[b] <= d \/ d + z[d] <= b
      BY <1>1, Beside
    <3>3. QED
      BY <1>2, <1>4, <3>1, <3>2 DEF SamePlace
  <2>4. \A b \in Elems(da.fbl) : SamePlace(b, rest, da.fbl[h])
    BY <1>1, <2>1, <2>3
  <2>5. InOrder(s, (Elems(da.fbl) \ {da.fbl[h]}) \union {rest})
    BY <1>1, <1>4, <2>1, <2>2, <2>4, OrderedReplace
  <2>6. QED
    BY <1>1, <2>1, <2>5 DEF InOrder
<1> HIDE DEF s
<1>9. e \in Allocators /\ e.mem = m /\ e.fbl = s /\ e.brk = da.brk /\ e.up
  <2>1. Wrote(e, da, m, s)
    BY <1>1, <1>7, <1>8, SetAllocator
  <2>2. QED
    BY <1>1, <2>1 DEF Wrote
<1> HIDE DEF e
<1>10. Laid(C, w, First, da.brk) /\ va \in C /\ w[va] = t /\ \A b \in C : b # va => w[b] = z[b]
  <2>1. Laid(C, w, First, da.brk)
    BY <1>1, <1>2, JoinLaid
  <2>2. va \in C /\ w[va] = t /\ \A b \in C : b # va => w[b] = z[b]
    BY <1>2 DEF Joined
  <2>3. QED
    BY <2>1, <2>2
<1> HIDE DEF w
<1>11. Laid(A, y, First, da.brk) /\ rest \notin C
  <2>1. w[va] - k >= 16 /\ rest = va + k
    BY <1>4, <1>10
  <2> HIDE DEF k, rest, C
  <2>2. QED
    BY <1>4, <1>5, <1>10, <2>1, CutLaid
<1>12. y[va] = k /\ y[rest] = v /\ \A b \in C : b # va => y[b] = z[b]
  <2>1. rest # va
    BY <1>2, <1>4
  <2>2. y[va] = k /\ y[rest] = w[va] - k
    BY <1>10, <2>1 DEF Cut
  <2>3. \A b \in C : b # va => y[b] = w[b]
    BY <1>11 DEF Cut
  <2>4. QED
    BY <1>10, <2>2, <2>3
<1> HIDE DEF y, t, k, v, rest
<1>13. Tags(e.mem, y, U, va, 0) /\ Tags(e.mem, y, U, rest, 0)
  <2>1. /\ Word(m, va - 4) = k + 1 /\ Word(m, va + k - 8) = k + 1
        /\ Word(m, va + k - 4) = v /\ Word(m, va + t - 8) = v
    BY <1>6 DEF HasSplit
  <2>2. rest \notin U
    BY <1>1, <1>11
  <2>3. Tag(y, U, va) = k + 1 /\ Tag(y, U, rest) = v
    BY <1>12, <2>2 DEF Tag
  <2>4. rest - 4 = va + k - 4 /\ rest + v - 8 = va + t - 8
    BY <1>2, <1>4
  <2>5. QED
    BY <1>9, <1>12, <2>1, <2>3, <2>4 DEF Tags
<1>14. \A b \in C : b # va => b + z[b] <= va \/ q <= b
  <2>1. \A b \in B : b # va => b + z[b] <= va \/ va + z[va] <= b
    BY <1>1, <1>2, Beside
  <2>2. \A b \in B : b # d => b + z[b] <= d \/ d + z[d] <= b
    BY <1>1, Beside
  <2>3. ASSUME NEW b \in C, b # va
        PROVE  b + z[b] <= va \/ q <= b
    <3>1. b \in B /\ b # d /\ b \in Int /\ z[b] \in Int /\ z[b] >= 16
      BY <1>1
    <3>2. b + z[b] <= va \/ d <= b
      BY <2>1, <2>3, <3>1
    <3>3. b + z[b] <= d \/ q <= b
      BY <2>2, <3>1
    <3>4. QED
      BY <1>2, <3>1, <3>2, <3>3
  <2>4. QED
    BY <2>3
<1>15. A \ U = ((B \ U) \ {d}) \union {rest} /\ U \subseteq A
  BY <1>1, <1>11
<1>16. Apart(A, y, U, da.brk)
  <2>1. \A b \in B \ U : b + z[b] \in U \union {da.brk}
    BY <1>1 DEF Apart
  <2>2. rest + y[rest] \in U \union {da.brk}
    BY <1>4, <1>12, <2>1
  <2>3. \A b \in (B \ U) \ {d} : y[b] = z[b]
    BY <1>12
  <2> HIDE DEF A, C, q
  <2>4. QED
    BY <1>15, <2>1, <2>2, <2>3 DEF Apart
<1>17. FreeList(e.fbl, A \ U)
  BY <1>8, <1>9, <1>15 DEF FreeList
<1>18. Tiled(e, A, y, U, 0)
  <2>1. U \in SUBSET A
    BY <1>15
  <2>2. \A b \in C : b # 0
    BY <1>1
  <2>3. Kept(e.mem, B, z, U, 0, va, q, A, y, U, 0)
    BY <1>12, <1>13, <1>14, <2>2 DEF Kept
  <2>4. Outside(e.mem, da.mem, va, q)
    BY <1>2, <1>6, <1>9 DEF HasSplit
  <2> HIDE DEF A, C, q
  <2>5. QED
    BY <1>1, <1>2, <1>9, <1>11, <1>16, <1>17, <2>1, <2>3, <2>4, Retiled
<1>19. Resized(e, da, z, U, va, n)
  <2>1. y[va] >= n + 8
    BY <1>4, <1>12 DEF k
  <2>2. \A u \in U : u # va => y[u] = z[u]
    BY <1>1, <1>12
  <2> HIDE DEF A
  <2>3. ResizedAs(e, da.brk, z, U, va, n, A, y)
    BY <1>9, <1>18, <2>1, <2>2 DEF ResizedAs
  <2>4. QED
    BY <2>3 DEF Resized
<1>20. QED
  BY <1>3, <1>19 DEF t, k

\* A block grows into the next one.
LEMMA AbsorbBlock ==
  ASSUME NEW da, NEW B, NEW z, NEW U, Tiled(da, B, z, U, 0), NEW va \in U,
         NEW n \in Evens, n >= 8, n + 8 > z[va], NextIsEnough(da, va, n),
         LinksSurvive(da, va, n)
  PROVE  Resized(absorb(da, va, n), da, z, U, va, n)
<1> DEFINE d == va + z[va]
           g == Word(da.mem, d - 4)
<1>1. \A b \in B : b \in Int /\ z[b] \in Int /\ z[b] \in Evens /\ z[b] >= 16
  BY TiledTypes
<1>2. va \in B /\ va \in Int /\ z[va] \in Int /\ n \in Int /\ d \in Int /\ d = va + z[va]
  BY <1>1, TiledTypes DEF Evens
<1>3. Surrounded(da, B, z, U, va)
  BY Surroundings
<1>4. Header(da, va) = z[va] + 1
  BY <1>3 DEF Surrounded
<1>5. g % 2 = 0 /\ z[va] + g >= n + 8
  <2> DEFINE actual == Header(da, va) - 1
             a == va + actual - 4
  <2>1. Word(da.mem, a) % 2 = 0 /\ actual + Word(da.mem, a) >= n + 8
    BY DEF NextIsEnough
  <2>2. actual = z[va] /\ a = d - 4
    BY <1>2, <1>4
  <2> HIDE DEF actual, a, d
  <2>3. QED
    BY <2>1, <2>2
<1>6. d \in B \ U /\ g = z[d]
  <2>1. d \in B \union {da.brk}
    BY <1>3 DEF Surrounded
  <2>2. g % 2 # 1
    BY <1>5
  <2> HIDE DEF d
  <2>3. QED
    BY <1>2, <1>3, <2>1, <2>2 DEF Surrounded, g
<1>7. z[d] \in Int /\ z[d] \in Evens
  BY <1>1, <1>6
<1>8. absorb(da, va, n) = IF z[va] + z[d] - (n + 8) < 16 THEN AllOfNext(da, va, d, z[va] + z[d])
                          ELSE PartOfNext(da, va, d, z[va] + z[d], n + 8)
  <2>1. Word(da.mem, d - 4) = z[d]
    BY <1>6
  <2> HIDE DEF d, g
  <2>2. Absorbs(da, va, n, d, z[va], z[d])
    BY <1>2, <1>4, <1>7, <2>1, AbsorbIs
  <2>3. QED
    BY <2>2 DEF Absorbs
<1>9. z[va] + z[d] >= n + 8
  BY <1>5, <1>6
<1> HIDE DEF d, g
<1>10. CASE z[va] + z[d] - (n + 8) < 16
  <2>1. Resized(AllOfNext(da, va, d, z[va] + z[d]), da, z, U, va, n)
    BY <1>2, <1>6, <1>9, AbsorbAll
  <2>2. QED
    BY <1>8, <1>10, <2>1
<1>11. CASE ~(z[va] + z[d] - (n + 8) < 16)
  <2>1. z[va] + z[d] >= n + 24
    BY <1>2, <1>7, <1>11
  <2>2. Resized(PartOfNext(da, va, d, z[va] + z[d], n + 8), da, z, U, va, n)
    BY <1>2, <1>6, <2>1, AbsorbPart
  <2>3. QED
    BY <1>8, <1>11, <2>2
<1>12. QED
  BY <1>10, <1>11

-----------------------------------------------------------------------------
(* The blocks that are in use, each large enough for what is kept in it *)

\* What is asked of a block of n bytes: room for c of them, or for c < 0 that it has exactly -c.
Room(n, c) == IF c < 0 THEN n = -c ELSE n >= c + 8

Fits(z, U, c) == U \subseteq DOMAIN c /\ \A u \in U : c[u] \in Int /\ Room(z[u], c[u])

OwnedAs(da, U, c, B, z) == Tiled(da, B, z, U, 0) /\ Fits(z, U, c)
Owned(da, U, c) == \E B, z : OwnedAs(da, U, c, B, z)

\* n bytes can be had.
ReadyAs(da, U, c, n, B, z, x) ==
  Tiled(da, B, z, U, x) /\ Fits(z, U, c) /\ Sufficient(da, n) # {} /\ Roomy(B, z, U, x, n)
Ready(da, U, c, n) == \E B, z, x : ReadyAs(da, U, c, n, B, z, x)

\* A free block that is large enough is found.
LEMMA SomeFits ==
  ASSUME NEW da, NEW B, NEW z, NEW U, NEW x, Tiled(da, B, z, U, x), NEW n \in Int
  PROVE  Sufficient(da, n) = {} <=> \A b \in B \ U : z[b] < n + 8
<1>1. \A i \in DOMAIN da.fbl : da.fbl[i] \in B \ U /\ Header(da, da.fbl[i]) = z[da.fbl[i]]
  BY FreeHeaders
<1>2. \A b \in B \ U : \E i \in DOMAIN da.fbl : da.fbl[i] = b
  BY TiledTypes DEF Elems
<1>3. \A b \in B : z[b] \in Int
  BY TiledTypes
<1>4. ASSUME \A b \in B \ U : z[b] < n + 8
      PROVE  Sufficient(da, n) = {}
  BY <1>1, <1>3, <1>4 DEF Sufficient
<1>5. ASSUME Sufficient(da, n) = {}, NEW b \in B \ U
      PROVE  z[b] < n + 8
  <2>1. PICK i \in DOMAIN da.fbl : da.fbl[i] = b
    BY <1>2
  <2>2. Header(da, da.fbl[i]) = z[b]
    BY <1>1, <2>1
  <2>3. ~(Header(da, da.fbl[i]) >= n + 8)
    BY <1>5 DEF Sufficient
  <2>4. QED
    BY <1>3, <2>2, <2>3
<1>6. QED
  BY <1>4, <1>5

\* A heap that grew by a page is ready ...
LEMMA GrownReady ==
  ASSUME NEW da, NEW U, NEW c, Owned(da, U, c), NEW n \in Int, n + 24 <= PAGE_SIZE,
         Sufficient(da, n) = {}
  PROVE  /\ Ready(Extended(Broke(da), 1), U, c, n)
         /\ Extended(Broke(da), 1).brk = da.brk + PAGE_SIZE
<1> DEFINE e == Extended(Broke(da), 1)
<1>1. PICK B, z : OwnedAs(da, U, c, B, z)
  BY DEF Owned
<1>2. Tiled(da, B, z, U, 0) /\ Fits(z, U, c)
  BY <1>1 DEF OwnedAs
<1>3. Grown(e, da.brk + PAGE_SIZE, B, z, U)
  BY <1>2, ExtendTiled
<1> HIDE DEF e
<1>4. PICK B2, z2, x, f : GrownAs(e, da.brk + PAGE_SIZE, B, z, U, B2, z2, x, f)
  BY <1>3 DEF Grown
<1>5. /\ e.brk = da.brk + PAGE_SIZE /\ Tiled(e, B2, z2, U, x) /\ f \in B2 \ U /\ z2[f] >= PAGE_SIZE
      /\ x \in {0, f} /\ \A u \in U : z2[u] = z[u]
      /\ \A g \in B2 \ U : g # f => g \in B \ U /\ z2[g] = z[g]
  BY <1>4 DEF GrownAs
<1>6. z2[f] \in Int /\ PAGE_SIZE \in Int
  <2>1. \A b \in B2 : z2[b] \in Int
    BY <1>5, TiledTypes
  <2>2. QED
    BY <1>5, <2>1, PageType
<1>7. z2[f] >= n + 24 /\ ~(z2[f] < n + 8)
  BY <1>5, <1>6
<1>8. \A b \in B \ U : z[b] < n + 8
  BY <1>2, SomeFits
<1>9. Sufficient(e, n) # {}
  BY <1>5, <1>7, SomeFits
<1>10. Roomy(B2, z2, U, x, n)
  <2>1. CASE x = 0
    BY <2>1 DEF Roomy
  <2>2. CASE x = f
    <3>1. \A b \in B2 \ U : b # x => z2[b] < n + 8
      BY <1>5, <1>8, <2>2
    <3>2. QED
      BY <1>5, <1>7, <2>2, <3>1 DEF Roomy
  <2>3. QED
    BY <1>5, <2>1, <2>2
<1>11. Fits(z2, U, c)
  BY <1>2, <1>5 DEF Fits
<1>12. ReadyAs(e, U, c, n, B2, z2, x)
  BY <1>5, <1>9, <1>10, <1>11 DEF ReadyAs
<1>13. Ready(e, U, c, n)
  BY <1>12 DEF Ready
<1>14. QED
  BY <1>5, <1>13 DEF e

\* ... and so is the first page ...
LEMMA StartReady ==
  ASSUME NEW c, NEW n \in Int, n + 24 <= PAGE_SIZE
  PROVE  /\ Ready(Extended(Broke(Blank), 1), {}, c, n)
         /\ Extended(Broke(Blank), 1).brk = KERNEL_HEAP_START + PAGE_SIZE
<1> DEFINE e == Extended(Broke(Blank), 1)
           i == initialize_dynamic_allocator(Fresh, KERNEL_HEAP_START, PAGE_SIZE)
<1>1. e = i
  <2>1. Broke(Blank) = Fresh
    BY DEF Fresh
  <2> DEFINE size == 1 * PAGE_SIZE
             a == Fresh.brk - size
  <2>2. e = initialize_dynamic_allocator(Fresh, a, size)
    BY <2>1 DEF Extended, Fresh, Broke, Blank
  <2>3. size = PAGE_SIZE /\ a = KERNEL_HEAP_START
    <3>1. PAGE_SIZE \in Int /\ KERNEL_HEAP_START \in Int
      BY PageType, StartType
    <3>2. Fresh.brk = KERNEL_HEAP_START + PAGE_SIZE
      BY DEF Fresh, Broke, Blank
    <3>3. QED
      BY <3>1, <3>2
  <2> HIDE DEF size, a, e
  <2>4. QED
    BY <2>2, <2>3
<1>2. Tiled(i, {First}, OnlyBlock, {}, 0) /\ i.brk = KERNEL_HEAP_START + PAGE_SIZE
  BY StartTiled
<1> HIDE DEF i, e
<1>3. Sufficient(i, n) # {}
  <2>1. OnlyBlock[First] = PAGE_SIZE - 8 /\ PAGE_SIZE \in Int
    BY PageType DEF OnlyBlock
  <2>2. ~(OnlyBlock[First] < n + 8)
    BY <2>1
  <2>3. QED
    BY <1>2, <2>2, SomeFits
<1>4. Roomy({First}, OnlyBlock, {}, 0, n) /\ Fits(OnlyBlock, {}, c)
  BY DEF Roomy, Fits
<1>5. ReadyAs(i, {}, c, n, {First}, OnlyBlock, 0)
  BY <1>2, <1>3, <1>4 DEF ReadyAs
<1>6. QED
  BY <1>1, <1>2, <1>5 DEF Ready, e

\* ... and one with a block that is large enough.
LEMMA FitReady ==
  ASSUME NEW da, NEW U, NEW c, Owned(da, U, c), NEW n, Sufficient(da, n) # {}
  PROVE  Ready(da, U, c, n)
<1>1. PICK B, z : OwnedAs(da, U, c, B, z)
  BY DEF Owned
<1>2. ReadyAs(da, U, c, n, B, z, 0)
  BY <1>1 DEF OwnedAs, ReadyAs, Roomy
<1>3. QED
  BY <1>2 DEF Ready

\* The size that alloc_block() takes for a request.
LEMMA PayloadIs ==
  ASSUME NEW size \in Nat, size + 24 <= PAGE_SIZE
  PROVE  /\ Payload(size) \in Evens /\ Payload(size) \in Int /\ Payload(size) >= 8
         /\ Payload(size) >= size /\ Payload(size) + 24 <= PAGE_SIZE
<1> DEFINE even == IF size % 2 = 1 THEN size + 1 ELSE size
           P == PAGE_SIZE
<1>1. 8 + 24 <= P /\ P \in Nat /\ P % 2 = 0
  BY PageType
<1>2. size + 24 <= P
  OBVIOUS
<1> HIDE DEF P
<1>3. even \in Int /\ even >= size /\ even % 2 = 0 /\ even <= size + 1
  OBVIOUS
<1> HIDE DEF even
<1>4. even + 24 <= P
  BY <1>1, <1>2, <1>3
<1>5. 8 + 24 <= P
  BY <1>1
<1>6. Payload(size) = IF even < 8 THEN 8 ELSE even
  BY DEF Payload, DYN_ALLOC_MIN_BLOCK_SIZE, even
<1>7. CASE even < 8
  <2>1. Payload(size) = 8
    BY <1>6, <1>7
  <2>2. QED
    BY <1>3, <1>5, <1>7, <2>1 DEF Evens, P
<1>8. CASE ~(even < 8)
  <2>1. Payload(size) = even
    BY <1>6, <1>8
  <2>2. QED
    BY <1>3, <1>4, <1>8, <2>1 DEF Evens, P
<1>9. QED
  BY <1>7, <1>8

\* A quotient of 1.
LEMMA QuotientOne ==
  ASSUME NEW p \in Nat, p > 0, NEW a \in Nat, p <= a, a < p + p
  PROVE  a \div p = 1
<1> DEFINE q == a \div p
           r == a % p
<1>1. q \in Int /\ r \in Int /\ a = p * q + r /\ 0 <= r /\ r < p
  OBVIOUS
<1> HIDE DEF q, r
<1>2. CASE q <= 0
  <2>1. p * q <= 0
    BY <1>1, <1>2
  <2>2. QED
    BY <1>1, <2>1
<1>3. CASE q >= 2
  <2>1. p * q >= p * 2
    BY <1>1, <1>3
  <2>2. QED
    BY <1>1, <2>1
<1>4. QED
  BY <1>1, <1>2, <1>3 DEF q

\* The heap always grows by one page.
LEMMA OnePage ==
  ASSUME NEW da, NEW n \in Int, n >= 8, n + 24 <= PAGE_SIZE
  PROVE  PagesFor(da, n) = 1
<1> DEFINE P == PAGE_SIZE
           m == IF da.up THEN n + 8 ELSE n + 16
           a == m + P - 1
<1>1. P \in Nat /\ P > 0
  BY PageType
<1>2. n + 24 <= P
  OBVIOUS
<1>3. a \in Nat /\ P <= a /\ a < P + P
  <2>1. m \in Int /\ m >= 16 /\ m <= n + 16
    OBVIOUS
  <2> HIDE DEF m, P
  <2>2. QED
    BY <1>1, <1>2, <2>1
<1>4. PagesFor(da, n) = ((a \div P) * P) \div P
  BY DEF PagesFor, RoundUp
<1> HIDE DEF a, P
<1>5. a \div P = 1
  BY <1>1, <1>3, QuotientOne
<1>6. (a \div P) * P = P
  BY <1>1, <1>5
<1>7. P \div P = 1
  BY <1>1, QuotientOne
<1>8. QED
  BY <1>4, <1>6, <1>7

\* The answer r of alloc_block() is a block that was free, large enough for size bytes.
FreshBlock(r, da, U, c, size) ==
  /\ r.va \in Int /\ r.va \notin U /\ r.va # NULL /\ r.va >= First /\ r.va < da.brk
  /\ Owned(r.da, U \union {r.va}, With(c, r.va, size)) /\ r.da.brk = da.brk

\* alloc_block() of a heap that is ready.
LEMMA ReadyGives ==
  ASSUME NEW da, NEW U, NEW c, NEW n \in Evens, n >= 8, Ready(da, U, c, n), NEW strat,
         NEW size \in Nat, size <= n
  PROVE  FreshBlock(alloc_block(da, n, strat), da, U, c, size)
<1> DEFINE r == alloc_block(da, n, strat)
           va == r.va
           V == U \union {va}
           c2 == With(c, va, size)
<1>1. PICK B, z, x : ReadyAs(da, U, c, n, B, z, x)
  BY DEF Ready
<1>2. Tiled(da, B, z, U, x) /\ Fits(z, U, c) /\ Sufficient(da, n) # {} /\ Roomy(B, z, U, x, n)
  BY <1>1 DEF ReadyAs
<1>3. Given(r.da, da, B, z, U, va, n)
  BY <1>2, AllocBlock
<1> HIDE DEF r
<1>4. PICK B2, z2 : GivenAs(r.da, da.brk, B, z, U, va, n, V, B2, z2)
  BY <1>3 DEF Given
<1>5. /\ r.da.brk = da.brk /\ Tiled(r.da, B2, z2, V, 0) /\ va \in V \ U /\ z2[va] >= n + 8
      /\ \A u \in U : z2[u] = z[u]
  BY <1>4 DEF GivenAs
<1>6. va \in Int /\ z2[va] \in Int /\ z2[va] >= 16 /\ First <= va /\ va + z2[va] <= da.brk /\ First > 0
      /\ First \in Int /\ da.brk \in Int
  <2>1. /\ V \subseteq B2 /\ r.da.brk \in Int /\ First \in Int /\ First > 0
        /\ \A b \in B2 : /\ b \in Int /\ z2[b] \in Int /\ z2[b] >= 16
                         /\ First <= b /\ b + z2[b] <= r.da.brk
    BY <1>5, TiledTypes
  <2> HIDE DEF V
  <2>2. QED
    BY <1>5, <2>1
<1> HIDE DEF va
<1>7. n \in Int
  BY DEF Evens
<1>8. Fits(z2, V, c2)
  <2>1. c2[va] = size /\ DOMAIN c2 = DOMAIN c \union {va}
    BY DEF With
  <2>2. U \subseteq DOMAIN c /\ \A u \in U : c[u] \in Int /\ Room(z[u], c[u])
    BY <1>2 DEF Fits
  <2>3. \A u \in U : c2[u] = c[u]
    BY <1>5, <2>2 DEF With
  <2> HIDE DEF c2
  <2>4. Room(z2[va], size)
    BY <1>5, <1>6, <1>7 DEF Room
  <2>5. QED
    BY <1>5, <2>1, <2>2, <2>3, <2>4 DEF Fits
<1>9. Owned(r.da, V, c2)
  BY <1>5, <1>8 DEF Owned, OwnedAs
<1>10. va # NULL /\ va >= First /\ va < da.brk
  BY <1>6 DEF NULL
<1> HIDE DEF c2, V
<1>11. FreshBlock(r, da, U, c, size)
  BY <1>5, <1>6, <1>9, <1>10 DEF FreshBlock, V, c2, va
<1>12. QED
  BY <1>11 DEF r

-----------------------------------------------------------------------------
(* The heap of the kernel *)

Kernel(k) == DOMAIN k = {"da", "mm", "list", "flag"}

\* The blocks of U are in use; before the first page there are none.
InUse(k, U, c) ==
  /\ Kernel(k) /\ k.da.brk \in Int /\ k.da.brk <= HARD_LIMIT
  /\ IF k.da.up THEN Owned(k.da, U, c) ELSE k.da = Blank /\ U = {}

\* n pages from va on get frames, without marks.
PlainRun(m, va, n) == MapRun(m, va, n, PlainPage)

\* The pages of the heap e are those of k, or those of k that grew by one.
Backed(e, k) ==
  \/ e.mm = k.mm /\ e.da.brk = k.da.brk
  \/ /\ k.da.brk + PAGE_SIZE <= HARD_LIMIT /\ ~(Len(k.mm.free) < 1)
     /\ e.mm = PlainRun(k.mm, k.da.brk, 1) /\ e.da.brk = k.da.brk + PAGE_SIZE

\* A call that returned a new block of size bytes, or NULL.
AllocatedAs(r, k, U, c, size, k2, va) ==
  /\ r = Returns(k2, va) /\ va \in Int /\ va \notin U /\ va # NULL /\ First <= va /\ va < HARD_LIMIT
  /\ k2.list = k.list /\ k2.flag = k.flag /\ InUse(k2, U \union {va}, With(c, va, size))
  /\ Backed(k2, k)

Allocated(r, k, U, c, size) ==
  r = Returns(k, NULL) \/ \E k2, va : AllocatedAs(r, k, U, c, size, k2, va)

\* Where the addresses of the heap end.
LEMMA LimitType ==
  HARD_LIMIT \in Int /\ HARD_LIMIT > First /\ PAGE_START \in Int /\ PAGE_START > HARD_LIMIT
<1> DEFINE P == PAGE_SIZE
           b == BlockPages
           x == b * P
<1>1. P \in Nat /\ P >= 32
  BY PageType
<1>2. b \in Nat /\ b >= 1
  BY KHeapAssumption
<1>3. x \in Nat /\ x >= P
  <2> HIDE DEF P, b
  <2>1. QED
    BY <1>1, <1>2
<1>4. KERNEL_HEAP_START \in Int /\ First = KERNEL_HEAP_START + 8
  BY StartType
<1> HIDE DEF x, P
<1>5. HARD_LIMIT = KERNEL_HEAP_START + x /\ PAGE_START = HARD_LIMIT + P
  BY DEF HARD_LIMIT, PAGE_START, x, P
<1>6. QED
  BY <1>1, <1>3, <1>4, <1>5

\* The allocator of a heap that grew by a page.
LEMMA GrownIs ==
  ASSUME NEW k, Kernel(k)
  PROVE  LET g == grown(sbrk(k, 1), 1)
         IN  /\ Kernel(g) /\ g.da = Extended(Broke(k.da), 1)
             /\ g.list = k.list /\ g.flag = k.flag /\ g.mm = PlainRun(k.mm, k.da.brk, 1)
<1> DEFINE s == sbrk(k, 1)
           g == grown(s, 1)
           m == PlainRun(k.mm, k.da.brk, 1)
           d == [k.da EXCEPT !.brk = @ + 1 * PAGE_SIZE]
<1>1. 1 * PAGE_SIZE = PAGE_SIZE
  BY PageType
<1>2. d = Broke(k.da)
  BY <1>1 DEF Broke
<1>3. s = [[k EXCEPT !.mm = m] EXCEPT !.da = d]
  BY DEF sbrk, Kernel, PlainRun
<1> HIDE DEF d, m
<1>4. DOMAIN s = DOMAIN k /\ s.da = d /\ s.list = k.list /\ s.flag = k.flag /\ s.mm = m
  BY <1>3 DEF Kernel
<1> HIDE DEF s
<1>5. g = [s EXCEPT !.da = Extended(s.da, 1)]
  BY <1>4 DEF grown, Kernel
<1> HIDE DEF g
<1>6. Kernel(g) /\ g.da = Extended(s.da, 1) /\ g.list = s.list /\ g.flag = s.flag /\ g.mm = s.mm
  BY <1>4, <1>5 DEF Kernel
<1>7. QED
  BY <1>2, <1>4, <1>6 DEF g, s, m

\* kmalloc() of a block gives a block that nobody had, or nothing.
LEMMA Allocation ==
  ASSUME NEW k, NEW U, NEW c, InUse(k, U, c), NEW size \in Nat, size + 24 <= PAGE_SIZE,
         NEW strat
  PROVE  Allocated(kmalloc_block(k, size, strat), k, U, c, size)
<1> DEFINE n == Payload(size)
           grow == ~k.da.up \/ Sufficient(k.da, n) = {}
           pages == PagesFor(k.da, n)
           k1 == IF grow THEN grown(sbrk(k, pages), pages) ELSE k
           r == alloc_block(k1.da, n, strat)
           k2 == [k1 EXCEPT !.da = r.da]
           fails == size = 0 \/ strat = "other" \/ (grow /\ sbrk_fails(k, pages))
<1>1. n \in Evens /\ n \in Int /\ n >= 8 /\ n >= size /\ n + 24 <= PAGE_SIZE
  BY PayloadIs
<1> HIDE DEF n
<1>2. pages = 1
  BY <1>1, OnePage
<1> HIDE DEF pages
<1>3. kmalloc_block(k, size, strat) = IF fails THEN Returns(k, NULL) ELSE Returns(k2, r.va)
  BY DEF kmalloc_block, from_block, allocated, n, pages
<1>4. Kernel(k) /\ k.da.brk \in Int /\ k.da.brk <= HARD_LIMIT
  BY DEF InUse
<1>5. ASSUME ~fails
      PROVE  /\ Ready(k1.da, U, c, n) /\ Kernel(k1) /\ k1.list = k.list /\ k1.flag = k.flag
             /\ k1.da.brk \in Int /\ k1.da.brk <= HARD_LIMIT /\ Backed(k1, k)
  <2>1. CASE grow
    <3>1. k1 = grown(sbrk(k, 1), 1)
      BY <1>2, <2>1
    <3>2. Kernel(k1) /\ k1.da = Extended(Broke(k.da), 1) /\ k1.list = k.list /\ k1.flag = k.flag
      BY <1>4, <3>1, GrownIs
    <3>3. PAGE_SIZE \in Int /\ HARD_LIMIT \in Int
      BY PageType, LimitType
    <3>4. k.da.brk + PAGE_SIZE <= HARD_LIMIT
      <4>1. ~(k.da.brk + 1 * PAGE_SIZE - 1 >= HARD_LIMIT)
        BY <1>2, <1>5, <2>1 DEF sbrk_fails
      <4>2. QED
        BY <1>4, <3>3, <4>1
    <3>5. Ready(k1.da, U, c, n) /\ k1.da.brk = k.da.brk + PAGE_SIZE
      <4>1. CASE k.da.up
        <5>1. Owned(k.da, U, c)
          BY <4>1 DEF InUse
        <5>2. Sufficient(k.da, n) = {}
          BY <2>1, <4>1
        <5>3. QED
          BY <1>1, <3>2, <5>1, <5>2, GrownReady
      <4>2. CASE ~k.da.up
        <5>1. k.da = Blank /\ U = {}
          BY <4>2 DEF InUse
        <5>2. k.da.brk = KERNEL_HEAP_START
          BY <5>1 DEF Blank
        <5>3. QED
          BY <1>1, <3>2, <5>1, <5>2, StartReady
      <4>3. QED
        BY <4>1, <4>2
    <3>6. k1.mm = PlainRun(k.mm, k.da.brk, 1) /\ ~(Len(k.mm.free) < 1)
      <4>1. ~(Len(k.mm.free) < 1)
        BY <1>2, <1>5, <2>1 DEF sbrk_fails
      <4>2. QED
        BY <1>4, <3>1, <4>1, GrownIs
    <3> HIDE DEF k1
    <3>7. QED
      BY <1>4, <3>2, <3>3, <3>4, <3>5, <3>6 DEF Backed
  <2>2. CASE ~grow
    <3>1. k1 = k
      BY <2>2
    <3>2. Owned(k.da, U, c)
      BY <2>2 DEF InUse
    <3>3. QED
      BY <1>4, <2>2, <3>1, <3>2, FitReady DEF Backed
  <2>3. QED
    BY <2>1, <2>2
<1> HIDE DEF k1
<1>6. ASSUME ~fails
      PROVE  AllocatedAs(Returns(k2, r.va), k, U, c, size, k2, r.va)
  <2>1. /\ r.va \in Int /\ r.va \notin U /\ r.va # NULL /\ r.va >= First /\ r.va < k1.da.brk
        /\ Owned(r.da, U \union {r.va}, With(c, r.va, size)) /\ r.da.brk = k1.da.brk
    <3>1. Ready(k1.da, U, c, n) /\ size \in Nat /\ size <= n
      BY <1>1, <1>5, <1>6
    <3> HIDE DEF fails
    <3>2. FreshBlock(alloc_block(k1.da, n, strat), k1.da, U, c, size)
      BY ONLY <1>1, <3>1, ReadyGives
    <3>3. QED
      BY <3>2 DEF FreshBlock
  <2> HIDE DEF r, fails
  <2>2. Kernel(k2) /\ k2.da = r.da /\ k2.list = k1.list /\ k2.flag = k1.flag /\ k2.mm = k1.mm
    BY <1>5, <1>6 DEF Kernel
  <2>3. r.da.up
    BY <2>1, TiledTypes DEF Owned, OwnedAs
  <2>4. r.va < HARD_LIMIT /\ First <= r.va
    BY <1>5, <1>6, <2>1, LimitType
  <2> HIDE DEF k2
  <2>5. InUse(k2, U \union {r.va}, With(c, r.va, size))
    BY <1>5, <1>6, <2>1, <2>2, <2>3 DEF InUse
  <2>6. Backed(k2, k)
    BY <1>5, <1>6, <2>1, <2>2 DEF Backed
  <2>7. QED
    BY <1>5, <1>6, <2>1, <2>2, <2>4, <2>5, <2>6 DEF AllocatedAs
<1> HIDE DEF fails, r, k2
<1>7. QED
  BY <1>3, <1>6 DEF Allocated

\* A block is freed.
LEMMA OwnedFree ==
  ASSUME NEW da, NEW U, NEW c, Owned(da, U, c), NEW va \in U
  PROVE  Owned(free_block(da, va), U \ {va}, c) /\ free_block(da, va).brk = da.brk
<1> DEFINE e == free_block(da, va)
           V == U \ {va}
<1>1. PICK B, z : OwnedAs(da, U, c, B, z)
  BY DEF Owned
<1>2. Tiled(da, B, z, U, 0) /\ Fits(z, U, c)
  BY <1>1 DEF OwnedAs
<1>3. Freed(e, da, B, z, U, 0, va)
  BY <1>2, FreeBlock
<1> HIDE DEF e
<1>4. PICK B2, z2, x2, f : FreedAs(e, da.brk, B, z, U, 0, z[va], V, B2, z2, x2, f)
  BY <1>3 DEF Freed
<1>5. e.brk = da.brk /\ Tiled(e, B2, z2, V, 0) /\ \A u \in V : z2[u] = z[u]
  BY <1>4 DEF FreedAs
<1>6. Fits(z2, V, c)
  BY <1>2, <1>5 DEF Fits
<1>7. Owned(e, V, c)
  BY <1>5, <1>6 DEF Owned, OwnedAs
<1>8. QED
  BY <1>5, <1>7 DEF e

\* A block is resized.
LEMMA OwnedResized ==
  ASSUME NEW da, NEW U, NEW c, NEW B, NEW z, OwnedAs(da, U, c, B, z), NEW va \in U, NEW n \in Int,
         NEW e, Resized(e, da, z, U, va, n), NEW size \in Nat, size <= n
  PROVE  Owned(e, U, With(c, va, size)) /\ e.brk = da.brk
<1> DEFINE c2 == With(c, va, size)
<1>1. Fits(z, U, c)
  BY DEF OwnedAs
<1>2. PICK B2, z2 : ResizedAs(e, da.brk, z, U, va, n, B2, z2)
  BY DEF Resized
<1>3. e.brk = da.brk /\ Tiled(e, B2, z2, U, 0) /\ z2[va] >= n + 8 /\ \A u \in U : u # va => z2[u] = z[u]
  BY <1>2 DEF ResizedAs
<1>4. z2[va] \in Int
  BY <1>3, TiledTypes
<1>5. Fits(z2, U, c2)
  <2>1. c2[va] = size /\ DOMAIN c2 = DOMAIN c \union {va}
    BY DEF With
  <2>2. U \subseteq DOMAIN c /\ \A u \in U : c[u] \in Int /\ Room(z[u], c[u])
    BY <1>1 DEF Fits
  <2>3. \A u \in U : u # va => c2[u] = c[u]
    BY <2>2 DEF With
  <2> HIDE DEF c2
  <2>4. Room(z2[va], size)
    BY <1>3, <1>4 DEF Room
  <2>5. QED
    BY <1>3, <2>1, <2>2, <2>3, <2>4 DEF Fits
<1>6. QED
  BY <1>3, <1>5 DEF Owned, OwnedAs

\* What is in use stays so under another account of the sizes.
LEMMA SameUse ==
  ASSUME NEW k, NEW U, NEW c, InUse(k, U, c), NEW k2, Kernel(k2), k2.da = k.da, NEW d,
         U \subseteq DOMAIN d, \A u \in U : d[u] = c[u]
  PROVE  InUse(k2, U, d)
<1>1. k2.da.brk \in Int /\ k2.da.brk <= HARD_LIMIT
  BY DEF InUse
<1>2. ASSUME k.da.up
      PROVE  Owned(k2.da, U, d)
  <2>1. Owned(k.da, U, c)
    BY <1>2 DEF InUse
  <2>2. PICK B, z : OwnedAs(k.da, U, c, B, z)
    BY <2>1 DEF Owned
  <2>3. Tiled(k.da, B, z, U, 0) /\ Fits(z, U, d)
    BY <2>2 DEF OwnedAs, Fits
  <2>4. QED
    BY <2>3 DEF Owned, OwnedAs
<1>3. QED
  BY <1>1, <1>2 DEF InUse

-----------------------------------------------------------------------------
(* The list of free pages *)

Element(X) == [node : Int, va : {v \in Int : v >= HARD_LIMIT}, n : X]
IsList(l) == \E X : l \in Seq(Element(X))
Listed(l) == IsList(l) /\ \A i, j \in DOMAIN l : l[i].node = l[j].node => i = j
NodesOf(l) == {l[i].node : i \in DOMAIN l}

\* The list l2 has the elements of N for nodes.
ListFor(l2, N) == Listed(l2) /\ NodesOf(l2) = N

\* An element keeps its node.
LEMMA ListSet ==
  ASSUME NEW l, Listed(l), NEW i \in DOMAIN l, NEW va \in Int, va >= HARD_LIMIT, NEW n, NEW e,
         e = [node |-> l[i].node, va |-> va, n |-> n]
  PROVE  ListFor([l EXCEPT ![i] = e], NodesOf(l))
<1> DEFINE r == [l EXCEPT ![i] = e]
<1>1. PICK X : l \in Seq(Element(X))
  BY DEF Listed, IsList
<1> DEFINE Y == X \union {n}
<1>2. l[i] \in Element(X)
  BY <1>1
<1>3. e \in Element(Y) /\ e.node = l[i].node
  BY <1>2 DEF Element
<1>4. \A x \in Element(X) : x \in Element(Y)
  BY DEF Element
<1> HIDE DEF Y
<1>5. r \in Seq(Element(Y)) /\ DOMAIN r = DOMAIN l
  BY <1>1, <1>3, <1>4
<1>6. \A j \in DOMAIN l : r[j].node = l[j].node
  BY <1>1, <1>3
<1> HIDE DEF r
<1>7. Listed(r)
  BY <1>5, <1>6 DEF Listed, IsList
<1>8. NodesOf(r) = NodesOf(l)
  BY <1>5, <1>6 DEF NodesOf
<1>9. QED
  BY <1>7, <1>8 DEF ListFor, r

\* An element goes.
LEMMA ListRemove ==
  ASSUME NEW l, Listed(l), NEW i \in DOMAIN l
  PROVE  ListFor(RemoveAt(l, i), NodesOf(l) \ {l[i].node})
<1> DEFINE r == RemoveAt(l, i)
<1>1. PICK X : l \in Seq(Element(X))
  BY DEF Listed, IsList
<1> DEFINE S == Element(X)
<1>2. Len(l) \in Nat /\ DOMAIN l = 1 .. Len(l) /\ l \in Seq(S)
  BY <1>1
<1> HIDE DEF S
<1>3. /\ r \in Seq(S) /\ Len(r) = Len(l) - 1
      /\ \A j \in 1 .. Len(l) - 1 : r[j] = l[IF j < i THEN j ELSE j + 1]
  BY <1>2, RemoveElement
<1> HIDE DEF r
<1>4. DOMAIN r = 1 .. Len(l) - 1
  BY <1>2, <1>3
<1>5. ASSUME NEW j \in DOMAIN r
      PROVE  \E h \in DOMAIN l : h # i /\ r[j] = l[h] /\ h = (IF j < i THEN j ELSE j + 1)
  BY <1>2, <1>3, <1>4
<1>6. ASSUME NEW h \in DOMAIN l, h # i
      PROVE  \E j \in DOMAIN r : r[j] = l[h]
  <2>1. CASE h < i
    <3>1. h \in DOMAIN r /\ r[h] = l[h]
      BY <1>2, <1>3, <1>4, <2>1
    <3>2. QED
      BY <3>1
  <2>2. CASE h > i
    <3>1. h - 1 \in DOMAIN r /\ ~(h - 1 < i) /\ (h - 1) + 1 = h
      BY <1>2, <1>4, <2>2
    <3>2. r[h - 1] = l[h]
      BY <1>3, <1>4, <3>1
    <3>3. QED
      BY <3>1, <3>2
  <2>3. QED
    BY <1>2, <1>6, <2>1, <2>2
<1>7. \A j, h \in DOMAIN l : l[j].node = l[h].node => j = h
  BY DEF Listed
<1>8. Listed(r)
  <2>1. ASSUME NEW a \in DOMAIN r, NEW b \in DOMAIN r, r[a].node = r[b].node
        PROVE  a = b
    <3>1. PICK f \in DOMAIN l : r[a] = l[f] /\ f = (IF a < i THEN a ELSE a + 1)
      BY <1>5
    <3>2. PICK g \in DOMAIN l : r[b] = l[g] /\ g = (IF b < i THEN b ELSE b + 1)
      BY <1>5
    <3>3. f = g
      BY <1>7, <2>1, <3>1, <3>2
    <3>4. QED
      BY <1>2, <1>4, <3>1, <3>2, <3>3
  <2>2. QED
    BY <1>3, <2>1 DEF Listed, IsList, S
<1>9. NodesOf(r) = NodesOf(l) \ {l[i].node}
  <2>1. ASSUME NEW x \in NodesOf(r)
        PROVE  x \in NodesOf(l) \ {l[i].node}
    <3>1. PICK j \in DOMAIN r : x = r[j].node
      BY DEF NodesOf
    <3>2. PICK h \in DOMAIN l : h # i /\ r[j] = l[h]
      BY <1>5
    <3>3. QED
      BY <1>7, <3>1, <3>2 DEF NodesOf
  <2>2. ASSUME NEW x \in NodesOf(l) \ {l[i].node}
        PROVE  x \in NodesOf(r)
    <3>1. PICK h \in DOMAIN l : x = l[h].node
      BY DEF NodesOf
    <3>2. h # i
      BY <3>1
    <3>3. PICK j \in DOMAIN r : r[j] = l[h]
      BY <1>6, <3>2
    <3>4. QED
      BY <3>1, <3>3 DEF NodesOf
  <2>3. QED
    BY <2>1, <2>2
<1>10. QED
  BY <1>8, <1>9 DEF ListFor, r

\* An element comes.
LEMMA ListInsert ==
  ASSUME NEW l, Listed(l), NEW i \in 1 .. Len(l) + 1, NEW node \in Int, node \notin NodesOf(l),
         NEW va \in Int, va >= HARD_LIMIT, NEW n, NEW e, e = [node |-> node, va |-> va, n |-> n]
  PROVE  ListFor(InsertAt(l, i, e), NodesOf(l) \union {node})
<1> DEFINE r == InsertAt(l, i, e)
<1>1. PICK X : l \in Seq(Element(X))
  BY DEF Listed, IsList
<1> DEFINE S == Element(X \union {n})
<1>2. \A x \in Element(X) : x \in S
  BY DEF Element
<1>3. e \in S /\ e.node = node
  BY DEF Element
<1> HIDE DEF S
<1>4. Len(l) \in Nat /\ DOMAIN l = 1 .. Len(l) /\ l \in Seq(S) /\ i \in Int /\ 1 <= i /\ i <= Len(l) + 1
  BY <1>1, <1>2
<1>5. /\ r \in Seq(S) /\ DOMAIN r = 1 .. Len(l) + 1
      /\ \A j \in 1 .. Len(l) + 1 : r[j] = IF j < i THEN l[j] ELSE IF j = i THEN e ELSE l[j - 1]
  <2>1. Inserted(r, S, l, i, e)
    BY <1>3, <1>4, InsertElement
  <2> HIDE DEF r
  <2>2. QED
    BY <2>1 DEF Inserted
<1> HIDE DEF r
<1>6. r[i] = e /\ i \in DOMAIN r
  BY <1>4, <1>5
<1>7. ASSUME NEW j \in DOMAIN r, j # i
      PROVE  \E h \in DOMAIN l : r[j] = l[h] /\ h = (IF j < i THEN j ELSE j - 1)
  <2>1. j \in Int /\ 1 <= j /\ j <= Len(l) + 1
    BY <1>4, <1>5
  <2>2. CASE j < i
    BY <1>4, <1>5, <2>1, <2>2
  <2>3. CASE j > i
    <3>1. j - 1 \in DOMAIN l /\ ~(j < i)
      BY <1>4, <2>1, <2>3
    <3>2. r[j] = l[j - 1]
      BY <1>5, <1>7, <3>1
    <3>3. QED
      BY <3>1, <3>2
  <2>4. QED
    BY <1>4, <1>7, <2>1, <2>2, <2>3
<1>8. ASSUME NEW h \in DOMAIN l
      PROVE  \E j \in DOMAIN r : r[j] = l[h]
  <2>1. CASE h < i
    <3>1. h \in DOMAIN r /\ r[h] = l[h]
      BY <1>4, <1>5, <2>1
    <3>2. QED
      BY <3>1
  <2>2. CASE h >= i
    <3>1. h + 1 \in DOMAIN r /\ ~(h + 1 < i) /\ h + 1 # i /\ (h + 1) - 1 = h
      BY <1>4, <1>5, <2>2
    <3>2. r[h + 1] = l[h]
      BY <1>5, <3>1
    <3>3. QED
      BY <3>1, <3>2
  <2>3. QED
    BY <1>4, <2>1, <2>2
<1>9. \A j, h \in DOMAIN l : l[j].node = l[h].node => j = h
  BY DEF Listed
<1>10. \A h \in DOMAIN l : l[h].node # node
  BY DEF NodesOf
<1>11. Listed(r)
  <2>1. ASSUME NEW a \in DOMAIN r, NEW b \in DOMAIN r, r[a].node = r[b].node
        PROVE  a = b
    <3>1. CASE a # i /\ b # i
      <4>1. PICK f \in DOMAIN l : r[a] = l[f] /\ f = (IF a < i THEN a ELSE a - 1)
        BY <1>7, <3>1
      <4>2. PICK g \in DOMAIN l : r[b] = l[g] /\ g = (IF b < i THEN b ELSE b - 1)
        BY <1>7, <3>1
      <4>3. f = g
        BY <1>9, <2>1, <4>1, <4>2
      <4>4. a \in Int /\ b \in Int
        BY <1>5
      <4>5. QED
        BY <1>4, <3>1, <4>1, <4>2, <4>3, <4>4
    <3>2. CASE a = i \/ b = i
      BY <1>3, <1>6, <1>7, <1>10, <2>1, <3>2
    <3>3. QED
      BY <3>1, <3>2
  <2>2. QED
    BY <1>5, <2>1 DEF Listed, IsList, S
<1>12. NodesOf(r) = NodesOf(l) \union {node}
  <2>1. ASSUME NEW x \in NodesOf(r)
        PROVE  x \in NodesOf(l) \union {node}
    BY <1>3, <1>6, <1>7 DEF NodesOf
  <2>2. ASSUME NEW x \in NodesOf(l) \union {node}
        PROVE  x \in NodesOf(r)
    BY <1>3, <1>6, <1>8 DEF NodesOf
  <2>3. QED
    BY <2>1, <2>2
<1>13. QED
  BY <1>11, <1>12 DEF ListFor, r

-----------------------------------------------------------------------------
(* The blocks H that callers hold, of the sizes w, and the nodes of the list *)

Needs(H, N, w) == [u \in H \union N |-> IF u \in H THEN w[u] ELSE NodeSize]

Sound(k, H, w) ==
  /\ InUse(k, H \union NodesOf(k.list), Needs(H, NodesOf(k.list), w)) /\ H \subseteq DOMAIN w
  /\ H \intersect NodesOf(k.list) = {} /\ Listed(k.list) /\ (~k.flag => k.list = <<>>)

\* A change of the list that keeps its nodes, and of the page tables.
LEMMA SoundRelist ==
  ASSUME NEW k, NEW H, NEW w, Sound(k, H, w), NEW k2, Kernel(k2), k2.da = k.da,
         ListFor(k2.list, NodesOf(k.list)), ~k2.flag => k2.list = <<>>
  PROVE  Sound(k2, H, w)
<1> DEFINE N == NodesOf(k.list)
           U == H \union N
           c == Needs(H, N, w)
<1>1. InUse(k, U, c) /\ H \intersect N = {} /\ H \subseteq DOMAIN w
  BY DEF Sound
<1>2. DOMAIN c = U
  BY DEF Needs
<1> HIDE DEF c, U, N
<1>3. InUse(k2, U, c)
  BY <1>1, <1>2, SameUse
<1>4. NodesOf(k2.list) = N /\ Listed(k2.list)
  BY DEF ListFor, N
<1>5. QED
  BY <1>1, <1>3, <1>4 DEF Sound, U, c

\* A block that is used is in a heap that is up.
LEMMA UsedUp ==
  ASSUME NEW k, NEW U, NEW c, InUse(k, U, c), NEW va \in U
  PROVE  k.da.up /\ Owned(k.da, U, c)
BY DEF InUse

\* A caller gives a block back.
LEMMA SoundFree ==
  ASSUME NEW k, NEW H, NEW w, Sound(k, H, w), NEW va \in H, NEW k2, Kernel(k2),
         k2.da = free_block(k.da, va), k2.list = k.list, k2.flag = k.flag
  PROVE  Sound(k2, H \ {va}, w)
<1> DEFINE N == NodesOf(k.list)
           U == H \union N
           c == Needs(H, N, w)
           V == (H \ {va}) \union N
           d == Needs(H \ {va}, N, w)
<1>1. /\ InUse(k, U, c) /\ H \intersect N = {} /\ Listed(k.list) /\ (~k.flag => k.list = <<>>)
      /\ H \subseteq DOMAIN w
  BY DEF Sound
<1>2. Owned(k.da, U, c)
  BY <1>1, UsedUp
<1>3. U \ {va} = V
  BY <1>1
<1>4. DOMAIN d = V /\ \A u \in V : d[u] = c[u]
  BY <1>1 DEF Needs
<1> HIDE DEF c, d
<1>5. Owned(k2.da, V, c) /\ k2.da.brk = k.da.brk
  <2>1. va \in U
    OBVIOUS
  <2> HIDE DEF U, V
  <2>2. QED
    BY <1>2, <1>3, <2>1, OwnedFree
<1>6. k2.da.up
  <2> HIDE DEF V
  <2>1. QED
    BY <1>5, TiledTypes DEF Owned, OwnedAs
<1> HIDE DEF U, V
<1>7. InUse(k2, V, c)
  BY <1>1, <1>5, <1>6 DEF InUse
<1>8. InUse(k2, V, d)
  BY <1>4, <1>7, SameUse
<1>9. QED
  BY <1>1, <1>8 DEF Sound, V, d

\* A node is given back.
LEMMA SoundDrop ==
  ASSUME NEW k, NEW H, NEW w, Sound(k, H, w), NEW i \in DOMAIN k.list, NEW k2, Kernel(k2),
         k2.da = free_block(k.da, k.list[i].node), ListFor(k2.list, NodesOf(k.list) \ {k.list[i].node}),
         k2.flag = k.flag
  PROVE  Sound(k2, H, w)
<1> DEFINE N == NodesOf(k.list)
           va == k.list[i].node
           U == H \union N
           c == Needs(H, N, w)
           M == N \ {va}
           V == H \union M
           d == Needs(H, M, w)
<1>1. /\ InUse(k, U, c) /\ H \intersect N = {} /\ Listed(k.list) /\ (~k.flag => k.list = <<>>)
      /\ H \subseteq DOMAIN w
  BY DEF Sound
<1>2. va \in N
  BY DEF NodesOf
<1>3. k.flag
  <2>1. ASSUME k.list = <<>>
        PROVE  FALSE
    BY <2>1
  <2>2. QED
    BY <1>1, <2>1
<1> HIDE DEF va, N
<1>4. U \ {va} = V
  BY <1>1, <1>2
<1>5. DOMAIN d = V /\ \A u \in V : d[u] = c[u]
  BY <1>1 DEF Needs
<1> HIDE DEF c, d
<1>6. Owned(k2.da, V, c) /\ k2.da.brk = k.da.brk
  <2>1. va \in U /\ k2.da = free_block(k.da, va)
    BY <1>2 DEF va
  <2> HIDE DEF U, V
  <2>2. Owned(k.da, U, c)
    BY <1>1, <2>1, UsedUp
  <2>3. QED
    BY <1>4, <2>1, <2>2, OwnedFree
<1>7. k2.da.up
  <2> HIDE DEF V
  <2>1. QED
    BY <1>6, TiledTypes DEF Owned, OwnedAs
<1> HIDE DEF U, V
<1>8. InUse(k2, V, c)
  BY <1>1, <1>6, <1>7 DEF InUse
<1>9. InUse(k2, V, d)
  BY <1>5, <1>8, SameUse
<1>10. NodesOf(k2.list) = M /\ Listed(k2.list)
  BY DEF ListFor, M, N, va
<1>11. QED
  BY <1>1, <1>3, <1>9, <1>10 DEF Sound, V, d, M

\* What there is to know about a new block.
NewBlock(r, k, H, w, size, k2, va) ==
  AllocatedAs(r, k, H \union NodesOf(k.list), Needs(H, NodesOf(k.list), w), size, k2, va)

\* It goes to a caller ...
LEMMA SoundAlloc ==
  ASSUME NEW r, NEW k, NEW H, NEW w, Sound(k, H, w), NEW size, NEW k2, NEW va,
         NewBlock(r, k, H, w, size, k2, va)
  PROVE  Sound(k2, H \union {va}, With(w, va, size))
<1> DEFINE N == NodesOf(k.list)
           U == H \union N
           c == Needs(H, N, w)
           V == U \union {va}
           c2 == With(c, va, size)
           G == H \union {va}
           w2 == With(w, va, size)
           d == Needs(G, N, w2)
<1>1. H \intersect N = {} /\ Listed(k.list) /\ (~k.flag => k.list = <<>>) /\ H \subseteq DOMAIN w
  BY DEF Sound
<1>2. va \notin U /\ k2.list = k.list /\ k2.flag = k.flag /\ InUse(k2, V, c2)
  BY DEF NewBlock, AllocatedAs
<1> HIDE DEF N
<1>3. V = G \union N /\ G \intersect N = {}
  BY <1>1, <1>2
<1>4. DOMAIN d = V /\ \A u \in V : d[u] = c2[u]
  <2>1. DOMAIN d = G \union N
    BY DEF Needs
  <2>2. d[va] = size /\ c2[va] = size
    BY <1>2 DEF Needs, With
  <2>3. \A u \in U : c2[u] = c[u]
    BY <1>2 DEF Needs, With
  <2>4. \A u \in H : d[u] = w2[u] /\ w2[u] = w[u] /\ c[u] = w[u]
    <3>1. \A u \in H : d[u] = w2[u]
      BY DEF Needs
    <3>2. \A u \in H : c[u] = w[u]
      BY DEF Needs
    <3>3. \A u \in H : w2[u] = w[u]
      BY <1>1, <1>2 DEF With
    <3>4. QED
      BY <3>1, <3>2, <3>3
  <2>5. \A u \in N : d[u] = NodeSize /\ c[u] = NodeSize
    BY <1>1, <1>2 DEF Needs
  <2>6. QED
    BY <1>2, <1>3, <2>1, <2>2, <2>3, <2>4, <2>5
<1> HIDE DEF c2, d, V
<1>5. Kernel(k2)
  BY <1>2 DEF InUse
<1>6. InUse(k2, V, d)
  BY <1>2, <1>4, <1>5, SameUse
<1>7. NodesOf(k2.list) = N
  BY <1>2 DEF N
<1>8. G \subseteq DOMAIN w2
  BY <1>1 DEF With
<1> HIDE DEF G, w2
<1>9. Sound(k2, G, w2)
  BY <1>1, <1>2, <1>3, <1>6, <1>7, <1>8 DEF Sound, d
<1>10. QED
  BY <1>9 DEF G, w2

\* ... or becomes a node of the list.
LEMMA SoundNode ==
  ASSUME NEW r, NEW k, NEW H, NEW w, Sound(k, H, w), NEW k2, NEW va,
         NewBlock(r, k, H, w, NodeSize, k2, va), NEW k3, Kernel(k3), k3.da = k2.da,
         ListFor(k3.list, NodesOf(k.list) \union {va}), k3.flag
  PROVE  Sound(k3, H, w)
<1> DEFINE N == NodesOf(k.list)
           U == H \union N
           c == Needs(H, N, w)
           V == U \union {va}
           c2 == With(c, va, NodeSize)
           M == N \union {va}
           d == Needs(H, M, w)
<1>1. H \intersect N = {} /\ H \subseteq DOMAIN w
  BY DEF Sound
<1>2. va \notin U /\ InUse(k2, V, c2)
  BY DEF NewBlock, AllocatedAs
<1> HIDE DEF N
<1>3. V = H \union M /\ H \intersect M = {}
  BY <1>1, <1>2
<1>4. DOMAIN d = V /\ \A u \in V : d[u] = c2[u]
  <2>1. d[va] = NodeSize /\ c2[va] = NodeSize
    BY <1>2 DEF Needs, With
  <2>2. \A u \in U : c2[u] = c[u] /\ d[u] = c[u]
    BY <1>2 DEF Needs, With
  <2>3. DOMAIN d = H \union M
    BY DEF Needs
  <2>4. QED
    BY <1>2, <1>3, <2>1, <2>2, <2>3
<1> HIDE DEF c2, d, V
<1>5. InUse(k3, V, d)
  BY <1>2, <1>4, SameUse
<1>6. NodesOf(k3.list) = M /\ Listed(k3.list)
  BY DEF ListFor, N
<1>7. QED
  BY <1>3, <1>5, <1>6 DEF Sound, d

-----------------------------------------------------------------------------
(* kmalloc() *)

\* What a call leaves behind: nothing new, a new block of size bytes, or pages.
NoBlock(r, k, H, w) == (r = Returns(k, NULL) \/ r = Panics(k)) /\ Sound(k, H, w)

GotBlock(r, k, va, H, w, size) ==
  /\ r = Returns(k, va) /\ va \in Int /\ va # NULL /\ va \notin H /\ va < HARD_LIMIT
  /\ Sound(k, H \union {va}, With(w, va, size))

GotPages(r, k, va, H, w) ==
  r = Returns(k, va) /\ va \in Int /\ va >= HARD_LIMIT /\ k.flag /\ Sound(k, H, w)

GivesAs(r, k, H, w, size, k2, va) ==
  /\ k.flag => k2.flag
  /\ NoBlock(r, k2, H, w) \/ GotBlock(r, k2, va, H, w, size) \/ GotPages(r, k2, va, H, w)

Gives(r, k, H, w, size) == \E k2, va : GivesAs(r, k, H, w, size, k2, va)

\* kmalloc() of a block returns NULL and changes nothing, or it gives a new block.
LEMMA NewBlocks ==
  ASSUME NEW k, NEW H, NEW w, Sound(k, H, w), NEW size \in Nat, size + 24 <= PAGE_SIZE,
         NEW strat
  PROVE  \/ kmalloc_block(k, size, strat) = Returns(k, NULL)
         \/ \E k2, va : NewBlock(kmalloc_block(k, size, strat), k, H, w, size, k2, va)
<1>1. InUse(k, H \union NodesOf(k.list), Needs(H, NodesOf(k.list), w))
  BY DEF Sound
<1>2. Allocated(kmalloc_block(k, size, strat), k, H \union NodesOf(k.list),
                Needs(H, NodesOf(k.list), w), size)
  BY <1>1, Allocation
<1>3. QED
  BY <1>2 DEF Allocated, NewBlock

\* The parts of a new block.
LEMMA NewBlockIs ==
  ASSUME NEW r, NEW k, NEW H, NEW w, NEW size, NEW k2, NEW va, NewBlock(r, k, H, w, size, k2, va)
  PROVE  /\ r = Returns(k2, va) /\ va \in Int /\ va \notin H /\ va \notin NodesOf(k.list) /\ va # NULL
         /\ va < HARD_LIMIT /\ k2.list = k.list /\ k2.flag = k.flag /\ Kernel(k2) /\ Backed(k2, k)
BY DEF NewBlock, AllocatedAs, InUse

\* What the fields of an outcome are.
LEMMA OutcomeIs ==
  ASSUME NEW k, NEW va
  PROVE  /\ Returns(k, va).kh = k /\ Returns(k, va).va = va /\ ~Returns(k, va).panic
         /\ Panics(k).kh = k /\ Panics(k).va = NULL /\ Panics(k).panic
BY DEF Returns, Panics

\* kmalloc() of a block.
LEMMA GiveBlock ==
  ASSUME NEW k, NEW H, NEW w, Sound(k, H, w), NEW size \in Nat, size + 24 <= PAGE_SIZE,
         NEW strat
  PROVE  Gives(kmalloc_block(k, size, strat), k, H, w, size)
<1> DEFINE r == kmalloc_block(k, size, strat)
<1>1. r = Returns(k, NULL) \/ \E k2, va : NewBlock(r, k, H, w, size, k2, va)
  BY NewBlocks
<1> HIDE DEF r
<1>2. CASE r = Returns(k, NULL)
  <2>1. NoBlock(r, k, H, w)
    BY <1>2 DEF NoBlock
  <2>2. GivesAs(r, k, H, w, size, k, NULL)
    BY <2>1 DEF GivesAs
  <2>3. QED
    BY <2>2 DEF Gives, r
<1>3. CASE \E k2, va : NewBlock(r, k, H, w, size, k2, va)
  <2>1. PICK k2, va : NewBlock(r, k, H, w, size, k2, va)
    BY <1>3
  <2>2. Sound(k2, H \union {va}, With(w, va, size))
    BY <2>1, SoundAlloc
  <2>3. GotBlock(r, k2, va, H, w, size) /\ (k.flag => k2.flag)
    BY <2>1, <2>2, NewBlockIs DEF GotBlock
  <2>4. GivesAs(r, k, H, w, size, k2, va)
    BY <2>3 DEF GivesAs
  <2>5. QED
    BY <2>4 DEF Gives, r
<1>4. QED
  BY <1>1, <1>2, <1>3

\* kmalloc() of a node for the list.
LEMMA NodeBlock ==
  ASSUME NEW k, NEW H, NEW w, Sound(k, H, w), NEW strat
  PROVE  \/ kmalloc_block(k, NodeSize, strat) = Returns(k, NULL)
         \/ \E k2, va : NewBlock(kmalloc_block(k, NodeSize, strat), k, H, w, NodeSize, k2, va)
<1> DEFINE n == NodeSize
<1>1. n \in Nat /\ n + 24 <= PAGE_SIZE
  BY NodeAssumption, PageType DEF NodeSize
<1> HIDE DEF n
<1>2. \/ kmalloc_block(k, n, strat) = Returns(k, NULL)
      \/ \E k2, va : NewBlock(kmalloc_block(k, n, strat), k, H, w, n, k2, va)
  BY <1>1, NewBlocks
<1>3. QED
  BY <1>2 DEF n

\* The first use of the page allocator.
PageReady(r, k, H, w) ==
  \E k2 : (r = Panics(k2) \/ (r = Returns(k2, NULL) /\ k2.flag)) /\ (k.flag => k2.flag) /\ Sound(k2, H, w)

\* It makes the first element of the list, or panics.
LEMMA FirstPage ==
  ASSUME NEW k, NEW H, NEW w, Sound(k, H, w), ~k.flag, NEW strat
  PROVE  PageReady(first_page(kmalloc_block(k, NodeSize, strat)), k, H, w)
<1> DEFINE r == kmalloc_block(k, NodeSize, strat)
<1>1. r = Returns(k, NULL) \/ \E k2, va : NewBlock(r, k, H, w, NodeSize, k2, va)
  BY NodeBlock
<1> HIDE DEF r
<1>2. CASE r = Returns(k, NULL)
  <2>1. first_page(r) = Panics(k)
    BY <1>2, OutcomeIs DEF first_page
  <2>2. QED
    BY <2>1 DEF PageReady, r
<1>3. CASE \E k2, va : NewBlock(r, k, H, w, NodeSize, k2, va)
  <2>1. PICK k2, va : NewBlock(r, k, H, w, NodeSize, k2, va)
    BY <1>3
  <2>2. /\ r = Returns(k2, va) /\ va \in Int /\ va \notin NodesOf(k.list) /\ va # NULL
        /\ k2.list = k.list /\ k2.flag = k.flag /\ Kernel(k2)
    BY <2>1, NewBlockIs
  <2> DEFINE e == [node |-> va, va |-> PAGE_START, n |-> PagePages]
             k3 == [k2 EXCEPT !.list = <<e>>, !.flag = TRUE]
  <2>3. first_page(r) = Returns(k3, NULL)
    <3>1. r.kh = k2 /\ r.va = va
      BY <2>2, OutcomeIs
    <3>2. first_page(r) = IF r.va = NULL THEN Panics(r.kh)
            ELSE Returns([r.kh EXCEPT !.list = <<[node |-> r.va, va |-> PAGE_START, n |-> PagePages]>>,
                                      !.flag = TRUE], NULL)
      BY DEF first_page
    <3>3. QED
      BY <2>2, <3>1, <3>2, Zenon
  <2>4. k.list = <<>>
    BY DEF Sound
  <2>5. ListFor(<<e>>, NodesOf(k.list) \union {va})
    <3>1. NodesOf(k.list) = {}
      BY <2>4 DEF NodesOf
    <3>2. PAGE_START \in Int /\ PAGE_START >= HARD_LIMIT
      BY LimitType
    <3>3. e \in Element({PagePages}) /\ e.node = va
      BY <2>2, <3>2 DEF Element
    <3> HIDE DEF e
    <3>4. <<e>> \in Seq(Element({PagePages})) /\ DOMAIN <<e>> = {1} /\ <<e>>[1] = e
      BY <3>3
    <3>5. Listed(<<e>>)
      BY <3>4 DEF Listed, IsList
    <3>6. NodesOf(<<e>>) = {va}
      BY <3>3, <3>4 DEF NodesOf
    <3>7. QED
      BY <3>1, <3>5, <3>6 DEF ListFor
  <2> HIDE DEF e
  <2>6. Kernel(k3) /\ k3.da = k2.da /\ k3.list = <<e>> /\ k3.flag
    BY <2>2 DEF Kernel
  <2> HIDE DEF k3
  <2>7. ListFor(k3.list, NodesOf(k.list) \union {va})
    BY <2>5, <2>6
  <2>8. Sound(k3, H, w)
    BY <2>1, <2>6, <2>7, SoundNode
  <2>9. QED
    BY <2>3, <2>6, <2>8 DEF PageReady, r
<1>4. QED
  BY <1>1, <1>2, <1>3

\* The smallest of some naturals.
LEMMA SmallestIs ==
  ASSUME NEW T \in SUBSET Nat, T # {}
  PROVE  Smallest(T) \in T /\ \A y \in T : Smallest(T) <= y
<1>1. \E x \in T : \A y \in T : x <= y
  BY LeastNat
<1>2. QED
  BY <1>1 DEF Smallest

\* What an element of the list is.
LEMMA ElementIs ==
  ASSUME NEW l, Listed(l), NEW i \in DOMAIN l
  PROVE  /\ i \in Nat /\ l # <<>> /\ Len(l) \in Nat /\ DOMAIN l = 1 .. Len(l)
         /\ l[i].node \in Int /\ l[i].va \in Int /\ l[i].va >= HARD_LIMIT
         /\ l[i] = [node |-> l[i].node, va |-> l[i].va, n |-> l[i].n]
<1>1. PICK X : l \in Seq(Element(X))
  BY DEF Listed, IsList
<1> DEFINE S == Element(X)
<1>2. l \in Seq(S)
  BY <1>1
<1> HIDE DEF S
<1>3. i \in Nat /\ l # <<>> /\ l[i] \in S /\ Len(l) \in Nat /\ DOMAIN l = 1 .. Len(l)
  BY <1>2
<1>4. QED
  BY <1>3 DEF S, Element

\* An element of the list changes.
SetAt(k, i, va, n) == [k EXCEPT !.list[i].va = va, !.list[i].n = n]

(* Setting the two fields of an element of the list is replacing the element: it keeps
   its node, and all other elements. *)
LEMMA ListAt ==
  ASSUME NEW k, Kernel(k), Listed(k.list), NEW i \in DOMAIN k.list, NEW va, NEW n
  PROVE  SetAt(k, i, va, n)
           = [k EXCEPT !.list = [k.list EXCEPT ![i] = [node |-> k.list[i].node, va |-> va, n |-> n]]]
<1> DEFINE l == k.list
           e == [node |-> l[i].node, va |-> va, n |-> n]
           a == [l[i] EXCEPT !.va = va]
           l1 == [l EXCEPT ![i] = a]
           k1 == [k EXCEPT !.list = l1]
           l2 == [l1 EXCEPT ![i].n = n]
<1>1. l[i] = [node |-> l[i].node, va |-> l[i].va, n |-> l[i].n]
  BY ElementIs
<1>2. a = [node |-> l[i].node, va |-> va, n |-> l[i].n]
  BY <1>1
<1>3. [a EXCEPT !.n = n] = e
  <2> HIDE DEF a
  <2>1. QED
    BY <1>2
<1>4. [k EXCEPT !.list[i].va = va, !.list[i].n = n] = [k1 EXCEPT !.list[i].n = n]
  OBVIOUS
<1>5. k1.list = l1
  BY DEF Kernel
<1>6. [k1 EXCEPT !.list[i].n = n] = [k1 EXCEPT !.list = l2]
  BY <1>5
<1>7. l1[i] = a
  OBVIOUS
<1>8. l2 = [l EXCEPT ![i] = e]
  <2>1. l2 = [l1 EXCEPT ![i] = e]
    BY <1>3, <1>7
  <2> HIDE DEF e, a
  <2>2. [l1 EXCEPT ![i] = e] = [l EXCEPT ![i] = e]
    OBVIOUS
  <2>3. QED
    BY <2>1, <2>2
<1> HIDE DEF l2
<1>9. [k1 EXCEPT !.list = l2] = [k EXCEPT !.list = l2]
  BY DEF Kernel
<1>10. QED
  BY <1>4, <1>6, <1>8, <1>9 DEF SetAt

\* An element of the list gives up pages.
LEMMA TakePages ==
  ASSUME NEW k, NEW H, NEW w, Sound(k, H, w), NEW i \in DOMAIN k.list, NEW n \in Nat
  PROVE  Sound(take_pages(k, i, n), H, w) /\ take_pages(k, i, n).flag = k.flag
<1> DEFINE l == k.list
           r == take_pages(k, i, n)
<1>1. Kernel(k) /\ Listed(l) /\ (~k.flag => l = <<>>)
  BY DEF Sound, InUse
<1>2. l[i].node \in Int /\ l[i].va \in Int /\ l[i].va >= HARD_LIMIT /\ l # <<>>
  BY <1>1, ElementIs
<1>3. CASE l[i].n = n
  <2> DEFINE d == free_block(k.da, l[i].node)
             m == RemoveAt(l, i)
             e == [[k EXCEPT !.da = d] EXCEPT !.list = m]
  <2>1. r = e
    BY <1>1, <1>3 DEF take_pages, Kernel
  <2> HIDE DEF d, m, r
  <2>2. Kernel(e) /\ e.da = d /\ e.list = m /\ e.flag = k.flag
    BY <1>1 DEF Kernel
  <2> HIDE DEF e
  <2>3. ListFor(e.list, NodesOf(l) \ {l[i].node})
    BY <1>1, <2>2, ListRemove DEF m
  <2>4. Sound(e, H, w)
    BY <2>2, <2>3, SoundDrop DEF d
  <2>5. QED
    BY <2>1, <2>2, <2>4 DEF r
<1>4. CASE l[i].n # n
  <2> DEFINE va == l[i].va + n * PAGE_SIZE
             g == l[i].n - n
             x == [node |-> l[i].node, va |-> va, n |-> g]
             m == [l EXCEPT ![i] = x]
             e == [k EXCEPT !.list = m]
  <2>1. r = SetAt(k, i, va, g)
    <3> DEFINE l1 == [l EXCEPT ![i].va = va]
               k1 == [k EXCEPT !.list = l1]
    <3>1. r = [k EXCEPT !.list[i].va = @ + n * PAGE_SIZE, !.list[i].n = @ - n]
      BY <1>4 DEF take_pages
    <3>2. @ = [k1 EXCEPT !.list[i].n = k1.list[i].n - n]
      OBVIOUS
    <3>3. k1.list[i].n = l[i].n
      BY <1>1, <1>2, ElementIs DEF Kernel
    <3>4. r = [k EXCEPT !.list[i].va = va, !.list[i].n = g]
      BY <3>1, <3>2, <3>3
    <3>5. QED
      BY <3>4 DEF SetAt
  <2>2. va \in Int /\ va >= HARD_LIMIT
    <3>1. n * PAGE_SIZE \in Nat /\ HARD_LIMIT \in Int
      BY PageType, LimitType
    <3>2. QED
      BY <1>2, <3>1
  <2> HIDE DEF va, g
  <2>3. r = e
    BY <1>1, <2>1, ListAt
  <2> HIDE DEF r, m
  <2>4. Kernel(e) /\ e.da = k.da /\ e.list = m /\ e.flag = k.flag
    BY <1>1 DEF Kernel
  <2> HIDE DEF e
  <2>5. ListFor(e.list, NodesOf(l))
    BY <1>1, <2>2, <2>4, ListSet DEF m
  <2>6. Sound(e, H, w)
    BY <1>1, <1>2, <2>4, <2>5, SoundRelist
  <2>7. QED
    BY <2>3, <2>4, <2>6 DEF r
<1>5. QED
  BY <1>3, <1>4

\* The page tables change.
LEMMA SoundPages ==
  ASSUME NEW k, NEW H, NEW w, Sound(k, H, w), NEW m
  PROVE  LET e == [k EXCEPT !.mm = m]
         IN  Sound(e, H, w) /\ e.flag = k.flag /\ e.list = k.list /\ e.da = k.da /\ Kernel(e)
<1> DEFINE e == [k EXCEPT !.mm = m]
<1>1. Kernel(k) /\ Listed(k.list) /\ (~k.flag => k.list = <<>>)
  BY DEF Sound, InUse
<1>2. Kernel(e) /\ e.da = k.da /\ e.list = k.list /\ e.flag = k.flag
  BY <1>1 DEF Kernel
<1> HIDE DEF e
<1>3. ListFor(e.list, NodesOf(k.list)) /\ (~e.flag => e.list = <<>>)
  BY <1>1, <1>2 DEF ListFor
<1>4. Sound(e, H, w)
  BY <1>2, <1>3, SoundRelist
<1>5. QED
  BY <1>2, <1>4 DEF e

\* Pages are taken from the list and mapped.
LEMMA FromPages ==
  ASSUME NEW k, NEW H, NEW w, Sound(k, H, w), k.flag, NEW n \in Nat, NEW size
  PROVE  Gives(from_pages(k, n), k, H, w, size)
<1> DEFINE fit == {i \in DOMAIN k.list : k.list[i].n >= n}
           i == Smallest(fit)
           t == take_pages(k, i, n)
           va == k.list[i].va
           r == from_pages(k, n)
<1>1. Listed(k.list)
  BY DEF Sound
<1>2. r = IF Len(k.mm.free) < n \/ fit = {} THEN Returns(k, NULL) ELSE map_pages(t, va, n)
  BY DEF from_pages
<1>3. CASE r = Returns(k, NULL)
  <2> HIDE DEF r
  <2>1. NoBlock(r, k, H, w)
    BY <1>3 DEF NoBlock
  <2>2. GivesAs(r, k, H, w, size, k, NULL)
    BY <2>1 DEF GivesAs
  <2>3. QED
    BY <2>2 DEF Gives, r
<1>4. CASE fit # {} /\ r = map_pages(t, va, n)
  <2>1. fit \in SUBSET Nat
    BY <1>1, ElementIs
  <2>2. i \in DOMAIN k.list
    <3>1. i \in fit
      BY <1>4, <2>1, SmallestIs
    <3>2. QED
      BY <3>1
  <2> HIDE DEF i, r
  <2>3. va \in Int /\ va >= HARD_LIMIT
    BY <1>1, <2>2, ElementIs
  <2>4. Sound(t, H, w) /\ t.flag = k.flag
    BY <2>2, TakePages
  <2> HIDE DEF t, va
  <2>5. \E m : r = Returns([t EXCEPT !.mm = m], va)
    BY <1>4 DEF map_pages
  <2>6. PICK m : r = Returns([t EXCEPT !.mm = m], va)
    BY <2>5
  <2> DEFINE e == [t EXCEPT !.mm = m]
  <2>7. Sound(e, H, w) /\ e.flag = t.flag
    BY <2>4, SoundPages
  <2> HIDE DEF e
  <2>8. GotPages(r, e, va, H, w)
    BY <2>3, <2>4, <2>6, <2>7 DEF GotPages, e
  <2>9. GivesAs(r, k, H, w, size, e, va)
    BY <2>4, <2>7, <2>8 DEF GivesAs
  <2>10. QED
    BY <2>9 DEF Gives, r
<1>5. QED
  BY <1>2, <1>3, <1>4

\* kmalloc() gives a block, or pages, or nothing.
LEMMA Kmallocs ==
  ASSUME NEW k, NEW H, NEW w, Sound(k, H, w), NEW size \in Nat, NEW strat
  PROVE  Gives(kmalloc(k, size, strat), k, H, w, size)
<1>1. CASE size <= DYN_ALLOC_MAX_BLOCK_SIZE
  <2>1. kmalloc(k, size, strat) = kmalloc_block(k, size, strat)
    BY <1>1 DEF kmalloc
  <2>2. size + 24 <= PAGE_SIZE
    BY <1>1, PageType
  <2>3. Gives(kmalloc_block(k, size, strat), k, H, w, size)
    BY <2>2, GiveBlock
  <2>4. QED
    BY <2>1, <2>3
<1>2. CASE ~(size <= DYN_ALLOC_MAX_BLOCK_SIZE)
  <2> DEFINE n == RoundUp(size, PAGE_SIZE) \div PAGE_SIZE
             q == IF k.flag THEN Returns(k, NULL) ELSE first_page(kmalloc_block(k, NodeSize, strat))
             r == kmalloc(k, size, strat)
  <2>1. r = IF q.panic THEN q ELSE from_pages(q.kh, n)
    BY <1>2 DEF kmalloc, kmalloc_pages, after_init
  <2>2. n \in Nat
    <3> DEFINE p == PAGE_SIZE
               a == size + p - 1
    <3>1. p \in Nat /\ p > 0 /\ a \in Nat
      BY PageType
    <3> HIDE DEF p, a
    <3>2. a \div p \in Nat
      BY <3>1
    <3>3. (a \div p) * p \in Nat
      BY <3>1, <3>2
    <3>4. ((a \div p) * p) \div p \in Nat
      BY <3>1, <3>3
    <3>5. QED
      BY <3>4 DEF RoundUp, a, p
  <2> HIDE DEF n
  <2>3. PageReady(q, k, H, w)
    <3>1. CASE k.flag
      BY <3>1 DEF PageReady
    <3>2. CASE ~k.flag
      BY <3>2, FirstPage
    <3>3. QED
      BY <3>1, <3>2
  <2> HIDE DEF q, r
  <2>4. PICK k2 : (q = Panics(k2) \/ (q = Returns(k2, NULL) /\ k2.flag)) /\ (k.flag => k2.flag) /\ Sound(k2, H, w)
    BY <2>3 DEF PageReady
  <2>5. CASE q = Panics(k2)
    <3>1. r = Panics(k2)
      BY <2>1, <2>5, OutcomeIs
    <3>2. NoBlock(r, k2, H, w)
      BY <2>4, <3>1 DEF NoBlock
    <3>3. GivesAs(r, k, H, w, size, k2, NULL)
      BY <2>4, <3>2 DEF GivesAs
    <3>4. QED
      BY <3>3 DEF Gives, r
  <2>6. CASE q = Returns(k2, NULL) /\ k2.flag
    <3>1. r = from_pages(k2, n)
      BY <2>1, <2>6, OutcomeIs
    <3>2. Gives(r, k2, H, w, size)
      BY <2>2, <2>4, <2>6, <3>1, FromPages
    <3>3. QED
      BY <2>6, <3>2 DEF Gives, GivesAs, r
  <2>7. QED
    BY <2>4, <2>5, <2>6
<1>3. QED
  BY <1>1, <1>2

-----------------------------------------------------------------------------
(* kfree() *)

\* What a call leaves behind that gives something back.
Frees(r, k, H, w) ==
  \E k2 : (r = Returns(k2, NULL) \/ r = Panics(k2)) /\ k2.flag = k.flag /\ Sound(k2, H, w)

\* Where the blocks of the callers are.
LEMMA HeldBelow ==
  ASSUME NEW k, NEW H, NEW w, Sound(k, H, w)
  PROVE  /\ k.da.brk \in Int /\ k.da.brk <= HARD_LIMIT /\ Kernel(k) /\ Listed(k.list)
         /\ \A va \in H : va \in Int /\ va >= First /\ va < k.da.brk
<1> DEFINE U == H \union NodesOf(k.list)
           c == Needs(H, NodesOf(k.list), w)
<1>1. InUse(k, U, c) /\ Listed(k.list)
  BY DEF Sound
<1> HIDE DEF c
<1>2. k.da.brk \in Int /\ k.da.brk <= HARD_LIMIT /\ Kernel(k)
  BY <1>1 DEF InUse
<1>3. ASSUME NEW va \in H
      PROVE  va \in Int /\ va >= First /\ va < k.da.brk
  <2>1. va \in U
    OBVIOUS
  <2> HIDE DEF U
  <2>2. Owned(k.da, U, c)
    BY <1>1, <2>1, UsedUp
  <2>3. PICK B, z : OwnedAs(k.da, U, c, B, z)
    BY <2>2 DEF Owned
  <2>4. Tiled(k.da, B, z, U, 0)
    BY <2>3 DEF OwnedAs
  <2>5. U \subseteq B /\ First \in Int
        /\ \A b \in B : b \in Int /\ z[b] \in Int /\ z[b] >= 16 /\ First <= b /\ b + z[b] <= k.da.brk
    BY <2>4, TiledTypes
  <2>6. va \in Int /\ z[va] \in Int /\ z[va] >= 16 /\ First <= va /\ va + z[va] <= k.da.brk
    BY <2>1, <2>5
  <2>7. QED
    BY <1>2, <2>5, <2>6
<1>4. QED
  BY <1>1, <1>2, <1>3

\* kfree() of a block.
LEMMA FreeHeld ==
  ASSUME NEW k, NEW H, NEW w, Sound(k, H, w), NEW va \in H, NEW strat
  PROVE  Frees(kfree(k, va, strat), k, H \ {va}, w)
<1> DEFINE e == [k EXCEPT !.da = free_block(k.da, va)]
           r == kfree(k, va, strat)
<1>1. Kernel(k) /\ va \in Int /\ va >= First /\ va < k.da.brk
  BY HeldBelow
<1>2. va >= KERNEL_HEAP_START
  BY <1>1, StartType
<1>3. r = Returns(e, NULL)
  BY <1>1, <1>2 DEF kfree
<1> HIDE DEF r
<1>4. Kernel(e) /\ e.da = free_block(k.da, va) /\ e.list = k.list /\ e.flag = k.flag
  BY <1>1 DEF Kernel
<1> HIDE DEF e
<1>5. Sound(e, H \ {va}, w)
  BY <1>4, SoundFree
<1>6. QED
  BY <1>3, <1>4, <1>5 DEF Frees, r

\* Pages that join both neighbours.
LEMMA JoinBoth ==
  ASSUME NEW k, NEW H, NEW w, Sound(k, H, w), NEW p \in DOMAIN k.list, NEW i \in DOMAIN k.list, NEW n
  PROVE  Sound(join_both(k, p, i, n), H, w) /\ join_both(k, p, i, n).flag = k.flag
<1> DEFINE l == k.list
           g == l[p].n + n + l[i].n
           x == [node |-> l[p].node, va |-> l[p].va, n |-> g]
           m == [l EXCEPT ![p] = x]
           d == free_block(k.da, l[i].node)
           s == RemoveAt(m, i)
           e == [[k EXCEPT !.da = d] EXCEPT !.list = s]
           r == join_both(k, p, i, n)
<1>1. Kernel(k) /\ Listed(l)
  BY HeldBelow
<1>2. /\ l[p].va \in Int /\ l[p].va >= HARD_LIMIT
      /\ l[p] = [node |-> l[p].node, va |-> l[p].va, n |-> l[p].n]
  BY <1>1, ElementIs
<1>3. [l EXCEPT ![p].n = g] = m
  <2> HIDE DEF g, l
  <2>1. [l[p] EXCEPT !.n = g] = x
    BY <1>2
  <2> HIDE DEF x
  <2>2. QED
    BY <2>1
<1>4. r = [[k EXCEPT !.da = d] EXCEPT !.list = RemoveAt([l EXCEPT ![p].n = g], i)]
  <2> DEFINE k1 == [k EXCEPT !.da = d]
  <2>1. r = [k1 EXCEPT !.list = RemoveAt([k1.list EXCEPT ![p].n = k1.list[p].n + n + l[i].n], i)]
    BY DEF join_both
  <2>2. k1.list = l
    BY <1>1 DEF Kernel
  <2> HIDE DEF k1, r
  <2>3. r = [k1 EXCEPT !.list = RemoveAt([l EXCEPT ![p].n = g], i)]
    BY <2>1, <2>2
  <2>4. QED
    BY <2>3 DEF k1
<1> HIDE DEF d, g, r
<1>5. ListFor(m, NodesOf(l))
  BY <1>1, <1>2, ListSet
<1>6. DOMAIN m = DOMAIN l /\ m[i].node = l[i].node
  BY <1>2
<1>7. r = e
  BY <1>3, <1>4
<1> HIDE DEF m
<1>8. ListFor(s, NodesOf(l) \ {l[i].node})
  <2>1. Listed(m) /\ NodesOf(m) = NodesOf(l) /\ i \in DOMAIN m
    BY <1>5, <1>6 DEF ListFor
  <2>2. QED
    BY <1>6, <2>1, ListRemove
<1> HIDE DEF s
<1>9. Kernel(e) /\ e.da = d /\ e.list = s /\ e.flag = k.flag
  BY <1>1 DEF Kernel
<1> HIDE DEF e
<1>10. Sound(e, H, w)
  BY <1>8, <1>9, SoundDrop DEF d
<1>11. QED
  BY <1>7, <1>9, <1>10 DEF r

\* Pages that make an element larger.
Relisted(e, k, i, va, n) ==
  e = [k EXCEPT !.list = [k.list EXCEPT ![i] = [node |-> k.list[i].node, va |-> va, n |-> n]]]

(* An element whose pages change, as when kfree() makes a run larger, keeps its node:
   no block is needed or given back for it. *)
LEMMA JoinOne ==
  ASSUME NEW k, NEW H, NEW w, Sound(k, H, w), NEW i \in DOMAIN k.list, NEW va \in Int,
         va >= HARD_LIMIT, NEW g, NEW e, Relisted(e, k, i, va, g)
  PROVE  Sound(e, H, w) /\ e.flag = k.flag
<1> DEFINE l == k.list
           m == [l EXCEPT ![i] = [node |-> l[i].node, va |-> va, n |-> g]]
<1>1. Kernel(k) /\ Listed(l) /\ (~k.flag => l = <<>>)
  BY HeldBelow DEF Sound
<1>2. l # <<>>
  BY <1>1, ElementIs
<1>3. ListFor(m, NodesOf(l))
  BY <1>1, ListSet
<1>4. e = [k EXCEPT !.list = m]
  BY DEF Relisted
<1> HIDE DEF m
<1>5. Kernel(e) /\ e.da = k.da /\ e.list = m /\ e.flag = k.flag
  BY <1>1, <1>4 DEF Kernel
<1>6. Sound(e, H, w)
  BY <1>1, <1>2, <1>3, <1>5, SoundRelist
<1>7. QED
  BY <1>5, <1>6

\* Pages that become an element of their own, for which a block is needed.
LEMMA InsertRange ==
  ASSUME NEW k, NEW H, NEW w, Sound(k, H, w), k.flag, NEW i \in 1 .. Len(k.list) + 1,
         NEW va \in Int, va >= HARD_LIMIT, NEW n, NEW strat
  PROVE  Frees(insert_range(kmalloc_block(k, NodeSize, strat), i, va, n), k, H, w)
<1> DEFINE q == kmalloc_block(k, NodeSize, strat)
           r == insert_range(q, i, va, n)
<1>1. q = Returns(k, NULL) \/ \E k2, a : NewBlock(q, k, H, w, NodeSize, k2, a)
  BY NodeBlock
<1> HIDE DEF q
<1>2. CASE q = Returns(k, NULL)
  <2>1. r = Panics(k)
    BY <1>2, OutcomeIs DEF insert_range
  <2>2. QED
    BY <2>1 DEF Frees, q
<1>3. CASE \E k2, a : NewBlock(q, k, H, w, NodeSize, k2, a)
  <2>1. PICK k2, a : NewBlock(q, k, H, w, NodeSize, k2, a)
    BY <1>3
  <2>2. /\ q = Returns(k2, a) /\ a \in Int /\ a \notin NodesOf(k.list) /\ a # NULL
        /\ k2.list = k.list /\ k2.flag = k.flag /\ Kernel(k2)
    BY ONLY <2>1, NewBlockIs
  <2> DEFINE l == k.list
             x == [node |-> a, va |-> va, n |-> n]
             m == InsertAt(l, i, x)
             e == [k2 EXCEPT !.list = m]
  <2>3. r = Returns(e, NULL)
    <3>1. q.kh = k2 /\ q.va = a
      BY <2>2, OutcomeIs
    <3>2. r = IF q.va = NULL THEN Panics(q.kh)
              ELSE Returns([q.kh EXCEPT !.list = InsertAt(@, i, [node |-> q.va, va |-> va, n |-> n])], NULL)
      BY DEF insert_range
    <3>3. r = IF a = NULL THEN Panics(k2)
              ELSE Returns([k2 EXCEPT !.list = InsertAt(k2.list, i, x)], NULL)
      BY <3>1, <3>2, Zenon
    <3>4. QED
      BY <2>2, <3>3
  <2> HIDE DEF r
  <2>4. ListFor(m, NodesOf(l) \union {a})
    <3>1. Listed(l)
      BY HeldBelow
    <3>2. QED
      BY <2>2, <3>1, ListInsert
  <2> HIDE DEF m
  <2>5. Kernel(e) /\ e.da = k2.da /\ e.list = m /\ e.flag = k.flag
    BY <2>2 DEF Kernel
  <2> HIDE DEF e
  <2>6. ListFor(e.list, NodesOf(k.list) \union {a}) /\ e.flag
    BY <2>4, <2>5
  <2>7. Sound(e, H, w)
    BY <2>1, <2>5, <2>6, SoundNode
  <2>8. QED
    BY <2>3, <2>5, <2>7 DEF Frees, r, q
<1>4. QED
  BY <1>1, <1>2, <1>3

\* A range of pages goes back to the list.
LEMMA ReturnPages ==
  ASSUME NEW k, NEW H, NEW w, Sound(k, H, w), k.flag, NEW va \in Int, va >= HARD_LIMIT, NEW last,
         NEW n, NEW strat
  PROVE  Frees(return_pages(k, va, last, n, strat), k, H, w)
<1> DEFINE l == k.list
           after == {i \in DOMAIN l : last < l[i].va}
           i == IF after = {} THEN Len(l) + 1 ELSE Smallest(after)
           p == i - 1
           right == after # {} /\ l[i].va - last = PAGE_SIZE
           left == p > 0 /\ va - (l[p].va + (l[p].n - 1) * PAGE_SIZE) = PAGE_SIZE
           r == return_pages(k, va, last, n, strat)
<1>1. Kernel(k) /\ Listed(l)
  BY HeldBelow
<1>2. Len(l) \in Nat /\ DOMAIN l = 1 .. Len(l)
  BY <1>1 DEF Listed, IsList
<1>3. after # {} => i \in after /\ i \in DOMAIN l
  <2>1. after \in SUBSET Nat
    BY <1>2
  <2>2. after \subseteq DOMAIN l
    OBVIOUS
  <2> HIDE DEF after
  <2>3. QED
    BY <2>1, <2>2, SmallestIs
<1>4. i \in 1 .. Len(l) + 1
  BY <1>2, <1>3
<1>5. r = IF left /\ right THEN Returns(join_both(k, p, i, n), NULL)
          ELSE IF right THEN Returns([k EXCEPT !.list[i].va = va, !.list[i].n = @ + n], NULL)
          ELSE IF left THEN Returns([k EXCEPT !.list[p].n = @ + n], NULL)
          ELSE insert_range(kmalloc_block(k, NodeSize, strat), i, va, n)
  BY DEF return_pages
<1>6. right => i \in DOMAIN l
  BY <1>3
<1>7. left => p \in DOMAIN l
  <2> HIDE DEF i
  <2>1. left => p \in Int /\ p > 0 /\ p <= Len(l)
    BY <1>2, <1>4
  <2> HIDE DEF p, left
  <2>2. QED
    BY <1>2, <2>1
<1> HIDE DEF i, p, right, left, r
<1>8. CASE left /\ right
  <2>1. Sound(join_both(k, p, i, n), H, w) /\ join_both(k, p, i, n).flag = k.flag
    BY <1>6, <1>7, <1>8, JoinBoth
  <2>2. QED
    BY <1>5, <1>8, <2>1 DEF Frees, r
<1>9. CASE right /\ ~left
  <2> DEFINE g == l[i].n + n
             e == SetAt(k, i, va, g)
  <2>1. r = Returns(e, NULL)
    <3> DEFINE l1 == [l EXCEPT ![i].va = va]
               k1 == [k EXCEPT !.list = l1]
    <3>1. r = Returns([k EXCEPT !.list[i].va = va, !.list[i].n = @ + n], NULL)
      BY <1>5, <1>9
    <3>2. [k EXCEPT !.list[i].va = va, !.list[i].n = @ + n] = [k1 EXCEPT !.list[i].n = k1.list[i].n + n]
      OBVIOUS
    <3>3. k1.list[i].n = l[i].n
      BY <1>1, <1>6, <1>9, ElementIs DEF Kernel
    <3>4. r = Returns([k EXCEPT !.list[i].va = va, !.list[i].n = g], NULL)
      BY <3>1, <3>2, <3>3
    <3>5. QED
      BY <3>4 DEF SetAt
  <2>2. Relisted(e, k, i, va, g)
    BY <1>1, <1>6, <1>9, ListAt DEF Relisted
  <2> HIDE DEF e, g
  <2>3. Sound(e, H, w) /\ e.flag = k.flag
    BY <1>6, <1>9, <2>2, JoinOne
  <2>4. QED
    BY <2>1, <2>3 DEF Frees, r
<1>10. CASE left /\ ~right
  <2> DEFINE g == l[p].n + n
             e == [k EXCEPT !.list[p].n = g]
             x == [node |-> l[p].node, va |-> l[p].va, n |-> g]
  <2>1. r = Returns(e, NULL)
    BY <1>5, <1>10
  <2>2. /\ l[p].va \in Int /\ l[p].va >= HARD_LIMIT
        /\ l[p] = [node |-> l[p].node, va |-> l[p].va, n |-> l[p].n]
    BY <1>1, <1>7, <1>10, ElementIs
  <2>3. Relisted(e, k, p, l[p].va, g)
    <3> HIDE DEF g
    <3>1. [l[p] EXCEPT !.n = g] = x
      BY <2>2
    <3> HIDE DEF x
    <3>2. e = [k EXCEPT !.list = [k.list EXCEPT ![p] = x]]
      BY <3>1
    <3> HIDE DEF e
    <3>3. QED
      BY <3>2 DEF Relisted, x
  <2> HIDE DEF e, g
  <2> DEFINE v == l[p].va
  <2>4. v \in Int /\ v >= HARD_LIMIT /\ Relisted(e, k, p, v, g)
    BY <2>2, <2>3
  <2> HIDE DEF v
  <2>5. Sound(e, H, w) /\ e.flag = k.flag
    BY <1>7, <1>10, <2>4, JoinOne
  <2>6. QED
    BY <2>1, <2>5 DEF Frees, r
<1>11. CASE ~left /\ ~right
  <2>1. Frees(insert_range(kmalloc_block(k, NodeSize, strat), i, va, n), k, H, w)
    BY <1>4, InsertRange
  <2>2. QED
    BY <1>5, <1>11, <2>1 DEF r
<1>12. QED
  BY <1>8, <1>9, <1>10, <1>11 DEF r

\* kfree() of pages.
LEMMA FreePages ==
  ASSUME NEW k, NEW H, NEW w, Sound(k, H, w), k.flag, NEW va \in Int, va >= HARD_LIMIT, NEW strat
  PROVE  Frees(kfree(k, va, strat), k, H, w)
<1> DEFINE last == LastPage(k.mm, va)
           n == (last - va) \div PAGE_SIZE + 1
           m == UnmapRun(k.mm, va, n)
           e == [k EXCEPT !.mm = m]
           r == kfree(k, va, strat)
<1>1. k.da.brk \in Int /\ k.da.brk <= HARD_LIMIT /\ HARD_LIMIT \in Int
  BY HeldBelow, LimitType
<1>2. ~(va < k.da.brk)
  BY <1>1
<1>3. r = Panics(k) \/ r = return_pages(e, va, last, n, strat)
  BY <1>2 DEF kfree, kfree_pages
<1> HIDE DEF r, last, n, m
<1>4. Sound(e, H, w) /\ e.flag = k.flag
  BY SoundPages
<1> HIDE DEF e
<1>5. CASE r = Panics(k)
  BY <1>5 DEF Frees, r
<1>6. CASE r = return_pages(e, va, last, n, strat)
  <2>1. Frees(r, e, H, w)
    BY <1>4, <1>6, ReturnPages
  <2>2. QED
    BY <1>4, <2>1 DEF Frees, r
<1>7. QED
  BY <1>3, <1>5, <1>6

-----------------------------------------------------------------------------
(* What the callers know: the addresses f they hold, with the sizes *)

HeldIn(f) == {va \in DOMAIN f : InBlocks(va)}

Consistent(k, f) ==
  /\ Sound(k, HeldIn(f), f) /\ DOMAIN f \subseteq Int
  /\ \A va \in DOMAIN f : ~InBlocks(va) => k.flag

\* A smaller account of the sizes.
LEMMA SoundLess ==
  ASSUME NEW k, NEW H, NEW w, Sound(k, H, w), NEW w2, H \subseteq DOMAIN w2,
         \A u \in H : w2[u] = w[u] \/ (w2[u] \in Nat /\ w2[u] <= w[u])
  PROVE  Sound(k, H, w2)
<1> DEFINE N == NodesOf(k.list)
           U == H \union N
           c == Needs(H, N, w)
           d == Needs(H, N, w2)
<1>1. /\ InUse(k, U, c) /\ H \intersect N = {} /\ Listed(k.list) /\ (~k.flag => k.list = <<>>)
  BY DEF Sound
<1>2. DOMAIN d = U /\ \A u \in U : d[u] = c[u] \/ (d[u] \in Nat /\ d[u] <= c[u])
  BY <1>1 DEF Needs
<1> HIDE DEF c, d, U, N
<1>3. InUse(k, U, d)
  <2>1. ASSUME k.da.up
        PROVE  Owned(k.da, U, d)
    <3>1. Owned(k.da, U, c)
      BY <1>1, <2>1 DEF InUse
    <3>2. PICK B, z : OwnedAs(k.da, U, c, B, z)
      BY <3>1 DEF Owned
    <3>3. Tiled(k.da, B, z, U, 0) /\ Fits(z, U, c)
      BY <3>2 DEF OwnedAs
    <3>4. \A u \in U : z[u] \in Int
      BY <3>3, TiledTypes
    <3>5. \A u \in U : d[u] \in Int /\ Room(z[u], d[u])
      BY <1>2, <3>3, <3>4 DEF Fits, Room
    <3>6. Fits(z, U, d)
      BY <1>2, <3>5 DEF Fits
    <3>7. QED
      BY <3>3, <3>6 DEF Owned, OwnedAs
  <2>2. QED
    BY <1>1, <2>1 DEF InUse
<1>4. QED
  BY <1>1, <1>3 DEF Sound, U, d, N

\* Other addresses above the blocks.
LEMMA ConsistentAs ==
  ASSUME NEW k, NEW H, NEW w, Sound(k, H, w), NEW f, DOMAIN f \subseteq Int, HeldIn(f) = H,
         \A u \in H : f[u] = w[u] \/ (f[u] \in Nat /\ f[u] <= w[u]),
         k.flag \/ \A va \in DOMAIN f : InBlocks(va)
  PROVE  Consistent(k, f)
<1>1. H \subseteq DOMAIN f
  BY DEF HeldIn
<1>2. Sound(k, H, f)
  BY <1>1, SoundLess
<1>3. QED
  BY <1>2 DEF Consistent

\* kmalloc() as its caller sees it.
GivesNew(r, f, size) ==
  \/ r.va = NULL /\ Consistent(r.kh, f)
  \/ /\ r.va # NULL /\ ~r.panic /\ r.va \in Int /\ r.va \notin HeldIn(f)
     /\ Consistent(r.kh, With(f, r.va, size))

(* kmalloc() gives its caller an address of its own, or NULL with the heap as
   consistent as before. *)
LEMMA Giving ==
  ASSUME NEW k, NEW f, Consistent(k, f), NEW size \in Nat, NEW need \in Nat, need <= size, NEW r,
         Gives(r, k, HeldIn(f), f, size)
  PROVE  GivesNew(r, f, need) /\ (k.flag => r.kh.flag)
<1> DEFINE H == HeldIn(f)
<1>1. PICK k2, va : GivesAs(r, k, H, f, size, k2, va)
  BY DEF Gives
<1>2. /\ Sound(k, H, f) /\ DOMAIN f \subseteq Int
      /\ \A u \in DOMAIN f : ~InBlocks(u) => k.flag
  BY DEF Consistent
<1>3. /\ k.flag => k2.flag
      /\ NoBlock(r, k2, H, f) \/ GotBlock(r, k2, va, H, f, size) \/ GotPages(r, k2, va, H, f)
  BY <1>1 DEF GivesAs
<1>4. H \subseteq DOMAIN f /\ \A u \in DOMAIN f : u \in H <=> InBlocks(u)
  BY DEF HeldIn
<1> HIDE DEF H
<1> DEFINE g == With(f, va, need)
<1>5. DOMAIN g = DOMAIN f \union {va} /\ g[va] = need /\ \A u \in DOMAIN f : u # va => g[u] = f[u]
  BY DEF With
<1>6. CASE NoBlock(r, k2, H, f)
  <2>1. r.kh = k2 /\ r.va = NULL /\ Sound(k2, H, f)
    BY <1>6, OutcomeIs DEF NoBlock
  <2>2. Consistent(k2, f)
    BY <1>2, <1>3, <2>1 DEF Consistent, H
  <2>3. QED
    BY <1>3, <2>1, <2>2 DEF GivesNew
<1>7. CASE GotBlock(r, k2, va, H, f, size)
  <2> DEFINE w == With(f, va, size)
             G == H \union {va}
  <2>1. /\ r = Returns(k2, va) /\ va \in Int /\ va # NULL /\ va \notin H /\ va < HARD_LIMIT
        /\ Sound(k2, G, w)
    BY <1>7 DEF GotBlock
  <2>2. r.kh = k2 /\ r.va = va /\ ~r.panic
    BY <2>1, OutcomeIs
  <2>3. w[va] = size /\ \A u \in DOMAIN f : u # va => w[u] = f[u]
    BY DEF With
  <2> HIDE DEF w
  <2>4. \A u \in G : g[u] = w[u] \/ (g[u] \in Nat /\ g[u] <= w[u])
    BY <1>4, <1>5, <2>3
  <2> HIDE DEF g
  <2>5. HeldIn(g) = G
    BY <1>4, <1>5, <2>1 DEF HeldIn, InBlocks
  <2>6. k2.flag \/ \A u \in DOMAIN g : InBlocks(u)
    BY <1>2, <1>3, <1>5, <2>1 DEF InBlocks
  <2>7. DOMAIN g \subseteq Int
    BY <1>2, <1>5, <2>1
  <2> HIDE DEF G
  <2>8. Consistent(k2, g)
    BY <2>1, <2>4, <2>5, <2>6, <2>7, ConsistentAs
  <2>9. QED
    BY <1>3, <2>1, <2>2, <2>8 DEF GivesNew, g, H
<1>8. CASE GotPages(r, k2, va, H, f)
  <2>1. r = Returns(k2, va) /\ va \in Int /\ va >= HARD_LIMIT /\ k2.flag /\ Sound(k2, H, f)
    BY <1>8 DEF GotPages
  <2>2. r.kh = k2 /\ r.va = va /\ ~r.panic
    BY <2>1, OutcomeIs
  <2>3. ~InBlocks(va) /\ va # NULL
    <3>1. HARD_LIMIT \in Int /\ HARD_LIMIT > First /\ First \in Int /\ First > 0
      BY LimitType, StartType
    <3>2. QED
      BY <2>1, <3>1 DEF InBlocks, NULL
  <2>4. va \notin H
    BY <1>4, <2>3
  <2> HIDE DEF g
  <2>5. HeldIn(g) = H
    BY <1>4, <1>5, <2>3 DEF HeldIn
  <2>6. \A u \in H : g[u] = f[u]
    BY <1>4, <1>5, <2>4
  <2>7. DOMAIN g \subseteq Int
    BY <1>2, <1>5, <2>1
  <2>8. Consistent(k2, g)
    BY <2>1, <2>5, <2>6, <2>7, ConsistentAs
  <2>9. QED
    BY <1>3, <2>1, <2>2, <2>3, <2>4, <2>8 DEF GivesNew, g, H
<1>9. QED
  BY <1>3, <1>6, <1>7, <1>8

\* kfree() as its caller sees it.
LEMMA Freeing ==
  ASSUME NEW k, NEW f, Consistent(k, f), NEW va \in DOMAIN f, NEW strat
  PROVE  Frees(kfree(k, va, strat), k, HeldIn(f) \ {va}, f) /\ va # NULL
<1>1. /\ Sound(k, HeldIn(f), f) /\ va \in Int /\ (~InBlocks(va) => k.flag)
  BY DEF Consistent
<1>2. HARD_LIMIT \in Int /\ HARD_LIMIT > First /\ First \in Int /\ First > 0
  BY LimitType, StartType
<1>3. CASE InBlocks(va)
  <2>1. va \in HeldIn(f)
    BY <1>3 DEF HeldIn
  <2>2. va >= First
    BY <1>1, <2>1, HeldBelow
  <2>3. QED
    BY <1>1, <1>2, <2>1, <2>2, FreeHeld DEF NULL
<1>4. CASE ~InBlocks(va)
  <2>1. va >= HARD_LIMIT
    BY <1>1, <1>2, <1>4 DEF InBlocks
  <2>2. HeldIn(f) \ {va} = HeldIn(f)
    BY <1>4 DEF HeldIn
  <2>3. QED
    BY <1>1, <1>2, <1>4, <2>1, <2>2, FreePages DEF NULL
<1>5. QED
  BY <1>3, <1>4

\* What is left of the addresses.
LEMMA FreesAll ==
  ASSUME NEW k, NEW f, Consistent(k, f), NEW va \in DOMAIN f, NEW r,
         Frees(r, k, HeldIn(f) \ {va}, f)
  PROVE  Consistent(r.kh, Without(f, va)) /\ r.va = NULL /\ r.kh.flag = k.flag
<1> DEFINE g == Without(f, va)
           H == HeldIn(f) \ {va}
<1>1. PICK k2 : (r = Returns(k2, NULL) \/ r = Panics(k2)) /\ k2.flag = k.flag /\ Sound(k2, H, f)
  BY DEF Frees
<1>2. r.kh = k2 /\ r.va = NULL
  BY <1>1, OutcomeIs
<1>3. DOMAIN f \subseteq Int /\ \A u \in DOMAIN f : ~InBlocks(u) => k.flag
  BY DEF Consistent
<1>4. DOMAIN g = DOMAIN f \ {va} /\ \A u \in DOMAIN g : g[u] = f[u]
  BY DEF Without
<1>5. HeldIn(g) = H /\ H \subseteq DOMAIN g
  BY <1>4 DEF HeldIn
<1> HIDE DEF g, H
<1>6. k2.flag \/ \A u \in DOMAIN g : InBlocks(u)
  BY <1>1, <1>3, <1>4
<1>7. Consistent(k2, g)
  BY <1>1, <1>3, <1>4, <1>5, <1>6, ConsistentAs
<1>8. QED
  BY <1>1, <1>2, <1>7 DEF g

-----------------------------------------------------------------------------
(* krealloc() *)

\* The caller of krealloc() keeps the old place, or has the new one instead.
Reallocs(r, f, va, size) ==
  \/ r.va = NULL /\ Consistent(r.kh, f)
  \/ r.va # NULL /\ Consistent(r.kh, With(Without(f, va), r.va, size))

\* The block moves: the new place r is there, the old one is freed.
LEMMA Moving ==
  ASSUME NEW f, NEW va \in DOMAIN f, NEW size \in Nat, NEW r, GivesNew(r, f, size), NEW strat
  PROVE  Reallocs(move(va, r, strat), f, va, size)
<1> DEFINE m == move(va, r, strat)
           g == With(f, r.va, size)
           q == kfree(r.kh, va, strat)
           h == With(Without(f, va), r.va, size)
<1>1. CASE r.va = NULL
  <2>1. m = r
    BY <1>1 DEF move
  <2> HIDE DEF m
  <2>2. Consistent(r.kh, f)
    BY <1>1 DEF GivesNew
  <2>3. QED
    BY <1>1, <2>1, <2>2 DEF Reallocs, m
<1>2. CASE r.va # NULL
  <2>1. ~r.panic /\ r.va \in Int /\ r.va \notin HeldIn(f) /\ Consistent(r.kh, g)
    BY <1>2 DEF GivesNew
  <2>2. m = [q EXCEPT !.va = r.va]
    BY <1>2, <2>1 DEF move, moved
  <2> HIDE DEF m
  <2>3. va \in DOMAIN g
    BY DEF With
  <2> HIDE DEF g
  <2>4. Frees(q, r.kh, HeldIn(g) \ {va}, g)
    BY <2>1, <2>3, Freeing
  <2> HIDE DEF q
  <2>5. Consistent(q.kh, Without(g, va)) /\ q.kh.flag = r.kh.flag
    BY <2>1, <2>3, <2>4, FreesAll
  <2>6. m.kh = q.kh /\ m.va = r.va
    <3>1. PICK k2 : q = Returns(k2, NULL) \/ q = Panics(k2)
      BY <2>4 DEF Frees
    <3>2. DOMAIN q = {"kh", "va", "panic"}
      BY <3>1 DEF Returns, Panics
    <3>3. QED
      BY <2>2, <3>2
  <2>7. Consistent(q.kh, h)
    <3> DEFINE u == Without(g, va)
               H == HeldIn(u)
    <3>1. /\ DOMAIN g = DOMAIN f \union {r.va} /\ g[r.va] = size
          /\ \A x \in DOMAIN f : x # r.va => g[x] = f[x]
      BY DEF With, g
    <3>2. DOMAIN u = DOMAIN g \ {va} /\ \A x \in DOMAIN u : u[x] = g[x]
      BY DEF Without
    <3>3. /\ DOMAIN h = (DOMAIN f \ {va}) \union {r.va} /\ h[r.va] = size
          /\ \A x \in DOMAIN f : x # r.va /\ x # va => h[x] = f[x]
      BY DEF With, Without
    <3>4. /\ DOMAIN g \subseteq Int /\ Sound(q.kh, H, u)
          /\ \A x \in DOMAIN g : ~InBlocks(x) => r.kh.flag
      BY <2>1, <2>5 DEF Consistent
    <3>5. InBlocks(va) => va \in HeldIn(f)
      BY DEF HeldIn
    <3>6. InBlocks(va) => r.va # va
      BY <2>1, <3>5
    <3> HIDE DEF h, u
    <3>7. HeldIn(h) = H /\ \A x \in H : h[x] = u[x]
      BY <3>1, <3>2, <3>3, <3>6 DEF HeldIn
    <3> HIDE DEF H
    <3>8. DOMAIN h \subseteq DOMAIN g
      BY <3>1, <3>3
    <3>9. q.kh.flag \/ \A x \in DOMAIN h : InBlocks(x)
      BY <2>5, <3>4, <3>8
    <3>10. DOMAIN h \subseteq Int
      BY <3>4, <3>8
    <3>11. QED
      BY <3>4, <3>7, <3>9, <3>10, ConsistentAs
  <2> HIDE DEF h
  <2>8. QED
    BY <1>2, <2>6, <2>7 DEF Reallocs, m, h
<1>3. QED
  BY <1>1, <1>2

\* The block stays where it is.
LEMMA InPlace ==
  ASSUME NEW k, NEW f, Consistent(k, f), NEW va \in DOMAIN f, NEW size, NEW k2, k2.flag = k.flag,
         Sound(k2, HeldIn(f), With(f, va, size))
  PROVE  Reallocs(Returns(k2, va), f, va, size)
<1> DEFINE r == Returns(k2, va)
           g == With(Without(f, va), va, size)
           w == With(f, va, size)
           H == HeldIn(f)
<1>1. r.kh = k2 /\ r.va = va
  BY OutcomeIs
<1>2. va # NULL
  BY Freeing
<1>3. DOMAIN f \subseteq Int /\ \A u \in DOMAIN f : ~InBlocks(u) => k.flag
  BY DEF Consistent
<1>4. DOMAIN g = DOMAIN f /\ g[va] = size /\ \A u \in DOMAIN f : u # va => g[u] = f[u]
  BY DEF With, Without
<1>5. DOMAIN w = DOMAIN f /\ w[va] = size /\ \A u \in DOMAIN f : u # va => w[u] = f[u]
  BY DEF With
<1>6. H \subseteq DOMAIN f
  BY DEF HeldIn
<1> HIDE DEF g, w, r
<1>7. HeldIn(g) = H /\ \A u \in H : g[u] = w[u]
  BY <1>4, <1>5, <1>6 DEF HeldIn
<1>8. Sound(k2, H, w)
  BY DEF w
<1> HIDE DEF H
<1>9. k2.flag \/ \A u \in DOMAIN g : InBlocks(u)
  BY <1>3, <1>4
<1>10. Consistent(k2, g)
  BY <1>3, <1>4, <1>7, <1>8, <1>9, ConsistentAs
<1>11. QED
  BY <1>1, <1>2, <1>10 DEF Reallocs, g, r

\* The blocks that are owned, with the one at va.
HeldAs(k, H, w, va, B, z) ==
  /\ OwnedAs(k.da, H \union NodesOf(k.list), Needs(H, NodesOf(k.list), w), B, z)
  /\ Tiled(k.da, B, z, H \union NodesOf(k.list), 0)
  /\ Header(k.da, va) = z[va] + 1 /\ z[va] \in Evens /\ z[va] \in Int

\* A block is found among the others.
LEMMA HeldBlock ==
  ASSUME NEW k, NEW H, NEW w, Sound(k, H, w), NEW va \in H
  PROVE  \E B, z : HeldAs(k, H, w, va, B, z)
<1> DEFINE U == H \union NodesOf(k.list)
           c == Needs(H, NodesOf(k.list), w)
<1>1. InUse(k, U, c) /\ va \in U
  BY DEF Sound
<1> HIDE DEF c, U
<1>2. Owned(k.da, U, c)
  BY <1>1, UsedUp
<1>3. PICK B, z : OwnedAs(k.da, U, c, B, z)
  BY <1>2 DEF Owned
<1>4. Tiled(k.da, B, z, U, 0)
  BY <1>3 DEF OwnedAs
<1>5. z[va] \in Evens /\ z[va] \in Int
  BY <1>1, <1>4, TiledTypes
<1>6. Surrounded(k.da, B, z, U, va)
  BY <1>1, <1>4, Surroundings
<1>7. Header(k.da, va) = z[va] + 1
  BY <1>6 DEF Surrounded
<1>8. HeldAs(k, H, w, va, B, z)
  BY <1>3, <1>4, <1>5, <1>7 DEF HeldAs, U, c
<1>9. QED
  BY <1>8

\* A block that was resized.
LEMMA SoundResize ==
  ASSUME NEW k, NEW H, NEW w, Sound(k, H, w), NEW va \in H, NEW B, NEW z, HeldAs(k, H, w, va, B, z),
         NEW n \in Int, NEW k2, Kernel(k2), k2.list = k.list, k2.flag = k.flag,
         Resized(k2.da, k.da, z, H \union NodesOf(k.list), va, n), NEW size \in Nat, size <= n
  PROVE  Sound(k2, H, With(w, va, size))
<1> DEFINE N == NodesOf(k.list)
           U == H \union N
           c == Needs(H, N, w)
           v == With(w, va, size)
           d == Needs(H, N, v)
           c2 == With(c, va, size)
<1>1. /\ InUse(k, U, c) /\ H \intersect N = {} /\ Listed(k.list) /\ (~k.flag => k.list = <<>>)
      /\ H \subseteq DOMAIN w
  BY DEF Sound
<1>2. k.da.brk \in Int /\ k.da.brk <= HARD_LIMIT
  BY <1>1 DEF InUse
<1>3. OwnedAs(k.da, U, c, B, z) /\ va \in U /\ Resized(k2.da, k.da, z, U, va, n)
  BY DEF HeldAs
<1>4. DOMAIN v = DOMAIN w \union {va} /\ v[va] = size /\ \A u \in H : u # va => v[u] = w[u]
  BY <1>1 DEF With
<1>5. H \subseteq DOMAIN v
  BY <1>1, <1>4
<1>6. DOMAIN d = U /\ \A u \in U : d[u] = c2[u]
  <2>1. DOMAIN d = U /\ \A u \in U : d[u] = IF u \in H THEN v[u] ELSE NodeSize
    BY DEF Needs
  <2>2. DOMAIN c = U /\ \A u \in U : c[u] = IF u \in H THEN w[u] ELSE NodeSize
    BY DEF Needs
  <2> HIDE DEF c, d, v
  <2>3. \A u \in U : c2[u] = IF u = va THEN size ELSE c[u]
    BY <2>2 DEF With
  <2>4. \A u \in H : d[u] = c2[u]
    BY <1>4, <2>1, <2>2, <2>3
  <2>5. \A u \in N : u # va /\ u \notin H
    BY <1>1
  <2>6. \A u \in N : d[u] = c2[u]
    BY <2>1, <2>2, <2>3, <2>5
  <2>7. QED
    BY <2>1, <2>4, <2>6
<1> HIDE DEF c, d, v, U, c2
<1>7. Owned(k2.da, U, c2) /\ k2.da.brk = k.da.brk
  BY <1>3, OwnedResized DEF c2
<1>8. k2.da.up
  BY <1>7, TiledTypes DEF Owned, OwnedAs
<1>9. InUse(k2, U, c2)
  BY <1>2, <1>7, <1>8 DEF InUse
<1>10. InUse(k2, U, d)
  BY <1>6, <1>9, SameUse
<1>11. QED
  BY <1>1, <1>5, <1>10 DEF Sound, U, d, v

\* A change of the block allocator alone.
LEMMA SetBlocks ==
  ASSUME NEW k, Kernel(k), NEW d
  PROVE  LET e == [k EXCEPT !.da = d]
         IN  Kernel(e) /\ e.da = d /\ e.list = k.list /\ e.flag = k.flag
BY DEF Kernel

\* The next even number.
NextEven(size) == IF size % 2 = 1 THEN size + 1 ELSE size

\* A block is resized, in place or by moving.
LEMMA ReallocBlock ==
  ASSUME NEW k, NEW f, Consistent(k, f), NEW va \in HeldIn(f), NEW size \in Nat, size >= 8,
         size + 24 <= PAGE_SIZE, Header(k.da, va) - 1 - (NextEven(size) + 8) \notin 1 .. 15,
         LinksSurvive(k.da, va, NextEven(size))
  PROVE  Reallocs(realloc_block_FF(k, va, size), f, va, size)
<1> DEFINE H == HeldIn(f)
           U == H \union NodesOf(k.list)
           even == NextEven(size)
           r == realloc_block_FF(k, va, size)
           q == kmalloc_block(k, even, "FF")
<1>1. Sound(k, H, f) /\ va \in DOMAIN f
  BY DEF Consistent, HeldIn
<1>2. Kernel(k)
  BY <1>1, HeldBelow
<1>3. PICK B, z : HeldAs(k, H, f, va, B, z)
  BY <1>1, HeldBlock
<1>4. /\ Tiled(k.da, B, z, U, 0) /\ va \in U
      /\ Header(k.da, va) = z[va] + 1 /\ z[va] \in Evens /\ z[va] \in Int
  BY <1>3 DEF HeldAs
<1>5. even \in Int /\ even \in Nat /\ even \in Evens /\ size \in Nat /\ size <= even /\ even >= 8
  BY DEF NextEven, Evens
<1>6. even + 24 <= PAGE_SIZE
  <2> DEFINE P == PAGE_SIZE
  <2>1. P \in Nat /\ P % 2 = 0 /\ size + 24 <= P
    BY PageType
  <2> HIDE DEF P
  <2>2. size + 24 <= P /\ (size % 2 = 1 => size + 25 <= P)
    BY <2>1
  <2>3. QED
    BY <2>2 DEF NextEven, P
<1>survive. LinksSurvive(k.da, va, even)
  OBVIOUS
<1>7. z[va] - (even + 8) \notin 1 .. 15
  <2> DEFINE h == Header(k.da, va)
  <2>1. h - 1 - (even + 8) \notin 1 .. 15 /\ h = z[va] + 1
    BY <1>4
  <2> HIDE DEF h, even
  <2>2. h - 1 - (even + 8) = z[va] - (even + 8)
    BY <1>4, <1>5, <2>1
  <2>3. QED
    BY <2>1, <2>2
<1>8. r = IF even + 8 = z[va] THEN Returns(k, va)
          ELSE IF even + 8 < z[va] THEN Returns([k EXCEPT !.da = shrink(k.da, va, even)], va)
          ELSE IF NextIsEnough(k.da, va, even)
               THEN Returns([k EXCEPT !.da = absorb(k.da, va, even)], va)
          ELSE move(va, q, "FF")
  <2> DEFINE actual == Header(k.da, va) - 1
  <2>1. actual = z[va]
    BY <1>4
  <2>2. r = IF even + 8 = actual THEN Returns(k, va)
            ELSE IF even + 8 < actual THEN Returns([k EXCEPT !.da = shrink(k.da, va, even)], va)
            ELSE IF NextIsEnough(k.da, va, even)
                 THEN Returns([k EXCEPT !.da = absorb(k.da, va, even)], va)
            ELSE move(va, q, "FF")
    BY DEF realloc_block_FF, NextEven
  <2> HIDE DEF actual, even, q, r
  <2>3. QED
    BY <2>1, <2>2
<1> HIDE DEF even, r, q, U, H
<1>9. CASE even + 8 = z[va]
  <2>1. Resized(k.da, k.da, z, U, va, even)
    <3>1. z[va] >= even + 8
      BY <1>4, <1>5, <1>9
    <3>2. ResizedAs(k.da, k.da.brk, z, U, va, even, B, z)
      BY <1>4, <3>1 DEF ResizedAs
    <3>3. QED
      BY <3>2 DEF Resized
  <2>2. Sound(k, H, With(f, va, size))
    BY <1>1, <1>2, <1>3, <1>4, <1>5, <2>1, SoundResize DEF U, H
  <2>3. Reallocs(Returns(k, va), f, va, size)
    BY <1>1, <2>2, InPlace DEF H
  <2>4. QED
    BY <1>8, <1>9, <2>3 DEF r
<1>10. CASE even + 8 < z[va]
  <2> DEFINE d == shrink(k.da, va, even)
             e == [k EXCEPT !.da = d]
  <2>1. z[va] >= even + 24
    BY <1>4, <1>5, <1>7, <1>10
  <2>2. Resized(d, k.da, z, U, va, even)
    BY <1>4, <1>5, <2>1, ShrinkBlock
  <2> HIDE DEF d
  <2>3. Kernel(e) /\ e.da = d /\ e.list = k.list /\ e.flag = k.flag
    BY <1>2, SetBlocks
  <2> HIDE DEF e
  <2>4. Resized(e.da, k.da, z, U, va, even)
    BY <2>2, <2>3
  <2>5. Sound(e, H, With(f, va, size))
    BY <1>1, <1>3, <1>4, <1>5, <2>3, <2>4, SoundResize DEF U, H
  <2>6. Reallocs(Returns(e, va), f, va, size)
    BY <1>1, <2>3, <2>5, InPlace DEF H
  <2>7. ~(even + 8 = z[va])
    BY <1>4, <1>5, <1>10
  <2>8. QED
    BY <1>8, <1>10, <2>6, <2>7 DEF r, e, d
<1>11. CASE ~(even + 8 = z[va]) /\ ~(even + 8 < z[va])
  <2>1. even + 8 > z[va]
    BY <1>4, <1>5, <1>11
  <2>2. CASE NextIsEnough(k.da, va, even)
    <3> DEFINE d == absorb(k.da, va, even)
               e == [k EXCEPT !.da = d]
    <3>1. Resized(d, k.da, z, U, va, even)
      BY <1>4, <1>5, <1>survive, <2>1, <2>2, AbsorbBlock
    <3> HIDE DEF d
    <3>2. Kernel(e) /\ e.da = d /\ e.list = k.list /\ e.flag = k.flag
      BY <1>2, SetBlocks
    <3> HIDE DEF e
    <3>3. Resized(e.da, k.da, z, U, va, even)
      BY <3>1, <3>2
    <3>4. Sound(e, H, With(f, va, size))
      BY <1>1, <1>3, <1>4, <1>5, <3>2, <3>3, SoundResize DEF U, H
    <3>5. Reallocs(Returns(e, va), f, va, size)
      BY <1>1, <3>2, <3>4, InPlace DEF H
    <3>6. QED
      BY <1>8, <1>11, <2>2, <3>5 DEF r, e, d
  <2>3. CASE ~NextIsEnough(k.da, va, even)
    <3>1. Gives(q, k, H, f, even)
      BY <1>1, <1>5, <1>6, GiveBlock DEF q
    <3>2. GivesNew(q, f, size)
      BY <1>5, <3>1, Giving DEF H
    <3>3. Reallocs(move(va, q, "FF"), f, va, size)
      BY <1>1, <3>2, Moving
    <3>4. QED
      BY <1>8, <1>11, <2>3, <3>3 DEF r
  <2>4. QED
    BY <2>2, <2>3
<1>12. QED
  BY <1>9, <1>10, <1>11

\* krealloc() of what the caller has, to a size that is not 0.
LEMMA Kreallocs ==
  ASSUME NEW k, NEW f, Consistent(k, f), NEW va \in DOMAIN f, NEW size \in Nat, size # 0,
         ReallocWorks(k, va, size), NEW strat
  PROVE  Reallocs(krealloc(k, va, size, strat), f, va, size)
<1> DEFINE H == HeldIn(f)
           M == DYN_ALLOC_MAX_BLOCK_SIZE
           old == IF va < k.da.brk THEN Header(k.da, va) - 9 ELSE PAGE_SIZE
           q == kmalloc(k, size, strat)
           r == krealloc(k, va, size, strat)
<1>1. Sound(k, H, f) /\ va \in Int
  BY DEF Consistent
<1>2. va # NULL
  BY Freeing
<1>3. /\ k.da.brk \in Int /\ k.da.brk <= HARD_LIMIT /\ Kernel(k)
      /\ \A u \in H : u >= First /\ u < k.da.brk
  BY <1>1, HeldBelow
<1>4. HARD_LIMIT \in Int /\ First \in Int /\ First = KERNEL_HEAP_START + 8 /\ KERNEL_HEAP_START \in Int
  BY LimitType, StartType
<1>5. va \in H <=> va < k.da.brk
  <2>1. ASSUME va < k.da.brk
        PROVE  va \in H
    BY <1>1, <1>3, <1>4, <2>1 DEF HeldIn, InBlocks
  <2>2. QED
    BY <1>3, <2>1
<1> HIDE DEF H
<1>6. r = IF size = old THEN Returns(k, va)
          ELSE IF va < k.da.brk /\ size <= M THEN realloc_block_FF(k, va, size)
          ELSE move(va, q, strat)
  BY <1>2 DEF krealloc
<1> HIDE DEF r, q, M
<1>7. CASE size = old
  <2>1. CASE va \in H
    <3>1. PICK B, z : HeldAs(k, H, f, va, B, z)
      BY <1>1, <2>1, HeldBlock
    <3> DEFINE U == H \union NodesOf(k.list)
    <3>2. Tiled(k.da, B, z, U, 0) /\ Header(k.da, va) = z[va] + 1 /\ z[va] \in Int
      BY <3>1 DEF HeldAs
    <3>3. size = Header(k.da, va) - 9
      BY <1>5, <1>7, <2>1
    <3>4. z[va] >= size + 8 /\ size \in Nat /\ size <= size /\ size \in Int
      <4>1. size = z[va] - 8
        BY <3>2, <3>3
      <4>2. QED
        BY <3>2, <4>1
    <3>5. ResizedAs(k.da, k.da.brk, z, U, va, size, B, z)
      BY <3>2, <3>4 DEF ResizedAs
    <3>6. Resized(k.da, k.da, z, U, va, size)
      BY <3>5 DEF Resized
    <3>7. Sound(k, H, With(f, va, size))
      BY <1>1, <1>3, <2>1, <3>1, <3>4, <3>6, SoundResize
    <3>8. Reallocs(Returns(k, va), f, va, size)
      BY <3>7, InPlace DEF H
    <3>9. r = Returns(k, va)
      BY <1>6, <1>7
    <3>10. QED
      BY <3>8, <3>9 DEF r
  <2>2. CASE va \notin H
    <3> DEFINE w == With(f, va, size)
    <3>1. H \subseteq DOMAIN f
      BY DEF HeldIn, H
    <3>2. H \subseteq DOMAIN w /\ \A u \in H : w[u] = f[u]
      BY <2>2, <3>1 DEF With
    <3> HIDE DEF w
    <3>3. Sound(k, H, w)
      BY <1>1, <3>2, SoundLess
    <3>4. Reallocs(Returns(k, va), f, va, size)
      BY <3>3, InPlace DEF H, w
    <3>5. r = Returns(k, va)
      BY <1>6, <1>7
    <3>6. QED
      BY <3>4, <3>5 DEF r
  <2>3. QED
    BY <2>1, <2>2
<1> HIDE DEF old
<1>8. CASE size # old /\ va < k.da.brk /\ size <= M
  <2>1. r = realloc_block_FF(k, va, size)
    BY <1>6, <1>8
  <2>2. /\ size >= 8 /\ Header(k.da, va) - 1 - (NextEven(size) + 8) \notin 1 .. 15
        /\ LinksSurvive(k.da, va, NextEven(size))
    <3>1. ~(va > HARD_LIMIT)
      BY <1>1, <1>3, <1>4, <1>8
    <3>2. QED
      BY <1>2, <1>8, <3>1 DEF ReallocWorks, NextEven, DYN_ALLOC_MIN_BLOCK_SIZE, M
  <2>3. size + 24 <= PAGE_SIZE
    BY <1>8, PageType DEF M
  <2>4. QED
    BY <1>5, <1>8, <2>1, <2>2, <2>3, ReallocBlock DEF r, H
<1>9. CASE size # old /\ ~(va < k.da.brk /\ size <= M)
  <2>1. Gives(q, k, H, f, size)
    BY <1>1, Kmallocs DEF q
  <2>2. GivesNew(q, f, size)
    BY <2>1, Giving DEF H
  <2>3. Reallocs(move(va, q, strat), f, va, size)
    BY <2>2, Moving
  <2>4. QED
    BY <1>6, <1>9, <2>3 DEF r
<1>10. QED
  BY <1>7, <1>8, <1>9

-----------------------------------------------------------------------------
(* The blocks of the heap *)

\* The inductive invariant: the blocks are in order, whoever holds them.
KHeapInv == Consistent(kh, live)

\* The list of a heap that was just set up.
LEMMA SoundStart ==
  ASSUME NEW k, InUse(k, {}, <<>>), k.list = <<>>, NEW f, DOMAIN f = {}
  PROVE  Consistent(k, f)
<1>1. HeldIn(f) = {} /\ DOMAIN f \subseteq Int /\ \A va \in DOMAIN f : InBlocks(va)
  BY DEF HeldIn
<1>2. NodesOf(k.list) = {}
  BY DEF NodesOf
<1>3. Listed(k.list)
  <2>1. k.list \in Seq(Element({}))
    OBVIOUS
  <2>2. DOMAIN k.list = {}
    OBVIOUS
  <2>3. QED
    BY <2>1, <2>2 DEF Listed, IsList
<1> DEFINE c == Needs({}, {}, f)
<1>4. Kernel(k)
  BY DEF InUse
<1>5. InUse(k, {}, c)
  BY <1>4, SameUse
<1>6. Sound(k, {}, f)
  <2>1. {} \union NodesOf(k.list) = {} /\ {} \intersect NodesOf(k.list) = {} /\ {} \subseteq DOMAIN f
    BY <1>2
  <2>2. QED
    BY <1>2, <1>3, <1>5, <2>1 DEF Sound
<1>7. QED
  BY <1>1, <1>6, ConsistentAs

\* The heap as the kernel sets it up.
LEMMA KHeapInit ==
  Init => KHeapInv
<1> SUFFICES ASSUME Init PROVE KHeapInv
  OBVIOUS
<1>1. PICK pages \in 0 .. 1 : kh = initialize_kheap_dynamic_allocator(pages) /\ live = <<>>
  BY DEF Init
<1> DEFINE d(b) == [mem |-> <<>>, fbl |-> <<>>, brk |-> b, up |-> FALSE]
           b0 == KERNEL_HEAP_START + pages * PAGE_SIZE
           i == initialize_dynamic_allocator(d(b0), KERNEL_HEAP_START, pages * PAGE_SIZE)
<1>2. Kernel(kh) /\ kh.da = i /\ kh.list = <<>>
  BY <1>1 DEF initialize_kheap_dynamic_allocator, Kernel
<1>3. KERNEL_HEAP_START \in Int /\ PAGE_SIZE \in Int /\ First = KERNEL_HEAP_START + 8
  BY StartType, PageType
<1>4. HARD_LIMIT \in Int /\ HARD_LIMIT > First /\ HARD_LIMIT >= KERNEL_HEAP_START + PAGE_SIZE
  <2>1. BlockPages * PAGE_SIZE >= PAGE_SIZE
    <3> DEFINE P == PAGE_SIZE
               x == BlockPages
    <3>1. P \in Nat /\ x \in Nat /\ x >= 1
      BY PageType, KHeapAssumption
    <3> HIDE DEF P, x
    <3>2. x * P >= P
      BY <3>1
    <3>3. QED
      BY <3>2 DEF P, x
  <2> DEFINE x == BlockPages * PAGE_SIZE
  <2>2. x \in Int
    BY PageType, KHeapAssumption
  <2>3. x >= PAGE_SIZE /\ HARD_LIMIT = KERNEL_HEAP_START + x
    BY <2>1 DEF HARD_LIMIT
  <2> HIDE DEF x
  <2>4. QED
    BY <1>3, <2>2, <2>3, LimitType
<1> HIDE DEF i
<1>5. CASE pages = 0
  <2>1. pages * PAGE_SIZE = 0 /\ b0 = KERNEL_HEAP_START
    BY <1>3, <1>5
  <2> HIDE DEF b0, d
  <2>2. i = d(b0)
    BY <2>1 DEF i, initialize_dynamic_allocator
  <2>3. d(b0) = Blank
    BY <2>1 DEF d, Blank
  <2>4. Blank.brk = KERNEL_HEAP_START /\ ~Blank.up
    BY DEF Blank
  <2>5. InUse(kh, {}, <<>>)
    BY <1>2, <1>3, <1>4, <2>2, <2>3, <2>4 DEF InUse
  <2>6. QED
    BY <1>1, <1>2, <2>5, SoundStart DEF KHeapInv
<1>6. CASE pages = 1
  <2>1. pages * PAGE_SIZE = PAGE_SIZE /\ b0 = KERNEL_HEAP_START + PAGE_SIZE
    BY <1>3, <1>6
  <2>2. d(b0) = Fresh
    <3>1. Fresh = [d(KERNEL_HEAP_START) EXCEPT !.brk = b0]
      BY <2>1 DEF Fresh, Broke, Blank
    <3>2. QED
      BY <3>1
  <2> HIDE DEF b0, d
  <2>3. i = initialize_dynamic_allocator(Fresh, KERNEL_HEAP_START, PAGE_SIZE)
    BY <2>1, <2>2 DEF i
  <2>4. Tiled(i, {First}, OnlyBlock, {}, 0) /\ i.brk = KERNEL_HEAP_START + PAGE_SIZE
    BY <2>3, StartTiled
  <2>5. i.up
    BY <2>4, TiledTypes
  <2>6. Owned(i, {}, <<>>)
    BY <2>4 DEF Owned, OwnedAs, Fits
  <2>7. InUse(kh, {}, <<>>)
    BY <1>2, <1>3, <1>4, <2>4, <2>5, <2>6 DEF InUse
  <2>8. QED
    BY <1>1, <1>2, <2>7, SoundStart DEF KHeapInv
<1>7. QED
  BY <1>5, <1>6

\* Every call keeps it.
LEMMA KHeapStep ==
  KHeapInv /\ [Next]_vars => KHeapInv'
<1> SUFFICES ASSUME KHeapInv, [Next]_vars PROVE KHeapInv'
  OBVIOUS
<1>1. Consistent(kh, live)
  BY DEF KHeapInv
<1>2. Sizes \subseteq Nat
  BY KHeapAssumption
<1>3. ASSUME NEW size \in Nat, NEW r, r = kmalloc(kh, size, strategy)
      PROVE  GivesNew(r, live, size)
  <2>1. Sound(kh, HeldIn(live), live)
    BY <1>1 DEF Consistent
  <2>2. Gives(r, kh, HeldIn(live), live, size)
    BY <1>3, <2>1, Kmallocs
  <2>3. size \in Nat /\ size <= size
    OBVIOUS
  <2>4. QED
    BY <1>1, <2>2, <2>3, Giving
<1>4. ASSUME NEW va \in DOMAIN live, NEW r, r = kfree(kh, va, strategy)
      PROVE  Consistent(r.kh, Without(live, va))
  <2>1. Frees(r, kh, HeldIn(live) \ {va}, live)
    BY <1>1, <1>4, Freeing
  <2>2. QED
    BY <1>1, <2>1, FreesAll
<1>5. NULL \notin DOMAIN live
  BY <1>1, Freeing
<1>6. ASSUME NEW size \in Sizes, Kmalloc(size)
      PROVE  KHeapInv'
  <2>1. PICK r \in {kmalloc(kh, size, strategy)} :
          kh' = r.kh /\ live' = IF r.va = NULL THEN live ELSE With(live, r.va, size)
    BY <1>6 DEF Kmalloc
  <2>2. GivesNew(r, live, size)
    BY <1>2, <1>3, <2>1
  <2>3. Consistent(kh', live')
    BY <2>1, <2>2 DEF GivesNew
  <2>4. QED
    BY <2>3 DEF KHeapInv
<1>7. ASSUME NEW va \in DOMAIN live, Kfree(va)
      PROVE  KHeapInv'
  <2>1. PICK r \in {kfree(kh, va, strategy)} : kh' = r.kh
    BY <1>7 DEF Kfree
  <2>2. live' = Without(live, va)
    BY <1>7 DEF Kfree
  <2>3. Consistent(kh', live')
    BY <1>4, <2>1, <2>2
  <2>4. QED
    BY <2>3 DEF KHeapInv
<1>8. ASSUME NEW va \in DOMAIN live \union {NULL}, NEW size \in Sizes \union {0}, Krealloc(va, size)
      PROVE  KHeapInv'
  <2>1. PICK r \in {krealloc(kh, va, size, strategy)} :
          /\ kh' = r.kh
          /\ live' = IF size = 0 THEN Without(live, va)
                     ELSE IF r.va = NULL THEN live
                     ELSE With(Without(live, va), r.va, size)
    BY <1>8 DEF Krealloc, Resize
  <2>2. ReallocWorks(kh, va, size) /\ (va = NULL => size # 0) /\ size \in Nat
    BY <1>2, <1>8 DEF Krealloc, Resize
  <2>3. CASE size = 0
    <3>1. va \in DOMAIN live
      BY <2>2, <2>3
    <3>2. r = kfree(kh, va, strategy)
      BY <2>1, <2>3 DEF krealloc
    <3>3. Consistent(r.kh, Without(live, va))
      BY <1>4, <3>1, <3>2
    <3>4. Consistent(kh', live')
      BY <2>1, <2>3, <3>3
    <3>5. QED
      BY <3>4 DEF KHeapInv
  <2>4. CASE size # 0 /\ va = NULL
    <3>1. r = kmalloc(kh, size, strategy)
      BY <2>1, <2>4 DEF krealloc
    <3>2. GivesNew(r, live, size)
      BY <1>3, <2>2, <3>1
    <3>3. With(Without(live, va), r.va, size) = With(live, r.va, size)
      <4>1. DOMAIN Without(live, va) = DOMAIN live /\ \A u \in DOMAIN live : Without(live, va)[u] = live[u]
        BY <1>5, <2>4 DEF Without
      <4>2. QED
        BY <4>1 DEF With
    <3>4. Consistent(kh', live')
      BY <2>1, <2>4, <3>2, <3>3 DEF GivesNew
    <3>5. QED
      BY <3>4 DEF KHeapInv
  <2>5. CASE size # 0 /\ va # NULL
    <3>1. va \in DOMAIN live
      BY <2>5
    <3>2. Reallocs(r, live, va, size)
      BY <1>1, <2>1, <2>2, <2>5, <3>1, Kreallocs
    <3>3. Consistent(kh', live')
      BY <2>1, <2>5, <3>2 DEF Reallocs
    <3>4. QED
      BY <3>3 DEF KHeapInv
  <2>6. QED
    BY <2>3, <2>4, <2>5
<1>9. ASSUME NEW s \in Strategies, SetStrategy(s)
      PROVE  KHeapInv'
  BY <1>1, <1>9 DEF SetStrategy, KHeapInv
<1>10. CASE UNCHANGED vars
  BY <1>1, <1>10 DEF vars, KHeapInv
<1>11. QED
  BY <1>6, <1>7, <1>8, <1>9, <1>10 DEF Next

\* The invariant holds of every behaviour.
LEMMA KHeapAlways ==
  Spec => []KHeapInv
BY KHeapInit, KHeapStep, PTL DEF Spec

-----------------------------------------------------------------------------
(* Following the tags *)

\* The sets that contain what follows each of their elements.
Closed(C, D, G, nx) == C \subseteq D /\ \A a \in C : a \in G => nx[a] \in C

Reached(a, D, G, nx) == {b \in D : \A C \in SUBSET D : a \in C /\ Closed(C, D, G, nx) => b \in C}

\* What is met from a is a, and what is met from the place after it.
LEMMA ReachedFrom ==
  ASSUME NEW D, NEW G \in SUBSET D, NEW nx, \A a \in G : nx[a] \in D, NEW a \in D
  PROVE  /\ a \in G => Reached(a, D, G, nx) = {a} \union Reached(nx[a], D, G, nx)
         /\ a \notin G => Reached(a, D, G, nx) = {a}
<1> DEFINE R(x) == Reached(x, D, G, nx)
<1>1. \A x \in D : R(x) \subseteq D /\ x \in R(x)
  BY DEF Reached
<1>2. \A x \in D : Closed(R(x), D, G, nx)
  <2>1. ASSUME NEW x \in D, NEW b \in R(x), b \in G
        PROVE  nx[b] \in R(x)
    <3>1. nx[b] \in D
      BY <2>1
    <3>2. ASSUME NEW C \in SUBSET D, x \in C /\ Closed(C, D, G, nx)
          PROVE  nx[b] \in C
      <4>1. b \in C
        BY <3>2 DEF Reached
      <4>2. QED
        BY <2>1, <3>2, <4>1 DEF Closed
    <3>3. QED
      BY <3>1, <3>2 DEF Reached
  <2>2. QED
    BY <1>1, <2>1 DEF Closed
<1>3. ASSUME NEW x \in D, NEW C \in SUBSET D, x \in C, Closed(C, D, G, nx)
      PROVE  R(x) \subseteq C
  BY <1>3 DEF Reached
<1> HIDE DEF R
<1>4. ASSUME a \in G
      PROVE  R(a) = {a} \union R(nx[a])
  <2> DEFINE C == {a} \union R(nx[a])
  <2>1. nx[a] \in D
    BY <1>4
  <2>2. C \in SUBSET D /\ a \in C
    BY <1>1, <2>1
  <2>3. Closed(C, D, G, nx)
    <3>1. nx[a] \in C
      BY <1>1, <2>1
    <3>2. \A b \in R(nx[a]) : b \in G => nx[b] \in R(nx[a])
      BY <1>2, <2>1 DEF Closed
    <3>3. QED
      BY <2>2, <3>1, <3>2 DEF Closed
  <2>4. R(a) \subseteq C
    BY <1>3, <2>2, <2>3
  <2>5. nx[a] \in R(a) /\ R(a) \in SUBSET D /\ Closed(R(a), D, G, nx)
    <3>1. Closed(R(a), D, G, nx) /\ a \in R(a) /\ R(a) \subseteq D
      BY <1>1, <1>2
    <3>2. QED
      BY <1>4, <3>1 DEF Closed
  <2>6. R(nx[a]) \subseteq R(a)
    BY <1>3, <2>1, <2>5
  <2>7. QED
    BY <1>1, <2>4, <2>6
<1>5. ASSUME a \notin G
      PROVE  R(a) = {a}
  <2>1. Closed({a}, D, G, nx) /\ {a} \in SUBSET D
    BY <1>5 DEF Closed
  <2>2. R(a) \subseteq {a}
    BY <1>3, <2>1
  <2>3. QED
    BY <1>1, <2>2
<1>6. QED
  BY <1>4, <1>5 DEF R

\* A walk that collects what each place has to offer is well defined, wherever it leads.
WalkOf(f, D, G, nx, out) == f = [a \in D |-> IF a \in G THEN out[a] \union f[nx[a]] ELSE out[a]]

(* A walk along addresses that only grow, within a bound, exists as a function. *)
LEMMA WalkExists ==
  ASSUME NEW D, NEW G \in SUBSET D, NEW nx, \A a \in G : nx[a] \in D, NEW out
  PROVE  \E f : WalkOf(f, D, G, nx, out)
<1> DEFINE R(x) == Reached(x, D, G, nx)
           f == [a \in D |-> UNION {out[b] : b \in R(a)}]
           h == [a \in D |-> IF a \in G THEN out[a] \union f[nx[a]] ELSE out[a]]
<1>1. ASSUME NEW a \in D
      PROVE  /\ a \in G => R(a) = {a} \union R(nx[a])
             /\ a \notin G => R(a) = {a}
  BY ReachedFrom
<1> HIDE DEF R
<1>2. ASSUME NEW a \in D
      PROVE  f[a] = h[a]
  <2>1. CASE a \in G
    <3>1. nx[a] \in D /\ R(a) = {a} \union R(nx[a])
      BY <1>1, <2>1
    <3>2. f[a] = UNION {out[b] : b \in {a} \union R(nx[a])}
      BY <3>1
    <3>3. f[nx[a]] = UNION {out[b] : b \in R(nx[a])}
      BY <3>1
    <3>4. UNION {out[b] : b \in {a} \union R(nx[a])} = out[a] \union UNION {out[b] : b \in R(nx[a])}
      OBVIOUS
    <3>5. h[a] = out[a] \union f[nx[a]]
      BY <2>1
    <3> HIDE DEF f, h
    <3>6. QED
      BY <3>2, <3>3, <3>4, <3>5
  <2>2. CASE a \notin G
    <3>1. R(a) = {a}
      BY <1>1, <2>2
    <3>2. f[a] = UNION {out[b] : b \in {a}}
      BY <3>1
    <3>3. UNION {out[b] : b \in {a}} = out[a]
      OBVIOUS
    <3>4. QED
      BY <2>2, <3>2, <3>3
  <2>3. QED
    BY <2>1, <2>2
<1>3. f = h
  BY <1>2
<1>4. QED
  BY <1>3 DEF WalkOf

\* The place after the tag at a, and what a tag has to offer.
TagEnd(da, a) == a + da.mem[a] - (da.mem[a] % 2)
GoesOn(da, a) == a # Garbage /\ a # da.brk - 4 /\ ~(da.mem[a] < 16 \/ TagEnd(da, a) > da.brk - 4)
OrGarbage(da, a) == IF a \in DOMAIN da.mem THEN a ELSE Garbage
Offers(da, a) == IF GoesOn(da, a) THEN {a + 4}
                 ELSE IF a # Garbage /\ a = da.brk - 4 /\ da.mem[a] = 1 THEN {} ELSE {Garbage}

\* What the walk of Tiles() meets from each tag.
Walk(f, da) ==
  \A a \in DOMAIN da.mem :
    f[a] = IF GoesOn(da, a) THEN {a + 4} \union f[OrGarbage(da, TagEnd(da, a))] ELSE Offers(da, a)

(* Tiles() is such a walk: from the first block on by the sizes in the headers. *)
LEMMA TilesWalk ==
  ASSUME NEW da, NEW start
  PROVE  \E f : Walk(f, da) /\ Tiles(da, start) = f[OrGarbage(da, start + 4)]
<1> DEFINE D == DOMAIN da.mem \union {Garbage}
           body(f, a) ==
             IF a = Garbage THEN {Garbage}
             ELSE IF a = da.brk - 4 THEN IF da.mem[a] = 1 THEN {} ELSE {Garbage}
             ELSE IF da.mem[a] < 16 \/ TagEnd(da, a) > da.brk - 4 THEN {Garbage}
             ELSE {a + 4} \union f[IF TagEnd(da, a) \in DOMAIN da.mem THEN TagEnd(da, a) ELSE Garbage]
           step == CHOOSE step : step = [a \in D |-> body(step, a)]
           G == {a \in D : GoesOn(da, a)}
           nx == [a \in G |-> OrGarbage(da, TagEnd(da, a))]
           out == [a \in D |-> Offers(da, a)]
<1>1. Tiles(da, start) = step[OrGarbage(da, start + 4)]
  BY DEF Tiles, TagEnd, OrGarbage
<1>2. ASSUME NEW f, NEW a \in D
      PROVE  body(f, a) = IF a \in G THEN out[a] \union f[nx[a]] ELSE out[a]
  <2>1. CASE GoesOn(da, a)
    <3>1. a \in G /\ out[a] = {a + 4} /\ nx[a] = OrGarbage(da, TagEnd(da, a))
      BY <2>1 DEF Offers
    <3>2. body(f, a) = {a + 4} \union f[OrGarbage(da, TagEnd(da, a))]
      BY <2>1 DEF GoesOn, OrGarbage
    <3> HIDE DEF body, G, out, nx
    <3>3. QED
      BY <3>1, <3>2
  <2>2. CASE ~GoesOn(da, a)
    <3>1. a \notin G /\ out[a] = Offers(da, a)
      BY <2>2
    <3>2. body(f, a) = Offers(da, a)
      BY <2>2 DEF GoesOn, Offers
    <3> HIDE DEF body, G, out, nx
    <3>3. QED
      BY <3>1, <3>2
  <2>3. QED
    BY <2>1, <2>2
<1>3. \E f : f = [a \in D |-> body(f, a)]
  <2>1. G \in SUBSET D /\ \A a \in G : nx[a] \in D
    BY DEF OrGarbage
  <2> HIDE DEF G, nx, out, D
  <2>2. PICK f : WalkOf(f, D, G, nx, out)
    BY <2>1, WalkExists
  <2> HIDE DEF body
  <2>3. f = [a \in D |-> body(f, a)]
    BY <1>2, <2>2 DEF WalkOf
  <2>4. QED
    BY <2>3
<1>4. step = [a \in D |-> body(step, a)]
  <2> HIDE DEF body, D
  <2>1. QED
    BY <1>3
<1> HIDE DEF step
<1>5. Walk(step, da)
  <2>1. ASSUME NEW a \in DOMAIN da.mem
        PROVE  step[a] = IF GoesOn(da, a) THEN {a + 4} \union step[OrGarbage(da, TagEnd(da, a))]
                         ELSE Offers(da, a)
    <3>1. a \in D
      OBVIOUS
    <3>2. step[a] = body(step, a)
      <4> HIDE DEF body, D
      <4>1. QED
        BY <1>4, <3>1
    <3> HIDE DEF body
    <3>3. step[a] = IF a \in G THEN out[a] \union step[nx[a]] ELSE out[a]
      BY <1>2, <3>1, <3>2
    <3>4. a \in G <=> GoesOn(da, a)
      BY <3>1
    <3>5. out[a] = Offers(da, a) /\ (a \in G => nx[a] = OrGarbage(da, TagEnd(da, a)))
      BY <3>1
    <3> HIDE DEF G, out, nx
    <3>6. GoesOn(da, a) => Offers(da, a) = {a + 4}
      BY DEF Offers
    <3>7. QED
      BY <3>3, <3>4, <3>5, <3>6
  <2>2. QED
    BY <2>1 DEF Walk
<1>6. QED
  BY <1>1, <1>5

\* The walk meets the blocks.
LEMMA TilesAre ==
  ASSUME NEW da, NEW B, NEW z, NEW U, Tiled(da, B, z, U, 0)
  PROVE  Tiles(da, KERNEL_HEAP_START) = B
<1> DEFINE From(b) == {c \in B : c >= b}
           hi == da.brk
<1>1. /\ U \subseteq B /\ da.mem \in Mems /\ hi \in Int /\ First \in Int
      /\ \A b \in B : /\ b \in Int /\ z[b] \in Int /\ z[b] >= 16 /\ z[b] \in Evens
                      /\ First <= b /\ b + z[b] <= hi
  BY TiledTypes
<1>2. Laid(B, z, First, hi) /\ Tagged(da.mem, B, z, U, hi, 0)
  BY DEF Tiled
<1>3. First = KERNEL_HEAP_START + 8 /\ KERNEL_HEAP_START \in Int /\ First >= 40
  BY StartType
<1>4. PICK f : Walk(f, da) /\ Tiles(da, KERNEL_HEAP_START) = f[OrGarbage(da, KERNEL_HEAP_START + 4)]
  BY TilesWalk
<1> HIDE DEF hi
<1>5. hi - 4 \in DOMAIN da.mem /\ da.mem[hi - 4] = 1 /\ f[hi - 4] = {}
  <2>1. Word(da.mem, hi - 4) = 1
    BY <1>2 DEF Tagged
  <2>2. hi - 4 \in DOMAIN da.mem /\ da.mem[hi - 4] = 1
    BY <2>1 DEF Word, Garbage
  <2>3. hi - 4 # Garbage
    <3>1. First \in B
      BY <1>2 DEF Laid
    <3>2. QED
      BY <1>1, <1>3, <3>1 DEF Garbage
  <2>4. ~GoesOn(da, hi - 4) /\ Offers(da, hi - 4) = {}
    BY <2>2, <2>3 DEF GoesOn, Offers, hi
  <2>5. QED
    BY <1>4, <2>2, <2>4 DEF Walk
<1>6. ASSUME NEW b \in B
      PROVE  /\ b - 4 \in DOMAIN da.mem /\ GoesOn(da, b - 4) /\ TagEnd(da, b - 4) = (b + z[b]) - 4
  <2>1. b \in Int /\ z[b] \in Int /\ z[b] >= 16 /\ z[b] \in Evens /\ First <= b /\ b + z[b] <= hi
    BY <1>1
  <2>2. Word(da.mem, b - 4) = z[b] \/ Word(da.mem, b - 4) = z[b] + 1
    BY <1>2 DEF Tagged, Tags, Tag
  <2>3. b - 4 \in DOMAIN da.mem /\ (da.mem[b - 4] = z[b] \/ da.mem[b - 4] = z[b] + 1)
    <3>1. Word(da.mem, b - 4) # Garbage
      BY <2>1, <2>2 DEF Garbage
    <3>2. b - 4 \in DOMAIN da.mem /\ Word(da.mem, b - 4) = da.mem[b - 4]
      BY <3>1 DEF Word
    <3>3. QED
      BY <2>2, <3>2
  <2> DEFINE t == da.mem[b - 4]
  <2>4. t \in Int /\ t >= 16 /\ t - (t % 2) = z[b]
    <3>1. z[b] - (z[b] % 2) = z[b] /\ (z[b] + 1) - ((z[b] + 1) % 2) = z[b]
      BY <2>1, Flags
    <3> HIDE DEF t
    <3>2. t = z[b] \/ t = z[b] + 1
      BY <2>3 DEF t
    <3>3. QED
      BY <2>1, <3>1, <3>2
  <2>5. TagEnd(da, b - 4) = (b + z[b]) - 4
    <3>1. TagEnd(da, b - 4) = b - 4 + t - (t % 2)
      BY DEF TagEnd
    <3> HIDE DEF t
    <3>2. QED
      BY <2>1, <2>4, <3>1
  <2>6. b - 4 # Garbage /\ b - 4 # hi - 4 /\ ~(t < 16)
    BY <1>1, <1>3, <2>1, <2>4 DEF Garbage
  <2>7. ~(TagEnd(da, b - 4) > hi - 4)
    BY <1>1, <2>1, <2>5
  <2>8. GoesOn(da, b - 4)
    BY <2>6, <2>7 DEF GoesOn, hi
  <2>9. QED
    BY <2>3, <2>5, <2>8
<1>7. \A b \in B : f[b - 4] = From(b)
  <2> DEFINE bad == {b \in B : f[b - 4] # From(b)}
             T == {hi - b : b \in bad}
  <2>1. SUFFICES ASSUME bad # {} PROVE FALSE
    OBVIOUS
  <2>2. T \in SUBSET Nat /\ T # {}
    <3>1. \A b \in bad : hi - b \in Nat
      BY <1>1
    <3>2. QED
      BY <2>1, <3>1
  <2>3. PICK b \in bad : \A c \in bad : hi - b <= hi - c
    <3>1. PICK t \in T : \A y \in T : t <= y
      BY <2>2, LeastNat
    <3>2. QED
      BY <3>1
  <2>4. b \in B /\ f[b - 4] # From(b) /\ b \in Int /\ z[b] \in Int /\ z[b] >= 16 /\ b + z[b] <= hi
    BY <1>1, <2>3
  <2> DEFINE d == b + z[b]
  <2>5. d \in Int /\ d > b
    BY <2>4
  <2>6. d \in B \union {hi}
    BY <1>2, <2>4 DEF Laid
  <2>7. b - 4 \in DOMAIN da.mem /\ GoesOn(da, b - 4) /\ TagEnd(da, b - 4) = d - 4
    BY <1>6, <2>4
  <2>8. f[b - 4] = {b} \union f[d - 4]
    <3>1. d - 4 \in DOMAIN da.mem
      BY <1>5, <1>6, <2>6
    <3>2. OrGarbage(da, d - 4) = d - 4
      BY <3>1 DEF OrGarbage
    <3>3. (b - 4) + 4 = b
      BY <2>4
    <3> HIDE DEF d
    <3>4. f[b - 4] = {(b - 4) + 4} \union f[OrGarbage(da, TagEnd(da, b - 4))]
      BY <1>4, <2>7 DEF Walk
    <3>5. QED
      BY <2>7, <3>2, <3>3, <3>4
  <2>9. f[d - 4] = {c \in B : c >= d}
    <3>1. CASE d = hi
      <4>1. \A c \in B : ~(c >= hi)
        BY <1>1
      <4>2. QED
        BY <1>5, <3>1, <4>1
    <3>2. CASE d \in B
      <4>1. ASSUME d \in bad
            PROVE  FALSE
        BY <1>1, <2>3, <2>4, <2>5, <4>1
      <4>2. QED
        BY <3>2, <4>1
    <3>3. QED
      BY <2>6, <3>1, <3>2
  <2>10. From(b) = {b} \union {c \in B : c >= d}
    <3>1. \A c \in B : b < c => d <= c
      BY <1>2, <2>4 DEF Laid
    <3>2. \A c \in B : c \in Int
      BY <1>1
    <3> HIDE DEF d
    <3>3. ASSUME NEW c \in B
          PROVE  c >= b <=> c = b \/ c >= d
      BY <2>4, <2>5, <3>1, <3>2
    <3>4. QED
      BY <2>4, <3>3
  <2>11. QED
    BY <2>4, <2>8, <2>9, <2>10
<1>8. First \in B /\ From(First) = B
  BY <1>1, <1>2 DEF Laid
<1>9. KERNEL_HEAP_START + 4 = First - 4
  BY <1>3
<1>10. OrGarbage(da, KERNEL_HEAP_START + 4) = First - 4
  BY <1>6, <1>8, <1>9 DEF OrGarbage
<1> HIDE DEF From
<1>11. QED
  BY <1>4, <1>7, <1>8, <1>10

\* The heap of the invariant, block by block.
BlocksAre(B, z) ==
  /\ Tiled(kh.da, B, z, HeldIn(live) \union Nodes, 0) /\ Blocks = B
  /\ Fits(z, HeldIn(live) \union Nodes, Needs(HeldIn(live), Nodes, live))
  /\ FreeTiles = B \ (HeldIn(live) \union Nodes)
  /\ HeldIn(live) \union Nodes \subseteq B
  /\ \A b \in B : /\ b \in Int /\ z[b] \in Int /\ z[b] >= 16 /\ First <= b
                  /\ get_block_size(kh.da, b) = z[b]

(* The walk of Tiles() meets every block, with the size its tags say, and nothing
   else. *)
LEMMA BlocksFound ==
  ASSUME KHeapInv, kh.da.up
  PROVE  \E B, z : BlocksAre(B, z)
<1> DEFINE H == HeldIn(live)
           U == H \union Nodes
           c == Needs(H, Nodes, live)
<1>1. Nodes = NodesOf(kh.list)
  BY DEF Nodes, NodesOf
<1>2. InUse(kh, U, c)
  BY <1>1 DEF KHeapInv, Consistent, Sound
<1> HIDE DEF c, U
<1>3. Owned(kh.da, U, c)
  BY <1>2 DEF InUse
<1>4. PICK B, z : OwnedAs(kh.da, U, c, B, z)
  BY <1>3 DEF Owned
<1>5. Tiled(kh.da, B, z, U, 0) /\ Fits(z, U, c)
  BY <1>4 DEF OwnedAs
<1>6. Blocks = B
  BY <1>5, TilesAre DEF Blocks
<1>7. /\ U \subseteq B
      /\ \A b \in B : b \in Int /\ z[b] \in Int /\ z[b] >= 16 /\ First <= b /\ z[b] \in Evens
  BY <1>5, TiledTypes
<1>8. ASSUME NEW b \in B
      PROVE  get_block_size(kh.da, b) = z[b] /\ (is_free_block(kh.da, b) <=> b \notin U)
  <2>1. Header(kh.da, b) = Tag(z, U, b)
    BY <1>5 DEF Tiled, Tagged, Tags, Header
  <2>2. z[b] % 2 = 0 /\ (z[b] + 1) % 2 = 1 /\ z[b] - (z[b] % 2) = z[b]
        /\ (z[b] + 1) - ((z[b] + 1) % 2) = z[b]
    BY <1>7, Flags
  <2>3. CASE b \in U
    <3>1. Header(kh.da, b) = z[b] + 1
      BY <2>1, <2>3 DEF Tag
    <3>2. QED
      BY <2>2, <2>3, <3>1 DEF get_block_size, is_free_block
  <2>4. CASE b \notin U
    <3>1. Header(kh.da, b) = z[b]
      BY <2>1, <2>4 DEF Tag
    <3>2. QED
      BY <2>2, <2>4, <3>1 DEF get_block_size, is_free_block
  <2>5. QED
    BY <2>3, <2>4
<1>9. FreeTiles = B \ U
  BY <1>6, <1>8 DEF FreeTiles
<1>10. BlocksAre(B, z)
  BY <1>5, <1>6, <1>7, <1>8, <1>9 DEF BlocksAre, U, c
<1>11. QED
  BY <1>10

\* The tags and the list agree.
LEMMA KHeapTiled ==
  KHeapInv => HeapTiled
<1> SUFFICES ASSUME KHeapInv, kh.da.up
             PROVE  /\ Garbage \notin Blocks
                    /\ \A b \in Blocks : Word(kh.da.mem, b + get_block_size(kh.da, b) - 8) = Header(kh.da, b)
                    /\ \A b \in FreeTiles : b + get_block_size(kh.da, b) \notin FreeTiles
                    /\ {kh.da.fbl[i] : i \in DOMAIN kh.da.fbl} = FreeTiles
                    /\ \A i, j \in DOMAIN kh.da.fbl : i < j => kh.da.fbl[i] < kh.da.fbl[j]
  BY DEF HeapTiled
<1> DEFINE U == HeldIn(live) \union Nodes
<1>1. PICK B, z : BlocksAre(B, z)
  BY BlocksFound
<1>2. /\ Tiled(kh.da, B, z, U, 0) /\ Blocks = B /\ FreeTiles = B \ U
      /\ \A b \in B : /\ b \in Int /\ z[b] \in Int /\ z[b] >= 16 /\ First <= b
                      /\ get_block_size(kh.da, b) = z[b]
  BY <1>1 DEF BlocksAre
<1> HIDE DEF U
<1>3. First \in Int /\ First > 0
  BY StartType
<1>4. Garbage \notin Blocks
  BY <1>2, <1>3 DEF Garbage
<1>5. ASSUME NEW b \in Blocks
      PROVE  Word(kh.da.mem, b + get_block_size(kh.da, b) - 8) = Header(kh.da, b)
  <2>1. Tags(kh.da.mem, z, U, b, 0)
    BY <1>2 DEF Tiled, Tagged
  <2>2. b # 0
    BY <1>2, <1>3
  <2>3. get_block_size(kh.da, b) = z[b]
    BY <1>2
  <2>4. QED
    BY <2>1, <2>2, <2>3 DEF Tags, Header
<1>6. ASSUME NEW b \in FreeTiles
      PROVE  b + get_block_size(kh.da, b) \notin FreeTiles
  <2>1. b \in B \ U /\ get_block_size(kh.da, b) = z[b]
    BY <1>2
  <2>2. b + z[b] \in U \union {kh.da.brk}
    BY <1>2, <2>1 DEF Tiled, Apart
  <2>3. kh.da.brk \notin B
    <3>1. kh.da.brk \in Int /\ \A d \in B : d \in Int /\ z[d] \in Int /\ z[d] >= 16 /\ d + z[d] <= kh.da.brk
      BY <1>2, TiledTypes
    <3>2. ASSUME kh.da.brk \in B
          PROVE  FALSE
      BY <3>1, <3>2
    <3>3. QED
      BY <3>2
  <2>4. QED
    BY <1>2, <2>1, <2>2, <2>3
<1>7. {kh.da.fbl[i] : i \in DOMAIN kh.da.fbl} = FreeTiles
  BY <1>2 DEF Tiled, FreeList, Elems
<1>8. \A i, j \in DOMAIN kh.da.fbl : i < j => kh.da.fbl[i] < kh.da.fbl[j]
  BY <1>2 DEF Tiled, FreeList, Ordered
<1>9. QED
  BY <1>4, <1>5, <1>6, <1>7, <1>8

\* The blocks and who holds them.
LEMMA KHeapOwned ==
  KHeapInv => BlocksOwned
<1> DEFINE H == HeldIn(live)
<1> SUFFICES ASSUME KHeapInv, kh.da.up
             PROVE  /\ Blocks \ FreeTiles = H \union Nodes
                    /\ H \intersect Nodes = {}
                    /\ Cardinality(Nodes) = Len(kh.list)
                    /\ \A va \in H : live[va] <= get_block_size(kh.da, va) - 8
                    /\ \A b \in Nodes : get_block_size(kh.da, b) - 8 >= NodeSize
  BY DEF BlocksOwned, HeldIn
<1> DEFINE U == H \union Nodes
           c == Needs(H, Nodes, live)
<1>1. PICK B, z : BlocksAre(B, z)
  BY BlocksFound
<1>2. /\ Blocks = B /\ FreeTiles = B \ U /\ U \subseteq B /\ Fits(z, U, c)
      /\ \A b \in B : b \in Int /\ z[b] \in Int /\ z[b] >= 16 /\ get_block_size(kh.da, b) = z[b]
  BY <1>1 DEF BlocksAre
<1>3. Nodes = NodesOf(kh.list)
  BY DEF Nodes, NodesOf
<1>4. H \intersect Nodes = {} /\ Listed(kh.list)
  BY <1>3 DEF KHeapInv, Consistent, Sound
<1>5. Blocks \ FreeTiles = H \union Nodes
  BY <1>2
<1>6. Cardinality(Nodes) = Len(kh.list)
  <2> DEFINE l == kh.list
             g == [i \in 1 .. Len(l) |-> l[i].node]
  <2>1. Len(l) \in Nat /\ DOMAIN l = 1 .. Len(l)
    BY <1>4 DEF Listed, IsList
  <2>2. IsFiniteSet(1 .. Len(l)) /\ Cardinality(1 .. Len(l)) = Len(l)
    BY <2>1, FS_Interval
  <2>3. g \in [1 .. Len(l) -> Nodes]
    BY <2>1 DEF Nodes
  <2>4. \A i, j \in 1 .. Len(l) : g[i] = g[j] => i = j
    BY <1>4, <2>1 DEF Listed
  <2>5. \A b \in Nodes : \E i \in 1 .. Len(l) : g[i] = b
    BY <2>1 DEF Nodes
  <2> HIDE DEF g
  <2>6. QED
    BY <2>2, <2>3, <2>4, <2>5, SameCount
<1>7. \A u \in U : c[u] \in Int /\ z[u] \in Int /\ z[u] >= 16 /\ Room(z[u], c[u])
  BY <1>2 DEF Fits
<1> HIDE DEF H
<1>8. ASSUME NEW va \in H
      PROVE  live[va] <= get_block_size(kh.da, va) - 8
  <2>1. va \in U /\ c[va] = live[va]
    BY DEF Needs
  <2> HIDE DEF U, c
  <2>2. live[va] \in Int /\ z[va] \in Int /\ z[va] >= 16 /\ Room(z[va], live[va])
        /\ get_block_size(kh.da, va) = z[va]
    BY <1>2, <1>7, <2>1
  <2>3. QED
    BY <2>2 DEF Room
<1>9. ASSUME NEW b \in Nodes
      PROVE  get_block_size(kh.da, b) - 8 >= NodeSize
  <2>1. b \in U /\ c[b] = NodeSize
    BY <1>4 DEF Needs
  <2> HIDE DEF U, c
  <2>2. z[b] \in Int /\ Room(z[b], NodeSize) /\ get_block_size(kh.da, b) = z[b]
    BY <1>2, <1>7, <2>1
  <2>3. NodeSize \in Nat
    BY NodeAssumption DEF NodeSize
  <2>4. QED
    BY <2>2, <2>3 DEF Room
<1>10. QED
  BY <1>4, <1>5, <1>6, <1>8, <1>9

\* Whatever is allocated, freed and resized, the tags lead from block to block to the END word,
\* header and footer agree, no two free blocks touch, and freeBlocksList has the free ones in order.
THEOREM HeapIsTiled ==
  Spec => []HeapTiled
BY KHeapAlways, KHeapTiled, PTL

\* No block leaks and none is handed out twice, and each is as large as what was asked for.
THEOREM BlocksAreOwned ==
  Spec => []BlocksOwned
BY KHeapAlways, KHeapOwned, PTL
=============================================================================
