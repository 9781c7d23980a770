--------------------------- MODULE CommonTheorems ---------------------------
(***************************************************************************)
(* Lemmas that the proofs about several modules share.                     *)
(*                                                                         *)
(* Queues: what each operation on a list of inc/queue.h does to the number *)
(* of links of an element.  Loops over pages: what holds at the start and  *)
(* is kept by every round holds at the end.  MemoryManager: what each of   *)
(* its operators does to the entries, the references and the free list of  *)
(* any memory.                                                             *)
(***************************************************************************)
EXTENDS Queues, MemoryManager, FiniteSetTheorems, SequenceTheorems, WellFoundedInduction, TLAPS

-----------------------------------------------------------------------------
(* The links of an element *)

\* A queue has finitely many links, and e is in it if and only if it has one.
LEMMA CountType ==
  ASSUME NEW S, NEW q \in Seq(S), NEW e
  PROVE  /\ IsFiniteSet(LinksOf(q, e)) /\ LinksOf(q, e) \in SUBSET Nat
         /\ Count(q, e) \in Nat
         /\ Count(q, e) = 0 <=> \A i \in DOMAIN q : q[i] # e
<1>1. DOMAIN q = 1 .. Len(q) /\ Len(q) \in Nat
  OBVIOUS
<1>2. IsFiniteSet(DOMAIN q)
  BY <1>1, FS_Interval
<1>3. LinksOf(q, e) \in SUBSET (DOMAIN q)
  BY DEF LinksOf
<1>4. IsFiniteSet(LinksOf(q, e))
  BY <1>2, <1>3, FS_Subset
<1>5. Count(q, e) \in Nat /\ (Count(q, e) = 0 <=> LinksOf(q, e) = {})
  BY <1>4, FS_CardinalityType, FS_EmptySet DEF Count
<1>6. LinksOf(q, e) = {} <=> \A i \in DOMAIN q : q[i] # e
  BY DEF LinksOf
<1>7. QED
  BY <1>1, <1>3, <1>4, <1>5, <1>6

\* The empty queue has no links.
LEMMA CountEmpty ==
  ASSUME NEW e
  PROVE  Count(<<>>, e) = 0
<1>1. LinksOf(<<>>, e) = {}
  BY DEF LinksOf
<1>2. QED
  BY <1>1, FS_EmptySet DEF Count

\* LIST_INSERT_TAIL() adds a link of e.
LEMMA CountAppend ==
  ASSUME NEW S, NEW q \in Seq(S), NEW e \in S, NEW f
  PROVE  Count(Append(q, e), f) = Count(q, f) + IF e = f THEN 1 ELSE 0
<1>1. IsFiniteSet(LinksOf(q, f)) /\ Count(q, f) \in Nat
  BY CountType
<1>2. /\ DOMAIN q = 1 .. Len(q) /\ Len(q) \in Nat
      /\ DOMAIN Append(q, e) = 1 .. Len(q) + 1
      /\ \A i \in 1 .. Len(q) : Append(q, e)[i] = q[i]
      /\ Append(q, e)[Len(q) + 1] = e
  OBVIOUS
<1>3. CASE e = f
  <2>1. LinksOf(Append(q, e), f) = LinksOf(q, f) \cup {Len(q) + 1}
    BY <1>2, <1>3 DEF LinksOf
  <2>2. Len(q) + 1 \notin LinksOf(q, f)
    BY <1>2 DEF LinksOf
  <2>3. QED
    BY <1>1, <1>3, <2>1, <2>2, FS_AddElement DEF Count
<1>4. CASE e # f
  <2>1. LinksOf(Append(q, e), f) = LinksOf(q, f)
    BY <1>2, <1>4 DEF LinksOf
  <2>2. QED
    BY <1>1, <1>4, <2>1 DEF Count
<1>5. QED
  BY <1>3, <1>4

\* A one-to-one renaming of the links keeps their number.
LEMMA SameCount ==
  ASSUME NEW A, IsFiniteSet(A), NEW B, NEW g \in [A -> B],
         \A i, j \in A : g[i] = g[j] => i = j,
         \A k \in B : \E i \in A : g[i] = k
  PROVE  IsFiniteSet(B) /\ Cardinality(B) = Cardinality(A)
<1>1. g \in Bijection(A, B)
  BY DEF Bijection, Injection, Surjection, IsInjective
<1>2. QED
  BY <1>1, FS_Bijection DEF ExistsBijection

\* dequeue() takes the link of the head away.
LEMMA CountTail ==
  ASSUME NEW S, NEW q \in Seq(S), q # <<>>, NEW f
  PROVE  Count(Tail(q), f) = Count(q, f) - IF Head(q) = f THEN 1 ELSE 0
<1> DEFINE A == LinksOf(Tail(q), f)
           B == LinksOf(q, f)
           g == [i \in A |-> i + 1]
<1>1. /\ DOMAIN q = 1 .. Len(q) /\ Len(q) \in Nat /\ Len(q) >= 1
      /\ Tail(q) \in Seq(S) /\ DOMAIN Tail(q) = 1 .. Len(q) - 1
      /\ \A i \in 1 .. Len(q) - 1 : Tail(q)[i] = q[i + 1]
      /\ Head(q) = q[1]
  OBVIOUS
<1>2. IsFiniteSet(A) /\ A \in SUBSET Nat /\ IsFiniteSet(B) /\ Count(q, f) \in Nat
  BY <1>1, CountType
<1>3. g \in [A -> B \ {1}]
  BY <1>1 DEF LinksOf
<1>4. \A k \in B \ {1} : \E i \in A : g[i] = k
  <2>1. SUFFICES ASSUME NEW k \in B \ {1} PROVE k - 1 \in A /\ g[k - 1] = k
    OBVIOUS
  <2>2. QED
    BY <1>1 DEF LinksOf
<1>5. \A i, j \in A : g[i] = g[j] => i = j
  BY <1>2
<1> HIDE DEF A, B, g
<1>6. Cardinality(B \ {1}) = Cardinality(A)
  BY <1>2, <1>3, <1>4, <1>5, SameCount
<1>7. 1 \in B <=> Head(q) = f
  BY <1>1 DEF B, LinksOf
<1>8. Count(q, f) = Cardinality(B) /\ Count(Tail(q), f) = Cardinality(A)
  BY DEF A, B, Count
<1>9. Cardinality(B \ {1}) = IF 1 \in B THEN Cardinality(B) - 1 ELSE Cardinality(B)
  BY <1>2, FS_RemoveElement
<1>10. QED
  BY <1>2, <1>6, <1>7, <1>8, <1>9

\* LIST_CONCAT() of two queues has the links of both.
LEMMA CountConcat ==
  ASSUME NEW S, NEW q \in Seq(S), NEW r \in Seq(S), NEW f
  PROVE  Count(q \o r, f) = Count(q, f) + Count(r, f)
<1> DEFINE A == LinksOf(q, f)
           B == LinksOf(r, f)
           C == LinksOf(q \o r, f)
           D == {i \in C : i > Len(q)}
           g == [i \in B |-> i + Len(q)]
<1>1. /\ Len(q) \in Nat /\ DOMAIN q = 1 .. Len(q)
      /\ Len(r) \in Nat /\ DOMAIN r = 1 .. Len(r)
      /\ DOMAIN (q \o r) = 1 .. Len(q) + Len(r)
      /\ \A i \in 1 .. Len(q) : (q \o r)[i] = q[i]
      /\ \A i \in 1 .. Len(r) : (q \o r)[i + Len(q)] = r[i]
  OBVIOUS
<1>2. /\ IsFiniteSet(A) /\ Count(q, f) \in Nat
      /\ IsFiniteSet(B) /\ Count(r, f) \in Nat /\ B \in SUBSET Nat
  BY CountType
<1>3. g \in [B -> D]
  BY <1>1 DEF LinksOf
<1>4. \A k \in D : \E i \in B : g[i] = k
  <2>1. SUFFICES ASSUME NEW k \in D PROVE k - Len(q) \in B /\ g[k - Len(q)] = k
    OBVIOUS
  <2>2. k - Len(q) \in 1 .. Len(r) /\ (k - Len(q)) + Len(q) = k
    BY <1>1 DEF LinksOf
  <2>3. QED
    BY <1>1, <2>2 DEF LinksOf
<1>5. \A i, j \in B : g[i] = g[j] => i = j
  BY <1>1, <1>2
<1>6. C = A \cup D /\ A \cap D = {}
  BY <1>1 DEF LinksOf
<1>7. Count(q, f) = Cardinality(A) /\ Count(r, f) = Cardinality(B) /\ Count(q \o r, f) = Cardinality(C)
  BY DEF Count
<1> HIDE DEF A, B, C, D, g
<1>8. IsFiniteSet(D) /\ Cardinality(D) = Cardinality(B)
  BY <1>2, <1>3, <1>4, <1>5, SameCount
<1>9. Cardinality(C) = Cardinality(A) + Cardinality(D) - 0
  BY <1>2, <1>6, <1>8, FS_Union, FS_EmptySet
<1>10. QED
  BY <1>2, <1>7, <1>8, <1>9

\* LIST_REMOVE() takes one link of e away, and leaves a queue of the same
\* elements.
LEMMA CountRemove ==
  ASSUME NEW S, NEW q \in Seq(S), NEW e, NEW f, Count(q, e) # 0
  PROVE  /\ LIST_REMOVE(q, e) \in Seq(S)
         /\ Count(LIST_REMOVE(q, e), f) = Count(q, f) - IF e = f THEN 1 ELSE 0
<1> DEFINE at == CHOOSE i \in LinksOf(q, e) : TRUE
           r == LIST_REMOVE(q, e)
           A == LinksOf(r, f)
           B == LinksOf(q, f)
           g == [i \in A |-> IF i < at THEN i ELSE i + 1]
<1>1. at \in LinksOf(q, e)
  BY CountType DEF LinksOf
<1>2. at \in 1 .. Len(q) /\ q[at] = e /\ Len(q) \in Nat /\ DOMAIN q = 1 .. Len(q)
  BY <1>1 DEF LinksOf
<1>3. r = SubSeq(q, 1, at - 1) \o SubSeq(q, at + 1, Len(q))
  BY DEF LIST_REMOVE
<1> HIDE DEF at
<1>4. /\ SubSeq(q, 1, at - 1) \in Seq(S) /\ Len(SubSeq(q, 1, at - 1)) = at - 1
      /\ \A i \in 1 .. at - 1 : SubSeq(q, 1, at - 1)[i] = q[i]
  <2>1. \A i \in 1 .. at - 1 : q[i] \in S
    BY <1>2
  <2>2. QED
    BY <1>2, <2>1, SubSeqProperties
<1>5. /\ SubSeq(q, at + 1, Len(q)) \in Seq(S)
      /\ Len(SubSeq(q, at + 1, Len(q))) = Len(q) - at
      /\ \A i \in 1 .. Len(q) - at : SubSeq(q, at + 1, Len(q))[i] = q[i + at]
  <2> DEFINE v == SubSeq(q, at + 1, Len(q))
  <2>1. \A i \in at + 1 .. Len(q) : q[i] \in S
    BY <1>2
  <2>2. /\ v \in Seq(S)
        /\ Len(v) = IF at + 1 <= Len(q) THEN Len(q) - (at + 1) + 1 ELSE 0
        /\ \A i \in 1 .. Len(q) - (at + 1) + 1 : v[i] = q[at + 1 + i - 1]
    BY <1>2, <2>1, SubSeqProperties
  <2> HIDE DEF v
  <2>3. Len(v) = Len(q) - at
    <3>1. at \in Int /\ at <= Len(q) /\ Len(q) \in Int
      BY <1>2
    <3>2. CASE at + 1 <= Len(q)
      <4>1. Len(v) = Len(q) - (at + 1) + 1
        BY <2>2, <3>2
      <4>2. QED
        BY <3>1, <4>1
    <3>3. CASE ~(at + 1 <= Len(q))
      <4>1. Len(v) = 0
        BY <2>2, <3>3
      <4>2. QED
        BY <3>1, <3>3, <4>1
    <3>4. QED
      BY <3>2, <3>3
  <2>4. \A i \in 1 .. Len(q) - at : at + 1 + i - 1 = i + at /\ i \in 1 .. Len(q) - (at + 1) + 1
    BY <1>2
  <2>5. \A i \in 1 .. Len(q) - at : v[i] = q[i + at]
    BY <2>2, <2>4
  <2>6. QED
    BY <2>2, <2>3, <2>5 DEF v
<1> HIDE DEF r
<1>6. /\ r \in Seq(S) /\ DOMAIN r = 1 .. Len(q) - 1
      /\ \A i \in 1 .. Len(q) - 1 : r[i] = IF i < at THEN q[i] ELSE q[i + 1]
  <2> DEFINE u == SubSeq(q, 1, at - 1)
             v == SubSeq(q, at + 1, Len(q))
  <2> HIDE DEF u, v
  <2>1. r = u \o v /\ u \in Seq(S) /\ v \in Seq(S) /\ Len(u) = at - 1 /\ Len(v) = Len(q) - at
    BY <1>3, <1>4, <1>5 DEF u, v
  <2>2. r \in Seq(S) /\ Len(r) = Len(u) + Len(v)
    BY <2>1, ConcatProperties
  <2>3. ASSUME NEW i \in 1 .. Len(q) - 1
        PROVE  r[i] = IF i < at THEN q[i] ELSE q[i + 1]
    <3>1. r[i] = IF i < at THEN u[i] ELSE v[i - (at - 1)]
      BY <1>2, <2>1
    <3>2. i < at => u[i] = q[i]
      BY <1>2, <1>4 DEF u
    <3>3. ~(i < at) => i - (at - 1) \in 1 .. Len(q) - at /\ (i - (at - 1)) + at = i + 1
      BY <1>2
    <3>4. ~(i < at) => v[i - (at - 1)] = q[i + 1]
      BY <1>5, <3>3 DEF v
    <3>5. QED
      BY <3>1, <3>2, <3>4
  <2>4. DOMAIN r = 1 .. Len(q) - 1
    <3>1. DOMAIN r = 1 .. Len(r)
      BY <2>2
    <3>2. Len(r) = Len(q) - 1
      BY <1>2, <2>1, <2>2
    <3>3. QED
      BY <3>1, <3>2
  <2>5. QED
    BY <2>2, <2>3, <2>4
<1>7. IsFiniteSet(A) /\ A \in SUBSET Nat /\ IsFiniteSet(B) /\ Count(q, f) \in Nat
  BY <1>6, CountType
<1>8. g \in [A -> B \ {at}]
  BY <1>2, <1>6 DEF LinksOf
<1>9. \A k \in B \ {at} : \E i \in A : g[i] = k
  <2>1. SUFFICES ASSUME NEW k \in B \ {at} PROVE \E i \in A : g[i] = k
    OBVIOUS
  <2>2. CASE k < at
    <3>1. k \in A /\ g[k] = k
      BY <1>2, <1>6, <2>2 DEF LinksOf
    <3>2. QED
      BY <3>1
  <2>3. CASE k > at
    <3>1. k - 1 \in A /\ g[k - 1] = k
      BY <1>2, <1>6, <2>3 DEF LinksOf
    <3>2. QED
      BY <3>1
  <2>4. QED
    BY <1>2, <2>2, <2>3 DEF LinksOf
<1>10. \A i, j \in A : g[i] = g[j] => i = j
  BY <1>2, <1>7
<1>11. at \in B <=> e = f
  BY <1>2 DEF LinksOf
<1>12. Count(q, f) = Cardinality(B) /\ Count(r, f) = Cardinality(A)
  BY DEF Count
<1> HIDE DEF A, B, g
<1>13. Cardinality(B \ {at}) = Cardinality(A)
  BY <1>7, <1>8, <1>9, <1>10, SameCount
<1>14. Cardinality(B \ {at}) = IF at \in B THEN Cardinality(B) - 1 ELSE Cardinality(B)
  BY <1>7, FS_RemoveElement
<1>15. Count(r, f) = Count(q, f) - IF e = f THEN 1 ELSE 0
  BY <1>7, <1>11, <1>12, <1>13, <1>14
<1>16. QED
  BY <1>6, <1>15 DEF r

\* A queue of all the elements of S without repetitions has one link of each.
LEMMA CountPermutation ==
  ASSUME NEW S, IsFiniteSet(S), NEW q \in [1 .. Cardinality(S) -> S],
         \A i, j \in 1 .. Cardinality(S) : q[i] = q[j] => i = j, NEW e \in S
  PROVE  q \in Seq(S) /\ Count(q, e) = 1
<1>1. Cardinality(S) \in Nat
  BY FS_CardinalityType
<1>2. IsFiniteSet(1 .. Cardinality(S)) /\ Cardinality(1 .. Cardinality(S)) = Cardinality(S)
  BY <1>1, FS_Interval
<1>3. q \in Injection(1 .. Cardinality(S), S)
  BY DEF Injection, IsInjective
<1>4. q \in Surjection(1 .. Cardinality(S), S)
  BY <1>2, <1>3, FS_Injection
<1>5. PICK i \in 1 .. Cardinality(S) : q[i] = e
  BY <1>4 DEF Surjection
<1>6. LinksOf(q, e) = {i}
  BY <1>5 DEF LinksOf
<1>7. Count(q, e) = 1
  BY <1>6, FS_Singleton DEF Count
<1>8. q \in Seq(S)
  BY <1>1, SeqDef
<1>9. QED
  BY <1>7, <1>8

-----------------------------------------------------------------------------
(* Lists without repetition, used as stacks *)

Elems(s) == {s[i] : i \in DOMAIN s}
NoDup(s) == \A i, j \in DOMAIN s : s[i] = s[j] => i = j

\* Popping a list.
LEMMA PopList ==
  ASSUME NEW S, NEW s \in Seq(S), s # <<>>, NoDup(s)
  PROVE  /\ Tail(s) \in Seq(S) /\ NoDup(Tail(s)) /\ Head(s) \in S
         /\ Head(s) \in Elems(s) /\ Elems(Tail(s)) = Elems(s) \ {Head(s)}
<1>1. /\ Len(s) \in Nat /\ Len(s) >= 1 /\ DOMAIN s = 1 .. Len(s) /\ Head(s) = s[1]
      /\ Tail(s) \in Seq(S) /\ DOMAIN Tail(s) = 1 .. Len(s) - 1
      /\ \A i \in 1 .. Len(s) - 1 : Tail(s)[i] = s[i + 1]
  OBVIOUS
<1>2. NoDup(Tail(s))
  <2>1. ASSUME NEW i \in 1 .. Len(s) - 1, NEW j \in 1 .. Len(s) - 1, Tail(s)[i] = Tail(s)[j]
        PROVE  i = j
    <3>1. s[i + 1] = s[j + 1] /\ i + 1 \in 1 .. Len(s) /\ j + 1 \in 1 .. Len(s)
      BY <1>1, <2>1
    <3>2. i + 1 = j + 1
      BY <1>1, <3>1 DEF NoDup
    <3>3. QED
      BY <1>1, <3>2
  <2>2. QED
    BY <1>1, <2>1 DEF NoDup
<1>3. ASSUME NEW x \in Elems(Tail(s))
      PROVE  x \in Elems(s) /\ x # Head(s)
  <2>1. PICK i \in 1 .. Len(s) - 1 : x = Tail(s)[i]
    BY <1>1 DEF Elems
  <2>2. x = s[i + 1] /\ i + 1 \in 1 .. Len(s) /\ i + 1 # 1 /\ 1 \in 1 .. Len(s)
    BY <1>1, <2>1
  <2>3. QED
    BY <1>1, <2>2 DEF Elems, NoDup
<1>4. ASSUME NEW x \in Elems(s), x # Head(s)
      PROVE  x \in Elems(Tail(s))
  <2>1. PICK i \in 1 .. Len(s) : x = s[i]
    BY <1>1 DEF Elems
  <2>2. i - 1 \in 1 .. Len(s) - 1 /\ (i - 1) + 1 = i
    BY <1>1, <1>4, <2>1
  <2>3. Tail(s)[i - 1] = x
    BY <1>1, <2>1, <2>2
  <2>4. QED
    BY <1>1, <2>2, <2>3 DEF Elems
<1>5. Head(s) \in Elems(s) /\ Head(s) \in S
  BY <1>1 DEF Elems
<1>6. QED
  BY <1>1, <1>2, <1>3, <1>4, <1>5

\* Pushing what is not in a list.
LEMMA PushList ==
  ASSUME NEW S, NEW s \in Seq(S), NEW f \in S
  PROVE  /\ <<f>> \o s \in Seq(S) /\ Elems(<<f>> \o s) = Elems(s) \union {f}
         /\ NoDup(s) /\ f \notin Elems(s) => NoDup(<<f>> \o s)
<1> DEFINE r == <<f>> \o s
<1>1. /\ Len(s) \in Nat /\ DOMAIN s = 1 .. Len(s)
      /\ r \in Seq(S) /\ DOMAIN r = 1 .. Len(s) + 1
      /\ r[1] = f /\ \A i \in 1 .. Len(s) : r[i + 1] = s[i]
  OBVIOUS
<1> HIDE DEF r
<1>2. \A i \in 2 .. Len(s) + 1 : i - 1 \in 1 .. Len(s) /\ r[i] = s[i - 1]
  <2>1. SUFFICES ASSUME NEW i \in 2 .. Len(s) + 1
                 PROVE  i - 1 \in 1 .. Len(s) /\ r[i] = s[i - 1]
    OBVIOUS
  <2>2. i - 1 \in 1 .. Len(s) /\ (i - 1) + 1 = i
    BY <1>1
  <2>3. QED
    BY <1>1, <2>2
<1>3. \A i \in DOMAIN r : i = 1 \/ i \in 2 .. Len(s) + 1
  BY <1>1
<1>4. ASSUME NEW x \in Elems(r)
      PROVE  x \in Elems(s) \union {f}
  <2>1. PICK i \in DOMAIN r : x = r[i]
    BY DEF Elems
  <2>2. CASE i = 1
    BY <1>1, <2>1, <2>2
  <2>3. CASE i \in 2 .. Len(s) + 1
    BY <1>1, <1>2, <2>1, <2>3 DEF Elems
  <2>4. QED
    BY <1>3, <2>2, <2>3
<1>5. ASSUME NEW x \in Elems(s)
      PROVE  x \in Elems(r)
  <2>1. PICK i \in 1 .. Len(s) : x = s[i]
    BY <1>1 DEF Elems
  <2>2. i + 1 \in DOMAIN r /\ r[i + 1] = x
    BY <1>1, <2>1
  <2>3. QED
    BY <2>2 DEF Elems
<1>6. f \in Elems(r)
  BY <1>1 DEF Elems
<1>7. ASSUME NoDup(s), f \notin Elems(s)
      PROVE  NoDup(r)
  <2>1. ASSUME NEW i \in DOMAIN r, NEW j \in DOMAIN r, r[i] = r[j]
        PROVE  i = j
    <3>1. i \in 2 .. Len(s) + 1 => r[i] \in Elems(s)
      BY <1>1, <1>2 DEF Elems
    <3>2. j \in 2 .. Len(s) + 1 => r[j] \in Elems(s)
      BY <1>1, <1>2 DEF Elems
    <3>3. CASE i = 1
      BY <1>1, <1>3, <1>7, <2>1, <3>2, <3>3
    <3>4. CASE j = 1
      BY <1>1, <1>3, <1>7, <2>1, <3>1, <3>4
    <3>5. CASE i \in 2 .. Len(s) + 1 /\ j \in 2 .. Len(s) + 1
      <4>1. i - 1 = j - 1
        BY <1>1, <1>2, <1>7, <2>1, <3>5 DEF NoDup
      <4>2. QED
        BY <1>1, <3>5, <4>1
    <3>6. QED
      BY <1>3, <3>3, <3>4, <3>5
  <2>2. QED
    BY <2>1 DEF NoDup
<1>8. QED
  BY <1>1, <1>4, <1>5, <1>6, <1>7 DEF r

\* Removing an element: those after it move up.
LEMMA RemoveElement ==
  ASSUME NEW S, NEW s \in Seq(S), NEW h \in DOMAIN s
  PROVE  /\ RemoveAt(s, h) \in Seq(S) /\ Len(RemoveAt(s, h)) = Len(s) - 1
         /\ \A i \in 1 .. Len(s) - 1 : RemoveAt(s, h)[i] = s[IF i < h THEN i ELSE i + 1]
<1>1. Len(s) \in Nat /\ DOMAIN s = 1 .. Len(s) /\ h \in 1 .. Len(s)
  OBVIOUS
<1> DEFINE a == SubSeq(s, 1, h - 1)
           b == SubSeq(s, h + 1, Len(s))
<1>2. /\ a \in Seq(S) /\ Len(a) = h - 1 /\ \A i \in 1 .. h - 1 : a[i] = s[i]
  BY <1>1
<1>3. /\ b \in Seq(S) /\ Len(b) = Len(s) - h /\ \A i \in 1 .. Len(s) - h : b[i] = s[h + i]
  BY <1>1
<1>4. RemoveAt(s, h) = a \o b
  BY DEF RemoveAt
<1> HIDE DEF a, b
<1>5. /\ a \o b \in Seq(S) /\ Len(a \o b) = Len(a) + Len(b)
      /\ \A i \in 1 .. Len(a) + Len(b) : (a \o b)[i] = IF i <= Len(a) THEN a[i] ELSE b[i - Len(a)]
  BY <1>2, <1>3, SMTT(30)
<1>6. ASSUME NEW i \in 1 .. Len(s) - 1
      PROVE  (a \o b)[i] = s[IF i < h THEN i ELSE i + 1]
  <2>1. CASE i < h
    BY <1>1, <1>2, <1>3, <1>5, <2>1
  <2>2. CASE ~(i < h)
    <3>1. i - Len(a) \in 1 .. Len(s) - h /\ h + (i - Len(a)) = i + 1 /\ ~(i <= Len(a))
      BY <1>1, <1>2, <2>2
    <3>2. b[i - Len(a)] = s[i + 1]
      BY <1>3, <3>1
    <3>3. (a \o b)[i] = b[i - Len(a)]
      <4>1. i \in 1 .. Len(a) + Len(b)
        BY <1>1, <1>2, <1>3
      <4>2. QED
        BY <1>5, <3>1, <4>1
    <3>4. QED
      BY <2>2, <3>2, <3>3
  <2>3. QED
    BY <2>1, <2>2
<1>7. QED
  BY <1>1, <1>2, <1>3, <1>4, <1>5, <1>6

-----------------------------------------------------------------------------
(* Induction *)

\* A set of natural numbers has a least element.
LEMMA LeastNat ==
  ASSUME NEW T \in SUBSET Nat, T # {}
  PROVE  \E x \in T : \A y \in T : x <= y
<1> DEFINE R == OpToRel(<, Nat)
<1>1. IsWellFoundedOn(R, Nat)
  BY NatLessThanWellFounded
<1>2. \A x, y \in Nat : <<y, x>> \in R <=> y < x
  BY DEF OpToRel
<1> HIDE DEF R
<1>3. PICK x \in T : \A y \in T : ~(<<y, x>> \in R)
  BY <1>1, WFMin
<1>4. ASSUME NEW y \in T
      PROVE  x <= y
  <2>1. x \in Nat /\ y \in Nat
    OBVIOUS
  <2>2. ~(<<y, x>> \in R)
    BY <1>3
  <2>3. ~(y < x)
    BY <1>2, <2>1, <2>2
  <2>4. QED
    BY <2>1, <2>3
<1>5. QED
  BY <1>4

\* A set that holds 0, and the next number of every one below n that it holds,
\* holds all numbers up to n.
LEMMA UpTo ==
  ASSUME NEW n \in Nat, NEW S, 0 \in S,
         \A i \in 0 .. n - 1 : i \in S => i + 1 \in S
  PROVE  \A i \in 0 .. n : i \in S
<1> DEFINE T == {i \in 0 .. n : i \notin S}
<1>1. SUFFICES ASSUME T # {}
               PROVE  FALSE
  OBVIOUS
<1>2. T \in SUBSET Nat
  OBVIOUS
<1> HIDE DEF T
<1>3. PICK x \in T : \A y \in T : x <= y
  BY <1>1, <1>2, LeastNat
<1>4. x \in 1 .. n /\ x \notin S
  BY <1>3 DEF T
<1>5. x - 1 \in 0 .. n - 1 /\ x - 1 \notin T
  BY <1>3, <1>4, <1>2
<1>6. x - 1 \in S
  BY <1>5 DEF T
<1>7. QED
  BY <1>4, <1>5, <1>6

\* A loop that is written as a recursive function: where D[i] is what holds after
\* round i and G[i] is round i, the loop is defined, and its rounds hold D.
LoopIs(u, n, a, G) == u = [i \in 0 .. n |-> IF i = 0 THEN a ELSE G[i][u[i - 1]]]

\* The rounds of a loop exist, and each is in the set that belongs to it.
LEMMA Loop ==
  ASSUME NEW n \in Nat, NEW D, NEW G, NEW a, a \in D[0],
         \A i \in 1 .. n : \A y \in D[i - 1] : G[i][y] \in D[i]
  PROVE  \E u : LoopIs(u, n, a, G) /\ \A i \in 0 .. n : u[i] \in D[i]
<1> DEFINE To(k, u) == u = [i \in 0 .. k |-> IF i = 0 THEN a ELSE G[i][u[i - 1]]]
           In(k, u) == \A i \in 0 .. k : u[i] \in D[i]
           S == {k \in Nat : \E u : To(k, u) /\ In(k, u)}
<1>1. 0 \in S
  <2> DEFINE u == [i \in 0 .. 0 |-> a]
  <2>1. u[0] = a
    OBVIOUS
  <2>2. To(0, u) /\ In(0, u)
    BY <2>1
  <2>3. QED
    BY <2>2
<1>2. ASSUME NEW k \in 0 .. n - 1, k \in S
      PROVE  k + 1 \in S
  <2>1. PICK u : To(k, u) /\ In(k, u)
    BY <1>2
  <2> DEFINE v == [i \in 0 .. k + 1 |-> IF i = k + 1 THEN G[k + 1][u[k]] ELSE u[i]]
  <2>2. \A i \in 0 .. k : v[i] = u[i]
    OBVIOUS
  <2>3. DOMAIN v = 0 .. k + 1 /\ v[k + 1] = G[k + 1][u[k]]
    OBVIOUS
  <2>4. v = [i \in 0 .. k + 1 |-> v[i]]
    OBVIOUS
  <2> HIDE DEF v
  <2>5. ASSUME NEW i \in 0 .. k + 1
        PROVE  v[i] = IF i = 0 THEN a ELSE G[i][v[i - 1]]
    <3>1. CASE i = k + 1
      <4>1. i # 0 /\ i - 1 = k /\ v[i - 1] = u[k]
        BY <2>2, <3>1
      <4>2. QED
        BY <2>3, <3>1, <4>1
    <3>2. CASE i # k + 1
      <4>1. i \in 0 .. k /\ v[i] = u[i] /\ (i # 0 => v[i - 1] = u[i - 1])
        BY <2>2, <3>2
      <4>2. u[i] = IF i = 0 THEN a ELSE G[i][u[i - 1]]
        BY <2>1, <4>1
      <4>3. QED
        BY <4>1, <4>2
    <3>3. QED
      BY <3>1, <3>2
  <2>6. To(k + 1, v)
    BY <2>4, <2>5
  <2>7. In(k + 1, v)
    <3>1. u[k] \in D[k] /\ k + 1 \in 1 .. n /\ (k + 1) - 1 = k
      BY <2>1
    <3>2. v[k + 1] \in D[k + 1]
      BY <2>3, <3>1
    <3>3. ASSUME NEW i \in 0 .. k + 1
          PROVE  v[i] \in D[i]
      <4>1. CASE i = k + 1
        BY <3>2, <4>1
      <4>2. CASE i # k + 1
        <5>1. i \in 0 .. k
          BY <4>2
        <5>2. QED
          BY <2>1, <2>2, <5>1
      <4>3. QED
        BY <4>1, <4>2
    <3>4. QED
      BY <3>3
  <2> HIDE DEF To, In
  <2>8. \E x : To(k + 1, x) /\ In(k + 1, x)
    BY <2>6, <2>7
  <2>9. QED
    BY <2>8
<1>3. \A k \in 0 .. n : k \in S
  <2> HIDE DEF S
  <2>1. QED
    BY <1>1, <1>2, UpTo
<1>4. n \in 0 .. n
  OBVIOUS
<1>5. n \in S
  BY <1>3, <1>4
<1>6. \E u : To(n, u) /\ In(n, u)
  <2> HIDE DEF To, In
  <2>1. QED
    BY <1>5
<1>7. QED
  BY <1>6 DEF LoopIs

\* Two sets that agree on everything but p.
LEMMA OneElement ==
  ASSUME NEW A, NEW B, IsFiniteSet(A), IsFiniteSet(B), NEW p,
         \A q : q # p => (q \in A <=> q \in B)
  PROVE  /\ Cardinality(A) \in Nat /\ Cardinality(B) \in Nat
         /\ Cardinality(B) = Cardinality(A) + (IF p \in B THEN 1 ELSE 0) - (IF p \in A THEN 1 ELSE 0)
<1>1. Cardinality(A) \in Nat /\ Cardinality(B) \in Nat
  BY FS_CardinalityType
<1>2. CASE p \in A <=> p \in B
  <2>1. A = B
    BY <1>2
  <2>2. QED
    BY <1>1, <1>2, <2>1
<1>3. CASE p \in A /\ p \notin B
  <2>1. B = A \ {p}
    BY <1>3
  <2>2. Cardinality(B) = Cardinality(A) - 1
    BY <1>3, <2>1, FS_RemoveElement
  <2>3. QED
    BY <1>1, <1>3, <2>2
<1>4. CASE p \notin A /\ p \in B
  <2>1. B = A \union {p}
    BY <1>4
  <2>2. Cardinality(B) = Cardinality(A) + 1
    BY <1>4, <2>1, FS_AddElement
  <2>3. QED
    BY <1>1, <1>4, <2>2
<1>5. QED
  BY <1>2, <1>3, <1>4

\* A set with at most one element.
LEMMA OneOrNone ==
  ASSUME NEW S, \A x, y \in S : x = y
  PROVE  Cardinality(S) = IF S = {} THEN 0 ELSE 1
<1>1. CASE S = {}
  BY <1>1, FS_EmptySet
<1>2. CASE S # {}
  <2>1. PICK x : S = {x}
    BY <1>2
  <2>2. QED
    BY <1>2, <2>1, FS_Singleton
<1>3. QED
  BY <1>1, <1>2

\* A list of one element has one link.
LEMMA CountOne ==
  ASSUME NEW f, NEW g
  PROVE  Count(<<f>>, g) = IF f = g THEN 1 ELSE 0
<1>1. LinksOf(<<f>>, g) = IF f = g THEN {1} ELSE {}
  BY DEF LinksOf
<1>2. QED
  BY <1>1, FS_Singleton, FS_EmptySet DEF Count

-----------------------------------------------------------------------------
(* Memories *)

\* The shape of a memory with frames DOMAIN m.ref and pages DOMAIN m.pt.
Perms == {"P", "W", "U", "A", "D"} \union PERM_AVAILABLE
EntriesFor(F) == [frame : F \union {NoFrame}, perm : SUBSET Perms]
MemoriesFor(F, P) == [free : Seq(F), ref : [F -> Int],
                      base : [F -> P \union {NoPage}], pt : [P -> EntriesFor(F)]]
IsMemory(m) == /\ m \in MemoriesFor(DOMAIN m.ref, DOMAIN m.pt)
               /\ NoFrame \notin DOMAIN m.ref

\* The entry of a page that unmap_frame() and map_frame() leave behind.
Unmapped(m, p) == [frame |-> NoFrame, perm |-> m.pt[p].perm \intersect PERM_AVAILABLE]
Mapped(m, f, p, perm) == [frame |-> f, perm |-> (m.pt[p].perm \intersect PERM_AVAILABLE)
                                               \union perm \union {"P"}]

-----------------------------------------------------------------------------
(* What the operators of MemoryManager do *)

\* An assignment to the free list leaves the rest alone.
LEMMA SetFree ==
  ASSUME NEW m, IsMemory(m), NEW v \in Seq(DOMAIN m.ref)
  PROVE  /\ IsMemory([m EXCEPT !.free = v]) /\ [m EXCEPT !.free = v].free = v
         /\ [m EXCEPT !.free = v].ref = m.ref /\ [m EXCEPT !.free = v].pt = m.pt
<1> DEFINE F == DOMAIN m.ref
           P == DOMAIN m.pt
           r == [m EXCEPT !.free = v]
<1>1. m \in MemoriesFor(F, P)
  BY DEF IsMemory
<1> HIDE DEF F, P
<1>2. r \in MemoriesFor(F, P) /\ r.free = v /\ r.ref = m.ref /\ r.pt = m.pt
  BY <1>1 DEF MemoriesFor, F, P
<1> HIDE DEF r
<1>3. DOMAIN r.ref = F /\ DOMAIN r.pt = P
  BY <1>1, <1>2 DEF MemoriesFor
<1>4. IsMemory(r)
  BY <1>2, <1>3 DEF IsMemory, F
<1>5. QED
  BY <1>2, <1>4 DEF r

\* An assignment to references.
LEMMA SetRef ==
  ASSUME NEW m, IsMemory(m), NEW f \in DOMAIN m.ref, NEW v \in Int
  PROVE  /\ IsMemory([m EXCEPT !.ref[f] = v])
         /\ [m EXCEPT !.ref[f] = v].free = m.free
         /\ [m EXCEPT !.ref[f] = v].ref = [m.ref EXCEPT ![f] = v]
         /\ [m EXCEPT !.ref[f] = v].pt = m.pt
<1> DEFINE F == DOMAIN m.ref
           P == DOMAIN m.pt
           r == [m EXCEPT !.ref[f] = v]
<1>1. m \in MemoriesFor(F, P)
  BY DEF IsMemory
<1> HIDE DEF F, P
<1>2. r \in MemoriesFor(F, P) /\ r.free = m.free /\ r.ref = [m.ref EXCEPT ![f] = v] /\ r.pt = m.pt
  BY <1>1 DEF MemoriesFor, F, P
<1> HIDE DEF r
<1>3. DOMAIN r.ref = F /\ DOMAIN r.pt = P
  BY <1>1, <1>2 DEF MemoriesFor
<1>4. IsMemory(r)
  BY <1>2, <1>3 DEF IsMemory, F
<1>5. QED
  BY <1>2, <1>4 DEF r

\* An assignment to base_va_page.
LEMMA SetBase ==
  ASSUME NEW m, IsMemory(m), NEW f \in DOMAIN m.ref, NEW v \in DOMAIN m.pt \union {NoPage}
  PROVE  /\ IsMemory([m EXCEPT !.base[f] = v]) /\ [m EXCEPT !.base[f] = v].free = m.free
         /\ [m EXCEPT !.base[f] = v].ref = m.ref /\ [m EXCEPT !.base[f] = v].pt = m.pt
<1> DEFINE F == DOMAIN m.ref
           P == DOMAIN m.pt
           r == [m EXCEPT !.base[f] = v]
<1>1. m \in MemoriesFor(F, P)
  BY DEF IsMemory
<1> HIDE DEF F, P
<1>2. r \in MemoriesFor(F, P) /\ r.free = m.free /\ r.ref = m.ref /\ r.pt = m.pt
  BY <1>1 DEF MemoriesFor, F, P
<1> HIDE DEF r
<1>3. DOMAIN r.ref = F /\ DOMAIN r.pt = P
  BY <1>1, <1>2 DEF MemoriesFor
<1>4. IsMemory(r)
  BY <1>2, <1>3 DEF IsMemory, F
<1>5. QED
  BY <1>2, <1>4 DEF r

\* An assignment to a page table entry.
LEMMA SetEntry ==
  ASSUME NEW m, IsMemory(m), NEW p \in DOMAIN m.pt, NEW v \in EntriesFor(DOMAIN m.ref)
  PROVE  /\ IsMemory([m EXCEPT !.pt[p] = v]) /\ [m EXCEPT !.pt[p] = v].free = m.free
         /\ [m EXCEPT !.pt[p] = v].ref = m.ref
         /\ [m EXCEPT !.pt[p] = v].pt = [m.pt EXCEPT ![p] = v]
<1> DEFINE F == DOMAIN m.ref
           P == DOMAIN m.pt
           r == [m EXCEPT !.pt[p] = v]
<1>1. m \in MemoriesFor(F, P)
  BY DEF IsMemory
<1> HIDE DEF F, P
<1>2. r \in MemoriesFor(F, P) /\ r.free = m.free /\ r.ref = m.ref /\ r.pt = [m.pt EXCEPT ![p] = v]
  BY <1>1 DEF MemoriesFor, F, P
<1> HIDE DEF r
<1>3. DOMAIN r.ref = F /\ DOMAIN r.pt = P
  BY <1>1, <1>2 DEF MemoriesFor
<1>4. IsMemory(r)
  BY <1>2, <1>3 DEF IsMemory, F
<1>5. QED
  BY <1>2, <1>4 DEF r

\* initialize_frame_info() forgets the references of a frame.
LEMMA InitializeFrame ==
  ASSUME NEW m, IsMemory(m), NEW f \in DOMAIN m.ref
  PROVE  /\ IsMemory(initialize_frame_info(m, f))
         /\ initialize_frame_info(m, f).free = m.free
         /\ initialize_frame_info(m, f).ref = [m.ref EXCEPT ![f] = 0]
         /\ initialize_frame_info(m, f).pt = m.pt
<1> DEFINE a == [m EXCEPT !.ref[f] = 0]
<1>1. initialize_frame_info(m, f) = [a EXCEPT !.base[f] = NoPage]
  BY DEF initialize_frame_info
<1>2. IsMemory(a) /\ a.free = m.free /\ a.ref = [m.ref EXCEPT ![f] = 0] /\ a.pt = m.pt
  BY SetRef
<1> HIDE DEF a
<1>3. QED
  BY <1>1, <1>2, SetBase

\* allocate_frame() takes the head of the list and forgets its references.
LEMMA AllocateFrame ==
  ASSUME NEW m, IsMemory(m), m.free # <<>>
  PROVE  /\ IsMemory(allocate_frame(m)) /\ FreeFrame(m) \in DOMAIN m.ref
         /\ allocate_frame(m).free = Tail(m.free) /\ allocate_frame(m).pt = m.pt
         /\ allocate_frame(m).ref = [m.ref EXCEPT ![FreeFrame(m)] = 0]
<1>1. Head(m.free) \in DOMAIN m.ref /\ Tail(m.free) \in Seq(DOMAIN m.ref)
  BY DEF IsMemory, MemoriesFor
<1> DEFINE a == [m EXCEPT !.free = Tail(m.free)]
<1>2. IsMemory(a) /\ a.free = Tail(m.free) /\ a.ref = m.ref /\ a.pt = m.pt
  BY <1>1, SetFree
<1>3. allocate_frame(m) = initialize_frame_info(a, FreeFrame(m))
  BY DEF allocate_frame
<1> HIDE DEF a
<1>4. QED
  BY <1>1, <1>2, <1>3, InitializeFrame DEF FreeFrame

\* free_frame() puts a frame back at the head.
LEMMA GiveFrame ==
  ASSUME NEW m, IsMemory(m), NEW f \in DOMAIN m.ref
  PROVE  /\ IsMemory(free_frame(m, f))
         /\ free_frame(m, f).free = <<f>> \o m.free /\ free_frame(m, f).pt = m.pt
         /\ free_frame(m, f).ref = [m.ref EXCEPT ![f] = 0]
<1>1. <<f>> \o m.free \in Seq(DOMAIN m.ref)
  BY DEF IsMemory, MemoriesFor
<1> DEFINE a == [m EXCEPT !.free = <<f>> \o m.free]
<1>2. IsMemory(a) /\ a.free = <<f>> \o m.free /\ a.ref = m.ref /\ a.pt = m.pt
  BY <1>1, SetFree
<1> DEFINE r == initialize_frame_info(a, f)
<1>3. free_frame(m, f) = r
  BY DEF free_frame
<1> HIDE DEF a
<1>4. IsMemory(r) /\ r.free = a.free /\ r.ref = [a.ref EXCEPT ![f] = 0] /\ r.pt = a.pt
  BY <1>2, InitializeFrame
<1> HIDE DEF r
<1>5. QED
  BY <1>2, <1>3, <1>4

\* decrement_references() of a frame; the last reference gives it back.
LEMMA DecrementReferences ==
  ASSUME NEW m, IsMemory(m), NEW f \in DOMAIN m.ref
  PROVE  /\ IsMemory(decrement_references(m, f))
         /\ decrement_references(m, f).free = IF m.ref[f] = 1 THEN <<f>> \o m.free ELSE m.free
         /\ decrement_references(m, f).pt = m.pt
         /\ decrement_references(m, f).ref = [m.ref EXCEPT ![f] = m.ref[f] - 1]
<1> DEFINE d == [m EXCEPT !.ref[f] = m.ref[f] - 1]
<1>1. m.ref \in [DOMAIN m.ref -> Int] /\ m.ref[f] \in Int
  BY DEF IsMemory, MemoriesFor
<1>2. IsMemory(d) /\ d.ref = [m.ref EXCEPT ![f] = m.ref[f] - 1] /\ d.free = m.free /\ d.pt = m.pt
  <2>1. m.ref[f] - 1 \in Int
    BY <1>1
  <2>2. QED
    BY <2>1, SetRef
<1>3. decrement_references(m, f) = IF d.ref[f] = 0 THEN free_frame(d, f) ELSE d
  BY DEF decrement_references
<1> HIDE DEF d
<1>4. d.ref[f] = m.ref[f] - 1 /\ (d.ref[f] = 0 => [d.ref EXCEPT ![f] = 0] = d.ref)
  BY <1>1, <1>2
<1>5. CASE d.ref[f] = 0
  <2> DEFINE r == free_frame(d, f)
  <2>1. IsMemory(r) /\ r.free = <<f>> \o d.free /\ r.pt = d.pt /\ r.ref = [d.ref EXCEPT ![f] = 0]
    BY <1>2, GiveFrame
  <2>2. decrement_references(m, f) = r /\ r.ref = d.ref /\ m.ref[f] = 1
    BY <1>1, <1>3, <1>4, <1>5, <2>1
  <2> HIDE DEF r
  <2>3. QED
    BY <1>2, <2>1, <2>2
<1>6. CASE d.ref[f] # 0
  BY <1>1, <1>2, <1>3, <1>4, <1>6
<1>7. QED
  BY <1>5, <1>6

\* unmap_frame() of a page that has a frame.
LEMMA UnmapFrame ==
  ASSUME NEW m, IsMemory(m), NEW p \in DOMAIN m.pt, NEW f \in DOMAIN m.ref, m.pt[p].frame = f
  PROVE  /\ IsMemory(unmap_frame(m, p))
         /\ unmap_frame(m, p).free = IF m.ref[f] = 1 THEN <<f>> \o m.free ELSE m.free
         /\ unmap_frame(m, p).ref = [m.ref EXCEPT ![f] = m.ref[f] - 1]
         /\ unmap_frame(m, p).pt = [m.pt EXCEPT ![p] = Unmapped(m, p)]
<1> DEFINE d == decrement_references(m, f)
           new == Unmapped(m, p)
           u == [d EXCEPT !.pt[p] = new]
<1>1. /\ IsMemory(d)
      /\ d.free = IF m.ref[f] = 1 THEN <<f>> \o m.free ELSE m.free
      /\ d.pt = m.pt /\ d.ref = [m.ref EXCEPT ![f] = m.ref[f] - 1]
  BY DecrementReferences
<1>2. f # NoFrame
  BY DEF IsMemory
<1>3. unmap_frame(m, p) =
        [d EXCEPT !.pt[p] = [frame |-> NoFrame, perm |-> d.pt[p].perm \intersect PERM_AVAILABLE],
                  !.base[f] = NoPage]
  BY <1>2 DEF unmap_frame, get_frame_info
<1>4. new \in EntriesFor(DOMAIN m.ref)
  <2>1. m.pt[p] \in EntriesFor(DOMAIN m.ref) /\ NoFrame \in DOMAIN m.ref \union {NoFrame}
    BY DEF IsMemory, MemoriesFor
  <2>2. QED
    BY <2>1 DEF EntriesFor, NoFrame, Unmapped
<1>5. unmap_frame(m, p) = [u EXCEPT !.base[f] = NoPage]
  BY <1>1, <1>3 DEF Unmapped
<1> HIDE DEF d, new
<1>6. IsMemory(u) /\ u.free = d.free /\ u.ref = d.ref /\ u.pt = [d.pt EXCEPT ![p] = new]
  BY <1>1, <1>4, SetEntry
<1> HIDE DEF u
<1>9. DOMAIN u.ref = DOMAIN m.ref
  BY <1>1, <1>6 DEF IsMemory
<1>7. /\ IsMemory(unmap_frame(m, p)) /\ unmap_frame(m, p).free = u.free
      /\ unmap_frame(m, p).ref = u.ref /\ unmap_frame(m, p).pt = u.pt
  BY <1>5, <1>6, <1>9, SetBase
<1>8. QED
  BY <1>1, <1>6, <1>7 DEF new

\* map_frame() of a page that is not present.
LEMMA MapFrame ==
  ASSUME NEW m, IsMemory(m), NEW p \in DOMAIN m.pt, NEW f \in DOMAIN m.ref, NEW perm \in SUBSET Perms,
         "P" \notin m.pt[p].perm
  PROVE  /\ IsMemory(map_frame(m, f, p, perm))
         /\ map_frame(m, f, p, perm).free = m.free
         /\ map_frame(m, f, p, perm).ref = [m.ref EXCEPT ![f] = m.ref[f] + 1]
         /\ map_frame(m, f, p, perm).pt = [m.pt EXCEPT ![p] = Mapped(m, f, p, perm)]
<1> DEFINE new == Mapped(m, f, p, perm)
           a == [m EXCEPT !.ref[f] = m.ref[f] + 1]
           b == [a EXCEPT !.base[f] = p]
<1>1. map_frame(m, f, p, perm) =
        [m EXCEPT !.ref[f] = m.ref[f] + 1, !.base[f] = p, !.pt[p] = new]
  BY DEF map_frame, Mapped
<1>2. m.pt[p] \in EntriesFor(DOMAIN m.ref) /\ m.ref[f] + 1 \in Int
  BY DEF IsMemory, MemoriesFor
<1>3. new \in EntriesFor(DOMAIN m.ref)
  <2>1. "P" \in Perms /\ f \in DOMAIN m.ref \union {NoFrame}
    BY DEF Perms
  <2>2. QED
    BY <1>2, <2>1 DEF EntriesFor, Mapped
<1> HIDE DEF new
<1>4. map_frame(m, f, p, perm) = [b EXCEPT !.pt[p] = new]
  BY <1>1
<1>5. IsMemory(a) /\ a.free = m.free /\ a.pt = m.pt /\ a.ref = [m.ref EXCEPT ![f] = m.ref[f] + 1]
  BY <1>2, SetRef
<1> HIDE DEF a
<1>6. IsMemory(b) /\ b.free = a.free /\ b.pt = a.pt /\ b.ref = a.ref
  BY <1>5, SetBase
<1> HIDE DEF b
<1>9. DOMAIN b.ref = DOMAIN m.ref /\ DOMAIN b.pt = DOMAIN m.pt
  BY <1>5, <1>6 DEF IsMemory
<1>7. /\ IsMemory(map_frame(m, f, p, perm)) /\ map_frame(m, f, p, perm).free = b.free
      /\ map_frame(m, f, p, perm).ref = b.ref /\ map_frame(m, f, p, perm).pt = [b.pt EXCEPT ![p] = new]
  BY <1>3, <1>4, <1>6, <1>9, SetEntry
<1>8. QED
  BY <1>5, <1>6, <1>7 DEF new
=============================================================================
