------------------------- MODULE SharedMemoryProofs -------------------------
(***************************************************************************)
(* Proofs about SharedMemory, for any number of environments, objects,     *)
(* frames, pages and shares.                                               *)
(***************************************************************************)
EXTENDS SharedMemory, CommonTheorems

-----------------------------------------------------------------------------
(* Types *)

Frames == 1 .. FrameCount
Pages  == Envs \X Area
Entries == [frame : 0 .. FrameCount, perm : SUBSET Perms]
Mems == [free : Seq(Frames), ref : [Frames -> Int],
         base : [Frames -> Pages \union {NoPage}], pt : [Pages -> Entries]]

-----------------------------------------------------------------------------
(* What the operators of MemoryManager do to this memory *)

\* The parts of a memory.
LEMMA MemTypes ==
  ASSUME NEW m \in Mems
  PROVE  /\ m.free \in Seq(Frames) /\ m.ref \in [Frames -> Int]
         /\ m.base \in [Frames -> Pages \union {NoPage}] /\ m.pt \in [Pages -> Entries]
BY DEF Mems

\* The memories are those of CommonTheorems with these frames and pages.
LEMMA MemsAre ==
  ASSUME NEW m
  PROVE  m \in Mems <=> IsMemory(m) /\ DOMAIN m.ref = Frames /\ DOMAIN m.pt = Pages
<1>1. Entries = EntriesFor(Frames) /\ NoFrame \notin Frames
  <2>1. FrameCount \in Nat
    BY SharingAssumption
  <2>2. Frames \union {NoFrame} = 0 .. FrameCount /\ NoFrame \notin Frames
    BY <2>1 DEF Frames, NoFrame
  <2>3. QED
    BY <2>2 DEF Entries, EntriesFor
<1>2. Mems = MemoriesFor(Frames, Pages)
  BY <1>1 DEF Mems, MemoriesFor
<1>3. ASSUME m \in MemoriesFor(Frames, Pages)
      PROVE  DOMAIN m.ref = Frames /\ DOMAIN m.pt = Pages
  BY <1>3 DEF MemoriesFor
<1>4. QED
  BY <1>1, <1>2, <1>3 DEF IsMemory

\* allocate_frame() takes the head of the list and forgets its references.
LEMMA MemsAllocate ==
  ASSUME NEW m \in Mems, m.free # <<>>
  PROVE  /\ allocate_frame(m) \in Mems /\ FreeFrame(m) \in Frames
         /\ allocate_frame(m).free = Tail(m.free) /\ allocate_frame(m).pt = m.pt
         /\ allocate_frame(m).ref = [m.ref EXCEPT ![FreeFrame(m)] = 0]
<1>1. IsMemory(m) /\ DOMAIN m.ref = Frames /\ DOMAIN m.pt = Pages
  BY MemsAre
<1> DEFINE r == allocate_frame(m)
<1>2. /\ IsMemory(r) /\ FreeFrame(m) \in Frames /\ r.free = Tail(m.free) /\ r.pt = m.pt
      /\ r.ref = [m.ref EXCEPT ![FreeFrame(m)] = 0]
  BY <1>1, AllocateFrame
<1> HIDE DEF r
<1>3. r \in Mems
  BY <1>1, <1>2, MemsAre
<1>4. QED
  BY <1>2, <1>3 DEF r

\* unmap_frame() of a page that has a frame.
LEMMA MemsUnmap ==
  ASSUME NEW m \in Mems, NEW p \in Pages, NEW f \in Frames, m.pt[p].frame = f
  PROVE  /\ unmap_frame(m, p) \in Mems
         /\ unmap_frame(m, p).free = IF m.ref[f] = 1 THEN <<f>> \o m.free ELSE m.free
         /\ unmap_frame(m, p).ref = [m.ref EXCEPT ![f] = m.ref[f] - 1]
         /\ unmap_frame(m, p).pt = [m.pt EXCEPT ![p] = Unmapped(m, p)]
<1>1. IsMemory(m) /\ DOMAIN m.ref = Frames /\ DOMAIN m.pt = Pages
  BY MemsAre
<1> DEFINE r == unmap_frame(m, p)
<1>2. /\ IsMemory(r) /\ r.free = IF m.ref[f] = 1 THEN <<f>> \o m.free ELSE m.free
      /\ r.ref = [m.ref EXCEPT ![f] = m.ref[f] - 1]
      /\ r.pt = [m.pt EXCEPT ![p] = Unmapped(m, p)]
  BY <1>1, UnmapFrame
<1> HIDE DEF r
<1>3. r \in Mems
  BY <1>1, <1>2, MemsAre
<1>4. QED
  BY <1>2, <1>3 DEF r

\* map_frame() of a page that is not present.
LEMMA MemsMap ==
  ASSUME NEW m \in Mems, NEW p \in Pages, NEW f \in Frames, NEW perm \in SUBSET Perms,
         "P" \notin m.pt[p].perm
  PROVE  /\ map_frame(m, f, p, perm) \in Mems
         /\ map_frame(m, f, p, perm).free = m.free
         /\ map_frame(m, f, p, perm).ref = [m.ref EXCEPT ![f] = m.ref[f] + 1]
         /\ map_frame(m, f, p, perm).pt = [m.pt EXCEPT ![p] = Mapped(m, f, p, perm)]
<1>1. IsMemory(m) /\ DOMAIN m.ref = Frames /\ DOMAIN m.pt = Pages
  BY MemsAre
<1> DEFINE r == map_frame(m, f, p, perm)
<1>2. /\ IsMemory(r) /\ r.free = m.free /\ r.ref = [m.ref EXCEPT ![f] = m.ref[f] + 1]
      /\ r.pt = [m.pt EXCEPT ![p] = Mapped(m, f, p, perm)]
  BY <1>1, MapFrame
<1> HIDE DEF r
<1>3. r \in Mems
  BY <1>1, <1>2, MemsAre
<1>4. QED
  BY <1>2, <1>3 DEF r

\* An assignment to the free list leaves the rest alone.
LEMMA MemsSetFree ==
  ASSUME NEW m \in Mems, NEW v \in Seq(Frames)
  PROVE  /\ [m EXCEPT !.free = v] \in Mems /\ [m EXCEPT !.free = v].free = v
         /\ [m EXCEPT !.free = v].ref = m.ref /\ [m EXCEPT !.free = v].pt = m.pt
BY DEF Mems

\* An assignment to a page table entry.
LEMMA MemsSetEntry ==
  ASSUME NEW m \in Mems, NEW p \in Pages, NEW v \in Entries
  PROVE  /\ [m EXCEPT !.pt[p] = v] \in Mems /\ [m EXCEPT !.pt[p] = v].free = m.free
         /\ [m EXCEPT !.pt[p] = v].ref = m.ref
         /\ [m EXCEPT !.pt[p] = v].pt = [m.pt EXCEPT ![p] = v]
BY DEF Mems

-----------------------------------------------------------------------------
(* The count of the frames *)

PagesOf(m, f) == {p \in Pages : m.pt[p].frame = f}
Counted(m) ==
  \A f \in Frames : /\ m.ref[f] = Cardinality(PagesOf(m, f))
                    /\ Count(m.free, f) = IF m.ref[f] = 0 THEN 1 ELSE 0

\* There are finitely many pages, so those of a frame can be counted.
LEMMA PagesFinite ==
  /\ IsFiniteSet(Pages)
  /\ \A m, f : IsFiniteSet(PagesOf(m, f)) /\ Cardinality(PagesOf(m, f)) \in Nat
<1>1. IsFiniteSet(Envs) /\ NArea \in Nat
  BY SharingAssumption
<1>2. IsFiniteSet(Area)
  BY <1>1, FS_Interval DEF Area
<1>3. IsFiniteSet(Pages)
  BY <1>1, <1>2, FS_Product DEF Pages
<1>4. \A m, f : PagesOf(m, f) \subseteq Pages
  BY DEF PagesOf
<1>5. QED
  BY <1>3, <1>4, FS_Subset, FS_CardinalityType

\* Counted() is what FramesCounted() says of this memory.
LEMMA CountedIs ==
  ASSUME NEW m \in Mems
  PROVE  Counted(m) <=> FramesCounted(m, LAMBDA f : 0)
<1>1. DOMAIN m.ref = Frames /\ DOMAIN m.pt = Pages
  BY MemTypes
<1>2. \A f : /\ PagesOf(m, f) = {p \in DOMAIN m.pt : m.pt[p].frame = f}
             /\ Count(m.free, f) = Cardinality({i \in DOMAIN m.free : m.free[i] = f})
  BY <1>1 DEF PagesOf, Count, LinksOf
<1>3. \A f : Cardinality(PagesOf(m, f)) + 0 = Cardinality(PagesOf(m, f))
  BY PagesFinite
<1>4. QED
  BY <1>1, <1>2, <1>3 DEF Counted, FramesCounted

\* Between m and r only p got or lost a frame.
OnlyAt(m, r, p) == \A q \in Pages : q # p => r.pt[q].frame = m.pt[q].frame

\* How the new entry of one page changes the number of pages of a frame.
LEMMA EntryCounts ==
  ASSUME NEW m, NEW r, NEW p \in Pages, OnlyAt(m, r, p), NEW g
  PROVE  Cardinality(PagesOf(r, g)) = Cardinality(PagesOf(m, g))
           + (IF r.pt[p].frame = g THEN 1 ELSE 0) - (IF m.pt[p].frame = g THEN 1 ELSE 0)
<1> DEFINE A == PagesOf(m, g)
           B == PagesOf(r, g)
<1>1. IsFiniteSet(A) /\ IsFiniteSet(B)
  BY PagesFinite
<1>2. /\ p \in A <=> m.pt[p].frame = g
      /\ p \in B <=> r.pt[p].frame = g
      /\ \A q : q # p => (q \in A <=> q \in B)
  BY DEF PagesOf, OnlyAt
<1> HIDE DEF A, B
<1>3. Cardinality(B) = Cardinality(A) + (IF p \in B THEN 1 ELSE 0) - (IF p \in A THEN 1 ELSE 0)
  BY <1>1, <1>2, OneElement
<1>4. QED
  BY <1>2, <1>3 DEF A, B

\* map_frame() of a page without a frame, to a frame that is in use.
LEMMA MapCounted ==
  ASSUME NEW m \in Mems, Counted(m), NEW p \in Pages, NEW f \in Frames, NEW perm \in SUBSET Perms,
         m.pt[p] = NoEntry, m.ref[f] # 0
  PROVE  /\ map_frame(m, f, p, perm) \in Mems /\ Counted(map_frame(m, f, p, perm))
         /\ map_frame(m, f, p, perm).free = m.free
         /\ map_frame(m, f, p, perm).ref = [m.ref EXCEPT ![f] = m.ref[f] + 1]
         /\ map_frame(m, f, p, perm).pt =
              [m.pt EXCEPT ![p] = [frame |-> f, perm |-> perm \union {"P"}]]
<1> DEFINE r == map_frame(m, f, p, perm)
           new == [frame |-> f, perm |-> perm \union {"P"}]
<1>1. m.pt[p].frame = 0 /\ m.pt[p].perm = {}
  BY DEF NoEntry, NoFrame
<1>2. Mapped(m, f, p, perm) = new
  BY <1>1 DEF Mapped
<1>3. /\ r \in Mems /\ r.free = m.free /\ r.ref = [m.ref EXCEPT ![f] = m.ref[f] + 1]
      /\ r.pt = [m.pt EXCEPT ![p] = Mapped(m, f, p, perm)]
  BY <1>1, MemsMap
<1> HIDE DEF r
<1>4. m.ref \in [Frames -> Int] /\ DOMAIN m.pt = Pages
  BY MemTypes
<1>5. r.pt[p].frame = f /\ OnlyAt(m, r, p)
  BY <1>2, <1>3, <1>4 DEF OnlyAt
<1>6. ASSUME NEW g \in Frames
      PROVE  /\ r.ref[g] = Cardinality(PagesOf(r, g))
             /\ Count(r.free, g) = IF r.ref[g] = 0 THEN 1 ELSE 0
  <2>1. Cardinality(PagesOf(r, g)) = Cardinality(PagesOf(m, g))
           + (IF r.pt[p].frame = g THEN 1 ELSE 0) - (IF m.pt[p].frame = g THEN 1 ELSE 0)
    BY <1>5, EntryCounts
  <2>2. m.pt[p].frame # g
    BY <1>1 DEF Frames
  <2>3. /\ m.ref[g] = Cardinality(PagesOf(m, g)) /\ m.ref[g] \in Nat
        /\ Count(m.free, g) = IF m.ref[g] = 0 THEN 1 ELSE 0
    BY PagesFinite DEF Counted
  <2>4. r.ref[g] = m.ref[g] + IF f = g THEN 1 ELSE 0
    BY <1>3, <1>4, <2>3
  <2>5. CASE f = g
    BY <1>3, <1>5, <2>1, <2>2, <2>3, <2>4, <2>5
  <2>6. CASE f # g
    BY <1>3, <1>5, <2>1, <2>2, <2>3, <2>4, <2>6
  <2>7. QED
    BY <2>5, <2>6
<1>7. Counted(r)
  BY <1>6 DEF Counted
<1>8. QED
  BY <1>2, <1>3, <1>7 DEF r

\* allocate_frame() and map_frame() of a page without a frame.
LEMMA NewCounted ==
  ASSUME NEW m \in Mems, Counted(m), NEW p \in Pages, NEW perm \in SUBSET Perms,
         m.pt[p] = NoEntry, m.free # <<>>
  PROVE  /\ allocate_and_map(m, p, perm) \in Mems /\ Counted(allocate_and_map(m, p, perm))
         /\ FreeFrame(m) \in Frames
         /\ allocate_and_map(m, p, perm).pt =
              [m.pt EXCEPT ![p] = [frame |-> FreeFrame(m), perm |-> perm \union {"P"}]]
<1> DEFINE f == FreeFrame(m)
           a == allocate_frame(m)
           r == map_frame(a, f, p, perm)
           new == [frame |-> f, perm |-> perm \union {"P"}]
<1>1. /\ a \in Mems /\ f \in Frames /\ a.free = Tail(m.free) /\ a.pt = m.pt
      /\ a.ref = [m.ref EXCEPT ![f] = 0]
  BY MemsAllocate
<1>2. allocate_and_map(m, p, perm) = r
  BY DEF allocate_and_map
<1>3. f = Head(m.free)
  BY DEF FreeFrame
<1> HIDE DEF f, a
<1>4. a.pt[p].frame = 0 /\ a.pt[p].perm = {}
  BY <1>1 DEF NoEntry, NoFrame
<1>5. Mapped(a, f, p, perm) = new
  BY <1>4 DEF Mapped
<1>6. /\ r \in Mems /\ r.free = a.free /\ r.ref = [a.ref EXCEPT ![f] = a.ref[f] + 1]
      /\ r.pt = [a.pt EXCEPT ![p] = Mapped(a, f, p, perm)]
  BY <1>1, <1>4, MemsMap
<1> HIDE DEF r
<1>7. m.ref \in [Frames -> Int] /\ m.free \in Seq(Frames) /\ DOMAIN m.pt = Pages
  BY MemTypes
<1>8. r.pt[p].frame = f /\ OnlyAt(m, r, p)
  BY <1>1, <1>5, <1>6, <1>7 DEF OnlyAt
<1>9. ASSUME NEW g \in Frames
      PROVE  /\ r.ref[g] = Cardinality(PagesOf(r, g))
             /\ Count(r.free, g) = IF r.ref[g] = 0 THEN 1 ELSE 0
  <2>1. Cardinality(PagesOf(r, g)) = Cardinality(PagesOf(m, g))
           + (IF r.pt[p].frame = g THEN 1 ELSE 0) - (IF m.pt[p].frame = g THEN 1 ELSE 0)
    BY <1>8, EntryCounts
  <2>2. m.pt[p].frame # g
    BY <1>1, <1>4 DEF Frames
  <2>3. /\ m.ref[g] = Cardinality(PagesOf(m, g)) /\ m.ref[g] \in Nat
        /\ Count(m.free, g) = IF m.ref[g] = 0 THEN 1 ELSE 0
    BY PagesFinite DEF Counted
  <2>4. Count(Tail(m.free), g) = Count(m.free, g) - IF f = g THEN 1 ELSE 0
    BY <1>3, <1>7, CountTail
  <2>5. r.free \in Seq(Frames) /\ Count(r.free, g) \in Nat
    BY <1>6, MemTypes, CountType
  <2>6. r.ref[g] = IF f = g THEN 1 ELSE m.ref[g]
    BY <1>1, <1>6, <1>7
  <2>7. CASE f = g
    BY <1>1, <1>6, <1>8, <2>1, <2>2, <2>3, <2>4, <2>5, <2>6, <2>7
  <2>8. CASE f # g
    BY <1>1, <1>6, <1>8, <2>1, <2>2, <2>3, <2>4, <2>6, <2>8
  <2>9. QED
    BY <2>7, <2>8
<1>10. Counted(r)
  BY <1>9 DEF Counted
<1>11. QED
  BY <1>1, <1>2, <1>5, <1>6, <1>10 DEF f

\* unmap_frame() of a page that has a frame; the last page gives the frame back.
LEMMA UnmapCounted ==
  ASSUME NEW m \in Mems, Counted(m), NEW p \in Pages, m.pt[p].frame # NoFrame
  PROVE  /\ unmap_frame(m, p) \in Mems /\ Counted(unmap_frame(m, p))
         /\ unmap_frame(m, p).pt = [m.pt EXCEPT ![p] = Unmapped(m, p)]
<1> DEFINE r == unmap_frame(m, p)
<1>1. m.pt \in [Pages -> Entries] /\ m.ref \in [Frames -> Int] /\ m.free \in Seq(Frames)
  BY MemTypes
<1>2. PICK f \in Frames : m.pt[p].frame = f
  <2>1. m.pt[p] \in Entries
    BY <1>1
  <2>2. QED
    BY <2>1, SharingAssumption DEF Entries, Frames, NoFrame
<1>3. /\ r \in Mems /\ r.free = IF m.ref[f] = 1 THEN <<f>> \o m.free ELSE m.free
      /\ r.ref = [m.ref EXCEPT ![f] = m.ref[f] - 1]
      /\ r.pt = [m.pt EXCEPT ![p] = Unmapped(m, p)]
  BY <1>2, MemsUnmap
<1> HIDE DEF r
<1>4. r.pt[p].frame = 0 /\ OnlyAt(m, r, p)
  BY <1>1, <1>3 DEF OnlyAt, Unmapped, NoFrame
<1>5. ASSUME NEW g \in Frames
      PROVE  /\ r.ref[g] = Cardinality(PagesOf(r, g))
             /\ Count(r.free, g) = IF r.ref[g] = 0 THEN 1 ELSE 0
  <2>1. Cardinality(PagesOf(r, g)) = Cardinality(PagesOf(m, g))
           + (IF r.pt[p].frame = g THEN 1 ELSE 0) - (IF m.pt[p].frame = g THEN 1 ELSE 0)
    BY <1>4, EntryCounts
  <2>2. r.pt[p].frame # g
    BY <1>4 DEF Frames
  <2>3. /\ m.ref[g] = Cardinality(PagesOf(m, g)) /\ m.ref[g] \in Nat
        /\ Count(m.free, g) = IF m.ref[g] = 0 THEN 1 ELSE 0
        /\ Cardinality(PagesOf(r, g)) \in Nat
    BY PagesFinite DEF Counted
  <2>4. r.ref[g] = m.ref[g] - IF f = g THEN 1 ELSE 0
    BY <1>1, <1>3, <2>3
  <2>5. Count(<<f>> \o m.free, g) = (IF f = g THEN 1 ELSE 0) + Count(m.free, g)
    <3>1. <<f>> \in Seq(Frames)
      OBVIOUS
    <3>2. Count(<<f>> \o m.free, g) = Count(<<f>>, g) + Count(m.free, g)
      BY <1>1, <3>1, CountConcat
    <3>3. QED
      BY <3>2, CountOne
  <2>6. CASE f = g
    BY <1>2, <1>3, <2>1, <2>2, <2>3, <2>4, <2>5, <2>6
  <2>7. CASE f # g
    BY <1>2, <1>3, <2>1, <2>2, <2>3, <2>4, <2>5, <2>7
  <2>8. QED
    BY <2>6, <2>7
<1>6. Counted(r)
  BY <1>5 DEF Counted
<1>7. QED
  BY <1>3, <1>6 DEF r

-----------------------------------------------------------------------------
(* The loops over the pages of an object.  A loop is a recursive function; *)
(* what it equals after each round is shown by induction on the rounds.    *)

\* The rounds of fill_pages().
LEMMA FillLoop ==
  ASSUME NEW e, NEW va \in Int, NEW n \in Nat
  PROVE  \E u : /\ u[0] = Memory
                /\ \A i \in 1 .. n : u[i] = new_page(u[i - 1], e, va + i - 1)
                /\ fill_pages(e, va, n) = u[n]
<1> DEFINE Upto(k, u) ==
             u = [i \in 0 .. k |-> IF i = 0 THEN Memory
                                   ELSE new_page(u[i - 1], e, va + i - 1)]
           S == {k \in Nat : \E u : Upto(k, u)}
<1>1. 0 \in S
  <2>1. Upto(0, [i \in 0 .. 0 |-> Memory])
    OBVIOUS
  <2>2. QED
    BY <2>1
<1>2. ASSUME NEW k \in 0 .. n - 1, k \in S
      PROVE  k + 1 \in S
  <2>1. PICK u : Upto(k, u)
    BY <1>2
  <2> DEFINE w == [i \in 0 .. k + 1 |->
                     IF i = k + 1 THEN new_page(u[k], e, va + k) ELSE u[i]]
  <2>2. \A i \in 0 .. k : w[i] = u[i]
    OBVIOUS
  <2>3. DOMAIN w = 0 .. k + 1 /\ w[k + 1] = new_page(u[k], e, va + k)
    OBVIOUS
  <2> HIDE DEF w
  <2>4. ASSUME NEW i \in 0 .. k + 1
        PROVE  w[i] = IF i = 0 THEN Memory ELSE new_page(w[i - 1], e, va + i - 1)
    <3>1. CASE i = k + 1
      <4>1. /\ i # 0 /\ i - 1 = k /\ va + i - 1 = va + k /\ w[i - 1] = u[k]
        BY <2>2, <3>1
      <4>2. QED
        BY <2>3, <3>1, <4>1
    <3>2. CASE i # k + 1
      <4>1. i \in 0 .. k /\ w[i] = u[i] /\ (i # 0 => w[i - 1] = u[i - 1])
        BY <2>2, <3>2
      <4>2. u[i] = IF i = 0 THEN Memory ELSE new_page(u[i - 1], e, va + i - 1)
        BY <2>1, <4>1
      <4>3. QED
        BY <4>1, <4>2
    <3>3. QED
      BY <3>1, <3>2
  <2>5. w = [i \in 0 .. k + 1 |-> w[i]]
    BY <2>3 DEF w
  <2>6. Upto(k + 1, w)
    BY <2>4, <2>5
  <2> HIDE DEF Upto
  <2>7. \E x : Upto(k + 1, x)
    BY <2>6
  <2>8. QED
    BY <2>7
<1>3. \A k \in 0 .. n : k \in S
  <2> HIDE DEF S
  <2>1. QED
    BY <1>1, <1>2, UpTo
<1>4. \E u : Upto(n, u)
  BY <1>3
<1> DEFINE c == CHOOSE u : Upto(n, u)
<1>5. fill_pages(e, va, n) = c[n]
  BY DEF fill_pages
<1>6. Upto(n, c)
  <2> HIDE DEF Upto
  <2>1. QED
    BY <1>4
<1> HIDE DEF c
<1>7. c[0] = Memory
  BY <1>6
<1>8. \A i \in 1 .. n : c[i] = new_page(c[i - 1], e, va + i - 1)
  BY <1>6
<1>9. QED
  BY <1>5, <1>7, <1>8

\* The rounds of unmap_pages().
LEMMA UnmapLoop ==
  ASSUME NEW e, NEW va \in Int, NEW n \in Nat
  PROVE  \E u : /\ u[0] = Memory
                /\ \A i \in 1 .. n : u[i] = unshare_page(u[i - 1], e, va + i - 1)
                /\ unmap_pages(e, va, n) = u[n]
<1> DEFINE Upto(k, u) ==
             u = [i \in 0 .. k |-> IF i = 0 THEN Memory
                                   ELSE unshare_page(u[i - 1], e, va + i - 1)]
           S == {k \in Nat : \E u : Upto(k, u)}
<1>1. 0 \in S
  <2>1. Upto(0, [i \in 0 .. 0 |-> Memory])
    OBVIOUS
  <2>2. QED
    BY <2>1
<1>2. ASSUME NEW k \in 0 .. n - 1, k \in S
      PROVE  k + 1 \in S
  <2>1. PICK u : Upto(k, u)
    BY <1>2
  <2> DEFINE w == [i \in 0 .. k + 1 |->
                     IF i = k + 1 THEN unshare_page(u[k], e, va + k) ELSE u[i]]
  <2>2. \A i \in 0 .. k : w[i] = u[i]
    OBVIOUS
  <2>3. DOMAIN w = 0 .. k + 1 /\ w[k + 1] = unshare_page(u[k], e, va + k)
    OBVIOUS
  <2> HIDE DEF w
  <2>4. ASSUME NEW i \in 0 .. k + 1
        PROVE  w[i] = IF i = 0 THEN Memory ELSE unshare_page(w[i - 1], e, va + i - 1)
    <3>1. CASE i = k + 1
      <4>1. /\ i # 0 /\ i - 1 = k /\ va + i - 1 = va + k /\ w[i - 1] = u[k]
        BY <2>2, <3>1
      <4>2. QED
        BY <2>3, <3>1, <4>1
    <3>2. CASE i # k + 1
      <4>1. i \in 0 .. k /\ w[i] = u[i] /\ (i # 0 => w[i - 1] = u[i - 1])
        BY <2>2, <3>2
      <4>2. u[i] = IF i = 0 THEN Memory ELSE unshare_page(u[i - 1], e, va + i - 1)
        BY <2>1, <4>1
      <4>3. QED
        BY <4>1, <4>2
    <3>3. QED
      BY <3>1, <3>2
  <2>5. w = [i \in 0 .. k + 1 |-> w[i]]
    BY <2>3 DEF w
  <2>6. Upto(k + 1, w)
    BY <2>4, <2>5
  <2> HIDE DEF Upto
  <2>7. \E x : Upto(k + 1, x)
    BY <2>6
  <2>8. QED
    BY <2>7
<1>3. \A k \in 0 .. n : k \in S
  <2> HIDE DEF S
  <2>1. QED
    BY <1>1, <1>2, UpTo
<1>4. \E u : Upto(n, u)
  BY <1>3
<1> DEFINE c == CHOOSE u : Upto(n, u)
<1>5. unmap_pages(e, va, n) = c[n]
  BY DEF unmap_pages
<1>6. Upto(n, c)
  <2> HIDE DEF Upto
  <2>1. QED
    BY <1>4
<1> HIDE DEF c
<1>7. c[0] = Memory
  BY <1>6
<1>8. \A i \in 1 .. n : c[i] = unshare_page(c[i - 1], e, va + i - 1)
  BY <1>6
<1>9. QED
  BY <1>5, <1>7, <1>8

\* The rounds of map_pages().
MapRun(u, e, va, frames, rw) ==
  /\ u[0] = Memory
  /\ \A i \in 1 .. Len(frames) : u[i] = share_page(u[i - 1], e, va + i - 1, frames[i], rw)
  /\ map_pages(e, va, frames, rw) = u[Len(frames)]

\* map_pages() goes through such rounds.
LEMMA MapLoop ==
  ASSUME NEW e, NEW va \in Int, NEW frames, NEW rw \in BOOLEAN, Len(frames) \in Nat
  PROVE  \E u : MapRun(u, e, va, frames, rw)
<1> DEFINE Upto(k, u) ==
             u = [i \in 0 .. k |-> IF i = 0 THEN Memory
                                   ELSE share_page(u[i - 1], e, va + i - 1, frames[i], rw)]
           S == {k \in Nat : \E u : Upto(k, u)}
<1>1. 0 \in S
  <2>1. Upto(0, [i \in 0 .. 0 |-> Memory])
    OBVIOUS
  <2>2. QED
    BY <2>1
<1>2. ASSUME NEW k \in 0 .. Len(frames) - 1, k \in S
      PROVE  k + 1 \in S
  <2>1. PICK u : Upto(k, u)
    BY <1>2
  <2> DEFINE w == [i \in 0 .. k + 1 |->
                     IF i = k + 1 THEN share_page(u[k], e, va + k, frames[k + 1], rw) ELSE u[i]]
  <2>2. \A i \in 0 .. k : w[i] = u[i]
    OBVIOUS
  <2>3. DOMAIN w = 0 .. k + 1 /\ w[k + 1] = share_page(u[k], e, va + k, frames[k + 1], rw)
    OBVIOUS
  <2> HIDE DEF w
  <2>4. ASSUME NEW i \in 0 .. k + 1
        PROVE  w[i] = IF i = 0 THEN Memory ELSE share_page(w[i - 1], e, va + i - 1, frames[i], rw)
    <3>1. CASE i = k + 1
      <4>1. /\ i # 0 /\ i - 1 = k /\ va + i - 1 = va + k /\ w[i - 1] = u[k]
        BY <2>2, <3>1
      <4>2. QED
        BY <2>3, <3>1, <4>1
    <3>2. CASE i # k + 1
      <4>1. i \in 0 .. k /\ w[i] = u[i] /\ (i # 0 => w[i - 1] = u[i - 1])
        BY <2>2, <3>2
      <4>2. u[i] = IF i = 0 THEN Memory ELSE share_page(u[i - 1], e, va + i - 1, frames[i], rw)
        BY <2>1, <4>1
      <4>3. QED
        BY <4>1, <4>2
    <3>3. QED
      BY <3>1, <3>2
  <2>5. w = [i \in 0 .. k + 1 |-> w[i]]
    BY <2>3 DEF w
  <2>6. Upto(k + 1, w)
    BY <2>4, <2>5
  <2> HIDE DEF Upto
  <2>7. \E x : Upto(k + 1, x)
    BY <2>6
  <2>8. QED
    BY <2>7
<1>3. \A k \in 0 .. Len(frames) : k \in S
  <2> HIDE DEF S
  <2>1. QED
    BY <1>1, <1>2, UpTo
<1>4. \E u : Upto(Len(frames), u)
  BY <1>3
<1> DEFINE c == CHOOSE u : Upto(Len(frames), u)
<1>5. map_pages(e, va, frames, rw) = c[Len(frames)]
  BY DEF map_pages
<1>6. Upto(Len(frames), c)
  <2> HIDE DEF Upto
  <2>1. QED
    BY <1>4
<1> HIDE DEF c
<1>7. c[0] = Memory
  BY <1>6
<1>8. \A i \in 1 .. Len(frames) : c[i] = share_page(c[i - 1], e, va + i - 1, frames[i], rw)
  BY <1>6
<1>9. MapRun(c, e, va, frames, rw)
  BY <1>5, <1>7, <1>8 DEF MapRun
<1>10. QED
  BY <1>9

-----------------------------------------------------------------------------
(* One round of a loop *)

Tabs == {TableOf(p) : p \in Area}
Rounds == [mm : Mems, tables : [Envs -> SUBSET Tabs], ok : BOOLEAN]

\* A page table has an entry, or sfree() would have given it back.
TableUsed(pt, e, t) == \E p \in Area : TableOf(p) = t /\ pt[<<e, p>>] # NoEntry
TablesUsed(pt, tb) == \A e \in Envs : \A t \in tb[e] : TableUsed(pt, e, t)

\* The entries that fill_pages() and map_pages() write.
SharedEntry(f, rw) == [frame |-> f, perm |-> {"P", "U", "b11"} \union IF rw THEN {"W"} ELSE {}]

\* What every round keeps.
RoundOK(m) == m \in Rounds /\ Counted(m.mm) /\ TablesUsed(m.mm.pt, m.tables)

\* The parts of a round.
LEMMA RoundTypes ==
  ASSUME NEW m \in Rounds
  PROVE  m.mm \in Mems /\ m.tables \in [Envs -> SUBSET Tabs] /\ m.ok \in BOOLEAN
BY DEF Rounds

\* The page tables can be counted, so free frames are on the free list.
LEMMA FreeFramesListed ==
  ASSUME NEW m \in Rounds, FreeFrames(m) > 0
  PROVE  m.mm.free # <<>>
<1> DEFINE P(e) == {<<e, t>> : t \in m.tables[e]}
           U == UNION {P(e) : e \in Envs}
<1>1. m.tables \in [Envs -> SUBSET Tabs] /\ m.mm \in Mems
  BY RoundTypes
<1>2. IsFiniteSet(Area)
  BY SharingAssumption, FS_Interval DEF Area
<1>3. IsFiniteSet(Tabs)
  <2> DEFINE table == [p \in Area |-> TableOf(p)]
  <2>1. table \in Surjection(Area, Tabs)
    BY DEF Tabs, Surjection
  <2>2. QED
    BY <1>2, <2>1, FS_Surjection DEF ExistsSurjection
<1>4. IsFiniteSet(Envs \X Tabs)
  BY <1>3, SharingAssumption, FS_Product
<1>5. U \subseteq Envs \X Tabs
  BY <1>1
<1>6. Cardinality(U) \in Nat
  BY <1>4, <1>5, FS_Subset, FS_CardinalityType
<1>7. FreeFrames(m) = Len(m.mm.free) - Cardinality(U)
  BY DEF FreeFrames, Tables
<1> HIDE DEF U
<1>8. m.mm.free \in Seq(Frames)
  BY <1>1, MemTypes
<1>9. Len(m.mm.free) > 0
  BY <1>6, <1>7, <1>8
<1>10. QED
  BY <1>9

\* Assignments to the parts of a round.
LEMMA SetRound ==
  ASSUME NEW m \in Rounds
  PROVE  /\ \A x \in Mems : /\ [m EXCEPT !.mm = x] \in Rounds
                            /\ [m EXCEPT !.mm = x].mm = x
                            /\ [m EXCEPT !.mm = x].tables = m.tables
                            /\ [m EXCEPT !.mm = x].ok = m.ok
         /\ \A x \in BOOLEAN : /\ [m EXCEPT !.ok = x] \in Rounds
                               /\ [m EXCEPT !.ok = x].mm = m.mm
                               /\ [m EXCEPT !.ok = x].tables = m.tables
                               /\ [m EXCEPT !.ok = x].ok = x
         /\ \A e \in Envs : \A x \in SUBSET Tabs :
              /\ [m EXCEPT !.tables[e] = x] \in Rounds
              /\ [m EXCEPT !.tables[e] = x].mm = m.mm
              /\ [m EXCEPT !.tables[e] = x].tables = [m.tables EXCEPT ![e] = x]
              /\ [m EXCEPT !.tables[e] = x].ok = m.ok
BY DEF Rounds

\* with_table() adds the page table, if a frame is left for it.
LEMMA WithTable ==
  ASSUME NEW m \in Rounds, NEW e \in Envs, NEW p \in Area
  PROVE  /\ with_table(m, e, p) \in Rounds /\ with_table(m, e, p).mm = m.mm
         /\ with_table(m, e, p).tables = [m.tables EXCEPT ![e] = m.tables[e] \union {TableOf(p)}]
         /\ with_table(m, e, p).ok => m.ok
<1>1. m.tables \in [Envs -> SUBSET Tabs] /\ m.ok \in BOOLEAN
  BY RoundTypes
<1>2. CASE TableOf(p) \in m.tables[e]
  <2>1. m.tables[e] \union {TableOf(p)} = m.tables[e]
    BY <1>2
  <2>2. [m.tables EXCEPT ![e] = m.tables[e]] = m.tables
    BY <1>1
  <2>3. QED
    BY <1>2, <2>1, <2>2 DEF with_table
<1>3. CASE TableOf(p) \notin m.tables[e]
  <2> DEFINE ts == m.tables[e] \union {TableOf(p)}
             b  == m.ok /\ FreeFrames(m) > 0
             n  == [m EXCEPT !.ok = b]
             r  == [n EXCEPT !.tables[e] = ts]
  <2>1. ts \in SUBSET Tabs /\ b \in BOOLEAN
    BY <1>1 DEF Tabs
  <2>2. with_table(m, e, p) = [m EXCEPT !.ok = b, !.tables[e] = ts]
    BY <1>3 DEF with_table
  <2>3. with_table(m, e, p) = r
    BY <2>2
  <2>4. b => m.ok
    OBVIOUS
  <2> HIDE DEF ts, b
  <2>5. n \in Rounds /\ n.mm = m.mm /\ n.tables = m.tables /\ n.ok = b
    BY <2>1, SetRound
  <2> HIDE DEF n
  <2>6. r \in Rounds /\ r.mm = n.mm /\ r.tables = [n.tables EXCEPT ![e] = ts] /\ r.ok = n.ok
    BY <2>1, <2>5, SetRound
  <2>7. QED
    BY <2>3, <2>4, <2>5, <2>6 DEF ts
<1>4. QED
  BY <1>2, <1>3

\* A page that gets an entry needs its table; the other tables keep their entries.
LEMMA TablesUsedMore ==
  ASSUME NEW pt, NEW qt, NEW tb \in [Envs -> SUBSET Tabs], TablesUsed(pt, tb),
         NEW e \in Envs, NEW p \in Area, qt[<<e, p>>] # NoEntry,
         \A q \in Pages : q # <<e, p>> => qt[q] = pt[q]
  PROVE  TablesUsed(qt, [tb EXCEPT ![e] = tb[e] \union {TableOf(p)}])
<1> DEFINE ub == [tb EXCEPT ![e] = tb[e] \union {TableOf(p)}]
<1>1. SUFFICES ASSUME NEW d \in Envs, NEW t \in ub[d]
               PROVE  TableUsed(qt, d, t)
  BY DEF TablesUsed
<1>2. CASE t \in tb[d]
  <2>1. TableUsed(pt, d, t)
    BY <1>2 DEF TablesUsed
  <2>2. PICK q \in Area : TableOf(q) = t /\ pt[<<d, q>>] # NoEntry
    BY <2>1 DEF TableUsed
  <2>3. <<d, q>> \in Pages
    BY DEF Pages
  <2>4. qt[<<d, q>>] # NoEntry
    BY <2>2, <2>3
  <2>5. QED
    BY <2>2, <2>4 DEF TableUsed
<1>3. CASE t \notin tb[d]
  <2>1. d = e /\ t = TableOf(p)
    BY <1>3
  <2>2. QED
    BY <2>1 DEF TableUsed
<1>4. QED
  BY <1>2, <1>3

\* The round of map_pages(): the page gets the frame.
LEMMA SharePage ==
  ASSUME NEW m, RoundOK(m), NEW e \in Envs, NEW p \in Area, NEW f \in Frames, NEW rw \in BOOLEAN,
         m.mm.pt[<<e, p>>] = NoEntry, m.mm.ref[f] # 0, share_page(m, e, p, f, rw).ok
  PROVE  /\ m.ok /\ RoundOK(share_page(m, e, p, f, rw))
         /\ share_page(m, e, p, f, rw).mm.ref = [m.mm.ref EXCEPT ![f] = m.mm.ref[f] + 1]
         /\ share_page(m, e, p, f, rw).mm.pt[<<e, p>>] = SharedEntry(f, rw)
         /\ \A q \in Pages : q # <<e, p>> => share_page(m, e, p, f, rw).mm.pt[q] = m.mm.pt[q]
<1> DEFINE t == with_table(m, e, p)
           r == share_page(m, e, p, f, rw)
           perm == {"P", "U", "b11"} \union IF rw THEN {"W"} ELSE {}
           x == map_frame(m.mm, f, <<e, p>>, perm)
           new == [frame |-> f, perm |-> perm]
<1>1. m \in Rounds /\ m.mm \in Mems /\ Counted(m.mm) /\ <<e, p>> \in Pages
  BY RoundTypes DEF RoundOK, Pages
<1>2. t \in Rounds /\ t.mm = m.mm /\ (t.ok => m.ok)
      /\ t.tables = [m.tables EXCEPT ![e] = m.tables[e] \union {TableOf(p)}]
  BY <1>1, WithTable
<1>3. r = IF ~t.ok THEN t ELSE [t EXCEPT !.mm = x]
  BY <1>2 DEF share_page, put_frame
<1> HIDE DEF t
<1>4. t.ok /\ r = [t EXCEPT !.mm = x]
  BY <1>3
<1>5. perm \in SUBSET Perms /\ perm \union {"P"} = perm
  BY DEF Perms, PERM_AVAILABLE
<1> HIDE DEF perm
<1>6. /\ x \in Mems /\ Counted(x)
      /\ x.ref = [m.mm.ref EXCEPT ![f] = m.mm.ref[f] + 1]
      /\ x.pt = [m.mm.pt EXCEPT ![<<e, p>>] = new]
  BY SMTT(30), <1>1, <1>5, MapCounted
<1> HIDE DEF x, r
<1>7. r \in Rounds /\ r.mm = x /\ r.tables = t.tables
  BY <1>2, <1>4, <1>6, SetRound
<1>8. /\ x.pt[<<e, p>>] = new /\ new # NoEntry
      /\ \A q \in Pages : q # <<e, p>> => x.pt[q] = m.mm.pt[q]
  <2>1. m.mm.pt \in [Pages -> Entries]
    BY <1>1, MemTypes
  <2>2. QED
    BY <1>1, <1>6, <2>1 DEF NoEntry, NoFrame, Frames
<1>9. TablesUsed(x.pt, t.tables)
  <2>1. TablesUsed(m.mm.pt, m.tables) /\ m.tables \in [Envs -> SUBSET Tabs]
    BY RoundTypes DEF RoundOK
  <2>2. QED
    BY SMTT(30), <1>2, <1>8, <2>1, TablesUsedMore
<1>10. new = SharedEntry(f, rw)
  BY DEF SharedEntry, perm
<1> HIDE DEF new
<1>11. QED
  BY <1>2, <1>4, <1>6, <1>7, <1>8, <1>9, <1>10 DEF RoundOK, r

\* The round of fill_pages(): the page gets a frame of its own.
LEMMA NewPage ==
  ASSUME NEW m, RoundOK(m), NEW e \in Envs, NEW p \in Area,
         m.mm.pt[<<e, p>>] = NoEntry, new_page(m, e, p).ok
  PROVE  /\ m.ok /\ RoundOK(new_page(m, e, p))
         /\ \E f \in Frames : new_page(m, e, p).mm.pt[<<e, p>>] = SharedEntry(f, TRUE)
         /\ \A q \in Pages : q # <<e, p>> => new_page(m, e, p).mm.pt[q] = m.mm.pt[q]
<1> DEFINE t == with_table(m, e, p)
           r == new_page(m, e, p)
           perm == {"P", "W", "U", "b11"}
           x == allocate_and_map(m.mm, <<e, p>>, perm)
           f == FreeFrame(m.mm)
           new == [frame |-> f, perm |-> perm]
<1>1. m \in Rounds /\ m.mm \in Mems /\ Counted(m.mm) /\ <<e, p>> \in Pages
  BY RoundTypes DEF RoundOK, Pages
<1>2. t \in Rounds /\ t.mm = m.mm /\ (t.ok => m.ok)
      /\ t.tables = [m.tables EXCEPT ![e] = m.tables[e] \union {TableOf(p)}]
  BY <1>1, WithTable
<1>3. r = IF t.ok /\ FreeFrames(t) > 0 THEN [t EXCEPT !.mm = x] ELSE [t EXCEPT !.ok = FALSE]
  BY <1>2 DEF new_page, put_new_frame
<1> HIDE DEF t, x
<1>4. t.ok /\ FreeFrames(t) > 0 /\ r = [t EXCEPT !.mm = x]
  <2>1. [t EXCEPT !.ok = FALSE].ok = FALSE
    BY <1>2, SetRound
  <2> HIDE DEF r
  <2>2. r.ok
    BY DEF r
  <2>3. QED
    BY <1>3, <2>1, <2>2
<1>5. m.mm.free # <<>>
  BY <1>2, <1>4, FreeFramesListed
<1>6. perm \in SUBSET Perms /\ perm \union {"P"} = perm
  BY DEF Perms, PERM_AVAILABLE
<1> HIDE DEF perm
<1>7. /\ x \in Mems /\ Counted(x) /\ f \in Frames
      /\ x.pt = [m.mm.pt EXCEPT ![<<e, p>>] = new]
  <2> DEFINE q == <<e, p>>
             k == m.mm
  <2>1. k \in Mems /\ Counted(k) /\ q \in Pages /\ k.pt[q] = NoEntry /\ k.free # <<>>
    BY <1>1, <1>5
  <2> HIDE DEF q, k
  <2>2. /\ allocate_and_map(k, q, perm) \in Mems /\ Counted(allocate_and_map(k, q, perm))
        /\ FreeFrame(k) \in Frames
        /\ allocate_and_map(k, q, perm).pt =
             [k.pt EXCEPT ![q] = [frame |-> FreeFrame(k), perm |-> perm \union {"P"}]]
    BY <1>6, <2>1, NewCounted
  <2>3. QED
    BY <1>6, <2>2 DEF x, q, k
<1> HIDE DEF f, r
<1>8. r \in Rounds /\ r.mm = x /\ r.tables = t.tables
  BY <1>2, <1>4, <1>7, SetRound
<1>9. /\ x.pt[<<e, p>>] = new /\ new # NoEntry
      /\ \A q \in Pages : q # <<e, p>> => x.pt[q] = m.mm.pt[q]
  <2>1. m.mm.pt \in [Pages -> Entries]
    BY <1>1, MemTypes
  <2>2. QED
    BY <1>1, <1>7, <2>1 DEF NoEntry, NoFrame, Frames
<1>10. TablesUsed(x.pt, t.tables)
  <2>1. TablesUsed(m.mm.pt, m.tables) /\ m.tables \in [Envs -> SUBSET Tabs]
    BY RoundTypes DEF RoundOK
  <2>2. QED
    BY <1>2, <1>9, <2>1, TablesUsedMore
<1>11. new = SharedEntry(f, TRUE)
  BY DEF SharedEntry, perm
<1> HIDE DEF new
<1>12. QED
  BY ZenonT(30), <1>2, <1>4, <1>7, <1>8, <1>9, <1>10, <1>11 DEF RoundOK, r

\* pt_set_page_permissions() that clears all marks.
LEMMA ClearMarks ==
  ASSUME NEW m \in Mems, NEW p \in Pages, Counted(m)
  PROVE  LET r == pt_set_page_permissions(m, p, {}, PERM_AVAILABLE)
         IN  /\ r \in Mems /\ Counted(r) /\ r.pt[p].frame = m.pt[p].frame
             /\ r.pt[p].perm \intersect PERM_AVAILABLE = {}
             /\ \A q \in Pages : q # p => r.pt[q] = m.pt[q]
<1> DEFINE r == pt_set_page_permissions(m, p, {}, PERM_AVAILABLE)
           new == [frame |-> m.pt[p].frame, perm |-> m.pt[p].perm \ PERM_AVAILABLE]
<1>1. m.pt \in [Pages -> Entries] /\ m.pt[p] \in Entries
  BY MemTypes
<1>2. new \in Entries
  BY <1>1 DEF Entries
<1>3. r = [m EXCEPT !.pt[p] = new]
  <2>1. [m.pt[p] EXCEPT !.perm = m.pt[p].perm \ PERM_AVAILABLE] = new
    BY <1>1 DEF Entries
  <2>2. (m.pt[p].perm \union {}) \ PERM_AVAILABLE = m.pt[p].perm \ PERM_AVAILABLE
    OBVIOUS
  <2>3. r = [m EXCEPT !.pt[p] = [m.pt[p] EXCEPT !.perm = (m.pt[p].perm \union {}) \ PERM_AVAILABLE]]
    BY <1>1 DEF pt_set_page_permissions, Mems
  <2> HIDE DEF new, r
  <2>4. QED
    BY <2>1, <2>2, <2>3
<1>4. new.frame = m.pt[p].frame /\ new.perm \intersect PERM_AVAILABLE = {}
  OBVIOUS
<1> HIDE DEF new, r
<1>5. r \in Mems /\ r.free = m.free /\ r.ref = m.ref /\ r.pt = [m.pt EXCEPT ![p] = new]
  BY <1>2, <1>3, MemsSetEntry
<1>6. r.pt[p] = new /\ \A q \in Pages : q # p => r.pt[q] = m.pt[q]
  BY <1>1, <1>5
<1>7. Counted(r)
  <2>1. \A f \in Frames : PagesOf(r, f) = PagesOf(m, f)
    BY <1>4, <1>6 DEF PagesOf
  <2>2. QED
    BY <1>5, <2>1 DEF Counted
<1>8. QED
  BY <1>4, <1>5, <1>6, <1>7 DEF r

\* A page without an entry leaves no table without one, if drop_table() looks at its own.
LEMMA TablesUsedLess ==
  ASSUME NEW pt, NEW qt, NEW tb \in [Envs -> SUBSET Tabs], TablesUsed(pt, tb),
         NEW e \in Envs, NEW p \in Area, \A q \in Pages : q # <<e, p>> => qt[q] = pt[q]
  PROVE  /\ TablesUsed(qt, [tb EXCEPT ![e] = tb[e] \ {TableOf(p)}])
         /\ TableUsed(qt, e, TableOf(p)) => TablesUsed(qt, tb)
<1>1. ASSUME NEW d \in Envs, NEW t \in tb[d], d # e \/ t # TableOf(p)
      PROVE  TableUsed(qt, d, t)
  <2>1. TableUsed(pt, d, t)
    BY DEF TablesUsed
  <2>2. PICK q \in Area : TableOf(q) = t /\ pt[<<d, q>>] # NoEntry
    BY <2>1 DEF TableUsed
  <2>3. <<d, q>> \in Pages /\ <<d, q>> # <<e, p>>
    BY <1>1, <2>2 DEF Pages
  <2>4. qt[<<d, q>>] # NoEntry
    BY <2>2, <2>3
  <2>5. QED
    BY <2>2, <2>4 DEF TableUsed
<1>2. TablesUsed(qt, [tb EXCEPT ![e] = tb[e] \ {TableOf(p)}])
  BY <1>1 DEF TablesUsed
<1>3. TableUsed(qt, e, TableOf(p)) => TablesUsed(qt, tb)
  BY <1>1 DEF TablesUsed
<1>4. QED
  BY <1>2, <1>3

\* The round of unmap_pages(): the page gives its frame up.
LEMMA UnsharePage ==
  ASSUME NEW m, RoundOK(m), NEW e \in Envs, NEW p \in Area,
         m.mm.pt[<<e, p>>].frame # NoFrame
  PROVE  /\ RoundOK(unshare_page(m, e, p))
         /\ unshare_page(m, e, p).mm.pt[<<e, p>>] = NoEntry
         /\ \A q \in Pages : q # <<e, p>> => unshare_page(m, e, p).mm.pt[q] = m.mm.pt[q]
<1> DEFINE a == <<e, p>>
           t == TableOf(p)
           x == pt_set_page_permissions(m.mm, a, {}, PERM_AVAILABLE)
           y == unmap_frame(x, a)
           k == [m EXCEPT !.mm = y]
           r == unshare_page(m, e, p)
<1>1. /\ m \in Rounds /\ m.mm \in Mems /\ Counted(m.mm) /\ a \in Pages
      /\ TablesUsed(m.mm.pt, m.tables) /\ m.tables \in [Envs -> SUBSET Tabs]
  BY RoundTypes DEF RoundOK, Pages
<1>2. r = IF EmptyTable(k, e, t) THEN [k EXCEPT !.tables[e] = k.tables[e] \ {t}] ELSE k
  BY DEF unshare_page, drop_table
<1> HIDE DEF r
<1>3. /\ x \in Mems /\ Counted(x) /\ x.pt[a].frame = m.mm.pt[a].frame
      /\ x.pt[a].perm \intersect PERM_AVAILABLE = {}
      /\ \A q \in Pages : q # a => x.pt[q] = m.mm.pt[q]
  <2> DEFINE n == m.mm
             b == a
  <2>1. n \in Mems /\ Counted(n) /\ b \in Pages
    BY <1>1
  <2> HIDE DEF n, b
  <2>2. LET z == pt_set_page_permissions(n, b, {}, PERM_AVAILABLE)
        IN  /\ z \in Mems /\ Counted(z) /\ z.pt[b].frame = n.pt[b].frame
            /\ z.pt[b].perm \intersect PERM_AVAILABLE = {}
            /\ \A q \in Pages : q # b => z.pt[q] = n.pt[q]
    BY <2>1, ClearMarks
  <2>3. QED
    BY <2>2 DEF n, b
<1> HIDE DEF x
<1>4. y \in Mems /\ Counted(y) /\ y.pt[a] = NoEntry /\ \A q \in Pages : q # a => y.pt[q] = m.mm.pt[q]
  <2>1. x.pt \in [Pages -> Entries] /\ x.pt[a].frame # NoFrame
    BY <1>1, <1>3, MemTypes
  <2> HIDE DEF a, y
  <2>2. y \in Mems /\ Counted(y) /\ y.pt = [x.pt EXCEPT ![a] = Unmapped(x, a)]
    BY <1>1, <1>3, <2>1, UnmapCounted DEF y
  <2>3. Unmapped(x, a) = NoEntry
    BY <1>3 DEF Unmapped, NoEntry
  <2>4. QED
    BY <1>1, <1>3, <2>1, <2>2, <2>3
<1> HIDE DEF y
<1>5. k \in Rounds /\ k.mm = y /\ k.tables = m.tables
  BY <1>1, <1>4, SetRound
<1> HIDE DEF k, a
<1>6. /\ TablesUsed(y.pt, [m.tables EXCEPT ![e] = m.tables[e] \ {t}])
      /\ TableUsed(y.pt, e, t) => TablesUsed(y.pt, m.tables)
  BY <1>1, <1>4, TablesUsedLess DEF a
<1>7. CASE EmptyTable(k, e, t)
  <2> DEFINE ts == m.tables[e] \ {t}
             l == [k EXCEPT !.tables[e] = ts]
  <2>1. ts \in SUBSET Tabs /\ r = l
    BY <1>1, <1>2, <1>5, <1>7
  <2> HIDE DEF ts
  <2>2. l \in Rounds /\ l.mm = k.mm /\ l.tables = [k.tables EXCEPT ![e] = ts]
    BY <1>5, <2>1, SetRound
  <2> HIDE DEF l
  <2>3. TablesUsed(r.mm.pt, r.tables)
    BY <1>5, <1>6, <2>1, <2>2 DEF ts
  <2>4. QED
    BY <1>4, <1>5, <2>1, <2>2, <2>3 DEF RoundOK, r, a
<1>8. CASE ~EmptyTable(k, e, t)
  <2>1. TableUsed(y.pt, e, t)
    BY <1>5, <1>8 DEF EmptyTable, TableUsed
  <2>2. r = k
    BY <1>2, <1>8
  <2>3. QED
    BY <1>4, <1>5, <1>6, <2>1, <2>2 DEF RoundOK, r, a
<1>9. QED
  BY <1>7, <1>8

\* Once a frame was wanted in vain, a loop maps no more.
LEMMA NoMorePages ==
  ASSUME NEW m \in Rounds, NEW e \in Envs, NEW p \in Area, NEW f, NEW rw
  PROVE  /\ ~m.ok => ~new_page(m, e, p).ok /\ ~share_page(m, e, p, f, rw).ok
         /\ ~new_page(m, e, p).ok => new_page(m, e, p) \in Rounds
         /\ ~share_page(m, e, p, f, rw).ok => share_page(m, e, p, f, rw) \in Rounds
<1> DEFINE t == with_table(m, e, p)
           x == allocate_and_map(t.mm, <<e, p>>, {"P", "W", "U", "b11"})
           y == map_frame(t.mm, f, <<e, p>>, {"P", "U", "b11"} \union (IF rw THEN {"W"} ELSE {}))
<1>1. t \in Rounds /\ (t.ok => m.ok)
  BY WithTable
<1>2. /\ new_page(m, e, p) = IF t.ok /\ FreeFrames(t) > 0 THEN [t EXCEPT !.mm = x]
                             ELSE [t EXCEPT !.ok = FALSE]
      /\ share_page(m, e, p, f, rw) = IF ~t.ok THEN t ELSE [t EXCEPT !.mm = y]
  BY DEF new_page, share_page, put_new_frame, put_frame
<1> HIDE DEF t, x, y
<1>3. [t EXCEPT !.mm = x].ok = t.ok /\ [t EXCEPT !.mm = y].ok = t.ok
  BY <1>1 DEF Rounds
<1>4. [t EXCEPT !.ok = FALSE] \in Rounds /\ [t EXCEPT !.ok = FALSE].ok = FALSE
  BY <1>1, SetRound
<1>5. QED
  BY <1>1, <1>2, <1>3, <1>4

-----------------------------------------------------------------------------
(* What the loops do *)

\* The pages from va on, and what a loop over them leaves alone.
Page(e, va, i) == <<e, va + i - 1>>
Kept(pt, qt, e, va, n) ==
  \A q \in Pages : (\A i \in 1 .. n : q # Page(e, va, i)) => qt[q] = pt[q]

\* What fill_pages() and map_pages() write.
FilledTo(pt, e, va, n) ==
  \A i \in 1 .. n : \E f \in Frames : pt[Page(e, va, i)] = SharedEntry(f, TRUE)
MappedTo(pt, e, va, n, frames, rw) ==
  \A i \in 1 .. n : pt[Page(e, va, i)] = SharedEntry(frames[i], rw)
EmptyTo(pt, e, va, n) == \A i \in 1 .. n : pt[Page(e, va, i)] = NoEntry

InArea(va, n) == \A i \in 1 .. n : va + i - 1 \in Area

\* A round about one more page keeps what was kept.
LEMMA KeptMore ==
  ASSUME NEW pt, NEW qt, NEW rt, NEW e \in Envs, NEW va \in Int, NEW k \in Nat,
         Kept(pt, qt, e, va, k),
         \A q \in Pages : q # Page(e, va, k + 1) => rt[q] = qt[q]
  PROVE  Kept(pt, rt, e, va, k + 1)
<1>1. SUFFICES ASSUME NEW q \in Pages, \A i \in 1 .. k + 1 : q # Page(e, va, i)
               PROVE  rt[q] = pt[q]
  BY DEF Kept
<1>2. \A i \in 1 .. k : q # Page(e, va, i)
  BY <1>1
<1>3. q # Page(e, va, k + 1)
  BY <1>1
<1>4. QED
  BY <1>2, <1>3 DEF Kept

\* The pages of a region are different pages.
LEMMA PagesDiffer ==
  ASSUME NEW e \in Envs, NEW va \in Int, NEW n \in Nat, InArea(va, n), NEW k \in 0 .. n - 1
  PROVE  /\ va + k \in Area /\ Page(e, va, k + 1) = <<e, va + k>> /\ Page(e, va, k + 1) \in Pages
         /\ \A i \in 1 .. k : Page(e, va, i) \in Pages /\ Page(e, va, i) # Page(e, va, k + 1)
<1>1. k + 1 \in 1 .. n /\ va + (k + 1) - 1 = va + k
  OBVIOUS
<1>2. \A i \in 1 .. k : i \in 1 .. n /\ va + i - 1 # va + k
  OBVIOUS
<1>3. QED
  BY <1>1, <1>2 DEF InArea, Page, Pages

\* fill_pages() gives every page a frame of its own, and changes no other page.
LEMMA FillPagesDoes ==
  ASSUME RoundOK(Memory), NEW e \in Envs, NEW va \in Int, NEW n \in Nat,
         InArea(va, n), EmptyTo(mm.pt, e, va, n), fill_pages(e, va, n).ok
  PROVE  /\ RoundOK(fill_pages(e, va, n))
         /\ Kept(mm.pt, fill_pages(e, va, n).mm.pt, e, va, n)
         /\ FilledTo(fill_pages(e, va, n).mm.pt, e, va, n)
<1>1. PICK u : /\ u[0] = Memory
               /\ \A i \in 1 .. n : u[i] = new_page(u[i - 1], e, va + i - 1)
               /\ fill_pages(e, va, n) = u[n]
  BY FillLoop
<1> DEFINE Claim(k) == /\ u[k] \in Rounds
                       /\ u[k].ok => /\ RoundOK(u[k]) /\ Kept(mm.pt, u[k].mm.pt, e, va, k)
                                     /\ FilledTo(u[k].mm.pt, e, va, k)
           S == {k \in 0 .. n : Claim(k)}
<1>2. 0 \in S
  <2>1. u[0].mm = mm /\ RoundOK(u[0]) /\ u[0] \in Rounds
    BY <1>1 DEF Memory, RoundOK
  <2>2. Kept(mm.pt, u[0].mm.pt, e, va, 0) /\ FilledTo(u[0].mm.pt, e, va, 0)
    BY <2>1 DEF Kept, FilledTo
  <2>3. QED
    BY <2>1, <2>2
<1>3. ASSUME NEW k \in 0 .. n - 1, k \in S
      PROVE  k + 1 \in S
  <2> DEFINE m == u[k]
             p == va + k
             r == new_page(m, e, p)
  <2>1. Claim(k)
    BY <1>3
  <2>2. k + 1 \in 1 .. n /\ k + 1 \in 0 .. n /\ (k + 1) - 1 = k /\ va + (k + 1) - 1 = va + k
    OBVIOUS
  <2>3. u[k + 1] = r
    BY <1>1, <2>2
  <2>4. /\ p \in Area /\ Page(e, va, k + 1) = <<e, p>> /\ <<e, p>> \in Pages
        /\ \A i \in 1 .. k : Page(e, va, i) \in Pages /\ Page(e, va, i) # <<e, p>>
    BY ZenonT(30), PagesDiffer
  <2> HIDE DEF p
  <2>5. CASE ~m.ok
    <3>1. r \in Rounds /\ ~r.ok
      BY <2>1, <2>4, <2>5, NoMorePages
    <3>2. QED
      BY <2>2, <2>3, <3>1
  <2>6. CASE m.ok
    <3> HIDE DEF m
    <3>1. RoundOK(m) /\ Kept(mm.pt, m.mm.pt, e, va, k) /\ FilledTo(m.mm.pt, e, va, k)
      BY <2>1, <2>6 DEF m
    <3>2. m.mm.pt[<<e, p>>] = NoEntry
      <4>1. m.mm.pt[<<e, p>>] = mm.pt[<<e, p>>]
        BY <2>4, <3>1 DEF Kept
      <4>2. QED
        BY <2>2, <2>4, <4>1 DEF EmptyTo
    <3>3. CASE r.ok
      <4>1. /\ RoundOK(new_page(m, e, p))
            /\ \E f \in Frames : new_page(m, e, p).mm.pt[<<e, p>>] = SharedEntry(f, TRUE)
            /\ \A q \in Pages : q # <<e, p>> => new_page(m, e, p).mm.pt[q] = m.mm.pt[q]
        BY <2>4, <3>1, <3>2, <3>3, NewPage
      <4>2. RoundOK(r)
        BY <4>1
      <4>3. PICK f \in Frames : r.mm.pt[<<e, p>>] = SharedEntry(f, TRUE)
        BY <4>1
      <4>4. \A q \in Pages : q # <<e, p>> => r.mm.pt[q] = m.mm.pt[q]
        BY <4>1
      <4> HIDE DEF r
      <4>5. /\ r.mm.pt[<<e, p>>] = SharedEntry(f, TRUE)
            /\ \A q \in Pages : q # <<e, p>> => r.mm.pt[q] = m.mm.pt[q]
        BY <4>3, <4>4
      <4>6. Kept(mm.pt, r.mm.pt, e, va, k + 1)
        BY <2>4, <3>1, <4>5, KeptMore
      <4>7. FilledTo(r.mm.pt, e, va, k + 1)
        <5>1. ASSUME NEW i \in 1 .. k + 1
              PROVE  \E g \in Frames : r.mm.pt[Page(e, va, i)] = SharedEntry(g, TRUE)
          <6>1. CASE i = k + 1
            BY <2>4, <4>5, <6>1
          <6>2. CASE i # k + 1
            <7>1. i \in 1 .. k
              BY <6>2
            <7>2. QED
              BY <2>4, <3>1, <4>5, <7>1 DEF FilledTo
          <6>3. QED
            BY <6>1, <6>2
        <5>2. QED
          BY <5>1 DEF FilledTo
      <4>8. r \in Rounds
        BY <4>2 DEF RoundOK
      <4>9. QED
        BY <2>2, <2>3, <4>2, <4>6, <4>7, <4>8
    <3>4. CASE ~r.ok
      <4>1. r \in Rounds
        BY <2>1, <2>4, <3>4, NoMorePages DEF m
      <4>2. QED
        BY <2>2, <2>3, <3>4, <4>1
    <3>5. QED
      BY <3>3, <3>4
  <2>7. QED
    BY <2>5, <2>6
<1>4. \A k \in 0 .. n : k \in S
  <2> HIDE DEF S
  <2>1. QED
    BY <1>2, <1>3, UpTo
<1>5. Claim(n)
  BY <1>4
<1>6. QED
  BY <1>1, <1>5

\* A frame in use stays in use.
InUse(m, x) == \A f \in Frames : m.ref[f] # 0 => x.ref[f] # 0

\* map_pages() gives every page the frame of the object, and changes no other page.
LEMMA MapPagesDoes ==
  ASSUME RoundOK(Memory), NEW e \in Envs, NEW va \in Int, NEW frames, NEW rw \in BOOLEAN,
         Len(frames) \in Nat,
         \A i \in 1 .. Len(frames) : frames[i] \in Frames /\ mm.ref[frames[i]] # 0,
         InArea(va, Len(frames)), EmptyTo(mm.pt, e, va, Len(frames)),
         map_pages(e, va, frames, rw).ok
  PROVE  /\ RoundOK(map_pages(e, va, frames, rw))
         /\ Kept(mm.pt, map_pages(e, va, frames, rw).mm.pt, e, va, Len(frames))
         /\ MappedTo(map_pages(e, va, frames, rw).mm.pt, e, va, Len(frames), frames, rw)
<1> DEFINE n == Len(frames)
<1>1. PICK u : MapRun(u, e, va, frames, rw)
  BY MapLoop
<1>2. /\ u[0] = Memory
      /\ \A i \in 1 .. n : u[i] = share_page(u[i - 1], e, va + i - 1, frames[i], rw)
      /\ map_pages(e, va, frames, rw) = u[n]
  BY <1>1 DEF MapRun
<1>3. n \in Nat /\ InArea(va, n) /\ EmptyTo(mm.pt, e, va, n)
  OBVIOUS
<1>4. \A i \in 1 .. n : frames[i] \in Frames /\ mm.ref[frames[i]] # 0
  OBVIOUS
<1> HIDE DEF n
<1> DEFINE Claim(k) == /\ u[k] \in Rounds
                       /\ u[k].ok => /\ RoundOK(u[k]) /\ Kept(mm.pt, u[k].mm.pt, e, va, k)
                                     /\ MappedTo(u[k].mm.pt, e, va, k, frames, rw)
                                     /\ InUse(mm, u[k].mm)
           S == {k \in 0 .. n : Claim(k)}
<1>5. 0 \in S
  <2>1. u[0].mm = mm /\ RoundOK(u[0]) /\ u[0] \in Rounds
    BY <1>2 DEF Memory, RoundOK
  <2>2. /\ Kept(mm.pt, u[0].mm.pt, e, va, 0) /\ MappedTo(u[0].mm.pt, e, va, 0, frames, rw)
        /\ InUse(mm, u[0].mm)
    BY <2>1 DEF Kept, MappedTo, InUse
  <2>3. QED
    BY <1>3, <2>1, <2>2
<1>6. ASSUME NEW k \in 0 .. n - 1, k \in S
      PROVE  k + 1 \in S
  <2> USE <1>3
  <2> DEFINE m == u[k]
             p == va + k
             f == frames[k + 1]
             r == share_page(m, e, p, f, rw)
  <2>1. Claim(k)
    BY <1>6
  <2>2. k + 1 \in 1 .. n /\ k + 1 \in 0 .. n /\ (k + 1) - 1 = k /\ va + (k + 1) - 1 = va + k
    OBVIOUS
  <2>3. u[k + 1] = r /\ f \in Frames /\ mm.ref[f] # 0
    BY <1>2, <1>4, <2>2
  <2>4. /\ p \in Area /\ Page(e, va, k + 1) = <<e, p>> /\ <<e, p>> \in Pages
        /\ \A i \in 1 .. k : Page(e, va, i) \in Pages /\ Page(e, va, i) # <<e, p>>
    BY ZenonT(30), PagesDiffer
  <2> HIDE DEF p
  <2>5. CASE ~m.ok
    <3>1. r \in Rounds /\ ~r.ok
      BY <2>1, <2>4, <2>5, NoMorePages
    <3>2. QED
      BY <2>2, <2>3, <3>1
  <2>6. CASE m.ok
    <3> HIDE DEF m
    <3>1. /\ RoundOK(m) /\ Kept(mm.pt, m.mm.pt, e, va, k) /\ MappedTo(m.mm.pt, e, va, k, frames, rw)
          /\ InUse(mm, m.mm)
      BY <2>1, <2>6 DEF m
    <3>2. m.mm.pt[<<e, p>>] = NoEntry
      <4>1. m.mm.pt[<<e, p>>] = mm.pt[<<e, p>>]
        BY <2>4, <3>1 DEF Kept
      <4>2. QED
        BY <2>2, <2>4, <4>1 DEF EmptyTo
    <3>3. CASE r.ok
      <4> HIDE DEF f
      <4>1. m.mm.ref[f] # 0
        BY <2>3, <3>1 DEF InUse
      <4>2. RoundOK(r) /\ r.mm.pt[<<e, p>>] = SharedEntry(f, rw)
            /\ (\A q \in Pages : q # <<e, p>> => r.mm.pt[q] = m.mm.pt[q])
            /\ r.mm.ref = [m.mm.ref EXCEPT ![f] = m.mm.ref[f] + 1]
        BY SMTT(30), <2>3, <2>4, <3>1, <3>2, <3>3, <4>1, SharePage
      <4> HIDE DEF r
      <4>3. Kept(mm.pt, r.mm.pt, e, va, k + 1)
        BY <2>4, <3>1, <4>2, KeptMore
      <4>4. MappedTo(r.mm.pt, e, va, k + 1, frames, rw)
        <5>1. ASSUME NEW i \in 1 .. k + 1
              PROVE  r.mm.pt[Page(e, va, i)] = SharedEntry(frames[i], rw)
          <6>1. CASE i = k + 1
            BY <2>4, <4>2, <6>1 DEF f
          <6>2. CASE i # k + 1
            <7>1. i \in 1 .. k
              BY <6>2
            <7>2. QED
              BY <2>4, <3>1, <4>2, <7>1 DEF MappedTo
          <6>3. QED
            BY <6>1, <6>2
        <5>2. QED
          BY <5>1 DEF MappedTo
      <4>5. InUse(mm, r.mm)
        <5>1. m.mm.ref \in [Frames -> Int] /\ \A g \in Frames : m.mm.ref[g] \in Nat
          BY <3>1, RoundTypes, MemTypes, PagesFinite DEF RoundOK, Counted
        <5>2. QED
          BY <2>3, <3>1, <4>2, <5>1 DEF InUse
      <4>6. r \in Rounds
        BY <4>2 DEF RoundOK
      <4>7. QED
        BY <2>2, <2>3, <4>2, <4>3, <4>4, <4>5, <4>6
    <3>4. CASE ~r.ok
      <4>1. r \in Rounds
        BY <2>1, <2>4, <3>4, NoMorePages DEF m
      <4>2. QED
        BY <2>2, <2>3, <3>4, <4>1
    <3>5. QED
      BY <3>3, <3>4
  <2>7. QED
    BY <2>5, <2>6
<1>7. \A k \in 0 .. n : k \in S
  <2> HIDE DEF S
  <2>1. QED
    BY <1>3, <1>5, <1>6, UpTo
<1>8. Claim(n)
  BY <1>3, <1>7
<1>9. QED
  BY <1>2, <1>8 DEF n

\* unmap_pages() empties the pages, and changes no other page.
LEMMA UnmapPagesDoes ==
  ASSUME RoundOK(Memory), NEW e \in Envs, NEW va \in Int, NEW n \in Nat, InArea(va, n),
         \A i \in 1 .. n : mm.pt[Page(e, va, i)].frame # NoFrame
  PROVE  /\ RoundOK(unmap_pages(e, va, n))
         /\ Kept(mm.pt, unmap_pages(e, va, n).mm.pt, e, va, n)
         /\ EmptyTo(unmap_pages(e, va, n).mm.pt, e, va, n)
<1>1. PICK u : /\ u[0] = Memory
               /\ \A i \in 1 .. n : u[i] = unshare_page(u[i - 1], e, va + i - 1)
               /\ unmap_pages(e, va, n) = u[n]
  BY UnmapLoop
<1> DEFINE Claim(k) == /\ RoundOK(u[k]) /\ Kept(mm.pt, u[k].mm.pt, e, va, k)
                       /\ EmptyTo(u[k].mm.pt, e, va, k)
           S == {k \in 0 .. n : Claim(k)}
<1>2. 0 \in S
  <2>1. u[0].mm = mm /\ RoundOK(u[0])
    BY <1>1 DEF Memory
  <2>2. Kept(mm.pt, u[0].mm.pt, e, va, 0) /\ EmptyTo(u[0].mm.pt, e, va, 0)
    BY <2>1 DEF Kept, EmptyTo
  <2>3. QED
    BY <2>1, <2>2
<1>3. ASSUME NEW k \in 0 .. n - 1, k \in S
      PROVE  k + 1 \in S
  <2> DEFINE m == u[k]
             p == va + k
             r == unshare_page(m, e, p)
  <2>1. k + 1 \in 1 .. n /\ k + 1 \in 0 .. n /\ (k + 1) - 1 = k /\ va + (k + 1) - 1 = va + k
    OBVIOUS
  <2>2. u[k + 1] = r
    BY <1>1, <2>1
  <2>3. /\ p \in Area /\ Page(e, va, k + 1) = <<e, p>> /\ <<e, p>> \in Pages
        /\ \A i \in 1 .. k : Page(e, va, i) \in Pages /\ Page(e, va, i) # <<e, p>>
    BY PagesDiffer
  <2>4. RoundOK(m) /\ Kept(mm.pt, m.mm.pt, e, va, k) /\ EmptyTo(m.mm.pt, e, va, k)
    BY <1>3
  <2> HIDE DEF p, m
  <2>5. m.mm.pt[<<e, p>>].frame # NoFrame
    <3>1. m.mm.pt[<<e, p>>] = mm.pt[<<e, p>>]
      BY <2>3, <2>4 DEF Kept
    <3>2. mm.pt[<<e, p>>].frame # NoFrame
      BY <2>1, <2>3
    <3>3. QED
      BY <3>1, <3>2
  <2>6. /\ RoundOK(r) /\ r.mm.pt[<<e, p>>] = NoEntry
        /\ \A q \in Pages : q # <<e, p>> => r.mm.pt[q] = m.mm.pt[q]
    BY <2>3, <2>4, <2>5, UnsharePage
  <2> HIDE DEF r
  <2>7. Kept(mm.pt, r.mm.pt, e, va, k + 1)
    BY <2>3, <2>4, <2>6, KeptMore
  <2>8. ASSUME NEW i \in 1 .. k + 1
        PROVE  r.mm.pt[Page(e, va, i)] = NoEntry
    <3>1. CASE i = k + 1
      BY <2>3, <2>6, <3>1
    <3>2. CASE i # k + 1
      <4>1. i \in 1 .. k
        BY <3>2
      <4>2. QED
        BY <2>3, <2>4, <2>6, <4>1 DEF EmptyTo
    <3>3. QED
      BY <3>1, <3>2
  <2>9. EmptyTo(r.mm.pt, e, va, k + 1)
    BY <2>8 DEF EmptyTo
  <2>10. QED
    BY <2>1, <2>2, <2>6, <2>7, <2>9
<1>4. \A k \in 0 .. n : k \in S
  <2> HIDE DEF S
  <2>1. QED
    BY <1>2, <1>3, UpTo
<1>5. Claim(n)
  BY <1>4
<1>6. QED
  BY <1>1, <1>5

\* Settle() lists the free frames in one order, and keeps the rest.
LEMMA Settled ==
  ASSUME NEW m \in Mems, Counted(m)
  PROVE  /\ Settle(m) \in Mems /\ Counted(Settle(m))
         /\ Settle(m).pt = m.pt /\ Settle(m).ref = m.ref
<1> DEFINE S == Range(m.free)
           q == SetToSeq(S)
           r == Settle(m)
           b == [f \in DOMAIN m.base |-> NoPage]
           k == [m EXCEPT !.free = q]
<1>1. m.free \in Seq(Frames) /\ m.base \in [Frames -> Pages \union {NoPage}]
  BY MemTypes
<1>2. S \subseteq Frames /\ \A f : f \in S <=> \E i \in DOMAIN m.free : m.free[i] = f
  BY <1>1 DEF Range
<1>3. IsFiniteSet(S)
  <2>1. FrameCount \in Nat
    BY SharingAssumption
  <2>2. IsFiniteSet(Frames)
    BY <2>1, FS_Interval DEF Frames
  <2>3. QED
    BY <1>2, <2>2, FS_Subset
<1> HIDE DEF S
<1>4. q \in [1 .. Cardinality(S) -> S] /\ \A i, j \in 1 .. Cardinality(S) : q[i] = q[j] => i = j
  <2>1. ExistsBijection(1 .. Cardinality(S), S)
    BY <1>3, FS_CardinalityType
  <2>2. PICK g \in [1 .. Cardinality(S) -> S] : \A i, j \in 1 .. Cardinality(S) : g[i] = g[j] => i = j
    BY <2>1 DEF ExistsBijection, Bijection, Injection, IsInjective
  <2>3. \A h \in [1 .. Cardinality(S) -> S] :
          IsInjective(h) <=> \A i, j \in 1 .. Cardinality(S) : h[i] = h[j] => i = j
    BY DEF IsInjective
  <2>4. \E h \in [1 .. Cardinality(S) -> S] : IsInjective(h)
    BY <2>2, <2>3
  <2>5. q = CHOOSE h \in [1 .. Cardinality(S) -> S] : IsInjective(h)
    BY DEF SetToSeq
  <2> HIDE DEF q
  <2>6. q \in [1 .. Cardinality(S) -> S] /\ IsInjective(q)
    BY <2>4, <2>5
  <2>7. QED
    BY <2>3, <2>6
<1> HIDE DEF q
<1>5. Cardinality(S) \in Nat
  BY <1>3, FS_CardinalityType
<1>6. q \in Seq(S) /\ q \in Seq(Frames)
  <2>1. q \in Seq(S)
    BY <1>4, <1>5, SeqDef
  <2>2. QED
    BY <1>2, <2>1
<1>7. \A f \in S : Count(q, f) = 1
  BY <1>3, <1>4, CountPermutation
<1>8. ASSUME NEW f \in Frames
      PROVE  Count(q, f) = Count(m.free, f)
  <2>1. Count(m.free, f) \in {0, 1}
    BY DEF Counted
  <2>2. CASE f \in S
    <3>1. Count(m.free, f) # 0
      BY <1>1, <1>2, <2>2, CountType
    <3>2. QED
      BY <1>7, <2>1, <2>2, <3>1
  <2>3. CASE f \notin S
    <3>1. Count(m.free, f) = 0
      BY <1>1, <1>2, <2>3, CountType
    <3>2. Count(q, f) = 0
      BY <1>6, <2>3, CountType
    <3>3. QED
      BY <3>1, <3>2
  <2>4. QED
    BY <2>2, <2>3
<1>9. k \in Mems /\ k.free = q /\ k.ref = m.ref /\ k.pt = m.pt /\ k.base = m.base
  <2>1. k.base = m.base
    BY DEF Mems
  <2>2. QED
    BY <1>6, <2>1, MemsSetFree
<1>10. r \in Mems /\ r.free = q /\ r.ref = m.ref /\ r.pt = m.pt
  <2>1. r = [k EXCEPT !.base = b]
    BY DEF Settle, q, S
  <2>2. b \in [Frames -> Pages \union {NoPage}]
    BY <1>1
  <2> HIDE DEF b, k, r
  <2>3. QED
    BY <1>9, <2>1, <2>2 DEF Mems
<1> HIDE DEF r
<1>11. \A f : PagesOf(r, f) = PagesOf(m, f)
  BY <1>10 DEF PagesOf
<1>12. Counted(r)
  BY <1>8, <1>10, <1>11 DEF Counted
<1>13. QED
  BY <1>10, <1>12 DEF r

\* initialize_paging() counts every frame as free.
LEMMA Initialized ==
  LET m == initialize_paging(FrameCount, Envs \X Area)
  IN  /\ m \in Mems /\ Counted(m)
      /\ \A p \in Pages : m.pt[p] = NoEntry
<1> DEFINE m == initialize_paging(FrameCount, Envs \X Area)
<1>1. FrameCount \in Nat
  BY SharingAssumption
<1>2. /\ m.free = [i \in 1 .. FrameCount |-> FrameCount + 1 - i]
      /\ m.ref = [f \in Frames |-> 0] /\ m.pt = [p \in Pages |-> NoEntry]
      /\ m.base = [f \in Frames |-> NoPage]
      /\ m = [free |-> m.free, ref |-> m.ref, base |-> m.base, pt |-> m.pt]
  BY DEF initialize_paging, Frames, Pages
<1> HIDE DEF m
<1>3. NoEntry \in Entries
  BY <1>1 DEF NoEntry, Entries, NoFrame
<1>4. m.free \in Seq(Frames)
  <2>1. m.free \in [1 .. FrameCount -> Frames]
    BY <1>1, <1>2 DEF Frames
  <2>2. QED
    BY <1>1, <2>1, SeqDef
<1>5. m \in Mems
  <2>1. m.base \in [Frames -> Pages \union {NoPage}] /\ m.ref \in [Frames -> Int]
        /\ m.pt \in [Pages -> Entries]
    BY <1>2, <1>3
  <2>2. QED
    BY <1>2, <1>4, <2>1 DEF Mems
<1>6. ASSUME NEW f \in Frames
      PROVE  m.ref[f] = Cardinality(PagesOf(m, f)) /\ Count(m.free, f) = IF m.ref[f] = 0 THEN 1 ELSE 0
  <2>1. m.ref[f] = 0 /\ f # 0
    BY <1>1, <1>2 DEF Frames
  <2>2. PagesOf(m, f) = {}
    BY <1>2, <2>1 DEF PagesOf, NoEntry, NoFrame
  <2>3. LinksOf(m.free, f) = {FrameCount + 1 - f}
    BY <1>1, <1>2 DEF LinksOf, Frames
  <2>4. Count(m.free, f) = 1
    BY <2>3, FS_Singleton DEF Count
  <2>5. QED
    BY <2>1, <2>2, <2>4, FS_EmptySet
<1>7. QED
  BY <1>2, <1>5, <1>6 DEF Counted, m

-----------------------------------------------------------------------------
(* Homes: where an environment has the frames of an object                 *)

\* What the page table of e says of the page that has frame i of object o.
SeesFrame(entry, e, o, i) ==
  /\ entry.frame = o.frames[i] /\ entry.frame # NoFrame
  /\ {"P", "U", "b11"} \subseteq entry.perm
  /\ o.rw => "W" \in entry.perm
  /\ "W" \in entry.perm => o.rw \/ o.key[1] = e
Sees(pt, e, va, o) ==
  InArea(va, o.size) /\ \A i \in 1 .. o.size : SeesFrame(pt[Page(e, va, i)], e, o, i)

\* h gives for each page the object that is mapped from it on, or NULL.  Every
\* such object is mapped, no two regions of an environment overlap, and there
\* are no entries outside of them.
HomesMapped(pt, ob, h) ==
  \A e \in Envs, va \in Area :
    h[<<e, va>>] # NULL => ob[h[<<e, va>>]].live /\ Sees(pt, e, va, ob[h[<<e, va>>]])
Meet(va, a, wa, b) == \E i \in 1 .. a.size, j \in 1 .. b.size : va + i - 1 = wa + j - 1
HomesApart(ob, h) ==
  \A e \in Envs, va, wa \in Area :
    h[<<e, va>>] # NULL /\ h[<<e, wa>>] # NULL /\ va # wa
      => ~Meet(va, ob[h[<<e, va>>]], wa, ob[h[<<e, wa>>]])
IsHome(ob, h, e, va, p) ==
  h[<<e, va>>] # NULL /\ \E i \in 1 .. ob[h[<<e, va>>]].size : p = va + i - 1
PagesAtHome(pt, ob, h) ==
  \A e \in Envs, p \in Area : pt[<<e, p>>] # NoEntry => \E va \in Area : IsHome(ob, h, e, va, p)
HomesOK(pt, ob, h) == HomesMapped(pt, ob, h) /\ HomesApart(ob, h) /\ PagesAtHome(pt, ob, h)

HomeMaps == [Pages -> 0 .. NShares]

\* The parts of an object that a home is about.
Alike(a, b) == /\ a.live = b.live /\ a.key = b.key /\ a.size = b.size /\ a.rw = b.rw
               /\ a.frames = b.frames

\* Homes are left alone by what changes other objects, or only the references.
LEMMA SameHomes ==
  ASSUME NEW pt, NEW ob, NEW pb, NEW h, HomesOK(pt, ob, h),
         \A e \in Envs, va \in Area :
           h[<<e, va>>] # NULL => Alike(ob[h[<<e, va>>]], pb[h[<<e, va>>]])
  PROVE  HomesOK(pt, pb, h)
<1>1. ASSUME NEW e \in Envs, NEW va \in Area, h[<<e, va>>] # NULL
      PROVE  pb[h[<<e, va>>]].live /\ Sees(pt, e, va, pb[h[<<e, va>>]])
  <2> DEFINE a == ob[h[<<e, va>>]]
             b == pb[h[<<e, va>>]]
  <2>1. a.live /\ Sees(pt, e, va, a) /\ Alike(a, b)
    BY <1>1 DEF HomesOK, HomesMapped
  <2> HIDE DEF a, b
  <2>2. b.live /\ Sees(pt, e, va, b)
    BY <2>1 DEF Alike, Sees, SeesFrame
  <2>3. QED
    BY <2>2 DEF b
<1>2. HomesMapped(pt, pb, h)
  BY <1>1 DEF HomesMapped
<1>3. HomesApart(pb, h)
  <2>1. ASSUME NEW e \in Envs, NEW va \in Area, NEW wa \in Area,
               h[<<e, va>>] # NULL, h[<<e, wa>>] # NULL, va # wa
        PROVE  ~Meet(va, pb[h[<<e, va>>]], wa, pb[h[<<e, wa>>]])
    <3>1. /\ ~Meet(va, ob[h[<<e, va>>]], wa, ob[h[<<e, wa>>]])
          /\ Alike(ob[h[<<e, va>>]], pb[h[<<e, va>>]]) /\ Alike(ob[h[<<e, wa>>]], pb[h[<<e, wa>>]])
      BY <2>1 DEF HomesOK, HomesApart
    <3>2. QED
      BY <3>1 DEF Alike, Meet
  <2>2. QED
    BY <2>1 DEF HomesApart
<1>4. PagesAtHome(pt, pb, h)
  BY DEF HomesOK, PagesAtHome, IsHome, Alike
<1>5. QED
  BY <1>2, <1>3, <1>4 DEF HomesOK

\* A page of a home has a frame.
LEMMA HomeNotEmpty ==
  ASSUME NEW pt, NEW ob, NEW h, HomesOK(pt, ob, h), NEW e \in Envs, NEW va \in Area,
         h[<<e, va>>] # NULL, NEW i \in 1 .. ob[h[<<e, va>>]].size
  PROVE  /\ va + i - 1 \in Area /\ Page(e, va, i) \in Pages
         /\ pt[Page(e, va, i)].frame # NoFrame /\ pt[Page(e, va, i)] # NoEntry
         /\ "b11" \in pt[Page(e, va, i)].perm
<1>1. Sees(pt, e, va, ob[h[<<e, va>>]])
  BY DEF HomesOK, HomesMapped
<1>2. QED
  BY <1>1 DEF Sees, InArea, SeesFrame, Page, Pages, NoEntry

\* An object is mapped where nothing was.
LEMMA AddHome ==
  ASSUME NEW pt, NEW qt, NEW ob, NEW h \in HomeMaps, HomesOK(pt, ob, h),
         NEW e \in Envs, NEW va \in Area, NEW s \in Addresses, h[<<e, va>>] = NULL, ob[s].live,
         EmptyTo(pt, e, va, ob[s].size), Kept(pt, qt, e, va, ob[s].size), Sees(qt, e, va, ob[s])
  PROVE  HomesOK(qt, ob, [h EXCEPT ![<<e, va>>] = s])
<1> DEFINE k == [h EXCEPT ![<<e, va>>] = s]
           n == ob[s].size
<1>1. /\ s # NULL /\ <<e, va>> \in Pages /\ k[<<e, va>>] = s
      /\ \A d \in Envs, wa \in Area : <<d, wa>> # <<e, va>> => k[<<d, wa>>] = h[<<d, wa>>]
  BY DEF HomeMaps, Pages, Addresses, NULL
<1> HIDE DEF k
<1>2. ASSUME NEW d \in Envs, NEW wa \in Area, h[<<d, wa>>] # NULL,
             NEW j \in 1 .. ob[h[<<d, wa>>]].size
      PROVE  /\ \A i \in 1 .. n : Page(d, wa, j) # Page(e, va, i)
             /\ qt[Page(d, wa, j)] = pt[Page(d, wa, j)]
  <2>1. Page(d, wa, j) \in Pages /\ pt[Page(d, wa, j)] # NoEntry
    BY <1>2, HomeNotEmpty
  <2>2. \A i \in 1 .. n : Page(d, wa, j) # Page(e, va, i)
    BY <2>1 DEF EmptyTo
  <2>3. QED
    BY <2>1, <2>2 DEF Kept
<1>3. HomesMapped(qt, ob, k)
  <2>1. ASSUME NEW d \in Envs, NEW wa \in Area, k[<<d, wa>>] # NULL, <<d, wa>> # <<e, va>>
        PROVE  ob[h[<<d, wa>>]].live /\ Sees(qt, d, wa, ob[h[<<d, wa>>]])
    <3>1. h[<<d, wa>>] # NULL
      BY <1>1, <2>1
    <3>2. ob[h[<<d, wa>>]].live /\ Sees(pt, d, wa, ob[h[<<d, wa>>]])
      BY <3>1 DEF HomesOK, HomesMapped
    <3>3. QED
      BY <1>2, <3>1, <3>2 DEF Sees
  <2>2. QED
    BY <1>1, <2>1 DEF HomesMapped
<1>4. HomesApart(ob, k)
  <2>1. ASSUME NEW wa \in Area, wa # va, k[<<e, wa>>] # NULL
        PROVE  /\ ~Meet(va, ob[s], wa, ob[k[<<e, wa>>]])
               /\ ~Meet(wa, ob[k[<<e, wa>>]], va, ob[s])
    <3>1. h[<<e, wa>>] # NULL /\ k[<<e, wa>>] = h[<<e, wa>>]
      BY <1>1, <2>1
    <3>2. \A j \in 1 .. ob[h[<<e, wa>>]].size : \A i \in 1 .. n : wa + j - 1 # va + i - 1
      BY <1>2, <3>1 DEF Page
    <3>3. QED
      BY <3>1, <3>2 DEF Meet
  <2>2. ASSUME NEW d \in Envs, NEW xa \in Area, NEW wa \in Area, xa # wa,
               <<d, xa>> # <<e, va>>, <<d, wa>> # <<e, va>>,
               k[<<d, xa>>] # NULL, k[<<d, wa>>] # NULL
        PROVE  ~Meet(xa, ob[k[<<d, xa>>]], wa, ob[k[<<d, wa>>]])
    BY <1>1, <2>2 DEF HomesOK, HomesApart
  <2>3. QED
    BY <1>1, <2>1, <2>2 DEF HomesApart
<1>5. PagesAtHome(qt, ob, k)
  <2>1. ASSUME NEW d \in Envs, NEW p \in Area, qt[<<d, p>>] # NoEntry
        PROVE  \E wa \in Area : IsHome(ob, k, d, wa, p)
    <3>1. CASE \E i \in 1 .. n : <<d, p>> = Page(e, va, i)
      <4>1. d = e /\ \E i \in 1 .. n : p = va + i - 1
        BY <3>1 DEF Page
      <4>2. QED
        BY <1>1, <4>1 DEF IsHome
    <3>2. CASE \A i \in 1 .. n : <<d, p>> # Page(e, va, i)
      <4>1. pt[<<d, p>>] # NoEntry
        BY <2>1, <3>2 DEF Kept, Pages
      <4>2. PICK wa \in Area : IsHome(ob, h, d, wa, p)
        BY <4>1 DEF HomesOK, PagesAtHome
      <4>3. k[<<d, wa>>] = h[<<d, wa>>]
        BY <1>1, <4>2 DEF IsHome
      <4>4. QED
        BY <4>2, <4>3 DEF IsHome
    <3>3. QED
      BY <3>1, <3>2
  <2>2. QED
    BY <2>1 DEF PagesAtHome
<1>6. QED
  BY <1>3, <1>4, <1>5 DEF HomesOK, k

\* An object is unmapped.
LEMMA DropHome ==
  ASSUME NEW pt, NEW qt, NEW ob, NEW h \in HomeMaps, HomesOK(pt, ob, h),
         NEW e \in Envs, NEW va \in Area, NEW s \in Addresses, h[<<e, va>>] = s,
         EmptyTo(qt, e, va, ob[s].size), Kept(pt, qt, e, va, ob[s].size)
  PROVE  HomesOK(qt, ob, [h EXCEPT ![<<e, va>>] = NULL])
<1> DEFINE k == [h EXCEPT ![<<e, va>>] = NULL]
           n == ob[s].size
<1>1. /\ s # NULL /\ <<e, va>> \in Pages /\ k[<<e, va>>] = NULL
      /\ \A d \in Envs, wa \in Area : <<d, wa>> # <<e, va>> => k[<<d, wa>>] = h[<<d, wa>>]
  BY DEF HomeMaps, Pages, Addresses, NULL
<1> HIDE DEF k
<1>2. ASSUME NEW d \in Envs, NEW wa \in Area, k[<<d, wa>>] # NULL,
             NEW j \in 1 .. ob[h[<<d, wa>>]].size
      PROVE  qt[Page(d, wa, j)] = pt[Page(d, wa, j)]
  <2>1. h[<<d, wa>>] # NULL /\ <<d, wa>> # <<e, va>>
    BY <1>1, <1>2
  <2>2. Page(d, wa, j) \in Pages
    BY <2>1, HomeNotEmpty
  <2>3. ASSUME NEW i \in 1 .. n, Page(d, wa, j) = Page(e, va, i)
        PROVE  FALSE
    <3>1. d = e /\ wa # va /\ va + i - 1 = wa + j - 1
      BY <2>1, <2>3 DEF Page
    <3>2. ~Meet(va, ob[s], wa, ob[h[<<e, wa>>]])
      BY <1>1, <2>1, <3>1 DEF HomesOK, HomesApart
    <3>3. QED
      BY <3>1, <3>2 DEF Meet
  <2>4. QED
    BY <2>2, <2>3 DEF Kept
<1>3. HomesMapped(qt, ob, k)
  <2>1. ASSUME NEW d \in Envs, NEW wa \in Area, k[<<d, wa>>] # NULL
        PROVE  ob[k[<<d, wa>>]].live /\ Sees(qt, d, wa, ob[k[<<d, wa>>]])
    <3>1. h[<<d, wa>>] # NULL /\ k[<<d, wa>>] = h[<<d, wa>>]
      BY <1>1, <2>1
    <3>2. ob[h[<<d, wa>>]].live /\ Sees(pt, d, wa, ob[h[<<d, wa>>]])
      BY <3>1 DEF HomesOK, HomesMapped
    <3>3. QED
      BY <1>2, <2>1, <3>1, <3>2 DEF Sees
  <2>2. QED
    BY <2>1 DEF HomesMapped
<1>4. HomesApart(ob, k)
  <2>1. \A d \in Envs, wa \in Area : k[<<d, wa>>] # NULL => k[<<d, wa>>] = h[<<d, wa>>]
    BY <1>1
  <2>2. QED
    BY <2>1 DEF HomesOK, HomesApart
<1>5. PagesAtHome(qt, ob, k)
  <2>1. ASSUME NEW d \in Envs, NEW p \in Area, qt[<<d, p>>] # NoEntry
        PROVE  \E wa \in Area : IsHome(ob, k, d, wa, p)
    <3>1. \A i \in 1 .. n : <<d, p>> # Page(e, va, i)
      BY <2>1 DEF EmptyTo
    <3>2. pt[<<d, p>>] # NoEntry
      BY <2>1, <3>1 DEF Kept, Pages
    <3>3. PICK wa \in Area : IsHome(ob, h, d, wa, p)
      BY <3>2 DEF HomesOK, PagesAtHome
    <3>4. <<d, wa>> # <<e, va>>
      BY <3>1, <3>3 DEF IsHome, Page
    <3>5. QED
      BY <1>1, <3>3, <3>4 DEF IsHome
  <2>2. QED
    BY <2>1 DEF PagesAtHome
<1>6. QED
  BY <1>3, <1>4, <1>5 DEF HomesOK, k

-----------------------------------------------------------------------------
(* The invariant *)

Keys   == {Key(o) : o \in Objects}
Shares == [live : BOOLEAN, key : Keys \union {NoKey}, size : Nat, rw : BOOLEAN, refs : Int,
           frames : Seq(0 .. FrameCount)]
Calls  == [call : {"no", "smalloc", "sget", "sfree"},
           at : {"no", "create", "frames", "fill", "find", "map", "count", "unmap", "drop", "test"},
           key : Keys \union {NoKey}, size : Nat, rw : BOOLEAN, va : 0 .. NArea, ptr : 0 .. NShares]

SType ==
  /\ mm \in Mems
  /\ tables \in [Envs -> SUBSET Tabs]
  /\ obj \in [Addresses -> Shares]
  /\ shares \in Seq(Addresses)
  /\ ids \in [Envs -> [Area -> 0 .. NShares]]
  /\ op \in [Envs -> Calls]
  /\ held \in [Envs -> [Area -> Keys \union {NoKey}]]

\* The object whose frames an environment has from a page on: sget() notes it
\* after it was mapped, sfree() forgets it after it was unmapped.
Homes ==
  [u \in Pages |->
     IF op[u[1]].va = u[2] /\ op[u[1]].at = "count" THEN op[u[1]].ptr
     ELSE IF op[u[1]].va = u[2] /\ op[u[1]].at \in {"drop", "test"} THEN NULL
     ELSE ids[u[1]][u[2]]]

\* The references that are counted: of the pages, until sfree() dropped them,
\* and of those who are still creating the object.
Noted   == [u \in Pages |-> ids[u[1]][u[2]]]
Refs    == [u \in Pages |-> IF op[u[1]].va = u[2] /\ op[u[1]].at = "test" THEN NULL
                            ELSE ids[u[1]][u[2]]]
Fillers == [e \in Envs |-> IF op[e].call = "smalloc" THEN op[e].ptr ELSE NULL]
Where(f, S, s) == {x \in S : f[x] = s}
CountUsers(refs, fillers, s) ==
  Cardinality(Where(refs, Pages, s)) + Cardinality(Where(fillers, Envs, s))

\* The list links the live objects once each; their keys differ.
ListOK(ob, list) ==
  /\ \A s \in Addresses : Count(list, s) = IF ob[s].live THEN 1 ELSE 0
  /\ \A s, t \in Addresses : ob[s].live /\ ob[t].live /\ ob[s].key = ob[t].key => s = t

\* An object counts its users; it is being created, or noted somewhere and has
\* its frames.
ObjectOK(o, s, noted, refs, fillers) ==
  /\ o.key \in Keys /\ o.size > 0 /\ Len(o.frames) = o.size
  /\ o.refs = CountUsers(refs, fillers, s)
  /\ \/ \E e \in Envs : fillers[e] = s
     \/ (\E u \in Pages : noted[u] = s) /\ \A i \in 1 .. o.size : o.frames[i] # NoFrame
ObjectsOK(ob, noted, refs, fillers) ==
  \A s \in Addresses : ob[s].live => ObjectOK(ob[s], s, noted, refs, fillers)

\* A noted object is complete and has the key that the program knows.
IdOK(id, key, ob, fillers) ==
  /\ id = NULL <=> key = NoKey
  /\ id # NULL => /\ ob[id].live /\ ob[id].key = key
                  /\ \A e \in Envs : fillers[e] # id
IdsOK(ob, noted, keys, fillers) ==
  \A e \in Envs, va \in Area : IdOK(noted[<<e, va>>], keys[e][va], ob, fillers)

\* No two calls are about one object, unless both are sget().
CallsApart(ops) ==
  \A d, e \in Envs : d # e /\ ops[d].key = ops[e].key /\ ops[e].key # NoKey
                       => ops[d].call = "sget" /\ ops[e].call = "sget"

\* The object of a call.
IsShare(ob, s, c) == /\ s \in Addresses /\ ob[s].live /\ ob[s].key = c.key
                     /\ ob[s].size = c.size
Creating(e, c, ob) ==
  /\ c.call = "smalloc" /\ c.at = "create" /\ c.ptr = NULL
  /\ c.key \in Keys /\ c.key[1] = e
  /\ \A s \in Addresses : ob[s].live => ob[s].key # c.key
Filling(e, c, ob) ==
  /\ c.call = "smalloc" /\ c.at \in {"frames", "fill"}
  /\ c.key \in Keys /\ c.key[1] = e /\ IsShare(ob, c.ptr, c)
Finding(c, ob) ==
  /\ c.call = "sget" /\ c.at = "find" /\ c.key \in Keys
  /\ \E s \in Addresses : IsShare(ob, s, c)
Mapping(c, ob) ==
  /\ c.call = "sget" /\ c.at \in {"map", "count"} /\ c.key \in Keys /\ IsShare(ob, c.ptr, c)
Freeing(c, noted, keys) ==
  /\ c.call = "sfree" /\ c.at \in {"unmap", "drop", "test"}
  /\ c.va \in Area /\ c.ptr # NULL /\ noted[c.va] = c.ptr /\ keys[c.va] = c.key
CallOK(e, c, ob, noted, keys) ==
  c = Idle \/ Creating(e, c, ob) \/ Filling(e, c, ob) \/ Finding(c, ob) \/ Mapping(c, ob)
    \/ Freeing(c, noted, keys)
CallsOK(ops, ob, noted, keys) == \A e \in Envs : CallOK(e, ops[e], ob, noted[e], keys[e])

\* smalloc() and sget() have found pages that nothing else uses.
Fresh(e, c, pt, noted) ==
  c.call \in {"smalloc", "sget"} =>
    /\ c.va \in Area /\ noted[c.va] = NULL /\ c.size > 0
    /\ c.at # "count" => InArea(c.va, c.size) /\ EmptyTo(pt, e, c.va, c.size)
AllFresh(ops, pt, noted) == \A e \in Envs : Fresh(e, ops[e], pt, noted[e])

GoodInv ==
  /\ SType
  /\ ListOK(obj, shares)
  /\ ObjectsOK(obj, Noted, Refs, Fillers)
  /\ IdsOK(obj, Noted, held, Fillers)
  /\ CallsApart(op)
  /\ CallsOK(op, obj, ids, held)
  /\ AllFresh(op, mm.pt, ids)
  /\ Counted(mm) /\ TablesUsed(mm.pt, tables)
  /\ HomesOK(mm.pt, obj, Homes)

SInv == SharingSafe /\ (Good => GoodInv)

\* The keys of objects are no empty tuples.
LEMMA KeyGiven ==
  /\ \A k \in Keys : k # NoKey
  /\ \A o \in Objects : Key(o) \in Keys /\ Key(o)[1] = o.owner
<1>1. ASSUME NEW o \in Objects
      PROVE  Key(o) # NoKey
  <2>1. <<o.owner, o.name>> # <<>>
    OBVIOUS
  <2>2. QED
    BY <2>1 DEF Key, NoKey
<1>2. QED
  BY <1>1 DEF Keys, Key

-----------------------------------------------------------------------------
(* What the searches find *)

\* First() is an element of the list at one of the places.
LEMMA FirstHit ==
  ASSUME shares \in Seq(Addresses), NEW hits \in SUBSET DOMAIN shares
  PROVE  /\ hits = {} => First(hits) = NULL
         /\ hits # {} => \E i \in hits : First(hits) = shares[i] /\ shares[i] \in Addresses
<1>1. hits \in SUBSET Nat /\ \A i \in hits : shares[i] \in Addresses
  OBVIOUS
<1>2. CASE hits = {}
  BY <1>2 DEF First
<1>3. CASE hits # {}
  <2> DEFINE i == CHOOSE x \in hits : \A j \in hits : x <= j
  <2>1. \E x \in hits : \A j \in hits : x <= j
    BY <1>1, <1>3, LeastNat
  <2>2. i \in hits
    BY <2>1
  <2>3. First(hits) = shares[i]
    BY <1>3 DEF First
  <2> HIDE DEF i
  <2>4. QED
    BY <1>1, <1>3, <2>2, <2>3
<1>4. QED
  BY <1>2, <1>3

\* The addresses on the list are those of the live objects.
LEMMA Listed ==
  ASSUME SType, ListOK(obj, shares), NEW s \in Addresses
  PROVE  obj[s].live <=> \E i \in DOMAIN shares : shares[i] = s
<1>1. shares \in Seq(Addresses) /\ obj[s].live \in BOOLEAN
  BY DEF SType, Shares
<1>2. Count(shares, s) = IF obj[s].live THEN 1 ELSE 0
  BY DEF ListOK
<1>3. Count(shares, s) = 0 <=> \A i \in DOMAIN shares : shares[i] # s
  BY <1>1, CountType
<1>4. QED
  BY <1>1, <1>2, <1>3

\* get_share() finds the one live object with the key.
LEMMA GetShare ==
  ASSUME SType, ListOK(obj, shares)
  PROVE  /\ \A k : get_share(k) # NULL => /\ get_share(k) \in Addresses
                                          /\ obj[get_share(k)].live
                                          /\ obj[get_share(k)].key = k
         /\ \A s \in Addresses : obj[s].live => get_share(obj[s].key) = s
<1>1. shares \in Seq(Addresses)
  BY DEF SType
<1>2. ASSUME NEW k
      PROVE  get_share(k) # NULL => /\ get_share(k) \in Addresses
                                    /\ obj[get_share(k)].live
                                    /\ obj[get_share(k)].key = k
  <2> DEFINE hits == {i \in DOMAIN shares : obj[shares[i]].key = k}
  <2>1. get_share(k) = First(hits)
    BY DEF get_share
  <2>2. hits # {} => \E i \in hits : First(hits) = shares[i] /\ shares[i] \in Addresses
    BY <1>1, FirstHit
  <2>3. hits = {} => First(hits) = NULL
    BY <1>1, FirstHit
  <2>4. \A i \in hits : obj[shares[i]].key = k /\ i \in DOMAIN shares
    OBVIOUS
  <2> HIDE DEF hits
  <2>5. QED
    BY <2>1, <2>2, <2>3, <2>4, Listed
<1>3. ASSUME NEW s \in Addresses, obj[s].live
      PROVE  get_share(obj[s].key) = s
  <2> DEFINE k == obj[s].key
             hits == {i \in DOMAIN shares : obj[shares[i]].key = k}
  <2>1. PICK i \in DOMAIN shares : shares[i] = s
    BY <1>3, Listed
  <2>2. i \in hits
    BY <2>1
  <2>3. \E j \in hits : First(hits) = shares[j] /\ shares[j] \in Addresses
    BY <1>1, <2>2, FirstHit
  <2>4. get_share(k) = First(hits)
    BY DEF get_share
  <2>5. get_share(k) # NULL
    BY <2>3, <2>4 DEF NULL, Addresses
  <2> HIDE DEF hits
  <2>6. get_share(k) \in Addresses /\ obj[get_share(k)].live /\ obj[get_share(k)].key = k
    BY <1>2, <2>5
  <2>7. QED
    BY <1>3, <2>6 DEF ListOK
<1>4. QED
  BY <1>2, <1>3

\* The search by the id that was noted finds that object.
LEMMA SearchById ==
  ASSUME SType, ListOK(obj, shares), NEW e, NEW va
  PROVE  /\ ById(e, va) # NULL => ById(e, va) = ids[e][va] /\ ids[e][va] \in Addresses
         /\ ids[e][va] \in Addresses /\ obj[ids[e][va]].live => ById(e, va) # NULL
<1> DEFINE hits == {i \in DOMAIN shares : shares[i] = ids[e][va]}
<1>1. shares \in Seq(Addresses)
  BY DEF SType
<1>2. ById(e, va) = First(hits) /\ \A i \in hits : shares[i] = ids[e][va]
  BY DEF ById
<1>3. /\ hits = {} => First(hits) = NULL
      /\ hits # {} => \E i \in hits : First(hits) = shares[i] /\ shares[i] \in Addresses
  BY <1>1, FirstHit
<1>4. ids[e][va] \in Addresses /\ obj[ids[e][va]].live => hits # {}
  <2>1. SUFFICES ASSUME ids[e][va] \in Addresses, obj[ids[e][va]].live
                 PROVE  hits # {}
    OBVIOUS
  <2>2. \E i \in DOMAIN shares : shares[i] = ids[e][va]
    BY <2>1, Listed
  <2>3. QED
    BY <2>2
<1> HIDE DEF hits
<1>5. 0 \notin Addresses
  BY DEF Addresses
<1>6. QED
  BY <1>2, <1>3, <1>4, <1>5 DEF NULL

\* kmalloc() gives create_share() an address that is free.
LEMMA FreeAddress ==
  ASSUME FreeAddresses # {}
  PROVE  kmalloc_share \in Addresses /\ ~obj[kmalloc_share].live
<1>1. FreeAddresses \in SUBSET Nat
  BY DEF FreeAddresses, Addresses
<1>2. \E s \in FreeAddresses : \A t \in FreeAddresses : s <= t
  BY <1>1, LeastNat
<1>3. kmalloc_share \in FreeAddresses
  BY <1>2 DEF kmalloc_share
<1>4. QED
  BY <1>3 DEF FreeAddresses

\* The pages that smalloc() and sget() find have no entries and no object.
LEMMA FoundPages ==
  ASSUME SType, HomesOK(mm.pt, obj, Homes), ObjectsOK(obj, Noted, Refs, Fillers),
         NEW e \in Envs, op[e].at = "no",
         NEW n \in Nat \ {0}, getConsecutiveFreePages(e, n) # NULL
  PROVE  /\ getConsecutiveFreePages(e, n) \in Area
         /\ ids[e][getConsecutiveFreePages(e, n)] = NULL
         /\ InArea(getConsecutiveFreePages(e, n), n)
         /\ EmptyTo(mm.pt, e, getConsecutiveFreePages(e, n), n)
<1> DEFINE va == getConsecutiveFreePages(e, n)
<1>1. va \in Runs(e, n)
  <2>1. Runs(e, n) \in SUBSET Nat
    BY DEF Runs, Area
  <2>2. Runs(e, n) # {}
    BY DEF getConsecutiveFreePages
  <2>3. \E p \in Runs(e, n) : \A q \in Runs(e, n) : p <= q
    BY <2>1, <2>2, LeastNat
  <2>4. QED
    BY <2>2, <2>3 DEF getConsecutiveFreePages
<1> HIDE DEF va
<1>2. va \in Area /\ va \in Nat /\ \A i \in va .. va + n - 1 : i \in Area /\ Unmarked(e, i)
  BY <1>1 DEF Runs, Area
<1>3. \A i \in 1 .. n : va + i - 1 \in Area /\ Unmarked(e, va + i - 1)
  BY <1>2
<1>4. ASSUME NEW p \in Area, Unmarked(e, p)
      PROVE  mm.pt[<<e, p>>] = NoEntry
  <2>1. SUFFICES ASSUME mm.pt[<<e, p>>] # NoEntry
                 PROVE  FALSE
    OBVIOUS
  <2>2. PICK wa \in Area : IsHome(obj, Homes, e, wa, p)
    BY <2>1 DEF HomesOK, PagesAtHome
  <2>3. Homes[<<e, wa>>] # NULL
    BY <2>2 DEF IsHome
  <2>4. PICK i \in 1 .. obj[Homes[<<e, wa>>]].size : p = wa + i - 1
    BY <2>2 DEF IsHome
  <2>5. "b11" \in mm.pt[Page(e, wa, i)].perm
    BY <2>3, HomeNotEmpty
  <2>6. "b11" \in mm.pt[<<e, p>>].perm
    BY <2>4, <2>5 DEF Page
  <2>7. QED
    BY <1>4, <2>6 DEF Unmarked
<1>5. EmptyTo(mm.pt, e, va, n)
  BY <1>3, <1>4 DEF EmptyTo, Page
<1>6. ids[e][va] = NULL
  <2>1. SUFFICES ASSUME ids[e][va] # NULL
                 PROVE  FALSE
    OBVIOUS
  <2>2. <<e, va>> \in Pages
    BY <1>2 DEF Pages
  <2>3. Homes[<<e, va>>] = ids[e][va]
    BY <2>2 DEF Homes
  <2>4. Sees(mm.pt, e, va, obj[ids[e][va]]) /\ obj[ids[e][va]].live
    BY <1>2, <2>1, <2>3 DEF HomesOK, HomesMapped
  <2>5. obj[ids[e][va]].size \in Nat /\ obj[ids[e][va]].size > 0
    <3>1. ids[e][va] \in Addresses
      BY <1>2, <2>1 DEF SType, Addresses, NULL
    <3>2. QED
      BY <2>4, <3>1 DEF ObjectsOK, ObjectOK, SType, Shares
  <2>6. 1 \in 1 .. obj[ids[e][va]].size /\ 1 \in 1 .. n
    BY <2>5
  <2>7. mm.pt[Page(e, va, 1)] # NoEntry
    BY <1>2, <2>1, <2>3, <2>6, HomeNotEmpty
  <2>8. QED
    BY <1>5, <2>6, <2>7 DEF EmptyTo
<1>7. QED
  BY <1>2, <1>3, <1>5, <1>6 DEF InArea, va

-----------------------------------------------------------------------------
(* Steps that only move a call along *)

\* The count of what is at s, when only what x has may change.
SameElse(f, g, S, x) == \A y \in S : y # x => g[y] = f[y]

\* When only what x has may change, the count of s changes by what x gained or gave up.
LEMMA CountWhere ==
  ASSUME NEW S, IsFiniteSet(S), NEW f, NEW g, NEW x \in S, SameElse(f, g, S, x), NEW s
  PROVE  /\ Cardinality(Where(f, S, s)) \in Nat /\ Cardinality(Where(g, S, s)) \in Nat
         /\ Cardinality(Where(g, S, s)) = Cardinality(Where(f, S, s))
              + (IF g[x] = s THEN 1 ELSE 0) - (IF f[x] = s THEN 1 ELSE 0)
<1> DEFINE A == Where(f, S, s)
           B == Where(g, S, s)
<1>1. A \subseteq S /\ B \subseteq S
  BY DEF Where
<1>2. IsFiniteSet(A) /\ IsFiniteSet(B)
  BY <1>1, FS_Subset
<1>3. /\ x \in A <=> f[x] = s
      /\ x \in B <=> g[x] = s
      /\ \A y : y # x => (y \in A <=> y \in B)
  BY DEF Where, SameElse
<1> HIDE DEF A, B
<1>4. /\ Cardinality(A) \in Nat /\ Cardinality(B) \in Nat
      /\ Cardinality(B) = Cardinality(A) + (IF x \in B THEN 1 ELSE 0) - (IF x \in A THEN 1 ELSE 0)
  BY <1>2, <1>3, OneElement
<1>5. QED
  BY <1>3, <1>4 DEF A, B

\* Users() counts what CountUsers() does.
LEMMA UsersAre ==
  ASSUME SType, NEW s \in Addresses
  PROVE  Users(s) = CountUsers(Refs, Fillers, s)
<1>1. s # NULL
  BY DEF Addresses, NULL
<1>2. Where(Refs, Pages, s) =
        {u \in Envs \X Area : ids[u[1]][u[2]] = s /\ ~(op[u[1]].at = "test" /\ op[u[1]].va = u[2])}
  BY <1>1 DEF Where, Refs, Pages
<1>3. Where(Fillers, Envs, s) = {e \in Envs : op[e].call = "smalloc" /\ op[e].ptr = s}
  BY <1>1 DEF Where, Fillers
<1>4. QED
  BY <1>2, <1>3 DEF Users, CountUsers

\* A call that was begun, and one that goes on, is apart from the others.
LEMMA CallsApartBegin ==
  ASSUME CallsApart(op), NEW e \in Envs, NEW rec \in Calls, op \in [Envs -> Calls],
         ~Overlaps(e, rec.call, rec.key), rec.key # NoKey
  PROVE  CallsApart([op EXCEPT ![e] = rec])
<1>1. \A d \in Envs \ {e} : op[d].key = rec.key => rec.call = "sget" /\ op[d].call = "sget"
  BY DEF Overlaps
<1>2. QED
  BY <1>1 DEF CallsApart

\* A call that goes on under its key, or ends, stays apart from the others.
LEMMA CallsApartOn ==
  ASSUME CallsApart(op), NEW e \in Envs, NEW rec \in Calls, op \in [Envs -> Calls],
         rec.key = op[e].key \/ rec.key = NoKey, rec.key # NoKey => rec.call = op[e].call
  PROVE  CallsApart([op EXCEPT ![e] = rec])
BY DEF CallsApart

\* Where the calls of the others stand does not change.
LEMMA OtherCall ==
  ASSUME NEW d, NEW c, NEW ob, NEW pb, NEW noted, NEW keys, CallOK(d, c, ob, noted, keys),
         \A s \in Addresses : (ob[s].live /\ ob[s].key = c.key) <=> (pb[s].live /\ pb[s].key = c.key),
         \A s \in Addresses : pb[s].live /\ pb[s].key = c.key => pb[s].size = ob[s].size
  PROVE  CallOK(d, c, pb, noted, keys)
<1>1. \A s : IsShare(ob, s, c) => IsShare(pb, s, c)
  BY DEF IsShare
<1>2. CASE c = Idle \/ Freeing(c, noted, keys)
  BY <1>2 DEF CallOK
<1>3. CASE Creating(d, c, ob)
  BY <1>3 DEF CallOK, Creating
<1>4. CASE Filling(d, c, ob) \/ Finding(c, ob) \/ Mapping(c, ob)
  BY <1>1, <1>4 DEF CallOK, Filling, Finding, Mapping
<1>5. QED
  BY <1>2, <1>3, <1>4 DEF CallOK

\* A step of a call that changes nothing else.
LEMMA CallMoves ==
  ASSUME GoodInv, NEW e \in Envs, NEW rec \in Calls, op' = [op EXCEPT ![e] = rec],
         UNCHANGED <<mm, tables, obj, shares, ids, held>>,
         Homes' = Homes, Refs' = Refs, Fillers' = Fillers, CallsApart(op'),
         CallOK(e, rec, obj, ids[e], held[e]), Fresh(e, rec, mm.pt, ids[e])
  PROVE  GoodInv'
<1>1. op \in [Envs -> Calls]
  BY DEF GoodInv, SType
<1>2. op'[e] = rec /\ \A d \in Envs : d # e => op'[d] = op[d]
  BY <1>1
<1>3. SType'
  BY <1>1 DEF GoodInv, SType
<1>4. Noted' = Noted
  BY DEF Noted
<1>5. CallsOK(op', obj, ids, held)
  BY <1>2 DEF GoodInv, CallsOK
<1>6. AllFresh(op', mm.pt, ids)
  BY <1>2 DEF GoodInv, AllFresh
<1>7. QED
  BY <1>3, <1>4, <1>5, <1>6 DEF GoodInv

\* Idle environments and what a call may be.
LEMMA IdleCall ==
  ASSUME GoodInv, NEW e \in Envs, op[e].at = "no"
  PROVE  op[e] = Idle
<1>1. CallOK(e, op[e], obj, ids[e], held[e])
  BY DEF GoodInv, CallsOK
<1>2. QED
  BY <1>1 DEF CallOK, Creating, Filling, Finding, Mapping, Freeing

\* A call begins.
LEMMA BeginCall ==
  ASSUME GoodInv, NEW e \in Envs, NEW rec \in Calls, op[e].at = "no", Begin(e, rec), calm',
         UNCHANGED <<mm, tables, obj, shares, ids, held>>,
         rec.at \in {"create", "find", "unmap"}, rec.call = "smalloc" => rec.ptr = NULL,
         rec.key # NoKey,
         CallOK(e, rec, obj, ids[e], held[e]), Fresh(e, rec, mm.pt, ids[e])
  PROVE  GoodInv'
<1>1. op \in [Envs -> Calls] /\ op[e] = Idle /\ CallsApart(op)
  BY IdleCall DEF GoodInv, SType
<1>2. op' = [op EXCEPT ![e] = rec] /\ ~Overlaps(e, rec.call, rec.key)
  BY DEF Begin
<1>3. op'[e] = rec /\ \A d \in Envs : d # e => op'[d] = op[d]
  BY <1>1, <1>2
<1>4. op[e].at = "no" /\ op[e].call = "no"
  BY <1>1 DEF Idle
<1>5. Homes' = Homes
  BY <1>3, <1>4 DEF Homes, Pages
<1>6. Refs' = Refs
  BY <1>3, <1>4 DEF Refs, Pages
<1>7. Fillers' = Fillers
  BY <1>3, <1>4 DEF Fillers
<1>8. CallsApart(op')
  BY <1>1, <1>2, CallsApartBegin
<1>9. QED
  BY <1>2, <1>5, <1>6, <1>7, <1>8, CallMoves

\* Where a call stands says what it is.
LEMMA CallAt ==
  ASSUME GoodInv, NEW e \in Envs
  PROVE  /\ op[e].at = "create" => Creating(e, op[e], obj)
         /\ op[e].at \in {"frames", "fill"} => Filling(e, op[e], obj)
         /\ op[e].at = "find" => Finding(op[e], obj)
         /\ op[e].at \in {"map", "count"} => Mapping(op[e], obj)
         /\ op[e].at \in {"unmap", "drop", "test"} => Freeing(op[e], ids[e], held[e])
         /\ Fresh(e, op[e], mm.pt, ids[e])
<1>1. CallOK(e, op[e], obj, ids[e], held[e]) /\ Fresh(e, op[e], mm.pt, ids[e])
  BY DEF GoodInv, CallsOK, AllFresh
<1>2. QED
  BY <1>1 DEF CallOK, Idle, Creating, Filling, Finding, Mapping, Freeing

\* smalloc() begins.
LEMMA SmallocStep ==
  ASSUME GoodInv, NEW e \in Envs, NEW o \in Objects, Smalloc(e, o), calm'
  PROVE  GoodInv'
<1> DEFINE va  == getConsecutiveFreePages(e, o.size)
           rec == [call |-> "smalloc", at |-> "create", key |-> Key(o), size |-> o.size, rw |-> o.rw,
                   va |-> va, ptr |-> NULL]
<1>1. o.size \in Nat \ {0} /\ o.rw \in BOOLEAN /\ NShares \in Nat
  BY SharingAssumption
<1>2. op[e].at = "no" /\ o.owner = e /\ Begin(e, rec) /\ va # NULL /\ get_share(Key(o)) = NULL
  BY DEF Smalloc, At
<1>3. /\ va \in Area /\ ids[e][va] = NULL /\ InArea(va, o.size) /\ EmptyTo(mm.pt, e, va, o.size)
  BY <1>1, <1>2, FoundPages DEF GoodInv
<1> HIDE DEF va
<1>4. Key(o) \in Keys /\ Key(o)[1] = e /\ Key(o) # NoKey
  BY <1>2, KeyGiven
<1>5. rec \in Calls
  BY <1>1, <1>3, <1>4 DEF Calls, NULL, Area
<1>6. Creating(e, rec, obj)
  <2>1. ASSUME NEW s \in Addresses, obj[s].live
        PROVE  obj[s].key # Key(o)
    <3>1. get_share(obj[s].key) = s /\ s # NULL
      BY <2>1, GetShare DEF GoodInv, Addresses, NULL
    <3>2. QED
      BY <1>2, <3>1
  <2>2. QED
    BY <1>4, <2>1 DEF Creating
<1>7. Fresh(e, rec, mm.pt, ids[e])
  BY <1>1, <1>3 DEF Fresh
<1>8. CallOK(e, rec, obj, ids[e], held[e])
  BY <1>6 DEF CallOK
<1>9. UNCHANGED <<mm, tables, obj, shares, ids, held>>
  BY DEF Smalloc
<1>10. /\ rec.at \in {"create", "find", "unmap"} /\ rec.ptr = NULL /\ rec.key # NoKey
  BY <1>4
<1> HIDE DEF rec
<1>11. QED
  BY <1>2, <1>5, <1>7, <1>8, <1>9, <1>10, BeginCall

\* sget() begins.
LEMMA SgetStep ==
  ASSUME GoodInv, NEW e \in Envs, NEW key \in Keys, Sget(e, key), calm'
  PROVE  GoodInv'
<1> DEFINE n   == getSizeOfSharedObject(key)
           va  == getConsecutiveFreePages(e, n)
           rec == [call |-> "sget", at |-> "find", key |-> key, size |-> n, rw |-> FALSE,
                   va |-> va, ptr |-> NULL]
           s   == get_share(key)
<1>1. op[e].at = "no" /\ Begin(e, rec) /\ va # NULL /\ s # NULL
  BY DEF Sget, At
<1>2. s \in Addresses /\ obj[s].live /\ obj[s].key = key
  BY <1>1, GetShare DEF GoodInv
<1>3. n = obj[s].size
  BY DEF getSizeOfSharedObject
<1> HIDE DEF n, s
<1>4. n \in Nat \ {0} /\ NShares \in Nat
  BY <1>2, <1>3, SharingAssumption DEF GoodInv, SType, Shares, ObjectsOK, ObjectOK
<1>5. /\ va \in Area /\ ids[e][va] = NULL /\ InArea(va, n) /\ EmptyTo(mm.pt, e, va, n)
  BY <1>1, <1>4, FoundPages DEF GoodInv
<1> HIDE DEF va
<1>6. rec \in Calls
  BY <1>4, <1>5 DEF Calls, NULL, Area
<1>7. Finding(rec, obj)
  BY <1>2, <1>3 DEF Finding, IsShare
<1>8. Fresh(e, rec, mm.pt, ids[e])
  BY <1>4, <1>5 DEF Fresh
<1>9. CallOK(e, rec, obj, ids[e], held[e])
  BY <1>7 DEF CallOK
<1>10. UNCHANGED <<mm, tables, obj, shares, ids, held>>
  BY DEF Sget
<1>11. rec.at \in {"create", "find", "unmap"} /\ rec.call # "smalloc" /\ rec.key # NoKey
  BY KeyGiven
<1> HIDE DEF rec
<1>12. QED
  BY <1>1, <1>6, <1>8, <1>9, <1>10, <1>11, BeginCall

\* sfree() begins.
LEMMA SfreeStep ==
  ASSUME GoodInv, NEW e \in Envs, NEW va \in Area, Sfree(e, va), calm'
  PROVE  GoodInv'
<1> DEFINE rec == [call |-> "sfree", at |-> "unmap", key |-> held[e][va], size |-> 0, rw |-> FALSE,
                   va |-> va, ptr |-> ById(e, va)]
<1>1. /\ op[e].at = "no" /\ Begin(e, rec) /\ ById(e, va) # NULL /\ held[e][va] # NoKey
  BY DEF Sfree, At
<1>2. ById(e, va) = ids[e][va] /\ ids[e][va] \in Addresses /\ va \in 0 .. NArea
  BY <1>1, SearchById DEF GoodInv, Area
<1>3. held[e][va] \in Keys \union {NoKey} /\ ids[e][va] \in 0 .. NShares
  BY DEF GoodInv, SType
<1>4. rec \in Calls
  BY <1>2, <1>3 DEF Calls
<1>5. Freeing(rec, ids[e], held[e])
  BY <1>1, <1>2 DEF Freeing
<1>6. CallOK(e, rec, obj, ids[e], held[e]) /\ Fresh(e, rec, mm.pt, ids[e])
  BY <1>5 DEF CallOK, Fresh
<1>7. UNCHANGED <<mm, tables, obj, shares, ids, held>>
  BY DEF Sfree
<1>8. rec.at \in {"create", "find", "unmap"} /\ rec.call # "smalloc" /\ rec.key # NoKey
  BY <1>1
<1> HIDE DEF rec
<1>9. QED
  BY <1>1, <1>4, <1>6, <1>7, <1>8, BeginCall

\* smalloc() has counted the free frames.
LEMMA CountFramesStep ==
  ASSUME GoodInv, NEW e \in Envs, CountFrames(e)
  PROVE  GoodInv'
<1> DEFINE rec == [op[e] EXCEPT !.at = "fill"]
<1>1. /\ op[e].at = "frames" /\ op' = [op EXCEPT ![e].at = "fill"]
      /\ UNCHANGED <<mm, tables, obj, shares, ids, held>>
  BY DEF CountFrames, At, Goto
<1>2. op \in [Envs -> Calls] /\ op[e] \in Calls /\ CallsApart(op)
  BY DEF GoodInv, SType
<1>3. op' = [op EXCEPT ![e] = rec]
  BY <1>1, <1>2
<1>4. /\ rec \in Calls /\ rec.call = op[e].call /\ rec.key = op[e].key /\ rec.size = op[e].size
      /\ rec.va = op[e].va /\ rec.ptr = op[e].ptr /\ rec.at = "fill"
  BY <1>2 DEF Calls
<1> HIDE DEF rec
<1>5. Filling(e, op[e], obj) /\ Fresh(e, op[e], mm.pt, ids[e])
  BY <1>1, CallAt
<1>6. CallOK(e, rec, obj, ids[e], held[e]) /\ Fresh(e, rec, mm.pt, ids[e])
  BY <1>4, <1>5 DEF CallOK, Filling, Fresh, IsShare
<1>7. Homes' = Homes /\ Refs' = Refs /\ Fillers' = Fillers
  <2>1. op'[e] = rec /\ \A d \in Envs : d # e => op'[d] = op[d]
    BY <1>2, <1>3
  <2>2. QED
    BY <1>1, <1>4, <1>5, <2>1 DEF Homes, Refs, Fillers, Pages, Filling
<1>8. CallsApart(op')
  BY <1>2, <1>3, <1>4, CallsApartOn
<1>9. QED
  BY <1>1, <1>3, <1>4, <1>6, <1>7, <1>8, CallMoves

\* sget() finds the object again: none was freed since.
LEMMA FindShareStep ==
  ASSUME GoodInv, NEW e \in Envs, FindShare(e)
  PROVE  GoodInv'
<1> DEFINE s   == get_share(op[e].key)
           rec == [op[e] EXCEPT !.at = "map", !.ptr = s]
<1>1. /\ op[e].at = "find"
      /\ op' = IF s = NULL THEN [op EXCEPT ![e] = Idle] ELSE [op EXCEPT ![e].at = "map", ![e].ptr = s]
      /\ UNCHANGED <<mm, tables, obj, shares, ids, held>>
  BY DEF FindShare, At
<1>2. op \in [Envs -> Calls] /\ op[e] \in Calls /\ CallsApart(op)
  BY DEF GoodInv, SType
<1>3. Finding(op[e], obj) /\ Fresh(e, op[e], mm.pt, ids[e])
  BY <1>1, CallAt
<1>4. PICK t \in Addresses : IsShare(obj, t, op[e])
  BY <1>3 DEF Finding
<1>5. s = t /\ t # NULL /\ t \in 0 .. NShares
  BY <1>4, GetShare DEF GoodInv, IsShare, Addresses, NULL
<1> HIDE DEF s
<1>6. op' = [op EXCEPT ![e] = rec]
  BY <1>1, <1>2, <1>5
<1>7. /\ rec \in Calls /\ rec.call = op[e].call /\ rec.key = op[e].key /\ rec.size = op[e].size
      /\ rec.va = op[e].va /\ rec.ptr = s /\ rec.at = "map"
  BY <1>2, <1>5 DEF Calls
<1> HIDE DEF rec
<1>8. CallOK(e, rec, obj, ids[e], held[e]) /\ Fresh(e, rec, mm.pt, ids[e])
  BY <1>1, <1>3, <1>4, <1>5, <1>7 DEF CallOK, Finding, Mapping, Fresh, IsShare
<1>9. Homes' = Homes /\ Refs' = Refs /\ Fillers' = Fillers
  <2>1. op'[e] = rec /\ \A d \in Envs : d # e => op'[d] = op[d]
    BY <1>2, <1>6
  <2>2. /\ ids' = ids /\ op[e].at = "find" /\ rec.at = "map"
        /\ op[e].call = "sget" /\ rec.call = "sget" /\ rec.va = op[e].va
    BY <1>1, <1>3, <1>7 DEF Finding
  <2>3. Homes' = Homes
    BY <2>1, <2>2 DEF Homes, Pages
  <2>4. Refs' = Refs
    BY <2>1, <2>2 DEF Refs, Pages
  <2>5. Fillers' = Fillers
    BY <2>1, <2>2 DEF Fillers
  <2>6. QED
    BY <2>3, <2>4, <2>5
<1>10. CallsApart(op')
  BY <1>2, <1>6, <1>7, CallsApartOn
<1>11. QED
  BY <1>1, <1>6, <1>7, <1>8, <1>9, <1>10, CallMoves

-----------------------------------------------------------------------------
(* What the calls of others cannot be about *)

\* What the kernel has in memory can go through a loop.
LEMMA MemoryRound ==
  ASSUME GoodInv
  PROVE  RoundOK(Memory)
<1>1. Memory \in Rounds
  BY DEF GoodInv, SType, Memory, Rounds
<1>2. Memory.mm = mm /\ Memory.tables = tables
  BY DEF Memory
<1>3. QED
  BY <1>1, <1>2 DEF GoodInv, RoundOK

\* A call under way is about a key.
LEMMA CallKey ==
  ASSUME GoodInv, NEW e \in Envs, op[e] # Idle
  PROVE  op[e].key # NoKey
<1>1. CallOK(e, op[e], obj, ids[e], held[e])
  BY DEF GoodInv, CallsOK
<1>2. CASE Freeing(op[e], ids[e], held[e])
  <2>1. op[e].va \in Area /\ ids[e][op[e].va] # NULL /\ held[e][op[e].va] = op[e].key
    BY <1>2 DEF Freeing
  <2>2. Noted[<<e, op[e].va>>] # NULL
    BY <2>1 DEF Noted, Pages
  <2>3. QED
    BY <2>1, <2>2 DEF GoodInv, IdsOK, IdOK
<1>3. CASE ~Freeing(op[e], ids[e], held[e])
  BY <1>1, <1>3, KeyGiven DEF CallOK, Creating, Filling, Finding, Mapping
<1>4. QED
  BY <1>2, <1>3

\* Nobody else is busy with the object of a smalloc() or an sfree(), and only sget()
\* with that of an sget().
LEMMA NobodyElse ==
  ASSUME GoodInv, NEW e \in Envs, op[e] # Idle, NEW d \in Envs, op[d].key = op[e].key, d # e
  PROVE  op[d].call = "sget" /\ op[e].call = "sget"
BY CallKey DEF GoodInv, CallsApart

\* Who creates an object is in a call about its key.
LEMMA FillerIs ==
  ASSUME GoodInv, NEW d \in Envs, Fillers[d] # NULL
  PROVE  /\ op[d].call = "smalloc" /\ op[d] # Idle
         /\ Fillers[d] \in Addresses /\ obj[Fillers[d]].live /\ obj[Fillers[d]].key = op[d].key
<1>1. op[d].call = "smalloc" /\ op[d].ptr = Fillers[d]
  BY DEF Fillers
<1>2. CallOK(d, op[d], obj, ids[d], held[d])
  BY DEF GoodInv, CallsOK
<1>3. Filling(d, op[d], obj)
  BY <1>1, <1>2 DEF CallOK, Creating, Finding, Mapping, Freeing, Idle
<1>4. QED
  BY <1>1, <1>3 DEF Filling, IsShare, Idle

\* What is noted is a live object, under the key that the program knows.
LEMMA NotedIs ==
  ASSUME GoodInv, NEW d \in Envs, NEW va \in Area, ids[d][va] # NULL
  PROVE  /\ ids[d][va] \in Addresses /\ obj[ids[d][va]].live /\ obj[ids[d][va]].key = held[d][va]
         /\ held[d][va] # NoKey /\ \A e \in Envs : Fillers[e] # ids[d][va]
<1>1. Noted[<<d, va>>] = ids[d][va]
  BY DEF Noted, Pages
<1>2. ids[d][va] \in 0 .. NShares
  BY DEF GoodInv, SType
<1>3. IdOK(ids[d][va], held[d][va], obj, Fillers)
  BY <1>1 DEF GoodInv, IdsOK
<1>4. QED
  BY <1>2, <1>3 DEF IdOK, Addresses, NULL

\* A home is a live object; the environment has noted it, or is about to.
LEMMA HomeIs ==
  ASSUME GoodInv, NEW d \in Envs, NEW va \in Area, Homes[<<d, va>>] # NULL
  PROVE  /\ Homes[<<d, va>>] \in Addresses /\ obj[Homes[<<d, va>>]].live
         /\ \/ ids[d][va] = Homes[<<d, va>>] /\ ~(op[d].va = va /\ op[d].at \in {"drop", "test"})
            \/ /\ op[d].va = va /\ op[d].at = "count" /\ op[d].call = "sget"
               /\ op[d].ptr = Homes[<<d, va>>] /\ obj[Homes[<<d, va>>]].key = op[d].key
<1>1. <<d, va>> \in Pages
  BY DEF Pages
<1>2. CASE op[d].va = va /\ op[d].at = "count"
  <2>1. Homes[<<d, va>>] = op[d].ptr
    BY <1>1, <1>2 DEF Homes
  <2>2. Mapping(op[d], obj)
    BY <1>2, CallAt
  <2>3. QED
    BY <1>2, <2>1, <2>2 DEF Mapping, IsShare
<1>3. CASE ~(op[d].va = va /\ op[d].at = "count")
  <2>1. Homes[<<d, va>>] = ids[d][va] /\ ~(op[d].va = va /\ op[d].at \in {"drop", "test"})
    BY <1>1, <1>3 DEF Homes
  <2>2. QED
    BY <2>1, NotedIs
<1>4. QED
  BY <1>2, <1>3

\* A page that has a frame is one of those the frame counts.
LEMMA FrameInUse ==
  ASSUME NEW m \in Mems, Counted(m), NEW p \in Pages, m.pt[p].frame # NoFrame
  PROVE  m.pt[p].frame \in Frames /\ m.ref[m.pt[p].frame] # 0
<1>1. m.pt[p] \in Entries /\ FrameCount \in Nat
  BY MemTypes, SharingAssumption
<1>2. m.pt[p].frame \in Frames
  BY <1>1 DEF Entries, Frames, NoFrame
<1>3. p \in PagesOf(m, m.pt[p].frame) /\ IsFiniteSet(PagesOf(m, m.pt[p].frame))
  BY PagesFinite DEF PagesOf
<1>4. Cardinality(PagesOf(m, m.pt[p].frame)) # 0
  BY <1>3, FS_EmptySet
<1>5. QED
  BY <1>2, <1>4 DEF Counted

\* The object that sget() maps has its frames, and they are in use.
LEMMA FramesThere ==
  ASSUME GoodInv, NEW e \in Envs, op[e].at = "map"
  PROVE  /\ op[e].ptr \in Addresses /\ obj[op[e].ptr].live /\ obj[op[e].ptr].size = op[e].size
         /\ obj[op[e].ptr].frames \in Seq(0 .. FrameCount) /\ obj[op[e].ptr].rw \in BOOLEAN
         /\ Len(obj[op[e].ptr].frames) = op[e].size /\ op[e].size \in Nat \ {0}
         /\ \A i \in 1 .. op[e].size :
              /\ obj[op[e].ptr].frames[i] # NoFrame /\ obj[op[e].ptr].frames[i] \in Frames
              /\ mm.ref[obj[op[e].ptr].frames[i]] # 0
<1> DEFINE s == op[e].ptr
           o == obj[s]
           n == op[e].size
<1>1. Mapping(op[e], obj) /\ Fresh(e, op[e], mm.pt, ids[e])
  BY CallAt
<1>2. /\ op[e].call = "sget" /\ op[e] # Idle
      /\ s \in Addresses /\ o.live /\ o.key = op[e].key /\ o.size = n /\ s # NULL
  BY <1>1 DEF Mapping, IsShare, Idle, Addresses, NULL
<1>3. o \in Shares /\ ObjectOK(o, s, Noted, Refs, Fillers)
  BY <1>2 DEF GoodInv, SType, ObjectsOK
<1>4. /\ o.frames \in Seq(0 .. FrameCount) /\ o.rw \in BOOLEAN /\ n \in Nat \ {0}
      /\ Len(o.frames) = n
  BY <1>2, <1>3 DEF Shares, ObjectOK
<1> HIDE DEF s, o, n
<1>5. \A d \in Envs : Fillers[d] # s
  <2>1. SUFFICES ASSUME NEW d \in Envs, Fillers[d] = s
                 PROVE  FALSE
    OBVIOUS
  <2>2. op[d].call = "smalloc" /\ op[d].key = op[e].key
    BY <1>2, <2>1, FillerIs DEF o, s
  <2>3. QED
    BY <1>2, <2>2, NobodyElse
<1>6. PICK u \in Pages : Noted[u] = s
  BY <1>3, <1>5 DEF ObjectOK
<1>7. PICK d \in Envs, wa \in Area : u = <<d, wa>>
  BY <1>6 DEF Pages
<1>8. ids[d][wa] = s
  BY <1>6, <1>7 DEF Noted
<1>9. held[d][wa] = op[e].key
  BY <1>2, <1>8, NotedIs DEF o
<1>10. ~(op[d].va = wa /\ op[d].at = "count")
  <2>1. op[d].at = "count" => Mapping(op[d], obj) /\ Fresh(d, op[d], mm.pt, ids[d])
    BY CallAt
  <2>2. QED
    BY <1>2, <1>8, <2>1 DEF Mapping, Fresh
<1>11. ~(op[d].va = wa /\ op[d].at \in {"drop", "test"})
  <2>1. SUFFICES ASSUME op[d].va = wa, op[d].at \in {"drop", "test"}
                 PROVE  FALSE
    OBVIOUS
  <2>2. op[d].call = "sfree" /\ op[d].key = held[d][wa]
    BY <2>1, CallAt DEF Freeing
  <2>3. QED
    BY <1>2, <1>9, <2>2, NobodyElse
<1>12. Homes[<<d, wa>>] = s
  BY <1>6, <1>7, <1>8, <1>10, <1>11 DEF Homes
<1>13. Sees(mm.pt, d, wa, o)
  BY <1>2, <1>12 DEF GoodInv, HomesOK, HomesMapped, o
<1>14. ASSUME NEW i \in 1 .. n
       PROVE  o.frames[i] # NoFrame /\ o.frames[i] \in Frames /\ mm.ref[o.frames[i]] # 0
  <2>1. SeesFrame(mm.pt[Page(d, wa, i)], d, o, i) /\ Page(d, wa, i) \in Pages
    BY <1>2, <1>13 DEF Sees, InArea, Page, Pages
  <2>2. mm.pt[Page(d, wa, i)].frame = o.frames[i] /\ o.frames[i] # NoFrame
    BY <2>1 DEF SeesFrame
  <2>3. mm \in Mems /\ Counted(mm)
    BY DEF GoodInv, SType
  <2>4. QED
    BY <2>1, <2>2, <2>3, FrameInUse
<1>15. QED
  BY <1>2, <1>4, <1>14 DEF s, o, n

-----------------------------------------------------------------------------
(* Steps that change the memory *)

\* What a loop leaves behind is kept, in the order Settle() brings it.
LEMMA MemoryAfter ==
  ASSUME NEW m, RoundOK(m)
  PROVE  /\ Settle(m.mm) \in Mems /\ m.tables \in [Envs -> SUBSET Tabs]
         /\ Counted(Settle(m.mm)) /\ TablesUsed(Settle(m.mm).pt, m.tables)
         /\ Settle(m.mm).pt = m.mm.pt
<1>1. m.mm \in Mems /\ Counted(m.mm) /\ m.tables \in [Envs -> SUBSET Tabs] /\ TablesUsed(m.mm.pt, m.tables)
  BY RoundTypes DEF RoundOK
<1>2. QED
  BY <1>1, Settled

\* The pages that others have found stay empty.
LEMMA OthersFresh ==
  ASSUME NEW d \in Envs, NEW c, NEW pt, NEW qt, NEW noted, Fresh(d, c, pt, noted),
         NEW e, NEW va, NEW n, Kept(pt, qt, e, va, n), d # e
  PROVE  Fresh(d, c, qt, noted)
<1>1. ASSUME InArea(c.va, c.size), EmptyTo(pt, d, c.va, c.size)
      PROVE  EmptyTo(qt, d, c.va, c.size)
  <2>1. ASSUME NEW i \in 1 .. c.size
        PROVE  qt[Page(d, c.va, i)] = pt[Page(d, c.va, i)]
    <3>1. Page(d, c.va, i) \in Pages
      BY <1>1 DEF InArea, Page, Pages
    <3>2. \A j \in 1 .. n : Page(d, c.va, i) # Page(e, va, j)
      BY DEF Page
    <3>3. QED
      BY <3>1, <3>2 DEF Kept
  <2>2. QED
    BY <1>1, <2>1 DEF EmptyTo
<1>2. QED
  BY <1>1 DEF Fresh

\* Two maps of the pages that differ at one page.
IsPageMap(f) == f = [u \in Pages |-> f[u]]
SameButAt(f, g, e, va) ==
  \A d \in Envs, wa \in Area : d # e \/ wa # va => g[<<d, wa>>] = f[<<d, wa>>]

\* Such a map is the other one but for that page.
LEMMA OnePage ==
  ASSUME NEW f, NEW g, IsPageMap(f), IsPageMap(g), NEW e \in Envs, NEW va \in Area,
         SameButAt(f, g, e, va), NEW x, g[<<e, va>>] = x
  PROVE  g = [f EXCEPT ![<<e, va>>] = x]
<1> USE DEF IsPageMap, SameButAt
<1> DEFINE h == [f EXCEPT ![<<e, va>>] = x]
<1>1. h = [u \in Pages |-> h[u]]
  OBVIOUS
<1>2. ASSUME NEW d \in Envs, NEW wa \in Area
      PROVE  h[<<d, wa>>] = g[<<d, wa>>]
  <2>1. <<d, wa>> \in Pages
    BY DEF Pages
  <2>2. CASE d = e /\ wa = va
    BY <2>1, <2>2
  <2>3. CASE d # e \/ wa # va
    <3>1. h[<<d, wa>>] = f[<<d, wa>>]
      BY <2>1, <2>3
    <3>2. QED
      BY <2>3, <3>1
  <2>4. QED
    BY <2>2, <2>3
<1> HIDE DEF h
<1>3. ASSUME NEW u \in Pages
      PROVE  h[u] = g[u]
  <2>1. PICK d \in Envs, wa \in Area : u = <<d, wa>>
    BY DEF Pages
  <2>2. QED
    BY <1>2, <2>1
<1>4. h = g
  BY <1>1, <1>3
<1>5. QED
  BY <1>4 DEF h

\* A home is an address or NULL.
LEMMA HomesType ==
  ASSUME SType
  PROVE  Homes \in HomeMaps
<1>1. ASSUME NEW u \in Pages
      PROVE  Homes[u] \in 0 .. NShares
  <2>1. u[1] \in Envs /\ u[2] \in Area
    BY DEF Pages
  <2>2. op[u[1]] \in Calls /\ ids[u[1]][u[2]] \in 0 .. NShares
    BY <2>1 DEF SType
  <2>3. op[u[1]].ptr \in 0 .. NShares /\ NULL \in 0 .. NShares
    BY <2>2, SharingAssumption DEF Calls, NULL
  <2>4. QED
    BY <2>2, <2>3 DEF Homes
<1>2. QED
  BY <1>1 DEF Homes, HomeMaps

\* A step of a call that maps or unmaps pages, and changes no object.
LEMMA MemoryMoves ==
  ASSUME GoodInv, NEW e \in Envs, NEW rec \in Calls, op' = [op EXCEPT ![e] = rec],
         UNCHANGED <<obj, shares, ids, held>>, NEW m, RoundOK(m), mm' = Settle(m.mm), tables' = m.tables,
         NEW va, NEW n, Kept(mm.pt, m.mm.pt, e, va, n),
         Refs' = Refs, Fillers' = Fillers, CallsApart(op'), HomesOK(m.mm.pt, obj, Homes'),
         CallOK(e, rec, obj, ids[e], held[e]), Fresh(e, rec, m.mm.pt, ids[e])
  PROVE  GoodInv'
<1>1. op \in [Envs -> Calls]
  BY DEF GoodInv, SType
<1>2. op'[e] = rec /\ \A d \in Envs : d # e => op'[d] = op[d]
  BY <1>1
<1>3. /\ mm' \in Mems /\ tables' \in [Envs -> SUBSET Tabs]
      /\ Counted(mm') /\ TablesUsed(mm'.pt, tables') /\ mm'.pt = m.mm.pt
  BY MemoryAfter
<1>4. SType'
  BY <1>1, <1>3 DEF GoodInv, SType
<1>5. Noted' = Noted
  BY DEF Noted
<1>6. CallsOK(op', obj, ids, held)
  BY <1>2 DEF GoodInv, CallsOK
<1>7. AllFresh(op', mm'.pt, ids)
  <2>1. \A d \in Envs : d # e => Fresh(d, op[d], m.mm.pt, ids[d])
    BY OthersFresh DEF GoodInv, AllFresh
  <2>2. QED
    BY <1>2, <1>3, <2>1 DEF AllFresh
<1>8. QED
  BY <1>3, <1>4, <1>5, <1>6, <1>7 DEF GoodInv

\* sget() maps the pages.
LEMMA MapShareStep ==
  ASSUME GoodInv, NEW e \in Envs, MapShare(e), ended' = "no"
  PROVE  GoodInv'
<1> DEFINE va  == op[e].va
           s   == op[e].ptr
           n   == op[e].size
           frames == obj[s].frames
           rw  == obj[s].rw
           m   == map_pages(e, va, frames, rw)
           rec == [op[e] EXCEPT !.at = "count"]
<1>1. /\ op[e].at = "map" /\ op' = [op EXCEPT ![e].at = "count"]
      /\ mm' = Settle(m.mm) /\ tables' = m.tables /\ m.ok
      /\ UNCHANGED <<obj, shares, ids, held>>
  BY DEF MapShare, At, Goto
<1>2. /\ s \in Addresses /\ obj[s].live /\ obj[s].size = n
      /\ frames \in Seq(0 .. FrameCount) /\ rw \in BOOLEAN
      /\ Len(frames) = n /\ n \in Nat \ {0}
      /\ \A i \in 1 .. n : frames[i] # NoFrame /\ frames[i] \in Frames /\ mm.ref[frames[i]] # 0
  BY <1>1, FramesThere
<1>3. Mapping(op[e], obj) /\ Fresh(e, op[e], mm.pt, ids[e])
  BY <1>1, CallAt
<1>4. op[e].call = "sget" /\ op[e] # Idle
  BY <1>3 DEF Mapping, Idle
<1>5. va \in Area /\ va \in Int /\ ids[e][va] = NULL /\ InArea(va, n) /\ EmptyTo(mm.pt, e, va, n)
  BY SMTT(30), <1>1, <1>3, <1>4 DEF Fresh, Area
<1>6. op \in [Envs -> Calls] /\ op[e] \in Calls /\ CallsApart(op)
  BY DEF GoodInv, SType
<1>7. op' = [op EXCEPT ![e] = rec]
  BY <1>1, <1>6
<1>8. /\ rec \in Calls /\ rec.call = op[e].call /\ rec.key = op[e].key /\ rec.size = n
      /\ rec.va = va /\ rec.ptr = s /\ rec.at = "count"
  BY <1>6 DEF Calls
<1> HIDE DEF rec, m, frames, rw
<1>9. RoundOK(m) /\ Kept(mm.pt, m.mm.pt, e, va, n) /\ MappedTo(m.mm.pt, e, va, n, frames, rw)
  BY <1>1, <1>2, <1>5, MemoryRound, MapPagesDoes DEF m
<1>10. CallOK(e, rec, obj, ids[e], held[e]) /\ Fresh(e, rec, m.mm.pt, ids[e])
  BY <1>3, <1>8 DEF CallOK, Mapping, Fresh, IsShare
<1>11. op'[e] = rec /\ \A d \in Envs : d # e => op'[d] = op[d]
  BY <1>6, <1>7
<1>12. Refs' = Refs /\ Fillers' = Fillers
  <2>1. Refs' = Refs
    BY <1>1, <1>8, <1>11 DEF Refs, Pages
  <2>2. Fillers' = Fillers
    BY <1>4, <1>8, <1>11 DEF Fillers
  <2>3. QED
    BY <2>1, <2>2
<1>13. Homes' = [Homes EXCEPT ![<<e, va>>] = s]
  <2>1. SameButAt(Homes, Homes', e, va)
    BY <1>1, <1>8, <1>11 DEF Homes, Pages, SameButAt
  <2>2. Homes'[<<e, va>>] = s
    BY <1>1, <1>8, <1>11, <1>5 DEF Homes, Pages
  <2>3. IsPageMap(Homes) /\ IsPageMap(Homes')
    BY DEF Homes, IsPageMap
  <2>4. QED
    BY <2>1, <2>2, <2>3, <1>5, OnePage
<1>14. Homes \in HomeMaps /\ Homes[<<e, va>>] = NULL
  <2>1. Homes[<<e, va>>] = NULL
    BY <1>1, <1>5 DEF Homes, Pages
  <2>2. Homes \in HomeMaps
    BY HomesType DEF GoodInv
  <2>3. QED
    BY <2>1, <2>2
<1>15. Sees(m.mm.pt, e, va, obj[s])
  <2>1. ASSUME NEW i \in 1 .. n
        PROVE  SeesFrame(m.mm.pt[Page(e, va, i)], e, obj[s], i)
    <3>1. m.mm.pt[Page(e, va, i)] = SharedEntry(frames[i], rw) /\ frames[i] # NoFrame
      BY <1>2, <1>9 DEF MappedTo
    <3>2. QED
      BY <3>1 DEF SharedEntry, SeesFrame, frames, rw
  <2>2. QED
    BY <1>2, <1>5, <2>1 DEF Sees
<1>16. HomesOK(m.mm.pt, obj, Homes')
  BY <1>2, <1>5, <1>9, <1>13, <1>14, <1>15, AddHome DEF GoodInv
<1>17. CallsApart(op')
  BY <1>6, <1>7, <1>8, CallsApartOn
<1>18. QED
  BY <1>1, <1>7, <1>8, <1>9, <1>10, <1>12, <1>16, <1>17, MemoryMoves

\* sfree() unmaps the pages.
LEMMA UnmapShareStep ==
  ASSUME GoodInv, NEW e \in Envs, UnmapShare(e)
  PROVE  GoodInv'
<1> DEFINE va  == op[e].va
           s   == op[e].ptr
           n   == obj[s].size
           m   == unmap_pages(e, va, n)
           rec == [op[e] EXCEPT !.at = "drop"]
<1>1. /\ op[e].at = "unmap" /\ op' = [op EXCEPT ![e].at = "drop"]
      /\ mm' = Settle(m.mm) /\ tables' = m.tables
      /\ UNCHANGED <<obj, shares, ids, held>>
  BY DEF UnmapShare, At, Goto
<1>2. Freeing(op[e], ids[e], held[e])
  BY <1>1, CallAt
<1>3. op[e].call = "sfree" /\ va \in Area /\ va \in Int /\ s # NULL /\ ids[e][va] = s
  BY <1>2 DEF Freeing, Area
<1>4. s \in Addresses /\ obj[s].live
  BY <1>3, NotedIs
<1>5. n \in Nat
  BY <1>4 DEF GoodInv, SType, Shares
<1>6. op \in [Envs -> Calls] /\ op[e] \in Calls /\ CallsApart(op)
  BY DEF GoodInv, SType
<1>7. op' = [op EXCEPT ![e] = rec]
  BY <1>1, <1>6
<1>8. /\ rec \in Calls /\ rec.call = op[e].call /\ rec.key = op[e].key
      /\ rec.va = va /\ rec.ptr = s /\ rec.at = "drop"
  BY <1>6 DEF Calls
<1>9. Homes \in HomeMaps /\ Homes[<<e, va>>] = s
  <2>1. Homes[<<e, va>>] = s
    BY <1>1, <1>3 DEF Homes, Pages
  <2>2. Homes \in HomeMaps
    BY HomesType DEF GoodInv
  <2>3. QED
    BY <2>1, <2>2
<1>10. InArea(va, n) /\ \A i \in 1 .. n : mm.pt[Page(e, va, i)].frame # NoFrame
  BY <1>3, <1>9 DEF GoodInv, HomesOK, HomesMapped, Sees, SeesFrame
<1> HIDE DEF rec, m, n
<1>11. RoundOK(m) /\ Kept(mm.pt, m.mm.pt, e, va, n) /\ EmptyTo(m.mm.pt, e, va, n)
  BY <1>3, <1>5, <1>10, MemoryRound, UnmapPagesDoes DEF m
<1>12. CallOK(e, rec, obj, ids[e], held[e]) /\ Fresh(e, rec, m.mm.pt, ids[e])
  BY <1>2, <1>3, <1>8 DEF CallOK, Freeing, Fresh
<1>13. op'[e] = rec /\ \A d \in Envs : d # e => op'[d] = op[d]
  BY <1>6, <1>7
<1>14. Refs' = Refs /\ Fillers' = Fillers
  <2>1. Refs' = Refs
    BY <1>1, <1>8, <1>13 DEF Refs, Pages
  <2>2. Fillers' = Fillers
    BY <1>3, <1>8, <1>13 DEF Fillers
  <2>3. QED
    BY <2>1, <2>2
<1>15. Homes' = [Homes EXCEPT ![<<e, va>>] = NULL]
  <2>1. SameButAt(Homes, Homes', e, va)
    BY <1>1, <1>8, <1>13 DEF Homes, Pages, SameButAt
  <2>2. Homes'[<<e, va>>] = NULL
    BY <1>1, <1>8, <1>13, <1>3 DEF Homes, Pages
  <2>3. IsPageMap(Homes) /\ IsPageMap(Homes')
    BY DEF Homes, IsPageMap
  <2>4. QED
    BY <2>1, <2>2, <2>3, <1>3, OnePage
<1>16. HomesOK(m.mm.pt, obj, Homes')
  BY <1>3, <1>4, <1>9, <1>11, <1>15, DropHome DEF GoodInv, n
<1>17. CallsApart(op')
  BY <1>6, <1>7, <1>8, CallsApartOn
<1>18. QED
  BY <1>1, <1>7, <1>8, <1>11, <1>12, <1>14, <1>16, <1>17, MemoryMoves

-----------------------------------------------------------------------------
(* Steps that change an object *)

\* How a step that touches one page and one environment changes the number of users.
UsersMove(refs, sefr, fillers, srellif, e, va, s) ==
  /\ CountUsers(refs, fillers, s) \in Nat /\ CountUsers(sefr, srellif, s) \in Nat
  /\ CountUsers(sefr, srellif, s) = CountUsers(refs, fillers, s)
       + (IF sefr[<<e, va>>] = s THEN 1 ELSE 0) - (IF refs[<<e, va>>] = s THEN 1 ELSE 0)
       + (IF srellif[e] = s THEN 1 ELSE 0) - (IF fillers[e] = s THEN 1 ELSE 0)

\* The count changes by what that page and that environment gained or gave up.
LEMMA CountUsersStep ==
  ASSUME NEW refs, NEW sefr, NEW fillers, NEW srellif, NEW e \in Envs, NEW va \in Area,
         SameButAt(refs, sefr, e, va), SameElse(fillers, srellif, Envs, e), NEW s
  PROVE  UsersMove(refs, sefr, fillers, srellif, e, va, s)
<1>1. IsFiniteSet(Pages) /\ IsFiniteSet(Envs) /\ <<e, va>> \in Pages
  BY PagesFinite, SharingAssumption DEF Pages
<1>2. SameElse(refs, sefr, Pages, <<e, va>>)
  <2>1. SUFFICES ASSUME NEW u \in Pages, u # <<e, va>>
                 PROVE  sefr[u] = refs[u]
    BY DEF SameElse
  <2>2. PICK d \in Envs, wa \in Area : u = <<d, wa>>
    BY DEF Pages
  <2>3. QED
    BY <2>1, <2>2 DEF SameButAt
<1> DEFINE A == Cardinality(Where(refs, Pages, s))
           B == Cardinality(Where(sefr, Pages, s))
           C == Cardinality(Where(fillers, Envs, s))
           D == Cardinality(Where(srellif, Envs, s))
<1>3. /\ A \in Nat /\ B \in Nat
      /\ B = A + (IF sefr[<<e, va>>] = s THEN 1 ELSE 0) - (IF refs[<<e, va>>] = s THEN 1 ELSE 0)
  BY <1>1, <1>2, CountWhere
<1>4. /\ C \in Nat /\ D \in Nat
      /\ D = C + (IF srellif[e] = s THEN 1 ELSE 0) - (IF fillers[e] = s THEN 1 ELSE 0)
  BY <1>1, CountWhere
<1>5. CountUsers(refs, fillers, s) = A + C /\ CountUsers(sefr, srellif, s) = B + D
  BY DEF CountUsers
<1> HIDE DEF A, B, C, D
<1>6. QED
  BY <1>3, <1>4, <1>5 DEF UsersMove

\* An object that nobody uses, and one that somebody does.
LEMMA NoUsers ==
  ASSUME NEW refs, NEW fillers, NEW s
  PROVE  CountUsers(refs, fillers, s) = 0 <=> /\ \A u \in Pages : refs[u] # s
                                              /\ \A e \in Envs : fillers[e] # s
<1> DEFINE A == Where(refs, Pages, s)
           B == Where(fillers, Envs, s)
<1>1. A \subseteq Pages /\ B \subseteq Envs
  BY DEF Where
<1>2. IsFiniteSet(A) /\ IsFiniteSet(B)
  BY <1>1, PagesFinite, SharingAssumption, FS_Subset
<1>3. /\ A = {} <=> \A u \in Pages : refs[u] # s
      /\ B = {} <=> \A e \in Envs : fillers[e] # s
  BY DEF Where
<1> HIDE DEF A, B
<1>4. Cardinality(A) \in Nat /\ Cardinality(B) \in Nat
      /\ (Cardinality(A) = 0 <=> A = {}) /\ (Cardinality(B) = 0 <=> B = {})
  BY <1>2, FS_CardinalityType, FS_EmptySet
<1>5. CountUsers(refs, fillers, s) = Cardinality(A) + Cardinality(B)
  BY DEF CountUsers, A, B
<1>6. QED
  BY <1>3, <1>4, <1>5

\* A step about an object leaves the calls about others where they are.
LEMMA OtherCalls ==
  ASSUME GoodInv, NEW e \in Envs, op[e] # Idle, op[e].call # "sget",
         NEW pb, NEW s \in Addresses, \A t \in Addresses : t # s => pb[t] = obj[t],
         obj[s].live => obj[s].key = op[e].key, pb[s].live => pb[s].key = op[e].key
  PROVE  \A d \in Envs : d # e => CallOK(d, op[d], pb, ids[d], held[d])
<1>1. SUFFICES ASSUME NEW d \in Envs, d # e
               PROVE  CallOK(d, op[d], pb, ids[d], held[d])
  OBVIOUS
<1>2. CallOK(d, op[d], obj, ids[d], held[d])
  BY DEF GoodInv, CallsOK
<1>3. op[d].key # op[e].key
  BY <1>1, NobodyElse
<1>4. \A t \in Addresses : (obj[t].live /\ obj[t].key = op[d].key)
                             <=> (pb[t].live /\ pb[t].key = op[d].key)
  BY <1>3
<1>5. ASSUME NEW t \in Addresses, pb[t].live, pb[t].key = op[d].key
      PROVE  pb[t].size = obj[t].size
  BY <1>3, <1>5
<1>6. QED
  BY <1>2, <1>4, <1>5, OtherCall

\* A sequence of one value, and one given by its elements.
LEMMA SameSeq ==
  ASSUME NEW n \in Nat, NEW S, NEW x \in S
  PROVE  [i \in 1 .. n |-> x] \in Seq(S) /\ Len([i \in 1 .. n |-> x]) = n
OBVIOUS

\* A function on 1 .. n is a sequence of that length.
LEMMA AsSeq ==
  ASSUME NEW n \in Nat, NEW S, NEW q \in [1 .. n -> S]
  PROVE  q \in Seq(S) /\ Len(q) = n
OBVIOUS

\* createSharedObject() inserts the object.
LEMMA CreateShareStep ==
  ASSUME GoodInv, NEW e \in Envs, CreateShare(e)
  PROVE  GoodInv'
<1> DEFINE s   == kmalloc_share
           c   == op[e]
           va  == c.va
           o   == create_share(c.key, c.size, c.rw)
           pb  == [obj EXCEPT ![s] = o]
           rec == [c EXCEPT !.at = "frames", !.ptr = s]
<1>1. /\ c.at = "create" /\ FreeAddresses # {} /\ obj' = pb /\ shares' = <<s>> \o shares
      /\ op' = [op EXCEPT ![e].at = "frames", ![e].ptr = s]
      /\ UNCHANGED <<mm, tables, ids, held>>
  BY DEF CreateShare, At
<1>2. s \in Addresses /\ ~obj[s].live /\ s # NULL /\ s \in 0 .. NShares
  BY <1>1, FreeAddress DEF Addresses, NULL
<1>3. Creating(e, c, obj) /\ Fresh(e, c, mm.pt, ids[e])
  BY <1>1, CallAt
<1>4. /\ c.call = "smalloc" /\ c.ptr = NULL /\ c.key \in Keys /\ c.key[1] = e /\ c # Idle
      /\ va \in Area /\ c.size > 0
      /\ \A t \in Addresses : obj[t].live => obj[t].key # c.key
  BY <1>3 DEF Creating, Fresh, Idle
<1>5. /\ op \in [Envs -> Calls] /\ c \in Calls /\ CallsApart(op) /\ obj \in [Addresses -> Shares]
      /\ shares \in Seq(Addresses)
  BY DEF GoodInv, SType
<1>6. /\ o \in Shares /\ o.live /\ o.key = c.key /\ o.size = c.size /\ o.refs = 1
      /\ Len(o.frames) = c.size
  <2> DEFINE fr == [i \in 1 .. c.size |-> NoFrame]
  <2>1. c.size \in Nat /\ c.rw \in BOOLEAN /\ c.key \in Keys \union {NoKey} /\ 0 \in 0 .. FrameCount
    BY <1>5, SharingAssumption DEF Calls
  <2>2. fr \in Seq(0 .. FrameCount) /\ Len(fr) = c.size
    BY <2>1, SameSeq DEF NoFrame
  <2>3. o = [live |-> TRUE, key |-> c.key, size |-> c.size, rw |-> c.rw, refs |-> 1, frames |-> fr]
    BY DEF create_share
  <2> HIDE DEF fr, o
  <2>4. QED
    BY <2>1, <2>2, <2>3 DEF Shares
<1> HIDE DEF s, o
<1>7. pb[s] = o /\ \A t \in Addresses : t # s => pb[t] = obj[t]
  BY <1>2, <1>5
<1>8. pb \in [Addresses -> Shares]
  BY <1>5, <1>6
<1> HIDE DEF pb
<1>9. op' = [op EXCEPT ![e] = rec]
  BY <1>1, <1>5
<1>10. /\ rec \in Calls /\ rec.call = c.call /\ rec.key = c.key /\ rec.size = c.size
       /\ rec.va = va /\ rec.ptr = s /\ rec.at = "frames"
  BY <1>2, <1>5 DEF Calls
<1> HIDE DEF rec
<1>11. op'[e] = rec /\ \A d \in Envs : d # e => op'[d] = op[d]
  BY <1>5, <1>9
<1>12. ids' = ids /\ held' = held /\ mm' = mm /\ tables' = tables
  BY <1>1
<1>13. Homes' = Homes /\ Refs' = Refs /\ Noted' = Noted
  <2>1. /\ op[e].at = "create" /\ op'[e].at = "frames" /\ ids' = ids
        /\ \A d \in Envs : d # e => op'[d] = op[d]
    BY <1>1, <1>10, <1>11, <1>12
  <2>2. Homes' = Homes /\ Refs' = Refs
    BY <2>1 DEF Homes, Refs, Pages
  <2>3. Noted' = Noted
    BY <1>12 DEF Noted
  <2>4. QED
    BY <2>2, <2>3
<1>14. Fillers[e] = NULL /\ Fillers'[e] = s /\ \A d \in Envs : d # e => Fillers'[d] = Fillers[d]
  BY <1>4, <1>10, <1>11 DEF Fillers
<1>15. SType'
  <2>1. <<s>> \o shares \in Seq(Addresses)
    BY <1>2, <1>5
  <2>2. QED
    BY <1>1, <1>5, <1>8, <1>9, <1>10, <1>12, <2>1 DEF GoodInv, SType
<1>16. ListOK(pb, shares')
  <2>1. ASSUME NEW t \in Addresses
        PROVE  Count(shares', t) = IF pb[t].live THEN 1 ELSE 0
    <3>1. <<s>> \in Seq(Addresses)
      BY <1>2
    <3>2. Count(<<s>> \o shares, t) = Count(<<s>>, t) + Count(shares, t)
      BY <1>5, <3>1, CountConcat
    <3>3. Count(<<s>>, t) = IF s = t THEN 1 ELSE 0
      BY CountOne
    <3>4. Count(shares, t) = IF obj[t].live THEN 1 ELSE 0
      BY DEF GoodInv, ListOK
    <3>5. QED
      BY <1>1, <1>2, <1>6, <1>7, <3>2, <3>3, <3>4
  <2>2. ASSUME NEW t \in Addresses, NEW r \in Addresses, pb[t].live, pb[r].live, pb[t].key = pb[r].key
        PROVE  t = r
    BY <1>4, <1>6, <1>7, <2>2 DEF GoodInv, ListOK
  <2>3. QED
    BY <2>1, <2>2 DEF ListOK
<1>17. ObjectsOK(pb, Noted, Refs, Fillers')
  <2>1. SUFFICES ASSUME NEW t \in Addresses, pb[t].live
                 PROVE  ObjectOK(pb[t], t, Noted, Refs, Fillers')
    BY DEF ObjectsOK
  <2>2. /\ CountUsers(Refs, Fillers, t) \in Nat
        /\ CountUsers(Refs, Fillers', t) = CountUsers(Refs, Fillers, t)
             + (IF Fillers'[e] = t THEN 1 ELSE 0) - (IF Fillers[e] = t THEN 1 ELSE 0)
    <3>1. SameButAt(Refs, Refs, e, va) /\ SameElse(Fillers, Fillers', Envs, e)
      BY <1>14 DEF SameButAt, SameElse
    <3>2. UsersMove(Refs, Refs, Fillers, Fillers', e, va, t)
      BY <1>4, <3>1, CountUsersStep
    <3>3. QED
      BY <3>2 DEF UsersMove
  <2>3. CASE t = s
    <3>1. \A u \in Pages : Refs[u] # s
      <4>1. SUFFICES ASSUME NEW d \in Envs, NEW wa \in Area, Refs[<<d, wa>>] = s
                     PROVE  FALSE
        BY DEF Pages
      <4>2. ids[d][wa] = s
        BY <1>2, <4>1 DEF Refs, Pages
      <4>3. QED
        BY <1>2, <4>2, NotedIs
    <3>2. \A d \in Envs : Fillers[d] # s
      BY <1>2, FillerIs
    <3>3. CountUsers(Refs, Fillers, s) = 0
      BY <3>1, <3>2, NoUsers
    <3>4. CountUsers(Refs, Fillers', s) = 1
      BY <1>2, <1>14, <2>2, <2>3, <3>3
    <3>5. QED
      BY <1>4, <1>6, <1>7, <1>14, <2>3, <3>4 DEF ObjectOK
  <2>4. CASE t # s
    <3>1. pb[t] = obj[t] /\ ObjectOK(obj[t], t, Noted, Refs, Fillers) /\ t # NULL
      BY <1>7, <2>1, <2>4 DEF GoodInv, ObjectsOK, Addresses, NULL
    <3>2. CountUsers(Refs, Fillers', t) = CountUsers(Refs, Fillers, t)
      BY <1>14, <2>2, <2>4, <3>1
    <3>3. (\E d \in Envs : Fillers[d] = t) => \E d \in Envs : Fillers'[d] = t
      BY <1>14, <3>1
    <3>4. QED
      BY <3>1, <3>2, <3>3 DEF ObjectOK
  <2>5. QED
    BY <2>3, <2>4
<1>18. IdsOK(pb, Noted, held, Fillers')
  <2>1. SUFFICES ASSUME NEW d \in Envs, NEW wa \in Area
                 PROVE  IdOK(Noted[<<d, wa>>], held[d][wa], pb, Fillers')
    BY DEF IdsOK
  <2>2. IdOK(Noted[<<d, wa>>], held[d][wa], obj, Fillers) /\ Noted[<<d, wa>>] = ids[d][wa]
    BY DEF GoodInv, IdsOK, Noted, Pages
  <2>3. CASE ids[d][wa] # NULL
    <3>1. ids[d][wa] \in Addresses /\ ids[d][wa] # s
      BY <1>2, <2>3, NotedIs
    <3>2. QED
      BY <1>7, <1>14, <2>2, <2>3, <3>1 DEF IdOK
  <2>4. CASE ids[d][wa] = NULL
    BY <2>2, <2>4 DEF IdOK
  <2>5. QED
    BY <2>3, <2>4
<1>19. CallsApart(op')
  BY <1>5, <1>9, <1>10, CallsApartOn
<1>20. CallsOK(op', pb, ids, held)
  <2>1. \A d \in Envs : d # e => CallOK(d, op[d], pb, ids[d], held[d])
    BY <1>2, <1>4, <1>6, <1>7, OtherCalls
  <2>2. CallOK(e, rec, pb, ids[e], held[e])
    BY <1>2, <1>4, <1>6, <1>7, <1>10 DEF CallOK, Filling, IsShare
  <2>3. QED
    BY <1>11, <2>1, <2>2 DEF CallsOK
<1>21. AllFresh(op', mm.pt, ids)
  <2>1. Fresh(e, rec, mm.pt, ids[e])
    BY <1>1, <1>3, <1>10 DEF Fresh
  <2>2. QED
    BY <1>11, <2>1 DEF GoodInv, AllFresh
<1>22. HomesOK(mm.pt, pb, Homes)
  <2>1. ASSUME NEW d \in Envs, NEW wa \in Area, Homes[<<d, wa>>] # NULL
        PROVE  Alike(obj[Homes[<<d, wa>>]], pb[Homes[<<d, wa>>]])
    <3>1. Homes[<<d, wa>>] \in Addresses /\ Homes[<<d, wa>>] # s
      BY <1>2, <2>1, HomeIs
    <3>2. QED
      BY <1>7, <3>1 DEF Alike
  <2>2. QED
    BY <2>1, SameHomes DEF GoodInv
<1>23. QED
  BY <1>1, <1>12, <1>13, <1>15, <1>16, <1>17, <1>18, <1>19, <1>20, <1>21, <1>22 DEF GoodInv

\* Objects that differ in their references.
AllAlike(ob, pb) == \A s \in Addresses : Alike(ob[s], pb[s])

\* The list, the calls and the notes do not look at the references.
LEMMA AlikeKeeps ==
  ASSUME NEW ob, NEW pb, AllAlike(ob, pb)
  PROVE  /\ \A list : ListOK(ob, list) => ListOK(pb, list)
         /\ \A d, c, noted, keys : CallOK(d, c, ob, noted, keys) => CallOK(d, c, pb, noted, keys)
         /\ \A id, key, fillers : id \in 0 .. NShares /\ IdOK(id, key, ob, fillers)
                                    => IdOK(id, key, pb, fillers)
<1>1. \A s \in Addresses : /\ pb[s].live = ob[s].live /\ pb[s].key = ob[s].key
                           /\ pb[s].size = ob[s].size
  BY DEF AllAlike, Alike
<1>2. \A list : ListOK(ob, list) => ListOK(pb, list)
  BY <1>1 DEF ListOK
<1>3. ASSUME NEW d, NEW c, NEW noted, NEW keys, CallOK(d, c, ob, noted, keys)
      PROVE  CallOK(d, c, pb, noted, keys)
  BY <1>1, <1>3, OtherCall
<1>4. ASSUME NEW id, NEW key, NEW fillers, id \in 0 .. NShares, IdOK(id, key, ob, fillers)
      PROVE  IdOK(id, key, pb, fillers)
  <2>1. id # NULL => id \in Addresses
    BY <1>4 DEF NULL, Addresses
  <2>2. QED
    BY <1>1, <1>4, <2>1 DEF IdOK
<1>5. QED
  BY <1>2, <1>3, <1>4

\* A step that changes the reference of one page, and the count of the object with it.
LEMMA RefsMove ==
  ASSUME GoodInv, NEW e \in Envs, NEW va \in Area, NEW pb, AllAlike(obj, pb),
         NEW noted, NEW refs, SameButAt(Refs, refs, e, va),
         \A t \in Addresses : obj[t].live =>
           pb[t].refs = obj[t].refs + (IF refs[<<e, va>>] = t THEN 1 ELSE 0)
                                    - (IF Refs[<<e, va>>] = t THEN 1 ELSE 0),
         \A t \in Addresses : obj[t].live /\ (\E u \in Pages : Noted[u] = t)
                                => \E u \in Pages : noted[u] = t
  PROVE  ObjectsOK(pb, noted, refs, Fillers)
<1>1. SUFFICES ASSUME NEW t \in Addresses, pb[t].live
               PROVE  ObjectOK(pb[t], t, noted, refs, Fillers)
  BY DEF ObjectsOK
<1>2. Alike(obj[t], pb[t])
  BY DEF AllAlike
<1>3. obj[t].live
  BY <1>1, <1>2 DEF Alike
<1>4. ObjectOK(obj[t], t, Noted, Refs, Fillers)
  BY <1>3 DEF GoodInv, ObjectsOK
<1>5. SameElse(Fillers, Fillers, Envs, e)
  BY DEF SameElse
<1>6. UsersMove(Refs, refs, Fillers, Fillers, e, va, t)
  BY <1>5, CountUsersStep
<1>7. pb[t].refs = CountUsers(refs, Fillers, t)
  BY <1>3, <1>4, <1>6 DEF UsersMove, ObjectOK
<1>8. (\E u \in Pages : Noted[u] = t) => \E u \in Pages : noted[u] = t
  BY <1>3
<1>9. QED
  BY <1>2, <1>4, <1>7, <1>8 DEF ObjectOK, Alike

\* A page that is given or given up.
Gives(e, va, s, k) == ids' = [ids EXCEPT ![e][va] = s] /\ held' = [held EXCEPT ![e][va] = k]
Given(e, va, s, k) ==
  /\ ids' \in [Envs -> [Area -> 0 .. NShares]]
  /\ held' \in [Envs -> [Area -> Keys \union {NoKey}]]
  /\ ids'[e][va] = s /\ held'[e][va] = k
  /\ \A wa \in Area : wa # va => ids'[e][wa] = ids[e][wa] /\ held'[e][wa] = held[e][wa]
  /\ \A d \in Envs : d # e => ids'[d] = ids[d] /\ held'[d] = held[d]
  /\ SameButAt(Noted, Noted', e, va) /\ Noted'[<<e, va>>] = s /\ Noted[<<e, va>>] = ids[e][va]

\* noteStartAddress() and its undoing change what one page of the program notes.
LEMMA OneId ==
  ASSUME GoodInv, NEW e \in Envs, NEW va \in Area, NEW s \in 0 .. NShares,
         NEW k \in Keys \union {NoKey},
         Gives(e, va, s, k)
  PROVE  Given(e, va, s, k)
<1>1. /\ ids \in [Envs -> [Area -> 0 .. NShares]]
      /\ held \in [Envs -> [Area -> Keys \union {NoKey}]]
  BY DEF GoodInv, SType
<1>2. /\ ids' \in [Envs -> [Area -> 0 .. NShares]]
      /\ ids'[e][va] = s
      /\ \A wa \in Area : wa # va => ids'[e][wa] = ids[e][wa]
      /\ \A d \in Envs : d # e => ids'[d] = ids[d]
  BY <1>1 DEF Gives
<1>3. /\ held' \in [Envs -> [Area -> Keys \union {NoKey}]]
      /\ held'[e][va] = k
      /\ \A wa \in Area : wa # va => held'[e][wa] = held[e][wa]
      /\ \A d \in Envs : d # e => held'[d] = held[d]
  BY <1>1 DEF Gives
<1>4. SameButAt(Noted, Noted', e, va) /\ Noted'[<<e, va>>] = s /\ Noted[<<e, va>>] = ids[e][va]
  BY <1>2 DEF SameButAt, Noted, Pages
<1>5. QED
  BY <1>2, <1>3, <1>4 DEF Given

\* The end of a call, or a step of it, that changes references only.
LEMMA RefsMoves ==
  ASSUME GoodInv, NEW e \in Envs, NEW rec \in Calls, op' = [op EXCEPT ![e] = rec],
         UNCHANGED <<mm, tables, shares>>, AllAlike(obj, obj'), obj' \in [Addresses -> Shares],
         NEW va \in Area, NEW s \in 0 .. NShares, NEW k \in Keys \union {NoKey},
         Gives(e, va, s, k), IdOK(s, k, obj, Fillers), CallsApart(op'),
         Homes' = Homes, Fillers' = Fillers,
         CallOK(e, rec, obj, ids'[e], held'[e]), Fresh(e, rec, mm.pt, ids'[e]),
         ObjectsOK(obj', Noted', Refs', Fillers)
  PROVE  GoodInv'
<1>1. op \in [Envs -> Calls] /\ ids \in [Envs -> [Area -> 0 .. NShares]]
  BY DEF GoodInv, SType
<1>2. op'[e] = rec /\ \A d \in Envs : d # e => op'[d] = op[d]
  BY <1>1
<1>3. Given(e, va, s, k)
  BY OneId
<1>4. SType'
  BY <1>1, <1>3 DEF GoodInv, SType, Given
<1>5. ListOK(obj', shares')
  BY AlikeKeeps DEF GoodInv
<1>6. IdsOK(obj', Noted', held', Fillers)
  <2>1. SUFFICES ASSUME NEW d \in Envs, NEW wa \in Area
                 PROVE  IdOK(Noted'[<<d, wa>>], held'[d][wa], obj', Fillers)
    BY DEF IdsOK
  <2>2. CASE d = e /\ wa = va
    BY <1>3, <2>2, AlikeKeeps DEF Given
  <2>3. CASE d # e \/ wa # va
    <3>1. Noted'[<<d, wa>>] = Noted[<<d, wa>>] /\ held'[d][wa] = held[d][wa]
      BY <1>3, <2>3 DEF SameButAt, Given
    <3>2. Noted[<<d, wa>>] \in 0 .. NShares
      BY <1>1 DEF Noted, Pages
    <3>3. IdOK(Noted[<<d, wa>>], held[d][wa], obj, Fillers)
      BY DEF GoodInv, IdsOK
    <3>4. IdOK(Noted[<<d, wa>>], held[d][wa], obj', Fillers)
      BY <3>2, <3>3, AlikeKeeps
    <3>5. QED
      BY <3>1, <3>4
  <2>4. QED
    BY <2>2, <2>3
<1>7. CallsOK(op', obj', ids', held')
  <2>1. \A d \in Envs : d # e => CallOK(d, op[d], obj, ids[d], held[d])
    BY DEF GoodInv, CallsOK
  <2>2. \A d \in Envs : CallOK(d, op'[d], obj, ids'[d], held'[d])
    BY <1>2, <1>3, <2>1 DEF Given
  <2>3. QED
    BY <2>2, AlikeKeeps DEF CallsOK
<1>8. AllFresh(op', mm.pt, ids')
  BY <1>2, <1>3 DEF GoodInv, AllFresh, Given
<1>9. HomesOK(mm.pt, obj', Homes)
  <2>1. ASSUME NEW d \in Envs, NEW wa \in Area, Homes[<<d, wa>>] # NULL
        PROVE  Alike(obj[Homes[<<d, wa>>]], obj'[Homes[<<d, wa>>]])
    BY <2>1, HomeIs DEF AllAlike
  <2>2. QED
    BY <2>1, SameHomes DEF GoodInv
<1>10. QED
  BY <1>4, <1>5, <1>6, <1>7, <1>8, <1>9 DEF GoodInv

\* The references of one object change.
Referred(ob, pb, s, n) ==
  /\ AllAlike(ob, pb) /\ pb \in [Addresses -> Shares] /\ pb[s].refs = n
  /\ \A t \in Addresses : t # s => pb[t] = ob[t]

\* A change of the references is such a change.
LEMMA RefsOnly ==
  ASSUME GoodInv, NEW s \in Addresses, NEW n \in Int
  PROVE  Referred(obj, [obj EXCEPT ![s].refs = n], s, n)
<1> DEFINE pb == [obj EXCEPT ![s].refs = n]
           o  == [obj[s] EXCEPT !.refs = n]
<1>1. obj \in [Addresses -> Shares] /\ obj[s] \in Shares
  BY DEF GoodInv, SType
<1>2. o \in Shares /\ Alike(obj[s], o) /\ o.refs = n
  BY <1>1 DEF Shares, Alike
<1> HIDE DEF o
<1>3. pb = [obj EXCEPT ![s] = o]
  BY <1>1 DEF o
<1> HIDE DEF pb
<1>4. pb[s] = o /\ (\A t \in Addresses : t # s => pb[t] = obj[t]) /\ pb \in [Addresses -> Shares]
  BY <1>1, <1>2, <1>3
<1>5. \A t \in Addresses : t # s => Alike(obj[t], pb[t])
  BY <1>4 DEF Alike
<1>6. QED
  BY <1>2, <1>4, <1>5 DEF Referred, AllAlike, pb

\* A call that has ended.
LEMMA IdleIsCall ==
  /\ Idle \in Calls /\ Idle.key = NoKey /\ Idle.call = "no" /\ Idle.at = "no"
  /\ \A e, ob, noted, keys, pt : CallOK(e, Idle, ob, noted, keys) /\ Fresh(e, Idle, pt, noted)
<1>1. NArea \in Nat /\ NShares \in Nat
  BY SharingAssumption
<1>2. Idle \in Calls
  BY <1>1 DEF Idle, Calls, NULL
<1>3. QED
  BY <1>2 DEF Idle, CallOK, Fresh

\* Nobody creates the object that sget() or sfree() is about.
LEMMA NobodyFills ==
  ASSUME GoodInv, NEW e \in Envs, op[e] # Idle, op[e].call # "smalloc", NEW s, obj[s].key = op[e].key
  PROVE  \A d \in Envs : Fillers[d] # NULL => Fillers[d] # s
<1>1. SUFFICES ASSUME NEW d \in Envs, Fillers[d] # NULL, Fillers[d] = s
               PROVE  FALSE
  OBVIOUS
<1>2. op[d].call = "smalloc" /\ op[d].key = op[e].key
  BY <1>1, FillerIs
<1>3. QED
  BY <1>2, NobodyElse

\* sget() counts the new user, and the program gets the address.
LEMMA CountShareStep ==
  ASSUME GoodInv, NEW e \in Envs, CountShare(e)
  PROVE  GoodInv'
<1> DEFINE c  == op[e]
           s  == c.ptr
           va == c.va
           k  == c.key
<1>1. /\ c.at = "count" /\ obj' = [obj EXCEPT ![s].refs = @ + 1]
      /\ op' = [op EXCEPT ![e] = Idle] /\ Gives(e, va, s, k)
      /\ UNCHANGED <<mm, tables, shares>>
  BY DEF CountShare, At, Give, Gives, Return
<1>2. Mapping(c, obj) /\ Fresh(e, c, mm.pt, ids[e])
  BY <1>1, CallAt
<1>3. /\ c.call = "sget" /\ c # Idle /\ k \in Keys /\ va \in Area /\ ids[e][va] = NULL
      /\ s \in Addresses /\ s # NULL /\ s \in 0 .. NShares
      /\ obj[s].live /\ obj[s].key = k
  BY <1>2 DEF Mapping, Fresh, IsShare, Idle, NULL, Addresses
<1>4. /\ op \in [Envs -> Calls] /\ CallsApart(op) /\ obj \in [Addresses -> Shares]
      /\ obj[s].refs + 1 \in Int
  BY <1>3 DEF GoodInv, SType, Shares
<1> DEFINE n == obj[s].refs + 1
<1>5. Referred(obj, obj', s, n)
  <2>1. obj' = [obj EXCEPT ![s].refs = n]
    BY <1>1, <1>3, <1>4
  <2> HIDE DEF s, n
  <2>2. QED
    BY <1>3, <1>4, <2>1, RefsOnly DEF n
<1>6. op'[e] = Idle /\ \A d \in Envs : d # e => op'[d] = op[d]
  BY <1>1, <1>4
<1>7. Given(e, va, s, k)
  BY <1>1, <1>3, OneId
<1>8. \A d \in Envs : Fillers[d] # s
  BY <1>3, NobodyFills
<1>9. IdOK(s, k, obj, Fillers)
  BY <1>3, <1>8, KeyGiven DEF IdOK
<1> HIDE DEF c, s, va, k
<1>10. Homes' = Homes
  <2>1. \A d \in Envs, wa \in Area : Homes'[<<d, wa>>] = Homes[<<d, wa>>]
    <3>1. ASSUME NEW d \in Envs, NEW wa \in Area
          PROVE  Homes'[<<d, wa>>] = Homes[<<d, wa>>]
      <4>1. <<d, wa>> \in Pages
        BY DEF Pages
      <4>2. CASE d # e
        BY <1>6, <1>7, <4>1, <4>2 DEF Homes, Given
      <4>3. CASE d = e /\ wa # va
        BY <1>6, <1>7, <4>1, <4>3 DEF Homes, Given, Idle, c, va
      <4>4. CASE d = e /\ wa = va
        BY <1>1, <1>6, <1>7, <4>1, <4>4 DEF Homes, Given, Idle, c, va, s
      <4>5. QED
        BY <4>2, <4>3, <4>4
    <3>2. QED
      BY <3>1
  <2>2. \A u \in Pages : Homes'[u] = Homes[u]
    BY <2>1 DEF Pages
  <2>3. IsPageMap(Homes) /\ IsPageMap(Homes')
    BY DEF Homes, IsPageMap
  <2>4. QED
    BY <2>2, <2>3 DEF IsPageMap
<1>11. Fillers' = Fillers
  <2>1. op'[e].call # "smalloc" /\ op[e].call # "smalloc"
    BY <1>3, <1>6 DEF Idle, c
  <2>2. QED
    BY <1>6, <2>1 DEF Fillers
<1>12. SameButAt(Refs, Refs', e, va) /\ Refs[<<e, va>>] = NULL /\ Refs'[<<e, va>>] = s
  <2>1. <<e, va>> \in Pages /\ \A d \in Envs, wa \in Area : <<d, wa>> \in Pages
    BY <1>3 DEF Pages
  <2>2. Refs'[<<e, va>>] = s
    BY <1>3, <1>6, <1>7, <2>1 DEF Refs, Given, Idle
  <2>3. Refs[<<e, va>>] = NULL
    BY <1>3, <2>1 DEF Refs
  <2>4. ASSUME NEW d \in Envs, NEW wa \in Area, d # e \/ wa # va
        PROVE  Refs'[<<d, wa>>] = Refs[<<d, wa>>]
    <3>1. CASE d # e
      BY <1>6, <1>7, <2>1, <3>1 DEF Refs, Given
    <3>2. CASE d = e
      BY <1>1, <1>6, <1>7, <2>1, <2>4, <3>2 DEF Refs, Given, Idle, c, va
    <3>3. QED
      BY <3>1, <3>2
  <2>5. QED
    BY <2>2, <2>3, <2>4 DEF SameButAt
<1>13. ObjectsOK(obj', Noted', Refs', Fillers)
  <2>1. \A t \in Addresses : obj[t].live =>
           obj'[t].refs = obj[t].refs + (IF Refs'[<<e, va>>] = t THEN 1 ELSE 0)
                                      - (IF Refs[<<e, va>>] = t THEN 1 ELSE 0)
    <3>1. \A t \in Addresses : t # NULL /\ obj[t].refs \in Int
      BY <1>4 DEF Addresses, NULL, Shares
    <3>2. QED
      BY <1>5, <1>12, <3>1 DEF Referred, n
  <2>2. \A t \in Addresses : obj[t].live /\ (\E u \in Pages : Noted[u] = t)
                               => \E u \in Pages : Noted'[u] = t
    <3>1. ASSUME NEW t \in Addresses, NEW u \in Pages, Noted[u] = t
          PROVE  Noted'[u] = t
      <4>1. PICK d \in Envs, wa \in Area : u = <<d, wa>>
        BY DEF Pages
      <4>2. d # e \/ wa # va
        <5>1. Noted[<<e, va>>] = NULL /\ t # NULL
          BY <1>3, <1>7 DEF Given, Addresses, NULL
        <5>2. QED
          BY <3>1, <4>1, <5>1
      <4>3. QED
        BY <1>7, <3>1, <4>1, <4>2 DEF Given, SameButAt
    <3>2. QED
      BY <3>1
  <2>3. AllAlike(obj, obj')
    BY <1>5 DEF Referred
  <2>4. QED
    BY <1>3, <1>12, <2>1, <2>2, <2>3, RefsMove
<1>14. CallsApart(op')
  BY <1>1, <1>4, IdleIsCall, CallsApartOn
<1>15. AllAlike(obj, obj') /\ obj' \in [Addresses -> Shares]
  BY <1>5 DEF Referred
<1>16. QED
  BY <1>1, <1>3, <1>9, <1>10, <1>11, <1>13, <1>14, <1>15, IdleIsCall, RefsMoves

\* Two maps of the pages are the same.
LEMMA SamePages ==
  ASSUME NEW f, NEW g, IsPageMap(f), IsPageMap(g),
         \A d \in Envs, wa \in Area : g[<<d, wa>>] = f[<<d, wa>>]
  PROVE  g = f
<1>1. \A u \in Pages : g[u] = f[u]
  BY DEF Pages
<1>2. QED
  BY <1>1 DEF IsPageMap

\* What an sfree() is about, until its end.
LEMMA FreeingIs ==
  ASSUME GoodInv, NEW e \in Envs, op[e].at \in {"unmap", "drop", "test"}
  PROVE  /\ op[e].call = "sfree" /\ op[e] # Idle /\ op[e].va \in Area
         /\ ids[e][op[e].va] = op[e].ptr /\ held[e][op[e].va] = op[e].key
         /\ op[e].ptr \in Addresses /\ op[e].ptr \in 0 .. NShares /\ op[e].ptr # NULL
         /\ obj[op[e].ptr].live /\ obj[op[e].ptr].key = op[e].key
         /\ op[e].key \in Keys \union {NoKey} /\ op[e].key # NoKey
         /\ \A d \in Envs : Fillers[d] # op[e].ptr
<1>1. Freeing(op[e], ids[e], held[e])
  BY CallAt
<1>2. /\ op[e].call = "sfree" /\ op[e] # Idle /\ op[e].va \in Area
      /\ ids[e][op[e].va] = op[e].ptr /\ held[e][op[e].va] = op[e].key /\ op[e].ptr # NULL
  BY <1>1 DEF Freeing, Idle
<1>3. op[e] \in Calls
  BY DEF GoodInv, SType
<1>4. op[e].key \in Keys \union {NoKey} /\ op[e].ptr \in 0 .. NShares
  BY <1>3 DEF Calls
<1>5. QED
  BY <1>2, <1>4, NotedIs

\* sfree() drops its reference.
LEMMA DropShareStep ==
  ASSUME GoodInv, NEW e \in Envs, DropShare(e)
  PROVE  GoodInv'
<1> DEFINE c  == op[e]
           s  == c.ptr
           va == c.va
           k  == c.key
           n  == obj[s].refs - 1
           rec == [c EXCEPT !.at = "test"]
<1>1. /\ c.at = "drop" /\ obj' = [obj EXCEPT ![s].refs = @ - 1]
      /\ op' = [op EXCEPT ![e].at = "test"]
      /\ UNCHANGED <<mm, tables, shares, ids, held>>
  BY DEF DropShare, At, Goto
<1>2. /\ c.call = "sfree" /\ c # Idle /\ va \in Area /\ ids[e][va] = s /\ held[e][va] = k
      /\ s \in Addresses /\ s \in 0 .. NShares /\ s # NULL /\ obj[s].live
      /\ k \in Keys \union {NoKey} /\ \A d \in Envs : Fillers[d] # s
  BY <1>1, FreeingIs
<1>3. /\ op \in [Envs -> Calls] /\ c \in Calls /\ CallsApart(op) /\ obj \in [Addresses -> Shares]
      /\ obj[s].refs - 1 \in Int
      /\ ids \in [Envs -> [Area -> 0 .. NShares]] /\ held \in [Envs -> [Area -> Keys \union {NoKey}]]
  BY <1>2 DEF GoodInv, SType, Shares
<1>4. Referred(obj, obj', s, n)
  <2>1. obj' = [obj EXCEPT ![s].refs = n]
    BY <1>1, <1>2, <1>3
  <2> HIDE DEF s, n
  <2>2. QED
    BY <1>2, <1>3, <2>1, RefsOnly DEF n
<1>5. op' = [op EXCEPT ![e] = rec]
  BY <1>1, <1>3
<1>6. /\ rec \in Calls /\ rec.call = "sfree" /\ rec.key = k /\ rec.va = va /\ rec.ptr = s
      /\ rec.at = "test"
  BY <1>2, <1>3 DEF Calls
<1> HIDE DEF rec, c, s, va, k
<1>7. Gives(e, va, s, k)
  BY <1>1, <1>2, <1>3 DEF Gives
<1>8. op'[e] = rec /\ \A d \in Envs : d # e => op'[d] = op[d]
  BY <1>3, <1>5
<1>9. /\ op[e].at = "drop" /\ op[e].va = va /\ op[e].call = "sfree"
      /\ op'[e].at = "test" /\ op'[e].va = va /\ op'[e].call = "sfree" /\ ids' = ids
      /\ \A d \in Envs : d # e => op'[d] = op[d]
  BY <1>1, <1>2, <1>6, <1>8 DEF c, va
<1>10. Homes' = Homes /\ Fillers' = Fillers /\ Noted' = Noted
  <2>1. Homes' = Homes
    BY <1>9 DEF Homes, Pages
  <2>2. QED
    BY <1>9, <2>1 DEF Fillers, Noted
<1>11. SameButAt(Refs, Refs', e, va) /\ Refs[<<e, va>>] = s /\ Refs'[<<e, va>>] = NULL
  BY <1>2, <1>9 DEF Refs, Pages, SameButAt
<1>12. ObjectsOK(obj', Noted', Refs', Fillers)
  <2>1. \A t \in Addresses : obj[t].live =>
           obj'[t].refs = obj[t].refs + (IF Refs'[<<e, va>>] = t THEN 1 ELSE 0)
                                      - (IF Refs[<<e, va>>] = t THEN 1 ELSE 0)
    <3>1. \A t \in Addresses : t # NULL /\ obj[t].refs \in Int
      <4>1. obj \in [Addresses -> Shares]
        BY <1>3
      <4>2. QED
        BY <4>1 DEF Addresses, NULL, Shares
    <3>2. QED
      BY <1>4, <1>11, <3>1 DEF Referred, n
  <2>2. \A t \in Addresses : obj[t].live /\ (\E u \in Pages : Noted[u] = t)
                               => \E u \in Pages : Noted'[u] = t
    BY <1>10
  <2>3. AllAlike(obj, obj')
    BY <1>4 DEF Referred
  <2>4. QED
    BY <1>2, <1>11, <2>1, <2>2, <2>3, RefsMove
<1>13. CallsApart(op')
  BY <1>2, <1>3, <1>5, <1>6, CallsApartOn DEF c, k
<1>14. AllAlike(obj, obj') /\ obj' \in [Addresses -> Shares]
  BY <1>4 DEF Referred
<1>15. IdOK(s, k, obj, Fillers)
  BY <1>2, NotedIs DEF IdOK
<1>16. CallOK(e, rec, obj, ids'[e], held'[e]) /\ Fresh(e, rec, mm.pt, ids'[e])
  BY <1>1, <1>2, <1>6 DEF CallOK, Freeing, Fresh
<1>17. QED
  BY <1>1, <1>2, <1>5, <1>6, <1>7, <1>10, <1>12, <1>13, <1>14, <1>15, <1>16, RefsMoves

\* sfree() forgets the page: as home and as reference it was given up before.
LEMMA TestShareMaps ==
  ASSUME GoodInv, NEW e \in Envs, TestShare(e)
  PROVE  /\ op[e].at = "test" /\ op' = [op EXCEPT ![e] = Idle] /\ CallsApart(op')
         /\ op'[e] = Idle /\ \A d \in Envs : d # e => op'[d] = op[d]
         /\ Gives(e, op[e].va, NULL, NoKey) /\ UNCHANGED <<mm, tables>>
         /\ Homes' = Homes /\ Refs' = Refs /\ Fillers' = Fillers /\ Given(e, op[e].va, NULL, NoKey)
         /\ Refs[<<e, op[e].va>>] = NULL
<1> DEFINE va == op[e].va
<1>1. /\ op[e].at = "test" /\ op' = [op EXCEPT ![e] = Idle] /\ Gives(e, va, NULL, NoKey)
      /\ UNCHANGED <<mm, tables>>
  BY DEF TestShare, At, Return, Gives, NULL
<1>2. op[e].call = "sfree" /\ va \in Area
  BY <1>1, FreeingIs
<1>3. op \in [Envs -> Calls] /\ CallsApart(op) /\ NULL \in 0 .. NShares
  BY SharingAssumption DEF GoodInv, SType, NULL
<1>4. op'[e] = Idle /\ \A d \in Envs : d # e => op'[d] = op[d]
  BY <1>1, <1>3
<1>5. CallsApart(op')
  BY <1>1, <1>3, IdleIsCall, CallsApartOn
<1>6. Given(e, va, NULL, NoKey)
  BY <1>1, <1>2, <1>3, OneId
<1> HIDE DEF va
<1>7. ASSUME NEW d \in Envs, NEW wa \in Area
      PROVE  Homes'[<<d, wa>>] = Homes[<<d, wa>>] /\ Refs'[<<d, wa>>] = Refs[<<d, wa>>]
  <2>1. <<d, wa>> \in Pages
    BY DEF Pages
  <2>2. CASE d # e
    BY <1>4, <1>6, <2>1, <2>2 DEF Homes, Refs, Given
  <2>3. CASE d = e /\ wa # va
    BY <1>4, <1>6, <2>1, <2>3 DEF Homes, Refs, Given, Idle, va
  <2>4. CASE d = e /\ wa = va
    BY <1>1, <1>4, <1>6, <2>1, <2>4 DEF Homes, Refs, Given, Idle, va
  <2>5. QED
    BY <2>2, <2>3, <2>4
<1>8. Homes' = Homes
  <2>1. IsPageMap(Homes) /\ IsPageMap(Homes')
    BY DEF Homes, IsPageMap
  <2>2. QED
    BY <1>7, <2>1, SamePages
<1>9. Refs' = Refs
  <2>1. IsPageMap(Refs) /\ IsPageMap(Refs')
    BY DEF Refs, IsPageMap
  <2>2. QED
    BY <1>7, <2>1, SamePages
<1>10. Fillers' = Fillers
  <2>1. op'[e].call # "smalloc" /\ op[e].call # "smalloc"
    BY <1>2, <1>4 DEF Idle
  <2>2. QED
    BY <1>4, <2>1 DEF Fillers
<1>11. Refs[<<e, va>>] = NULL
  BY <1>1, <1>2 DEF Refs, Pages, va
<1>12. QED
  BY <1>1, <1>4, <1>5, <1>6, <1>8, <1>9, <1>10, <1>11 DEF va

\* Others still use the object.
LEMMA TestShareStays ==
  ASSUME GoodInv, NEW e \in Envs, TestShare(e), obj[op[e].ptr].refs # 0
  PROVE  GoodInv'
<1> DEFINE s  == op[e].ptr
           va == op[e].va
<1>1. /\ op[e].at = "test" /\ op' = [op EXCEPT ![e] = Idle] /\ CallsApart(op')
      /\ op'[e] = Idle /\ \A d \in Envs : d # e => op'[d] = op[d]
      /\ Gives(e, va, NULL, NoKey) /\ UNCHANGED <<mm, tables>>
      /\ Homes' = Homes /\ Refs' = Refs /\ Fillers' = Fillers /\ Given(e, va, NULL, NoKey)
      /\ Refs[<<e, va>>] = NULL
  BY TestShareMaps
<1>2. /\ va \in Area /\ ids[e][va] = s /\ s \in Addresses /\ s # NULL /\ obj[s].live
      /\ \A d \in Envs : Fillers[d] # s
  BY <1>1, FreeingIs
<1>3. obj' = obj /\ shares' = shares
  BY DEF TestShare
<1>4. obj[s].refs # 0
  OBVIOUS
<1> HIDE DEF s, va
<1>5. \E u \in Pages : Refs[u] = s
  <2>1. ObjectOK(obj[s], s, Noted, Refs, Fillers)
    BY <1>2 DEF GoodInv, ObjectsOK
  <2>2. CountUsers(Refs, Fillers, s) # 0
    BY <1>4, <2>1 DEF ObjectOK
  <2>3. QED
    BY <1>2, <2>2, NoUsers
<1>6. AllAlike(obj, obj') /\ obj' \in [Addresses -> Shares] /\ NULL \in 0 .. NShares
  BY <1>3, SharingAssumption DEF AllAlike, Alike, GoodInv, SType, NULL
<1>7. ObjectsOK(obj', Noted', Refs', Fillers)
  <2>1. \A t \in Addresses : obj[t].live =>
           obj'[t].refs = obj[t].refs + (IF Refs'[<<e, va>>] = t THEN 1 ELSE 0)
                                      - (IF Refs[<<e, va>>] = t THEN 1 ELSE 0)
    <3>1. \A t \in Addresses : t # NULL
      BY DEF Addresses, NULL
    <3>2. \A t \in Addresses : obj[t].refs \in Int
      BY DEF GoodInv, SType, Shares
    <3>3. QED
      BY <1>1, <1>3, <3>1, <3>2
  <2>2. \A t \in Addresses : obj[t].live /\ (\E u \in Pages : Noted[u] = t)
                               => \E u \in Pages : Noted'[u] = t
    <3>1. SUFFICES ASSUME NEW t \in Addresses, NEW u \in Pages, Noted[u] = t
                   PROVE  \E v \in Pages : Noted'[v] = t
      OBVIOUS
    <3>2. PICK d \in Envs, wa \in Area : u = <<d, wa>>
      BY DEF Pages
    <3>3. CASE d # e \/ wa # va
      BY <1>1, <3>1, <3>2, <3>3 DEF Given, SameButAt
    <3>4. CASE d = e /\ wa = va
      <4>1. t = s
        BY <1>1, <1>2, <3>1, <3>2, <3>4 DEF Given
      <4>2. PICK x \in Pages : Refs[x] = s
        BY <1>5
      <4>3. PICK xd \in Envs, xa \in Area : x = <<xd, xa>>
        BY DEF Pages
      <4>4. xd # e \/ xa # va
        BY <1>1, <1>2, <4>2, <4>3
      <4>5. Noted[<<xd, xa>>] = s
        BY <1>2, <4>2, <4>3 DEF Refs, Noted
      <4>6. Noted'[x] = s
        BY <1>1, <4>3, <4>4, <4>5 DEF Given, SameButAt
      <4>7. QED
        BY <4>1, <4>6
    <3>5. QED
      BY <3>3, <3>4
  <2>3. SameButAt(Refs, Refs', e, va)
    BY <1>1 DEF SameButAt
  <2>4. QED
    BY <1>2, <1>6, <2>1, <2>2, <2>3, RefsMove
<1>8. IdOK(NULL, NoKey, obj, Fillers)
  BY DEF IdOK
<1>9. NoKey \in Keys \union {NoKey}
  OBVIOUS
<1>10. shares' = shares /\ UNCHANGED <<mm, tables, shares>>
  BY <1>1, <1>3
<1>11. QED
  BY <1>1, <1>2, <1>6, <1>7, <1>8, <1>9, <1>10, IdleIsCall, RefsMoves

\* When no reference is left, only this page still notes the object, and no
\* environment has its frames.
LEMMA LastUser ==
  ASSUME GoodInv, NEW e \in Envs, op[e].at = "test", obj[op[e].ptr].refs = 0
  PROVE  /\ \A d \in Envs, wa \in Area :
              ids[d][wa] = op[e].ptr => d = e /\ wa = op[e].va
         /\ \A d \in Envs, wa \in Area : Homes[<<d, wa>>] # op[e].ptr
<1> DEFINE s  == op[e].ptr
           va == op[e].va
<1>1. /\ op[e].call = "sfree" /\ op[e] # Idle /\ s \in Addresses /\ s # NULL /\ obj[s].live
      /\ obj[s].key = op[e].key
  BY FreeingIs
<1>2. \A u \in Pages : Refs[u] # s
  <2>1. ObjectOK(obj[s], s, Noted, Refs, Fillers)
    BY <1>1 DEF GoodInv, ObjectsOK
  <2>2. CountUsers(Refs, Fillers, s) = 0
    BY <2>1 DEF ObjectOK
  <2>3. QED
    BY <2>2, NoUsers
<1> HIDE DEF s, va
<1>3. ASSUME NEW d \in Envs, NEW wa \in Area, ids[d][wa] = s
      PROVE  d = e /\ wa = va
  <2>1. Refs[<<d, wa>>] # s /\ <<d, wa>> \in Pages
    BY <1>2 DEF Pages
  <2>2. op[d].va = wa /\ op[d].at = "test"
    BY <1>3, <2>1 DEF Refs
  <2>3. op[d].call = "sfree" /\ op[d].key = obj[s].key
    BY <1>1, <1>3, <2>2, FreeingIs, NotedIs
  <2>4. d = e
    BY <1>1, <2>3, NobodyElse
  <2>5. QED
    BY <2>2, <2>4 DEF va
<1>4. ASSUME NEW d \in Envs, NEW wa \in Area, Homes[<<d, wa>>] = s
      PROVE  FALSE
  <2>1. \/ ids[d][wa] = s /\ ~(op[d].va = wa /\ op[d].at \in {"drop", "test"})
        \/ op[d].call = "sget" /\ op[d].key = obj[s].key
    BY <1>1, <1>4, HomeIs
  <2>2. CASE op[d].call = "sget" /\ op[d].key = obj[s].key
    BY <1>1, <2>2, NobodyElse
  <2>3. CASE ids[d][wa] = s /\ ~(op[d].va = wa /\ op[d].at \in {"drop", "test"})
    BY <1>3, <2>3 DEF va
  <2>4. QED
    BY <2>1, <2>2, <2>3
<1>5. QED
  BY <1>3, <1>4 DEF s, va

\* The last user is gone, and so is the object.
LEMMA TestShareFrees ==
  ASSUME GoodInv, NEW e \in Envs, TestShare(e), obj[op[e].ptr].refs = 0
  PROVE  GoodInv'
<1> DEFINE s  == op[e].ptr
           va == op[e].va
<1>1. /\ op[e].at = "test" /\ op' = [op EXCEPT ![e] = Idle] /\ CallsApart(op')
      /\ op'[e] = Idle /\ \A d \in Envs : d # e => op'[d] = op[d]
      /\ Gives(e, va, NULL, NoKey) /\ UNCHANGED <<mm, tables>>
      /\ Homes' = Homes /\ Refs' = Refs /\ Fillers' = Fillers /\ Given(e, va, NULL, NoKey)
  BY TestShareMaps
<1>2. /\ va \in Area /\ ids[e][va] = s /\ s \in Addresses /\ s # NULL /\ obj[s].live
      /\ obj[s].key = op[e].key /\ op[e].call = "sfree" /\ op[e] # Idle
      /\ \A d \in Envs : Fillers[d] # s
  BY <1>1, FreeingIs
<1>3. obj' = [obj EXCEPT ![s] = FreeShare] /\ shares' = LIST_REMOVE(shares, s)
  BY DEF TestShare, free_share
<1>4. /\ \A d \in Envs, wa \in Area : ids[d][wa] = s => d = e /\ wa = va
      /\ \A d \in Envs, wa \in Area : Homes[<<d, wa>>] # s
  BY <1>1, LastUser
<1> HIDE DEF s, va
<1>5. /\ obj \in [Addresses -> Shares] /\ op \in [Envs -> Calls]
      /\ shares \in Seq(Addresses)
  BY DEF GoodInv, SType
<1>6. FreeShare \in Shares /\ ~FreeShare.live
  <2>1. <<>> \in Seq(0 .. FrameCount)
    OBVIOUS
  <2>2. QED
    BY <2>1 DEF FreeShare, Shares
<1>7. /\ obj' \in [Addresses -> Shares] /\ obj'[s] = FreeShare
      /\ \A t \in Addresses : t # s => obj'[t] = obj[t]
  BY <1>2, <1>3, <1>5, <1>6
<1>8. \A t \in Addresses : Count(shares, t) = IF obj[t].live THEN 1 ELSE 0
  BY DEF GoodInv, ListOK
<1>9. /\ shares' \in Seq(Addresses)
      /\ \A t \in Addresses : Count(shares', t) = Count(shares, t) - IF s = t THEN 1 ELSE 0
  <2>1. Count(shares, s) # 0
    BY <1>2, <1>8
  <2>2. QED
    BY <1>3, <1>5, <2>1, CountRemove
<1>10. SType'
  <2>1. op' \in [Envs -> Calls]
    BY <1>1, <1>5, IdleIsCall
  <2>2. mm' = mm /\ tables' = tables
    BY <1>1
  <2>3. ids' \in [Envs -> [Area -> 0 .. NShares]] /\ held' \in [Envs -> [Area -> Keys \union {NoKey}]]
    BY <1>1 DEF Given
  <2>4. QED
    BY <1>7, <1>9, <2>1, <2>2, <2>3 DEF GoodInv, SType
<1>11. ListOK(obj', shares')
  <2>1. ASSUME NEW t \in Addresses
        PROVE  Count(shares', t) = IF obj'[t].live THEN 1 ELSE 0
    <3>1. CASE t = s
      BY <1>2, <1>6, <1>7, <1>8, <1>9, <3>1
    <3>2. CASE t # s
      <4>1. Count(shares, t) \in Nat
        BY <1>8
      <4>2. QED
        BY <1>7, <1>8, <1>9, <3>2, <4>1
    <3>3. QED
      BY <3>1, <3>2
  <2>2. ASSUME NEW t \in Addresses, NEW r \in Addresses, obj'[t].live, obj'[r].live,
               obj'[t].key = obj'[r].key
        PROVE  t = r
    BY <1>6, <1>7, <2>2 DEF GoodInv, ListOK
  <2>3. QED
    BY <2>1, <2>2 DEF ListOK
<1>12. ObjectsOK(obj', Noted', Refs, Fillers)
  <2>1. SUFFICES ASSUME NEW t \in Addresses, obj'[t].live
                 PROVE  ObjectOK(obj'[t], t, Noted', Refs, Fillers)
    BY DEF ObjectsOK
  <2>2. t # s /\ obj'[t] = obj[t] /\ obj[t].live
    BY <1>6, <1>7, <2>1
  <2>3. ObjectOK(obj[t], t, Noted, Refs, Fillers)
    BY <2>2 DEF GoodInv, ObjectsOK
  <2>4. ASSUME NEW u \in Pages, Noted[u] = t
        PROVE  Noted'[u] = t
    <3>1. PICK d \in Envs, wa \in Area : u = <<d, wa>>
      BY DEF Pages
    <3>2. d # e \/ wa # va
      <4>1. Noted[<<e, va>>] = s
        BY <1>1, <1>2 DEF Given
      <4>2. QED
        BY <2>2, <2>4, <3>1, <4>1
    <3>3. QED
      BY <1>1, <2>4, <3>1, <3>2 DEF Given, SameButAt
  <2>5. QED
    BY <2>2, <2>3, <2>4 DEF ObjectOK
<1>13. IdsOK(obj', Noted', held', Fillers)
  <2>1. SUFFICES ASSUME NEW d \in Envs, NEW wa \in Area
                 PROVE  IdOK(Noted'[<<d, wa>>], held'[d][wa], obj', Fillers)
    BY DEF IdsOK
  <2>2. CASE d = e /\ wa = va
    <3>1. Noted'[<<d, wa>>] = NULL /\ held'[d][wa] = NoKey
      BY <1>1, <2>2 DEF Given
    <3>2. QED
      BY <3>1 DEF IdOK
  <2>3. CASE d # e \/ wa # va
    <3>1. Noted'[<<d, wa>>] = ids[d][wa] /\ held'[d][wa] = held[d][wa]
      <4>1. Noted'[<<d, wa>>] = Noted[<<d, wa>>] /\ held'[d][wa] = held[d][wa]
        BY <1>1, <2>3 DEF Given, SameButAt
      <4>2. QED
        BY <4>1 DEF Noted, Pages
    <3>2. IdOK(ids[d][wa], held[d][wa], obj, Fillers)
      <4>1. Noted[<<d, wa>>] = ids[d][wa]
        BY DEF Noted, Pages
      <4>2. QED
        BY <4>1 DEF GoodInv, IdsOK
    <3>3. ids[d][wa] # s
      BY <1>4, <2>3
    <3>4. ids[d][wa] # NULL => obj'[ids[d][wa]] = obj[ids[d][wa]]
      BY <1>7, <3>3, NotedIs
    <3>5. QED
      BY <3>1, <3>2, <3>4 DEF IdOK
  <2>4. QED
    BY <2>2, <2>3
<1>14. CallsOK(op', obj', ids', held')
  <2>1. \A d \in Envs : d # e => CallOK(d, op[d], obj', ids[d], held[d])
    BY <1>2, <1>6, <1>7, OtherCalls
  <2>2. CallOK(e, op'[e], obj', ids'[e], held'[e])
    BY <1>1, IdleIsCall
  <2>3. QED
    BY <1>1, <2>1, <2>2 DEF CallsOK, Given
<1>15. AllFresh(op', mm.pt, ids')
  <2>1. Fresh(e, op'[e], mm.pt, ids'[e])
    BY <1>1, IdleIsCall
  <2>2. QED
    BY <1>1, <2>1 DEF GoodInv, AllFresh, Given
<1>16. HomesOK(mm.pt, obj', Homes)
  <2>1. ASSUME NEW d \in Envs, NEW wa \in Area, Homes[<<d, wa>>] # NULL
        PROVE  Alike(obj[Homes[<<d, wa>>]], obj'[Homes[<<d, wa>>]])
    <3>1. Homes[<<d, wa>>] \in Addresses /\ Homes[<<d, wa>>] # s
      BY <1>4, <2>1, HomeIs
    <3>2. QED
      BY <1>7, <3>1 DEF Alike
  <2>2. QED
    BY <2>1, SameHomes DEF GoodInv
<1>17. QED
  BY <1>1, <1>10, <1>11, <1>12, <1>13, <1>14, <1>15, <1>16 DEF GoodInv

\* The object gets its frames.
Framed(ob, pb, s, fr) ==
  /\ pb \in [Addresses -> Shares]
  /\ \A t \in Addresses : t # s => pb[t] = ob[t]
  /\ pb[s].live = ob[s].live /\ pb[s].key = ob[s].key /\ pb[s].size = ob[s].size
  /\ pb[s].rw = ob[s].rw /\ pb[s].refs = ob[s].refs /\ pb[s].frames = fr

\* Noting the frames in the object is such a change.
LEMMA FramesOnly ==
  ASSUME GoodInv, NEW s \in Addresses, NEW fr \in Seq(0 .. FrameCount)
  PROVE  Framed(obj, [obj EXCEPT ![s].frames = fr], s, fr)
<1> DEFINE pb == [obj EXCEPT ![s].frames = fr]
           o  == [obj[s] EXCEPT !.frames = fr]
<1>1. obj \in [Addresses -> Shares] /\ obj[s] \in Shares
  BY DEF GoodInv, SType
<1>2. /\ o \in Shares /\ o.live = obj[s].live /\ o.key = obj[s].key /\ o.size = obj[s].size
      /\ o.rw = obj[s].rw /\ o.refs = obj[s].refs /\ o.frames = fr
  BY <1>1 DEF Shares
<1> HIDE DEF o
<1>3. pb = [obj EXCEPT ![s] = o]
  BY <1>1 DEF o
<1> HIDE DEF pb
<1>4. pb[s] = o /\ (\A t \in Addresses : t # s => pb[t] = obj[t]) /\ pb \in [Addresses -> Shares]
  BY <1>1, <1>2, <1>3
<1>5. QED
  BY <1>2, <1>4 DEF Framed, pb

\* The frames that fill_pages() found are noted in the object.
FramesAt(m, e, va, n) == [i \in 1 .. n |-> get_frame_info(m, <<e, va + i - 1>>)]
FramesFit(fr, pt, e, va, n) ==
  /\ fr \in Seq(0 .. FrameCount) /\ Len(fr) = n
  /\ \A i \in 1 .. n : fr[i] # NoFrame /\ pt[Page(e, va, i)] = SharedEntry(fr[i], TRUE)

\* They are frames, the ones the pages are mapped to.
LEMMA FramesNoted ==
  ASSUME NEW m \in Mems, NEW e \in Envs, NEW va \in Int, NEW n \in Nat,
         InArea(va, n), FilledTo(m.pt, e, va, n),
         NEW fr, fr = FramesAt(m, e, va, n)
  PROVE  FramesFit(fr, m.pt, e, va, n)
<1>1. ASSUME NEW i \in 1 .. n
      PROVE  /\ fr[i] \in Frames /\ m.pt[Page(e, va, i)] = SharedEntry(fr[i], TRUE)
  <2>1. fr[i] = m.pt[Page(e, va, i)].frame
    BY DEF get_frame_info, Page, FramesAt
  <2>2. PICK f \in Frames : m.pt[Page(e, va, i)] = SharedEntry(f, TRUE)
    BY DEF FilledTo
  <2>3. SharedEntry(f, TRUE).frame = f
    BY DEF SharedEntry
  <2>4. QED
    BY <2>1, <2>2, <2>3
<1>2. \A f \in Frames : f \in 0 .. FrameCount /\ f # NoFrame
  BY DEF Frames, NoFrame
<1>3. fr \in [1 .. n -> 0 .. FrameCount]
  <2>1. \A i \in 1 .. n : fr[i] \in 0 .. FrameCount
    BY <1>1, <1>2
  <2>2. QED
    BY <2>1 DEF FramesAt
<1>4. fr \in Seq(0 .. FrameCount) /\ Len(fr) = n
  BY <1>3, AsSeq
<1>5. \A i \in 1 .. n : fr[i] # NoFrame /\ m.pt[Page(e, va, i)] = SharedEntry(fr[i], TRUE)
  BY <1>1, <1>2
<1>6. QED
  BY <1>4, <1>5 DEF FramesFit

\* What fills an object.
LEMMA FillingIs ==
  ASSUME GoodInv, NEW e \in Envs, op[e].at \in {"frames", "fill"}
  PROVE  /\ op[e].call = "smalloc" /\ op[e] # Idle /\ op[e].key \in Keys /\ op[e].key[1] = e
         /\ op[e].va \in Area /\ op[e].va \in Int /\ ids[e][op[e].va] = NULL
         /\ op[e].ptr \in Addresses /\ op[e].ptr \in 0 .. NShares /\ op[e].ptr # NULL
         /\ obj[op[e].ptr].live /\ obj[op[e].ptr].key = op[e].key
         /\ obj[op[e].ptr].size = op[e].size /\ op[e].size \in Nat \ {0}
         /\ InArea(op[e].va, op[e].size) /\ EmptyTo(mm.pt, e, op[e].va, op[e].size)
         /\ Len(obj[op[e].ptr].frames) = op[e].size
         /\ Fillers[e] = op[e].ptr /\ \A d \in Envs : d # e => Fillers[d] # op[e].ptr
         /\ \A d \in Envs, wa \in Area : ids[d][wa] # op[e].ptr /\ Homes[<<d, wa>>] # op[e].ptr
<1> DEFINE c  == op[e]
           s  == c.ptr
<1>1. Filling(e, c, obj) /\ Fresh(e, c, mm.pt, ids[e])
  BY CallAt
<1>2. /\ c.call = "smalloc" /\ c # Idle /\ c.key \in Keys /\ c.key[1] = e
      /\ s \in Addresses /\ s \in 0 .. NShares /\ s # NULL
      /\ obj[s].live /\ obj[s].key = c.key /\ obj[s].size = c.size
  BY <1>1 DEF Filling, IsShare, Idle, Addresses, NULL
<1>3. /\ c.va \in Area /\ c.va \in Int /\ ids[e][c.va] = NULL /\ InArea(c.va, c.size)
      /\ EmptyTo(mm.pt, e, c.va, c.size) /\ c.size > 0
  BY <1>1, <1>2 DEF Fresh, Filling, Area
<1>4. c.size \in Nat \ {0}
  <2>1. c \in Calls
    BY DEF GoodInv, SType
  <2>2. c.size \in Nat
    BY <2>1 DEF Calls
  <2>3. QED
    BY <1>3, <2>2
<1>5. Len(obj[s].frames) = c.size
  BY <1>2 DEF GoodInv, ObjectsOK, ObjectOK
<1>6. Fillers[e] = s
  BY <1>2 DEF Fillers
<1> HIDE DEF s
<1>7. ASSUME NEW d \in Envs, d # e
      PROVE  Fillers[d] # s
  <2>1. SUFFICES ASSUME Fillers[d] = s
                 PROVE  FALSE
    OBVIOUS
  <2>2. op[d].call = "smalloc" /\ op[d].key = op[e].key
    BY <1>2, <2>1, FillerIs
  <2>3. QED
    BY <1>2, <1>7, <2>2, NobodyElse
<1>8. \A d \in Envs, wa \in Area : ids[d][wa] # s
  BY <1>2, <1>6, NotedIs
<1>9. ASSUME NEW d \in Envs, NEW wa \in Area
      PROVE  Homes[<<d, wa>>] # s
  <2>1. SUFFICES ASSUME Homes[<<d, wa>>] = s
                 PROVE  FALSE
    OBVIOUS
  <2>2. op[d].call = "sget" /\ op[d].key = op[e].key
    BY <1>2, <1>8, <2>1, HomeIs
  <2>3. d # e
    BY <1>2, <2>2
  <2>4. QED
    BY <1>2, <2>2, <2>3, NobodyElse
<1>10. QED
  BY <1>2, <1>3, <1>4, <1>5, <1>6, <1>7, <1>8, <1>9 DEF s

\* The parts of smalloc()'s last step.
Filled(e)     == fill_pages(e, op[e].va, op[e].size)
FilledWith(e) == FramesAt(Filled(e).mm, e, op[e].va, op[e].size)

\* What smalloc()'s last step does when the loop found memory for every page.
LEMMA FillPagesIs ==
  ASSUME GoodInv, NEW e \in Envs, FillPages(e), ended' = "no"
  PROVE  /\ op[e].at = "fill" /\ RoundOK(Filled(e)) /\ mm' = Settle(Filled(e).mm)
         /\ tables' = Filled(e).tables /\ Kept(mm.pt, Filled(e).mm.pt, e, op[e].va, op[e].size)
         /\ Framed(obj, obj', op[e].ptr, FilledWith(e)) /\ Len(FilledWith(e)) = op[e].size
         /\ \A i \in 1 .. op[e].size :
              /\ FilledWith(e)[i] # NoFrame
              /\ Filled(e).mm.pt[Page(e, op[e].va, i)] = SharedEntry(FilledWith(e)[i], TRUE)
         /\ op' = [op EXCEPT ![e] = Idle] /\ Gives(e, op[e].va, op[e].ptr, op[e].key)
         /\ shares' = shares
<1> DEFINE va == op[e].va
           n  == op[e].size
           s  == op[e].ptr
           m  == Filled(e)
           fr == FilledWith(e)
<1>1. /\ op[e].at = "fill" /\ mm' = Settle(m.mm) /\ tables' = m.tables /\ m.ok
      /\ obj' = [obj EXCEPT ![s].frames = [i \in DOMAIN @ |-> get_frame_info(m.mm, <<e, va + i - 1>>)]]
      /\ op' = [op EXCEPT ![e] = Idle] /\ Gives(e, va, s, op[e].key) /\ shares' = shares
  BY DEF FillPages, At, Give, Gives, Return, Filled
<1>2. /\ va \in Int /\ n \in Nat /\ InArea(va, n) /\ EmptyTo(mm.pt, e, va, n)
      /\ s \in Addresses /\ Len(obj[s].frames) = n
  BY <1>1, FillingIs
<1>3. obj[s].frames \in Seq(0 .. FrameCount) /\ obj \in [Addresses -> Shares] /\ obj[s] \in Shares
  BY <1>2 DEF GoodInv, SType, Shares
<1>4. DOMAIN obj[s].frames = 1 .. n
  BY <1>2, <1>3
<1> HIDE DEF va, n, s, m, fr
<1>5. RoundOK(m) /\ Kept(mm.pt, m.mm.pt, e, va, n) /\ FilledTo(m.mm.pt, e, va, n)
  <2>1. m = fill_pages(e, va, n)
    BY DEF va, n, m, Filled
  <2>2. QED
    BY <1>1, <1>2, <2>1, MemoryRound, FillPagesDoes
<1>6. m.mm \in Mems
  BY <1>5, RoundTypes DEF RoundOK
<1>7. fr = FramesAt(m.mm, e, va, n)
  BY DEF va, n, m, fr, FilledWith
<1>8. /\ fr \in Seq(0 .. FrameCount) /\ Len(fr) = n
      /\ \A i \in 1 .. n : fr[i] # NoFrame /\ m.mm.pt[Page(e, va, i)] = SharedEntry(fr[i], TRUE)
  <2>1. FramesFit(fr, m.mm.pt, e, va, n)
    BY <1>2, <1>5, <1>6, <1>7, FramesNoted
  <2>2. QED
    BY <2>1 DEF FramesFit
<1>9. obj' = [obj EXCEPT ![s].frames = fr]
  BY <1>1, <1>2, <1>3, <1>4, <1>7 DEF FramesAt
<1>10. Framed(obj, obj', s, fr)
  BY <1>2, <1>8, <1>9, FramesOnly
<1>11. QED
  BY <1>1, <1>5, <1>8, <1>10 DEF va, n, s, m, fr

\* smalloc() has its pages, and the program gets the address.
LEMMA FillPagesStep ==
  ASSUME GoodInv, NEW e \in Envs, FillPages(e), ended' = "no"
  PROVE  GoodInv'
<1> DEFINE va == op[e].va
           n  == op[e].size
           s  == op[e].ptr
           k  == op[e].key
           m  == Filled(e)
           fr == FilledWith(e)
<1>1. /\ op[e].at = "fill" /\ RoundOK(m) /\ mm' = Settle(m.mm) /\ tables' = m.tables
      /\ Kept(mm.pt, m.mm.pt, e, va, n) /\ Framed(obj, obj', s, fr) /\ Len(fr) = n
      /\ \A i \in 1 .. n : fr[i] # NoFrame /\ m.mm.pt[Page(e, va, i)] = SharedEntry(fr[i], TRUE)
      /\ op' = [op EXCEPT ![e] = Idle] /\ Gives(e, va, s, k) /\ shares' = shares
  BY FillPagesIs
<1> HIDE DEF m, fr
<1>2. /\ op[e].call = "smalloc" /\ op[e] # Idle /\ k \in Keys /\ k[1] = e
      /\ va \in Area /\ va \in Int /\ ids[e][va] = NULL
      /\ s \in Addresses /\ s \in 0 .. NShares /\ s # NULL
      /\ obj[s].live /\ obj[s].key = k /\ obj[s].size = n /\ n \in Nat \ {0}
      /\ InArea(va, n) /\ EmptyTo(mm.pt, e, va, n)
      /\ Fillers[e] = s /\ \A d \in Envs : d # e => Fillers[d] # s
      /\ \A d \in Envs, wa \in Area : ids[d][wa] # s /\ Homes[<<d, wa>>] # s
  BY <1>1, FillingIs
<1> HIDE DEF va, n, s, k
<1>3. op \in [Envs -> Calls] /\ CallsApart(op)
  BY DEF GoodInv, SType
<1>4. op'[e] = Idle /\ \A d \in Envs : d # e => op'[d] = op[d]
  BY <1>1, <1>3
<1>5. Given(e, va, s, k)
  BY <1>1, <1>2, OneId
<1>6. /\ obj' \in [Addresses -> Shares] /\ \A t \in Addresses : t # s => obj'[t] = obj[t]
      /\ obj'[s].live = obj[s].live /\ obj'[s].live /\ obj'[s].key = k /\ obj'[s].size = n
      /\ obj'[s].refs = obj[s].refs /\ obj'[s].frames = fr
  BY <1>1, <1>2 DEF Framed
<1>7. /\ mm' \in Mems /\ tables' \in [Envs -> SUBSET Tabs]
      /\ Counted(mm') /\ TablesUsed(mm'.pt, tables') /\ mm'.pt = m.mm.pt
  BY <1>1, MemoryAfter
<1>8. SType'
  <2>1. op' \in [Envs -> Calls]
    BY <1>1, <1>3, IdleIsCall
  <2>2. QED
    BY <1>1, <1>5, <1>6, <1>7, <2>1 DEF GoodInv, SType, Given
<1>9. ListOK(obj', shares')
  <2>1. ASSUME NEW t \in Addresses
        PROVE  obj'[t].live = obj[t].live /\ obj'[t].key = obj[t].key
    <3>1. CASE t = s
      BY <1>2, <1>6, <3>1
    <3>2. CASE t # s
      BY <1>6, <3>2
    <3>3. QED
      BY <3>1, <3>2
  <2>2. QED
    BY <1>1, <2>1 DEF GoodInv, ListOK
<1>10. Fillers'[e] = NULL /\ SameElse(Fillers, Fillers', Envs, e)
  <2>1. op'[e].call # "smalloc"
    BY <1>4 DEF Idle
  <2>2. QED
    BY <1>4, <2>1 DEF Fillers, SameElse
<1>11. SameButAt(Refs, Refs', e, va) /\ Refs[<<e, va>>] = NULL /\ Refs'[<<e, va>>] = s
  <2>1. <<e, va>> \in Pages /\ \A d \in Envs, wa \in Area : <<d, wa>> \in Pages
    BY <1>2 DEF Pages
  <2>2. Refs'[<<e, va>>] = s
    BY <1>4, <1>5, <2>1 DEF Refs, Given, Idle
  <2>3. Refs[<<e, va>>] = NULL
    BY <1>2, <2>1 DEF Refs
  <2>4. ASSUME NEW d \in Envs, NEW wa \in Area, d # e \/ wa # va
        PROVE  Refs'[<<d, wa>>] = Refs[<<d, wa>>]
    <3>1. CASE d # e
      BY <1>4, <1>5, <2>1, <3>1 DEF Refs, Given
    <3>2. CASE d = e
      BY <1>1, <1>4, <1>5, <2>1, <2>4, <3>2 DEF Refs, Given, Idle, va
    <3>3. QED
      BY <3>1, <3>2
  <2>5. QED
    BY <2>2, <2>3, <2>4 DEF SameButAt
<1>12. SameButAt(Homes, Homes', e, va) /\ Homes[<<e, va>>] = NULL /\ Homes'[<<e, va>>] = s
  <2>1. <<e, va>> \in Pages /\ \A d \in Envs, wa \in Area : <<d, wa>> \in Pages
    BY <1>2 DEF Pages
  <2>2. Homes'[<<e, va>>] = s
    BY <1>4, <1>5, <2>1 DEF Homes, Given, Idle
  <2>3. Homes[<<e, va>>] = NULL
    BY <1>1, <1>2, <2>1 DEF Homes
  <2>4. ASSUME NEW d \in Envs, NEW wa \in Area, d # e \/ wa # va
        PROVE  Homes'[<<d, wa>>] = Homes[<<d, wa>>]
    <3>1. CASE d # e
      BY <1>4, <1>5, <2>1, <3>1 DEF Homes, Given
    <3>2. CASE d = e
      BY <1>1, <1>4, <1>5, <2>1, <2>4, <3>2 DEF Homes, Given, Idle, va
    <3>3. QED
      BY <3>1, <3>2
  <2>5. QED
    BY <2>2, <2>3, <2>4 DEF SameButAt
<1>13. ObjectsOK(obj', Noted', Refs', Fillers')
  <2>1. SUFFICES ASSUME NEW t \in Addresses, obj'[t].live
                 PROVE  ObjectOK(obj'[t], t, Noted', Refs', Fillers')
    BY DEF ObjectsOK
  <2>2. obj[t].live /\ t # NULL /\ ObjectOK(obj[t], t, Noted, Refs, Fillers)
    BY <1>2, <1>6, <2>1 DEF GoodInv, ObjectsOK, Addresses, NULL
  <2>3. UsersMove(Refs, Refs', Fillers, Fillers', e, va, t)
    BY <1>2, <1>10, <1>11, CountUsersStep
  <2>4. CountUsers(Refs', Fillers', t) = CountUsers(Refs, Fillers, t)
    BY <1>2, <1>10, <1>11, <2>2, <2>3 DEF UsersMove
  <2>5. CASE t = s
    <3>1. Noted'[<<e, va>>] = s /\ <<e, va>> \in Pages
      BY <1>2, <1>5 DEF Given, Pages
    <3>2. \A i \in 1 .. n : obj'[s].frames[i] # NoFrame
      BY <1>1, <1>6
    <3>3. obj'[s].key \in Keys /\ obj'[s].size > 0 /\ Len(obj'[s].frames) = obj'[s].size
      BY <1>1, <1>2, <1>6
    <3>4. QED
      BY <1>6, <2>2, <2>4, <2>5, <3>1, <3>2, <3>3 DEF ObjectOK
  <2>6. CASE t # s
    <3>1. obj'[t] = obj[t]
      BY <1>6, <2>6
    <3>2. \A d \in Envs : Fillers[d] = t => Fillers'[d] = t
      BY <1>2, <1>10, <2>6 DEF SameElse
    <3>3. \A u \in Pages : Noted[u] = t => Noted'[u] = t
      <4>1. SUFFICES ASSUME NEW d \in Envs, NEW wa \in Area, Noted[<<d, wa>>] = t
                     PROVE  Noted'[<<d, wa>>] = t
        BY DEF Pages
      <4>2. Noted[<<e, va>>] = NULL
        BY <1>2, <1>5 DEF Given
      <4>3. d # e \/ wa # va
        BY <2>2, <4>1, <4>2
      <4>4. QED
        BY <1>5, <4>1, <4>3 DEF Given, SameButAt
    <3>4. QED
      BY <2>2, <2>4, <3>1, <3>2, <3>3 DEF ObjectOK
  <2>7. QED
    BY <2>5, <2>6
<1>14. IdsOK(obj', Noted', held', Fillers')
  <2>1. SUFFICES ASSUME NEW d \in Envs, NEW wa \in Area
                 PROVE  IdOK(Noted'[<<d, wa>>], held'[d][wa], obj', Fillers')
    BY DEF IdsOK
  <2>2. CASE d = e /\ wa = va
    <3>1. Noted'[<<d, wa>>] = s /\ held'[d][wa] = k
      BY <1>5, <2>2 DEF Given
    <3>2. \A x \in Envs : Fillers'[x] # s
      BY <1>2, <1>10 DEF SameElse
    <3>3. k # NoKey
      BY <1>2, KeyGiven
    <3>4. QED
      BY <1>2, <1>6, <3>1, <3>2, <3>3 DEF IdOK
  <2>3. CASE d # e \/ wa # va
    <3>1. Noted'[<<d, wa>>] = Noted[<<d, wa>>] /\ held'[d][wa] = held[d][wa]
      BY <1>5, <2>3 DEF Given, SameButAt
    <3>2. Noted[<<d, wa>>] = ids[d][wa]
      BY DEF Noted, Pages
    <3>3. IdOK(ids[d][wa], held[d][wa], obj, Fillers)
      BY <3>2 DEF GoodInv, IdsOK
    <3>4. ids[d][wa] # NULL => obj'[ids[d][wa]] = obj[ids[d][wa]]
      BY <1>2, <1>6, NotedIs
    <3>5. ids[d][wa] # NULL => \A x \in Envs : Fillers'[x] # ids[d][wa]
      BY <1>10, <3>3 DEF IdOK, SameElse
    <3>6. QED
      BY <3>1, <3>2, <3>3, <3>4, <3>5 DEF IdOK
  <2>4. QED
    BY <2>2, <2>3
<1>15. CallsApart(op')
  BY <1>1, <1>3, IdleIsCall, CallsApartOn
<1>16. CallsOK(op', obj', ids', held')
  <2>1. \A d \in Envs : d # e => CallOK(d, op[d], obj', ids[d], held[d])
    <3>1. ASSUME NEW d \in Envs, d # e
          PROVE  CallOK(d, op[d], obj', ids[d], held[d])
      <4>1. ASSUME NEW t \in Addresses
            PROVE  /\ obj'[t].live = obj[t].live /\ obj'[t].key = obj[t].key
                   /\ obj'[t].size = obj[t].size
        <5>1. CASE t = s
          BY <1>2, <1>6, <5>1
        <5>2. CASE t # s
          BY <1>6, <5>2
        <5>3. QED
          BY <5>1, <5>2
      <4>2. CallOK(d, op[d], obj, ids[d], held[d])
        BY DEF GoodInv, CallsOK
      <4>3. QED
        BY <4>1, <4>2, OtherCall
    <3>2. QED
      BY <3>1
  <2>2. CallOK(e, op'[e], obj', ids'[e], held'[e])
    BY <1>4, IdleIsCall
  <2>3. QED
    BY <1>4, <1>5, <2>1, <2>2 DEF CallsOK, Given
<1>17. AllFresh(op', mm'.pt, ids')
  <2>1. \A d \in Envs : d # e => Fresh(d, op[d], m.mm.pt, ids[d])
    BY <1>1, OthersFresh DEF GoodInv, AllFresh
  <2>2. Fresh(e, op'[e], mm'.pt, ids'[e])
    BY <1>4, IdleIsCall
  <2>3. QED
    BY <1>4, <1>5, <1>7, <2>1, <2>2 DEF AllFresh, Given
<1>18. HomesOK(m.mm.pt, obj', Homes')
  <2>1. HomesOK(mm.pt, obj', Homes)
    <3>1. ASSUME NEW d \in Envs, NEW wa \in Area, Homes[<<d, wa>>] # NULL
          PROVE  Alike(obj[Homes[<<d, wa>>]], obj'[Homes[<<d, wa>>]])
      <4>1. Homes[<<d, wa>>] \in Addresses /\ Homes[<<d, wa>>] # s
        BY <1>2, <3>1, HomeIs
      <4>2. QED
        BY <1>6, <4>1 DEF Alike
    <3>2. QED
      BY <3>1, SameHomes DEF GoodInv
  <2>2. Homes' = [Homes EXCEPT ![<<e, va>>] = s]
    <3>1. IsPageMap(Homes) /\ IsPageMap(Homes')
      BY DEF Homes, IsPageMap
    <3>2. QED
      BY <1>2, <1>12, <3>1, OnePage
  <2>3. Homes \in HomeMaps
    BY HomesType DEF GoodInv
  <2>4. Sees(m.mm.pt, e, va, obj'[s])
    <3>1. ASSUME NEW i \in 1 .. n
          PROVE  SeesFrame(m.mm.pt[Page(e, va, i)], e, obj'[s], i)
      <4>1. m.mm.pt[Page(e, va, i)] = SharedEntry(fr[i], TRUE) /\ fr[i] # NoFrame
        BY <1>1
      <4>2. QED
        BY <1>2, <1>6, <4>1 DEF SharedEntry, SeesFrame
    <3>2. QED
      BY <1>2, <1>6, <3>1 DEF Sees
  <2>5. /\ Homes[<<e, va>>] = NULL /\ obj'[s].live /\ EmptyTo(mm.pt, e, va, obj'[s].size)
        /\ Kept(mm.pt, m.mm.pt, e, va, obj'[s].size) /\ va \in Area /\ s \in Addresses
    BY <1>1, <1>2, <1>6, <1>12
  <2>6. HomesOK(m.mm.pt, obj', [Homes EXCEPT ![<<e, va>>] = s])
    BY <2>1, <2>3, <2>4, <2>5, AddHome
  <2>7. QED
    BY <2>2, <2>6
<1>19. QED
  BY <1>7, <1>8, <1>9, <1>13, <1>14, <1>15, <1>16, <1>17, <1>18 DEF GoodInv

-----------------------------------------------------------------------------
(* The invariant is inductive *)

\* In a good state the kernel finds everything it uses.
LEMMA NeverWild ==
  ASSUME GoodInv, NEW e \in Envs
  PROVE  /\ ~MapShareWild(e) /\ ~CountShareWild(e) /\ ~TestShareWild(e)
         /\ \A va \in Area : ~SfreeWild(e, va)
<1>1. op[e].at = "map" => Mappable(e)
  <2>1. SUFFICES ASSUME op[e].at = "map"
                 PROVE  Mappable(e)
    OBVIOUS
  <2> DEFINE o == obj[op[e].ptr]
             n == op[e].size
  <2>2. /\ o.live /\ o.size = n /\ o.frames \in Seq(0 .. FrameCount) /\ Len(o.frames) = n
        /\ n \in Nat \ {0} /\ \A i \in 1 .. n : o.frames[i] # NoFrame
    BY <2>1, FramesThere
  <2>3. InArea(op[e].va, n)
    <3>1. Mapping(op[e], obj) /\ Fresh(e, op[e], mm.pt, ids[e])
      BY <2>1, CallAt
    <3>2. QED
      BY <2>1, <3>1 DEF Mapping, Fresh
  <2> HIDE DEF n
  <2>4. op[e].va + n - 1 \in Area
    BY <2>2, <2>3 DEF InArea
  <2>5. DOMAIN o.frames = 1 .. n
    BY <2>2
  <2>6. NoFrame \notin Range(o.frames)
    BY <2>2, <2>5 DEF Range
  <2>7. QED
    BY <2>2, <2>4, <2>6 DEF Mappable
<1>2. op[e].at = "count" => obj[op[e].ptr].live
  BY CallAt DEF Mapping, IsShare
<1>3. op[e].at = "test" => obj[op[e].ptr].live
  BY FreeingIs
<1>4. ASSUME NEW va \in Area, held[e][va] # NoKey
      PROVE  ById(e, va) # NULL
  <2>1. ids[e][va] # NULL
    <3>1. Noted[<<e, va>>] = ids[e][va]
      BY DEF Noted, Pages
    <3>2. QED
      BY <1>4, <3>1 DEF GoodInv, IdsOK, IdOK
  <2>2. ids[e][va] \in Addresses /\ obj[ids[e][va]].live
    BY <2>1, NotedIs
  <2>3. QED
    BY <2>2, SearchById DEF GoodInv
<1>5. QED
  BY <1>1, <1>2, <1>3, <1>4 DEF MapShareWild, CountShareWild, TestShareWild, SfreeWild, At

\* In the beginning there is nothing.
LEMMA InitGood ==
  ASSUME Init
  PROVE  GoodInv
<1> DEFINE m == initialize_paging(FrameCount, Envs \X Area)
<1>1. /\ mm = Settle(m) /\ tables = [e \in Envs |-> {}] /\ shares = <<>>
      /\ obj = [s \in Addresses |-> FreeShare] /\ ids = [e \in Envs |-> [p \in Area |-> 0]]
      /\ op = [e \in Envs |-> Idle] /\ held = [e \in Envs |-> [p \in Area |-> NoKey]]
  BY DEF Init
<1>2. m \in Mems /\ Counted(m) /\ \A p \in Pages : m.pt[p] = NoEntry
  BY Initialized
<1> HIDE DEF m
<1>3. mm \in Mems /\ Counted(mm) /\ \A p \in Pages : mm.pt[p] = NoEntry
  BY <1>1, <1>2, Settled
<1>4. FreeShare \in Shares /\ ~FreeShare.live
  <2>1. <<>> \in Seq(0 .. FrameCount)
    OBVIOUS
  <2>2. QED
    BY <2>1 DEF FreeShare, Shares
<1>5. /\ \A s \in Addresses : ~obj[s].live
      /\ \A e \in Envs : op[e] = Idle
      /\ \A e \in Envs, va \in Area : ids[e][va] = NULL /\ held[e][va] = NoKey
  BY <1>1, <1>4 DEF NULL
<1>6. SType
  <2>1. obj \in [Addresses -> Shares] /\ op \in [Envs -> Calls]
    BY <1>1, <1>4, IdleIsCall
  <2>2. NShares \in Nat /\ 0 \in 0 .. NShares
    BY SharingAssumption
  <2>3. /\ tables \in [Envs -> SUBSET Tabs] /\ shares \in Seq(Addresses)
        /\ ids \in [Envs -> [Area -> 0 .. NShares]] /\ held \in [Envs -> [Area -> Keys \union {NoKey}]]
    BY <1>1, <2>2
  <2>4. QED
    BY <1>3, <2>1, <2>3 DEF SType
<1>7. ListOK(obj, shares)
  BY <1>1, <1>5, CountEmpty DEF ListOK
<1>8. ObjectsOK(obj, Noted, Refs, Fillers)
  BY <1>5 DEF ObjectsOK
<1>9. \A u \in Pages : Noted[u] = NULL /\ Homes[u] = NULL
  BY <1>5, IdleIsCall DEF Noted, Homes, Pages
<1>10. IdsOK(obj, Noted, held, Fillers)
  BY <1>5, <1>9 DEF IdsOK, IdOK, Pages
<1>11. CallsApart(op) /\ CallsOK(op, obj, ids, held) /\ AllFresh(op, mm.pt, ids)
  BY <1>5, IdleIsCall DEF CallsApart, CallsOK, AllFresh
<1>12. TablesUsed(mm.pt, tables)
  BY <1>1 DEF TablesUsed
<1>13. HomesOK(mm.pt, obj, Homes)
  BY <1>3, <1>9 DEF HomesOK, HomesMapped, HomesApart, PagesAtHome, Pages
<1>14. QED
  BY <1>3, <1>6, <1>7, <1>8, <1>10, <1>11, <1>12, <1>13 DEF GoodInv

\* A step of a call: it starts before the end, a calm that is over stays over, nothing
\* wild happens in a good state, and the invariant holds again unless the step ends it all.
StepGood ==
  /\ ended = "no" /\ (calm' => calm)
  /\ GoodInv /\ calm' => ended' # "wild" /\ (ended' = "no" => GoodInv')

\* Every step of a call is such a step.
LEMMA CallSteps ==
  ASSUME NEW e \in Envs
  PROVE  /\ \A o \in Objects : Smalloc(e, o) => StepGood
         /\ CreateShare(e) \/ CreateShareFails(e) \/ CountFrames(e) \/ TooFewFrames(e)
              \/ FillPages(e) => StepGood
         /\ \A key \in Keys : Sget(e, key) => StepGood
         /\ FindShare(e) \/ MapShare(e) \/ MapShareWild(e) \/ CountShare(e)
              \/ CountShareWild(e) => StepGood
         /\ \A va \in Area : Sfree(e, va) \/ SfreeWild(e, va) => StepGood
         /\ UnmapShare(e) \/ DropShare(e) \/ TestShare(e) \/ TestShareWild(e) => StepGood
<1>1. ASSUME NEW o \in Objects, Smalloc(e, o)
      PROVE  StepGood
  <2>1. ended = "no" /\ calm /\ ended' = ended
    BY <1>1 DEF Smalloc, At, Begin
  <2>2. QED
    BY <1>1, <2>1, SmallocStep DEF StepGood
<1>2. ASSUME CreateShare(e)
      PROVE  StepGood
  <2>1. ended = "no" /\ calm' = calm /\ ended' = ended
    BY <1>2 DEF CreateShare, At
  <2>2. QED
    BY <1>2, <2>1, CreateShareStep DEF StepGood
<1>3. ASSUME CreateShareFails(e) \/ TooFewFrames(e)
      PROVE  StepGood
  <2>1. ended = "no" /\ ~calm'
    BY <1>3 DEF CreateShareFails, TooFewFrames, NoShare, At
  <2>2. QED
    BY <2>1 DEF StepGood
<1>4. ASSUME CountFrames(e)
      PROVE  StepGood
  <2>1. ended = "no" /\ calm' = calm /\ ended' = ended
    BY <1>4 DEF CountFrames, At
  <2>2. QED
    BY <1>4, <2>1, CountFramesStep DEF StepGood
<1>5. ASSUME FillPages(e)
      PROVE  StepGood
  <2>1. ended = "no" /\ calm' = calm /\ ended' \in {"no", "no memory"}
    BY <1>5 DEF FillPages, At
  <2>2. QED
    BY <1>5, <2>1, FillPagesStep DEF StepGood
<1>6. ASSUME NEW key \in Keys, Sget(e, key)
      PROVE  StepGood
  <2>1. ended = "no" /\ calm /\ ended' = ended
    BY <1>6 DEF Sget, At, Begin
  <2>2. QED
    BY <1>6, <2>1, SgetStep DEF StepGood
<1>7. ASSUME FindShare(e)
      PROVE  StepGood
  <2>1. ended = "no" /\ calm' = calm /\ ended' = ended
    BY <1>7 DEF FindShare, At
  <2>2. QED
    BY <1>7, <2>1, FindShareStep DEF StepGood
<1>8. ASSUME MapShare(e)
      PROVE  StepGood
  <2>1. ended = "no" /\ calm' = calm /\ ended' \in {"no", "no memory"}
    BY <1>8 DEF MapShare, At
  <2>2. QED
    BY <1>8, <2>1, MapShareStep DEF StepGood
<1>9. ASSUME NEW va \in Area,
             MapShareWild(e) \/ CountShareWild(e) \/ TestShareWild(e) \/ SfreeWild(e, va)
      PROVE  StepGood
  <2>1. ended = "no" /\ calm' = calm
    BY <1>9 DEF MapShareWild, CountShareWild, TestShareWild, SfreeWild, Wild, At
  <2>2. ~GoodInv
    BY <1>9, NeverWild
  <2>3. QED
    BY <2>1, <2>2 DEF StepGood
<1>10. ASSUME CountShare(e)
       PROVE  StepGood
  <2>1. ended = "no" /\ calm' = calm /\ ended' = ended
    BY <1>10 DEF CountShare, At
  <2>2. QED
    BY <1>10, <2>1, CountShareStep DEF StepGood
<1>11. ASSUME NEW va \in Area, Sfree(e, va)
       PROVE  StepGood
  <2>1. ended = "no" /\ calm /\ ended' = ended
    BY <1>11 DEF Sfree, At, Begin
  <2>2. QED
    BY <1>11, <2>1, SfreeStep DEF StepGood
<1>12. ASSUME UnmapShare(e)
       PROVE  StepGood
  <2>1. ended = "no" /\ calm' = calm /\ ended' = ended
    BY <1>12 DEF UnmapShare, At
  <2>2. QED
    BY <1>12, <2>1, UnmapShareStep DEF StepGood
<1>13. ASSUME DropShare(e)
       PROVE  StepGood
  <2>1. ended = "no" /\ calm' = calm /\ ended' = ended
    BY <1>13 DEF DropShare, At
  <2>2. QED
    BY <1>13, <2>1, DropShareStep DEF StepGood
<1>14. ASSUME TestShare(e)
       PROVE  StepGood
  <2>1. ended = "no" /\ calm' = calm /\ ended' = ended
    BY <1>14 DEF TestShare, At
  <2>2. QED
    BY <1>14, <2>1, TestShareStays, TestShareFrees DEF StepGood
<1>15. Area # {}
  <2>1. 1 \in Area
    BY SharingAssumption DEF Area
  <2>2. QED
    BY <2>1
<1>16. QED
  BY <1>1, <1>2, <1>3, <1>4, <1>5, <1>6, <1>7, <1>8, <1>9, <1>10, <1>11, <1>12, <1>13, <1>14,
     <1>15

\* The invariant holds after every step.
LEMMA SInvStep ==
  ASSUME SInv, [Next]_vars
  PROVE  SInv'
<1>1. CASE Next
  <2>1. StepGood
    BY <1>1, CallSteps DEF Next, Keys
  <2>2. QED
    BY <2>1 DEF SInv, SharingSafe, Good, StepGood
<1>2. CASE UNCHANGED vars
  <2>1. calm' = calm /\ ended' = ended
    BY <1>2 DEF vars
  <2>2. GoodInv => GoodInv'
    BY <1>2 DEF vars, GoodInv, SType, Homes, Noted, Refs, Fillers
  <2>3. QED
    BY <2>1, <2>2 DEF SInv, SharingSafe, Good
<1>3. QED
  BY <1>1, <1>2

\* The objects, their references, the calls, the pages and the frames fit together as
\* long as it is good, and nothing wild happens in a calm.
THEOREM SharedMemoryInvariant == Spec => []SInv
<1>1. Init => SInv
  BY InitGood DEF Init, SInv, SharingSafe
<1>2. SInv /\ [Next]_vars => SInv'
  BY SInvStep
<1>3. QED
  BY <1>1, <1>2, PTL DEF Spec

-----------------------------------------------------------------------------
(* What it means *)

\* Nothing wild happens in a calm: the kernel never uses an object that was freed or has
\* no frames, never frees one twice, and always finds the object of an address that the
\* program was given.
THEOREM SharingIsSafe == Spec => []SharingSafe
<1>1. SInv => SharingSafe
  BY DEF SInv
<1>2. QED
  BY <1>1, SharedMemoryInvariant, PTL

\* What is in a list once is at one place.
LEMMA OnePlace ==
  ASSUME NEW q, NEW s, IsFiniteSet(LinksOf(q, s)), Count(q, s) = 1,
         NEW i \in DOMAIN q, NEW j \in DOMAIN q, q[i] = s, q[j] = s
  PROVE  i = j
<1>1. Cardinality(LinksOf(q, s)) = 1 /\ i \in LinksOf(q, s) /\ j \in LinksOf(q, s)
  BY DEF Count, LinksOf
<1>2. \E x : LinksOf(q, s) = {x}
  BY <1>1, FS_Singleton
<1>3. QED
  BY <1>1, <1>2

\* references is exactly the number of users of a live object, and shares_list links the
\* live objects, once each and under different names.
THEOREM ReferencesAreExact == Spec => []ReferencesExact
<1>1. SInv => ReferencesExact
  <2> SUFFICES ASSUME GoodInv
                 PROVE  /\ Range(shares) = {s \in Addresses : obj[s].live}
                        /\ \A i, j \in DOMAIN shares : i # j => obj[shares[i]].key # obj[shares[j]].key
                        /\ \A s \in Range(shares) : obj[s].refs = Users(s)
    BY DEF SInv, ReferencesExact
  <2>2. shares \in Seq(Addresses) /\ SType /\ ListOK(obj, shares)
    BY DEF GoodInv, SType
  <2>3. \A i \in DOMAIN shares : shares[i] \in Addresses
    BY <2>2
  <2>4. Range(shares) = {s \in Addresses : obj[s].live}
    BY <2>2, <2>3, Listed DEF Range
  <2>5. ASSUME NEW i \in DOMAIN shares, NEW j \in DOMAIN shares, i # j,
               obj[shares[i]].key = obj[shares[j]].key
        PROVE  FALSE
    <3>1. shares[i] \in Addresses /\ shares[j] \in Addresses
      BY <2>3
    <3>2. obj[shares[i]].live /\ obj[shares[j]].live
      BY <2>2, <3>1, Listed
    <3>3. shares[i] = shares[j]
      BY <2>2, <2>5, <3>1, <3>2 DEF ListOK
    <3>4. Count(shares, shares[i]) = 1
      BY <2>2, <3>1, <3>2 DEF ListOK
    <3>5. IsFiniteSet(LinksOf(shares, shares[i]))
      BY <2>2, CountType
    <3>6. QED
      BY <2>5, <3>3, <3>4, <3>5, OnePlace
  <2>6. ASSUME NEW s \in Addresses, obj[s].live
        PROVE  obj[s].refs = Users(s)
    <3>1. ObjectOK(obj[s], s, Noted, Refs, Fillers)
      BY <2>6 DEF GoodInv, ObjectsOK
    <3>2. Users(s) = CountUsers(Refs, Fillers, s)
      BY <2>2, UsersAre
    <3>3. QED
      BY <3>1, <3>2 DEF ObjectOK
  <2>7. QED
    BY <2>4, <2>5, <2>6
<1>2. QED
  BY <1>1, SharedMemoryInvariant, PTL

\* Everybody who was given an object sees its frames, page by page, and may write to them
\* if and only if the object is writable or it is the owner.
THEOREM FramesAreTheSame == Spec => []SameFrames
<1>1. SInv => SameFrames
  <2> SUFFICES ASSUME GoodInv, NEW e \in Envs, NEW va \in Area, held[e][va] # NoKey,
                        ~(op[e].va = va /\ op[e].call = "sfree"),
                        NEW s, s = obj[get_share(held[e][va])], NEW i \in DOMAIN s.frames
                 PROVE  SeesFrame(mm.pt[<<e, va + i - 1>>], e, s, i)
    BY DEF SInv, SameFrames, SeesFrame
  <2> DEFINE t == ids[e][va]
  <2>2. t # NULL
    <3>1. Noted[<<e, va>>] = ids[e][va]
      BY DEF Noted, Pages
    <3>2. QED
      BY <3>1 DEF GoodInv, IdsOK, IdOK
  <2>3. t \in Addresses /\ obj[t].live /\ obj[t].key = held[e][va]
    BY <2>2, NotedIs
  <2>4. s = obj[t]
    BY <2>3, GetShare DEF GoodInv
  <2>5. ~(op[e].va = va /\ op[e].at = "count")
    <3>1. op[e].at = "count" => Mapping(op[e], obj) /\ Fresh(e, op[e], mm.pt, ids[e])
      BY CallAt
    <3>2. QED
      BY <2>2, <3>1 DEF Mapping, Fresh
  <2>6. ~(op[e].va = va /\ op[e].at \in {"drop", "test"})
    BY FreeingIs
  <2> HIDE DEF t
  <2>7. Homes[<<e, va>>] = t
    BY <2>5, <2>6 DEF Homes, Pages, t
  <2>8. Sees(mm.pt, e, va, s)
    BY <2>2, <2>4, <2>7 DEF GoodInv, HomesOK, HomesMapped
  <2>9. i \in 1 .. s.size
    <3>1. ObjectOK(s, t, Noted, Refs, Fillers)
      BY <2>3, <2>4 DEF GoodInv, ObjectsOK
    <3>2. s.frames \in Seq(0 .. FrameCount)
      BY <2>3, <2>4 DEF GoodInv, SType, Shares
    <3>3. QED
      BY <3>1, <3>2 DEF ObjectOK
  <2>10. QED
    BY <2>8, <2>9 DEF Sees, Page
<1>2. QED
  BY <1>1, SharedMemoryInvariant, PTL

\* Frames are neither lost nor used twice, and an environment that has given back all of
\* its objects has no page table left.
THEOREM FramesAreConserved == Spec => []SharingFramesConserved
<1>1. SInv => SharingFramesConserved
  <2> SUFFICES ASSUME GoodInv
                 PROVE  /\ FramesCounted(mm, LAMBDA f : 0)
                        /\ \A e \in Envs : op[e] = Idle /\ (\A va \in Area : held[e][va] = NoKey)
                                             => tables[e] = {}
    BY DEF SInv, SharingFramesConserved
  <2>2. FramesCounted(mm, LAMBDA f : 0)
    BY CountedIs DEF GoodInv, SType
  <2>3. ASSUME NEW e \in Envs, op[e] = Idle, \A va \in Area : held[e][va] = NoKey
        PROVE  tables[e] = {}
    <3>1. \A va \in Area : Homes[<<e, va>>] = NULL
      <4>1. SUFFICES ASSUME NEW va \in Area
                     PROVE  Homes[<<e, va>>] = NULL
        OBVIOUS
      <4>2. Homes[<<e, va>>] = ids[e][va]
        BY <2>3, IdleIsCall DEF Homes, Pages
      <4>3. QED
        BY <2>3, <4>2, NotedIs
    <3>2. \A p \in Area : mm.pt[<<e, p>>] = NoEntry
      BY <3>1 DEF GoodInv, HomesOK, PagesAtHome, IsHome
    <3>3. QED
      BY <3>2 DEF GoodInv, TablesUsed, TableUsed
  <2>4. QED
    BY <2>2, <2>3
<1>2. QED
  BY <1>1, SharedMemoryInvariant, PTL
=============================================================================
