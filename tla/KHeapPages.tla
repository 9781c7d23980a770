----------------------------- MODULE KHeapPages -----------------------------
(***************************************************************************)
(* Proofs about the pages of KHeap, on top of those about its blocks       *)
(* (KHeapProofs), and that KHeap implements Heap.                          *)
(*                                                                         *)
(* The pages (PagesInv), on top of KHeapInv: every frame is free once or   *)
(* has the one page it names as its base; the callers hold runs of pages   *)
(* that do not overlap and can be told apart by the marks in the page      *)
(* tables, and freePagesList_KH has all other pages, joined and in order.  *)
(* From bottom to top: page numbers, frames, the loops that map and unmap  *)
(* a run, runs and their marks, taking from the list and giving back to    *)
(* it, the calls, and then PagesPartition and FramesConserved.             *)
(*                                                                         *)
(* The promise of Heap, from both: with the present sizes of all blocks    *)
(* and runs as what was asked for, the lemmas about the calls say that     *)
(* each leaves every region but its own exactly as it was.  The regions    *)
(* are tied to the tags and page tables, and each call is a step of Heap.  *)
(***************************************************************************)
EXTENDS KHeapProofs

-----------------------------------------------------------------------------
(* The pages of the heap by their numbers *)

PageAt(i) == KERNEL_HEAP_START + i * PAGE_SIZE
LastNo    == BlockPages + PagePages
PageNos   == 0 .. LastNo                      \* all pages
AreaNos   == BlockPages + 1 .. LastNo         \* those of the page allocator

\* Page numbers.
LEMMA PageNumbers ==
  /\ BlockPages \in Nat /\ BlockPages >= 1 /\ PagePages \in Nat /\ PagePages >= 1 /\ LastNo \in Nat
  /\ BlockPages + 1 <= LastNo /\ AreaNos \subseteq PageNos /\ PageNos \subseteq Nat
<1>1. BlockPages \in Nat \ {0} /\ PagePages \in Nat \ {0}
  BY KHeapAssumption
<1>2. QED
  BY <1>1 DEF LastNo, AreaNos, PageNos

\* Moving on by pages.
LEMMA PageAdd ==
  ASSUME NEW i \in Int, NEW n \in Int
  PROVE  PageAt(i) \in Int /\ PageAt(i) + n * PAGE_SIZE = PageAt(i + n)
<1> DEFINE P == PAGE_SIZE
           s == KERNEL_HEAP_START
<1>1. P \in Int /\ s \in Int
  BY PageType, StartType
<1> HIDE DEF P, s
<1>2. i * P \in Int /\ n * P \in Int /\ (i + n) * P = i * P + n * P
  BY <1>1
<1>3. s + i * P \in Int /\ (s + i * P) + n * P = s + (i + n) * P
  BY <1>1, <1>2
<1>4. QED
  BY <1>3 DEF PageAt, P, s

\* The order of the pages is that of their addresses.
LEMMA PageOrder ==
  ASSUME NEW i \in Int, NEW j \in Int
  PROVE  /\ PageAt(i) < PageAt(j) <=> i < j
         /\ PageAt(i) <= PageAt(j) <=> i <= j
         /\ PageAt(i) = PageAt(j) <=> i = j
<1> DEFINE P == PAGE_SIZE
           a == PageAt(i)
           b == PageAt(j)
           d == (j - i) * P
<1>1. P \in Nat /\ P >= 32
  BY PageType
<1>2. a \in Int /\ b \in Int /\ a + d = b
  BY PageAdd
<1> HIDE DEF P, a, b
<1>3. d \in Int /\ (j - i > 0 => d > 0) /\ (j - i < 0 => d < 0) /\ (j - i = 0 => d = 0)
  <2> DEFINE k == j - i
  <2>1. k \in Int /\ d = k * P
    OBVIOUS
  <2> HIDE DEF k
  <2>2. k * P \in Int /\ (k > 0 => k * P > 0) /\ (k < 0 => k * P < 0) /\ (k = 0 => k * P = 0)
    BY <1>1, <2>1
  <2>3. QED
    BY <2>1, <2>2 DEF k
<1> HIDE DEF d
<1>4. QED
  BY <1>2, <1>3 DEF a, b

\* Where the parts of the heap begin and end.
LEMMA PageBorders ==
  /\ PageAddresses = {PageAt(i) : i \in PageNos}
  /\ HARD_LIMIT = PageAt(BlockPages) /\ PAGE_START = PageAt(BlockPages + 1)
  /\ KERNEL_HEAP_MAX = PageAt(LastNo + 1) /\ KERNEL_HEAP_START = PageAt(0)
  /\ \A i \in Int : PageAt(i) + PAGE_SIZE = PageAt(i + 1) /\ PageAt(i) - PAGE_SIZE = PageAt(i - 1)
<1>1. BlockPages \in Int /\ PagePages \in Int /\ PAGE_SIZE \in Int /\ KERNEL_HEAP_START \in Int
  BY PageNumbers, PageType, StartType
<1>2. PageAddresses = {PageAt(i) : i \in PageNos}
  BY DEF PageAddresses, PageNos, LastNo, PageAt
<1>3. HARD_LIMIT = PageAt(BlockPages)
  BY DEF HARD_LIMIT, PageAt
<1>4. ASSUME NEW i \in Int
      PROVE  PageAt(i) + PAGE_SIZE = PageAt(i + 1) /\ PageAt(i) - PAGE_SIZE = PageAt(i - 1)
  <2>1. PageAt(i) \in Int /\ PageAt(i) + 1 * PAGE_SIZE = PageAt(i + 1)
    BY PageAdd
  <2>2. PageAt(i - 1) \in Int /\ PageAt(i - 1) + 1 * PAGE_SIZE = PageAt((i - 1) + 1)
    BY PageAdd
  <2>3. (i - 1) + 1 = i /\ 1 * PAGE_SIZE = PAGE_SIZE
    BY <1>1
  <2>4. QED
    BY <1>1, <2>1, <2>2, <2>3
<1>5. PAGE_START = PageAt(BlockPages + 1)
  BY <1>1, <1>3, <1>4 DEF PAGE_START
<1>6. KERNEL_HEAP_MAX = PageAt(LastNo + 1)
  <2>1. PageAt(BlockPages + 1) + PagePages * PAGE_SIZE = PageAt((BlockPages + 1) + PagePages)
    BY <1>1, PageAdd
  <2>2. (BlockPages + 1) + PagePages = LastNo + 1
    BY <1>1 DEF LastNo
  <2>3. QED
    BY <1>5, <2>1, <2>2 DEF KERNEL_HEAP_MAX
<1>7. KERNEL_HEAP_START = PageAt(0)
  <2>1. 0 * PAGE_SIZE = 0
    BY <1>1
  <2>2. QED
    BY <1>1, <2>1 DEF PageAt
<1>8. QED
  BY <1>2, <1>3, <1>4, <1>5, <1>6, <1>7

-----------------------------------------------------------------------------
(* Frames, each owned by one page *)

KernelPages == {K(PageAt(i)) : i \in PageNos}

\* A frame is free, once, or has one page, the one it names as its base.
FramesExact(m) ==
  /\ m \in MemoriesFor(1 .. FrameCount, KernelPages) /\ NoDup(m.free)
  /\ \A f \in 1 .. FrameCount :
       /\ f \in Elems(m.free) <=> m.ref[f] = 0
       /\ m.ref[f] # 0 => m.ref[f] = 1 /\ m.base[f] \in KernelPages /\ m.pt[m.base[f]].frame = f
  /\ \A p \in KernelPages :
       /\ m.pt[p].frame # NoFrame => m.ref[m.pt[p].frame] = 1 /\ m.base[m.pt[p].frame] = p
       /\ m.pt[p].frame # NoFrame <=> "P" \in m.pt[p].perm

\* Such a memory is one of CommonTheorems.
LEMMA KMemory ==
  ASSUME NEW m
  PROVE  m \in MemoriesFor(1 .. FrameCount, KernelPages)
           <=> IsMemory(m) /\ DOMAIN m.ref = 1 .. FrameCount /\ DOMAIN m.pt = KernelPages
<1>1. NoFrame \notin 1 .. FrameCount
  BY DEF NoFrame
<1>2. ASSUME m \in MemoriesFor(1 .. FrameCount, KernelPages)
      PROVE  DOMAIN m.ref = 1 .. FrameCount /\ DOMAIN m.pt = KernelPages
  BY <1>2 DEF MemoriesFor
<1>3. QED
  BY <1>1, <1>2 DEF IsMemory

\* Its parts.
LEMMA KMemoryTypes ==
  ASSUME NEW m, FramesExact(m)
  PROVE  /\ IsMemory(m) /\ DOMAIN m.ref = 1 .. FrameCount /\ DOMAIN m.pt = KernelPages
         /\ m.free \in Seq(1 .. FrameCount) /\ m.ref \in [1 .. FrameCount -> Int]
         /\ m.pt \in [KernelPages -> EntriesFor(1 .. FrameCount)]
         /\ m.base \in [1 .. FrameCount -> KernelPages \union {NoPage}]
         /\ \A p \in KernelPages : /\ m.pt[p].frame \in (1 .. FrameCount) \union {NoFrame}
                                   /\ m.pt[p].perm \in SUBSET Perms
                                   /\ m.pt[p] = [frame |-> m.pt[p].frame, perm |-> m.pt[p].perm]
<1>1. m \in MemoriesFor(1 .. FrameCount, KernelPages)
  BY DEF FramesExact
<1>2. IsMemory(m) /\ DOMAIN m.ref = 1 .. FrameCount /\ DOMAIN m.pt = KernelPages
  BY <1>1, KMemory
<1>3. /\ m.free \in Seq(1 .. FrameCount) /\ m.ref \in [1 .. FrameCount -> Int]
      /\ m.pt \in [KernelPages -> EntriesFor(1 .. FrameCount)]
      /\ m.base \in [1 .. FrameCount -> KernelPages \union {NoPage}]
  BY <1>1 DEF MemoriesFor
<1>4. QED
  BY <1>2, <1>3 DEF EntriesFor

\* The base that each operator leaves.
LEMMA BaseOfAllocated ==
  ASSUME NEW m, IsMemory(m), m.free # <<>>
  PROVE  allocate_frame(m).base = [m.base EXCEPT ![FreeFrame(m)] = NoPage]
<1> DEFINE f == FreeFrame(m)
           a == [m EXCEPT !.free = Tail(m.free)]
           b == [a EXCEPT !.ref[f] = 0]
           c == [b EXCEPT !.base[f] = NoPage]
<1>1. allocate_frame(m) = c
  BY DEF allocate_frame, initialize_frame_info
<1>2. DOMAIN m = {"free", "ref", "base", "pt"}
  BY DEF IsMemory, MemoriesFor
<1> HIDE DEF f
<1>3. a.base = m.base /\ DOMAIN a = DOMAIN m
  BY <1>2
<1> HIDE DEF a
<1>4. b.base = a.base /\ DOMAIN b = DOMAIN a
  BY <1>2, <1>3
<1> HIDE DEF b
<1>5. c.base = [b.base EXCEPT ![f] = NoPage]
  BY <1>2, <1>3, <1>4
<1>6. QED
  BY <1>1, <1>3, <1>4, <1>5 DEF f

\* map_frame() notes the page.
LEMMA BaseOfMapped ==
  ASSUME NEW m, IsMemory(m), NEW p \in DOMAIN m.pt, NEW f, NEW perm, "P" \notin m.pt[p].perm
  PROVE  map_frame(m, f, p, perm).base = [m.base EXCEPT ![f] = p]
<1> DEFINE new == Mapped(m, f, p, perm)
           a == [m EXCEPT !.ref[f] = m.ref[f] + 1]
           b == [a EXCEPT !.base[f] = p]
           c == [b EXCEPT !.pt[p] = new]
<1>1. map_frame(m, f, p, perm) = c
  BY DEF map_frame, Mapped
<1>2. DOMAIN m = {"free", "ref", "base", "pt"}
  BY DEF IsMemory, MemoriesFor
<1> HIDE DEF new
<1>3. a.base = m.base /\ DOMAIN a = DOMAIN m
  BY <1>2
<1> HIDE DEF a
<1>4. b.base = [a.base EXCEPT ![f] = p] /\ DOMAIN b = DOMAIN a
  BY <1>2, <1>3
<1> HIDE DEF b
<1>5. c.base = b.base
  BY <1>2, <1>3, <1>4
<1>6. QED
  BY <1>1, <1>3, <1>4, <1>5

\* unmap_frame() forgets it.
LEMMA BaseOfUnmapped ==
  ASSUME NEW m, IsMemory(m), NEW p \in DOMAIN m.pt, NEW f \in DOMAIN m.ref, m.pt[p].frame = f,
         m.ref[f] = 1
  PROVE  unmap_frame(m, p).base = [m.base EXCEPT ![f] = NoPage]
<1> DEFINE n == [frame |-> NoFrame, perm |-> m.pt[p].perm \intersect PERM_AVAILABLE]
           a == [m EXCEPT !.ref[f] = m.ref[f] - 1]
           b == [a EXCEPT !.free = <<f>> \o a.free]
           c == [b EXCEPT !.ref[f] = 0]
           d == [c EXCEPT !.base[f] = NoPage]
           u(v) == [d EXCEPT !.pt[p] = v]
           w(v) == [u(v) EXCEPT !.base[f] = NoPage]
<1>1. f # NoFrame /\ f \in DOMAIN m.base /\ m.ref[f] \in Int
  BY DEF IsMemory, MemoriesFor
<1>2. DOMAIN m = {"free", "ref", "base", "pt"}
  BY DEF IsMemory, MemoriesFor
<1>3. a.base = m.base /\ DOMAIN a = DOMAIN m /\ a.ref[f] = 0
  BY <1>1, <1>2 DEF IsMemory, MemoriesFor
<1>4. decrement_references(m, f) = d
  BY <1>3 DEF decrement_references, free_frame, initialize_frame_info
<1>5. unmap_frame(m, p) =
        [decrement_references(m, f) EXCEPT
           !.pt[p] = [frame |-> NoFrame, perm |-> decrement_references(m, f).pt[p].perm \intersect PERM_AVAILABLE],
           !.base[f] = NoPage]
  BY <1>1 DEF unmap_frame, get_frame_info
<1>6. \E v : unmap_frame(m, p) = w(v)
  BY <1>4, <1>5
<1> HIDE DEF a
<1>7. b.base = a.base /\ DOMAIN b = DOMAIN a
  BY <1>2, <1>3
<1> HIDE DEF b
<1>8. c.base = b.base /\ DOMAIN c = DOMAIN b
  BY <1>2, <1>3, <1>7
<1> HIDE DEF c
<1>9. d.base = [c.base EXCEPT ![f] = NoPage] /\ DOMAIN d = DOMAIN c
  BY <1>2, <1>3, <1>7, <1>8
<1> HIDE DEF d
<1>10. ASSUME NEW v
       PROVE  w(v).base = [d.base EXCEPT ![f] = NoPage]
  <2>1. u(v).base = d.base /\ DOMAIN u(v) = DOMAIN d
    BY <1>2, <1>3, <1>7, <1>8, <1>9
  <2> HIDE DEF u
  <2>2. QED
    BY <1>2, <1>3, <1>7, <1>8, <1>9, <2>1
<1>11. [d.base EXCEPT ![f] = NoPage] = [m.base EXCEPT ![f] = NoPage]
  BY <1>1, <1>3, <1>7, <1>8, <1>9
<1>12. QED
  BY <1>6, <1>10, <1>11

\* Only the entry of page p differs.
OthersKept(m, r, p) == \A q \in KernelPages : q # p => r.pt[q] = m.pt[q]

\* r has a frame more in use than m, which page p got with the bits perm.
Filled(m, r, p, perm) ==
  /\ FramesExact(r) /\ Len(r.free) = Len(m.free) - 1 /\ OthersKept(m, r, p)
  /\ r.pt[p].frame # NoFrame
  /\ r.pt[p].perm = (m.pt[p].perm \intersect PERM_AVAILABLE) \union perm \union {"P"}

\* allocate_frame() and map_frame() of a page without a frame.
LEMMA FillPage ==
  ASSUME NEW m, FramesExact(m), m.free # <<>>, NEW p \in KernelPages, m.pt[p].frame = NoFrame,
         NEW perm \in SUBSET Perms
  PROVE  Filled(m, allocate_and_map(m, p, perm), p, perm)
<1> DEFINE f == FreeFrame(m)
           a == allocate_frame(m)
           r == map_frame(a, f, p, perm)
           F == 1 .. FrameCount
<1>1. /\ IsMemory(m) /\ DOMAIN m.ref = F /\ DOMAIN m.pt = KernelPages
      /\ m.free \in Seq(F) /\ m.ref \in [F -> Int]
      /\ m.base \in [F -> KernelPages \union {NoPage}]
      /\ \A q \in KernelPages : m.pt[q].frame \in F \union {NoFrame} /\ m.pt[q].perm \in SUBSET Perms
  BY KMemoryTypes
<1>2. "P" \notin m.pt[p].perm
  BY DEF FramesExact
<1>3. /\ f \in F /\ f \in Elems(m.free) /\ f # NoFrame
      /\ Tail(m.free) \in Seq(F) /\ NoDup(Tail(m.free)) /\ Elems(Tail(m.free)) = Elems(m.free) \ {f}
  <2>1. m.free \in Seq(F) /\ NoDup(m.free) /\ NoFrame \notin F
    BY <1>1 DEF FramesExact, NoFrame
  <2> HIDE DEF F
  <2>2. /\ Tail(m.free) \in Seq(F) /\ NoDup(Tail(m.free)) /\ Head(m.free) \in F
        /\ Head(m.free) \in Elems(m.free) /\ Elems(Tail(m.free)) = Elems(m.free) \ {Head(m.free)}
    BY <2>1, PopList
  <2>3. QED
    BY <2>1, <2>2 DEF FreeFrame
<1>4. /\ IsMemory(a) /\ a.free = Tail(m.free) /\ a.pt = m.pt /\ a.ref = [m.ref EXCEPT ![f] = 0]
      /\ a.base = [m.base EXCEPT ![f] = NoPage]
  BY <1>1, AllocateFrame, BaseOfAllocated
<1>5. r = allocate_and_map(m, p, perm)
  BY DEF allocate_and_map
<1> HIDE DEF a, f
<1>6. DOMAIN a.ref = F /\ DOMAIN a.pt = KernelPages /\ a.ref[f] = 0
  BY <1>1, <1>3, <1>4
<1>7. /\ IsMemory(r) /\ r.free = a.free /\ r.ref = [a.ref EXCEPT ![f] = a.ref[f] + 1]
      /\ r.pt = [a.pt EXCEPT ![p] = Mapped(a, f, p, perm)] /\ r.base = [a.base EXCEPT ![f] = p]
  <2>1. p \in DOMAIN a.pt /\ f \in DOMAIN a.ref /\ "P" \notin a.pt[p].perm
    BY <1>2, <1>3, <1>4, <1>6
  <2>2. /\ IsMemory(r) /\ r.free = a.free /\ r.ref = [a.ref EXCEPT ![f] = a.ref[f] + 1]
        /\ r.pt = [a.pt EXCEPT ![p] = Mapped(a, f, p, perm)]
    BY <1>4, <2>1, MapFrame
  <2>3. IsMemory(a) /\ p \in DOMAIN a.pt /\ "P" \notin a.pt[p].perm
    BY <1>4, <2>1
  <2>5. r.base = [a.base EXCEPT ![f] = p]
    BY ONLY <2>3, BaseOfMapped
  <2>4. QED
    BY <2>2, <2>5
<1> HIDE DEF r
<1>8. /\ r.ref[f] = 1 /\ r.base[f] = p
      /\ \A g \in F : g # f => r.ref[g] = m.ref[g] /\ r.base[g] = m.base[g]
  <2>1. DOMAIN m.base = F /\ DOMAIN m.ref = F
    BY <1>1
  <2>2. DOMAIN a.base = F /\ \A g \in F : g # f => a.base[g] = m.base[g] /\ a.ref[g] = m.ref[g]
    BY <1>4, <2>1
  <2> HIDE DEF F
  <2>3. r.base[f] = p /\ \A g \in F : g # f => r.base[g] = a.base[g]
    BY <1>3, <1>7, <2>2
  <2>4. r.ref[f] = 1 /\ \A g \in F : g # f => r.ref[g] = a.ref[g]
    BY <1>3, <1>6, <1>7
  <2>5. QED
    BY <2>2, <2>3, <2>4
<1>9. /\ r.pt[p].frame = f
      /\ r.pt[p].perm = (m.pt[p].perm \intersect PERM_AVAILABLE) \union perm \union {"P"}
      /\ \A q \in KernelPages : q # p => r.pt[q] = m.pt[q]
  BY <1>1, <1>4, <1>6, <1>7 DEF Mapped
<1>10. DOMAIN r.ref = F /\ DOMAIN r.pt = KernelPages
  BY <1>1, <1>4, <1>6, <1>7
<1>11. r \in MemoriesFor(F, KernelPages)
  BY <1>7, <1>10, KMemory
<1>12. m.ref[f] = 0 /\ NoDup(r.free) /\ Elems(r.free) = Elems(m.free) \ {f}
  BY <1>3, <1>4, <1>7 DEF FramesExact
<1>13. ASSUME NEW g \in F
       PROVE  /\ g \in Elems(r.free) <=> r.ref[g] = 0
              /\ r.ref[g] # 0 => r.ref[g] = 1 /\ r.base[g] \in KernelPages /\ r.pt[r.base[g]].frame = g
  <2>1. CASE g = f
    BY <1>8, <1>9, <1>12, <2>1
  <2>2. CASE g # f
    <3>1. g \in Elems(r.free) <=> r.ref[g] = 0
      BY <1>8, <1>12, <2>2 DEF FramesExact
    <3>2. ASSUME r.ref[g] # 0
          PROVE  r.ref[g] = 1 /\ r.base[g] \in KernelPages /\ r.pt[r.base[g]].frame = g
      <4>1. m.ref[g] = 1 /\ m.base[g] \in KernelPages /\ m.pt[m.base[g]].frame = g
        BY <1>8, <2>2, <3>2 DEF FramesExact
      <4>2. m.base[g] # p
        BY <4>1 DEF NoFrame
      <4>3. QED
        BY <1>8, <1>9, <2>2, <4>1, <4>2
    <3>3. QED
      BY <3>1, <3>2
  <2>3. QED
    BY <2>1, <2>2
<1>14. ASSUME NEW q \in KernelPages
       PROVE  /\ r.pt[q].frame # NoFrame => r.ref[r.pt[q].frame] = 1 /\ r.base[r.pt[q].frame] = q
              /\ r.pt[q].frame # NoFrame <=> "P" \in r.pt[q].perm
  <2>1. CASE q = p
    BY <1>3, <1>8, <1>9, <2>1
  <2>2. CASE q # p
    <3>1. r.pt[q] = m.pt[q] /\ m.pt[q].frame \in F \union {NoFrame}
      BY <1>1, <1>9, <2>2
    <3>2. ASSUME m.pt[q].frame # NoFrame
          PROVE  r.ref[m.pt[q].frame] = 1 /\ r.base[m.pt[q].frame] = q
      <4>1. m.ref[m.pt[q].frame] = 1 /\ m.base[m.pt[q].frame] = q /\ m.pt[q].frame \in F
        BY <3>1, <3>2 DEF FramesExact
      <4>2. m.pt[q].frame # f
        BY <1>12, <4>1
      <4>3. QED
        BY <1>8, <4>1, <4>2
    <3>3. QED
      BY <3>1, <3>2 DEF FramesExact
  <2>3. QED
    BY <2>1, <2>2
<1>15. FramesExact(r)
  BY <1>11, <1>12, <1>13, <1>14 DEF FramesExact
<1>16. Len(r.free) = Len(m.free) - 1
  BY <1>1, <1>4, <1>7
<1>17. QED
  BY <1>3, <1>5, <1>9, <1>15, <1>16 DEF Filled, OthersKept

\* r is m without the frame of page p, and without its marks.
Emptied(m, r, p) == FramesExact(r) /\ OthersKept(m, r, p) /\ r.pt[p] = NoEntry

\* unmap_frame() gives the frame of a page back.
LEMMA DropFrame ==
  ASSUME NEW m, FramesExact(m), NEW p \in KernelPages, m.pt[p].frame # NoFrame,
         m.pt[p].perm \intersect PERM_AVAILABLE = {}
  PROVE  Emptied(m, unmap_frame(m, p), p)
<1> DEFINE f == m.pt[p].frame
           r == unmap_frame(m, p)
           F == 1 .. FrameCount
<1>1. /\ IsMemory(m) /\ DOMAIN m.ref = F /\ DOMAIN m.pt = KernelPages
      /\ m.free \in Seq(F) /\ m.ref \in [F -> Int]
      /\ m.base \in [F -> KernelPages \union {NoPage}]
      /\ \A q \in KernelPages : m.pt[q].frame \in F \union {NoFrame} /\ m.pt[q].perm \in SUBSET Perms
  BY KMemoryTypes
<1>2. f \in F /\ m.ref[f] = 1 /\ m.base[f] = p /\ f \notin Elems(m.free) /\ f # NoFrame
  BY <1>1 DEF FramesExact, NoFrame
<1>3. /\ IsMemory(r) /\ r.free = IF m.ref[f] = 1 THEN <<f>> \o m.free ELSE m.free
      /\ r.ref = [m.ref EXCEPT ![f] = m.ref[f] - 1]
      /\ r.pt = [m.pt EXCEPT ![p] = Unmapped(m, p)]
  <2>1. p \in DOMAIN m.pt /\ f \in DOMAIN m.ref
    BY <1>1, <1>2
  <2>2. m.pt[p].frame = f
    OBVIOUS
  <2> HIDE DEF f
  <2>3. IsMemory(m)
    BY <1>1
  <2>4. QED
    BY ONLY <2>1, <2>2, <2>3, UnmapFrame
<1>4. r.base = [m.base EXCEPT ![f] = NoPage]
  BY <1>1, <1>2, BaseOfUnmapped
<1> HIDE DEF r
<1>5. r.free = <<f>> \o m.free /\ r.ref = [m.ref EXCEPT ![f] = 0]
  BY <1>2, <1>3
<1>6. r.pt[p] = NoEntry /\ \A q \in KernelPages : q # p => r.pt[q] = m.pt[q]
  BY <1>1, <1>3 DEF Unmapped, NoEntry
<1> HIDE DEF f
<1>7. /\ r.ref[f] = 0
      /\ \A g \in F : g # f => r.ref[g] = m.ref[g] /\ r.base[g] = m.base[g]
  BY <1>1, <1>2, <1>4, <1>5
<1>8. DOMAIN r.ref = F /\ DOMAIN r.pt = KernelPages
  BY <1>1, <1>3, <1>5
<1>9. r \in MemoriesFor(F, KernelPages)
  BY <1>3, <1>8, KMemory
<1>10. NoDup(r.free) /\ Elems(r.free) = Elems(m.free) \union {f}
  <2>1. NoDup(m.free) /\ m.free \in Seq(F)
    BY <1>1 DEF FramesExact
  <2> HIDE DEF F
  <2>2. QED
    BY <1>2, <1>5, <2>1, PushList
<1>11. ASSUME NEW g \in F
       PROVE  /\ g \in Elems(r.free) <=> r.ref[g] = 0
              /\ r.ref[g] # 0 => r.ref[g] = 1 /\ r.base[g] \in KernelPages /\ r.pt[r.base[g]].frame = g
  <2>1. CASE g = f
    BY <1>7, <1>10, <2>1
  <2>2. CASE g # f
    <3>1. g \in Elems(r.free) <=> r.ref[g] = 0
      BY <1>7, <1>10, <2>2 DEF FramesExact
    <3>2. ASSUME r.ref[g] # 0
          PROVE  r.ref[g] = 1 /\ r.base[g] \in KernelPages /\ r.pt[r.base[g]].frame = g
      <4>1. m.ref[g] = 1 /\ m.base[g] \in KernelPages /\ m.pt[m.base[g]].frame = g
        BY <1>7, <2>2, <3>2 DEF FramesExact
      <4>2. m.base[g] # p
        BY <2>2, <4>1 DEF f
      <4>3. QED
        BY <1>6, <1>7, <2>2, <4>1, <4>2
    <3>3. QED
      BY <3>1, <3>2
  <2>3. QED
    BY <2>1, <2>2
<1>12. ASSUME NEW q \in KernelPages
       PROVE  /\ r.pt[q].frame # NoFrame => r.ref[r.pt[q].frame] = 1 /\ r.base[r.pt[q].frame] = q
              /\ r.pt[q].frame # NoFrame <=> "P" \in r.pt[q].perm
  <2>1. CASE q = p
    BY <1>6, <2>1 DEF NoEntry
  <2>2. CASE q # p
    <3>1. r.pt[q] = m.pt[q] /\ m.pt[q].frame \in F \union {NoFrame}
      BY <1>1, <1>6, <2>2
    <3>2. ASSUME m.pt[q].frame # NoFrame
          PROVE  r.ref[m.pt[q].frame] = 1 /\ r.base[m.pt[q].frame] = q
      <4>1. m.ref[m.pt[q].frame] = 1 /\ m.base[m.pt[q].frame] = q /\ m.pt[q].frame \in F
        BY <3>1, <3>2 DEF FramesExact
      <4>2. m.pt[q].frame # f
        BY <1>2, <2>2, <4>1
      <4>3. QED
        BY <1>7, <4>1, <4>2
    <3>3. QED
      BY <3>1, <3>2 DEF FramesExact
  <2>3. QED
    BY <2>1, <2>2
<1>13. FramesExact(r)
  BY <1>9, <1>10, <1>11, <1>12 DEF FramesExact
<1>14. QED
  BY <1>6, <1>13 DEF Emptied, OthersKept, r

\* The marks of a page go, and then its frame.
LEMMA EmptyPage ==
  ASSUME NEW m, FramesExact(m), NEW p \in KernelPages, m.pt[p].frame # NoFrame
  PROVE  Emptied(m, unmap_frame(pt_set_page_permissions(m, p, {}, PERM_AVAILABLE), p), p)
<1> DEFINE v == [frame |-> m.pt[p].frame, perm |-> m.pt[p].perm \ PERM_AVAILABLE]
           a == [m EXCEPT !.pt[p] = v]
           r == unmap_frame(a, p)
           F == 1 .. FrameCount
<1>1. /\ IsMemory(m) /\ DOMAIN m.ref = F /\ DOMAIN m.pt = KernelPages
      /\ \A q \in KernelPages : m.pt[q].frame \in F \union {NoFrame} /\ m.pt[q].perm \in SUBSET Perms
      /\ m.pt[p] = [frame |-> m.pt[p].frame, perm |-> m.pt[p].perm]
  BY KMemoryTypes
<1>2. [m.pt[p] EXCEPT !.perm = (m.pt[p].perm \union {}) \ PERM_AVAILABLE] = v
  <2> DEFINE e == m.pt[p]
             b == e.perm
             u == (b \union {}) \ PERM_AVAILABLE
  <2>1. e = [frame |-> e.frame, perm |-> b] /\ u = b \ PERM_AVAILABLE
    BY <1>1
  <2>2. DOMAIN e = {"frame", "perm"}
    BY <2>1
  <2> HIDE DEF e, u, b
  <2>3. [e EXCEPT !.perm = u] = [frame |-> e.frame, perm |-> u]
    BY <2>2
  <2>4. QED
    BY <2>1, <2>3 DEF e, u, b
<1>3. pt_set_page_permissions(m, p, {}, PERM_AVAILABLE) = a
  BY <1>2 DEF pt_set_page_permissions
<1>4. v \in EntriesFor(F)
  BY <1>1 DEF EntriesFor
<1>5. /\ v.frame = m.pt[p].frame /\ v.perm \intersect PERM_AVAILABLE = {}
      /\ "P" \in v.perm <=> "P" \in m.pt[p].perm
  BY DEF PERM_AVAILABLE
<1>6. a.base = m.base
  BY <1>1 DEF IsMemory, MemoriesFor
<1> HIDE DEF v
<1>7. IsMemory(a) /\ a.free = m.free /\ a.ref = m.ref /\ a.pt = [m.pt EXCEPT ![p] = v]
  BY <1>1, <1>4, SetEntry
<1> HIDE DEF a
<1>8. a.pt[p] = v /\ \A q \in KernelPages : q # p => a.pt[q] = m.pt[q]
  BY <1>1, <1>7
<1>9. \A q \in KernelPages : a.pt[q].frame = m.pt[q].frame /\ ("P" \in a.pt[q].perm <=> "P" \in m.pt[q].perm)
  BY <1>5, <1>8
<1>10. a \in MemoriesFor(F, KernelPages)
  BY <1>1, <1>7, KMemory
<1>11. FramesExact(a)
  BY <1>6, <1>7, <1>9, <1>10 DEF FramesExact
<1>12. Emptied(a, r, p)
  BY <1>5, <1>8, <1>11, DropFrame
<1>13. QED
  BY <1>3, <1>8, <1>12 DEF Emptied, OthersKept

-----------------------------------------------------------------------------
(* Runs of pages *)

Key(j)      == K(PageAt(j))
Entry(m, j) == m.pt[Key(j)]

\* The keys of the pages.
LEMMA Keys ==
  /\ KernelPages = {Key(j) : j \in PageNos}
  /\ \A i, j \in PageNos : Key(i) = Key(j) <=> i = j
<1>1. ASSUME NEW i \in PageNos, NEW j \in PageNos
      PROVE  Key(i) = Key(j) <=> i = j
  <2>1. i \in Int /\ j \in Int
    BY DEF PageNos
  <2>2. PageAt(i) = PageAt(j) <=> i = j
    BY <2>1, PageOrder
  <2>3. QED
    BY <2>2 DEF Key, K
<1>2. QED
  BY <1>1 DEF KernelPages, Key

InRun(j, v, n) == v <= j /\ j < v + n

\* The n pages from number v on have got frames, the first the bits g[1] and so on.
RunFilled(m, r, v, n, g) ==
  /\ FramesExact(r) /\ Len(r.free) = Len(m.free) - n
  /\ \A j \in PageNos : IF InRun(j, v, n)
                        THEN Entry(r, j).frame # NoFrame /\ Entry(r, j).perm = g[j - v + 1] \union {"P"}
                        ELSE Entry(r, j) = Entry(m, j)

\* The pages of a run are pages, and have nothing.
RunEmpty(m, v, n) == \A j \in Int : InRun(j, v, n) => j \in PageNos /\ Entry(m, j) = NoEntry

\* One round of MapRun().
LEMMA FillNext ==
  ASSUME NEW m, FramesExact(m), NEW n \in Nat, Len(m.free) >= n, NEW v \in Int, RunEmpty(m, v, n),
         NEW g \in [1 .. n -> SUBSET Perms], NEW l \in 1 .. n, NEW y, RunFilled(m, y, v, l - 1, g)
  PROVE  RunFilled(m, allocate_and_map(y, Key(v + l - 1), g[l]), v, l, g)
<1> DEFINE c == v + l - 1
           p == Key(c)
           r == allocate_and_map(y, p, g[l])
<1>1. /\ l \in Int /\ l >= 1 /\ l <= n /\ l - 1 \in Nat /\ c \in Int /\ InRun(c, v, n)
      /\ ~InRun(c, v, l - 1) /\ v + (l - 1) = c /\ c - v + 1 = l
  BY DEF InRun
<1>2. g[l] \in SUBSET Perms
  OBVIOUS
<1> HIDE DEF c
<1>3. c \in PageNos /\ Entry(m, c) = NoEntry
  BY <1>1 DEF RunEmpty
<1>4. p \in KernelPages /\ FramesExact(y) /\ y.pt[p] = NoEntry
  BY <1>1, <1>3, Keys DEF RunFilled, Entry
<1>5. y.free # <<>> /\ Len(y.free) = Len(m.free) - (l - 1) /\ Len(m.free) \in Int
  <2>1. m.free \in Seq(1 .. FrameCount) /\ y.free \in Seq(1 .. FrameCount)
    BY <1>4, KMemoryTypes
  <2>2. Len(m.free) \in Nat /\ (y.free = <<>> => Len(y.free) = 0)
    BY <2>1
  <2>3. Len(y.free) = Len(m.free) - (l - 1)
    BY DEF RunFilled
  <2>4. QED
    BY <1>1, <2>2, <2>3
<1>6. y.pt[p].frame = NoFrame /\ y.pt[p].perm = {}
  BY <1>4 DEF NoEntry
<1>7. Filled(y, r, p, g[l])
  BY <1>2, <1>4, <1>5, <1>6, FillPage
<1> HIDE DEF r
<1>8. ASSUME NEW j \in PageNos
      PROVE  IF InRun(j, v, l)
             THEN Entry(r, j).frame # NoFrame /\ Entry(r, j).perm = g[j - v + 1] \union {"P"}
             ELSE Entry(r, j) = Entry(m, j)
  <2>1. j \in Int /\ Key(j) \in KernelPages
    BY Keys DEF PageNos
  <2>2. CASE j = c
    <3>1. InRun(j, v, l)
      BY <1>1, <2>2 DEF InRun
    <3>2. Entry(r, j).frame # NoFrame /\ Entry(r, j).perm = g[l] \union {"P"}
      BY <1>6, <1>7, <2>2 DEF Filled, Entry
    <3>3. QED
      BY <1>1, <2>2, <3>1, <3>2
  <2>3. CASE j # c
    <3>1. InRun(j, v, l) <=> InRun(j, v, l - 1)
      BY <1>1, <2>1, <2>3 DEF InRun
    <3>2. Key(j) # p
      BY <1>3, <2>3, Keys
    <3>3. Entry(r, j) = Entry(y, j)
      BY <1>7, <2>1, <3>2 DEF Filled, OthersKept, Entry
    <3>4. QED
      BY <3>1, <3>3 DEF RunFilled
  <2>4. QED
    BY <2>2, <2>3
<1>9. FramesExact(r) /\ Len(r.free) = Len(m.free) - l
  BY <1>1, <1>5, <1>7 DEF Filled
<1>10. QED
  BY <1>8, <1>9 DEF RunFilled, r, c

\* The rounds of MapRun() that give the pages the bits of g.
FillsBy(run, m, v, n, g) ==
  run = [i \in 0 .. n |-> IF i = 0 THEN m
           ELSE allocate_and_map(run[i - 1], K(PageAt(v) + (i - 1) * PAGE_SIZE), g[i])]

\* All rounds of MapRun().
LEMMA FillRounds ==
  ASSUME NEW m, FramesExact(m), NEW n \in Nat, Len(m.free) >= n, NEW v \in Int, RunEmpty(m, v, n),
         NEW g \in [1 .. n -> SUBSET Perms]
  PROVE  /\ \E run : FillsBy(run, m, v, n, g)
         /\ \A run : FillsBy(run, m, v, n, g) => RunFilled(m, run[n], v, n, g)
<1> DEFINE Good(i) == {y \in MemoriesFor(1 .. FrameCount, KernelPages) : RunFilled(m, y, v, i, g)}
           D == [i \in 0 .. n |-> Good(i)]
           G == [i \in 1 .. n |-> [y \in Good(i - 1) |-> allocate_and_map(y, Key(v + i - 1), g[i])]]
           at(i) == K(PageAt(v) + (i - 1) * PAGE_SIZE)
<1>1. \A i \in 1 .. n : at(i) = Key(v + i - 1)
  <2>1. ASSUME NEW i \in 1 .. n
        PROVE  at(i) = Key(v + i - 1)
    <3>1. i - 1 \in Int /\ v + (i - 1) = v + i - 1
      OBVIOUS
    <3>2. PageAt(v) + (i - 1) * PAGE_SIZE = PageAt(v + (i - 1))
      BY <3>1, PageAdd
    <3>3. QED
      BY <3>1, <3>2 DEF Key
  <2>2. QED
    BY <2>1
<1>2. \A i, y : RunFilled(m, y, v, i, g) => y \in MemoriesFor(1 .. FrameCount, KernelPages)
  BY DEF RunFilled, FramesExact
<1>3. m \in Good(0)
  <2>1. \A j \in PageNos : ~InRun(j, v, 0)
    BY DEF InRun, PageNos
  <2>2. Len(m.free) = Len(m.free) - 0
    <3>1. Len(m.free) \in Int
      BY KMemoryTypes
    <3>2. QED
      BY <3>1
  <2>3. RunFilled(m, m, v, 0, g)
    BY <2>1, <2>2 DEF RunFilled
  <2>4. QED
    BY <1>2, <2>3
<1>4. ASSUME NEW i \in 1 .. n, NEW y \in Good(i - 1)
      PROVE  allocate_and_map(y, Key(v + i - 1), g[i]) \in Good(i)
  <2>1. RunFilled(m, y, v, i - 1, g)
    OBVIOUS
  <2>2. RunFilled(m, allocate_and_map(y, Key(v + i - 1), g[i]), v, i, g)
    BY <2>1, FillNext
  <2>3. QED
    BY <1>2, <2>2
<1> HIDE DEF Good, at
<1>5. m \in D[0] /\ \A i \in 1 .. n : \A y \in D[i - 1] : G[i][y] \in D[i]
  <2>1. 0 \in 0 .. n /\ \A i \in 1 .. n : i - 1 \in 0 .. n /\ i \in 0 .. n
    OBVIOUS
  <2>2. QED
    BY <1>3, <1>4, <2>1
<1>6. PICK u : LoopIs(u, n, m, G) /\ \A i \in 0 .. n : u[i] \in D[i]
  <2> HIDE DEF D, G
  <2>1. QED
    BY <1>5, Loop
<1>7. u = [i \in 0 .. n |-> IF i = 0 THEN m ELSE allocate_and_map(u[i - 1], at(i), g[i])]
  <2>1. ASSUME NEW i \in 1 .. n
        PROVE  G[i][u[i - 1]] = allocate_and_map(u[i - 1], at(i), g[i])
    <3>1. i - 1 \in 0 .. n
      OBVIOUS
    <3>2. u[i - 1] \in Good(i - 1)
      BY <1>6, <3>1
    <3>3. QED
      BY <1>1, <3>2
  <2> HIDE DEF G
  <2>2. \A i \in 0 .. n : i # 0 => i \in 1 .. n
    OBVIOUS
  <2>3. QED
    BY <1>6, <2>1, <2>2 DEF LoopIs
<1>8. FillsBy(u, m, v, n, g)
  BY <1>7 DEF FillsBy, at
<1>9. ASSUME NEW run, FillsBy(run, m, v, n, g)
      PROVE  RunFilled(m, run[n], v, n, g)
  <2> DEFINE S == {i \in Nat : run[i] \in Good(i)}
  <2>0. run = [i \in 0 .. n |-> IF i = 0 THEN m ELSE allocate_and_map(run[i - 1], at(i), g[i])]
    BY <1>9 DEF FillsBy, at
  <2>1. 0 \in S
    <3>1. run[0] = m
      BY <2>0
    <3>2. QED
      BY <1>3, <3>1
  <2>2. ASSUME NEW i \in 0 .. n - 1, i \in S
        PROVE  i + 1 \in S
    <3>1. i + 1 \in 0 .. n /\ i + 1 # 0 /\ (i + 1) - 1 = i /\ i + 1 \in Nat /\ i + 1 \in 1 .. n
      OBVIOUS
    <3>2. run[i + 1] = allocate_and_map(run[i], Key(v + (i + 1) - 1), g[i + 1])
      BY <1>1, <2>0, <3>1
    <3>3. QED
      BY <1>4, <2>2, <3>1, <3>2
  <2> HIDE DEF S
  <2>3. \A i \in 0 .. n : i \in S
    BY <2>1, <2>2, UpTo
  <2>4. run[n] \in Good(n)
    BY <2>3 DEF S
  <2>5. QED
    BY <2>4 DEF Good
<1>10. QED
  BY <1>8, <1>9

\* The pages of the run have nothing any more.
RunEmptied(m, r, v, n) ==
  /\ FramesExact(r)
  /\ \A j \in PageNos : Entry(r, j) = IF InRun(j, v, n) THEN NoEntry ELSE Entry(m, j)

\* All pages of a run have frames.
RunFull(m, v, n) == \A j \in Int : InRun(j, v, n) => j \in PageNos /\ Entry(m, j).frame # NoFrame

clear_page(y, p) == unmap_frame(pt_set_page_permissions(y, p, {}, PERM_AVAILABLE), p)

\* One round of UnmapRun().
LEMMA EmptyNext ==
  ASSUME NEW m, FramesExact(m), NEW n \in Nat, NEW v \in Int, RunFull(m, v, n),
         NEW l \in 1 .. n, NEW y, RunEmptied(m, y, v, l - 1)
  PROVE  RunEmptied(m, clear_page(y, Key(v + l - 1)), v, l)
<1> DEFINE c == v + l - 1
           p == Key(c)
           r == clear_page(y, p)
<1>1. /\ l \in Int /\ l >= 1 /\ l <= n /\ l - 1 \in Nat /\ c \in Int /\ InRun(c, v, n)
      /\ ~InRun(c, v, l - 1) /\ v + (l - 1) = c
  BY DEF InRun
<1> HIDE DEF c
<1>2. c \in PageNos /\ Entry(m, c).frame # NoFrame
  BY <1>1 DEF RunFull
<1>3. p \in KernelPages /\ FramesExact(y) /\ y.pt[p].frame # NoFrame
  BY <1>1, <1>2, Keys DEF RunEmptied, Entry
<1>4. Emptied(y, r, p)
  BY <1>3, EmptyPage DEF clear_page
<1> HIDE DEF r
<1>5. ASSUME NEW j \in PageNos
      PROVE  Entry(r, j) = IF InRun(j, v, l) THEN NoEntry ELSE Entry(m, j)
  <2>1. j \in Int /\ Key(j) \in KernelPages
    BY Keys DEF PageNos
  <2>2. CASE j = c
    <3>1. InRun(j, v, l)
      BY <1>1, <2>2 DEF InRun
    <3>2. Entry(r, j) = NoEntry
      BY <1>4, <2>2 DEF Emptied, Entry
    <3>3. QED
      BY <3>1, <3>2
  <2>3. CASE j # c
    <3>1. InRun(j, v, l) <=> InRun(j, v, l - 1)
      BY <1>1, <2>1, <2>3 DEF InRun
    <3>2. Key(j) # p
      BY <1>2, <2>3, Keys
    <3>3. Entry(r, j) = Entry(y, j)
      BY <1>4, <2>1, <3>2 DEF Emptied, OthersKept, Entry
    <3>4. QED
      BY <3>1, <3>3 DEF RunEmptied
  <2>4. QED
    BY <2>2, <2>3
<1>6. FramesExact(r)
  BY <1>4 DEF Emptied
<1>7. QED
  BY <1>5, <1>6 DEF RunEmptied, r, c

\* UnmapRun() empties a run.
LEMMA EmptyRun ==
  ASSUME NEW m, FramesExact(m), NEW n \in Nat, NEW v \in Int, RunFull(m, v, n)
  PROVE  RunEmptied(m, UnmapRun(m, PageAt(v), n), v, n)
<1> DEFINE Good(i) == {y \in MemoriesFor(1 .. FrameCount, KernelPages) : RunEmptied(m, y, v, i)}
           D == [i \in 0 .. n |-> Good(i)]
           G == [i \in 1 .. n |-> [y \in Good(i - 1) |-> clear_page(y, Key(v + i - 1))]]
           at(i) == K(PageAt(v) + (i - 1) * PAGE_SIZE)
           run == CHOOSE run : run = [i \in 0 .. n |-> IF i = 0 THEN m ELSE clear_page(run[i - 1], at(i))]
<1>1. \A i \in 1 .. n : at(i) = Key(v + i - 1)
  <2>1. ASSUME NEW i \in 1 .. n
        PROVE  at(i) = Key(v + i - 1)
    <3>1. i - 1 \in Int /\ v + (i - 1) = v + i - 1
      OBVIOUS
    <3>2. PageAt(v) + (i - 1) * PAGE_SIZE = PageAt(v + (i - 1))
      BY <3>1, PageAdd
    <3>3. QED
      BY <3>1, <3>2 DEF Key
  <2>2. QED
    BY <2>1
<1>2. \A i, y : RunEmptied(m, y, v, i) => y \in MemoriesFor(1 .. FrameCount, KernelPages)
  BY DEF RunEmptied, FramesExact
<1>3. m \in Good(0)
  <2>1. \A j \in PageNos : ~InRun(j, v, 0)
    BY DEF InRun, PageNos
  <2>2. RunEmptied(m, m, v, 0)
    BY <2>1 DEF RunEmptied
  <2>3. QED
    BY <1>2, <2>2
<1>4. ASSUME NEW i \in 1 .. n, NEW y \in Good(i - 1)
      PROVE  clear_page(y, Key(v + i - 1)) \in Good(i)
  <2>1. RunEmptied(m, y, v, i - 1)
    OBVIOUS
  <2>2. RunEmptied(m, clear_page(y, Key(v + i - 1)), v, i)
    BY <2>1, EmptyNext
  <2>3. QED
    BY <1>2, <2>2
<1> HIDE DEF Good, at
<1>5. m \in D[0] /\ \A i \in 1 .. n : \A y \in D[i - 1] : G[i][y] \in D[i]
  <2>1. 0 \in 0 .. n /\ \A i \in 1 .. n : i - 1 \in 0 .. n /\ i \in 0 .. n
    OBVIOUS
  <2>2. QED
    BY <1>3, <1>4, <2>1
<1>6. PICK u : LoopIs(u, n, m, G) /\ \A i \in 0 .. n : u[i] \in D[i]
  <2> HIDE DEF D, G
  <2>1. QED
    BY <1>5, Loop
<1>7. u = [i \in 0 .. n |-> IF i = 0 THEN m ELSE clear_page(u[i - 1], at(i))]
  <2>1. ASSUME NEW i \in 1 .. n
        PROVE  G[i][u[i - 1]] = clear_page(u[i - 1], at(i))
    <3>1. i - 1 \in 0 .. n
      OBVIOUS
    <3>2. u[i - 1] \in Good(i - 1)
      BY <1>6, <3>1
    <3>3. QED
      BY <1>1, <3>2
  <2> HIDE DEF G
  <2>2. \A i \in 0 .. n : i # 0 => i \in 1 .. n
    OBVIOUS
  <2>3. QED
    BY <1>6, <2>1, <2>2 DEF LoopIs
<1>8. run = [i \in 0 .. n |-> IF i = 0 THEN m ELSE clear_page(run[i - 1], at(i))]
  BY <1>7
<1>9. UnmapRun(m, PageAt(v), n) = run[n]
  BY DEF UnmapRun, run, at, clear_page
<1> HIDE DEF run
<1>10. \A i \in 0 .. n : run[i] \in Good(i)
  <2> DEFINE S == {i \in Nat : run[i] \in Good(i)}
  <2>1. 0 \in S
    BY <1>3, <1>8
  <2>2. ASSUME NEW i \in 0 .. n - 1, i \in S
        PROVE  i + 1 \in S
    <3>1. i + 1 \in 0 .. n /\ i + 1 # 0 /\ (i + 1) - 1 = i /\ i + 1 \in Nat /\ i + 1 \in 1 .. n
      OBVIOUS
    <3>2. run[i + 1] = clear_page(run[i], Key(v + (i + 1) - 1))
      BY <1>1, <1>8, <3>1
    <3>3. QED
      BY <1>4, <2>2, <3>1, <3>2
  <2> HIDE DEF S
  <2>3. \A i \in 0 .. n : i \in S
    BY <2>1, <2>2, UpTo
  <2>4. QED
    BY <2>3 DEF S
<1>11. QED
  BY <1>9, <1>10 DEF Good

\* MapRun() of pages without marks.
LEMMA MapPlain ==
  ASSUME NEW m, FramesExact(m), NEW n \in Nat, Len(m.free) >= n, NEW v \in Int, RunEmpty(m, v, n)
  PROVE  RunFilled(m, PlainRun(m, PageAt(v), n), v, n, [i \in 1 .. n |-> {"P", "W"}])
<1> DEFINE g == [i \in 1 .. n |-> {"P", "W"}]
           run == CHOOSE run : run = [i \in 0 .. n |->
                    IF i = 0 THEN m
                    ELSE allocate_and_map(run[i - 1], K(PageAt(v) + (i - 1) * PAGE_SIZE), PlainPage(i))]
<1>1. g \in [1 .. n -> SUBSET Perms]
  BY DEF Perms
<1>2. \A i \in 0 .. n : i # 0 => PlainPage(i) = g[i]
  BY DEF PlainPage
<1> HIDE DEF g
<1>3. (\E u : FillsBy(u, m, v, n, g)) /\ \A u : FillsBy(u, m, v, n, g) => RunFilled(m, u[n], v, n, g)
  BY <1>1, FillRounds
<1>4. \E u : u = [i \in 0 .. n |->
                    IF i = 0 THEN m
                    ELSE allocate_and_map(u[i - 1], K(PageAt(v) + (i - 1) * PAGE_SIZE), PlainPage(i))]
  BY <1>2, <1>3 DEF FillsBy
<1>5. run = [i \in 0 .. n |->
                    IF i = 0 THEN m
                    ELSE allocate_and_map(run[i - 1], K(PageAt(v) + (i - 1) * PAGE_SIZE), PlainPage(i))]
  BY <1>4
<1>6. PlainRun(m, PageAt(v), n) = run[n]
  BY DEF PlainRun, MapRun
<1> HIDE DEF run
<1>7. FillsBy(run, m, v, n, g)
  BY <1>2, <1>5 DEF FillsBy
<1>8. QED
  BY <1>3, <1>6, <1>7 DEF g

\* The bits of page j of the run of n pages from v on: bit 9 at the ends of a longer one.
Marks(j, v, n) == {"P", "W"} \union (IF n > 1 /\ j \in {v, v + n - 1} THEN {"b9"} ELSE {})

\* map_pages() sets these bits, and the rest of the heap stays.
LEMMA MapMarked ==
  ASSUME NEW k, Kernel(k), FramesExact(k.mm), NEW n \in Nat, Len(k.mm.free) >= n, NEW v \in Int,
         RunEmpty(k.mm, v, n)
  PROVE  \E m, g : /\ map_pages(k, PageAt(v), n) = Returns([k EXCEPT !.mm = m], PageAt(v))
                   /\ RunFilled(k.mm, m, v, n, g)
                   /\ \A j \in Int : InRun(j, v, n) => g[j - v + 1] = Marks(j, v, n)
<1> DEFINE perm(j) == IF n > 1 /\ j \in {1, n} THEN {"P", "W", "b9"} ELSE {"P", "W"}
           g == [i \in 1 .. n |-> perm(i)]
           run == CHOOSE run : run = [i \in 0 .. n |->
                    IF i = 0 THEN k.mm
                    ELSE allocate_and_map(run[i - 1], K(PageAt(v) + (i - 1) * PAGE_SIZE), perm(i))]
           m == run[n]
<1>1. g \in [1 .. n -> SUBSET Perms]
  <2>1. {"P", "W", "b9"} \in SUBSET Perms /\ {"P", "W"} \in SUBSET Perms
    BY DEF Perms, PERM_AVAILABLE
  <2>3. \A i : perm(i) \in SUBSET Perms
    BY <2>1, Zenon
  <2> HIDE DEF perm
  <2>2. QED
    BY <2>3
<1>2. \A i \in 0 .. n : i # 0 => perm(i) = g[i]
  OBVIOUS
<1>3. map_pages(k, PageAt(v), n) = Returns([k EXCEPT !.mm = m], PageAt(v))
  BY DEF map_pages, MapRun
<1>4. \A j \in Int : InRun(j, v, n) => g[j - v + 1] = Marks(j, v, n)
  <2>1. ASSUME NEW j \in Int, InRun(j, v, n)
        PROVE  g[j - v + 1] = Marks(j, v, n)
    <3> DEFINE h == j - v + 1
    <3>1. h \in 1 .. n /\ (h = 1 <=> j = v) /\ (h = n <=> j = v + n - 1)
      BY <2>1 DEF InRun
    <3> HIDE DEF h
    <3>2. g[h] = perm(h)
      BY <3>1
    <3>3. perm(h) = Marks(j, v, n)
      <4>1. {"P", "W", "b9"} = {"P", "W"} \union {"b9"} /\ {"P", "W"} = {"P", "W"} \union {}
        OBVIOUS
      <4>2. h \in {1, n} <=> j \in {v, v + n - 1}
        BY <3>1
      <4>3. QED
        BY <4>1, <4>2 DEF Marks
    <3>4. QED
      BY <3>2, <3>3 DEF h
  <2>2. QED
    BY <2>1
<1> HIDE DEF g, perm
<1>5. (\E u : FillsBy(u, k.mm, v, n, g)) /\ \A u : FillsBy(u, k.mm, v, n, g) => RunFilled(k.mm, u[n], v, n, g)
  BY <1>1, FillRounds
<1>6. \E u : u = [i \in 0 .. n |->
                    IF i = 0 THEN k.mm
                    ELSE allocate_and_map(u[i - 1], K(PageAt(v) + (i - 1) * PAGE_SIZE), perm(i))]
  BY <1>2, <1>5 DEF FillsBy
<1>7. run = [i \in 0 .. n |->
                    IF i = 0 THEN k.mm
                    ELSE allocate_and_map(run[i - 1], K(PageAt(v) + (i - 1) * PAGE_SIZE), perm(i))]
  BY <1>6
<1> HIDE DEF run
<1>8. FillsBy(run, k.mm, v, n, g)
  BY <1>2, <1>7 DEF FillsBy
<1>9. RunFilled(k.mm, m, v, n, g)
  BY <1>5, <1>8
<1>10. QED
  BY <1>3, <1>4, <1>9

-----------------------------------------------------------------------------
(* The pages of the blocks *)

\* The pages below the break have frames, and no others up to the area of pages.
BreakAt(k, b) ==
  /\ k.da.brk = PageAt(b)
  /\ \A j \in 0 .. BlockPages : /\ j < b => Entry(k.mm, j).frame # NoFrame
                                /\ j >= b => Entry(k.mm, j) = NoEntry

Tables(k) == FramesExact(k.mm) /\ \E b \in 0 .. BlockPages : BreakAt(k, b)

SameArea(e, k) == \A j \in AreaNos : Entry(e.mm, j) = Entry(k.mm, j)

\* The page tables depend on the pages and the break only.
LEMMA TablesAs ==
  ASSUME NEW k, Tables(k), NEW e, FramesExact(e.mm), e.da.brk = k.da.brk,
         \A j \in 0 .. BlockPages : Entry(e.mm, j) = Entry(k.mm, j)
  PROVE  Tables(e)
<1>1. PICK b \in 0 .. BlockPages : BreakAt(k, b)
  BY DEF Tables
<1>2. BreakAt(e, b)
  BY <1>1 DEF BreakAt
<1>3. QED
  BY <1>2 DEF Tables

\* They stay in order when the heap grows by a page.
LEMMA BackedTables ==
  ASSUME NEW k, Tables(k), NEW e, Backed(e, k)
  PROVE  Tables(e) /\ SameArea(e, k)
<1>1. CASE e.mm = k.mm /\ e.da.brk = k.da.brk
  BY <1>1, TablesAs DEF Tables, SameArea
<1>2. CASE /\ k.da.brk + PAGE_SIZE <= HARD_LIMIT /\ ~(Len(k.mm.free) < 1)
           /\ e.mm = PlainRun(k.mm, k.da.brk, 1) /\ e.da.brk = k.da.brk + PAGE_SIZE
  <2>1. PICK b \in 0 .. BlockPages : BreakAt(k, b)
    BY DEF Tables
  <2>2. FramesExact(k.mm) /\ BlockPages \in Nat /\ b \in Int /\ 0 <= b /\ b <= BlockPages /\ b + 1 \in Int
    BY PageNumbers DEF Tables
  <2>3. k.da.brk = PageAt(b) /\ e.da.brk = PageAt(b + 1)
    BY <1>2, <2>1, <2>2, PageBorders DEF BreakAt
  <2>4. b + 1 <= BlockPages
    <3>1. PageAt(b + 1) <= PageAt(BlockPages)
      BY <1>2, <2>3, PageBorders
    <3>2. QED
      BY <2>2, <3>1, PageOrder
  <2>5. RunEmpty(k.mm, b, 1)
    <3>1. ASSUME NEW j \in Int, InRun(j, b, 1)
          PROVE  j \in PageNos /\ Entry(k.mm, j) = NoEntry
      <4>1. j = b
        BY <2>2, <3>1 DEF InRun
      <4>2. b \in PageNos
        BY <2>2, PageNumbers DEF PageNos, LastNo
      <4>3. QED
        BY <2>1, <2>2, <4>1, <4>2 DEF BreakAt
    <3>2. QED
      BY <3>1 DEF RunEmpty
  <2>6. Len(k.mm.free) >= 1
    <3>1. Len(k.mm.free) \in Int
      BY <2>2, KMemoryTypes
    <3>2. QED
      BY <1>2, <3>1
  <2>7. PICK g : RunFilled(k.mm, e.mm, b, 1, g)
    <3>1. 1 \in Nat /\ b \in Int /\ FramesExact(k.mm)
      BY <2>2
    <3>2. RunFilled(k.mm, PlainRun(k.mm, PageAt(b), 1), b, 1, [i \in 1 .. 1 |-> {"P", "W"}])
      BY ONLY <2>5, <2>6, <3>1, MapPlain
    <3>3. e.mm = PlainRun(k.mm, PageAt(b), 1)
      BY <1>2, <2>3
    <3>4. QED
      BY <3>2, <3>3
  <2>8. /\ FramesExact(e.mm)
        /\ \A j \in PageNos : /\ j = b => Entry(e.mm, j).frame # NoFrame
                              /\ j # b => Entry(e.mm, j) = Entry(k.mm, j)
    <3>1. \A j \in PageNos : InRun(j, b, 1) <=> j = b
      BY <2>2 DEF InRun, PageNos
    <3>2. QED
      BY <2>7, <3>1 DEF RunFilled
  <2>9. \A j \in 0 .. BlockPages : j \in PageNos /\ j \in Int
    BY PageNumbers DEF PageNos, LastNo
  <2>10. BreakAt(e, b + 1)
    <3>1. ASSUME NEW j \in 0 .. BlockPages
          PROVE  /\ j < b + 1 => Entry(e.mm, j).frame # NoFrame
                 /\ j >= b + 1 => Entry(e.mm, j) = NoEntry
      <4>1. j \in PageNos /\ j \in Int
        BY <2>9
      <4>2. CASE j = b
        BY <2>2, <2>8, <4>1, <4>2
      <4>3. CASE j # b
        BY <2>1, <2>2, <2>8, <4>1, <4>3 DEF BreakAt
      <4>4. QED
        BY <4>2, <4>3
    <3>2. QED
      BY <2>3, <3>1 DEF BreakAt
  <2>11. SameArea(e, k)
    <3>1. \A j \in AreaNos : j \in PageNos /\ j # b
      BY <2>2, PageNumbers DEF AreaNos
    <3>2. QED
      BY <2>8, <3>1 DEF SameArea
  <2>12. b + 1 \in 0 .. BlockPages
    BY <2>2, <2>4
  <2>13. QED
    BY <2>8, <2>10, <2>11, <2>12 DEF Tables
<1>3. QED
  BY <1>1, <1>2 DEF Backed

-----------------------------------------------------------------------------
(* The pages of the list *)

Run(v, n) == {j \in AreaNos : InRun(j, v, n)}

\* The element e of the list has n pages from number w on.
PieceAt(e, w, n) ==
  /\ w \in Int /\ n \in Int /\ n >= 1 /\ BlockPages + 1 <= w /\ w + n <= LastNo + 1
  /\ e.va = PageAt(w) /\ e.n = n

\* The list has exactly the pages G, in order, and no two elements touch: W has their first pages.
CoversAs(l, W, G) ==
  /\ \A i \in DOMAIN l : PieceAt(l[i], W[i], l[i].n)
  /\ \A i, j \in DOMAIN l : i < j => W[i] + l[i].n < W[j]
  /\ \A j : j \in G <=> \E i \in DOMAIN l : j \in Run(W[i], l[i].n)

Covers(l, G) == \E W : CoversAs(l, W, G)

\* Elements have no page in common.
LEMMA PiecesApart ==
  ASSUME NEW l, IsList(l), NEW W, NEW G, CoversAs(l, W, G), NEW i \in DOMAIN l
  PROVE  /\ \A h \in DOMAIN l \ {i} : Run(W[h], l[h].n) \intersect Run(W[i], l[i].n) = {}
         /\ \A j : (\E h \in DOMAIN l \ {i} : j \in Run(W[h], l[h].n)) <=> j \in G \ Run(W[i], l[i].n)
<1>1. DOMAIN l \subseteq Int
  BY DEF IsList
<1>2. ASSUME NEW h \in DOMAIN l, h # i, NEW j \in Run(W[h], l[h].n) \intersect Run(W[i], l[i].n)
      PROVE  FALSE
  <2>1. /\ W[h] \in Int /\ l[h].n \in Int /\ W[i] \in Int /\ l[i].n \in Int /\ h \in Int /\ i \in Int
        /\ j \in Int
    <3>1. AreaNos \subseteq Int
      BY PageNumbers
    <3>2. j \in Int
      BY <3>1 DEF Run
    <3>3. W[h] \in Int /\ l[h].n \in Int /\ W[i] \in Int /\ l[i].n \in Int
      BY DEF CoversAs, PieceAt
    <3>4. QED
      BY <1>1, <3>2, <3>3
  <2>2. W[h] <= j /\ j < W[h] + l[h].n /\ W[i] <= j /\ j < W[i] + l[i].n
    BY DEF Run, InRun
  <2>3. (h < i => W[h] + l[h].n < W[i]) /\ (i < h => W[i] + l[i].n < W[h])
    BY DEF CoversAs
  <2>4. QED
    BY <1>2, <2>1, <2>2, <2>3
<1>3. \A h \in DOMAIN l \ {i} : Run(W[h], l[h].n) \intersect Run(W[i], l[i].n) = {}
  BY <1>2
<1>4. \A j : j \in G <=> \E h \in DOMAIN l : j \in Run(W[h], l[h].n)
  BY DEF CoversAs
<1>5. QED
  BY <1>3, <1>4

\* An element changes.
LEMMA SetCovers ==
  ASSUME NEW l, IsList(l), NEW W, NEW G, CoversAs(l, W, G), NEW i \in DOMAIN l, NEW e, NEW w, NEW n,
         PieceAt(e, w, n), \A h \in DOMAIN l : /\ h < i => W[h] + l[h].n < w
                                               /\ h > i => w + n < W[h]
  PROVE  Covers([l EXCEPT ![i] = e], (G \ Run(W[i], l[i].n)) \union Run(w, n))
<1> DEFINE r == [l EXCEPT ![i] = e]
           V == [h \in DOMAIN l |-> IF h = i THEN w ELSE W[h]]
           R(h) == Run(V[h], r[h].n)
           D == DOMAIN l
<1>1. D \subseteq Int
  BY DEF IsList
<1>2. DOMAIN r = D /\ r[i] = e /\ \A h \in D : h # i => r[h] = l[h]
  OBVIOUS
<1>3. V[i] = w /\ \A h \in D : h # i => V[h] = W[h]
  OBVIOUS
<1> HIDE DEF r, V
<1>4. \A h \in D : PieceAt(r[h], V[h], r[h].n)
  BY <1>2, <1>3 DEF CoversAs, PieceAt
<1>5. e.n = n
  BY DEF PieceAt
<1>6. ASSUME NEW h \in D, NEW j \in D, h < j
      PROVE  V[h] + r[h].n < V[j]
  <2>1. h \in Int /\ i \in Int /\ j \in Int /\ (h # i => W[h] + l[h].n < W[j])
    BY <1>1, <1>6 DEF CoversAs
  <2>2. CASE h = i
    BY <1>2, <1>3, <1>5, <1>6, <2>1, <2>2
  <2>3. CASE j = i
    BY <1>2, <1>3, <1>5, <1>6, <2>1, <2>3
  <2>4. CASE h # i /\ j # i
    BY <1>2, <1>3, <2>1, <2>4
  <2>5. QED
    BY <2>2, <2>3, <2>4
<1>7. R(i) = Run(w, n) /\ \A h \in D \ {i} : R(h) = Run(W[h], l[h].n)
  BY <1>2, <1>3, <1>5
<1>8. \A j : (\E h \in D : j \in R(h)) <=> j \in Run(w, n) \/ \E h \in D \ {i} : j \in R(h)
  <2> HIDE DEF R
  <2>1. QED
    BY <1>7
<1>9. \A j : (\E h \in D \ {i} : j \in R(h)) <=> \E h \in D \ {i} : j \in Run(W[h], l[h].n)
  <2> HIDE DEF R
  <2>1. QED
    BY <1>7
<1>10. \A j : (\E h \in D \ {i} : j \in Run(W[h], l[h].n)) <=> j \in G \ Run(W[i], l[i].n)
  BY PiecesApart
<1>11. CoversAs(r, V, (G \ Run(W[i], l[i].n)) \union Run(w, n))
  BY <1>2, <1>4, <1>6, <1>8, <1>9, <1>10 DEF CoversAs
<1>12. QED
  BY <1>11 DEF Covers, r

\* An element goes.
LEMMA RemoveCovers ==
  ASSUME NEW l, IsList(l), NEW W, NEW G, CoversAs(l, W, G), NEW i \in DOMAIN l
  PROVE  CoversAs(RemoveAt(l, i), [h \in 1 .. Len(l) - 1 |-> W[IF h < i THEN h ELSE h + 1]],
                  G \ Run(W[i], l[i].n))
<1> DEFINE r == RemoveAt(l, i)
           at(h) == IF h < i THEN h ELSE h + 1
           V == [h \in 1 .. Len(l) - 1 |-> W[at(h)]]
           D == DOMAIN l
           E == DOMAIN r
<1>1. PICK X : l \in Seq(Element(X))
  BY DEF IsList
<1>2. Len(l) \in Nat /\ D = 1 .. Len(l)
  BY <1>1
<1>3. E = 1 .. Len(l) - 1 /\ \A h \in E : r[h] = l[at(h)] /\ V[h] = W[at(h)]
  <2> DEFINE S == Element(X)
  <2>1. l \in Seq(S)
    BY <1>1
  <2> HIDE DEF S
  <2>2. r \in Seq(S) /\ Len(r) = Len(l) - 1 /\ \A h \in 1 .. Len(l) - 1 : r[h] = l[at(h)]
    BY <2>1, RemoveElement
  <2> HIDE DEF r
  <2>3. E = 1 .. Len(l) - 1
    BY <1>2, <2>2
  <2>4. QED
    BY <2>2, <2>3
<1> HIDE DEF r, V
<1>4. \A h \in E : at(h) \in D /\ at(h) # i /\ h \in Int
  BY <1>2, <1>3
<1>5. \A h, j \in E : h < j => at(h) < at(j)
  BY <1>2, <1>3
<1>6. \A h \in D : h # i => \E j \in E : at(j) = h
  <2>1. ASSUME NEW h \in D, h # i
        PROVE  \E j \in E : at(j) = h
    <3>1. CASE h < i
      <4>1. h \in E /\ at(h) = h
        BY <1>2, <1>3, <3>1
      <4>2. QED
        BY <4>1
    <3>2. CASE h > i
      <4>1. h - 1 \in E /\ at(h - 1) = h
        BY <1>2, <1>3, <3>2
      <4>2. QED
        BY <4>1
    <3>3. QED
      BY <1>2, <2>1, <3>1, <3>2
  <2>2. QED
    BY <2>1
<1> HIDE DEF at, E
<1>7. \A h \in E : PieceAt(r[h], V[h], r[h].n)
  BY <1>3, <1>4 DEF CoversAs
<1>8. \A h, j \in E : h < j => V[h] + r[h].n < V[j]
  BY <1>3, <1>4, <1>5 DEF CoversAs
<1>9. \A j : (\E h \in D \ {i} : j \in Run(W[h], l[h].n)) <=> j \in G \ Run(W[i], l[i].n)
  BY PiecesApart
<1>10. \A j : (\E h \in E : j \in Run(V[h], r[h].n)) <=> \E h \in D \ {i} : j \in Run(W[h], l[h].n)
  <2>1. ASSUME NEW j, NEW h \in E, j \in Run(V[h], r[h].n)
        PROVE  \E g \in D \ {i} : j \in Run(W[g], l[g].n)
    <3>1. at(h) \in D \ {i} /\ j \in Run(W[at(h)], l[at(h)].n)
      BY <1>3, <1>4, <2>1
    <3>2. QED
      BY <3>1
  <2>2. ASSUME NEW j, NEW g \in D \ {i}, j \in Run(W[g], l[g].n)
        PROVE  \E h \in E : j \in Run(V[h], r[h].n)
    <3>1. PICK h \in E : at(h) = g
      BY <1>6
    <3>2. j \in Run(V[h], r[h].n)
      BY <1>3, <2>2, <3>1
    <3>3. QED
      BY <3>2
  <2>3. QED
    BY <2>1, <2>2
<1>11. CoversAs(r, V, G \ Run(W[i], l[i].n))
  BY <1>7, <1>8, <1>9, <1>10 DEF CoversAs, E
<1>12. QED
  BY <1>11 DEF r, V, at

\* An element comes.
LEMMA InsertCovers ==
  ASSUME NEW l, IsList(l), NEW W, NEW G, CoversAs(l, W, G), NEW i \in 1 .. Len(l) + 1,
         NEW node \in Int, NEW w, NEW n, NEW e, e = [node |-> node, va |-> PageAt(w), n |-> n],
         PieceAt(e, w, n), PageAt(w) >= HARD_LIMIT,
         \A h \in DOMAIN l : /\ h < i => W[h] + l[h].n < w
                             /\ h >= i => w + n < W[h]
  PROVE  Covers(InsertAt(l, i, e), G \union Run(w, n))
<1> DEFINE r == InsertAt(l, i, e)
           D == DOMAIN l
           E == DOMAIN r
           V == [h \in 1 .. Len(l) + 1 |-> IF h < i THEN W[h] ELSE IF h = i THEN w ELSE W[h - 1]]
<1>1. PICK X : l \in Seq(Element(X))
  BY DEF IsList
<1>2. Len(l) \in Nat /\ D = 1 .. Len(l) /\ i \in Int
  BY <1>1
<1>3. E = 1 .. Len(l) + 1
      /\ \A h \in E : /\ h < i => r[h] = l[h] /\ V[h] = W[h] /\ h \in D
                      /\ h = i => r[h] = e /\ V[h] = w
                      /\ h > i => r[h] = l[h - 1] /\ V[h] = W[h - 1] /\ h - 1 \in D
  <2> DEFINE S == Element(X \union {n})
  <2>1. \A x \in Element(X) : x \in S
    BY DEF Element
  <2>2. e \in S
    <3>1. PageAt(w) \in Int
      <4>1. w \in Int
        BY DEF PieceAt
      <4>2. QED
        BY <4>1, PageAdd
    <3>2. QED
      BY <3>1 DEF Element
  <2> HIDE DEF S
  <2>3. l \in Seq(S)
    BY <1>1, <1>2, <2>1
  <2>4. Inserted(r, S, l, i, e)
    BY <1>2, <2>2, <2>3, InsertElement
  <2> HIDE DEF r
  <2>5. E = 1 .. Len(l) + 1 /\ \A h \in E : r[h] = IF h < i THEN l[h] ELSE IF h = i THEN e ELSE l[h - 1]
    BY <2>4 DEF Inserted
  <2>6. QED
    BY <1>2, <2>5
<1> HIDE DEF r, V
<1>4. e.n = n
  BY DEF PieceAt
<1>5. ASSUME NEW h \in E
      PROVE  PieceAt(r[h], V[h], r[h].n)
  <2>1. h < i \/ h = i \/ h > i
    BY <1>2, <1>3
  <2>2. QED
    BY <1>3, <1>4, <2>1 DEF CoversAs
<1>6. ASSUME NEW h \in E, NEW j \in E, h < j
      PROVE  V[h] + r[h].n < V[j]
  <2>1. h \in Int /\ j \in Int /\ i \in Int
    BY <1>2, <1>3
  <2>2. CASE j < i
    BY <1>3, <1>6, <2>1, <2>2 DEF CoversAs
  <2>3. CASE j = i
    BY <1>3, <1>6, <2>1, <2>3
  <2>4. CASE j > i /\ h < i
    <3>1. V[h] = W[h] /\ r[h] = l[h] /\ h \in D /\ V[j] = W[j - 1] /\ j - 1 \in D /\ h < j - 1
      BY <1>3, <2>1, <2>4
    <3>2. QED
      BY <3>1 DEF CoversAs
  <2>5. CASE j > i /\ h = i
    <3>1. V[h] = w /\ r[h] = e /\ V[j] = W[j - 1] /\ j - 1 \in D /\ j - 1 >= i
      BY <1>3, <2>1, <2>5
    <3>2. QED
      BY <1>4, <3>1
  <2>6. CASE j > i /\ h > i
    <3>1. V[h] = W[h - 1] /\ r[h] = l[h - 1] /\ h - 1 \in D /\ V[j] = W[j - 1] /\ j - 1 \in D /\ h - 1 < j - 1
      BY <1>3, <1>6, <2>1, <2>6
    <3>2. QED
      BY <3>1 DEF CoversAs
  <2>7. QED
    BY <2>1, <2>2, <2>3, <2>4, <2>5, <2>6
<1>7. \A j : j \in G <=> \E h \in D : j \in Run(W[h], l[h].n)
  BY DEF CoversAs
<1>8. ASSUME NEW j, NEW h \in E, j \in Run(V[h], r[h].n)
      PROVE  j \in G \union Run(w, n)
  <2>1. h < i \/ h = i \/ h > i
    BY <1>2, <1>3
  <2>2. QED
    BY <1>3, <1>4, <1>7, <1>8, <2>1
<1>9. ASSUME NEW j \in G \union Run(w, n)
      PROVE  \E h \in E : j \in Run(V[h], r[h].n)
  <2>1. CASE j \in Run(w, n)
    <3>1. i \in E
      BY <1>3
    <3>2. V[i] = w /\ r[i] = e
      BY <1>3, <3>1
    <3>3. QED
      BY <1>4, <2>1, <3>1, <3>2
  <2>2. CASE j \in G
    <3>1. PICK g \in D : j \in Run(W[g], l[g].n)
      BY <1>7, <2>2
    <3>2. CASE g < i
      <4>1. g \in E
        BY <1>2, <1>3
      <4>2. V[g] = W[g] /\ r[g] = l[g]
        BY <1>3, <3>2, <4>1
      <4>3. QED
        BY <3>1, <4>1, <4>2
    <3>3. CASE g >= i
      <4>1. g + 1 \in E /\ g + 1 > i /\ (g + 1) - 1 = g
        BY <1>2, <1>3, <3>3
      <4>2. V[g + 1] = W[g] /\ r[g + 1] = l[g]
        BY <1>3, <4>1
      <4>3. QED
        BY <3>1, <4>1, <4>2
    <3>4. QED
      BY <1>2, <3>2, <3>3
  <2>3. QED
    BY <2>1, <2>2
<1>10. CoversAs(r, V, G \union Run(w, n))
  BY <1>5, <1>6, <1>8, <1>9 DEF CoversAs
<1>11. QED
  BY <1>10 DEF Covers, r

\* free_block() leaves the break where it is.
LEMMA FreeBreak ==
  ASSUME NEW k, NEW H, NEW w, Sound(k, H, w), NEW va \in H \union NodesOf(k.list)
  PROVE  free_block(k.da, va).brk = k.da.brk
<1> DEFINE U == H \union NodesOf(k.list)
           c == Needs(H, NodesOf(k.list), w)
<1>1. InUse(k, U, c)
  BY DEF Sound
<1> HIDE DEF c, U
<1>2. va \in U
  BY DEF U
<1>3. Owned(k.da, U, c)
  BY <1>1, <1>2, UsedUp
<1>4. QED
  BY <1>2, <1>3, OwnedFree

\* The heap e has the page tables, the break and the flag of k.
SameTables(e, k) == Kernel(e) /\ e.mm = k.mm /\ e.da.brk = k.da.brk /\ e.flag = k.flag

\* The element i of the list gives up n pages.
LEMMA TakeCovers ==
  ASSUME NEW k, NEW H, NEW x, Sound(k, H, x), NEW W, NEW G, CoversAs(k.list, W, G),
         NEW i \in DOMAIN k.list, NEW n \in Nat, n >= 1, n <= k.list[i].n
  PROVE  /\ SameTables(take_pages(k, i, n), k)
         /\ Covers(take_pages(k, i, n).list, G \ Run(W[i], n))
<1> DEFINE l == k.list
           r == take_pages(k, i, n)
           c == l[i].n
           w == W[i]
<1>1. Kernel(k) /\ Listed(l) /\ IsList(l)
  BY HeldBelow DEF Listed
<1>2. PieceAt(l[i], w, c)
  BY DEF CoversAs
<1>3. w \in Int /\ c \in Int /\ c >= 1 /\ n <= c /\ l[i].va = PageAt(w)
      /\ BlockPages + 1 <= w /\ w + c <= LastNo + 1 /\ BlockPages \in Int /\ LastNo \in Int /\ n \in Int
  BY <1>2, PageNumbers DEF PieceAt
<1>4. l[i] = [node |-> l[i].node, va |-> l[i].va, n |-> c]
  BY <1>1, ElementIs
<1>5. CASE c = n
  <2> DEFINE d == free_block(k.da, l[i].node)
             m == RemoveAt(l, i)
             e == [[k EXCEPT !.da = d] EXCEPT !.list = m]
  <2>1. r = e
    BY <1>1, <1>5 DEF take_pages, Kernel
  <2> HIDE DEF r
  <2>2. l[i].node \in NodesOf(l)
    BY DEF NodesOf
  <2>3. d.brk = k.da.brk
    BY <2>2, FreeBreak
  <2>4. Covers(m, G \ Run(w, c))
    BY <1>1, RemoveCovers DEF Covers
  <2> HIDE DEF d, m
  <2>5. Kernel(e) /\ e.da = d /\ e.list = m /\ e.flag = k.flag /\ e.mm = k.mm
    BY <1>1 DEF Kernel
  <2> HIDE DEF e
  <2>6. SameTables(r, k) /\ r.list = m
    BY <2>1, <2>3, <2>5 DEF SameTables
  <2>7. Covers(r.list, G \ Run(w, n))
    BY <1>5, <2>4, <2>6
  <2>8. QED
    BY <2>6, <2>7 DEF r
<1>6. CASE c # n
  <2> DEFINE va == l[i].va + n * PAGE_SIZE
             g == c - n
             e == [node |-> l[i].node, va |-> va, n |-> g]
             m == [l EXCEPT ![i] = e]
             t == [k EXCEPT !.list = m]
  <2>1. r = SetAt(k, i, va, g)
    <3> DEFINE l1 == [l EXCEPT ![i].va = va]
               k1 == [k EXCEPT !.list = l1]
    <3>1. r = [k EXCEPT !.list[i].va = @ + n * PAGE_SIZE, !.list[i].n = @ - n]
      BY <1>6 DEF take_pages
    <3>2. @ = [k1 EXCEPT !.list[i].n = k1.list[i].n - n]
      OBVIOUS
    <3>3. k1.list[i].n = l[i].n
      BY <1>1, <1>4, ElementIs DEF Kernel
    <3>4. r = [k EXCEPT !.list[i].va = va, !.list[i].n = g]
      BY <3>1, <3>2, <3>3
    <3>5. QED
      BY <3>4 DEF SetAt
  <2>2. va = PageAt(w + n)
    BY <1>3, PageAdd
  <2>3. r = t
    BY <1>1, <2>1, ListAt
  <2> HIDE DEF r, va
  <2>4. PieceAt(e, w + n, g)
    BY <1>3, <1>6, <2>2 DEF PieceAt
  <2>5. \A h \in DOMAIN l : /\ h < i => W[h] + l[h].n < w + n
                            /\ h > i => (w + n) + g < W[h]
    <3>1. ASSUME NEW h \in DOMAIN l
          PROVE  /\ h < i => W[h] + l[h].n < w + n
                 /\ h > i => (w + n) + g < W[h]
      <4>1. W[h] \in Int /\ l[h].n \in Int /\ (w + n) + g = w + c
        BY <1>3 DEF CoversAs, PieceAt
      <4>2. h \in Int /\ i \in Int
        BY <1>1 DEF IsList
      <4>3. (h < i => W[h] + l[h].n < w) /\ (h > i => w + c < W[h])
        BY <4>2 DEF CoversAs
      <4>4. QED
        BY <1>3, <4>1, <4>3
    <3>2. QED
      BY <3>1
  <2> HIDE DEF e, g
  <2>6. Covers(m, (G \ Run(w, c)) \union Run(w + n, g))
    BY <1>1, <2>4, <2>5, SetCovers
  <2>7. (G \ Run(w, c)) \union Run(w + n, g) = G \ Run(w, n)
    <3>1. Run(w, c) \subseteq G
      BY DEF CoversAs
    <3>2. ASSUME NEW j \in AreaNos
          PROVE  InRun(j, w, c) <=> InRun(j, w, n) \/ InRun(j, w + n, g)
      <4>1. j \in Int /\ (w + n) + g = w + c /\ w + n <= w + c /\ w <= w + n
        BY <1>3, PageNumbers DEF g
      <4>2. QED
        BY <1>3, <4>1 DEF InRun
    <3>3. \A j \in AreaNos : ~(InRun(j, w, n) /\ InRun(j, w + n, g))
      <4>1. AreaNos \subseteq Int
        BY PageNumbers
      <4>2. \A j \in Int : ~(InRun(j, w, n) /\ InRun(j, w + n, g))
        BY <1>3 DEF InRun
      <4>3. QED
        BY <4>1, <4>2
    <3>4. QED
      BY <3>1, <3>2, <3>3 DEF Run
  <2> HIDE DEF m
  <2>8. Kernel(t) /\ t.list = m /\ t.mm = k.mm /\ t.da = k.da /\ t.flag = k.flag
    BY <1>1 DEF Kernel
  <2> HIDE DEF t
  <2>9. QED
    BY <2>3, <2>6, <2>7, <2>8 DEF SameTables, r
<1>7. QED
  BY <1>5, <1>6

\* The pages from number v on are not in the list: an element is before them or after them.
LEMMA BeforeOrAfter ==
  ASSUME NEW l, NEW W, NEW G, CoversAs(l, W, G), NEW v \in Int, NEW n \in Int, n >= 1,
         BlockPages + 1 <= v, v + n <= LastNo + 1, G \intersect Run(v, n) = {}, NEW h \in DOMAIN l
  PROVE  W[h] + l[h].n <= v \/ v + n <= W[h]
<1> DEFINE w == W[h]
           c == l[h].n
           j == IF w <= v THEN v ELSE w
<1>1. w \in Int /\ c \in Int /\ c >= 1 /\ BlockPages \in Int /\ LastNo \in Int /\ BlockPages + 1 <= w
      /\ w + c <= LastNo + 1
  BY PageNumbers DEF CoversAs, PieceAt
<1>2. ASSUME ~(w + c <= v), ~(v + n <= w)
      PROVE  FALSE
  <2>1. j \in AreaNos /\ InRun(j, w, c) /\ InRun(j, v, n)
    BY <1>1, <1>2 DEF InRun, AreaNos
  <2>2. j \in Run(w, c) /\ j \in Run(v, n)
    BY <2>1 DEF Run
  <2>3. j \in G
    BY <2>2 DEF CoversAs
  <2>4. QED
    BY <2>2, <2>3
<1>3. QED
  BY <1>2

\* Two runs that touch are one.
OneRun(v, n, c) == Run(v, n) \union Run(v + n, c) = Run(v, n + c)

\* They are.
LEMMA RunsJoin ==
  ASSUME NEW v \in Int, NEW n \in Nat, NEW c \in Nat
  PROVE  OneRun(v, n, c)
<1>1. ASSUME NEW j \in AreaNos
      PROVE  InRun(j, v, n + c) <=> InRun(j, v, n) \/ InRun(j, v + n, c)
  <2>1. j \in Int
    BY PageNumbers
  <2>2. QED
    BY <2>1 DEF InRun
<1>2. QED
  BY <1>1 DEF Run, OneRun

\* The two neighbours of a range join it.
LEMMA BothCovers ==
  ASSUME NEW k, NEW H, NEW x, Sound(k, H, x), NEW W, NEW G, CoversAs(k.list, W, G),
         NEW v \in Int, NEW n \in Int, n >= 1,
         NEW i \in DOMAIN k.list, NEW p \in DOMAIN k.list, p = i - 1,
         W[p] + k.list[p].n = v, v + n = W[i]
  PROVE  /\ SameTables(join_both(k, p, i, n), k)
         /\ Covers(join_both(k, p, i, n).list, G \union Run(v, n))
<1> DEFINE l == k.list
           c == l[p].n
           b == l[i].n
           g == c + n + b
           w == W[p]
           e == [node |-> l[p].node, va |-> l[p].va, n |-> g]
           m == [l EXCEPT ![p] = e]
           d == free_block(k.da, l[i].node)
           r == join_both(k, p, i, n)
           s == RemoveAt(l, i)
           V == [h \in 1 .. Len(l) - 1 |-> W[IF h < i THEN h ELSE h + 1]]
           E == G \ Run(W[i], b)
<1>1. Kernel(k) /\ Listed(l) /\ IsList(l)
  BY HeldBelow DEF Listed
<1>2. PieceAt(l[i], W[i], b) /\ PieceAt(l[p], w, c)
  BY DEF CoversAs
<1>3. /\ w \in Int /\ c \in Int /\ c >= 1 /\ b \in Int /\ b >= 1 /\ W[i] \in Int /\ l[p].va = PageAt(w)
      /\ BlockPages + 1 <= w /\ W[i] + b <= LastNo + 1 /\ g \in Int /\ g >= 1 /\ w + g = W[i] + b
      /\ BlockPages \in Int /\ LastNo \in Int
  BY <1>2, PageNumbers DEF PieceAt
<1>4. l[p] = [node |-> l[p].node, va |-> l[p].va, n |-> c]
  BY <1>1, ElementIs
<1>5. PICK X : l \in Seq(Element(X))
  BY <1>1 DEF IsList
<1>6. Len(l) \in Nat /\ DOMAIN l = 1 .. Len(l) /\ i \in Int /\ p \in Int /\ p < i /\ p \in 1 .. Len(l) - 1
  BY <1>5
<1>7. r = [[k EXCEPT !.da = d] EXCEPT !.list = RemoveAt(m, i)]
  <2> DEFINE k1 == [k EXCEPT !.da = d]
  <2>1. r = [k1 EXCEPT !.list = RemoveAt([k1.list EXCEPT ![p].n = k1.list[p].n + n + l[i].n], i)]
    BY DEF join_both
  <2>2. k1.list = l
    BY <1>1 DEF Kernel
  <2> HIDE DEF k1, r
  <2>3. r = [k1 EXCEPT !.list = RemoveAt([l EXCEPT ![p].n = g], i)]
    BY <2>1, <2>2
  <2>4. [l EXCEPT ![p].n = g] = m
    <3> HIDE DEF g, l
    <3>1. [l[p] EXCEPT !.n = g] = e
      BY <1>4
    <3> HIDE DEF e
    <3>2. QED
      BY <3>1
  <2>5. QED
    BY <2>3, <2>4 DEF k1
<1>8. d.brk = k.da.brk
  <2>1. l[i].node \in NodesOf(l)
    BY DEF NodesOf
  <2>2. QED
    BY <2>1, FreeBreak
<1>9. RemoveAt(m, i) = [s EXCEPT ![p] = e]
  <2> DEFINE S == Element(X \union {g})
  <2>1. \A y \in Element(X) : y \in S
    BY DEF Element
  <2>2. e \in S
    <3>1. l[p] \in Element(X)
      BY <1>5
    <3>2. QED
      BY <3>1 DEF Element
  <2> HIDE DEF S
  <2>3. l \in Seq(S)
    BY <1>5, <1>6, <2>1
  <2> HIDE DEF e
  <2>4. m \in Seq(S) /\ Len(m) = Len(l) /\ i \in DOMAIN m
    BY <1>6, <2>2, <2>3
  <2> HIDE DEF m
  <2>5. /\ RemoveAt(m, i) \in Seq(S) /\ Len(RemoveAt(m, i)) = Len(l) - 1
        /\ \A h \in 1 .. Len(l) - 1 : RemoveAt(m, i)[h] = m[IF h < i THEN h ELSE h + 1]
    BY <2>4, RemoveElement
  <2>6. /\ s \in Seq(S) /\ Len(s) = Len(l) - 1
        /\ \A h \in 1 .. Len(l) - 1 : s[h] = l[IF h < i THEN h ELSE h + 1]
    BY <2>3, RemoveElement
  <2> DEFINE t == RemoveAt(m, i)
             u == [s EXCEPT ![p] = e]
  <2>7. DOMAIN s = 1 .. Len(l) - 1 /\ DOMAIN t = 1 .. Len(l) - 1
    BY <1>6, <2>5, <2>6
  <2>8. u \in Seq(S) /\ DOMAIN u = 1 .. Len(l) - 1
    BY <1>6, <2>2, <2>6, <2>7
  <2>9. ASSUME NEW h \in 1 .. Len(l) - 1
        PROVE  t[h] = u[h]
    <3> DEFINE a == IF h < i THEN h ELSE h + 1
    <3>1. a \in DOMAIN l /\ (a = p <=> h = p)
      <4>1. h \in Int /\ 1 <= h /\ h <= Len(l) - 1 /\ i = p + 1
        BY <1>6
      <4>2. QED
        BY <1>6, <4>1
    <3>2. t[h] = m[a] /\ s[h] = l[a]
      BY <2>5, <2>6
    <3> HIDE DEF a, t, s
    <3>3. u[h] = IF h = p THEN e ELSE s[h]
      BY <2>7
    <3>4. m[a] = IF a = p THEN e ELSE l[a]
      BY <3>1 DEF m
    <3>5. QED
      BY <3>1, <3>2, <3>3, <3>4
  <2> HIDE DEF t, u
  <2>10. t \in Seq(S)
    BY <2>5 DEF t
  <2>11. t = u
    <3> DEFINE D == 1 .. Len(l) - 1
    <3>1. t \in [D -> S] /\ u \in [D -> S]
      BY <2>7, <2>8, <2>10
    <3>2. \A h \in D : t[h] = u[h]
      BY <2>9
    <3> HIDE DEF D
    <3>3. QED
      BY <3>1, <3>2
  <2>12. QED
    BY <2>11 DEF t, u
<1>10. CoversAs(s, V, E)
  BY <1>1, RemoveCovers
<1>11. IsList(s) /\ DOMAIN s = 1 .. Len(l) - 1 /\ \A h \in DOMAIN s : s[h] = l[IF h < i THEN h ELSE h + 1]
  <2> DEFINE S == Element(X)
  <2>1. l \in Seq(S)
    BY <1>5
  <2> HIDE DEF S
  <2>2. s \in Seq(S) /\ Len(s) = Len(l) - 1
        /\ \A h \in 1 .. Len(l) - 1 : s[h] = l[IF h < i THEN h ELSE h + 1]
    BY <2>1, RemoveElement
  <2> HIDE DEF s
  <2>3. DOMAIN s = 1 .. Len(l) - 1
    BY <1>6, <2>2
  <2>4. QED
    BY <2>2, <2>3 DEF IsList, S
<1>12. p \in DOMAIN s /\ V[p] = w /\ s[p] = l[p]
  BY <1>6, <1>11
<1>13. PieceAt(e, w, g)
  BY <1>3 DEF PieceAt
<1>14. \A h \in DOMAIN s : /\ h < p => V[h] + s[h].n < w
                           /\ h > p => w + g < V[h]
  <2>1. ASSUME NEW h \in DOMAIN s, h < p
        PROVE  V[h] + s[h].n < w
    <3>1. h \in DOMAIN l /\ V[h] = W[h] /\ s[h] = l[h]
      BY <1>6, <1>11, <2>1
    <3>2. QED
      BY <2>1, <3>1 DEF CoversAs
  <2>2. ASSUME NEW h \in DOMAIN s, h > p
        PROVE  w + g < V[h]
    <3>1. h + 1 \in DOMAIN l /\ V[h] = W[h + 1] /\ i < h + 1
      BY <1>6, <1>11, <2>2
    <3>2. W[i] + b < W[h + 1]
      BY <3>1 DEF CoversAs
    <3>3. QED
      BY <1>3, <3>1, <3>2
  <2>3. QED
    BY <2>1, <2>2
<1> HIDE DEF m, s, V, e, d, r, g
<1>15. Covers([s EXCEPT ![p] = e], (E \ Run(w, c)) \union Run(w, g))
  <2>1. Covers([s EXCEPT ![p] = e], (E \ Run(V[p], s[p].n)) \union Run(w, g))
    BY <1>10, <1>11, <1>12, <1>13, <1>14, SetCovers
  <2>2. QED
    BY <1>12, <2>1
<1>16. (E \ Run(w, c)) \union Run(w, g) = G \union Run(v, n)
  <2>1. Run(w, c) \union Run(v, n) = Run(w, c + n)
    <3>1. w + c = v /\ w \in Int /\ c \in Nat /\ n \in Nat
      BY <1>3
    <3>2. OneRun(w, c, n)
      BY <3>1, RunsJoin
    <3>3. QED
      BY <3>1, <3>2 DEF OneRun
  <2>2. Run(w, c + n) \union Run(W[i], b) = Run(w, g)
    <3> DEFINE a == c + n
    <3>1. a \in Nat /\ w + a = W[i] /\ a + b = g
      BY <1>3 DEF g
    <3>2. b \in Nat /\ w \in Int
      BY <1>3
    <3> HIDE DEF a, w, b
    <3>3. OneRun(w, a, b)
      BY <3>1, <3>2, RunsJoin
    <3>4. QED
      BY <3>1, <3>3 DEF a, OneRun
  <2>3. Run(w, c) \subseteq G /\ Run(W[i], b) \subseteq G
    BY DEF CoversAs
  <2>4. QED
    BY <2>1, <2>2, <2>3
<1>17. Kernel(r) /\ r.mm = k.mm /\ r.da = d /\ r.flag = k.flag /\ r.list = [s EXCEPT ![p] = e]
  <2>1. r = [[k EXCEPT !.da = d] EXCEPT !.list = [s EXCEPT ![p] = e]]
    BY <1>7, <1>9
  <2>2. QED
    BY <1>1, <2>1 DEF Kernel
<1>18. QED
  BY <1>8, <1>15, <1>16, <1>17 DEF SameTables, r

\* A page is right after another.
LEMMA PageNext ==
  ASSUME NEW i \in Int, NEW j \in Int
  PROVE  PageAt(j) - PageAt(i) = PAGE_SIZE <=> j = i + 1
<1>1. PageAt(i) \in Int /\ PageAt(j) \in Int /\ PAGE_SIZE \in Int /\ PageAt(i) + PAGE_SIZE = PageAt(i + 1)
  BY PageAdd, PageBorders, PageType
<1>2. i + 1 \in Int
  OBVIOUS
<1>3. PageAt(j) = PageAt(i + 1) <=> j = i + 1
  BY <1>2, PageOrder
<1>4. QED
  BY <1>1, <1>3

\* What kfree() of pages leaves: the list has G, or the kernel stopped.
Returned(r, k, G) ==
  \E e : /\ (r = Returns(e, NULL) /\ Covers(e.list, G)) \/ r = Panics(e)
         /\ Backed(e, k) /\ e.flag = k.flag

\* The range joins the element after it, or the one before it.
LEMMA OneCovers ==
  ASSUME NEW k, Kernel(k), Listed(k.list), NEW W, NEW G, CoversAs(k.list, W, G),
         NEW i \in DOMAIN k.list, NEW w, NEW c, NEW e, Relisted(e, k, i, PageAt(w), c),
         w \in Int, c \in Int, c >= 1, BlockPages + 1 <= w, w + c <= LastNo + 1,
         \A h \in DOMAIN k.list : /\ h < i => W[h] + k.list[h].n < w
                                  /\ h > i => w + c < W[h]
  PROVE  /\ SameTables(e, k)
         /\ Covers(e.list, (G \ Run(W[i], k.list[i].n)) \union Run(w, c))
<1> DEFINE l == k.list
           y == [node |-> l[i].node, va |-> PageAt(w), n |-> c]
           m == [l EXCEPT ![i] = y]
<1>1. e = [k EXCEPT !.list = m]
  BY DEF Relisted
<1>2. PieceAt(y, w, c)
  BY DEF PieceAt
<1>3. IsList(l)
  BY DEF Listed
<1> HIDE DEF y
<1>4. Covers(m, (G \ Run(W[i], l[i].n)) \union Run(w, c))
  BY <1>2, <1>3, SetCovers
<1> HIDE DEF m
<1>5. Kernel(e) /\ e.list = m /\ e.mm = k.mm /\ e.da = k.da /\ e.flag = k.flag
  BY <1>1 DEF Kernel
<1>6. QED
  BY <1>4, <1>5 DEF SameTables

\* The range is an element of its own.
LEMMA OwnCovers ==
  ASSUME NEW k, NEW H, NEW x, Sound(k, H, x), NEW W, NEW G, CoversAs(k.list, W, G),
         NEW v \in Int, NEW n \in Int, n >= 1, BlockPages + 1 <= v, v + n <= LastNo + 1,
         NEW i \in 1 .. Len(k.list) + 1,
         \A h \in DOMAIN k.list : /\ h < i => W[h] + k.list[h].n < v
                                  /\ h >= i => v + n < W[h],
         NEW strat
  PROVE  Returned(insert_range(kmalloc_block(k, NodeSize, strat), i, PageAt(v), n), k, G \union Run(v, n))
<1> DEFINE q == kmalloc_block(k, NodeSize, strat)
           va == PageAt(v)
           r == insert_range(q, i, va, n)
           l == k.list
<1>1. Kernel(k) /\ Listed(l) /\ IsList(l)
  BY HeldBelow DEF Listed
<1>2. q = Returns(k, NULL) \/ \E k2, a : NewBlock(q, k, H, x, NodeSize, k2, a)
  BY NodeBlock
<1> HIDE DEF q
<1>3. CASE q = Returns(k, NULL)
  <2>1. r = Panics(k)
    BY <1>3, OutcomeIs DEF insert_range
  <2>2. Backed(k, k)
    BY DEF Backed
  <2>3. QED
    BY <2>1, <2>2 DEF Returned, q
<1>4. CASE \E k2, a : NewBlock(q, k, H, x, NodeSize, k2, a)
  <2>1. PICK k2, a : NewBlock(q, k, H, x, NodeSize, k2, a)
    BY <1>4
  <2>2. /\ q = Returns(k2, a) /\ a \in Int /\ a # NULL
        /\ k2.list = k.list /\ k2.flag = k.flag /\ Kernel(k2) /\ Backed(k2, k)
    BY ONLY <2>1, NewBlockIs
  <2> DEFINE y == [node |-> a, va |-> va, n |-> n]
             m == InsertAt(l, i, y)
             e == [k2 EXCEPT !.list = m]
  <2>3. r = Returns(e, NULL)
    <3>1. q.kh = k2 /\ q.va = a
      BY <2>2, OutcomeIs
    <3>2. r = IF q.va = NULL THEN Panics(q.kh)
              ELSE Returns([q.kh EXCEPT !.list = InsertAt(@, i, [node |-> q.va, va |-> va, n |-> n])], NULL)
      BY DEF insert_range
    <3>3. r = IF a = NULL THEN Panics(k2)
              ELSE Returns([k2 EXCEPT !.list = InsertAt(k2.list, i, y)], NULL)
      BY <3>1, <3>2, Zenon
    <3>4. QED
      BY <2>2, <3>3
  <2> HIDE DEF r
  <2>4. Covers(m, G \union Run(v, n))
    <3>1. PieceAt(y, v, n)
      BY DEF PieceAt
    <3>2. PageAt(v) >= HARD_LIMIT
      <4>1. BlockPages <= v /\ BlockPages \in Int
        BY PageNumbers
      <4>2. PageAt(BlockPages) <= PageAt(v)
        BY <4>1, PageOrder
      <4>3. PageAt(v) \in Int /\ PageAt(BlockPages) \in Int /\ HARD_LIMIT = PageAt(BlockPages)
        BY <4>1, PageAdd, PageBorders
      <4>4. QED
        BY <4>2, <4>3
    <3>3. y = [node |-> a, va |-> PageAt(v), n |-> n]
      OBVIOUS
    <3> HIDE DEF y, va
    <3>4. QED
      BY <1>1, <2>2, <3>1, <3>2, <3>3, InsertCovers
  <2> HIDE DEF m
  <2>5. e.list = m /\ e.flag = k.flag /\ e.mm = k2.mm /\ e.da = k2.da
    BY <2>2 DEF Kernel
  <2> HIDE DEF e
  <2>6. Backed(e, k)
    BY <2>2, <2>5 DEF Backed
  <2>7. QED
    BY <2>3, <2>4, <2>5, <2>6 DEF Returned, r, q
<1>5. QED
  BY <1>2, <1>3, <1>4

\* A range that joins an element, or is one of its own, is covered with what was covered.
LEMMA ReturnCovers ==
  ASSUME NEW k, NEW H, NEW x, Sound(k, H, x), NEW W, NEW G, CoversAs(k.list, W, G),
         NEW v \in Int, NEW n \in Int, n >= 1, BlockPages + 1 <= v, v + n <= LastNo + 1,
         G \intersect Run(v, n) = {}, NEW strat
  PROVE  Returned(return_pages(k, PageAt(v), PageAt(v + n - 1), n, strat), k, G \union Run(v, n))
<1> DEFINE l == k.list
           va == PageAt(v)
           last == PageAt(v + n - 1)
           after == {i \in DOMAIN l : last < l[i].va}
           i == IF after = {} THEN Len(l) + 1 ELSE Smallest(after)
           p == i - 1
           right == after # {} /\ l[i].va - last = PAGE_SIZE
           left == p > 0 /\ va - (l[p].va + (l[p].n - 1) * PAGE_SIZE) = PAGE_SIZE
           r == return_pages(k, va, last, n, strat)
<1>1. Kernel(k) /\ Listed(l)
  BY HeldBelow
<1>2. Len(l) \in Nat /\ DOMAIN l = 1 .. Len(l)
  BY <1>1 DEF Listed, IsList
<1>3. /\ after \subseteq DOMAIN l
      /\ after # {} => i \in after /\ \A h \in after : i <= h
      /\ after = {} => i = Len(l) + 1
  <2>1. after \in SUBSET Nat
    BY <1>2
  <2>2. after \subseteq DOMAIN l
    OBVIOUS
  <2> HIDE DEF after
  <2>3. QED
    BY <2>1, <2>2, SmallestIs
<1>4. i \in 1 .. Len(l) + 1 /\ p \in Int /\ i \in Int /\ i = p + 1
  <2>1. i \in 1 .. Len(l) + 1
    BY <1>2, <1>3
  <2> HIDE DEF i
  <2>2. QED
    BY <1>2, <2>1
<1>5. r = IF left /\ right THEN Returns(join_both(k, p, i, n), NULL)
          ELSE IF right THEN Returns([k EXCEPT !.list[i].va = va, !.list[i].n = @ + n], NULL)
          ELSE IF left THEN Returns([k EXCEPT !.list[p].n = @ + n], NULL)
          ELSE insert_range(kmalloc_block(k, NodeSize, strat), i, va, n)
  BY DEF return_pages
<1> HIDE DEF i, r
<1>6. ASSUME NEW h \in DOMAIN l
      PROVE  /\ W[h] \in Int /\ l[h].n \in Int /\ l[h].n >= 1 /\ l[h].va = PageAt(W[h])
             /\ BlockPages + 1 <= W[h] /\ W[h] + l[h].n <= LastNo + 1
             /\ W[h] + l[h].n <= v \/ v + n <= W[h]
             /\ h \in after <=> v + n <= W[h]
  <2>1. /\ W[h] \in Int /\ l[h].n \in Int /\ l[h].n >= 1 /\ l[h].va = PageAt(W[h])
        /\ BlockPages + 1 <= W[h] /\ W[h] + l[h].n <= LastNo + 1
    BY DEF CoversAs, PieceAt
  <2>2. W[h] + l[h].n <= v \/ v + n <= W[h]
    BY BeforeOrAfter
  <2>3. last < PageAt(W[h]) <=> v + n - 1 < W[h]
    <3>1. v + n - 1 \in Int
      OBVIOUS
    <3>2. QED
      BY <2>1, <3>1, PageOrder
  <2>4. v + n - 1 < W[h] <=> v + n <= W[h]
    BY <2>1
  <2>5. h \in after <=> v + n <= W[h]
    BY <2>1, <2>3, <2>4
  <2>6. QED
    BY <2>1, <2>2, <2>5
<1> HIDE DEF after
<1>7. ASSUME NEW h \in DOMAIN l
      PROVE  /\ h < i => W[h] + l[h].n <= v
             /\ h >= i => i \in DOMAIN l /\ v + n <= W[h] /\ (h > i => W[i] + l[i].n < W[h])
  <2>1. h \in Int /\ h <= Len(l)
    BY <1>2
  <2>2. ASSUME h < i
        PROVE  W[h] + l[h].n <= v
    <3>1. h \notin after
      BY <1>2, <1>3, <1>4, <2>1, <2>2
    <3>2. QED
      BY <1>6, <3>1
  <2>3. ASSUME h >= i
        PROVE  i \in DOMAIN l /\ v + n <= W[h] /\ (h > i => W[i] + l[i].n < W[h])
    <3>1. after # {}
      BY <1>2, <1>3, <1>4, <2>1, <2>3
    <3>2. i \in DOMAIN l /\ v + n <= W[i]
      BY <1>3, <1>6, <3>1
    <3>3. h > i => W[i] + l[i].n < W[h]
      BY <3>2 DEF CoversAs
    <3>4. h = i \/ h > i
      BY <1>4, <2>1, <2>3
    <3>5. W[h] \in Int /\ W[i] \in Int /\ l[i].n \in Int /\ l[i].n >= 1
      BY <1>6, <3>2
    <3>6. QED
      BY <3>2, <3>3, <3>4, <3>5
  <2>4. QED
    BY <2>2, <2>3
<1>8. /\ right => i \in DOMAIN l /\ W[i] = v + n
      /\ ~right => (i \in DOMAIN l => W[i] # v + n)
  <2>1. ASSUME i \in DOMAIN l
        PROVE  l[i].va - last = PAGE_SIZE <=> W[i] = v + n
    <3>1. W[i] \in Int /\ l[i].va = PageAt(W[i]) /\ v + n - 1 \in Int
      BY <1>6, <2>1
    <3>2. PageAt(W[i]) - last = PAGE_SIZE <=> W[i] = (v + n - 1) + 1
      BY <3>1, PageNext
    <3>3. (v + n - 1) + 1 = v + n
      OBVIOUS
    <3>4. QED
      BY <3>1, <3>2, <3>3
  <2>2. i \in DOMAIN l => after # {}
    BY <1>2, <1>3
  <2>3. after # {} => i \in DOMAIN l
    BY <1>3
  <2>4. QED
    BY <2>1, <2>2, <2>3
<1>9. /\ left => p \in DOMAIN l /\ W[p] + l[p].n = v
      /\ ~left => (p \in DOMAIN l => W[p] + l[p].n # v)
  <2>1. p > 0 <=> p \in DOMAIN l
    BY <1>2, <1>4
  <2>2. ASSUME p \in DOMAIN l
        PROVE  va - (l[p].va + (l[p].n - 1) * PAGE_SIZE) = PAGE_SIZE <=> W[p] + l[p].n = v
    <3> DEFINE w == W[p]
               c == l[p].n
               d == c - 1
    <3>1. w \in Int /\ c \in Int /\ l[p].va = PageAt(w) /\ d \in Int /\ w + d \in Int /\ (w + d) + 1 = w + c
      BY <1>6, <2>2
    <3> HIDE DEF w, d
    <3>2. l[p].va + d * PAGE_SIZE = PageAt(w + d)
      BY <3>1, PageAdd
    <3>3. va - PageAt(w + d) = PAGE_SIZE <=> v = (w + d) + 1
      BY <3>1, PageNext
    <3>4. va - (l[p].va + d * PAGE_SIZE) = PAGE_SIZE <=> w + c = v
      BY <3>1, <3>2, <3>3
    <3>5. QED
      BY <3>4 DEF w, d
  <2>3. QED
    BY <2>1, <2>2
<1> HIDE DEF p, right, left, va, last
<1>10. CASE left /\ right
  <2> DEFINE e == join_both(k, p, i, n)
  <2>1. SameTables(e, k) /\ Covers(e.list, G \union Run(v, n))
    <3>1. p = i - 1
      BY DEF p
    <3>2. QED
      BY <1>8, <1>9, <1>10, <3>1, BothCovers
  <2>2. r = Returns(e, NULL)
    BY <1>5, <1>10
  <2> HIDE DEF e
  <2>3. QED
    BY <2>1, <2>2 DEF Returned, SameTables, Backed, r, va, last
<1>11. CASE right /\ ~left
  <2> DEFINE g == l[i].n + n
             e == SetAt(k, i, va, g)
  <2>1. r = Returns(e, NULL)
    <3> DEFINE l1 == [l EXCEPT ![i].va = va]
               k1 == [k EXCEPT !.list = l1]
    <3>1. r = Returns([k EXCEPT !.list[i].va = va, !.list[i].n = @ + n], NULL)
      BY <1>5, <1>11
    <3>2. [k EXCEPT !.list[i].va = va, !.list[i].n = @ + n] = [k1 EXCEPT !.list[i].n = k1.list[i].n + n]
      OBVIOUS
    <3>3. k1.list[i].n = l[i].n
      BY <1>1, <1>8, <1>11, ElementIs DEF Kernel
    <3>4. r = Returns([k EXCEPT !.list[i].va = va, !.list[i].n = g], NULL)
      BY <3>1, <3>2, <3>3
    <3>5. QED
      BY <3>4 DEF SetAt
  <2>2. i \in DOMAIN l /\ W[i] = v + n
    BY <1>8, <1>11
  <2>3. Relisted(e, k, i, PageAt(v), g)
    BY <1>1, <2>2, ListAt DEF Relisted, va
  <2>4. /\ W[i] \in Int /\ l[i].n \in Int /\ l[i].n >= 1 /\ W[i] + l[i].n <= LastNo + 1
        /\ g \in Int /\ g >= 1 /\ v + g = W[i] + l[i].n
    BY <1>6, <2>2
  <2> HIDE DEF e
  <2>5. \A h \in DOMAIN l : /\ h < i => W[h] + l[h].n < v
                            /\ h > i => v + g < W[h]
    <3>1. ASSUME NEW h \in DOMAIN l, h < i
          PROVE  W[h] + l[h].n < v
      <4>1. W[h] + l[h].n <= v /\ W[h] \in Int /\ l[h].n \in Int /\ h \in Int
        BY <1>2, <1>6, <1>7, <3>1
      <4>2. CASE h = p
        BY <1>9, <1>11, <4>1, <4>2
      <4>3. CASE h # p
        <5>1. h < p /\ p \in DOMAIN l /\ p < i
          BY <1>2, <1>4, <3>1, <4>1, <4>3
        <5>2. W[h] + l[h].n < W[p] /\ W[p] + l[p].n <= v /\ W[p] \in Int /\ l[p].n \in Int /\ l[p].n >= 1
          BY <1>6, <1>7, <5>1 DEF CoversAs
        <5>3. QED
          BY <4>1, <5>2
      <4>4. QED
        BY <4>2, <4>3
    <3>2. ASSUME NEW h \in DOMAIN l, h > i
          PROVE  v + g < W[h]
      <4>1. h >= i
        BY <1>2, <1>4, <3>2
      <4>2. QED
        BY <1>7, <2>4, <3>2, <4>1
    <3>3. QED
      BY <3>1, <3>2
  <2>6. v + g <= LastNo + 1
    BY <2>4
  <2> DEFINE E == (G \ Run(W[i], l[i].n)) \union Run(v, g)
  <2> HIDE DEF g
  <2>7. SameTables(e, k) /\ Covers(e.list, E)
    BY <1>1, <2>2, <2>3, <2>4, <2>5, <2>6, OneCovers
  <2>8. E = G \union Run(v, n)
    <3>1. Run(v, n) \union Run(v + n, l[i].n) = Run(v, n + l[i].n)
      <4>1. n \in Nat /\ l[i].n \in Nat
        BY <2>4
      <4>2. OneRun(v, n, l[i].n)
        BY <4>1, RunsJoin
      <4>3. QED
        BY <4>2 DEF OneRun
    <3>2. n + l[i].n = g
      BY <2>4 DEF g
    <3>3. Run(W[i], l[i].n) \subseteq G
      BY <2>2 DEF CoversAs
    <3>4. QED
      BY <2>2, <3>1, <3>2, <3>3
  <2> HIDE DEF E
  <2>9. QED
    BY <2>1, <2>7, <2>8 DEF Returned, SameTables, Backed, r, va, last
<1>12. CASE left /\ ~right
  <2> DEFINE g == l[p].n + n
             e == [k EXCEPT !.list[p].n = g]
             y == [node |-> l[p].node, va |-> l[p].va, n |-> g]
  <2>1. r = Returns(e, NULL)
    BY <1>5, <1>12
  <2>2. p \in DOMAIN l /\ W[p] + l[p].n = v
    BY <1>9, <1>12
  <2>3. /\ l[p] = [node |-> l[p].node, va |-> l[p].va, n |-> l[p].n]
        /\ l[p].va = PageAt(W[p])
    BY <1>1, <1>6, <2>2, ElementIs
  <2>4. Relisted(e, k, p, PageAt(W[p]), g)
    <3> HIDE DEF g
    <3>1. [l[p] EXCEPT !.n = g] = y
      BY <2>3
    <3> HIDE DEF y
    <3>2. e = [k EXCEPT !.list = [k.list EXCEPT ![p] = y]]
      BY <3>1
    <3>3. QED
      BY <2>3, <3>2 DEF Relisted, y
  <2>5. /\ W[p] \in Int /\ l[p].n \in Int /\ l[p].n >= 1 /\ BlockPages + 1 <= W[p]
        /\ g \in Int /\ g >= 1 /\ W[p] + g = v + n
    BY <1>6, <2>2
  <2> HIDE DEF e
  <2>6. \A h \in DOMAIN l : /\ h < p => W[h] + l[h].n < W[p]
                            /\ h > p => W[p] + g < W[h]
    <3>1. ASSUME NEW h \in DOMAIN l, h < p
          PROVE  W[h] + l[h].n < W[p]
      BY <2>2, <3>1 DEF CoversAs
    <3>2. ASSUME NEW h \in DOMAIN l, h > p
          PROVE  W[p] + g < W[h]
      <4>1. h >= i /\ h \in Int
        BY <1>2, <1>4, <3>2
      <4>2. i \in DOMAIN l /\ v + n <= W[h] /\ W[h] \in Int
        BY <1>6, <1>7, <4>1
      <4>3. W[i] # v + n /\ v + n <= W[i] /\ W[i] \in Int /\ l[i].n \in Int /\ l[i].n >= 1
        <5>1. i >= i
          BY <1>4
        <5>2. QED
          BY <1>6, <1>7, <1>8, <1>12, <4>2, <5>1
      <4>4. h > i => W[i] + l[i].n < W[h]
        BY <1>7, <4>1
      <4>5. h = i \/ h > i
        BY <1>4, <4>1
      <4>6. QED
        BY <2>5, <4>2, <4>3, <4>4, <4>5
    <3>3. QED
      BY <3>1, <3>2
  <2> DEFINE E == (G \ Run(W[p], l[p].n)) \union Run(W[p], g)
  <2>7. W[p] + g <= LastNo + 1
    BY <2>5
  <2> HIDE DEF g
  <2>8. SameTables(e, k) /\ Covers(e.list, E)
    BY <1>1, <2>2, <2>4, <2>5, <2>6, <2>7, OneCovers
  <2>9. E = G \union Run(v, n)
    <3>1. Run(W[p], l[p].n) \union Run(v, n) = Run(W[p], g)
      <4> DEFINE c == l[p].n
      <4>1. W[p] \in Int /\ c \in Nat /\ n \in Nat /\ W[p] + c = v /\ c + n = g
        BY <2>2, <2>5 DEF g
      <4>2. OneRun(W[p], c, n)
        BY <4>1, RunsJoin
      <4>3. QED
        BY <4>1, <4>2 DEF OneRun
    <3>2. Run(W[p], l[p].n) \subseteq G
      BY <2>2 DEF CoversAs
    <3>3. QED
      BY <3>1, <3>2
  <2> HIDE DEF E
  <2>10. QED
    BY <2>1, <2>8, <2>9 DEF Returned, SameTables, Backed, r, va, last
<1>13. CASE ~left /\ ~right
  <2>1. \A h \in DOMAIN l : /\ h < i => W[h] + l[h].n < v
                            /\ h >= i => v + n < W[h]
    <3>1. ASSUME NEW h \in DOMAIN l, h < i
          PROVE  W[h] + l[h].n < v
      <4>1. W[h] + l[h].n <= v /\ W[h] \in Int /\ l[h].n \in Int /\ h \in Int
        BY <1>2, <1>6, <1>7, <3>1
      <4>2. CASE h = p
        BY <1>9, <1>13, <4>1, <4>2
      <4>3. CASE h # p
        <5>1. h < p /\ p \in DOMAIN l /\ p < i
          BY <1>2, <1>4, <3>1, <4>1, <4>3
        <5>2. W[h] + l[h].n < W[p] /\ W[p] + l[p].n <= v /\ W[p] \in Int /\ l[p].n \in Int /\ l[p].n >= 1
          BY <1>6, <1>7, <5>1 DEF CoversAs
        <5>3. QED
          BY <4>1, <5>2
      <4>4. QED
        BY <4>2, <4>3
    <3>2. ASSUME NEW h \in DOMAIN l, h >= i
          PROVE  v + n < W[h]
      <4>2. i \in DOMAIN l /\ v + n <= W[h] /\ W[h] \in Int /\ h \in Int
        BY <1>2, <1>6, <1>7, <3>2
      <4>3. W[i] # v + n /\ v + n <= W[i] /\ W[i] \in Int /\ l[i].n \in Int /\ l[i].n >= 1
        <5>1. i >= i
          BY <1>4
        <5>2. QED
          BY <1>6, <1>7, <1>8, <1>13, <4>2, <5>1
      <4>4. h > i => W[i] + l[i].n < W[h]
        BY <1>7, <3>2
      <4>5. h = i \/ h > i
        BY <1>4, <3>2, <4>2
      <4>6. QED
        BY <4>2, <4>3, <4>4, <4>5
    <3>3. QED
      BY <3>1, <3>2
  <2>2. Returned(insert_range(kmalloc_block(k, NodeSize, strat), i, PageAt(v), n), k, G \union Run(v, n))
    BY <1>4, <2>1, OwnCovers
  <2>3. QED
    BY <1>5, <1>13, <2>2 DEF r, va, last
<1>14. QED
  BY <1>10, <1>11, <1>12, <1>13 DEF r, va, last

-----------------------------------------------------------------------------
(* The runs of pages that callers hold: N has the length of each, by its first page *)

RunsApart(N) ==
  /\ DOMAIN N \subseteq AreaNos
  /\ \A v \in DOMAIN N : N[v] \in Int /\ N[v] >= 1 /\ v + N[v] <= LastNo + 1
  /\ \A v, w \in DOMAIN N : v < w => v + N[v] <= w

\* The pages of no run.
Spare(N) == {j \in AreaNos : \A v \in DOMAIN N : ~InRun(j, v, N[v])}

\* What is asked of a run of n pages: room for c bytes, or for c < 0 that it has exactly -c pages.
RunRoom(n, c) == IF c < 0 THEN n = -c ELSE c <= n * PAGE_SIZE

\* The addresses of f above the blocks are those of the runs, each long enough.
RunsHeld(f, N) ==
  /\ \A va : va \in DOMAIN f /\ ~InBlocks(va) <=> \E v \in DOMAIN N : va = PageAt(v)
  /\ \A v \in DOMAIN N : f[PageAt(v)] \in Int /\ RunRoom(N[v], f[PageAt(v)])

\* The page tables show the runs.
RunsShown(m, N) ==
  /\ \A v \in DOMAIN N : \A j \in AreaNos :
       InRun(j, v, N[v]) => Entry(m, j).frame # NoFrame /\ Entry(m, j).perm = Marks(j, v, N[v])
  /\ \A j \in Spare(N) : Entry(m, j) = NoEntry

\* The list has the other pages, as soon as there is a list.
RestListed(k, N) == IF k.flag THEN Covers(k.list, Spare(N)) ELSE DOMAIN N = {}

AreaAs(k, f, N) == RunsApart(N) /\ RunsHeld(f, N) /\ RunsShown(k.mm, N) /\ RestListed(k, N)
Area(k, f)      == \E N : AreaAs(k, f, N)

\* What is left of it when the kernel stops: the runs, but perhaps not the list.
Runs(k, f) == \E N : RunsApart(N) /\ RunsHeld(f, N) /\ RunsShown(k.mm, N)
Left(r, f) == IF r.panic THEN Runs(r.kh, f) ELSE Area(r.kh, f)

\* The runs of a heap in order.
LEMMA AreaRuns ==
  ASSUME NEW k, NEW f, Area(k, f)
  PROVE  Runs(k, f)
BY DEF Area, AreaAs, Runs

\* The runs are those of a heap with the same pages and the same list.
LEMMA AreaKept ==
  ASSUME NEW k, NEW f, NEW N, AreaAs(k, f, N), NEW e, SameArea(e, k), e.list = k.list, e.flag = k.flag,
         NEW g, RunsHeld(g, N)
  PROVE  AreaAs(e, g, N)
<1>1. RunsShown(e.mm, N)
  <2>1. \A j \in AreaNos : Entry(e.mm, j) = Entry(k.mm, j)
    BY DEF SameArea
  <2>2. RunsShown(k.mm, N)
    BY DEF AreaAs
  <2>3. Spare(N) \subseteq AreaNos
    BY DEF Spare
  <2>4. QED
    BY <2>1, <2>2, <2>3 DEF RunsShown
<1>2. RestListed(e, N)
  BY DEF RestListed, AreaAs
<1>3. QED
  BY <1>1, <1>2 DEF AreaAs

\* The addresses of the pages.
LEMMA AreaAddress ==
  ASSUME NEW v \in AreaNos
  PROVE  /\ PageAt(v) \in Int /\ ~InBlocks(PageAt(v)) /\ PageAt(v) # NULL
         /\ PageAt(v) >= HARD_LIMIT + PAGE_SIZE /\ PageAt(v) < KERNEL_HEAP_MAX
<1>1. v \in Int /\ BlockPages \in Int /\ LastNo \in Int /\ BlockPages + 1 <= v /\ v < LastNo + 1
  BY PageNumbers DEF AreaNos
<1>2. PageAt(BlockPages + 1) <= PageAt(v) /\ PageAt(v) < PageAt(LastNo + 1) /\ PageAt(v) \in Int
  <2> DEFINE a == BlockPages + 1
             b == LastNo + 1
  <2>1. a \in Int /\ b \in Int /\ a <= v /\ v < b
    BY <1>1
  <2> HIDE DEF a, b
  <2>2. PageAt(a) <= PageAt(v) /\ PageAt(v) < PageAt(b)
    BY <1>1, <2>1, PageOrder
  <2>3. PageAt(v) \in Int
    BY <1>1, PageAdd
  <2>4. QED
    BY <2>2, <2>3 DEF a, b
<1>3. PageAt(BlockPages + 1) = HARD_LIMIT + PAGE_SIZE /\ PageAt(LastNo + 1) = KERNEL_HEAP_MAX
  BY PageBorders DEF PAGE_START
<1>4. HARD_LIMIT \in Int /\ HARD_LIMIT > 0 /\ PAGE_SIZE \in Int /\ PAGE_SIZE >= 32
  BY LimitType, StartType, PageType
<1>5. QED
  BY <1>2, <1>3, <1>4 DEF InBlocks, NULL

\* A block comes, or another size for it.
LEMMA HeldWithBlock ==
  ASSUME NEW f, NEW N, RunsApart(N), RunsHeld(f, N), NEW va, InBlocks(va), NEW size
  PROVE  RunsHeld(With(f, va, size), N)
<1> DEFINE g == With(f, va, size)
<1>1. DOMAIN g = DOMAIN f \union {va} /\ \A u \in DOMAIN f : u # va => g[u] = f[u]
  BY DEF With
<1> HIDE DEF g
<1>2. \A v \in DOMAIN N : PageAt(v) # va /\ PageAt(v) \in DOMAIN f
  BY AreaAddress DEF RunsApart, RunsHeld
<1>3. \A v \in DOMAIN N : g[PageAt(v)] = f[PageAt(v)]
  BY <1>1, <1>2
<1>4. \A u : u \in DOMAIN g /\ ~InBlocks(u) <=> u \in DOMAIN f /\ ~InBlocks(u)
  BY <1>1
<1>5. QED
  BY <1>3, <1>4 DEF RunsHeld, g

\* A block goes.
LEMMA HeldWithoutBlock ==
  ASSUME NEW f, NEW N, RunsApart(N), RunsHeld(f, N), NEW va, InBlocks(va)
  PROVE  RunsHeld(Without(f, va), N)
<1> DEFINE g == Without(f, va)
<1>1. DOMAIN g = DOMAIN f \ {va} /\ \A u \in DOMAIN f : u # va => g[u] = f[u]
  BY DEF Without
<1> HIDE DEF g
<1>2. \A v \in DOMAIN N : PageAt(v) # va /\ PageAt(v) \in DOMAIN f
  BY AreaAddress DEF RunsApart, RunsHeld
<1>3. \A v \in DOMAIN N : g[PageAt(v)] = f[PageAt(v)]
  BY <1>1, <1>2
<1>4. \A u : u \in DOMAIN g /\ ~InBlocks(u) <=> u \in DOMAIN f /\ ~InBlocks(u)
  BY <1>1
<1>5. QED
  BY <1>3, <1>4 DEF RunsHeld, g

\* What kmalloc() leaves: page tables in order, and one run or block more unless there was none.
Gets(r, f, size) ==
  /\ Tables(r.kh)
  /\ IF r.va = NULL THEN Left(r, f) ELSE r.va \notin DOMAIN f /\ Left(r, With(f, r.va, size))

\* kmalloc() of a block.
LEMMA GetsBlock ==
  ASSUME NEW k, NEW f, Consistent(k, f), Tables(k), Area(k, f), NEW size \in Nat,
         size + 24 <= PAGE_SIZE, NEW strat, NEW need
  PROVE  Gets(kmalloc_block(k, size, strat), f, need)
<1> DEFINE H == HeldIn(f)
           r == kmalloc_block(k, size, strat)
<1>1. Sound(k, H, f)
  BY DEF Consistent
<1>2. PICK N : AreaAs(k, f, N)
  BY DEF Area
<1>3. r = Returns(k, NULL) \/ \E k2, va : NewBlock(r, k, H, f, size, k2, va)
  BY <1>1, NewBlocks
<1> HIDE DEF H, r
<1>4. CASE r = Returns(k, NULL)
  BY <1>4, OutcomeIs DEF Gets, Left, r
<1>5. CASE \E k2, va : NewBlock(r, k, H, f, size, k2, va)
  <2>1. PICK k2, va : NewBlock(r, k, H, f, size, k2, va)
    BY <1>5
  <2>2. /\ r = Returns(k2, va) /\ va \notin H /\ va # NULL /\ va < HARD_LIMIT
        /\ k2.list = k.list /\ k2.flag = k.flag /\ Backed(k2, k)
    BY ONLY <2>1, NewBlockIs
  <2>3. Tables(k2) /\ SameArea(k2, k)
    BY <2>2, BackedTables
  <2>4. InBlocks(va)
    BY <2>2 DEF InBlocks
  <2>5. va \notin DOMAIN f
    BY <2>2, <2>4 DEF H, HeldIn
  <2>6. RunsHeld(With(f, va, need), N)
    BY <1>2, <2>4, HeldWithBlock DEF AreaAs
  <2>7. AreaAs(k2, With(f, va, need), N)
    BY <1>2, <2>2, <2>3, <2>6, AreaKept
  <2>8. QED
    BY <2>2, <2>3, <2>5, <2>7, OutcomeIs DEF Gets, Left, Area, r
<1>6. QED
  BY <1>3, <1>4, <1>5

\* A run that meets none of the others.
RunApart(N, v, n) == \A w \in DOMAIN N : \A j \in AreaNos : InRun(j, w, N[w]) => ~InRun(j, v, n)

\* A run comes out of the pages of no run.
LEMMA RunAdded ==
  ASSUME NEW N, RunsApart(N), NEW v \in Int, NEW n \in Int, n >= 1, BlockPages + 1 <= v,
         v + n <= LastNo + 1, Run(v, n) \subseteq Spare(N)
  PROVE  /\ v \in AreaNos /\ v \notin DOMAIN N /\ RunApart(N, v, n)
         /\ RunsApart(With(N, v, n)) /\ Spare(With(N, v, n)) = Spare(N) \ Run(v, n)
<1> DEFINE M == With(N, v, n)
<1>1. BlockPages \in Int /\ LastNo \in Int /\ AreaNos \subseteq Int
  BY PageNumbers
<1>2. v \in AreaNos /\ v \in Run(v, n)
  BY <1>1 DEF AreaNos, Run, InRun
<1>3. \A w \in DOMAIN N : w \in AreaNos /\ w \in Int /\ N[w] \in Int /\ N[w] >= 1 /\ w + N[w] <= LastNo + 1
  BY <1>1 DEF RunsApart
<1>4. v \notin DOMAIN N
  <2>1. ASSUME v \in DOMAIN N
        PROVE  FALSE
    <3>1. InRun(v, v, N[v])
      BY <1>3, <2>1 DEF InRun
    <3>2. v \in Spare(N)
      BY <1>2
    <3>3. QED
      BY <2>1, <3>1, <3>2 DEF Spare
  <2>2. QED
    BY <2>1
<1>5. RunApart(N, v, n)
  <2>1. ASSUME NEW w \in DOMAIN N, NEW j \in AreaNos, InRun(j, w, N[w]), InRun(j, v, n)
        PROVE  FALSE
    <3>1. j \in Spare(N)
      BY <2>1 DEF Run
    <3>2. QED
      BY <2>1, <3>1 DEF Spare
  <2>2. QED
    BY <2>1 DEF RunApart
<1>6. DOMAIN M = DOMAIN N \union {v} /\ M[v] = n /\ \A w \in DOMAIN N : w # v => M[w] = N[w]
  BY DEF With
<1> HIDE DEF M
<1>7. ASSUME NEW w \in DOMAIN N
      PROVE  (w < v => w + N[w] <= v) /\ (v < w => v + n <= w)
  <2>1. ASSUME w < v, ~(w + N[w] <= v)
        PROVE  FALSE
    <3>1. InRun(v, w, N[w]) /\ InRun(v, v, n)
      BY <1>1, <1>3, <2>1 DEF InRun
    <3>2. QED
      BY <1>2, <1>5, <3>1 DEF RunApart
  <2>2. ASSUME v < w, ~(v + n <= w)
        PROVE  FALSE
    <3>1. InRun(w, w, N[w]) /\ InRun(w, v, n)
      BY <1>1, <1>3, <2>2 DEF InRun
    <3>2. QED
      BY <1>3, <1>5, <3>1 DEF RunApart
  <2>3. QED
    BY <2>1, <2>2
<1>8. RunsApart(M)
  <2>1. DOMAIN M \subseteq AreaNos
    BY <1>2, <1>3, <1>6
  <2>2. ASSUME NEW w \in DOMAIN M
        PROVE  M[w] \in Int /\ M[w] >= 1 /\ w + M[w] <= LastNo + 1
    BY <1>3, <1>6
  <2>3. ASSUME NEW u \in DOMAIN M, NEW w \in DOMAIN M, u < w
        PROVE  u + M[u] <= w
    <3>1. CASE u = v
      <4>1. w # v /\ w \in DOMAIN N
        BY <1>6, <2>3, <3>1
      <4>2. QED
        BY <1>6, <1>7, <2>3, <3>1, <4>1
    <3>2. CASE w = v
      <4>1. u # v /\ u \in DOMAIN N
        BY <1>6, <2>3, <3>2
      <4>2. QED
        BY <1>6, <1>7, <2>3, <3>2, <4>1
    <3>3. CASE u # v /\ w # v
      BY <1>6, <2>3, <3>3 DEF RunsApart
    <3>4. QED
      BY <3>1, <3>2, <3>3
  <2>4. QED
    BY <2>1, <2>2, <2>3 DEF RunsApart
<1>9. Spare(M) = Spare(N) \ Run(v, n)
  <2>1. ASSUME NEW j \in AreaNos
        PROVE  (\A w \in DOMAIN M : ~InRun(j, w, M[w]))
                 <=> (\A w \in DOMAIN N : ~InRun(j, w, N[w])) /\ ~InRun(j, v, n)
    BY <1>4, <1>6
  <2>2. QED
    BY <2>1 DEF Spare, Run
<1>10. QED
  BY <1>2, <1>4, <1>5, <1>8, <1>9 DEF M

\* A run goes, and its pages are those of no run.
LEMMA RunRemoved ==
  ASSUME NEW N, RunsApart(N), NEW v \in DOMAIN N
  PROVE  /\ RunsApart(Without(N, v)) /\ Spare(Without(N, v)) = Spare(N) \union Run(v, N[v])
         /\ Spare(N) \intersect Run(v, N[v]) = {} /\ RunApart(Without(N, v), v, N[v])
<1> DEFINE M == Without(N, v)
           n == N[v]
<1>1. AreaNos \subseteq Int
  BY PageNumbers
<1>2. DOMAIN M = DOMAIN N \ {v} /\ \A w \in DOMAIN M : M[w] = N[w]
  BY DEF Without
<1> HIDE DEF M
<1>3. \A w \in DOMAIN N : w \in AreaNos /\ w \in Int /\ N[w] \in Int /\ N[w] >= 1 /\ w + N[w] <= LastNo + 1
  BY <1>1 DEF RunsApart
<1>4. RunsApart(M)
  BY <1>2 DEF RunsApart
<1>5. Spare(N) \intersect Run(v, n) = {}
  BY DEF Spare, Run
<1>6. RunApart(M, v, n)
  <2>1. ASSUME NEW w \in DOMAIN M, NEW j \in AreaNos, InRun(j, w, M[w]), InRun(j, v, n)
        PROVE  FALSE
    <3>1. w \in DOMAIN N /\ w # v /\ M[w] = N[w] /\ w \in Int /\ v \in Int /\ j \in Int
          /\ N[w] \in Int /\ n \in Int
      BY <1>1, <1>2, <1>3
    <3>2. w <= j /\ j < w + N[w] /\ v <= j /\ j < v + n
      BY <2>1, <3>1 DEF InRun
    <3>3. (w < v => w + N[w] <= v) /\ (v < w => v + n <= w)
      BY <3>1 DEF RunsApart
    <3>4. QED
      BY <3>1, <3>2, <3>3
  <2>2. QED
    BY <2>1 DEF RunApart
<1>7. Spare(M) = Spare(N) \union Run(v, n)
  <2>1. ASSUME NEW j \in AreaNos
        PROVE  (\A w \in DOMAIN M : ~InRun(j, w, M[w]))
                 <=> (\A w \in DOMAIN N : ~InRun(j, w, N[w])) \/ InRun(j, v, n)
    <3>1. InRun(j, v, n) => \A w \in DOMAIN M : ~InRun(j, w, M[w])
      BY <1>6 DEF RunApart
    <3>2. QED
      BY <1>2, <3>1
  <2>2. QED
    BY <2>1 DEF Spare, Run
<1>8. QED
  BY <1>4, <1>5, <1>6, <1>7 DEF M, n

\* The address of a run is added.
LEMMA HeldAdded ==
  ASSUME NEW f, NEW N, RunsApart(N), RunsHeld(f, N), NEW v \in AreaNos, v \notin DOMAIN N, NEW n,
         NEW size \in Nat, size <= n * PAGE_SIZE
  PROVE  PageAt(v) \notin DOMAIN f /\ RunsHeld(With(f, PageAt(v), size), With(N, v, n))
<1> DEFINE va == PageAt(v)
           g == With(f, va, size)
           M == With(N, v, n)
<1>1. DOMAIN g = DOMAIN f \union {va} /\ g[va] = size /\ \A u \in DOMAIN f : u # va => g[u] = f[u]
  BY DEF With
<1>2. DOMAIN M = DOMAIN N \union {v} /\ M[v] = n /\ \A w \in DOMAIN N : w # v => M[w] = N[w]
  BY DEF With
<1>3. \A w \in DOMAIN N : w \in AreaNos /\ PageAt(w) # va
  <2>1. \A w \in DOMAIN N : w \in AreaNos /\ w # v
    BY DEF RunsApart
  <2>2. \A w \in DOMAIN N : PageAt(w) = va <=> w = v
    <3>1. \A w \in AreaNos : w \in Int
      BY PageNumbers
    <3>2. QED
      BY <2>1, <3>1, PageOrder
  <2>3. QED
    BY <2>1, <2>2
<1>4. ~InBlocks(va)
  BY AreaAddress
<1> HIDE DEF g, M, va
<1>5. va \notin DOMAIN f
  BY <1>3, <1>4 DEF RunsHeld
<1>6. ASSUME NEW u
      PROVE  u \in DOMAIN g /\ ~InBlocks(u) <=> \E w \in DOMAIN M : u = PageAt(w)
  <2>1. u \in DOMAIN f /\ ~InBlocks(u) <=> \E w \in DOMAIN N : u = PageAt(w)
    BY DEF RunsHeld
  <2>2. QED
    BY <1>1, <1>2, <1>4, <2>1 DEF va
<1>7. ASSUME NEW w \in DOMAIN M
      PROVE  g[PageAt(w)] \in Int /\ RunRoom(M[w], g[PageAt(w)])
  <2>1. CASE w = v
    <3>1. g[PageAt(w)] = size /\ M[w] = n /\ ~(size < 0)
      BY <1>1, <1>2, <2>1 DEF va
    <3>2. QED
      BY <3>1 DEF RunRoom
  <2>2. CASE w # v
    <3>1. w \in DOMAIN N /\ M[w] = N[w] /\ PageAt(w) # va
      BY <1>2, <1>3, <2>2
    <3>2. PageAt(w) \in DOMAIN f
      BY <3>1 DEF RunsHeld
    <3>3. g[PageAt(w)] = f[PageAt(w)]
      BY <1>1, <3>1, <3>2
    <3>4. QED
      BY <3>1, <3>3 DEF RunsHeld
  <2>3. QED
    BY <2>1, <2>2
<1>8. QED
  BY <1>5, <1>6, <1>7 DEF RunsHeld, g, M, va

\* The address of a run is removed.
LEMMA HeldRemoved ==
  ASSUME NEW f, NEW N, RunsApart(N), RunsHeld(f, N), NEW v \in DOMAIN N
  PROVE  RunsHeld(Without(f, PageAt(v)), Without(N, v))
<1> DEFINE va == PageAt(v)
           g == Without(f, va)
           M == Without(N, v)
<1>1. DOMAIN g = DOMAIN f \ {va} /\ \A u \in DOMAIN g : g[u] = f[u]
  BY DEF Without
<1>2. DOMAIN M = DOMAIN N \ {v} /\ \A w \in DOMAIN M : M[w] = N[w]
  BY DEF Without
<1>3. \A w \in DOMAIN N : PageAt(w) = va <=> w = v
  <2>0. AreaNos \subseteq Int
    BY PageNumbers
  <2>1. \A w \in DOMAIN N : w \in Int
    BY <2>0 DEF RunsApart
  <2>2. ASSUME NEW w \in DOMAIN N
        PROVE  PageAt(w) = va <=> w = v
    <3>1. w \in Int /\ v \in Int
      BY <2>1
    <3>2. QED
      BY <3>1, PageOrder
  <2>3. QED
    BY <2>2
<1> HIDE DEF g, M, va
<1>4. ASSUME NEW u
      PROVE  u \in DOMAIN g /\ ~InBlocks(u) <=> \E w \in DOMAIN M : u = PageAt(w)
  <2>1. u \in DOMAIN f /\ ~InBlocks(u) <=> \E w \in DOMAIN N : u = PageAt(w)
    BY DEF RunsHeld
  <2>2. QED
    BY <1>1, <1>2, <1>3, <2>1
<1>5. ASSUME NEW w \in DOMAIN M
      PROVE  g[PageAt(w)] \in Int /\ RunRoom(M[w], g[PageAt(w)])
  <2>1. w \in DOMAIN N /\ M[w] = N[w]
    BY <1>2
  <2>2. PageAt(w) \in DOMAIN g
    BY <1>4
  <2>3. QED
    BY <1>1, <2>1, <2>2 DEF RunsHeld
<1>6. QED
  BY <1>4, <1>5 DEF RunsHeld, g, M, va

\* The first element has all pages.
LEMMA FirstCovers ==
  ASSUME NEW node
  PROVE  Covers(<<[node |-> node, va |-> PAGE_START, n |-> PagePages]>>, AreaNos)
<1> DEFINE e == [node |-> node, va |-> PAGE_START, n |-> PagePages]
           l == <<e>>
           w == BlockPages + 1
           W == <<w>>
<1>1. /\ w \in Int /\ PagePages \in Int /\ PagePages >= 1 /\ w + PagePages = LastNo + 1
      /\ BlockPages \in Int /\ LastNo \in Int
  BY PageNumbers DEF LastNo
<1>2. PAGE_START = PageAt(w)
  BY PageBorders
<1>3. e.va = PAGE_START /\ e.n = PagePages
  OBVIOUS
<1> HIDE DEF e
<1>4. DOMAIN l = {1} /\ l[1] = e
  OBVIOUS
<1>5. W[1] = w
  OBVIOUS
<1> HIDE DEF l, W
<1>6. PieceAt(l[1], W[1], l[1].n)
  BY <1>1, <1>2, <1>3, <1>4, <1>5 DEF PieceAt
<1>7. AreaNos = Run(w, PagePages)
  <2>1. ASSUME NEW j \in AreaNos
        PROVE  InRun(j, w, PagePages)
    BY <1>1 DEF AreaNos, InRun
  <2>2. QED
    BY <2>1 DEF Run
<1>8. CoversAs(l, W, AreaNos)
  <2>1. \A i \in DOMAIN l : PieceAt(l[i], W[i], l[i].n)
    BY <1>4, <1>6
  <2>2. \A i, j \in DOMAIN l : i < j => W[i] + l[i].n < W[j]
    BY <1>4
  <2>3. \A j : j \in AreaNos <=> \E i \in DOMAIN l : j \in Run(W[i], l[i].n)
    BY <1>3, <1>4, <1>5, <1>7
  <2>4. QED
    BY <2>1, <2>2, <2>3 DEF CoversAs
<1>9. QED
  BY <1>8 DEF Covers, l, e

\* The page allocator is ready, or the kernel stopped.
Ready1(q, f) ==
  /\ Tables(q.kh) /\ q.va = NULL
  /\ IF q.panic THEN Runs(q.kh, f) ELSE q.kh.flag /\ Area(q.kh, f) /\ Sound(q.kh, HeldIn(f), f)

\* The first use of the page allocator gives the list all pages, and no call has any.
LEMMA GetsFirst ==
  ASSUME NEW k, NEW f, Consistent(k, f), Tables(k), Area(k, f), ~k.flag, NEW strat
  PROVE  Ready1(first_page(kmalloc_block(k, NodeSize, strat)), f)
<1> DEFINE H == HeldIn(f)
           r == kmalloc_block(k, NodeSize, strat)
           q == first_page(r)
<1>1. Sound(k, H, f)
  BY DEF Consistent
<1>2. PICK N : AreaAs(k, f, N)
  BY DEF Area
<1>3. r = Returns(k, NULL) \/ \E k2, va : NewBlock(r, k, H, f, NodeSize, k2, va)
  BY <1>1, NodeBlock
<1>4. PageReady(q, k, H, f)
  BY <1>1, FirstPage
<1>5. PICK k0 : (q = Panics(k0) \/ (q = Returns(k0, NULL) /\ k0.flag)) /\ Sound(k0, H, f)
  BY <1>4 DEF PageReady
<1> HIDE DEF r, H
<1>6. CASE r = Returns(k, NULL)
  <2>1. q = Panics(k)
    BY <1>6, OutcomeIs DEF first_page
  <2>2. q.kh = k /\ q.panic /\ q.va = NULL
    BY <2>1, OutcomeIs
  <2>3. QED
    BY <2>2, AreaRuns DEF Ready1, r
<1>7. CASE \E k2, va : NewBlock(r, k, H, f, NodeSize, k2, va)
  <2>1. PICK k2, va : NewBlock(r, k, H, f, NodeSize, k2, va)
    BY <1>7
  <2>2. /\ r = Returns(k2, va) /\ va # NULL /\ Kernel(k2) /\ Backed(k2, k)
    BY ONLY <2>1, NewBlockIs
  <2> DEFINE e == [node |-> va, va |-> PAGE_START, n |-> PagePages]
             k3 == [k2 EXCEPT !.list = <<e>>, !.flag = TRUE]
  <2>3. q = Returns(k3, NULL)
    <3>1. r.kh = k2 /\ r.va = va
      BY <2>2, OutcomeIs
    <3>2. first_page(r) = IF r.va = NULL THEN Panics(r.kh)
            ELSE Returns([r.kh EXCEPT !.list = <<[node |-> r.va, va |-> PAGE_START, n |-> PagePages]>>,
                                      !.flag = TRUE], NULL)
      BY DEF first_page
    <3>3. QED
      BY <2>2, <3>1, <3>2, Zenon
  <2>4. Covers(<<e>>, AreaNos)
    BY FirstCovers
  <2> HIDE DEF e
  <2>5. k3.list = <<e>> /\ k3.flag /\ k3.mm = k2.mm /\ k3.da = k2.da
    BY <2>2 DEF Kernel
  <2> HIDE DEF k3, q
  <2>6. q.kh = k3 /\ ~q.panic /\ k0 = k3 /\ q.va = NULL
    BY <1>5, <2>3, OutcomeIs
  <2>7. Tables(k2) /\ SameArea(k2, k)
    BY <2>2, BackedTables
  <2>8. Tables(k3)
    BY <2>5, <2>7 DEF Tables, BreakAt
  <2>9. SameArea(k3, k)
    BY <2>5, <2>7 DEF SameArea
  <2>10. DOMAIN N = {} /\ RunsApart(N) /\ RunsHeld(f, N) /\ RunsShown(k.mm, N)
    BY <1>2 DEF AreaAs, RestListed
  <2>11. Spare(N) = AreaNos
    BY <2>10 DEF Spare
  <2>12. RunsShown(k3.mm, N)
    BY <2>9, <2>10, <2>11 DEF RunsShown, SameArea
  <2>13. RestListed(k3, N)
    BY <2>4, <2>5, <2>11 DEF RestListed
  <2>14. AreaAs(k3, f, N)
    BY <2>10, <2>12, <2>13 DEF AreaAs
  <2>15. QED
    BY <1>5, <2>5, <2>6, <2>8, <2>14 DEF Ready1, Area, H, q, r
<1>8. QED
  BY <1>3, <1>6, <1>7

\* Pages for a request: the run that they are is new, and the list and the page tables know it.
LEMMA GetsPages ==
  ASSUME NEW k, NEW f, Sound(k, HeldIn(f), f), Tables(k), Area(k, f), k.flag, NEW n \in Nat, n >= 1,
         NEW size \in Nat, size <= n * PAGE_SIZE
  PROVE  Gets(from_pages(k, n), f, size)
<1> DEFINE l == k.list
           fit == {i \in DOMAIN l : l[i].n >= n}
           i == Smallest(fit)
           t == take_pages(k, i, n)
           r == from_pages(k, n)
<1>1. Listed(l)
  BY DEF Sound
<1>2. r = IF Len(k.mm.free) < n \/ fit = {} THEN Returns(k, NULL) ELSE map_pages(t, l[i].va, n)
  BY DEF from_pages
<1>3. PICK N : AreaAs(k, f, N)
  BY DEF Area
<1>4. CASE r = Returns(k, NULL)
  <2> HIDE DEF r
  <2>1. QED
    BY <1>4, OutcomeIs DEF Gets, Left, r
<1>5. CASE ~(Len(k.mm.free) < n) /\ fit # {} /\ r = map_pages(t, l[i].va, n)
  <2>1. fit \in SUBSET Nat
    BY <1>1, ElementIs
  <2>2. i \in DOMAIN l /\ l[i].n >= n
    <3>1. i \in fit
      BY <1>5, <2>1, SmallestIs
    <3>2. QED
      BY <3>1
  <2> HIDE DEF i, r, fit
  <2>3. PICK W : CoversAs(l, W, Spare(N))
    BY <1>3 DEF AreaAs, RestListed, Covers
  <2> DEFINE v == W[i]
             c == l[i].n
  <2>4. /\ v \in Int /\ c \in Int /\ c >= 1 /\ l[i].va = PageAt(v) /\ n <= c
        /\ BlockPages + 1 <= v /\ v + c <= LastNo + 1 /\ BlockPages \in Int /\ LastNo \in Int
    BY <2>2, <2>3, PageNumbers DEF CoversAs, PieceAt
  <2>5. Run(v, c) \subseteq Spare(N)
    BY <2>2, <2>3 DEF CoversAs
  <2>6. SameTables(t, k) /\ Covers(t.list, Spare(N) \ Run(v, n))
    BY <2>2, <2>3, <2>4, TakeCovers
  <2> HIDE DEF v, c, t
  <2>7. Kernel(t) /\ t.mm = k.mm /\ t.da.brk = k.da.brk /\ t.flag = k.flag /\ FramesExact(t.mm)
        /\ v + n <= LastNo + 1
    BY <2>4, <2>6 DEF SameTables, Tables
  <2>8. Run(v, n) \subseteq Run(v, c)
    <3>1. \A j \in AreaNos : InRun(j, v, n) => InRun(j, v, c)
      BY <2>4, PageNumbers DEF InRun
    <3>2. QED
      BY <3>1 DEF Run
  <2>9. Run(v, n) \subseteq Spare(N)
    BY <2>5, <2>8
  <2>10. RunEmpty(t.mm, v, n)
    <3>1. ASSUME NEW j \in Int, InRun(j, v, n)
          PROVE  j \in PageNos /\ Entry(t.mm, j) = NoEntry
      <4>1. j \in AreaNos
        BY <2>4, <2>7, <3>1 DEF AreaNos, InRun
      <4>2. j \in Spare(N)
        BY <2>9, <3>1, <4>1 DEF Run
      <4>3. QED
        BY <1>3, <2>7, <4>1, <4>2, PageNumbers DEF AreaAs, RunsShown
    <3>2. QED
      BY <3>1 DEF RunEmpty
  <2>11. Len(t.mm.free) >= n
    <3>1. Len(t.mm.free) \in Int
      BY <2>7, KMemoryTypes
    <3>2. QED
      BY <1>5, <2>7, <3>1
  <2>12. PICK m, g : /\ map_pages(t, PageAt(v), n) = Returns([t EXCEPT !.mm = m], PageAt(v))
                     /\ RunFilled(t.mm, m, v, n, g)
                     /\ \A j \in Int : InRun(j, v, n) => g[j - v + 1] = Marks(j, v, n)
    BY <2>4, <2>7, <2>10, <2>11, MapMarked
  <2> DEFINE e == [t EXCEPT !.mm = m]
             M == With(N, v, n)
             h == With(f, PageAt(v), size)
  <2>13. r = Returns(e, PageAt(v))
    BY <1>5, <2>4, <2>12
  <2>14. Kernel(e) /\ e.mm = m /\ e.list = t.list /\ e.flag /\ e.da = t.da
    BY <2>7 DEF Kernel
  <2> HIDE DEF e
  <2>15. /\ v \in AreaNos /\ v \notin DOMAIN N /\ RunApart(N, v, n)
         /\ RunsApart(M) /\ Spare(M) = Spare(N) \ Run(v, n)
    BY <1>3, <2>4, <2>7, <2>9, RunAdded DEF AreaAs
  <2>16. PageAt(v) \notin DOMAIN f /\ RunsHeld(h, M)
    BY <1>3, <2>15, HeldAdded DEF AreaAs
  <2>17. ASSUME NEW j \in PageNos
         PROVE  IF InRun(j, v, n)
                THEN Entry(m, j).frame # NoFrame /\ Entry(m, j).perm = Marks(j, v, n)
                ELSE Entry(m, j) = Entry(k.mm, j)
    <3>1. j \in Int
      BY DEF PageNos
    <3>2. CASE InRun(j, v, n)
      <4>1. Entry(m, j).frame # NoFrame /\ Entry(m, j).perm = Marks(j, v, n) \union {"P"}
        BY <2>12, <3>1, <3>2 DEF RunFilled
      <4>2. Marks(j, v, n) \union {"P"} = Marks(j, v, n)
        BY DEF Marks
      <4>3. QED
        BY <3>2, <4>1, <4>2
    <3>3. CASE ~InRun(j, v, n)
      BY <2>7, <2>12, <3>3 DEF RunFilled
    <3>4. QED
      BY <3>2, <3>3
  <2>18. AreaNos \subseteq PageNos
    BY PageNumbers
  <2>19. RunsShown(m, M)
    <3>1. DOMAIN M = DOMAIN N \union {v} /\ M[v] = n /\ \A w \in DOMAIN N : w # v => M[w] = N[w]
      BY DEF With
    <3> HIDE DEF M
    <3>2. RunsShown(k.mm, N)
      BY <1>3 DEF AreaAs
    <3>3. ASSUME NEW w \in DOMAIN M, NEW j \in AreaNos, InRun(j, w, M[w])
          PROVE  Entry(m, j).frame # NoFrame /\ Entry(m, j).perm = Marks(j, w, M[w])
      <4>1. CASE w = v
        BY <2>17, <2>18, <3>1, <3>3, <4>1
      <4>2. CASE w # v
        <5>1. w \in DOMAIN N /\ M[w] = N[w]
          BY <3>1, <4>2
        <5>2. ~InRun(j, v, n)
          BY <2>15, <3>3, <5>1 DEF RunApart
        <5>3. QED
          BY <2>17, <2>18, <3>2, <3>3, <5>1, <5>2 DEF RunsShown
      <4>3. QED
        BY <4>1, <4>2
    <3>4. ASSUME NEW j \in Spare(M)
          PROVE  Entry(m, j) = NoEntry
      <4>1. j \in Spare(N) /\ j \in AreaNos /\ ~InRun(j, v, n)
        BY <2>15, <3>4 DEF Spare, Run
      <4>2. QED
        BY <2>17, <2>18, <3>2, <4>1 DEF RunsShown
    <3>5. QED
      BY <3>3, <3>4 DEF RunsShown
  <2>20. RestListed(e, M)
    BY <2>6, <2>14, <2>15 DEF RestListed
  <2>21. AreaAs(e, h, M)
    BY <2>14, <2>15, <2>16, <2>19, <2>20 DEF AreaAs
  <2>22. Tables(e)
    <3>1. FramesExact(m)
      BY <2>12 DEF RunFilled
    <3>2. ASSUME NEW j \in 0 .. BlockPages
          PROVE  Entry(m, j) = Entry(k.mm, j)
      <4>1. j \in PageNos /\ ~InRun(j, v, n)
        BY <2>4, PageNumbers DEF PageNos, InRun, LastNo
      <4>2. QED
        BY <2>17, <4>1
    <3>3. QED
      BY <2>7, <2>14, <3>1, <3>2, TablesAs
  <2>23. PageAt(v) # NULL
    BY <2>15, AreaAddress
  <2> HIDE DEF h, M
  <2>24. r.kh = e /\ r.va = PageAt(v) /\ ~r.panic
    BY <2>13, OutcomeIs
  <2>25. QED
    BY <2>16, <2>21, <2>22, <2>23, <2>24 DEF Gets, Left, Area, h, r
<1>6. QED
  BY <1>2, <1>4, <1>5

\* A multiple, divided.
LEMMA QuotientOf ==
  ASSUME NEW p \in Nat, p > 0, NEW x \in Int
  PROVE  (x * p) \div p = x
<1> DEFINE a == x * p
           q == a \div p
           r == a % p
           d == x - q
<1>1. a \in Int
  OBVIOUS
<1>2. q \in Int /\ r \in Int /\ a = p * q + r /\ 0 <= r /\ r < p
  <2> HIDE DEF a
  <2>1. QED
    BY <1>1
<1> HIDE DEF q, r
<1>3. d \in Int /\ x = q + d
  BY <1>2
<1> HIDE DEF d
<1>4. a = q * p + d * p
  BY <1>2, <1>3
<1>5. d * p = r
  <2>1. q * p = p * q /\ d * p \in Int /\ p * q \in Int
    BY <1>2, <1>3
  <2> HIDE DEF a
  <2>2. QED
    BY <1>2, <1>4, <2>1
<1>6. (d >= 1 => d * p >= p) /\ (d <= -1 => d * p <= -p)
  BY <1>3
<1>7. d = 0
  BY <1>2, <1>3, <1>5, <1>6
<1>8. QED
  BY <1>2, <1>3, <1>7 DEF q, a

\* The pages that a request rounds up to.
LEMMA EnoughPages ==
  ASSUME NEW size \in Nat, size >= 1
  PROVE  LET n == RoundUp(size, PAGE_SIZE) \div PAGE_SIZE
         IN  n \in Nat /\ n >= 1 /\ size <= n * PAGE_SIZE
<1> DEFINE p == PAGE_SIZE
           a == size + p - 1
           q == a \div p
           r == a % p
           n == RoundUp(size, p) \div p
<1>1. p \in Nat /\ p > 0 /\ a \in Nat /\ a >= p
  BY PageType
<1>2. n = (q * p) \div p
  BY DEF RoundUp
<1> HIDE DEF p, a
<1>3. q \in Int /\ r \in Int /\ a = p * q + r /\ 0 <= r /\ r < p
  BY <1>1
<1> HIDE DEF q, r, n
<1>4. n = q
  BY <1>1, <1>2, <1>3, QuotientOf
<1>5. q >= 1
  <2>1. q <= 0 => p * q <= 0
    BY <1>1, <1>3
  <2>2. QED
    BY <1>1, <1>3, <2>1
<1>6. size <= q * p
  <2>1. q * p = p * q /\ p * q \in Int
    BY <1>1, <1>3
  <2>2. p * q > a - p /\ a - p = size - 1
    <3>1. p * q > a - p
      BY <1>1, <1>3, <2>1
    <3>2. QED
      BY <1>1, <3>1 DEF a
  <2>3. QED
    BY <1>1, <2>1, <2>2
<1>7. QED
  BY <1>3, <1>4, <1>5, <1>6 DEF n, p

\* kmalloc().
LEMMA GetsAny ==
  ASSUME NEW k, NEW f, Consistent(k, f), Tables(k), Area(k, f), NEW size \in Nat, NEW strat
  PROVE  Gets(kmalloc(k, size, strat), f, size)
<1>1. CASE size <= DYN_ALLOC_MAX_BLOCK_SIZE
  <2>1. kmalloc(k, size, strat) = kmalloc_block(k, size, strat)
    BY <1>1 DEF kmalloc
  <2>2. size + 24 <= PAGE_SIZE
    BY <1>1, PageType
  <2>3. Gets(kmalloc_block(k, size, strat), f, size)
    BY <2>2, GetsBlock
  <2>4. QED
    BY <2>1, <2>3
<1>2. CASE ~(size <= DYN_ALLOC_MAX_BLOCK_SIZE)
  <2> DEFINE n == RoundUp(size, PAGE_SIZE) \div PAGE_SIZE
             q == IF k.flag THEN Returns(k, NULL) ELSE first_page(kmalloc_block(k, NodeSize, strat))
             r == kmalloc(k, size, strat)
  <2>1. r = IF q.panic THEN q ELSE from_pages(q.kh, n)
    BY <1>2 DEF kmalloc, kmalloc_pages, after_init
  <2>2. n \in Nat /\ n >= 1 /\ size \in Nat /\ size <= n * PAGE_SIZE
    <3>1. size >= 1
      BY <1>2, PageType
    <3>2. QED
      BY <3>1, EnoughPages
  <2> HIDE DEF n
  <2>3. Ready1(q, f)
    <3>1. CASE k.flag
      <4>1. q.kh = k /\ q.va = NULL /\ ~q.panic
        BY <3>1, OutcomeIs
      <4>2. Sound(k, HeldIn(f), f)
        BY DEF Consistent
      <4>3. QED
        BY <3>1, <4>1, <4>2 DEF Ready1
    <3>2. CASE ~k.flag
      <4>1. Ready1(first_page(kmalloc_block(k, NodeSize, strat)), f)
        BY <3>2, GetsFirst
      <4>2. QED
        BY <3>2, <4>1
    <3>3. QED
      BY <3>1, <3>2
  <2> HIDE DEF q, r
  <2>4. CASE q.panic
    BY <2>1, <2>3, <2>4 DEF Gets, Left, Ready1, r
  <2>5. CASE ~q.panic
    <3>1. r = from_pages(q.kh, n)
      BY <2>1, <2>5
    <3>2. Gets(from_pages(q.kh, n), f, size)
      BY <2>2, <2>3, <2>5, GetsPages DEF Ready1
    <3>3. QED
      BY <3>1, <3>2 DEF r
  <2>6. QED
    BY <2>4, <2>5
<1>3. QED
  BY <1>1, <1>2

-----------------------------------------------------------------------------
(* What goes back *)

\* What kfree() leaves: page tables in order, and the others' runs.
Drops(r, f, va) == Tables(r.kh) /\ Left(r, Without(f, va))

\* kfree() of a block.
LEMMA DropsBlock ==
  ASSUME NEW k, NEW f, Consistent(k, f), Tables(k), Area(k, f), NEW va \in HeldIn(f), NEW strat
  PROVE  Drops(kfree(k, va, strat), f, va)
<1> DEFINE H == HeldIn(f)
           d == free_block(k.da, va)
           e == [k EXCEPT !.da = d]
           r == kfree(k, va, strat)
<1>1. Sound(k, H, f)
  BY DEF Consistent
<1>2. PICK N : AreaAs(k, f, N)
  BY DEF Area
<1>3. Kernel(k) /\ va \in Int /\ va >= First /\ va < k.da.brk
  BY <1>1, HeldBelow
<1>4. va >= KERNEL_HEAP_START
  BY <1>3, StartType
<1>5. r = Returns(e, NULL)
  BY <1>3, <1>4 DEF kfree
<1>6. d.brk = k.da.brk
  BY <1>1, FreeBreak
<1> HIDE DEF r, d
<1>7. e.da = d /\ e.list = k.list /\ e.flag = k.flag /\ e.mm = k.mm
  BY <1>3 DEF Kernel
<1> HIDE DEF e
<1>8. Tables(e) /\ SameArea(e, k)
  BY <1>6, <1>7, TablesAs DEF Tables, SameArea
<1>9. InBlocks(va)
  BY DEF HeldIn
<1>10. RunsHeld(Without(f, va), N)
  BY <1>2, <1>9, HeldWithoutBlock DEF AreaAs
<1>11. AreaAs(e, Without(f, va), N)
  BY <1>2, <1>7, <1>8, <1>10, AreaKept
<1>12. QED
  BY <1>5, <1>8, <1>11, OutcomeIs DEF Drops, Left, Area, r

\* kfree() finds the last page of a run by its mark.
LEMMA LastOfRun ==
  ASSUME NEW m, FramesExact(m), NEW v \in AreaNos, NEW n \in Int, n >= 1, v + n <= LastNo + 1,
         \A j \in AreaNos : InRun(j, v, n) => Entry(m, j).frame # NoFrame /\ Entry(m, j).perm = Marks(j, v, n)
  PROVE  LastPage(m, PageAt(v)) = PageAt(v + n - 1)
<1> DEFINE c == v + n - 1
           T == {p \in PageAddresses : p > PageAt(v) /\ "b9" \in pt_get_page_permissions(m, K(p))}
<1>1. v \in Int /\ BlockPages \in Int /\ LastNo \in Int /\ c \in Int /\ BlockPages + 1 <= v /\ v <= c
      /\ c <= LastNo /\ AreaNos \subseteq PageNos
  BY PageNumbers DEF AreaNos
<1>2. \A j \in Int : v <= j /\ j <= c => j \in AreaNos /\ InRun(j, v, n)
  BY <1>1 DEF AreaNos, InRun
<1>3. ASSUME NEW j \in Int, v <= j, j <= c
      PROVE  pt_get_page_permissions(m, K(PageAt(j))) = Marks(j, v, n)
  <2>1. Entry(m, j).perm = Marks(j, v, n)
    BY <1>2, <1>3
  <2>2. QED
    BY <2>1 DEF pt_get_page_permissions, Entry, Key
<1>4. \A j \in Int : "b9" \in Marks(j, v, n) <=> n > 1 /\ (j = v \/ j = c)
  BY DEF Marks
<1>5. LastPage(m, PageAt(v)) = IF "b9" \notin Marks(v, v, n) THEN PageAt(v) ELSE Smallest(T)
  <2>1. pt_get_page_permissions(m, K(PageAt(v))) = Marks(v, v, n)
    BY <1>1, <1>3
  <2>2. QED
    BY <2>1 DEF LastPage
<1> HIDE DEF c
<1>6. CASE n = 1
  <2>1. "b9" \notin Marks(v, v, n) /\ c = v
    BY <1>1, <1>4, <1>6 DEF c
  <2>2. QED
    BY <1>5, <2>1 DEF c
<1>7. CASE n > 1
  <2>1. "b9" \in Marks(v, v, n) /\ v < c
    BY <1>1, <1>4, <1>7 DEF c
  <2>2. PageAt(c) \in T
    <3>1. c \in PageNos
      BY <1>1, <1>2
    <3>2. PageAt(c) \in PageAddresses
      BY <3>1, PageBorders
    <3>3. PageAt(v) < PageAt(c) /\ PageAt(v) \in Int /\ PageAt(c) \in Int
      BY <1>1, <2>1, PageOrder, PageAdd
    <3>4. "b9" \in pt_get_page_permissions(m, K(PageAt(c)))
      BY <1>1, <1>3, <1>4, <1>7
    <3>5. QED
      BY <3>2, <3>3, <3>4
  <2>3. ASSUME NEW p \in T
        PROVE  p \in Nat /\ PageAt(c) <= p
    <3>1. PICK j \in PageNos : p = PageAt(j)
      BY PageBorders
    <3>2. j \in Int /\ PageAt(v) < PageAt(j)
      <4>1. j \in Int
        BY DEF PageNos
      <4>2. PageAt(v) \in Int /\ PageAt(j) \in Int
        BY <1>1, <4>1, PageAdd
      <4>3. QED
        BY <3>1, <4>1, <4>2
    <3>3. v < j
      BY <1>1, <3>2, PageOrder
    <3>4. ASSUME j < c
          PROVE  FALSE
      <4>1. pt_get_page_permissions(m, K(PageAt(j))) = Marks(j, v, n)
        BY <1>1, <1>3, <3>2, <3>3, <3>4
      <4>2. "b9" \notin Marks(j, v, n)
        BY <1>1, <1>4, <3>2, <3>3, <3>4
      <4>3. QED
        BY <3>1, <4>1, <4>2
    <3>5. c <= j
      BY <1>1, <3>2, <3>4
    <3>6. PageAt(c) <= PageAt(j)
      BY <1>1, <3>2, <3>5, PageOrder
    <3>7. PageAt(j) \in Nat
      <4>1. PageAt(0) <= PageAt(j)
        BY <3>2, PageOrder DEF PageNos
      <4>2. PageAt(0) \in Int /\ PageAt(0) > 0 /\ PageAt(j) \in Int
        BY <3>2, PageBorders, StartType, PageAdd
      <4>3. QED
        BY <4>1, <4>2
    <3>8. QED
      BY <3>1, <3>6, <3>7
  <2> HIDE DEF T
  <2>4. Smallest(T) \in T /\ \A y \in T : Smallest(T) <= y
    <3>1. T \in SUBSET Nat /\ T # {}
      BY <2>2, <2>3
    <3>2. QED
      BY <3>1, SmallestIs
  <2>5. Smallest(T) = PageAt(c)
    BY <2>2, <2>3, <2>4
  <2>6. QED
    BY <1>5, <2>1, <2>5 DEF c
<1>8. QED
  BY <1>6, <1>7

\* The pages of a run go back to the list.
LEMMA DropsRun ==
  ASSUME NEW k, NEW f, NEW N, Consistent(k, f), Tables(k), AreaAs(k, f, N), NEW v \in DOMAIN N,
         k.flag, NEW strat
  PROVE  Drops(kfree_pages(k, PageAt(v), PageAt(v + N[v] - 1), strat), f, PageAt(v))
<1> DEFINE H == HeldIn(f)
           n == N[v]
           va == PageAt(v)
           last == PageAt(v + n - 1)
           m == UnmapRun(k.mm, va, n)
           e == [k EXCEPT !.mm = m]
           r == kfree_pages(k, va, last, strat)
           M == Without(N, v)
           g == Without(f, va)
<1>1. Sound(k, H, f)
  BY DEF Consistent
<1>2. RunsApart(N) /\ RunsHeld(f, N) /\ RunsShown(k.mm, N) /\ RestListed(k, N)
  BY DEF AreaAs
<1>3. AreaNos \subseteq Int /\ AreaNos \subseteq PageNos /\ BlockPages \in Int /\ LastNo \in Int
  BY PageNumbers
<1>4. v \in AreaNos /\ v \in Int /\ n \in Int /\ n >= 1 /\ v + n <= LastNo + 1 /\ BlockPages + 1 <= v
  <2>1. v \in AreaNos /\ n \in Int /\ n >= 1 /\ v + n <= LastNo + 1
    BY <1>2 DEF RunsApart
  <2>2. QED
    BY <1>3, <2>1 DEF AreaNos
<1>5. /\ RunsApart(M) /\ Spare(M) = Spare(N) \union Run(v, n)
      /\ Spare(N) \intersect Run(v, n) = {} /\ RunApart(M, v, n)
  BY <1>2, RunRemoved
<1>6. RunsHeld(g, M)
  BY <1>2, HeldRemoved
<1> HIDE DEF n
<1>7. (last - va) \div PAGE_SIZE + 1 = n
  <2> DEFINE x == n - 1
  <2>1. x \in Int /\ v + x = v + n - 1
    BY <1>4
  <2>2. va \in Int /\ va + x * PAGE_SIZE = PageAt(v + x)
    BY <1>4, <2>1, PageAdd
  <2>3. last = va + x * PAGE_SIZE
    BY <2>1, <2>2
  <2> HIDE DEF x, last, va
  <2>4. PAGE_SIZE \in Nat /\ PAGE_SIZE > 0 /\ x * PAGE_SIZE \in Int
    BY <2>1, PageType
  <2>5. last - va = x * PAGE_SIZE
    BY <2>2, <2>3, <2>4
  <2>6. (x * PAGE_SIZE) \div PAGE_SIZE = x
    BY <2>1, <2>4, QuotientOf
  <2>7. QED
    BY <1>4, <2>5, <2>6 DEF x
<1>8. r = return_pages(e, va, last, n, strat)
  BY <1>7 DEF kfree_pages
<1> HIDE DEF r
<1>9. Sound(e, H, f) /\ e.flag = k.flag /\ e.list = k.list /\ e.da = k.da
  BY <1>1, SoundPages
<1>10. e.mm = m
  BY <1>1, HeldBelow DEF Kernel
<1>11. FramesExact(k.mm)
  BY DEF Tables
<1>12. \A j \in Int : InRun(j, v, n) => j \in AreaNos
  BY <1>3, <1>4 DEF AreaNos, InRun
<1>13. RunFull(k.mm, v, n)
  BY <1>2, <1>3, <1>12 DEF RunFull, RunsShown, n
<1>14. RunEmptied(k.mm, m, v, n)
  BY <1>4, <1>11, <1>13, EmptyRun
<1> HIDE DEF m, e
<1>15. FramesExact(m) /\ \A j \in PageNos : Entry(m, j) = IF InRun(j, v, n) THEN NoEntry ELSE Entry(k.mm, j)
  BY <1>14 DEF RunEmptied
<1>16. Tables(e)
  <2>1. ASSUME NEW j \in 0 .. BlockPages
        PROVE  Entry(m, j) = Entry(k.mm, j)
    <3>1. j \in PageNos /\ ~InRun(j, v, n)
      BY <1>3, <1>4, PageNumbers DEF PageNos, LastNo, InRun
    <3>2. QED
      BY <1>15, <3>1
  <2>2. QED
    BY <1>9, <1>10, <1>15, <2>1, TablesAs
<1>17. PICK W : CoversAs(e.list, W, Spare(N))
  BY <1>2, <1>9 DEF RestListed, Covers
<1>18. Returned(r, e, Spare(M))
  <2>1. Returned(return_pages(e, va, last, n, strat), e, Spare(N) \union Run(v, n))
    BY <1>4, <1>5, <1>9, <1>17, ReturnCovers DEF n
  <2>2. QED
    BY <1>5, <1>8, <2>1
<1>19. PICK e2 : /\ (r = Returns(e2, NULL) /\ Covers(e2.list, Spare(M))) \/ r = Panics(e2)
                 /\ Backed(e2, e) /\ e2.flag = e.flag
  BY <1>18 DEF Returned
<1>20. Tables(e2) /\ SameArea(e2, e) /\ r.kh = e2 /\ (r.panic \/ Covers(e2.list, Spare(M)))
  BY <1>16, <1>19, BackedTables, OutcomeIs
<1>21. RunsShown(e2.mm, M)
  <2>1. \A w \in DOMAIN M : w \in DOMAIN N /\ M[w] = N[w]
    BY DEF Without
  <2>2. \A j \in AreaNos : Entry(e2.mm, j) = Entry(m, j)
    BY <1>10, <1>20 DEF SameArea
  <2>3. ASSUME NEW w \in DOMAIN M, NEW j \in AreaNos, InRun(j, w, M[w])
        PROVE  Entry(e2.mm, j).frame # NoFrame /\ Entry(e2.mm, j).perm = Marks(j, w, M[w])
    <3>1. ~InRun(j, v, n)
      BY <1>5, <2>3 DEF RunApart
    <3>2. Entry(e2.mm, j) = Entry(k.mm, j)
      BY <1>3, <1>15, <2>2, <3>1
    <3>3. QED
      BY <1>2, <2>1, <2>3, <3>2 DEF RunsShown
  <2>4. ASSUME NEW j \in Spare(M)
        PROVE  Entry(e2.mm, j) = NoEntry
    <3>1. j \in AreaNos /\ j \in PageNos
      BY <1>3 DEF Spare
    <3>2. CASE InRun(j, v, n)
      BY <1>15, <2>2, <3>1, <3>2
    <3>3. CASE ~InRun(j, v, n)
      <4>1. j \in Spare(N)
        BY <1>5, <3>3 DEF Run
      <4>2. QED
        BY <1>2, <1>15, <2>2, <3>1, <3>3, <4>1 DEF RunsShown
    <3>4. QED
      BY <3>2, <3>3
  <2>5. QED
    BY <2>3, <2>4 DEF RunsShown
<1> HIDE DEF M, g
<1>22. CASE r.panic
  <2>1. Runs(e2, g)
    BY <1>5, <1>6, <1>21 DEF Runs
  <2>2. QED
    BY <1>20, <1>22, <2>1 DEF Drops, Left, r, g, last, va, n
<1>23. CASE ~r.panic
  <2>1. RestListed(e2, M)
    BY <1>9, <1>19, <1>20, <1>23 DEF RestListed
  <2>2. AreaAs(e2, g, M)
    BY <1>5, <1>6, <1>20, <1>21, <2>1 DEF AreaAs
  <2>3. QED
    BY <1>20, <1>23, <2>2 DEF Drops, Left, Area, r, g, last, va, n
<1>24. QED
  BY <1>22, <1>23

\* kfree().
LEMMA DropsAny ==
  ASSUME NEW k, NEW f, Consistent(k, f), Tables(k), Area(k, f), NEW va \in DOMAIN f, NEW strat
  PROVE  Drops(kfree(k, va, strat), f, va)
<1>1. CASE InBlocks(va)
  BY <1>1, DropsBlock DEF HeldIn
<1>2. CASE ~InBlocks(va)
  <2>1. PICK N : AreaAs(k, f, N)
    BY DEF Area
  <2>2. PICK v \in DOMAIN N : va = PageAt(v)
    BY <1>2, <2>1 DEF AreaAs, RunsHeld
  <2>3. v \in AreaNos /\ N[v] \in Int /\ N[v] >= 1 /\ v + N[v] <= LastNo + 1
    BY <2>1 DEF AreaAs, RunsApart
  <2>4. va \in Int /\ va >= HARD_LIMIT + PAGE_SIZE /\ va < KERNEL_HEAP_MAX
    BY <2>2, <2>3, AreaAddress
  <2>5. k.flag /\ Sound(k, HeldIn(f), f)
    BY <1>2 DEF Consistent
  <2>6. k.da.brk \in Int /\ k.da.brk <= HARD_LIMIT /\ HARD_LIMIT \in Int
    BY <2>5, HeldBelow, LimitType
  <2>7. ~(va < k.da.brk) /\ ~(va < HARD_LIMIT + 4)
    BY <2>4, <2>6, PageType
  <2>8. \A j \in AreaNos : InRun(j, v, N[v]) =>
           Entry(k.mm, j).frame # NoFrame /\ Entry(k.mm, j).perm = Marks(j, v, N[v])
    BY <2>1 DEF AreaAs, RunsShown
  <2>9. get_frame_info(k.mm, K(va)) # NoFrame
    <3>1. v \in Int
      <4>1. AreaNos \subseteq Int
        BY PageNumbers
      <4>2. QED
        BY <2>3, <4>1
    <3>2. InRun(v, v, N[v])
      BY <2>3, <3>1 DEF InRun
    <3>3. Entry(k.mm, v).frame # NoFrame
      BY <2>3, <2>8, <3>2
    <3>4. QED
      BY <2>2, <3>3 DEF get_frame_info, Entry, Key
  <2>10. ~(va >= KERNEL_HEAP_MAX)
    <3>1. KERNEL_HEAP_MAX \in Int
      <4> DEFINE c == LastNo + 1
      <4>1. c \in Int /\ 0 \in Int
        BY PageNumbers
      <4> HIDE DEF c
      <4>2. PageAt(c) \in Int
        BY <4>1, PageAdd
      <4>3. QED
        BY <4>2, PageBorders DEF c
    <3>2. QED
      BY <2>4, <3>1
  <2>11. kfree(k, va, strat) = kfree_pages(k, va, LastPage(k.mm, va), strat)
    BY <2>7, <2>9, <2>10 DEF kfree
  <2>12. LastPage(k.mm, va) = PageAt(v + N[v] - 1)
    BY <2>2, <2>3, <2>8, LastOfRun DEF Tables
  <2>13. Drops(kfree_pages(k, PageAt(v), PageAt(v + N[v] - 1), strat), f, PageAt(v))
    BY <2>1, <2>5, DropsRun
  <2>14. QED
    BY <2>2, <2>11, <2>12, <2>13
<1>3. QED
  BY <1>1, <1>2

-----------------------------------------------------------------------------
(* What moves, or is resized *)

(* What krealloc() leaves: page tables in order, and the old place or the new one, which
   nobody had, instead. *)
Keeps(r, f, va, size) ==
  /\ Tables(r.kh)
  /\ IF r.va = NULL THEN Left(r, f)
     ELSE /\ r.va = va \/ r.va \notin DOMAIN f
          /\ Left(r, With(Without(f, va), r.va, size))

\* The new place first, then the old one goes.
LEMMA KeepsMoved ==
  ASSUME NEW f, NEW va \in DOMAIN f, NEW size, NEW r, Gets(r, f, size), GivesNew(r, f, size), NEW strat
  PROVE  Keeps(move(va, r, strat), f, va, size)
<1> DEFINE m == move(va, r, strat)
           g == With(f, r.va, size)
           q == kfree(r.kh, va, strat)
           h == With(Without(f, va), r.va, size)
<1>1. CASE r.va = NULL
  <2>1. m = r
    BY <1>1 DEF move
  <2> HIDE DEF m
  <2>2. QED
    BY <1>1, <2>1 DEF Gets, Keeps, m
<1>2. CASE r.va # NULL
  <2>1. Consistent(r.kh, g) /\ ~r.panic
    BY <1>2 DEF GivesNew
  <2>2. Tables(r.kh) /\ r.va \notin DOMAIN f /\ Area(r.kh, g)
    BY <1>2, <2>1 DEF Gets, Left
  <2>3. m = [q EXCEPT !.va = r.va]
    BY <1>2, <2>1 DEF move, moved
  <2> HIDE DEF m
  <2>4. va \in DOMAIN g
    BY DEF With
  <2>5. Without(g, va) = h
    BY <2>2 DEF With, Without
  <2> HIDE DEF g, h
  <2>6. Drops(q, g, va) /\ Frees(q, r.kh, HeldIn(g) \ {va}, g)
    BY <2>1, <2>2, <2>4, DropsAny, Freeing
  <2> HIDE DEF q
  <2>7. PICK k2 : q = Returns(k2, NULL) \/ q = Panics(k2)
    BY <2>6 DEF Frees
  <2>8. DOMAIN q = {"kh", "va", "panic"}
    BY <2>7 DEF Returns, Panics
  <2>9. m.kh = q.kh /\ m.va = r.va /\ m.panic = q.panic
    BY <2>3, <2>8
  <2>10. QED
    BY <1>2, <2>2, <2>5, <2>6, <2>9 DEF Drops, Keeps, Left, m, h
<1>3. QED
  BY <1>1, <1>2

\* A block that stays where it is.
LEMMA KeepsBlock ==
  ASSUME NEW k, NEW f, Tables(k), Area(k, f), NEW va \in HeldIn(f), NEW size,
         NEW e, e.mm = k.mm, e.da.brk = k.da.brk, e.list = k.list, e.flag = k.flag
  PROVE  Keeps(Returns(e, va), f, va, size)
<1> DEFINE h == With(Without(f, va), va, size)
<1>1. PICK N : AreaAs(k, f, N)
  BY DEF Area
<1>2. InBlocks(va)
  BY DEF HeldIn
<1>3. Tables(e) /\ SameArea(e, k)
  BY TablesAs DEF Tables, SameArea
<1>4. RunsHeld(h, N)
  <2> DEFINE g == Without(f, va)
  <2>1. RunsApart(N) /\ RunsHeld(g, N)
    BY <1>1, <1>2, HeldWithoutBlock DEF AreaAs
  <2> HIDE DEF g
  <2>2. RunsHeld(With(g, va, size), N)
    BY <1>2, <2>1, HeldWithBlock
  <2>3. QED
    BY <2>2 DEF g
<1> HIDE DEF h
<1>5. AreaAs(e, h, N)
  BY <1>1, <1>3, <1>4, AreaKept
<1>6. Area(e, h) /\ Area(k, f)
  BY <1>5 DEF Area
<1>7. CASE va = NULL
  <2>1. AreaAs(e, f, N)
    BY <1>1, <1>3, AreaKept DEF AreaAs
  <2>2. QED
    BY <1>3, <1>7, <2>1, OutcomeIs DEF Keeps, Left, Area
<1>8. CASE va # NULL
  BY <1>3, <1>6, <1>8, OutcomeIs DEF Keeps, Left, h
<1>9. QED
  BY <1>7, <1>8

\* realloc_block_FF().
LEMMA KeepsResized ==
  ASSUME NEW k, NEW f, Consistent(k, f), Tables(k), Area(k, f), NEW va \in HeldIn(f),
         NEW size \in Nat, size >= 8, size + 24 <= PAGE_SIZE,
         Header(k.da, va) - 1 - (NextEven(size) + 8) \notin 1 .. 15,
         LinksSurvive(k.da, va, NextEven(size))
  PROVE  Keeps(realloc_block_FF(k, va, size), f, va, size)
<1> DEFINE H == HeldIn(f)
           U == H \union NodesOf(k.list)
           even == NextEven(size)
           r == realloc_block_FF(k, va, size)
           q == kmalloc_block(k, even, "FF")
<1>1. Sound(k, H, f) /\ va \in DOMAIN f
  BY DEF Consistent, HeldIn
<1>2. Kernel(k)
  BY <1>1, HeldBelow
<1>3. PICK B, z : HeldAs(k, H, f, va, B, z)
  BY <1>1, HeldBlock
<1>4. /\ Tiled(k.da, B, z, U, 0) /\ va \in U
      /\ Header(k.da, va) = z[va] + 1 /\ z[va] \in Evens /\ z[va] \in Int
  BY <1>3 DEF HeldAs
<1>5. even \in Int /\ even \in Nat /\ even \in Evens /\ size \in Nat /\ size <= even /\ even >= 8
  BY DEF NextEven, Evens
<1>6. even + 24 <= PAGE_SIZE
  <2> DEFINE P == PAGE_SIZE
  <2>1. P \in Nat /\ P % 2 = 0 /\ size + 24 <= P
    BY PageType
  <2> HIDE DEF P
  <2>2. size + 24 <= P /\ (size % 2 = 1 => size + 25 <= P)
    BY <2>1
  <2>3. QED
    BY <2>2 DEF NextEven, P
<1>survive. LinksSurvive(k.da, va, even)
  OBVIOUS
<1>7. z[va] - (even + 8) \notin 1 .. 15
  <2> DEFINE h == Header(k.da, va)
  <2>1. h - 1 - (even + 8) \notin 1 .. 15 /\ h = z[va] + 1
    BY <1>4
  <2> HIDE DEF h, even
  <2>2. h - 1 - (even + 8) = z[va] - (even + 8)
    BY <1>4, <1>5, <2>1
  <2>3. QED
    BY <2>1, <2>2
<1>8. r = IF even + 8 = z[va] THEN Returns(k, va)
          ELSE IF even + 8 < z[va] THEN Returns([k EXCEPT !.da = shrink(k.da, va, even)], va)
          ELSE IF NextIsEnough(k.da, va, even)
               THEN Returns([k EXCEPT !.da = absorb(k.da, va, even)], va)
          ELSE move(va, q, "FF")
  <2> DEFINE actual == Header(k.da, va) - 1
  <2>1. actual = z[va]
    BY <1>4
  <2>2. r = IF even + 8 = actual THEN Returns(k, va)
            ELSE IF even + 8 < actual THEN Returns([k EXCEPT !.da = shrink(k.da, va, even)], va)
            ELSE IF NextIsEnough(k.da, va, even)
                 THEN Returns([k EXCEPT !.da = absorb(k.da, va, even)], va)
            ELSE move(va, q, "FF")
    BY DEF realloc_block_FF, NextEven
  <2> HIDE DEF actual, even, q, r
  <2>3. QED
    BY <2>1, <2>2
<1>9. ASSUME NEW d, Resized(d, k.da, z, U, va, even)
      PROVE  Keeps(Returns([k EXCEPT !.da = d], va), f, va, size)
  <2> DEFINE e == [k EXCEPT !.da = d]
  <2>1. e.da = d /\ e.list = k.list /\ e.flag = k.flag /\ e.mm = k.mm
    BY <1>2 DEF Kernel
  <2>2. d.brk = k.da.brk
    BY <1>9 DEF Resized, ResizedAs
  <2> HIDE DEF e
  <2>3. Keeps(Returns(e, va), f, va, size)
    BY <2>1, <2>2, KeepsBlock
  <2>4. QED
    BY <2>3 DEF e
<1> HIDE DEF even, r, q, U, H
<1>10. CASE even + 8 = z[va]
  BY <1>8, <1>10, KeepsBlock DEF r
<1>11. CASE even + 8 < z[va]
  <2>1. z[va] >= even + 24
    BY <1>4, <1>5, <1>7, <1>11
  <2>2. Resized(shrink(k.da, va, even), k.da, z, U, va, even)
    BY <1>4, <1>5, <2>1, ShrinkBlock
  <2>3. ~(even + 8 = z[va])
    BY <1>4, <1>5, <1>11
  <2>4. QED
    BY <1>8, <1>9, <1>11, <2>2, <2>3 DEF r
<1>12. CASE ~(even + 8 = z[va]) /\ ~(even + 8 < z[va])
  <2>1. even + 8 > z[va]
    BY <1>4, <1>5, <1>12
  <2>2. CASE NextIsEnough(k.da, va, even)
    <3>1. Resized(absorb(k.da, va, even), k.da, z, U, va, even)
      BY <1>4, <1>5, <1>survive, <2>1, <2>2, AbsorbBlock
    <3>2. QED
      BY <1>8, <1>9, <1>12, <2>2, <3>1 DEF r
  <2>3. CASE ~NextIsEnough(k.da, va, even)
    <3>1. Gives(q, k, H, f, even)
      BY <1>1, <1>5, <1>6, GiveBlock DEF q
    <3>2. GivesNew(q, f, size)
      BY <1>5, <3>1, Giving DEF H
    <3>3. Gets(q, f, size)
      BY <1>5, <1>6, GetsBlock DEF q
    <3>4. Keeps(move(va, q, "FF"), f, va, size)
      BY <1>1, <3>2, <3>3, KeepsMoved
    <3>5. QED
      BY <1>8, <1>12, <2>3, <3>4 DEF r
  <2>4. QED
    BY <2>2, <2>3
<1>13. QED
  BY <1>10, <1>11, <1>12

\* krealloc() of what the caller has, to a size that is not 0.
LEMMA KeepsAny ==
  ASSUME NEW k, NEW f, Consistent(k, f), Tables(k), Area(k, f), NEW va \in DOMAIN f,
         NEW size \in Nat, size # 0, ReallocWorks(k, va, size), NEW strat
  PROVE  Keeps(krealloc(k, va, size, strat), f, va, size)
<1> DEFINE H == HeldIn(f)
           M == DYN_ALLOC_MAX_BLOCK_SIZE
           old == IF va < k.da.brk THEN Header(k.da, va) - 9 ELSE PAGE_SIZE
           q == kmalloc(k, size, strat)
           r == krealloc(k, va, size, strat)
<1>1. Sound(k, H, f) /\ va \in Int
  BY DEF Consistent
<1>2. va # NULL
  BY Freeing
<1>3. /\ k.da.brk \in Int /\ k.da.brk <= HARD_LIMIT /\ Kernel(k)
      /\ \A u \in H : u >= First /\ u < k.da.brk
  BY <1>1, HeldBelow
<1>4. HARD_LIMIT \in Int /\ First \in Int /\ First = KERNEL_HEAP_START + 8 /\ KERNEL_HEAP_START \in Int
  BY LimitType, StartType
<1>5. va \in H <=> va < k.da.brk
  <2>1. ASSUME va < k.da.brk
        PROVE  va \in H
    BY <1>1, <1>3, <1>4, <2>1 DEF HeldIn, InBlocks
  <2>2. QED
    BY <1>3, <2>1
<1> HIDE DEF H
<1>6. r = IF size = old THEN Returns(k, va)
          ELSE IF va < k.da.brk /\ size <= M THEN realloc_block_FF(k, va, size)
          ELSE move(va, q, strat)
  BY <1>2 DEF krealloc
<1> HIDE DEF r, q, M
<1>7. CASE size = old
  <2>1. CASE va \in H
    BY <1>6, <1>7, <2>1, KeepsBlock DEF r, H
  <2>2. CASE va \notin H
    <3> DEFINE h == With(Without(f, va), va, size)
    <3>1. size = PAGE_SIZE
      BY <1>5, <1>7, <2>2
    <3>2. PICK N : AreaAs(k, f, N)
      BY DEF Area
    <3>3. RunsApart(N) /\ RunsHeld(f, N)
      BY <3>2 DEF AreaAs
    <3>4. ~InBlocks(va)
      BY <2>2 DEF H, HeldIn
    <3>5. DOMAIN h = DOMAIN f /\ h[va] = size /\ \A u \in DOMAIN f : u # va => h[u] = f[u]
      BY DEF With, Without
    <3> HIDE DEF h
    <3>6. ASSUME NEW v \in DOMAIN N
          PROVE  h[PageAt(v)] \in Int /\ RunRoom(N[v], h[PageAt(v)])
      <4>1. f[PageAt(v)] \in Int /\ RunRoom(N[v], f[PageAt(v)]) /\ PageAt(v) \in DOMAIN f
        BY <3>3 DEF RunsHeld
      <4>2. CASE PageAt(v) = va
        <5> DEFINE P == PAGE_SIZE
                   c == N[v]
        <5>1. P \in Nat /\ c \in Int /\ c >= 1
          BY <3>3, PageType DEF RunsApart
        <5>2. h[PageAt(v)] = P
          BY <3>1, <3>5, <4>2
        <5> HIDE DEF P, c
        <5>3. P <= c * P
          BY <5>1
        <5>4. ~(P < 0) /\ P \in Int
          BY <5>1
        <5>5. QED
          BY <5>2, <5>3, <5>4 DEF RunRoom, P, c
      <4>3. CASE PageAt(v) # va
        BY <3>5, <4>1, <4>3
      <4>4. QED
        BY <4>2, <4>3
    <3>7. RunsHeld(h, N)
      BY <3>3, <3>5, <3>6 DEF RunsHeld
    <3>8. AreaAs(k, h, N)
      BY <3>2, <3>7 DEF AreaAs
    <3>9. r = Returns(k, va)
      BY <1>6, <1>7
    <3>10. r.kh = k /\ r.va = va /\ ~r.panic
      BY <3>9, OutcomeIs
    <3>11. QED
      BY <1>2, <3>8, <3>10 DEF Keeps, Left, Area, r, h
  <2>3. QED
    BY <2>1, <2>2
<1> HIDE DEF old
<1>8. CASE size # old /\ va < k.da.brk /\ size <= M
  <2>1. r = realloc_block_FF(k, va, size)
    BY <1>6, <1>8
  <2>2. /\ size >= 8 /\ Header(k.da, va) - 1 - (NextEven(size) + 8) \notin 1 .. 15
        /\ LinksSurvive(k.da, va, NextEven(size))
    <3>1. ~(va > HARD_LIMIT)
      BY <1>1, <1>3, <1>4, <1>8
    <3>2. QED
      BY <1>2, <1>8, <3>1 DEF ReallocWorks, NextEven, DYN_ALLOC_MIN_BLOCK_SIZE, M
  <2>3. size + 24 <= PAGE_SIZE
    BY <1>8, PageType DEF M
  <2>4. QED
    BY <1>5, <1>8, <2>1, <2>2, <2>3, KeepsResized DEF r, H
<1>9. CASE size # old /\ ~(va < k.da.brk /\ size <= M)
  <2>1. Gives(q, k, H, f, size)
    BY <1>1, Kmallocs DEF q
  <2>2. GivesNew(q, f, size)
    BY <2>1, Giving DEF H
  <2>3. Gets(q, f, size)
    BY GetsAny DEF q
  <2>4. Keeps(move(va, q, strat), f, va, size)
    BY <2>2, <2>3, KeepsMoved
  <2>5. QED
    BY <1>6, <1>9, <2>4 DEF r
<1>10. QED
  BY <1>7, <1>8, <1>9

-----------------------------------------------------------------------------
(* The pages of the heap *)

\* The invariant: page tables and runs in order, and as long as the kernel runs, all other pages in the list.
PagesInv == Tables(kh) /\ IF panicked THEN Runs(kh, live) ELSE Area(kh, live)

\* The memory before the heap has anything.
LEMMA FreshMemory ==
  LET m == initialize_paging(FrameCount, {K(va) : va \in PageAddresses})
  IN  FramesExact(m) /\ Len(m.free) >= 1 /\ \A j \in PageNos : Entry(m, j) = NoEntry
<1> DEFINE P == {K(va) : va \in PageAddresses}
           F == 1 .. FrameCount
           m == initialize_paging(FrameCount, P)
<1>1. FrameCount \in Nat /\ FrameCount >= 1
  BY KHeapAssumption
<1>2. P = KernelPages
  BY PageBorders DEF KernelPages
<1>3. m = [free |-> [i \in F |-> FrameCount + 1 - i], ref |-> [f \in F |-> 0],
           base |-> [f \in F |-> NoPage], pt |-> [p \in KernelPages |-> NoEntry]]
  BY <1>2 DEF initialize_paging
<1> HIDE DEF m, P
<1>4. m.free = [i \in F |-> FrameCount + 1 - i] /\ m.ref = [f \in F |-> 0] /\ m.base = [f \in F |-> NoPage]
      /\ m.pt = [p \in KernelPages |-> NoEntry]
  BY <1>3
<1>5. m.free \in Seq(F) /\ Len(m.free) = FrameCount /\ DOMAIN m.free = F
  <2>1. m.free \in [1 .. FrameCount -> F]
    BY <1>1, <1>4
  <2>2. QED
    BY <1>1, <2>1
<1>6. m.pt \in [KernelPages -> EntriesFor(F)]
  <2>1. NoEntry \in EntriesFor(F)
    BY DEF NoEntry, EntriesFor
  <2>2. QED
    BY <1>4, <2>1
<1>7. m \in MemoriesFor(F, KernelPages)
  <2>1. m.ref \in [F -> Int] /\ m.base \in [F -> KernelPages \union {NoPage}]
    BY <1>4
  <2>2. m = [free |-> m.free, ref |-> m.ref, base |-> m.base, pt |-> m.pt]
    BY <1>3
  <2>3. QED
    BY <1>5, <1>6, <2>1, <2>2 DEF MemoriesFor
<1>8. NoDup(m.free)
  BY <1>1, <1>4, <1>5 DEF NoDup
<1>9. Elems(m.free) = F
  <2>1. ASSUME NEW f \in F
        PROVE  \E i \in DOMAIN m.free : m.free[i] = f
    <3>1. FrameCount + 1 - f \in F /\ FrameCount + 1 - (FrameCount + 1 - f) = f
      BY <1>1
    <3>2. QED
      BY <1>4, <1>5, <3>1
  <2>2. \A i \in DOMAIN m.free : m.free[i] \in F
    BY <1>5
  <2>3. QED
    BY <2>1, <2>2 DEF Elems
<1>10. \A p \in KernelPages : m.pt[p] = NoEntry
  BY <1>4
<1>11. FramesExact(m)
  <2>1. \A f \in F : m.ref[f] = 0
    BY <1>4
  <2>2. \A p \in KernelPages : m.pt[p].frame = NoFrame /\ m.pt[p].perm = {}
    BY <1>10 DEF NoEntry
  <2>3. \A f \in F : f \in Elems(m.free) <=> m.ref[f] = 0
    BY <1>9, <2>1
  <2>4. \A p \in KernelPages : m.pt[p].frame # NoFrame <=> "P" \in m.pt[p].perm
    BY <2>2
  <2>5. QED
    BY <1>7, <1>8, <2>1, <2>2, <2>3, <2>4 DEF FramesExact
<1>12. \A j \in PageNos : Entry(m, j) = NoEntry
  BY <1>10, Keys DEF Entry
<1>13. QED
  BY <1>1, <1>5, <1>11, <1>12 DEF m, P

\* The heap as the kernel sets it up.
LEMMA PagesInit ==
  Init => PagesInv
<1> SUFFICES ASSUME Init PROVE PagesInv
  OBVIOUS
<1>1. PICK n \in 0 .. 1 : kh = initialize_kheap_dynamic_allocator(n) /\ live = <<>>
  BY DEF Init
<1> DEFINE m == initialize_paging(FrameCount, {K(va) : va \in PageAddresses})
           r == MapRun(m, KERNEL_HEAP_START, n, PlainPage)
           b == KERNEL_HEAP_START + n * PAGE_SIZE
           d == initialize_dynamic_allocator([mem |-> <<>>, fbl |-> <<>>, brk |-> b, up |-> FALSE],
                                             KERNEL_HEAP_START, n * PAGE_SIZE)
<1>2. kh = [da |-> d, mm |-> r, list |-> <<>>, flag |-> FALSE]
  BY <1>1 DEF initialize_kheap_dynamic_allocator
<1>3. d.brk = b
  BY DEF initialize_dynamic_allocator
<1> HIDE DEF d
<1>4. FramesExact(m) /\ Len(m.free) >= 1 /\ \A j \in PageNos : Entry(m, j) = NoEntry
  BY FreshMemory
<1> HIDE DEF m
<1>5. 0 \in Int /\ n \in Nat /\ n \in Int /\ n <= 1 /\ BlockPages \in Int /\ BlockPages >= 1 /\ LastNo \in Int
      /\ BlockPages + 1 <= LastNo
  BY PageNumbers
<1>6. r = PlainRun(m, PageAt(0), n)
  BY PageBorders DEF PlainRun
<1>7. b = PageAt(n)
  BY DEF PageAt
<1> HIDE DEF r, b
<1>8. RunEmpty(m, 0, n)
  <2>1. ASSUME NEW j \in Int, InRun(j, 0, n)
        PROVE  j \in PageNos /\ Entry(m, j) = NoEntry
    <3>1. j \in PageNos
      BY <1>5, <2>1 DEF InRun, PageNos
    <3>2. QED
      BY <1>4, <3>1
  <2>2. QED
    BY <2>1 DEF RunEmpty
<1> DEFINE g == [i \in 1 .. n |-> {"P", "W"}]
<1>9. RunFilled(m, r, 0, n, g)
  <2>1. Len(m.free) >= n
    <3>1. Len(m.free) \in Int
      BY <1>4, KMemoryTypes
    <3>2. QED
      BY <1>4, <1>5, <3>1
  <2>2. QED
    BY <1>4, <1>5, <1>6, <1>8, <2>1, MapPlain
<1> HIDE DEF g
<1>10. FramesExact(r) /\ \A j \in PageNos : IF InRun(j, 0, n) THEN Entry(r, j).frame # NoFrame
                                            ELSE Entry(r, j) = NoEntry
  BY <1>4, <1>9 DEF RunFilled
<1>11. kh.mm = r /\ kh.da.brk = PageAt(n) /\ kh.list = <<>> /\ kh.flag = FALSE
  BY <1>2, <1>3, <1>7
<1>12. BreakAt(kh, n)
  <2>1. ASSUME NEW j \in 0 .. BlockPages
        PROVE  j \in PageNos /\ (InRun(j, 0, n) <=> j < n) /\ (~(j < n) <=> j >= n)
    BY <1>5 DEF PageNos, InRun
  <2>2. QED
    BY <1>10, <1>11, <2>1 DEF BreakAt
<1>13. Tables(kh)
  <2>1. n \in 0 .. BlockPages
    BY <1>5
  <2>2. QED
    BY <1>10, <1>11, <1>12, <2>1 DEF Tables
<1> DEFINE N == [v \in {} |-> 0]
<1>14. DOMAIN N = {} /\ DOMAIN live = {}
  BY <1>1
<1> HIDE DEF N
<1>15. RunsShown(kh.mm, N)
  <2>1. ASSUME NEW j \in AreaNos
        PROVE  Entry(r, j) = NoEntry
    <3>1. j \in PageNos /\ ~InRun(j, 0, n)
      BY <1>5, PageNumbers DEF AreaNos, PageNos, InRun
    <3>2. QED
      BY <1>10, <3>1
  <2>2. QED
    BY <1>11, <1>14, <2>1 DEF RunsShown, Spare
<1>16. AreaAs(kh, live, N)
  BY <1>11, <1>14, <1>15 DEF AreaAs, RunsApart, RunsHeld, RestListed
<1>17. ~panicked
  BY DEF Init
<1>18. QED
  BY <1>13, <1>16, <1>17 DEF PagesInv, Area

\* Every call keeps it.
LEMMA PagesStep ==
  KHeapInv /\ PagesInv /\ [Next]_vars => PagesInv'
<1> SUFFICES ASSUME KHeapInv, PagesInv, [Next]_vars PROVE PagesInv'
  OBVIOUS
<1>1. Consistent(kh, live) /\ Tables(kh) /\ (panicked \/ Area(kh, live))
  BY DEF KHeapInv, PagesInv
<1>2. Sizes \subseteq Nat
  BY KHeapAssumption
<1>3. NULL \notin DOMAIN live
  BY <1>1, Freeing
<1>4. ASSUME NEW size \in Sizes, Kmalloc(size)
      PROVE  PagesInv'
  <2>1. PICK r \in {kmalloc(kh, size, strategy)} :
          /\ kh' = r.kh /\ panicked' = r.panic
          /\ live' = IF r.va = NULL THEN live ELSE With(live, r.va, size)
    BY <1>4 DEF Kmalloc
  <2>2. Area(kh, live) /\ size \in Nat
    BY <1>1, <1>2, <1>4 DEF Kmalloc
  <2>3. Gets(r, live, size)
    BY <1>1, <2>1, <2>2, GetsAny
  <2>4. Tables(kh') /\ IF panicked' THEN Runs(kh', live') ELSE Area(kh', live')
    BY <2>1, <2>3 DEF Gets, Left
  <2>5. QED
    BY <2>4 DEF PagesInv
<1>5. ASSUME NEW va \in DOMAIN live, Kfree(va)
      PROVE  PagesInv'
  <2>1. PICK r \in {kfree(kh, va, strategy)} : kh' = r.kh /\ panicked' = r.panic
    BY <1>5 DEF Kfree
  <2>2. Area(kh, live) /\ live' = Without(live, va)
    BY <1>1, <1>5 DEF Kfree
  <2>3. Drops(r, live, va)
    BY <1>1, <2>1, <2>2, DropsAny
  <2>4. Tables(kh') /\ IF panicked' THEN Runs(kh', live') ELSE Area(kh', live')
    BY <2>1, <2>2, <2>3 DEF Drops, Left
  <2>5. QED
    BY <2>4 DEF PagesInv
<1>6. ASSUME NEW va \in DOMAIN live \union {NULL}, NEW size \in Sizes \union {0}, Krealloc(va, size)
      PROVE  PagesInv'
  <2>1. PICK r \in {krealloc(kh, va, size, strategy)} :
          /\ kh' = r.kh /\ panicked' = r.panic
          /\ live' = IF size = 0 THEN Without(live, va)
                     ELSE IF r.va = NULL THEN live
                     ELSE With(Without(live, va), r.va, size)
    BY <1>6 DEF Krealloc, Resize
  <2>2. /\ ReallocWorks(kh, va, size) /\ (va = NULL => size # 0) /\ size \in Nat
        /\ Area(kh, live)
    BY <1>1, <1>2, <1>6 DEF Krealloc, Resize
  <2>3. CASE size = 0
    <3>1. va \in DOMAIN live
      BY <2>2, <2>3
    <3>2. r = kfree(kh, va, strategy)
      BY <2>1, <2>3 DEF krealloc
    <3>3. Drops(r, live, va)
      BY <1>1, <2>2, <3>1, <3>2, DropsAny
    <3>4. Tables(kh') /\ IF panicked' THEN Runs(kh', live') ELSE Area(kh', live')
      BY <2>1, <2>3, <3>3 DEF Drops, Left
    <3>5. QED
      BY <3>4 DEF PagesInv
  <2>4. CASE size # 0 /\ va = NULL
    <3>1. r = kmalloc(kh, size, strategy)
      BY <2>1, <2>4 DEF krealloc
    <3>2. Gets(r, live, size)
      BY <1>1, <2>2, <3>1, GetsAny
    <3>3. With(Without(live, va), r.va, size) = With(live, r.va, size)
      <4>1. DOMAIN Without(live, va) = DOMAIN live /\ \A u \in DOMAIN live : Without(live, va)[u] = live[u]
        BY <1>3, <2>4 DEF Without
      <4>2. QED
        BY <4>1 DEF With
    <3>4. Tables(kh') /\ IF panicked' THEN Runs(kh', live') ELSE Area(kh', live')
      BY <2>1, <2>4, <3>2, <3>3 DEF Gets, Left
    <3>5. QED
      BY <3>4 DEF PagesInv
  <2>5. CASE size # 0 /\ va # NULL
    <3>1. va \in DOMAIN live
      BY <2>5
    <3>2. Keeps(r, live, va, size)
      BY <1>1, <2>1, <2>2, <2>5, <3>1, KeepsAny
    <3>3. Tables(kh') /\ IF panicked' THEN Runs(kh', live') ELSE Area(kh', live')
      BY <2>1, <2>5, <3>2 DEF Keeps, Left
    <3>4. QED
      BY <3>3 DEF PagesInv
  <2>6. QED
    BY <2>3, <2>4, <2>5
<1>7. ASSUME NEW s \in Strategies, SetStrategy(s)
      PROVE  PagesInv'
  BY <1>7 DEF SetStrategy, PagesInv
<1>8. CASE UNCHANGED vars
  BY <1>8 DEF vars, PagesInv
<1>9. QED
  BY <1>4, <1>5, <1>6, <1>7, <1>8 DEF Next

\* The invariant holds of every behaviour.
LEMMA PagesAlways ==
  Spec => []PagesInv
BY PagesInit, PagesStep, KHeapAlways, PTL DEF Spec

\* A multiple and what is left of it.
LEMMA PartsOf ==
  ASSUME NEW p \in Nat, NEW x \in Int, NEW o \in Nat, o < p
  PROVE  (x * p + o) \div p = x /\ (x * p + o) % p = o
<1> DEFINE a == x * p + o
           q == a \div p
           r == a % p
           d == x - q
<1>1. a \in Int /\ p > 0
  OBVIOUS
<1>2. q \in Int /\ r \in Int /\ a = p * q + r /\ 0 <= r /\ r < p
  <2> HIDE DEF a
  <2>1. QED
    BY <1>1
<1> HIDE DEF q, r
<1>3. d \in Int /\ x = q + d
  BY <1>2
<1> HIDE DEF d
<1>4. a = q * p + d * p + o
  BY <1>2, <1>3
<1>5. d * p = r - o
  <2> DEFINE y == q * p
             z == d * p
  <2>1. y = p * q /\ z \in Int /\ y \in Int
    BY <1>2, <1>3
  <2>2. a = y + r /\ a = y + z + o
    BY <1>2, <1>4, <2>1
  <2> HIDE DEF a, y, z
  <2>3. z = r - o
    BY <1>2, <2>1, <2>2
  <2>4. QED
    BY <2>3 DEF z
<1>6. (d >= 1 => d * p >= p) /\ (d <= -1 => d * p <= -p)
  BY <1>3
<1>7. d = 0
  BY <1>2, <1>3, <1>5, <1>6
<1>8. d * p = 0
  BY <1>7
<1>9. QED
  BY <1>2, <1>3, <1>5, <1>7, <1>8 DEF q, r, a

\* A page and an offset in it: the frame's address and back.
LEMMA Translated ==
  ASSUME NEW k, FramesExact(k.mm), NEW j \in PageNos, Entry(k.mm, j).frame # NoFrame,
         NEW o \in Nat, o < PAGE_SIZE
  PROVE  kheap_virtual_address(k, kheap_physical_address(k, PageAt(j) + o)) = PageAt(j) + o
<1> DEFINE P == PAGE_SIZE
           va == PageAt(j)
           f == Entry(k.mm, j).frame
           pa == f * P + o
<1>1. P \in Nat /\ j \in Int /\ va \in Int
  BY PageType, PageAdd DEF PageNos
<1>2. va + o = (j + 1) * P + o
  <2>1. va = P + j * P
    BY DEF PageAt, KERNEL_HEAP_START
  <2>2. (j + 1) * P = P + j * P
    <3> HIDE DEF P
    <3>1. QED
      BY <1>1
  <2>3. QED
    BY <2>1, <2>2
<1>3. (va + o) % P = o
  <2> DEFINE x == j + 1
  <2>1. x \in Int
    BY <1>1
  <2> HIDE DEF x
  <2>2. (x * P + o) % P = o
    BY <1>1, <2>1, PartsOf
  <2>3. QED
    BY <1>2, <2>2 DEF x
<1> HIDE DEF P, va
<1>4. (va + o) - o = va
  BY <1>1
<1>5. Key(j) \in KernelPages
  BY Keys
<1>6. f \in 1 .. FrameCount /\ k.mm.ref[f] = 1 /\ k.mm.base[f] = Key(j)
  <2>1. k.mm.pt[Key(j)].frame = f /\ f # NoFrame
    BY DEF Entry
  <2> HIDE DEF f
  <2>2. f \in 1 .. FrameCount
    BY <1>5, <2>1, KMemoryTypes
  <2>3. k.mm.ref[f] = 1 /\ k.mm.base[f] = Key(j)
    BY <1>5, <2>1 DEF FramesExact
  <2>4. QED
    BY <2>2, <2>3
<1>7. get_frame_info(k.mm, K(va)) = f
  BY DEF get_frame_info, Entry, Key, va
<1> HIDE DEF f
<1>8. f \in Nat /\ f # NoFrame
  BY <1>6 DEF NoFrame
<1>9. kheap_physical_address(k, va + o) = pa
  BY <1>3, <1>4, <1>7, <1>8 DEF kheap_physical_address, P
<1>10. pa \div P = f /\ pa - f * P = o
  <2>1. pa \div P = f
    BY <1>1, <1>8, PartsOf DEF P
  <2>2. f * P \in Int
    BY <1>1, <1>8
  <2>3. QED
    BY <2>1, <2>2
<1> HIDE DEF pa
<1>11. k.mm.base[f][2] = va
  <2>1. Key(j) = <<0, va>>
    BY DEF Key, K, va
  <2>2. Key(j)[2] = va
    BY <2>1
  <2>3. QED
    BY <1>6, <2>2
<1>12. kheap_virtual_address(k, pa) = va + o
  BY <1>6, <1>10, <1>11 DEF kheap_virtual_address, P
<1>13. QED
  BY <1>9, <1>12 DEF va

\* Each frame is counted as often as it has pages, and is free once or not.
LEMMA ExactCounts ==
  ASSUME NEW m, FramesExact(m)
  PROVE  FramesCounted(m, LAMBDA f : 0)
<1>1. DOMAIN m.ref = 1 .. FrameCount /\ DOMAIN m.pt = KernelPages
  BY KMemoryTypes
<1>2. ASSUME NEW f \in 1 .. FrameCount
      PROVE  /\ m.ref[f] = Cardinality({p \in DOMAIN m.pt : m.pt[p].frame = f}) + 0
             /\ Cardinality({i \in DOMAIN m.free : m.free[i] = f}) = IF m.ref[f] = 0 THEN 1 ELSE 0
  <2> DEFINE U == {p \in DOMAIN m.pt : m.pt[p].frame = f}
             F == {i \in DOMAIN m.free : m.free[i] = f}
  <2>1. f # NoFrame
    BY DEF NoFrame
  <2>2. \A p \in U : p \in KernelPages /\ m.ref[f] = 1 /\ m.base[f] = p
    BY <1>1, <2>1 DEF FramesExact
  <2>3. \A p, q \in U : p = q
    BY <2>2
  <2>4. \A i, j \in F : i = j
    BY DEF FramesExact, NoDup
  <2>5. F # {} <=> m.ref[f] = 0
    BY DEF FramesExact, Elems
  <2>6. m.ref[f] # 0 => m.ref[f] = 1 /\ U # {}
    BY <1>1 DEF FramesExact
  <2>7. m.ref[f] = 0 => U = {}
    BY <2>2
  <2> HIDE DEF U, F
  <2>8. Cardinality(U) = (IF U = {} THEN 0 ELSE 1) /\ Cardinality(F) = IF F = {} THEN 0 ELSE 1
    BY <2>3, <2>4, OneOrNone
  <2>9. m.ref[f] = Cardinality(U) + 0 /\ Cardinality(F) = IF m.ref[f] = 0 THEN 1 ELSE 0
    BY <2>5, <2>6, <2>7, <2>8
  <2>10. QED
    BY <2>9 DEF U, F
<1>3. QED
  BY <1>1, <1>2 DEF FramesCounted

(* Every frame of the heap is free or has exactly one page, the pages below
   the break of the blocks have frames and no others, and the two address
   translations agree, whatever was allocated, freed, resized or refused. *)
THEOREM FramesAreConserved == Spec => []FramesConserved
<1>1. PagesInv => FramesConserved
  <2> SUFFICES ASSUME PagesInv PROVE FramesConserved
    OBVIOUS
  <2>1. FramesExact(kh.mm)
    BY DEF PagesInv, Tables
  <2>2. PICK b \in 0 .. BlockPages : BreakAt(kh, b)
    BY DEF PagesInv, Tables
  <2>3. ASSUME NEW p \in PageAddresses, p < PAGE_START
        PROVE  get_frame_info(kh.mm, K(p)) # NoFrame <=> p < kh.da.brk
    <3> DEFINE c == BlockPages + 1
    <3>1. PICK j \in PageNos : p = PageAt(j)
      BY PageBorders
    <3>2. j \in Int /\ b \in Int /\ 0 <= j /\ BlockPages \in Int /\ c \in Int
      BY PageNumbers DEF PageNos
    <3>3. PAGE_START = PageAt(c)
      BY PageBorders
    <3> HIDE DEF c
    <3>4. j < c
      BY <2>3, <3>1, <3>2, <3>3, PageOrder
    <3>5. j \in 0 .. BlockPages
      BY <3>2, <3>4 DEF c
    <3>6. p < kh.da.brk <=> j < b
      BY <2>2, <3>1, <3>2, PageOrder DEF BreakAt
    <3>7. Entry(kh.mm, j).frame # NoFrame <=> j < b
      BY <2>2, <3>2, <3>5 DEF BreakAt, NoEntry
    <3>8. get_frame_info(kh.mm, K(p)) = Entry(kh.mm, j).frame
      BY <3>1 DEF get_frame_info, Entry, Key
    <3>9. QED
      BY <3>6, <3>7, <3>8
  <2>4. ASSUME NEW p \in PageAddresses, get_frame_info(kh.mm, K(p)) # NoFrame, NEW off \in {0, PAGE_SIZE - 1}
        PROVE  kheap_virtual_address(kh, kheap_physical_address(kh, p + off)) = p + off
    <3>1. PICK j \in PageNos : p = PageAt(j)
      BY PageBorders
    <3>2. Entry(kh.mm, j).frame # NoFrame
      BY <2>4, <3>1 DEF get_frame_info, Entry, Key
    <3>3. off \in Nat /\ off < PAGE_SIZE
      BY PageType
    <3>4. QED
      BY <2>1, <3>1, <3>2, <3>3, Translated
  <2>5. FramesCounted(kh.mm, LAMBDA f : 0)
    BY <2>1, ExactCounts
  <2>6. QED
    BY <2>3, <2>4, <2>5 DEF FramesConserved
<1>2. QED
  BY <1>1, PagesAlways, PTL

\* The pages from va to its last one, as PagesOf has them for the heap as it is.
PagesIn(m, va) == {p \in PageAddresses : va <= p /\ p <= LastPage(m, va)}

\* A run is found by its marks, all of it.
LEMMA RunIs ==
  ASSUME NEW m, NEW N, RunsApart(N), RunsShown(m, N), FramesExact(m), NEW v \in DOMAIN N
  PROVE  /\ LastPage(m, PageAt(v)) = PageAt(v + N[v] - 1)
         /\ \A j \in PageNos : PageAt(j) \in PagesIn(m, PageAt(v)) <=> InRun(j, v, N[v])
         /\ Cardinality(PagesIn(m, PageAt(v))) = N[v]
<1> DEFINE n == N[v]
           c == v + n - 1
           S == PagesIn(m, PageAt(v))
<1>1. v \in AreaNos /\ n \in Int /\ n >= 1 /\ v + n <= LastNo + 1
  BY DEF RunsApart
<1>2. v \in Int /\ c \in Int /\ BlockPages \in Int /\ LastNo \in Int /\ BlockPages + 1 <= v /\ v <= c /\ c <= LastNo
      /\ 0 <= v
  <2>1. AreaNos \subseteq Int
    BY PageNumbers
  <2>2. v \in Int /\ BlockPages + 1 <= v
    BY <1>1, <2>1 DEF AreaNos
  <2>3. QED
    BY <1>1, <2>2, PageNumbers
<1>3. LastPage(m, PageAt(v)) = PageAt(c)
  <2>1. \A j \in AreaNos : InRun(j, v, n) => Entry(m, j).frame # NoFrame /\ Entry(m, j).perm = Marks(j, v, n)
    BY DEF RunsShown
  <2> HIDE DEF n
  <2>2. QED
    BY <1>1, <2>1, LastOfRun
<1>4. \A j \in Int : InRun(j, v, n) <=> v <= j /\ j <= c
  BY <1>1, <1>2 DEF InRun
<1> HIDE DEF c
<1>5. ASSUME NEW j \in PageNos
      PROVE  PageAt(j) \in S <=> InRun(j, v, n)
  <2>1. j \in Int /\ PageAt(j) \in PageAddresses
    BY PageBorders DEF PageNos
  <2>2. PageAt(j) \in S <=> PageAt(v) <= PageAt(j) /\ PageAt(j) <= PageAt(c)
    BY <1>3, <2>1 DEF PagesIn
  <2>3. (PageAt(v) <= PageAt(j) <=> v <= j) /\ (PageAt(j) <= PageAt(c) <=> j <= c)
    BY <1>2, <2>1, PageOrder
  <2>4. QED
    BY <1>4, <2>1, <2>2, <2>3
<1>6. Cardinality(S) = n
  <2> DEFINE I == v .. c
             g == [j \in I |-> PageAt(j)]
  <2>1. IsFiniteSet(I) /\ Cardinality(I) = n
    <3>1. IsFiniteSet(I) /\ Cardinality(I) = IF v > c THEN 0 ELSE c - v + 1
      BY <1>2, FS_Interval
    <3>2. c - v + 1 = n
      BY <1>1, <1>2 DEF c
    <3>3. QED
      BY <1>2, <3>1, <3>2
  <2>2. \A j \in I : j \in Int /\ j \in PageNos /\ InRun(j, v, n)
    BY <1>2, <1>4 DEF PageNos
  <2>3. \A j \in I : PageAt(j) \in S
    BY <1>5, <2>2
  <2>4. \A i, j \in I : PageAt(i) = PageAt(j) => i = j
    BY <2>2, PageOrder
  <2>5. ASSUME NEW p \in S
        PROVE  \E j \in I : PageAt(j) = p
    <3>1. p \in PageAddresses
      BY DEF PagesIn
    <3>2. PICK j \in PageNos : p = PageAt(j)
      BY <3>1, PageBorders
    <3>3. InRun(j, v, n) /\ j \in Int
      BY <1>5, <3>2 DEF PageNos
    <3>4. j \in I
      BY <1>2, <1>4, <3>3
    <3>5. QED
      BY <3>2, <3>4
  <2> HIDE DEF I, S
  <2>6. g \in [I -> S] /\ \A i \in I : g[i] = PageAt(i)
    BY <2>3
  <2> HIDE DEF g
  <2>7. QED
    BY <2>1, <2>4, <2>5, <2>6, SameCount
<1>7. QED
  BY <1>3, <1>5, <1>6 DEF c

\* As PagesPartition has it.
LEMMA RunFound ==
  ASSUME NEW N, RunsApart(N), RunsShown(kh.mm, N), FramesExact(kh.mm), NEW v \in DOMAIN N
  PROVE  /\ LastPage(kh.mm, PageAt(v)) = PageAt(v + N[v] - 1)
         /\ \A j \in PageNos : PageAt(j) \in PagesOf(PageAt(v)) <=> InRun(j, v, N[v])
         /\ Cardinality(PagesOf(PageAt(v))) = N[v]
<1>1. PagesIn(kh.mm, PageAt(v)) = PagesOf(PageAt(v))
  BY DEF PagesIn, PagesOf
<1>2. QED
  BY <1>1, RunIs

\* The list is in order, and no two elements touch.
LEMMA ListApart ==
  ASSUME NEW l, NEW G, Covers(l, G)
  PROVE  \A i, j \in DOMAIN l : i < j => l[i].va + l[i].n * PAGE_SIZE < l[j].va
<1>1. PICK W : CoversAs(l, W, G)
  BY DEF Covers
<1>2. ASSUME NEW i \in DOMAIN l, NEW j \in DOMAIN l, i < j
      PROVE  l[i].va + l[i].n * PAGE_SIZE < l[j].va
  <2> DEFINE w == W[i]
             n == l[i].n
             u == W[j]
  <2>1. w \in Int /\ n \in Int /\ u \in Int /\ w + n < u /\ l[i].va = PageAt(w) /\ l[j].va = PageAt(u)
    BY <1>1, <1>2 DEF CoversAs, PieceAt
  <2> HIDE DEF w, n, u
  <2>2. PageAt(w) + n * PAGE_SIZE = PageAt(w + n) /\ w + n \in Int
    BY <2>1, PageAdd
  <2> DEFINE c == w + n
  <2>3. PageAt(c) < PageAt(u)
    <3>1. c \in Int /\ c < u
      BY <2>1, <2>2
    <3> HIDE DEF c
    <3>2. QED
      BY <2>1, <3>1, PageOrder
  <2>4. QED
    BY <2>1, <2>2, <2>3 DEF n
<1>3. QED
  BY <1>2

\* The pages that an element has.
LEMMA ListHas ==
  ASSUME NEW l, NEW G, Covers(l, G), NEW j \in AreaNos
  PROVE  (\E i \in DOMAIN l : PageAt(j) \in RangeOf(l[i])) <=> j \in G
<1>1. PICK W : CoversAs(l, W, G)
  BY DEF Covers
<1>2. j \in Int /\ PageAt(j) \in PageAddresses
  <2>1. AreaNos \subseteq PageNos /\ AreaNos \subseteq Int
    BY PageNumbers
  <2>2. QED
    BY <2>1, PageBorders
<1>3. ASSUME NEW i \in DOMAIN l
      PROVE  PageAt(j) \in RangeOf(l[i]) <=> j \in Run(W[i], l[i].n)
  <2> DEFINE w == W[i]
             n == l[i].n
             c == w + n
  <2>1. w \in Int /\ n \in Int /\ l[i].va = PageAt(w)
    BY <1>1 DEF CoversAs, PieceAt
  <2> HIDE DEF w, n
  <2>2. PageAt(w) + n * PAGE_SIZE = PageAt(c) /\ c \in Int
    BY <2>1, PageAdd
  <2>3. PageAt(j) \in RangeOf(l[i]) <=> PageAt(w) <= PageAt(j) /\ PageAt(j) < PageAt(c)
    BY <1>2, <2>1, <2>2 DEF RangeOf, n
  <2>4. InRun(j, w, n) <=> w <= j /\ j < c
    BY DEF InRun
  <2> HIDE DEF c
  <2>5. (PageAt(w) <= PageAt(j) <=> w <= j) /\ (PageAt(j) < PageAt(c) <=> j < c)
    BY <1>2, <2>1, <2>2, PageOrder
  <2>6. QED
    BY <2>3, <2>4, <2>5 DEF Run, w, n
<1>4. QED
  BY <1>1, <1>3 DEF CoversAs

\* The page j, as PagesPartition describes it: who has it, and what its entry shows.
LEMMA PageShown ==
  ASSUME NEW N, AreaAs(kh, live, N), FramesExact(kh.mm), NEW j \in AreaNos
  PROVE  LET p      == PageAt(j)
             held   == {va \in DOMAIN live : ~InBlocks(va)}
             listed == \E i \in DOMAIN kh.list : p \in RangeOf(kh.list[i])
             owners == {va \in held : p \in PagesOf(va)}
             ends   == \E va \in owners : p \in {va, LastPage(kh.mm, va)} /\ Cardinality(PagesOf(va)) > 1
         IN  /\ owners = {} <=> (listed \/ ~kh.flag)
             /\ owners = {} => kh.mm.pt[K(p)] = NoEntry
             /\ owners # {} => kh.mm.pt[K(p)].perm = {"P", "W"} \union (IF ends THEN {"b9"} ELSE {})
<1> DEFINE p      == PageAt(j)
           held   == {va \in DOMAIN live : ~InBlocks(va)}
           listed == \E i \in DOMAIN kh.list : p \in RangeOf(kh.list[i])
           owners == {va \in held : p \in PagesOf(va)}
           ends   == \E va \in owners : p \in {va, LastPage(kh.mm, va)} /\ Cardinality(PagesOf(va)) > 1
<1>1. RunsApart(N) /\ RunsHeld(live, N) /\ RunsShown(kh.mm, N) /\ RestListed(kh, N)
  BY DEF AreaAs
<1>2. j \in PageNos /\ j \in Int /\ AreaNos \subseteq Int
  BY PageNumbers
<1>3. kh.mm.pt[K(p)] = Entry(kh.mm, j)
  BY DEF Entry, Key
<1>4. \A va : va \in held <=> \E v \in DOMAIN N : va = PageAt(v)
  BY <1>1 DEF RunsHeld
<1>5. \A v \in DOMAIN N : p \in PagesOf(PageAt(v)) <=> InRun(j, v, N[v])
  BY <1>1, <1>2, RunFound
<1> HIDE DEF held
<1>6. \A va : va \in owners <=> \E v \in DOMAIN N : va = PageAt(v) /\ InRun(j, v, N[v])
  <2>1. \A va : va \in owners <=> va \in held /\ p \in PagesOf(va)
    BY <1>4
  <2> HIDE DEF owners, p
  <2>2. QED
    BY <1>4, <1>5, <2>1
<1>7. owners = {} <=> j \in Spare(N)
  BY <1>6 DEF Spare
<1>8. kh.flag => (listed <=> j \in Spare(N))
  BY <1>1, ListHas DEF RestListed
<1>9. ~kh.flag => j \in Spare(N)
  BY <1>1 DEF RestListed, Spare
<1> HIDE DEF listed
<1>10. owners = {} <=> (listed \/ ~kh.flag)
  BY <1>7, <1>8, <1>9
<1>11. owners = {} => kh.mm.pt[K(p)] = NoEntry
  BY <1>1, <1>3, <1>7 DEF RunsShown
<1> HIDE DEF p, owners
<1>12. ASSUME owners # {}
       PROVE  kh.mm.pt[K(p)].perm = {"P", "W"} \union (IF ends THEN {"b9"} ELSE {})
  <2>1. PICK v \in DOMAIN N : InRun(j, v, N[v])
    BY <1>6, <1>12
  <2> DEFINE n == N[v]
             c == v + n - 1
             va == PageAt(v)
  <2>2. v \in Int /\ n \in Int /\ c \in Int
    <3>1. v \in AreaNos /\ n \in Int
      BY <1>1 DEF RunsApart
    <3> HIDE DEF n
    <3>2. v \in Int
      BY <1>2, <3>1
    <3>3. QED
      BY <3>1, <3>2
  <2>3. owners = {va}
    <3>1. \A u \in DOMAIN N : InRun(j, u, N[u]) => u = v
      <4>1. ASSUME NEW u \in DOMAIN N, InRun(j, u, N[u]), u # v
            PROVE  FALSE
        <5>1. u \in Int /\ N[u] \in Int
          BY <1>1, <1>2 DEF RunsApart
        <5>2. (u < v => u + N[u] <= v) /\ (v < u => v + n <= u)
          BY <1>1 DEF RunsApart
        <5>3. QED
          BY <1>2, <2>1, <2>2, <4>1, <5>1, <5>2 DEF InRun
      <4>2. QED
        BY <4>1
    <3>2. QED
      BY <1>6, <2>1, <3>1
  <2>4. LastPage(kh.mm, va) = PageAt(c) /\ Cardinality(PagesOf(va)) = n
    BY <1>1, RunFound
  <2> HIDE DEF n, c
  <2>5. (p = va <=> j = v) /\ (p = PageAt(c) <=> j = c)
    BY <1>2, <2>2, PageOrder DEF p
  <2> HIDE DEF va
  <2>6. ends <=> (j = v \/ j = c) /\ n > 1
    BY <2>3, <2>4, <2>5
  <2>7. kh.mm.pt[K(p)].perm = Marks(j, v, n)
    BY <1>1, <1>3, <2>1 DEF RunsShown, n
  <2>8. Marks(j, v, n) = {"P", "W"} \union (IF n > 1 /\ j \in {v, c} THEN {"b9"} ELSE {})
    BY DEF Marks, c
  <2> HIDE DEF ends
  <2>9. CASE ends
    BY <2>6, <2>7, <2>8, <2>9
  <2>10. CASE ~ends
    BY <2>6, <2>7, <2>8, <2>10
  <2>11. QED
    BY <2>9, <2>10
<1>13. QED
  BY <1>10, <1>11, <1>12 DEF p, held, listed, owners

(* Every page of the page allocator is in exactly one element of
   freePagesList_KH or in exactly one allocation, large enough and marked at
   its ends, as long as the kernel has not stopped. *)
THEOREM PagesArePartitioned == Spec => []PagesPartition
<1>1. KHeapInv /\ PagesInv => PagesPartition
  <2> DEFINE held == {va \in DOMAIN live : ~InBlocks(va)}
             shown(p) ==
               LET listed == \E i \in DOMAIN kh.list : p \in RangeOf(kh.list[i])
                   owners == {va \in held : p \in PagesOf(va)}
                   ends   == \E va \in owners : p \in {va, LastPage(kh.mm, va)} /\ Cardinality(PagesOf(va)) > 1
               IN  /\ owners = {} <=> (listed \/ ~kh.flag)
                   /\ owners = {} => kh.mm.pt[K(p)] = NoEntry
                   /\ owners # {} => kh.mm.pt[K(p)].perm = {"P", "W"} \union (IF ends THEN {"b9"} ELSE {})
  <2> SUFFICES ASSUME KHeapInv, PagesInv, ~panicked
               PROVE  /\ \A i, j \in DOMAIN kh.list :
                           i < j => kh.list[i].va + kh.list[i].n * PAGE_SIZE < kh.list[j].va
                      /\ \A va, w \in held : va # w => PagesOf(va) \intersect PagesOf(w) = {}
                      /\ \A va \in held : live[va] <= Cardinality(PagesOf(va)) * PAGE_SIZE
                      /\ \A p \in PageArea : shown(p)
    BY DEF PagesPartition
  <2>1. FramesExact(kh.mm)
    BY DEF PagesInv, Tables
  <2>2. PICK N : AreaAs(kh, live, N)
    BY DEF PagesInv, Area
  <2>3. RunsApart(N) /\ RunsHeld(live, N) /\ RunsShown(kh.mm, N) /\ RestListed(kh, N)
    BY <2>2 DEF AreaAs
  <2>4. ASSUME NEW i \in DOMAIN kh.list, NEW j \in DOMAIN kh.list, i < j
        PROVE  kh.list[i].va + kh.list[i].n * PAGE_SIZE < kh.list[j].va
    <3>1. kh.flag
      <4>1. ~kh.flag => kh.list = <<>>
        BY DEF KHeapInv, Consistent, Sound
      <4>2. QED
        BY <4>1
    <3>2. QED
      BY <2>3, <2>4, <3>1, ListApart DEF RestListed
  <2>5. \A va \in held : \E v \in DOMAIN N : va = PageAt(v)
    BY <2>3 DEF RunsHeld
  <2> HIDE DEF held
  <2>6. ASSUME NEW va \in held, NEW w \in held, va # w, NEW p \in PagesOf(va) \intersect PagesOf(w)
        PROVE  FALSE
    <3>1. PICK v \in DOMAIN N : va = PageAt(v)
      BY <2>5
    <3>2. PICK u \in DOMAIN N : w = PageAt(u)
      BY <2>5
    <3>3. p \in PageAddresses
      BY DEF PagesOf
    <3>4. PICK j \in PageNos : p = PageAt(j)
      BY <3>3, PageBorders
    <3>5. InRun(j, v, N[v]) /\ InRun(j, u, N[u])
      BY <2>1, <2>3, <3>1, <3>2, <3>4, RunFound
    <3>6. AreaNos \subseteq Int
      BY PageNumbers
    <3>7. j \in Int /\ v \in Int /\ u \in Int /\ N[v] \in Int /\ N[u] \in Int /\ v # u
      <4>1. v \in AreaNos /\ u \in AreaNos /\ N[v] \in Int /\ N[u] \in Int
        BY <2>3 DEF RunsApart
      <4>2. j \in Int
        BY DEF PageNos
      <4>3. QED
        BY <2>6, <3>1, <3>2, <3>6, <4>1, <4>2
    <3>8. (u < v => u + N[u] <= v) /\ (v < u => v + N[v] <= u)
      BY <2>3 DEF RunsApart
    <3>9. QED
      BY <3>5, <3>7, <3>8 DEF InRun
  <2>7. ASSUME NEW va \in held
        PROVE  live[va] <= Cardinality(PagesOf(va)) * PAGE_SIZE
    <3>1. PICK v \in DOMAIN N : va = PageAt(v)
      BY <2>5
    <3>2. Cardinality(PagesOf(va)) = N[v]
      BY <2>1, <2>3, <3>1, RunFound
    <3>3. live[va] <= N[v] * PAGE_SIZE
      <4> DEFINE P == PAGE_SIZE
                 c == live[va]
                 n == N[v]
      <4>1. c \in Int /\ (IF c < 0 THEN n = -c ELSE c <= n * P)
        BY <2>3, <3>1 DEF RunsHeld, RunRoom
      <4>2. n \in Int /\ n >= 1 /\ P \in Nat
        BY <2>3, PageType DEF RunsApart
      <4> HIDE DEF P, c, n
      <4>3. n * P \in Nat
        BY <4>2
      <4>4. QED
        BY <4>1, <4>3 DEF P, c, n
    <3>4. QED
      BY <3>2, <3>3
  <2>8. ASSUME NEW p \in PageArea
        PROVE  shown(p)
    <3> DEFINE c == BlockPages + 1
    <3>1. p \in PageAddresses /\ p >= PAGE_START
      BY DEF PageArea
    <3>2. PICK j \in PageNos : p = PageAt(j)
      BY <3>1, PageBorders
    <3>3. j \in Int /\ c \in Int /\ j <= LastNo /\ PAGE_START = PageAt(c)
      <4>1. j \in Int /\ j <= LastNo /\ c \in Int
        BY PageNumbers DEF PageNos
      <4>2. QED
        BY <4>1, PageBorders
    <3> HIDE DEF c
    <3>4. PageAt(c) \in Int /\ PageAt(j) \in Int
      BY <3>3, PageAdd
    <3>5. c <= j
      BY <3>1, <3>2, <3>3, <3>4, PageOrder
    <3>6. j \in AreaNos
      BY <3>3, <3>5, PageNumbers DEF AreaNos, c
    <3>7. QED
      BY <2>1, <2>2, <3>2, <3>6, PageShown DEF held
  <2> HIDE DEF shown
  <2>9. QED
    BY <2>4, <2>6, <2>7, <2>8
<1>2. QED
  BY <1>1, KHeapAlways, PagesAlways, PTL

-----------------------------------------------------------------------------
(* The promise of module Heap *)

\* What a caller's address stands for: the bytes of its block, or the pages of its run ...
SizeOf(k, va) == IF InBlocks(va) THEN get_block_size(k.da, va) ELSE Cardinality(PagesIn(k.mm, va))

\* ... of which these are the caller's.
ExtentIn(k, va) == IF InBlocks(va) THEN SizeOf(k, va) - 8 ELSE SizeOf(k, va) * PAGE_SIZE

\* A heap and the account of its addresses.
Describes(k, f) == Consistent(k, f) /\ Tables(k) /\ Runs(k, f)

\* The size of a block is what its tag says.
LEMMA BlockIs ==
  ASSUME NEW k, NEW H, NEW w, NEW va \in H, NEW B, NEW z, HeldAs(k, H, w, va, B, z)
  PROVE  get_block_size(k.da, va) = z[va]
<1>1. Header(k.da, va) = z[va] + 1 /\ z[va] \in Evens
  BY DEF HeldAs
<1>2. (z[va] + 1) - ((z[va] + 1) % 2) = z[va]
  BY <1>1, Flags
<1>3. QED
  BY <1>1, <1>2 DEF get_block_size

\* A block that is held, and what is asked of it.
LEMMA BlockShown ==
  ASSUME NEW k, NEW H, NEW w, Sound(k, H, w), NEW va \in H
  PROVE  LET n == get_block_size(k.da, va)
         IN  /\ n \in Int /\ n >= 16 /\ w[va] \in Int /\ Room(n, w[va]) /\ va \in Int /\ va + n <= k.da.brk
             /\ \A u \in H : va < u => va + n <= u
<1> DEFINE U == H \union NodesOf(k.list)
           c == Needs(H, NodesOf(k.list), w)
<1>1. PICK B, z : HeldAs(k, H, w, va, B, z)
  BY HeldBlock
<1>2. get_block_size(k.da, va) = z[va]
  BY <1>1, BlockIs
<1>3. Tiled(k.da, B, z, U, 0) /\ Fits(z, U, c) /\ c[va] = w[va]
  BY <1>1 DEF HeldAs, OwnedAs, Needs
<1>4. va \in U /\ H \subseteq U
  OBVIOUS
<1> HIDE DEF U, c
<1>5. /\ U \subseteq B /\ Laid(B, z, First, k.da.brk)
      /\ \A b \in B : b \in Int /\ z[b] \in Int /\ z[b] >= 16 /\ b + z[b] <= k.da.brk
  BY <1>3, TiledTypes
<1>6. w[va] \in Int /\ Room(z[va], w[va])
  BY <1>3, <1>4 DEF Fits
<1>7. \A u \in H : va < u => va + z[va] <= u
  BY <1>4, <1>5 DEF Laid
<1>8. QED
  BY <1>2, <1>4, <1>5, <1>6, <1>7

\* A run that is held, and what is asked of it.
LEMMA RunShown ==
  ASSUME NEW k, NEW f, NEW N, RunsApart(N), RunsHeld(f, N), RunsShown(k.mm, N), FramesExact(k.mm),
         NEW va \in DOMAIN f, ~InBlocks(va)
  PROVE  \E v \in DOMAIN N : /\ va = PageAt(v) /\ v \in AreaNos /\ v \in Int /\ N[v] \in Int /\ N[v] >= 1
                             /\ SizeOf(k, va) = N[v] /\ f[va] \in Int /\ RunRoom(N[v], f[va])
<1>1. PICK v \in DOMAIN N : va = PageAt(v)
  BY DEF RunsHeld
<1>2. Cardinality(PagesIn(k.mm, va)) = N[v]
  BY <1>1, RunIs
<1>3. v \in AreaNos /\ N[v] \in Int /\ N[v] >= 1
  BY DEF RunsApart
<1>4. v \in Int
  <2>1. AreaNos \subseteq Int
    BY PageNumbers
  <2>2. QED
    BY <1>3, <2>1
<1>5. f[va] \in Int /\ RunRoom(N[v], f[va])
  BY <1>1 DEF RunsHeld
<1>6. QED
  BY <1>1, <1>2, <1>3, <1>4, <1>5 DEF SizeOf

\* Every address has a size, the one asked for if that was exact.
LEMMA SizeFound ==
  ASSUME NEW k, NEW f, Describes(k, f), NEW va \in DOMAIN f
  PROVE  /\ SizeOf(k, va) \in Int /\ SizeOf(k, va) >= 1 /\ (InBlocks(va) => SizeOf(k, va) >= 16)
         /\ f[va] \in Int /\ (f[va] < 0 => SizeOf(k, va) = -f[va])
<1>1. CASE InBlocks(va)
  <2> DEFINE n == get_block_size(k.da, va)
  <2>1. Sound(k, HeldIn(f), f) /\ va \in HeldIn(f)
    BY <1>1 DEF Describes, Consistent, HeldIn
  <2>2. n \in Int /\ n >= 16 /\ f[va] \in Int /\ Room(n, f[va])
    BY <2>1, BlockShown
  <2>3. SizeOf(k, va) = n
    BY <1>1 DEF SizeOf
  <2> HIDE DEF n
  <2>4. QED
    BY <2>2, <2>3 DEF Room
<1>2. CASE ~InBlocks(va)
  <2>1. PICK N : RunsApart(N) /\ RunsHeld(f, N) /\ RunsShown(k.mm, N)
    BY DEF Describes, Runs
  <2>2. FramesExact(k.mm)
    BY DEF Describes, Tables
  <2>3. PICK v \in DOMAIN N : N[v] \in Int /\ N[v] >= 1 /\ SizeOf(k, va) = N[v] /\ f[va] \in Int /\ RunRoom(N[v], f[va])
    BY <1>2, <2>1, <2>2, RunShown
  <2> DEFINE n == N[v]
  <2>4. n \in Int /\ n >= 1 /\ SizeOf(k, va) = n /\ f[va] \in Int /\ RunRoom(n, f[va])
    BY <2>3
  <2> HIDE DEF n
  <2>5. QED
    BY <1>2, <2>4 DEF RunRoom
<1>3. QED
  BY <1>1, <1>2

\* The account that asks of every address exactly the size it has.
Exact(k, f) == [va \in DOMAIN f |-> -SizeOf(k, va)]

\* The heap meets it.
LEMMA ExactBlocks ==
  ASSUME NEW k, NEW f, Consistent(k, f), Tables(k), Area(k, f)
  PROVE  Consistent(k, Exact(k, f))
<1> DEFINE g == Exact(k, f)
           H == HeldIn(f)
           M == NodesOf(k.list)
           U == H \union M
           c == Needs(H, M, f)
           d == Needs(H, M, g)
<1>1. DOMAIN g = DOMAIN f /\ \A va \in DOMAIN f : g[va] = -SizeOf(k, va)
  BY DEF Exact
<1> HIDE DEF g
<1>2. HeldIn(g) = H /\ H \subseteq DOMAIN g
  BY <1>1 DEF HeldIn
<1>3. Sound(k, H, f) /\ DOMAIN f \subseteq Int /\ \A va \in DOMAIN f : ~InBlocks(va) => k.flag
  BY DEF Consistent
<1>4. InUse(k, U, c) /\ H \intersect M = {} /\ Listed(k.list) /\ (~k.flag => k.list = <<>>)
  BY <1>3 DEF Sound
<1>5. \A u \in H : g[u] = -get_block_size(k.da, u)
  BY <1>1 DEF SizeOf, HeldIn
<1>6. DOMAIN d = U /\ \A u \in U : d[u] = IF u \in H THEN g[u] ELSE c[u]
  BY <1>4 DEF Needs
<1>7. InUse(k, U, d)
  <2>1. ASSUME k.da.up
        PROVE  Owned(k.da, U, d)
    <3>1. PICK B, z : OwnedAs(k.da, U, c, B, z)
      BY <1>4, <2>1 DEF InUse, Owned
    <3>2. Tiled(k.da, B, z, U, 0) /\ Fits(z, U, c)
      BY <3>1 DEF OwnedAs
    <3>3. U \subseteq B /\ \A u \in B : z[u] \in Int /\ z[u] >= 16 /\ z[u] \in Evens
      BY <3>2, TiledTypes
    <3>4. ASSUME NEW u \in U
          PROVE  d[u] \in Int /\ Room(z[u], d[u])
      <4>1. CASE u \in H
        <5>1. Surrounded(k.da, B, z, U, u)
          BY <3>2, Surroundings
        <5>2. Header(k.da, u) = z[u] + 1
          BY <5>1 DEF Surrounded
        <5>3. (z[u] + 1) - ((z[u] + 1) % 2) = z[u]
          BY <3>3, Flags
        <5>4. d[u] = -z[u]
          BY <1>5, <1>6, <4>1, <5>2, <5>3 DEF get_block_size
        <5> HIDE DEF d
        <5>5. z[u] \in Int /\ z[u] >= 16
          BY <3>3
        <5>6. QED
          BY <5>4, <5>5 DEF Room
      <4>2. CASE u \notin H
        <5>1. d[u] = c[u]
          BY <1>6, <4>2
        <5> HIDE DEF c, d
        <5>2. QED
          BY <3>2, <5>1 DEF Fits
      <4>3. QED
        BY <4>1, <4>2
    <3>5. Fits(z, U, d)
      BY <1>6, <3>4 DEF Fits
    <3>6. QED
      BY <3>2, <3>5 DEF Owned, OwnedAs
  <2>2. QED
    BY <1>4, <2>1 DEF InUse
<1>8. Sound(k, H, g)
  BY <1>2, <1>4, <1>7 DEF Sound
<1>9. QED
  BY <1>1, <1>2, <1>3, <1>8 DEF Consistent, g

\* The runs meet it too.
LEMMA ExactArea ==
  ASSUME NEW k, NEW f, Consistent(k, f), Tables(k), Area(k, f)
  PROVE  Area(k, Exact(k, f))
<1> DEFINE g == Exact(k, f)
<1>1. DOMAIN g = DOMAIN f /\ \A va \in DOMAIN f : g[va] = -SizeOf(k, va)
  BY DEF Exact
<1> HIDE DEF g
<1>2. PICK N : RunsApart(N) /\ RunsHeld(f, N) /\ RunsShown(k.mm, N) /\ RestListed(k, N)
  BY DEF Area, AreaAs
<1>3. FramesExact(k.mm)
  BY DEF Tables
<1>4. ASSUME NEW v \in DOMAIN N
      PROVE  g[PageAt(v)] \in Int /\ RunRoom(N[v], g[PageAt(v)])
  <2> DEFINE va == PageAt(v)
             n == N[v]
  <2>1. va \in DOMAIN f /\ ~InBlocks(va)
    BY <1>2 DEF RunsHeld
  <2>2. n \in Int /\ n >= 1
    BY <1>2 DEF RunsApart
  <2>3. Cardinality(PagesIn(k.mm, va)) = n
    BY <1>2, <1>3, RunIs
  <2>4. g[va] = -n
    BY <1>1, <2>1, <2>3 DEF SizeOf
  <2> HIDE DEF n, va
  <2>5. g[va] \in Int /\ RunRoom(n, g[va])
    BY <2>2, <2>4 DEF RunRoom
  <2>6. QED
    BY <2>5 DEF n, va
<1>5. RunsHeld(g, N)
  BY <1>1, <1>2, <1>4 DEF RunsHeld
<1>6. QED
  BY <1>2, <1>5 DEF Area, AreaAs, g

\* An address comes before another: its bytes end before the other's begin.
LEMMA ExtentBefore ==
  ASSUME NEW k, NEW f, Describes(k, f), NEW va \in DOMAIN f, NEW w \in DOMAIN f, va < w
  PROVE  va + ExtentIn(k, va) <= w
<1>1. /\ Sound(k, HeldIn(f), f) /\ DOMAIN f \subseteq Int /\ FramesExact(k.mm)
      /\ \A u \in DOMAIN f : u \in HeldIn(f) <=> InBlocks(u)
  BY DEF Describes, Consistent, Tables, HeldIn
<1>2. va \in Int /\ w \in Int /\ HARD_LIMIT \in Int /\ k.da.brk \in Int /\ k.da.brk <= HARD_LIMIT
  BY <1>1, LimitType, HeldBelow
<1>3. PICK N : RunsApart(N) /\ RunsHeld(f, N) /\ RunsShown(k.mm, N)
  BY DEF Describes, Runs
<1>4. CASE InBlocks(va)
  <2> DEFINE n == get_block_size(k.da, va)
  <2>1. n \in Int /\ n >= 16 /\ va + n <= k.da.brk /\ \A u \in HeldIn(f) : va < u => va + n <= u
    BY <1>1, <1>4, BlockShown
  <2>2. ExtentIn(k, va) = n - 8
    BY <1>4 DEF ExtentIn, SizeOf
  <2> HIDE DEF n
  <2>3. CASE InBlocks(w)
    BY <1>1, <1>2, <2>1, <2>2, <2>3
  <2>4. CASE ~InBlocks(w)
    BY <1>2, <2>1, <2>2, <2>4 DEF InBlocks
  <2>5. QED
    BY <2>3, <2>4
<1>5. CASE ~InBlocks(va)
  <2>1. ~InBlocks(w)
    BY <1>2, <1>5 DEF InBlocks
  <2>2. PICK v \in DOMAIN N : va = PageAt(v) /\ v \in Int /\ N[v] \in Int /\ N[v] >= 1 /\ SizeOf(k, va) = N[v]
    BY <1>1, <1>3, <1>5, RunShown
  <2>3. PICK u \in DOMAIN N : w = PageAt(u) /\ u \in Int
    BY <1>1, <1>3, <2>1, RunShown
  <2>4. v < u
    BY <2>2, <2>3, PageOrder
  <2>5. v + N[v] <= u
    BY <1>3, <2>4 DEF RunsApart
  <2> DEFINE n == N[v]
             c == v + n
  <2>6. PageAt(v) + n * PAGE_SIZE = PageAt(c) /\ c \in Int
    <3>1. v \in Int /\ n \in Int
      BY <2>2
    <3> HIDE DEF n
    <3>2. PageAt(v) + n * PAGE_SIZE = PageAt(v + n)
      BY <3>1, PageAdd
    <3>3. QED
      BY <3>1, <3>2
  <2>7. c <= u
    BY <2>5
  <2> HIDE DEF c
  <2>8. PageAt(c) <= PageAt(u)
    BY <2>3, <2>6, <2>7, PageOrder
  <2>9. va + ExtentIn(k, va) = PageAt(c)
    BY <1>5, <2>2, <2>6 DEF ExtentIn
  <2>10. QED
    BY <2>3, <2>8, <2>9
<1>6. QED
  BY <1>4, <1>5

\* Nobody's bytes are another's.
LEMMA ExtentsApart ==
  ASSUME NEW k, NEW f, Describes(k, f), NEW va \in DOMAIN f
  PROVE  /\ ExtentIn(k, va) \in Int /\ ExtentIn(k, va) > 0
         /\ \A w \in DOMAIN f : w # va => va + ExtentIn(k, va) <= w \/ w + ExtentIn(k, w) <= va
<1>1. DOMAIN f \subseteq Int
  BY DEF Describes, Consistent
<1>2. \A w \in DOMAIN f : w # va => va + ExtentIn(k, va) <= w \/ w + ExtentIn(k, w) <= va
  <2>1. ASSUME NEW w \in DOMAIN f, w # va
        PROVE  va + ExtentIn(k, va) <= w \/ w + ExtentIn(k, w) <= va
    <3>1. va < w \/ w < va
      BY <1>1, <2>1
    <3>2. QED
      BY <3>1, ExtentBefore
  <2>2. QED
    BY <2>1
<1>3. ExtentIn(k, va) \in Int /\ ExtentIn(k, va) > 0
  <2> DEFINE n == SizeOf(k, va)
             P == PAGE_SIZE
  <2>1. n \in Int /\ n >= 1 /\ (InBlocks(va) => n >= 16)
    BY SizeFound
  <2>2. P \in Int /\ P >= 32
    BY PageType
  <2>3. ExtentIn(k, va) = IF InBlocks(va) THEN n - 8 ELSE n * P
    BY DEF ExtentIn
  <2> HIDE DEF n, P
  <2>4. n * P \in Int /\ n * P > 0
    BY <2>1, <2>2
  <2>5. QED
    BY <2>1, <2>3, <2>4
<1>4. QED
  BY <1>2, <1>3

\* Where the account is exact, the bytes are those of before.
LEMMA ExtentKept ==
  ASSUME NEW k, NEW f, Describes(k, f), NEW va \in DOMAIN f, NEW e, NEW g, Describes(e, g),
         va \in DOMAIN g, g[va] = Exact(k, f)[va]
  PROVE  ExtentIn(e, va) = ExtentIn(k, va)
<1> DEFINE m == SizeOf(k, va)
           n == SizeOf(e, va)
<1>1. m \in Int /\ m >= 1
  BY SizeFound
<1>2. g[va] = -m
  BY DEF Exact
<1>3. g[va] \in Int /\ (g[va] < 0 => n = -g[va])
  BY SizeFound
<1>4. n = m
  <2> HIDE DEF m, n
  <2>1. QED
    BY <1>1, <1>2, <1>3
<1>5. QED
  BY <1>4 DEF ExtentIn

-----------------------------------------------------------------------------
(* The steps of module Heap *)

RegionIn(k, va)   == [va |-> va, size |-> ExtentIn(k, va)]
RegionsIn(k, D)   == {RegionIn(k, va) : va \in D}

\* A region among others, as module Heap has it.
Fresh1(r, S) == r.size > 0 /\ \A o \in S : r.va + r.size <= o.va \/ o.va + o.size <= r.va

\* Regions of different addresses differ.
LEMMA RegionOf ==
  ASSUME NEW k, NEW D, NEW e, NEW va
  PROVE  /\ RegionIn(e, va) \in RegionsIn(k, D) <=> va \in D /\ ExtentIn(e, va) = ExtentIn(k, va)
         /\ \A u : RegionIn(e, va) = RegionIn(k, u) <=> va = u /\ ExtentIn(e, va) = ExtentIn(k, u)
<1>1. \A u : RegionIn(e, va) = RegionIn(k, u) <=> va = u /\ ExtentIn(e, va) = ExtentIn(k, u)
  BY DEF RegionIn
<1>2. QED
  BY <1>1 DEF RegionsIn

\* The region of an address meets none of the others.
LEMMA RegionFresh ==
  ASSUME NEW k, NEW f, Describes(k, f), NEW va \in DOMAIN f, NEW D, D \subseteq DOMAIN f \ {va}
  PROVE  Fresh1(RegionIn(k, va), RegionsIn(k, D))
<1>1. /\ ExtentIn(k, va) > 0
      /\ \A w \in DOMAIN f : w # va => va + ExtentIn(k, va) <= w \/ w + ExtentIn(k, w) <= va
  BY ExtentsApart
<1>2. ASSUME NEW o \in RegionsIn(k, D)
      PROVE  va + ExtentIn(k, va) <= o.va \/ o.va + o.size <= va
  <2>1. PICK w \in D : o = RegionIn(k, w)
    BY DEF RegionsIn
  <2>2. o.va = w /\ o.size = ExtentIn(k, w)
    BY <2>1 DEF RegionIn
  <2>3. w \in DOMAIN f /\ w # va
    OBVIOUS
  <2>4. QED
    BY <1>1, <2>2, <2>3
<1>3. QED
  BY <1>1, <1>2 DEF Fresh1, RegionIn

\* The account of a heap after a step: the addresses of D are as they were.
Follows(e, g, k, f, D) ==
  /\ Describes(e, g) /\ D \subseteq DOMAIN f /\ D \subseteq DOMAIN g
  /\ \A va \in D : g[va] = Exact(k, f)[va]

\* Their regions are the same.
LEMMA RegionsKept ==
  ASSUME NEW k, NEW f, Describes(k, f), NEW e, NEW g, NEW D, Follows(e, g, k, f, D)
  PROVE  RegionsIn(e, D) = RegionsIn(k, D)
<1>1. \A va \in D : ExtentIn(e, va) = ExtentIn(k, va)
  BY ExtentKept DEF Follows
<1>2. \A va \in D : RegionIn(e, va) = RegionIn(k, va)
  BY <1>1 DEF RegionIn
<1>3. QED
  BY <1>2 DEF RegionsIn

AllocBy(S, T)  == \E r \in T \ S : T = S \union {r} /\ Fresh1(r, S)
FreeBy(S, T)   == \E r \in S : T = S \ {r}
ResizeBy(S, T) == \E r \in S, s \in T \ S : T = (S \ {r}) \union {s} /\ Fresh1(s, S \ {r})

\* One address more.
LEMMA RegionComes ==
  ASSUME NEW k, NEW f, Describes(k, f), NEW e, NEW g, Follows(e, g, k, f, DOMAIN f),
         NEW v, v \notin DOMAIN f, DOMAIN g = DOMAIN f \union {v}
  PROVE  AllocBy(RegionsIn(k, DOMAIN f), RegionsIn(e, DOMAIN g))
<1> DEFINE D == DOMAIN f
           S == RegionsIn(k, D)
           T == RegionsIn(e, DOMAIN g)
           r == RegionIn(e, v)
<1>1. RegionsIn(e, D) = S
  BY RegionsKept
<1>2. T = RegionsIn(e, D) \union {r}
  BY DEF RegionsIn
<1>3. r \notin S
  BY RegionOf
<1>4. Fresh1(r, RegionsIn(e, D))
  <2>1. Describes(e, g) /\ v \in DOMAIN g /\ D \subseteq DOMAIN g \ {v}
    BY DEF Follows
  <2>2. QED
    BY <2>1, RegionFresh
<1> HIDE DEF S, T, r
<1>5. AllocBy(S, T)
  BY <1>1, <1>2, <1>3, <1>4 DEF AllocBy
<1>6. QED
  BY <1>5 DEF S, T

\* What is left without one.
LEMMA RegionsWithout ==
  ASSUME NEW k, NEW D, NEW va \in D
  PROVE  RegionIn(k, va) \in RegionsIn(k, D) /\ RegionsIn(k, D \ {va}) = RegionsIn(k, D) \ {RegionIn(k, va)}
<1>1. \A u \in D : RegionIn(k, u) = RegionIn(k, va) => u = va
  BY DEF RegionIn
<1>2. QED
  BY <1>1 DEF RegionsIn

\* One address less.
LEMMA RegionGoes ==
  ASSUME NEW k, NEW f, Describes(k, f), NEW va \in DOMAIN f, NEW e, NEW g,
         Follows(e, g, k, f, DOMAIN f \ {va}), DOMAIN g = DOMAIN f \ {va}
  PROVE  FreeBy(RegionsIn(k, DOMAIN f), RegionsIn(e, DOMAIN g))
<1>1. RegionsIn(e, DOMAIN g) = RegionsIn(k, DOMAIN f \ {va})
  BY RegionsKept
<1> DEFINE S == RegionsIn(k, DOMAIN f)
           r == RegionIn(k, va)
<1>2. r \in S /\ RegionsIn(k, DOMAIN f \ {va}) = S \ {r}
  BY RegionsWithout
<1> HIDE DEF S, r
<1>3. FreeBy(S, RegionsIn(e, DOMAIN g))
  BY <1>1, <1>2 DEF FreeBy
<1>4. QED
  BY <1>3 DEF S

\* One address for another, or with another size.
LEMMA RegionMoves ==
  ASSUME NEW k, NEW f, Describes(k, f), NEW va \in DOMAIN f, NEW e, NEW g,
         Follows(e, g, k, f, DOMAIN f \ {va}), NEW v, v = va \/ v \notin DOMAIN f,
         DOMAIN g = (DOMAIN f \ {va}) \union {v}
  PROVE  \/ ResizeBy(RegionsIn(k, DOMAIN f), RegionsIn(e, DOMAIN g))
         \/ RegionsIn(e, DOMAIN g) = RegionsIn(k, DOMAIN f)
<1> DEFINE D == DOMAIN f \ {va}
           S == RegionsIn(k, DOMAIN f)
           T == RegionsIn(e, DOMAIN g)
           r == RegionIn(k, va)
           s == RegionIn(e, v)
<1>1. RegionsIn(e, D) = RegionsIn(k, D)
  BY RegionsKept
<1>2. r \in S /\ RegionsIn(k, D) = S \ {r}
  BY RegionsWithout
<1>3. T = RegionsIn(e, D) \union {s}
  BY DEF RegionsIn
<1>4. Fresh1(s, RegionsIn(e, D))
  <2>1. Describes(e, g) /\ v \in DOMAIN g /\ D \subseteq DOMAIN g \ {v}
    BY DEF Follows
  <2>2. QED
    BY <2>1, RegionFresh
<1>5. s \in S => s = r
  BY RegionOf
<1> HIDE DEF D, S, T, r, s
<1>6. CASE s \in S
  <2>1. T = S
    BY <1>1, <1>2, <1>3, <1>5, <1>6
  <2>2. QED
    BY <2>1 DEF S, T
<1>7. CASE s \notin S
  <2>1. T = (S \ {r}) \union {s} /\ Fresh1(s, S \ {r}) /\ s \in T \ S
    BY <1>1, <1>2, <1>3, <1>4, <1>7
  <2>2. ResizeBy(S, T)
    BY <1>2, <2>1 DEF ResizeBy
  <2>3. QED
    BY <2>2 DEF S, T
<1>8. QED
  BY <1>6, <1>7

-----------------------------------------------------------------------------
(* What the calls do to the regions *)

\* A heap whose account is exact.
LEMMA ExactAll ==
  ASSUME NEW k, NEW f, Consistent(k, f), Tables(k), Area(k, f)
  PROVE  LET g == Exact(k, f)
         IN  /\ Consistent(k, g) /\ Area(k, g) /\ DOMAIN g = DOMAIN f
             /\ Describes(k, f) /\ HeldIn(g) = HeldIn(f)
<1> DEFINE g == Exact(k, f)
<1>1. Consistent(k, g) /\ Area(k, g)
  BY ExactBlocks, ExactArea
<1>2. DOMAIN g = DOMAIN f
  BY DEF Exact
<1>3. Describes(k, f)
  BY AreaRuns DEF Describes
<1> HIDE DEF g
<1>4. HeldIn(g) = HeldIn(f)
  BY <1>2 DEF HeldIn
<1>5. QED
  BY <1>1, <1>2, <1>3, <1>4 DEF g

\* The runs are there, with a list or without.
LEMMA LeftRuns ==
  ASSUME NEW r, NEW f, Left(r, f)
  PROVE  Runs(r.kh, f)
BY AreaRuns DEF Left

\* kmalloc() adds a region of fresh bytes, or changes none.
LEMMA MallocRegions ==
  ASSUME NEW k, NEW f, Consistent(k, f), Tables(k), Area(k, f), NEW size \in Nat, NEW strat, NEW r,
         r = kmalloc(k, size, strat)
  PROVE  IF r.va = NULL THEN RegionsIn(r.kh, DOMAIN f) = RegionsIn(k, DOMAIN f)
         ELSE AllocBy(RegionsIn(k, DOMAIN f), RegionsIn(r.kh, DOMAIN f \union {r.va}))
<1> DEFINE g == Exact(k, f)
           e == r.kh
           v == r.va
<1>1. /\ Consistent(k, g) /\ Area(k, g) /\ DOMAIN g = DOMAIN f
      /\ Describes(k, f) /\ HeldIn(g) = HeldIn(f)
  BY ExactAll
<1> HIDE DEF g
<1>2. GivesNew(r, g, size)
  <2>1. Sound(k, HeldIn(g), g)
    BY <1>1 DEF Consistent
  <2>2. Gives(r, k, HeldIn(g), g, size)
    BY <2>1, Kmallocs
  <2>3. QED
    BY <1>1, <2>2, Giving
<1>3. Gets(r, g, size)
  BY <1>1, GetsAny
<1>4. CASE v = NULL
  <2>1. Consistent(e, g) /\ Tables(e) /\ Left(r, g)
    BY <1>2, <1>3, <1>4 DEF GivesNew, Gets
  <2>2. Describes(e, g)
    BY <2>1, LeftRuns DEF Describes
  <2>3. Follows(e, g, k, f, DOMAIN f)
    BY <1>1, <2>2 DEF Follows, g
  <2>4. QED
    BY <1>1, <1>4, <2>3, RegionsKept
<1>5. CASE v # NULL
  <2> DEFINE h == With(g, v, size)
  <2>1. Consistent(e, h) /\ Tables(e) /\ v \notin DOMAIN g /\ Left(r, h)
    BY <1>2, <1>3, <1>5 DEF GivesNew, Gets
  <2>2. DOMAIN h = DOMAIN g \union {v} /\ \A va \in DOMAIN g : h[va] = g[va]
    BY <2>1 DEF With
  <2> HIDE DEF h
  <2>3. Describes(e, h)
    BY <2>1, LeftRuns DEF Describes
  <2>4. Follows(e, h, k, f, DOMAIN f)
    BY <1>1, <2>2, <2>3 DEF Follows, g
  <2>5. AllocBy(RegionsIn(k, DOMAIN f), RegionsIn(e, DOMAIN h))
    BY <1>1, <2>1, <2>2, <2>4, RegionComes
  <2>6. QED
    BY <1>1, <1>5, <2>2, <2>5
<1>6. QED
  BY <1>4, <1>5

\* kfree() takes one region away and leaves the others as they are.
LEMMA FreeRegions ==
  ASSUME NEW k, NEW f, Consistent(k, f), Tables(k), Area(k, f), NEW va \in DOMAIN f, NEW strat, NEW r,
         r = kfree(k, va, strat)
  PROVE  FreeBy(RegionsIn(k, DOMAIN f), RegionsIn(r.kh, DOMAIN f \ {va}))
<1> DEFINE g == Exact(k, f)
           e == r.kh
           h == Without(g, va)
<1>1. /\ Consistent(k, g) /\ Area(k, g) /\ DOMAIN g = DOMAIN f
      /\ Describes(k, f) /\ HeldIn(g) = HeldIn(f)
  BY ExactAll
<1> HIDE DEF g
<1>2. Consistent(e, h)
  <2>1. Frees(r, k, HeldIn(g) \ {va}, g)
    BY <1>1, Freeing
  <2>2. QED
    BY <1>1, <2>1, FreesAll
<1>3. Tables(e) /\ Left(r, h)
  BY <1>1, DropsAny DEF Drops
<1>4. DOMAIN h = DOMAIN f \ {va} /\ \A u \in DOMAIN h : h[u] = g[u]
  BY <1>1 DEF Without
<1> HIDE DEF h
<1>5. Describes(e, h)
  BY <1>2, <1>3, LeftRuns DEF Describes
<1>6. Follows(e, h, k, f, DOMAIN f \ {va})
  BY <1>1, <1>4, <1>5 DEF Follows, g
<1>7. FreeBy(RegionsIn(k, DOMAIN f), RegionsIn(e, DOMAIN h))
  BY <1>1, <1>4, <1>6, RegionGoes
<1>8. QED
  BY <1>4, <1>7

\* krealloc() moves or resizes one region and leaves the others as they are.
LEMMA ReallocRegions ==
  ASSUME NEW k, NEW f, Consistent(k, f), Tables(k), Area(k, f), NEW va \in DOMAIN f,
         NEW size \in Nat, size # 0, ReallocWorks(k, va, size), NEW strat, NEW r,
         r = krealloc(k, va, size, strat)
  PROVE  IF r.va = NULL THEN RegionsIn(r.kh, DOMAIN f) = RegionsIn(k, DOMAIN f)
         ELSE LET T == RegionsIn(r.kh, (DOMAIN f \ {va}) \union {r.va})
              IN  ResizeBy(RegionsIn(k, DOMAIN f), T) \/ T = RegionsIn(k, DOMAIN f)
<1> DEFINE g == Exact(k, f)
           e == r.kh
           v == r.va
<1>1. /\ Consistent(k, g) /\ Area(k, g) /\ DOMAIN g = DOMAIN f
      /\ Describes(k, f) /\ HeldIn(g) = HeldIn(f)
  BY ExactAll
<1> HIDE DEF g
<1>2. Reallocs(r, g, va, size)
  BY <1>1, Kreallocs
<1>3. Keeps(r, g, va, size)
  BY <1>1, KeepsAny
<1>4. CASE v = NULL
  <2>1. Consistent(e, g) /\ Tables(e) /\ Left(r, g)
    BY <1>2, <1>3, <1>4 DEF Reallocs, Keeps
  <2>2. Describes(e, g)
    BY <2>1, LeftRuns DEF Describes
  <2>3. Follows(e, g, k, f, DOMAIN f)
    BY <1>1, <2>2 DEF Follows, g
  <2>4. QED
    BY <1>1, <1>4, <2>3, RegionsKept
<1>5. CASE v # NULL
  <2> DEFINE h == With(Without(g, va), v, size)
             D == DOMAIN f \ {va}
  <2>1. Consistent(e, h) /\ Tables(e) /\ (v = va \/ v \notin DOMAIN g) /\ Left(r, h)
    BY <1>2, <1>3, <1>5 DEF Reallocs, Keeps
  <2>2. DOMAIN h = D \union {v} /\ \A u \in D : h[u] = g[u]
    BY <1>1, <2>1 DEF With, Without
  <2> HIDE DEF h
  <2>3. Describes(e, h)
    BY <2>1, LeftRuns DEF Describes
  <2>4. Follows(e, h, k, f, D)
    BY <1>1, <2>2, <2>3 DEF Follows, g
  <2>5. \/ ResizeBy(RegionsIn(k, DOMAIN f), RegionsIn(e, DOMAIN h))
        \/ RegionsIn(e, DOMAIN h) = RegionsIn(k, DOMAIN f)
    BY <1>1, <2>1, <2>2, <2>4, RegionMoves
  <2>6. QED
    BY <1>5, <2>2, <2>5
<1>6. QED
  BY <1>4, <1>5

\* The regions of KHeap.
LEMMA RegionsAre ==
  Regions = RegionsIn(kh, DOMAIN live) /\ Regions' = RegionsIn(kh', DOMAIN live')
BY DEF Regions, Extent, PagesOf, RegionsIn, RegionIn, ExtentIn, SizeOf, PagesIn

\* Every call is a step of module Heap, or changes no region.
LEMMA HeapStep ==
  KHeapInv /\ PagesInv /\ [Next]_vars =>
    \/ AllocBy(Regions, Regions') \/ FreeBy(Regions, Regions') \/ ResizeBy(Regions, Regions')
    \/ UNCHANGED Regions
<1> DEFINE S == Regions
           T == Regions'
           D == DOMAIN live
           OneStep == AllocBy(S, T) \/ FreeBy(S, T) \/ ResizeBy(S, T) \/ T = S
<1> SUFFICES ASSUME KHeapInv, PagesInv, [Next]_vars PROVE OneStep
  OBVIOUS
<1>1. Consistent(kh, live) /\ Tables(kh) /\ (panicked \/ Area(kh, live))
  BY DEF KHeapInv, PagesInv
<1>2. Sizes \subseteq Nat
  BY KHeapAssumption
<1>3. S = RegionsIn(kh, D) /\ T = RegionsIn(kh', DOMAIN live')
  BY RegionsAre
<1>4. CASE UNCHANGED vars
  <2>1. kh' = kh /\ live' = live
    BY <1>4 DEF vars
  <2>2. T = S
    BY <1>3, <2>1
  <2>3. QED
    BY <2>2
<1> HIDE DEF S, T
<1>5. ASSUME NEW r, NEW size \in Nat, Area(kh, live), r = kmalloc(kh, size, strategy), kh' = r.kh,
             live' = IF r.va = NULL THEN live ELSE With(live, r.va, size)
      PROVE  OneStep
  <2>1. IF r.va = NULL THEN RegionsIn(r.kh, D) = RegionsIn(kh, D)
        ELSE AllocBy(RegionsIn(kh, D), RegionsIn(r.kh, D \union {r.va}))
    BY <1>1, <1>5, MallocRegions
  <2>2. DOMAIN live' = IF r.va = NULL THEN D ELSE D \union {r.va}
    BY <1>5 DEF With
  <2> HIDE DEF D
  <2>3. QED
    BY <1>3, <1>5, <2>1, <2>2
<1>6. ASSUME NEW r, NEW va \in DOMAIN live, Area(kh, live), r = kfree(kh, va, strategy), kh' = r.kh,
             live' = Without(live, va)
      PROVE  OneStep
  <2>1. FreeBy(RegionsIn(kh, D), RegionsIn(r.kh, D \ {va}))
    BY <1>1, <1>6, FreeRegions
  <2>2. DOMAIN live' = D \ {va}
    BY <1>6 DEF Without
  <2> HIDE DEF D
  <2>3. QED
    BY <1>3, <1>6, <2>1, <2>2
<1>7. ASSUME NEW size \in Sizes, Kmalloc(size)
      PROVE  OneStep
  <2>1. PICK r \in {kmalloc(kh, size, strategy)} :
          kh' = r.kh /\ live' = IF r.va = NULL THEN live ELSE With(live, r.va, size)
    BY <1>7 DEF Kmalloc
  <2>2. Area(kh, live) /\ size \in Nat
    BY <1>1, <1>2, <1>7 DEF Kmalloc
  <2> HIDE DEF OneStep
  <2>3. QED
    BY <1>5, <2>1, <2>2
<1>8. ASSUME NEW va \in DOMAIN live, Kfree(va)
      PROVE  OneStep
  <2>1. PICK r \in {kfree(kh, va, strategy)} : kh' = r.kh /\ live' = Without(live, va)
    BY <1>8 DEF Kfree
  <2>2. Area(kh, live)
    BY <1>1, <1>8 DEF Kfree
  <2> HIDE DEF OneStep
  <2>3. QED
    BY <1>6, <2>1, <2>2
<1>9. ASSUME NEW va \in DOMAIN live \union {NULL}, NEW size \in Sizes \union {0}, Krealloc(va, size)
      PROVE  OneStep
  <2>1. PICK r \in {krealloc(kh, va, size, strategy)} :
          /\ kh' = r.kh
          /\ live' = IF size = 0 THEN Without(live, va)
                     ELSE IF r.va = NULL THEN live
                     ELSE With(Without(live, va), r.va, size)
    BY <1>9 DEF Krealloc, Resize
  <2>2. /\ ReallocWorks(kh, va, size) /\ (va = NULL => size # 0) /\ size \in Nat
        /\ Area(kh, live)
    BY <1>1, <1>2, <1>9 DEF Krealloc, Resize
  <2>3. CASE size = 0
    <3>1. va \in DOMAIN live /\ r = kfree(kh, va, strategy) /\ live' = Without(live, va)
      BY <2>1, <2>2, <2>3 DEF krealloc
    <3> HIDE DEF OneStep
    <3>2. QED
      BY <1>6, <2>1, <2>2, <3>1
  <2>4. CASE size # 0 /\ va = NULL
    <3>1. r = kmalloc(kh, size, strategy)
      BY <2>1, <2>4 DEF krealloc
    <3>2. NULL \notin DOMAIN live
      BY <1>1, Freeing
    <3>3. With(Without(live, va), r.va, size) = With(live, r.va, size)
      <4>1. DOMAIN Without(live, va) = DOMAIN live /\ \A u \in DOMAIN live : Without(live, va)[u] = live[u]
        BY <3>2, <2>4 DEF Without
      <4>2. QED
        BY <4>1 DEF With
    <3>4. live' = IF r.va = NULL THEN live ELSE With(live, r.va, size)
      BY <2>1, <2>4, <3>3
    <3> HIDE DEF OneStep
    <3>5. QED
      BY <1>5, <2>1, <2>2, <3>1, <3>4
  <2>5. CASE size # 0 /\ va # NULL
    <3>1. va \in DOMAIN live
      BY <2>5
    <3>2. IF r.va = NULL THEN RegionsIn(r.kh, D) = RegionsIn(kh, D)
          ELSE LET Q == RegionsIn(r.kh, (D \ {va}) \union {r.va})
               IN  ResizeBy(RegionsIn(kh, D), Q) \/ Q = RegionsIn(kh, D)
      BY <1>1, <2>1, <2>2, <2>5, <3>1, ReallocRegions
    <3>3. DOMAIN live' = IF r.va = NULL THEN D ELSE (D \ {va}) \union {r.va}
      BY <2>1, <2>5 DEF With, Without
    <3> HIDE DEF D
    <3>4. QED
      BY <1>3, <2>1, <3>2, <3>3
  <2>6. QED
    BY <2>3, <2>4, <2>5
<1>10. ASSUME NEW s \in Strategies, SetStrategy(s)
       PROVE  OneStep
  <2>1. kh' = kh /\ live' = live
    BY <1>10 DEF SetStrategy
  <2>2. QED
    BY <1>3, <2>1
<1> HIDE DEF OneStep
<1>11. QED
  BY <1>4, <1>7, <1>8, <1>9, <1>10 DEF Next

\* These are the steps of module Heap.
LEMMA HeapSteps ==
  /\ AllocBy(Regions, Regions') => Contract!Alloc
  /\ FreeBy(Regions, Regions') => Contract!Free
  /\ ResizeBy(Regions, Regions') => Contract!Resize
<1> DEFINE S == Regions
           T == Regions'
<1>1. AllocBy(S, T) => Contract!Alloc
  BY DEF AllocBy, Fresh1, Contract!Alloc, Contract!Unowned, Contract!Apart
<1>2. FreeBy(S, T) => Contract!Free
  BY DEF FreeBy, Contract!Free
<1>3. ResizeBy(S, T) => Contract!Resize
  BY DEF ResizeBy, Fresh1, Contract!Resize, Contract!Unowned, Contract!Apart
<1>4. QED
  BY <1>1, <1>2, <1>3

(* The kernel heap keeps the promise of module Heap: whatever the sizes, the
   strategies and the order of the calls, kmalloc() hands out bytes that
   nobody owns, kfree() takes back the region it is given and no other, and
   krealloc() moves or resizes the region it is given and no other. *)
THEOREM HeapKeepsItsPromise == Spec => HeapContract
<1>1. Init => Contract!Init
  <2> SUFFICES ASSUME Init PROVE Contract!Init
    OBVIOUS
  <2>1. DOMAIN live = {}
    BY DEF Init
  <2>2. QED
    BY <2>1 DEF Contract!Init, Regions
<1>2. KHeapInv /\ PagesInv /\ [Next]_vars => [Contract!Next]_Regions
  BY HeapStep, HeapSteps DEF Contract!Next
<1>3. QED
  BY <1>1, <1>2, KHeapAlways, PagesAlways, PTL DEF Spec, HeapContract, Contract!Spec
=============================================================================
