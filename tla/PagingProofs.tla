----------------------------- MODULE PagingProofs -----------------------------
(***************************************************************************)
(* Proofs about Paging, for any number of environments, pages of each      *)
(* part, frames, frames of the page file and places in the working set.    *)
(***************************************************************************)
EXTENDS Paging, CommonTheorems

-----------------------------------------------------------------------------
(* The memory of the machine *)

Frames == 1 .. FrameCount
Blocks == 1 .. DiskFrames
UserPages   == Envs \X Pages
KernelPages == {KTable(e, t) : e \in Envs, t \in Tables}
AllPages    == UserPages \union KernelPages

\* The pages that own the frame they map: all but the hole.
Owners == {p \in AllPages : p[1] = 0 \/ p[2] # Hole}

Elements == [va : Pages, cnt : Int]
EnvRecords == [status : {"none", "live", "dead"}, ws : Seq(Elements), hand : Int,
               disk : [Pages -> Blocks \union {0}], tables : SUBSET Tables,
               brk : Int, marked : [Area -> Nat]]
Disks  == [free : Seq(Blocks), data : [Blocks -> Int]]
Worlds == [mm : MemoriesFor(Frames, AllPages), data : [Frames -> Int], disk : Disks,
           env : [Envs -> EnvRecords]]

\* A frame is free, once, or referenced by the one page that maps it; a page is
\* present if and only if it has a frame.
FramesApart(m) ==
  /\ NoDup(m.free)
  /\ \A f \in Frames : f \in Elems(m.free) <=> m.ref[f] = 0
  /\ \A f \in Frames : m.ref[f] # 0 => m.ref[f] = 1 /\ \E p \in Owners : m.pt[p].frame = f
  /\ \A p \in Owners : /\ m.pt[p].frame # NoFrame => m.ref[m.pt[p].frame] # 0
                       /\ m.pt[p].frame # NoFrame <=> "P" \in m.pt[p].perm
  /\ \A p, q \in Owners : m.pt[p].frame = m.pt[q].frame /\ m.pt[p].frame # NoFrame => p = q

\* A frame of the page file is free, once, or holds one page.
DiskApart(x) ==
  /\ NoDup(x.disk.free)
  /\ \A d \in Blocks : d \in Elems(x.disk.free)
                         <=> ~ \E e \in Envs, va \in Pages : x.env[e].disk[va] = d
  /\ \A e, c \in Envs, va, u \in Pages :
       x.env[e].disk[va] = x.env[c].disk[u] /\ x.env[e].disk[va] # 0 => e = c /\ va = u

\* What holds of every environment, whatever its status.
TablesMapped(x, e) == \A t \in Tables : t \in x.env[e].tables <=> "P" \in x.mm.pt[KTable(e, t)].perm
MarksInside(x, e)  == \A va \in Area : \A i \in 1 .. x.env[e].marked[va] : va + i - 1 \in Area
Sound(x, e) == TablesMapped(x, e) /\ MarksInside(x, e) /\ x.env[e].disk[Hole] = 0

Base(x) == /\ x \in Worlds /\ FramesApart(x.mm) /\ DiskApart(x)
           /\ \A e \in Envs : Sound(x, e)

\* The working set of a live environment.
Resident(x, e, va) == "P" \in perms(x, e, va)
Listed(x, e) ==
  /\ \A i \in DOMAIN x.env[e].ws : Resident(x, e, x.env[e].ws[i].va)
  /\ \A va \in Pages : Resident(x, e, va) => \E i \in DOMAIN x.env[e].ws : x.env[e].ws[i].va = va
  /\ \A i, j \in DOMAIN x.env[e].ws : x.env[e].ws[i].va = x.env[e].ws[j].va => i = j
  /\ Len(x.env[e].ws) <= page_WS_max_size
  /\ Full(x, e) => x.env[e].hand \in 1 .. page_WS_max_size

\* Its pages: one of the heap is present if and only if it is marked so; the page
\* file has those of the program.
PageGood(x, e, va) ==
  /\ va = Hole => ~Resident(x, e, va)
  /\ va \in Text => InPageFile(x, e, va)
  /\ va \in UHeap => /\ Resident(x, e, va) <=> "b11" \in perms(x, e, va)
                     /\ Resident(x, e, va) => "b10" \in perms(x, e, va)

\* A page that should hold v does, in its frame if it has one; and in the page
\* file, unless it is present and was modified since.
PageHolds(x, e, va, v) ==
  v # Unknown =>
    /\ Resident(x, e, va) => x.data[FrameOf(x, e, va)] = v
    /\ ~Resident(x, e, va) \/ "D" \notin perms(x, e, va)
         => x.env[e].disk[va] # 0 /\ x.disk.data[x.env[e].disk[va]] = v

PagesGood(x, e)  == \A va \in Pages : PageGood(x, e, va)
Holds(x, e, val) == \A va \in Pages : PageHolds(x, e, va, val[va])
EnvGood(x, e, val) == Listed(x, e) /\ PagesGood(x, e) /\ Holds(x, e, val)

\* An environment that was not created yet has nothing.
Fresh(x, e) == /\ x.env[e] = initialize_environment
               /\ \A va \in Pages : x.mm.pt[<<e, va>>] = NoEntry

\* The state of one environment: its memory, what its pages must show, its access.
EnvInv(x, e, val, op) ==
  /\ x.env[e].status = "none" => Fresh(x, e)
  /\ x.env[e].status = "live" => EnvGood(x, e, val)
  /\ op # NoOp => x.env[e].status = "live"

Accesses == [va : Pages \union {0}, v : Int, faults : Int]

PagingInv ==
  /\ Base(w) /\ sweeps \in Int
  /\ expect \in [Envs -> [Pages -> Int]] /\ pending \in [Envs -> Accesses]
  /\ panic = "no" => \A e \in Envs : EnvInv(w, e, expect[e], pending[e])

-----------------------------------------------------------------------------
(* What the operators of MemoryManager do to a memory of this system *)

Memories == MemoriesFor(Frames, AllPages)

\* Such a memory is one of CommonTheorems.
LEMMA MemoriesAre ==
  ASSUME NEW m
  PROVE  m \in Memories <=> IsMemory(m) /\ DOMAIN m.ref = Frames /\ DOMAIN m.pt = AllPages
<1>1. NoFrame \notin Frames
  BY DEF Frames, NoFrame
<1>2. ASSUME m \in Memories
      PROVE  DOMAIN m.ref = Frames /\ DOMAIN m.pt = AllPages
  BY <1>2 DEF Memories, MemoriesFor
<1>3. QED
  BY <1>1, <1>2 DEF IsMemory, Memories

\* Its parts.
LEMMA MemoryTypes ==
  ASSUME NEW m \in Memories
  PROVE  /\ m.free \in Seq(Frames) /\ m.ref \in [Frames -> Int]
         /\ m.pt \in [AllPages -> EntriesFor(Frames)]
         /\ \A p \in AllPages : m.pt[p].frame \in Frames \union {NoFrame} /\ m.pt[p].perm \in SUBSET Perms
<1>1. /\ m.free \in Seq(Frames) /\ m.ref \in [Frames -> Int]
      /\ m.pt \in [AllPages -> EntriesFor(Frames)]
  BY DEF Memories, MemoriesFor
<1>2. QED
  BY <1>1 DEF EntriesFor

\* m and r differ in the entry of page p, which is v in r.
EntryIs(m, r, p, v) == r.pt[p] = v /\ \A q \in AllPages : q # p => r.pt[q] = m.pt[q]

\* A page gets a frame that no page owned.
Allocated(m, r, p, perm) ==
  /\ FreeFrame(m) \in Frames /\ r \in Memories
  /\ \A q \in Owners : m.pt[q].frame # FreeFrame(m)
  /\ r.free = Tail(m.free) /\ r.ref = [m.ref EXCEPT ![FreeFrame(m)] = 1]
  /\ EntryIs(m, r, p, Mapped(m, FreeFrame(m), p, perm))

\* allocate_frame() and map_frame() of a page without a frame.
LEMMA AllocateAndMap ==
  ASSUME NEW m \in Memories, FramesApart(m), m.free # <<>>, NEW p \in AllPages,
         "P" \notin m.pt[p].perm, NEW perm \in SUBSET Perms
  PROVE  Allocated(m, allocate_and_map(m, p, perm), p, perm)
<1> DEFINE f == FreeFrame(m)
           a == allocate_frame(m)
           r == map_frame(a, f, p, perm)
<1>1. IsMemory(m) /\ DOMAIN m.ref = Frames /\ DOMAIN m.pt = AllPages
  BY MemoriesAre
<1>2. m.free \in Seq(Frames) /\ m.ref \in [Frames -> Int]
  BY MemoryTypes
<1>3. f \in Frames /\ f \in Elems(m.free)
  BY <1>2, PopList DEF FramesApart, FreeFrame
<1>4. \A q \in Owners : m.pt[q].frame # f
  BY <1>3 DEF FramesApart, Frames, NoFrame
<1>5. IsMemory(a) /\ a.free = Tail(m.free) /\ a.pt = m.pt /\ a.ref = [m.ref EXCEPT ![f] = 0]
  BY <1>1, AllocateFrame
<1>6. r = allocate_and_map(m, p, perm)
  BY DEF allocate_and_map
<1> HIDE DEF a, f
<1>7. DOMAIN a.ref = Frames /\ DOMAIN a.pt = AllPages /\ a.ref[f] = 0
  BY <1>1, <1>2, <1>3, <1>5
<1>8. /\ IsMemory(r) /\ r.free = a.free /\ r.ref = [a.ref EXCEPT ![f] = a.ref[f] + 1]
      /\ r.pt = [a.pt EXCEPT ![p] = Mapped(a, f, p, perm)]
  BY <1>3, <1>5, <1>7, MapFrame
<1> HIDE DEF r
<1>9. Mapped(a, f, p, perm) = Mapped(m, f, p, perm)
  BY <1>5 DEF Mapped
<1>10. r.ref = [m.ref EXCEPT ![f] = 1]
  BY <1>2, <1>3, <1>5, <1>7, <1>8
<1>11. DOMAIN r.ref = Frames /\ DOMAIN r.pt = AllPages
  BY <1>1, <1>5, <1>8, <1>10
<1>12. r \in Memories
  BY <1>8, <1>11, MemoriesAre
<1>13. EntryIs(m, r, p, Mapped(m, f, p, perm))
  BY <1>1, <1>5, <1>7, <1>8, <1>9 DEF EntryIs
<1>14. QED
  BY <1>3, <1>4, <1>5, <1>6, <1>8, <1>10, <1>12, <1>13 DEF f, Allocated

\* ... and owns it then.
LEMMA AllocatedApart ==
  ASSUME NEW m \in Memories, FramesApart(m), m.free # <<>>, NEW p \in Owners,
         "P" \notin m.pt[p].perm, NEW perm \in SUBSET Perms
  PROVE  FramesApart(allocate_and_map(m, p, perm))
<1> DEFINE f == FreeFrame(m)
           r == allocate_and_map(m, p, perm)
<1>1. p \in AllPages /\ \A q \in Owners : q \in AllPages
  BY DEF Owners
<1>2. /\ f \in Frames /\ r \in Memories
      /\ \A q \in Owners : m.pt[q].frame # f
      /\ r.free = Tail(m.free) /\ r.ref = [m.ref EXCEPT ![f] = 1]
      /\ EntryIs(m, r, p, Mapped(m, f, p, perm))
  BY <1>1, AllocateAndMap DEF Allocated
<1>3. m.free \in Seq(Frames) /\ m.ref \in [Frames -> Int] /\ m.pt \in [AllPages -> EntriesFor(Frames)]
  BY MemoryTypes
<1>4. NoDup(Tail(m.free)) /\ Elems(Tail(m.free)) = Elems(m.free) \ {f}
  BY <1>3, PopList DEF FramesApart, FreeFrame
<1>5. f # NoFrame
  BY <1>2 DEF Frames, NoFrame
<1> HIDE DEF f, r
<1>6. /\ r.ref[f] = 1 /\ \A g \in Frames : g # f => r.ref[g] = m.ref[g]
      /\ r.pt[p].frame = f /\ "P" \in r.pt[p].perm
      /\ \A q \in AllPages : q # p => r.pt[q] = m.pt[q]
  BY <1>1, <1>2, <1>3 DEF Mapped, EntryIs
<1>7. m.pt[p].frame = NoFrame
  BY DEF FramesApart
<1>8. \A g \in Frames : g \in Elems(r.free) <=> r.ref[g] = 0
  BY <1>2, <1>4, <1>6 DEF FramesApart
<1>9. ASSUME NEW g \in Frames, r.ref[g] # 0
      PROVE  r.ref[g] = 1 /\ \E q \in Owners : r.pt[q].frame = g
  <2>1. CASE g = f
    BY <1>6, <2>1
  <2>2. CASE g # f
    <3>1. m.ref[g] = 1 /\ \E q \in Owners : m.pt[q].frame = g
      BY <1>6, <1>9, <2>2 DEF FramesApart
    <3>2. PICK q \in Owners : m.pt[q].frame = g
      BY <3>1
    <3>3. q # p
      BY <1>7, <3>2 DEF Frames, NoFrame
    <3>4. QED
      BY <1>1, <1>6, <2>2, <3>1, <3>2, <3>3
  <2>3. QED
    BY <2>1, <2>2
<1>10. ASSUME NEW q \in Owners
       PROVE  /\ r.pt[q].frame # NoFrame => r.ref[r.pt[q].frame] # 0
              /\ r.pt[q].frame # NoFrame <=> "P" \in r.pt[q].perm
  <2>1. CASE q = p
    BY <1>5, <1>6, <2>1
  <2>2. CASE q # p
    <3>1. r.pt[q] = m.pt[q] /\ m.pt[q].frame # f /\ m.pt[q].frame \in Frames \union {NoFrame}
      BY <1>1, <1>2, <1>6, <2>2, MemoryTypes
    <3>2. QED
      BY <1>6, <3>1 DEF FramesApart
  <2>3. QED
    BY <2>1, <2>2
<1>11. ASSUME NEW q \in Owners, NEW s \in Owners,
              r.pt[q].frame = r.pt[s].frame, r.pt[q].frame # NoFrame
       PROVE  q = s
  BY <1>1, <1>2, <1>6, <1>11 DEF FramesApart
<1>12. QED
  BY <1>2, <1>4, <1>8, <1>9, <1>10, <1>11 DEF FramesApart, r
\* unmap_frame() of a page gives its frame back.
LEMMA UnmapApart ==
  ASSUME NEW m \in Memories, FramesApart(m), NEW p \in Owners, m.pt[p].frame # NoFrame
  PROVE  /\ m.pt[p].frame \in Frames /\ unmap_frame(m, p) \in Memories
         /\ FramesApart(unmap_frame(m, p))
         /\ unmap_frame(m, p).free = <<m.pt[p].frame>> \o m.free
         /\ EntryIs(m, unmap_frame(m, p), p, Unmapped(m, p))
<1> DEFINE f == m.pt[p].frame
           r == unmap_frame(m, p)
<1>1. p \in AllPages /\ \A q \in Owners : q \in AllPages
  BY DEF Owners
<1>2. m.free \in Seq(Frames) /\ m.ref \in [Frames -> Int] /\ m.pt \in [AllPages -> EntriesFor(Frames)]
  BY MemoryTypes
<1>3. f \in Frames /\ m.ref[f] = 1 /\ f \notin Elems(m.free)
  BY <1>1, MemoryTypes DEF FramesApart
<1>4. /\ IsMemory(m) /\ DOMAIN m.ref = Frames /\ DOMAIN m.pt = AllPages
      /\ f \in DOMAIN m.ref /\ p \in DOMAIN m.pt
  BY <1>1, <1>3, MemoriesAre
<1>5. /\ IsMemory(r) /\ r.free = <<f>> \o m.free /\ r.ref = [m.ref EXCEPT ![f] = 0]
      /\ r.pt = [m.pt EXCEPT ![p] = Unmapped(m, p)]
  <2>1. /\ IsMemory(r) /\ r.free = IF m.ref[f] = 1 THEN <<f>> \o m.free ELSE m.free
        /\ r.ref = [m.ref EXCEPT ![f] = m.ref[f] - 1]
        /\ r.pt = [m.pt EXCEPT ![p] = Unmapped(m, p)]
    BY <1>4, UnmapFrame
  <2>2. QED
    BY <1>3, <2>1
<1> HIDE DEF r
<1>6. r \in Memories
  BY <1>4, <1>5, MemoriesAre
<1>7. NoDup(r.free) /\ Elems(r.free) = Elems(m.free) \union {f}
  BY <1>2, <1>3, <1>5, PushList DEF FramesApart
<1>8. /\ r.ref[f] = 0 /\ \A h \in Frames : h # f => r.ref[h] = m.ref[h]
      /\ r.pt[p].frame = NoFrame /\ "P" \notin r.pt[p].perm
      /\ \A q \in AllPages : q # p => r.pt[q] = m.pt[q]
  BY <1>1, <1>2, <1>3, <1>5 DEF Unmapped, PERM_AVAILABLE
<1>9. \A h \in Frames : h \in Elems(r.free) <=> r.ref[h] = 0
  BY <1>3, <1>7, <1>8 DEF FramesApart
<1>10. ASSUME NEW h \in Frames, r.ref[h] # 0
       PROVE  r.ref[h] = 1 /\ \E q \in Owners : r.pt[q].frame = h
  <2>1. h # f /\ m.ref[h] # 0 /\ r.ref[h] = m.ref[h]
    BY <1>8, <1>10
  <2>2. m.ref[h] = 1
    BY <2>1 DEF FramesApart
  <2>3. PICK q \in Owners : m.pt[q].frame = h
    BY <2>1 DEF FramesApart
  <2>4. r.pt[q] = m.pt[q]
    BY <1>1, <1>8, <2>1, <2>3
  <2>5. QED
    BY <2>1, <2>2, <2>3, <2>4
<1>11. ASSUME NEW q \in Owners
       PROVE  /\ r.pt[q].frame # NoFrame => r.ref[r.pt[q].frame] # 0
              /\ r.pt[q].frame # NoFrame <=> "P" \in r.pt[q].perm
  <2>1. CASE q = p
    BY <1>8, <2>1
  <2>2. CASE q # p
    <3>1. r.pt[q] = m.pt[q] /\ m.pt[q].frame # f /\ m.pt[q].frame \in Frames \union {NoFrame}
      BY <1>1, <1>8, <2>2, MemoryTypes DEF FramesApart
    <3>2. QED
      BY <1>8, <3>1 DEF FramesApart
  <2>3. QED
    BY <2>1, <2>2
<1>12. ASSUME NEW q \in Owners, NEW s \in Owners,
              r.pt[q].frame = r.pt[s].frame, r.pt[q].frame # NoFrame
       PROVE  q = s
  BY <1>1, <1>8, <1>12 DEF FramesApart
<1>13. FramesApart(r)
  BY <1>7, <1>9, <1>10, <1>11, <1>12 DEF FramesApart
<1>14. EntryIs(m, r, p, Unmapped(m, p))
  BY <1>1, <1>4, <1>5 DEF EntryIs
<1>15. QED
  BY <1>3, <1>5, <1>6, <1>13, <1>14 DEF r

\* pt_set_page_permissions() of bits other than P.
LEMMA PermissionsApart ==
  ASSUME NEW m \in Memories, FramesApart(m), NEW p \in AllPages,
         NEW set \in SUBSET (Perms \ {"P"}), NEW clear \in SUBSET (Perms \ {"P"})
  PROVE  /\ pt_set_page_permissions(m, p, set, clear) \in Memories
         /\ FramesApart(pt_set_page_permissions(m, p, set, clear))
         /\ pt_set_page_permissions(m, p, set, clear).free = m.free
         /\ EntryIs(m, pt_set_page_permissions(m, p, set, clear), p,
                    [frame |-> m.pt[p].frame, perm |-> (m.pt[p].perm \union set) \ clear])
<1> DEFINE r == pt_set_page_permissions(m, p, set, clear)
           new == [frame |-> m.pt[p].frame, perm |-> (m.pt[p].perm \union set) \ clear]
<1>1. \A q \in Owners : q \in AllPages
  BY DEF Owners
<1>2. m.ref \in [Frames -> Int] /\ m.pt \in [AllPages -> EntriesFor(Frames)] /\ m.pt[p] \in EntriesFor(Frames)
  BY MemoryTypes
<1>3. new \in EntriesFor(Frames)
  <2>1. m.pt[p].frame \in Frames \union {NoFrame} /\ m.pt[p].perm \in SUBSET Perms
    BY MemoryTypes
  <2>2. (m.pt[p].perm \union set) \ clear \in SUBSET Perms
    BY <2>1
  <2>3. QED
    BY <2>1, <2>2 DEF EntriesFor
<1>12. [m.pt[p] EXCEPT !.perm = (m.pt[p].perm \union set) \ clear] = new
  <2>1. m.pt[p] = [frame |-> m.pt[p].frame, perm |-> m.pt[p].perm]
    BY <1>2 DEF EntriesFor
  <2>2. QED
    BY <2>1
<1>4. r = [m EXCEPT !.pt[p] = new]
  BY <1>12 DEF pt_set_page_permissions
<1>5. IsMemory(m) /\ DOMAIN m.ref = Frames /\ DOMAIN m.pt = AllPages
  BY MemoriesAre
<1> HIDE DEF r
<1>6. new.frame = m.pt[p].frame /\ ("P" \in new.perm <=> "P" \in m.pt[p].perm)
  OBVIOUS
<1> HIDE DEF new
<1>7. IsMemory(r) /\ r.free = m.free /\ r.ref = m.ref /\ r.pt = [m.pt EXCEPT ![p] = new]
  BY <1>3, <1>4, <1>5, SetEntry
<1>8. r \in Memories
  BY <1>5, <1>7, MemoriesAre
<1>9. \A q \in Owners : r.pt[q].frame = m.pt[q].frame /\ ("P" \in r.pt[q].perm <=> "P" \in m.pt[q].perm)
  BY <1>1, <1>2, <1>6, <1>7
<1>10. FramesApart(r)
  BY <1>7, <1>9 DEF FramesApart
<1>11. EntryIs(m, r, p, new)
  BY <1>5, <1>7 DEF EntryIs
<1>13. QED
  BY <1>7, <1>8, <1>10, <1>11 DEF r, new

-----------------------------------------------------------------------------
(* Worlds *)

\* The parts of a world.
LEMMA WorldTypes ==
  ASSUME NEW x \in Worlds
  PROVE  /\ x.mm \in Memories /\ x.data \in [Frames -> Int]
         /\ x.disk \in Disks /\ x.disk.free \in Seq(Blocks) /\ x.disk.data \in [Blocks -> Int]
         /\ x.env \in [Envs -> EnvRecords]
BY DEF Worlds, Disks, Memories

\* The parts of an environment.
LEMMA EnvTypes ==
  ASSUME NEW x \in Worlds, NEW e \in Envs
  PROVE  /\ x.env[e] \in EnvRecords
         /\ x.env[e].ws \in Seq(Elements) /\ x.env[e].hand \in Int
         /\ x.env[e].disk \in [Pages -> Blocks \union {0}] /\ x.env[e].tables \in SUBSET Tables
         /\ x.env[e].brk \in Int /\ x.env[e].marked \in [Area -> Nat]
         /\ x.env[e].status \in {"none", "live", "dead"}
<1>1. x.env[e] \in EnvRecords
  BY WorldTypes
<1>2. QED
  BY <1>1 DEF EnvRecords

\* The elements of a working set.
LEMMA WsPagesType ==
  ASSUME NEW x \in Worlds, NEW e \in Envs
  PROVE  /\ Len(x.env[e].ws) \in Nat /\ DOMAIN x.env[e].ws = 1 .. Len(x.env[e].ws)
         /\ \A i \in DOMAIN x.env[e].ws : /\ x.env[e].ws[i] \in Elements
                                          /\ x.env[e].ws[i].va \in Pages /\ x.env[e].ws[i].cnt \in Int
<1>1. x.env[e].ws \in Seq(Elements)
  BY EnvTypes
<1>2. \A i \in DOMAIN x.env[e].ws : x.env[e].ws[i] \in Elements
  BY <1>1
<1>3. QED
  BY <1>1, <1>2 DEF Elements

\* Assignments to the parts.
LEMMA SetMemory ==
  ASSUME NEW x \in Worlds, NEW m \in Memories
  PROVE  /\ [x EXCEPT !.mm = m] \in Worlds /\ [x EXCEPT !.mm = m].mm = m
         /\ [x EXCEPT !.mm = m].data = x.data /\ [x EXCEPT !.mm = m].disk = x.disk
         /\ [x EXCEPT !.mm = m].env = x.env
BY DEF Worlds, Memories

\* A word is written to a frame.
LEMMA SetData ==
  ASSUME NEW x \in Worlds, NEW f \in Frames, NEW v \in Int
  PROVE  /\ [x EXCEPT !.data[f] = v] \in Worlds /\ [x EXCEPT !.data[f] = v].mm = x.mm
         /\ [x EXCEPT !.data[f] = v].disk = x.disk /\ [x EXCEPT !.data[f] = v].env = x.env
         /\ [x EXCEPT !.data[f] = v].data[f] = v
         /\ \A g \in Frames : g # f => [x EXCEPT !.data[f] = v].data[g] = x.data[g]
BY DEF Worlds

\* The page file changes, and nothing else.
LEMMA SetDisk ==
  ASSUME NEW x \in Worlds, NEW d \in Disks
  PROVE  /\ [x EXCEPT !.disk = d] \in Worlds /\ [x EXCEPT !.disk = d].disk = d
         /\ [x EXCEPT !.disk = d].data = x.data /\ [x EXCEPT !.disk = d].mm = x.mm
         /\ [x EXCEPT !.disk = d].env = x.env
BY DEF Worlds

\* The record of one environment changes, and nothing else.
LEMMA SetEnv ==
  ASSUME NEW x \in Worlds, NEW e \in Envs, NEW r \in EnvRecords
  PROVE  /\ [x EXCEPT !.env[e] = r] \in Worlds /\ [x EXCEPT !.env[e] = r].mm = x.mm
         /\ [x EXCEPT !.env[e] = r].data = x.data /\ [x EXCEPT !.env[e] = r].disk = x.disk
         /\ [x EXCEPT !.env[e] = r].env[e] = r
         /\ \A c \in Envs : c # e => [x EXCEPT !.env[e] = r].env[c] = x.env[c]
BY DEF Worlds

\* Where the parts of the address space are.
LEMMA PartsOfPages ==
  /\ Hole \in Pages /\ Hole \notin UHeap /\ Hole \notin Text /\ Hole \notin Stack
  /\ Text \subseteq Pages /\ UHeap \subseteq Pages /\ Area \subseteq UHeap /\ Block \subseteq UHeap
  /\ Stack \subseteq Pages /\ Top \in Stack /\ Hole # Top
  /\ \A va \in Pages : va \in Nat /\ va # 0
  /\ \A va \in Pages : va \in Text \/ va = Hole \/ va \in UHeap \/ va \in Stack
  /\ \A va \in Text : va \notin UHeap /\ va # Hole /\ va \notin Stack
  /\ \A va \in Stack : va \notin UHeap
<1>1. NText \in Nat \ {0} /\ NPage \in Nat \ {0} /\ NStack \in Nat \ {0} /\ NBlock \in Nat
  BY PagingAssumption
<1>2. QED
  BY <1>1 DEF Hole, UHeap, Text, Stack, Pages, Area, Block, Top

\* The pages of environments and of the kernel.
LEMMA PagesApart ==
  /\ \A e \in Envs, va \in Pages : <<e, va>> \in AllPages
  /\ \A e \in Envs, va \in Pages : <<e, va>> \in Owners <=> va # Hole
  /\ \A e \in Envs, t \in Tables : KTable(e, t) \in Owners /\ KTable(e, t) \in AllPages
  /\ \A e, c \in Envs, t, s \in Tables : KTable(e, t) = KTable(c, s) => e = c /\ t = s
  /\ \A e, c \in Envs, t \in Tables, va \in Pages : KTable(e, t) # <<c, va>>
<1>1. \A e \in Envs : e \in Nat /\ e # 0
  BY PagingAssumption
<1>2. \A e \in Envs, va \in Pages : <<e, va>> \in AllPages
  BY DEF AllPages, UserPages
<1>3. \A e \in Envs, va \in Pages : <<e, va>>[1] = e /\ <<e, va>>[2] = va
  OBVIOUS
<1>4. \A e \in Envs, va \in Pages : <<e, va>> \in Owners <=> va # Hole
  BY <1>1, <1>2, <1>3 DEF Owners
<1>5. \A e \in Envs, t \in Tables : KTable(e, t) \in AllPages /\ KTable(e, t)[1] = 0
  BY DEF AllPages, KernelPages, KTable
<1>6. \A e, c \in Envs, t, s \in Tables : KTable(e, t) = KTable(c, s) => e = c /\ t = s
  <2>1. SUFFICES ASSUME NEW e \in Envs, NEW c \in Envs, NEW t \in Tables, NEW s \in Tables,
                        KTable(e, t) = KTable(c, s)
                 PROVE  e = c /\ t = s
    OBVIOUS
  <2>2. 10 * e + t = 10 * c + s
    BY <2>1 DEF KTable
  <2>3. e \in Nat /\ c \in Nat /\ t \in 1 .. 4 /\ s \in 1 .. 4
    BY <1>1 DEF Tables
  <2>4. QED
    BY <2>2, <2>3
<1>7. \A e, c \in Envs, t \in Tables, va \in Pages : KTable(e, t) # <<c, va>>
  BY <1>1, <1>3, <1>5
<1>8. QED
  BY <1>2, <1>4, <1>5, <1>6, <1>7 DEF Owners

-----------------------------------------------------------------------------
(* What an operation leaves alone *)

\* Nothing about page va of e changes from x to y: neither its entry, nor what
\* its frame holds, nor its place and contents in the page file.
Untouched(x, y, e, va) ==
  /\ y.mm.pt[<<e, va>>] = x.mm.pt[<<e, va>>]
  /\ y.env[e].disk[va] = x.env[e].disk[va]
  /\ va # Hole /\ FrameOf(x, e, va) # NoFrame => y.data[FrameOf(x, e, va)] = x.data[FrameOf(x, e, va)]
  /\ x.env[e].disk[va] # 0 => y.disk.data[x.env[e].disk[va]] = x.disk.data[x.env[e].disk[va]]

OtherEnvs(x, y, e)    == \A c \in Envs : c # e => y.env[c] = x.env[c]
AllUntouched(x, y)    == \A c \in Envs, u \in Pages : Untouched(x, y, c, u)
OnlyPage(x, y, e, va) == \A c \in Envs, u \in Pages : c # e \/ u # va => Untouched(x, y, c, u)
OnlyEnv(x, y, e)      == OtherEnvs(x, y, e) /\ \A c \in Envs, u \in Pages : c # e => Untouched(x, y, c, u)

\* Two steps that leave a page alone.
LEMMA UntouchedTwice ==
  ASSUME NEW x, NEW y, NEW z, NEW e, NEW va, Untouched(x, y, e, va), Untouched(y, z, e, va)
  PROVE  Untouched(x, z, e, va)
BY DEF Untouched, FrameOf, get_frame_info

\* An untouched page is as good as before.
LEMMA UntouchedGood ==
  ASSUME NEW x, NEW y, FramesApart(x.mm), NEW e \in Envs, NEW va \in Pages, Untouched(x, y, e, va)
  PROVE  /\ Resident(y, e, va) <=> Resident(x, e, va)
         /\ perms(y, e, va) = perms(x, e, va) /\ FrameOf(y, e, va) = FrameOf(x, e, va)
         /\ PageGood(x, e, va) <=> PageGood(y, e, va)
         /\ \A v : PageGood(x, e, va) /\ PageHolds(x, e, va, v) => PageHolds(y, e, va, v)
<1>1. perms(y, e, va) = perms(x, e, va) /\ FrameOf(y, e, va) = FrameOf(x, e, va)
  BY DEF Untouched, perms, FrameOf, get_frame_info, pt_get_page_permissions
<1>2. Resident(y, e, va) <=> Resident(x, e, va)
  BY <1>1 DEF Resident
<1>3. PageGood(x, e, va) <=> PageGood(y, e, va)
  BY <1>1, <1>2 DEF PageGood, Untouched, InPageFile
<1>4. ASSUME NEW v, PageGood(x, e, va), PageHolds(x, e, va, v)
      PROVE  PageHolds(y, e, va, v)
  <2>1. Resident(x, e, va) => va # Hole /\ FrameOf(x, e, va) # NoFrame
    BY <1>4, PagesApart DEF PageGood, FramesApart, Resident, perms, FrameOf, get_frame_info,
       pt_get_page_permissions
  <2>2. QED
    BY <1>1, <1>2, <1>4, <2>1 DEF PageHolds, Untouched
<1>5. QED
  BY <1>1, <1>2, <1>3, <1>4

\* An environment whose pages and whose working set are untouched.
LEMMA KeptGood ==
  ASSUME NEW x \in Worlds, NEW y, FramesApart(x.mm), NEW e \in Envs,
         y.env[e].ws = x.env[e].ws, y.env[e].hand = x.env[e].hand,
         \A u \in Pages : Untouched(x, y, e, u), NEW val, EnvGood(x, e, val)
  PROVE  EnvGood(y, e, val)
<1>1. PagesGood(y, e) /\ Holds(y, e, val)
  BY UntouchedGood DEF EnvGood, PagesGood, Holds
<1>2. \A i \in DOMAIN x.env[e].ws : x.env[e].ws[i].va \in Pages
  BY WsPagesType
<1>3. \A u \in Pages : Resident(y, e, u) <=> Resident(x, e, u)
  BY UntouchedGood
<1>4. Listed(y, e)
  BY <1>2, <1>3 DEF EnvGood, Listed, Full
<1>5. QED
  BY <1>1, <1>4 DEF EnvGood

\* ... and whose record is the same.
LEMMA UntouchedEnv ==
  ASSUME NEW x \in Worlds, NEW y, FramesApart(x.mm), NEW e \in Envs, y.env[e] = x.env[e],
         \A u \in Pages : Untouched(x, y, e, u), NEW val, NEW op, EnvInv(x, e, val, op)
  PROVE  EnvInv(y, e, val, op)
<1>1. Fresh(x, e) => Fresh(y, e)
  BY DEF Fresh, Untouched
<1>2. EnvGood(x, e, val) => EnvGood(y, e, val)
  BY KeptGood
<1>3. QED
  BY <1>1, <1>2 DEF EnvInv

\* The page file is as sound as before if its free list and its users are.
LEMMA SameDisk ==
  ASSUME NEW x, NEW y, DiskApart(x), y.disk.free = x.disk.free,
         \A c \in Envs : y.env[c].disk = x.env[c].disk
  PROVE  DiskApart(y)
BY DEF DiskApart

\* What has to be shown of a step that keeps the tables.
LEMMA BaseKept ==
  ASSUME NEW x, NEW y \in Worlds, Base(x), FramesApart(y.mm), DiskApart(y),
         \A c \in Envs : /\ y.env[c].tables = x.env[c].tables /\ y.env[c].disk[Hole] = 0
                         /\ MarksInside(y, c),
         \A c \in Envs, t \in Tables : y.mm.pt[KTable(c, t)] = x.mm.pt[KTable(c, t)]
  PROVE  Base(y)
BY DEF Base, Sound, TablesMapped

-----------------------------------------------------------------------------
(* Page table entries of a world *)

\* The frames and the frames of the page file whose contents changed belong to
\* no page but va of e.
DataApart(x, y, e, va) ==
  /\ \A f \in Frames : \/ y.data[f] = x.data[f]
                       \/ \A q \in Owners : q # <<e, va>> => x.mm.pt[q].frame # f
  /\ \A d \in Blocks : \/ y.disk.data[d] = x.disk.data[d]
                       \/ \A c \in Envs, u \in Pages : c # e \/ u # va => x.env[c].disk[u] # d

\* The other pages are untouched then.
LEMMA OnlyPageChanges ==
  ASSUME NEW x \in Worlds, NEW y, NEW e \in Envs, NEW va \in Pages, NEW v,
         EntryIs(x.mm, y.mm, <<e, va>>, v), DataApart(x, y, e, va),
         \A c \in Envs, u \in Pages : c # e \/ u # va => y.env[c].disk[u] = x.env[c].disk[u]
  PROVE  /\ OnlyPage(x, y, e, va)
         /\ \A c \in Envs, t \in Tables : y.mm.pt[KTable(c, t)] = x.mm.pt[KTable(c, t)]
<1>1. \A c \in Envs, t \in Tables : y.mm.pt[KTable(c, t)] = x.mm.pt[KTable(c, t)]
  BY PagesApart DEF EntryIs
<1>2. ASSUME NEW c \in Envs, NEW u \in Pages, c # e \/ u # va
      PROVE  Untouched(x, y, c, u)
  <2>1. <<c, u>> # <<e, va>> /\ <<c, u>> \in AllPages
    BY <1>2, PagesApart
  <2>2. y.mm.pt[<<c, u>>] = x.mm.pt[<<c, u>>]
    BY <2>1 DEF EntryIs
  <2>3. ASSUME u # Hole, FrameOf(x, c, u) # NoFrame
        PROVE  y.data[FrameOf(x, c, u)] = x.data[FrameOf(x, c, u)]
    <3>1. <<c, u>> \in Owners /\ FrameOf(x, c, u) = x.mm.pt[<<c, u>>].frame
      BY <2>3, PagesApart DEF FrameOf, get_frame_info
    <3>2. FrameOf(x, c, u) \in Frames
      BY <2>1, <2>3, <3>1, MemoryTypes, WorldTypes
    <3>3. QED
      BY <2>1, <3>1, <3>2 DEF DataApart
  <2>4. ASSUME x.env[c].disk[u] # 0
        PROVE  y.disk.data[x.env[c].disk[u]] = x.disk.data[x.env[c].disk[u]]
    <3>1. x.env[c].disk[u] \in Blocks
      BY <2>4, EnvTypes
    <3>2. QED
      BY <1>2, <3>1 DEF DataApart
  <2>5. QED
    BY <1>2, <2>2, <2>3, <2>4 DEF Untouched
<1>3. QED
  BY <1>1, <1>2 DEF OnlyPage

\* A step that changes only page va of e, and no record of an environment.
PageStep(x, y, e, va) == Base(y) /\ OnlyPage(x, y, e, va) /\ y.env = x.env /\ y.disk = x.disk

\* pt_set_page_permissions() of a page of an environment.
PermsSet(x, y, e, va, set, clear) ==
  /\ PageStep(x, y, e, va) /\ y.data = x.data /\ y.mm.free = x.mm.free
  /\ perms(y, e, va) = (perms(x, e, va) \union set) \ clear
  /\ FrameOf(y, e, va) = FrameOf(x, e, va)

\* It changes no frame, and no bit of another page.
LEMMA SetPermsDoes ==
  ASSUME NEW x, Base(x), NEW e \in Envs, NEW va \in Pages,
         NEW set \in SUBSET (Perms \ {"P"}), NEW clear \in SUBSET (Perms \ {"P"})
  PROVE  PermsSet(x, set_perms(x, e, va, set, clear), e, va, set, clear)
<1> DEFINE y == set_perms(x, e, va, set, clear)
           m == pt_set_page_permissions(x.mm, <<e, va>>, set, clear)
           new == [frame |-> x.mm.pt[<<e, va>>].frame, perm |-> (x.mm.pt[<<e, va>>].perm \union set) \ clear]
<1>1. x \in Worlds /\ FramesApart(x.mm) /\ x.mm \in Memories /\ <<e, va>> \in AllPages
  BY WorldTypes, PagesApart DEF Base
<1>2. m \in Memories /\ FramesApart(m) /\ m.free = x.mm.free /\ EntryIs(x.mm, m, <<e, va>>, new)
  BY <1>1, PermissionsApart
<1>3. y = [x EXCEPT !.mm = m]
  BY DEF set_perms
<1> HIDE DEF m, y
<1>4. y \in Worlds /\ y.mm = m /\ y.data = x.data /\ y.disk = x.disk /\ y.env = x.env
  BY <1>1, <1>2, <1>3, SetMemory
<1>5. DataApart(x, y, e, va)
  BY <1>4 DEF DataApart
<1>6. /\ OnlyPage(x, y, e, va)
      /\ \A c \in Envs, t \in Tables : y.mm.pt[KTable(c, t)] = x.mm.pt[KTable(c, t)]
  BY <1>1, <1>2, <1>4, <1>5, OnlyPageChanges
<1>7. DiskApart(y)
  BY <1>4, SameDisk DEF Base
<1>8. Base(y)
  <2>1. \A c \in Envs : /\ y.env[c].tables = x.env[c].tables /\ y.env[c].disk[Hole] = 0
                        /\ MarksInside(y, c)
    BY <1>4 DEF Base, Sound, MarksInside
  <2>2. QED
    BY <1>2, <1>4, <1>6, <1>7, <2>1, BaseKept
<1>9. perms(y, e, va) = (perms(x, e, va) \union set) \ clear /\ FrameOf(y, e, va) = FrameOf(x, e, va)
  BY <1>2, <1>4 DEF EntryIs, perms, FrameOf, get_frame_info, pt_get_page_permissions
<1>10. QED
  BY <1>2, <1>4, <1>6, <1>8, <1>9 DEF y, PageStep, PermsSet

\* What with_table() and create_page_table() do: all pages stay as they are.
TableMade(x, r, e, t) ==
  /\ r.end = "ok" => /\ Base(r.w) /\ AllUntouched(x, r.w) /\ OtherEnvs(x, r.w, e)
                     /\ r.w.data = x.data /\ r.w.disk = x.disk
                     /\ t \in r.w.env[e].tables /\ x.env[e].tables \subseteq r.w.env[e].tables
                     /\ r.w.env[e] = [x.env[e] EXCEPT !.tables = r.w.env[e].tables]
  /\ r.end # "ok" => r = Ends(x, "no memory")

\* create_page_table() takes a frame for the table, or stops the kernel.
LEMMA CreateTable ==
  ASSUME NEW x, Base(x), NEW e \in Envs, NEW t \in Tables, NeedsTable(x, e, t)
  PROVE  TableMade(x, create_page_table(x, e, t), e, t)
<1> DEFINE k == KTable(e, t)
           m == allocate_and_map(x.mm, k, {"P", "W"})
           r == [x.env[e] EXCEPT !.tables = x.env[e].tables \union {t}]
           z == [x EXCEPT !.mm = m]
           y == [z EXCEPT !.env[e] = r]
<1>1. /\ x \in Worlds /\ FramesApart(x.mm) /\ x.mm \in Memories /\ k \in Owners /\ k \in AllPages
      /\ x.mm.free \in Seq(Frames)
  BY WorldTypes, PagesApart, MemoryTypes DEF Base
<1>2. CASE Len(x.mm.free) = 0
  BY <1>2 DEF create_page_table, TableMade, Ends
<1>3. CASE Len(x.mm.free) # 0
  <2>1. x.mm.free # <<>>
    BY <1>1, <1>3
  <2>2. "P" \notin x.mm.pt[k].perm
    BY DEF Base, Sound, TablesMapped, NeedsTable
  <2>3. {"P", "W"} \in SUBSET Perms
    BY DEF Perms
  <2>4. /\ m \in Memories /\ FramesApart(m)
        /\ EntryIs(x.mm, m, k, Mapped(x.mm, FreeFrame(x.mm), k, {"P", "W"}))
    <3>1. Allocated(x.mm, m, k, {"P", "W"}) /\ FramesApart(m)
      BY <1>1, <2>1, <2>2, <2>3, AllocateAndMap, AllocatedApart
    <3> HIDE DEF m, k
    <3>2. QED
      BY <3>1 DEF Allocated
  <2>5. r \in EnvRecords /\ r.tables = x.env[e].tables \union {t} /\ r.disk = x.env[e].disk
        /\ r.marked = x.env[e].marked
    BY <1>1, EnvTypes DEF EnvRecords
  <2>6. create_page_table(x, e, t) = Done(y)
    BY <1>1, <1>3, SetMemory, <2>4 DEF create_page_table
  <2> HIDE DEF m, r
  <2>7. z \in Worlds /\ z.mm = m /\ z.data = x.data /\ z.disk = x.disk /\ z.env = x.env
    BY <1>1, <2>4, SetMemory
  <2> HIDE DEF z
  <2>8. /\ y \in Worlds /\ y.mm = m /\ y.data = x.data /\ y.disk = x.disk /\ y.env[e] = r
        /\ \A c \in Envs : c # e => y.env[c] = x.env[c]
    BY <2>5, <2>7, SetEnv
  <2> HIDE DEF y
  <2>9. "P" \in m.pt[k].perm /\ \A q \in AllPages : q # k => m.pt[q] = x.mm.pt[q]
    BY <2>4 DEF EntryIs, Mapped
  <2> HIDE DEF k
  <2>10. AllUntouched(x, y)
    <3>1. \A c \in Envs, u \in Pages : y.mm.pt[<<c, u>>] = x.mm.pt[<<c, u>>]
      BY <2>8, <2>9, PagesApart DEF k
    <3>2. \A c \in Envs : y.env[c].disk = x.env[c].disk
      BY <2>5, <2>8
    <3>3. QED
      BY <2>8, <3>1, <3>2 DEF AllUntouched, Untouched
  <2>11. \A c \in Envs : Sound(y, c)
    <3>1. SUFFICES ASSUME NEW c \in Envs
                   PROVE  Sound(y, c)
      OBVIOUS
    <3>2. Sound(x, c)
      BY DEF Base
    <3>3. MarksInside(y, c) /\ y.env[c].disk[Hole] = 0
      BY <2>5, <2>8, <3>2 DEF Sound, MarksInside
    <3>4. ASSUME NEW s \in Tables
          PROVE  s \in y.env[c].tables <=> "P" \in y.mm.pt[KTable(c, s)].perm
      <4>1. CASE c = e /\ s = t
        BY <2>5, <2>8, <2>9, <4>1 DEF k
      <4>2. CASE ~(c = e /\ s = t)
        <5>1. y.mm.pt[KTable(c, s)] = x.mm.pt[KTable(c, s)]
          BY <2>8, <2>9, <4>2, PagesApart DEF k
        <5>2. s \in y.env[c].tables <=> s \in x.env[c].tables
          BY <2>5, <2>8, <4>2
        <5>3. QED
          BY <3>2, <5>1, <5>2 DEF Sound, TablesMapped
      <4>3. QED
        BY <4>1, <4>2
    <3>5. QED
      BY <3>3, <3>4 DEF Sound, TablesMapped
  <2>12. DiskApart(y)
    <3>1. \A c \in Envs : y.env[c].disk = x.env[c].disk
      BY <2>5, <2>8
    <3>2. QED
      BY <2>8, <3>1, SameDisk DEF Base
  <2>13. Base(y)
    BY <2>4, <2>8, <2>11, <2>12 DEF Base
  <2>14. y.env[e] = [x.env[e] EXCEPT !.tables = y.env[e].tables]
    BY <2>5, <2>8 DEF r
  <2>15. QED
    BY <2>5, <2>6, <2>8, <2>10, <2>13, <2>14 DEF TableMade, Done, OtherEnvs
<1>4. QED
  BY <1>2, <1>3

\* with_table() does the same, if there is no table yet.
LEMMA WithTable ==
  ASSUME NEW x, Base(x), NEW e \in Envs, NEW t \in Tables
  PROVE  TableMade(x, with_table(x, e, t), e, t)
<1>1. CASE NeedsTable(x, e, t)
  BY <1>1, CreateTable DEF with_table
<1>2. CASE ~NeedsTable(x, e, t)
  <2>1. with_table(x, e, t) = Done(x) /\ t \in x.env[e].tables
    BY <1>2 DEF with_table, NeedsTable
  <2>2. x.env[e] = [x.env[e] EXCEPT !.tables = x.env[e].tables]
    BY EnvTypes DEF Base, EnvRecords
  <2>3. AllUntouched(x, x)
    BY DEF AllUntouched, Untouched
  <2>4. QED
    BY <2>1, <2>2, <2>3 DEF TableMade, Done, OtherEnvs
<1>3. QED
  BY <1>1, <1>2

-----------------------------------------------------------------------------
(* The page file *)

\* The record of e but for its page tables and its places in the page file.
RecordKept(x, y, e) ==
  /\ y.env[e].status = x.env[e].status /\ y.env[e].ws = x.env[e].ws /\ y.env[e].hand = x.env[e].hand
  /\ y.env[e].brk = x.env[e].brk /\ y.env[e].marked = x.env[e].marked

\* A page with a frame of the page file that no other page has.
Filed(x, y, e, va) ==
  /\ Base(y) /\ y.mm = x.mm /\ y.data = x.data
  /\ OtherEnvs(x, y, e) /\ OnlyPage(x, y, e, va)
  /\ RecordKept(x, y, e) /\ y.env[e].tables = x.env[e].tables
  /\ y.env[e].disk[va] \in Blocks

\* The user of a frame of the page file is its only one.
LEMMA OneUser ==
  ASSUME NEW x, Base(x), NEW e \in Envs, NEW va \in Pages, x.env[e].disk[va] # 0
  PROVE  \A c \in Envs, u \in Pages : c # e \/ u # va => x.env[c].disk[u] # x.env[e].disk[va]
BY DEF Base, DiskApart

\* The page gets the first free frame of the page file.
LEMMA AllocateDiskFrame ==
  ASSUME NEW x, Base(x), NEW e \in Envs, NEW va \in Pages, va # Hole,
         x.env[e].disk[va] = 0, x.disk.free # <<>>
  PROVE  /\ Filed(x, allocate_disk_frame(x, e, va), e, va)
         /\ allocate_disk_frame(x, e, va).disk.data = x.disk.data
<1> DEFINE k == Head(x.disk.free)
           d == [x.disk EXCEPT !.free = Tail(x.disk.free)]
           r == [x.env[e] EXCEPT !.disk[va] = k]
           z == [x EXCEPT !.disk = d]
           y == [z EXCEPT !.env[e] = r]
<1>1. /\ x \in Worlds /\ x.disk \in Disks /\ x.disk.free \in Seq(Blocks) /\ NoDup(x.disk.free)
      /\ x.env[e] \in EnvRecords /\ x.env[e].disk \in [Pages -> Blocks \union {0}]
      /\ x.disk.data \in [Blocks -> Int]
  BY WorldTypes, EnvTypes DEF Base, DiskApart
<1>2. /\ Tail(x.disk.free) \in Seq(Blocks) /\ NoDup(Tail(x.disk.free)) /\ k \in Blocks
      /\ k \in Elems(x.disk.free) /\ Elems(Tail(x.disk.free)) = Elems(x.disk.free) \ {k}
  BY <1>1, PopList
<1>3. d \in Disks /\ d.free = Tail(x.disk.free) /\ d.data = x.disk.data
  BY <1>1, <1>2 DEF Disks
<1>4. /\ r \in EnvRecords /\ r.disk = [x.env[e].disk EXCEPT ![va] = k]
      /\ r.status = x.env[e].status /\ r.ws = x.env[e].ws /\ r.hand = x.env[e].hand
      /\ r.brk = x.env[e].brk /\ r.marked = x.env[e].marked /\ r.tables = x.env[e].tables
  BY <1>1, <1>2 DEF EnvRecords
<1>5. allocate_disk_frame(x, e, va) = y
  BY <1>1 DEF allocate_disk_frame, Worlds
<1> HIDE DEF d, r
<1>6. z \in Worlds /\ z.disk = d /\ z.data = x.data /\ z.mm = x.mm /\ z.env = x.env
  BY <1>1, <1>3, SetDisk
<1> HIDE DEF z
<1>7. /\ y \in Worlds /\ y.mm = x.mm /\ y.data = x.data /\ y.disk = d /\ y.env[e] = r
      /\ \A c \in Envs : c # e => y.env[c] = x.env[c]
  BY <1>4, <1>6, SetEnv
<1> HIDE DEF y
<1>8. k # 0 /\ \A c \in Envs, u \in Pages : x.env[c].disk[u] # k
  BY <1>2 DEF Base, DiskApart, Blocks
<1>9. y.env[e].disk[va] = k /\ \A u \in Pages : u # va => y.env[e].disk[u] = x.env[e].disk[u]
  BY <1>1, <1>4, <1>7
<1> HIDE DEF k
<1>10. \A c \in Envs, u \in Pages : c # e \/ u # va => y.env[c].disk[u] = x.env[c].disk[u]
  BY <1>7, <1>9
<1>11. DiskApart(y)
  <2>1. NoDup(y.disk.free)
    BY <1>2, <1>3, <1>7
  <2>2. ASSUME NEW b \in Blocks
        PROVE  b \in Elems(y.disk.free) <=> ~ \E c \in Envs, u \in Pages : y.env[c].disk[u] = b
    <3>1. b \in Elems(y.disk.free) <=> b \in Elems(x.disk.free) /\ b # k
      BY <1>2, <1>3, <1>7
    <3>2. b \in Elems(x.disk.free) <=> ~ \E c \in Envs, u \in Pages : x.env[c].disk[u] = b
      BY DEF Base, DiskApart
    <3>3. CASE b = k
      BY <1>9, <3>1, <3>3
    <3>4. CASE b # k
      <4>1. ASSUME NEW c \in Envs, NEW u \in Pages
            PROVE  y.env[c].disk[u] = b <=> x.env[c].disk[u] = b
        <5>1. CASE c # e \/ u # va
          BY <1>10, <5>1
        <5>2. CASE c = e /\ u = va
          BY <1>9, <3>4, <5>2 DEF Blocks
        <5>3. QED
          BY <5>1, <5>2
      <4>2. QED
        BY <3>1, <3>2, <3>4, <4>1
    <3>5. QED
      BY <3>3, <3>4
  <2>3. ASSUME NEW c \in Envs, NEW g \in Envs, NEW u \in Pages, NEW s \in Pages,
               y.env[c].disk[u] = y.env[g].disk[s], y.env[c].disk[u] # 0
        PROVE  c = g /\ u = s
    <3>1. CASE c = e /\ u = va
      BY <1>8, <1>9, <1>10, <2>3, <3>1
    <3>2. CASE g = e /\ s = va
      BY <1>8, <1>9, <1>10, <2>3, <3>2
    <3>3. CASE (c # e \/ u # va) /\ (g # e \/ s # va)
      BY <1>10, <2>3, <3>3 DEF Base, DiskApart
    <3>4. QED
      BY <3>1, <3>2, <3>3
  <2>4. QED
    BY <2>1, <2>2, <2>3 DEF DiskApart
<1>12. Base(y)
  <2>1. ASSUME NEW c \in Envs
        PROVE  y.env[c].tables = x.env[c].tables /\ y.env[c].disk[Hole] = 0 /\ MarksInside(y, c)
    <3>1. y.env[c].tables = x.env[c].tables /\ y.env[c].marked = x.env[c].marked
      BY <1>4, <1>7
    <3>2. x.env[c].disk[Hole] = 0 /\ MarksInside(x, c)
      BY DEF Base, Sound
    <3>3. y.env[c].disk[Hole] = 0
      BY <1>10, <3>2, PartsOfPages
    <3>4. QED
      BY <3>1, <3>2, <3>3 DEF MarksInside
  <2>2. QED
    BY <1>7, <1>11, <2>1, BaseKept DEF Base
<1>13. OnlyPage(x, y, e, va)
  BY <1>3, <1>7, <1>10 DEF OnlyPage, Untouched
<1>14. QED
  BY <1>2, <1>3, <1>4, <1>5, <1>7, <1>9, <1>12, <1>13 DEF Filed, RecordKept, OtherEnvs

\* ... or keeps the one that it has.
LEMMA WithDiskFrame ==
  ASSUME NEW x, Base(x), NEW e \in Envs, NEW va \in Pages, va # Hole, ~DiskFull(x, e, va)
  PROVE  /\ Filed(x, with_disk_frame(x, e, va), e, va)
         /\ with_disk_frame(x, e, va).disk.data = x.disk.data
<1>1. CASE x.env[e].disk[va] = 0
  BY <1>1, AllocateDiskFrame DEF with_disk_frame, DiskFull
<1>2. CASE x.env[e].disk[va] # 0
  <2>1. x.env[e].disk[va] \in Blocks
    BY <1>2, EnvTypes DEF Base
  <2>2. QED
    BY <1>2, <2>1 DEF with_disk_frame, Filed, RecordKept, OtherEnvs, OnlyPage, Untouched
<1>3. QED
  BY <1>1, <1>2

\* A page written to its frame of the page file.
LEMMA WriteDiskPage ==
  ASSUME NEW x, Base(x), NEW e \in Envs, NEW va \in Pages, NEW v \in Int, x.env[e].disk[va] # 0
  PROVE  /\ Filed(x, write_disk_page(x, x.env[e].disk[va], v), e, va)
         /\ write_disk_page(x, x.env[e].disk[va], v).env = x.env
         /\ write_disk_page(x, x.env[e].disk[va], v).disk.data[x.env[e].disk[va]] = v
<1> DEFINE k == x.env[e].disk[va]
           d == [x.disk EXCEPT !.data[k] = v]
           y == [x EXCEPT !.disk = d]
<1>1. x \in Worlds /\ x.disk \in Disks /\ k \in Blocks
  BY WorldTypes, EnvTypes DEF Base
<1>2. \A c \in Envs, u \in Pages : c # e \/ u # va => x.env[c].disk[u] # k
  BY OneUser
<1>3. y = write_disk_page(x, k, v)
  BY DEF write_disk_page
<1> HIDE DEF k
<1>4. /\ d \in Disks /\ d.free = x.disk.free /\ d.data[k] = v
      /\ \A b \in Blocks : b # k => d.data[b] = x.disk.data[b]
  BY <1>1 DEF Disks
<1> HIDE DEF d
<1>5. y \in Worlds /\ y.disk = d /\ y.data = x.data /\ y.mm = x.mm /\ y.env = x.env
  BY <1>1, <1>4, SetDisk
<1> HIDE DEF y
<1>6. OnlyPage(x, y, e, va)
  <2>1. ASSUME NEW c \in Envs, NEW u \in Pages, c # e \/ u # va
        PROVE  Untouched(x, y, c, u)
    <3>1. x.env[c].disk[u] # 0 => x.env[c].disk[u] \in Blocks
      BY <1>1, EnvTypes
    <3>2. QED
      BY <1>2, <1>4, <1>5, <2>1, <3>1 DEF Untouched
  <2>2. QED
    BY <2>1 DEF OnlyPage
<1>7. DiskApart(y)
  BY <1>4, <1>5, SameDisk DEF Base
<1>8. Base(y)
  <2>1. \A c \in Envs : y.env[c].tables = x.env[c].tables /\ y.env[c].disk[Hole] = 0 /\ MarksInside(y, c)
    BY <1>5 DEF Base, Sound, MarksInside
  <2>2. QED
    BY <1>5, <1>7, <2>1, BaseKept DEF Base
<1>9. Filed(x, y, e, va)
  BY <1>1, <1>5, <1>6, <1>8 DEF Filed, RecordKept, OtherEnvs, k
<1>10. QED
  BY <1>3, <1>4, <1>5, <1>9 DEF k

\* Two steps that touch only page va of e.
LEMMA OnlyPageTwice ==
  ASSUME NEW x, NEW y, NEW z, NEW e, NEW va, OnlyPage(x, y, e, va), OnlyPage(y, z, e, va)
  PROVE  OnlyPage(x, z, e, va)
BY UntouchedTwice DEF OnlyPage

\* Giving a page a place and writing it is one such step.
LEMMA FiledTwice ==
  ASSUME NEW x, NEW y, NEW z, NEW e, NEW va, Filed(x, y, e, va), Filed(y, z, e, va)
  PROVE  Filed(x, z, e, va)
<1>1. OnlyPage(x, z, e, va)
  BY OnlyPageTwice DEF Filed
<1>2. QED
  BY <1>1 DEF Filed, OtherEnvs, RecordKept

\* pf_add_env_page() of any page but the hole.
Added(x, r, e, va, v) ==
  /\ r.end = "ok" => Filed(x, r.w, e, va) /\ r.w.disk.data[r.w.env[e].disk[va]] = v
  /\ r.end # "ok" => r = Ends(x, "page file full")

\* It gives the page a place with contents v, or ends with a full page file.
LEMMA AddEnvPage ==
  ASSUME NEW x, Base(x), NEW e \in Envs, NEW va \in Pages, va # Hole, NEW v \in Int
  PROVE  Added(x, pf_add_env_page(x, e, va, v), e, va, v)
<1>1. CASE DiskFull(x, e, va)
  BY <1>1 DEF pf_add_env_page, Ends, Added
<1>2. CASE ~DiskFull(x, e, va)
  <2> DEFINE y == with_disk_frame(x, e, va)
             z == write_disk_page(y, y.env[e].disk[va], v)
  <2>1. Filed(x, y, e, va)
    BY <1>2, WithDiskFrame
  <2>2. pf_add_env_page(x, e, va, v) = Done(z)
    BY <1>2 DEF pf_add_env_page
  <2> HIDE DEF y
  <2>3. Base(y) /\ y.env[e].disk[va] # 0
    BY <2>1 DEF Filed, Blocks
  <2>4. Filed(y, z, e, va) /\ z.env = y.env /\ z.disk.data[y.env[e].disk[va]] = v
    BY <2>3, WriteDiskPage
  <2> HIDE DEF z
  <2>5. Filed(x, z, e, va)
    BY <2>1, <2>4, FiledTwice
  <2>6. QED
    BY <2>2, <2>4, <2>5 DEF Done, Added
<1>3. QED
  BY <1>1, <1>2

\* The frame of a page loses base_va_page.
LEMMA ForgetBase ==
  ASSUME NEW x, Base(x), NEW f \in Frames
  PROVE  LET y == [x EXCEPT !.mm.base[f] = NoPage]
         IN  /\ Base(y) /\ AllUntouched(x, y) /\ y.env = x.env /\ y.data = x.data /\ y.disk = x.disk
             /\ y.mm.pt = x.mm.pt /\ y.mm.free = x.mm.free
<1> DEFINE m == [x.mm EXCEPT !.base[f] = NoPage]
           y == [x EXCEPT !.mm = m]
<1>1. x \in Worlds /\ x.mm \in Memories
  BY WorldTypes DEF Base
<1>2. IsMemory(x.mm) /\ DOMAIN x.mm.ref = Frames /\ DOMAIN x.mm.pt = AllPages
  BY <1>1, MemoriesAre
<1>3. IsMemory(m) /\ m.free = x.mm.free /\ m.ref = x.mm.ref /\ m.pt = x.mm.pt
  BY <1>2, SetBase
<1>4. y = [x EXCEPT !.mm.base[f] = NoPage]
  OBVIOUS
<1> HIDE DEF m
<1>5. m \in Memories
  BY <1>2, <1>3, MemoriesAre
<1>6. y \in Worlds /\ y.mm = m /\ y.data = x.data /\ y.disk = x.disk /\ y.env = x.env
  BY <1>1, <1>5, SetMemory
<1> HIDE DEF y
<1>7. FramesApart(y.mm) /\ DiskApart(y)
  BY <1>3, <1>6, SameDisk DEF Base, FramesApart
<1>8. Base(y)
  <2>1. \A c \in Envs : y.env[c].tables = x.env[c].tables /\ y.env[c].disk[Hole] = 0 /\ MarksInside(y, c)
    BY <1>6 DEF Base, Sound, MarksInside
  <2>2. QED
    BY <1>3, <1>6, <1>7, <2>1, BaseKept
<1>9. AllUntouched(x, y)
  BY <1>3, <1>6 DEF AllUntouched, Untouched
<1>10. QED
  BY <1>3, <1>4, <1>6, <1>8, <1>9

\* A page whose frame is written to the page file.
Saved(x, y, e, va) ==
  /\ Base(y) /\ OtherEnvs(x, y, e) /\ OnlyPage(x, y, e, va) /\ RecordKept(x, y, e)
  /\ y.data = x.data /\ y.mm.pt[<<e, va>>] = x.mm.pt[<<e, va>>]
  /\ y.env[e].disk[va] # 0 /\ y.disk.data[y.env[e].disk[va]] = x.data[FrameOf(x, e, va)]

\* pf_update_env_page() of a page that has a frame.
LEMMA UpdateEnvPage ==
  ASSUME NEW x, Base(x), NEW e \in Envs, NEW va \in Pages, va # Hole, FrameOf(x, e, va) # NoFrame
  PROVE  /\ pf_update_env_page(x, e, va).end = "ok" => Saved(x, pf_update_env_page(x, e, va).w, e, va)
         /\ pf_update_env_page(x, e, va).end # "ok" => Base(pf_update_env_page(x, e, va).w)
<1> DEFINE y == with_disk_frame(x, e, va)
           r == with_table(y, e, 4)
           u == write_disk_page(r.w, r.w.env[e].disk[va], r.w.data[FrameOf(r.w, e, va)])
           z == [u EXCEPT !.mm.base[FrameOf(r.w, e, va)] = NoPage]
<1>1. CASE x.env[e].disk[va] = 0 /\ va \notin UHeap \union Stack
  BY <1>1 DEF pf_update_env_page, Ends
<1>2. CASE ~(x.env[e].disk[va] = 0 /\ va \notin UHeap \union Stack) /\ DiskFull(x, e, va)
  BY <1>2 DEF pf_update_env_page, Ends
<1>3. CASE ~(x.env[e].disk[va] = 0 /\ va \notin UHeap \union Stack) /\ ~DiskFull(x, e, va)
  <2>1. Filed(x, y, e, va)
    BY <1>3, WithDiskFrame
  <2>2. pf_update_env_page(x, e, va) = copy_out(r, e, va)
    BY <1>3 DEF pf_update_env_page
  <2> HIDE DEF y
  <2>3. TableMade(y, r, e, 4)
    BY <2>1, WithTable DEF Filed, Tables
  <2> HIDE DEF r
  <2>4. CASE r.end # "ok"
    <3>1. copy_out(r, e, va) = r
      BY <2>4 DEF copy_out
    <3>3. r = Ends(y, "no memory")
      BY <2>3, <2>4 DEF TableMade
    <3>4. r.w = y
      BY <3>3 DEF Ends
    <3>2. QED
      BY <2>1, <2>2, <2>4, <3>1, <3>4 DEF Filed
  <2>5. CASE r.end = "ok"
    <3>1. copy_out(r, e, va) = Done(z)
      BY <2>5 DEF copy_out
    <3>2. /\ Base(r.w) /\ AllUntouched(y, r.w) /\ OtherEnvs(y, r.w, e)
          /\ r.w.data = y.data /\ r.w.disk = y.disk /\ RecordKept(y, r.w, e)
      <4>1. r.w.env[e] = [y.env[e] EXCEPT !.tables = r.w.env[e].tables]
        BY <2>3, <2>5 DEF TableMade
      <4>2. y.env[e] \in EnvRecords
        BY <2>1, EnvTypes DEF Filed, Base
      <4>3. RecordKept(y, r.w, e)
        BY <4>1, <4>2 DEF RecordKept, EnvRecords
      <4>4. QED
        BY <2>3, <2>5, <4>3 DEF TableMade
    <3> DEFINE f == FrameOf(r.w, e, va)
    <3>3. /\ f = FrameOf(x, e, va) /\ r.w.mm.pt[<<e, va>>] = x.mm.pt[<<e, va>>]
          /\ r.w.env[e].disk[va] = y.env[e].disk[va] /\ y.env[e].disk[va] \in Blocks
      BY <2>1, <3>2 DEF AllUntouched, Untouched, FrameOf, get_frame_info, Filed
    <3>4. f \in Frames /\ r.w.data[f] \in Int /\ r.w.data[f] = x.data[f]
      <4>1. r.w.data \in [Frames -> Int] /\ r.w.mm \in Memories
        BY <3>2, WorldTypes DEF Base
      <4>2. f \in Frames \union {NoFrame}
        BY <4>1, PagesApart, MemoryTypes DEF FrameOf, get_frame_info
      <4>3. QED
        BY <2>1, <3>2, <3>3, <4>1, <4>2 DEF Filed
    <3>5. /\ Filed(r.w, u, e, va) /\ u.env = r.w.env
          /\ u.disk.data[r.w.env[e].disk[va]] = r.w.data[f]
      <4>1. Base(r.w) /\ r.w.env[e].disk[va] # 0
        BY <3>2, <3>3 DEF Blocks
      <4> DEFINE m == r.w
      <4>2. Base(m) /\ m.env[e].disk[va] # 0
        BY <4>1
      <4> HIDE DEF m
      <4>3. ASSUME NEW v \in Int
            PROVE  LET t == write_disk_page(m, m.env[e].disk[va], v)
                   IN  Filed(m, t, e, va) /\ t.env = m.env /\ t.disk.data[m.env[e].disk[va]] = v
        BY <4>2, WriteDiskPage
      <4> DEFINE v == m.data[FrameOf(m, e, va)]
      <4>4. v \in Int
        BY <3>4 DEF m
      <4> HIDE DEF v
      <4>5. LET t == write_disk_page(m, m.env[e].disk[va], v)
            IN  Filed(m, t, e, va) /\ t.env = m.env /\ t.disk.data[m.env[e].disk[va]] = v
        BY <4>3, <4>4
      <4>6. QED
        BY <4>5 DEF m, v
    <3> HIDE DEF f, u
    <3>6. /\ Base(z) /\ AllUntouched(u, z) /\ z.env = u.env /\ z.data = u.data /\ z.disk = u.disk
          /\ z.mm.pt = u.mm.pt
      BY <3>4, <3>5, ForgetBase DEF Filed, f
    <3> HIDE DEF z
    <3>7. OnlyPage(x, z, e, va)
      <4>1. OnlyPage(x, y, e, va) /\ OnlyPage(r.w, u, e, va)
        BY <2>1, <3>5 DEF Filed
      <4>2. OnlyPage(y, r.w, e, va) /\ OnlyPage(u, z, e, va)
        BY <3>2, <3>6 DEF AllUntouched, OnlyPage
      <4>3. QED
        BY <4>1, <4>2, OnlyPageTwice
    <3>8. OtherEnvs(x, z, e) /\ RecordKept(x, z, e)
      <4>1. OtherEnvs(x, y, e) /\ OtherEnvs(y, r.w, e) /\ z.env = r.w.env
        BY <2>1, <3>2, <3>5, <3>6 DEF Filed
      <4>2. RecordKept(x, y, e) /\ RecordKept(y, r.w, e)
        BY <2>1, <3>2 DEF Filed
      <4>3. OtherEnvs(x, z, e)
        BY <4>1 DEF OtherEnvs
      <4>4. RecordKept(x, z, e)
        BY <4>1, <4>2 DEF RecordKept
      <4>5. QED
        BY <4>3, <4>4
    <3>9. z.data = x.data /\ z.mm.pt[<<e, va>>] = x.mm.pt[<<e, va>>]
      BY <2>1, <3>2, <3>3, <3>5, <3>6 DEF Filed
    <3>10. z.env[e].disk[va] # 0 /\ z.disk.data[z.env[e].disk[va]] = x.data[FrameOf(x, e, va)]
      BY <3>3, <3>4, <3>5, <3>6 DEF Blocks
    <3>11. Saved(x, z, e, va)
      BY <3>6, <3>7, <3>8, <3>9, <3>10 DEF Saved
    <3>12. QED
      BY <2>2, <3>1, <3>11 DEF Done
  <2>6. QED
    BY <2>4, <2>5
<1>4. QED
  BY <1>1, <1>2, <1>3

-----------------------------------------------------------------------------
(* Working sets *)

\* A list of elements that names each page of R once, and no other.
Lists(s, R) ==
  /\ \A i \in DOMAIN s : s[i].va \in R
  /\ \A va \in R : \E i \in DOMAIN s : s[i].va = va
  /\ \A i, j \in DOMAIN s : s[i].va = s[j].va => i = j

\* The pages of e that are present.
Residents(x, e) == {va \in Pages : Resident(x, e, va)}

Handy(x, e) == /\ Len(x.env[e].ws) <= page_WS_max_size
               /\ Full(x, e) => x.env[e].hand \in 1 .. page_WS_max_size

\* Listed, in terms of the list and of the hand.
LEMMA ListedMeans ==
  ASSUME NEW x \in Worlds, NEW e \in Envs
  PROVE  Listed(x, e) <=> Lists(x.env[e].ws, Residents(x, e)) /\ Handy(x, e)
<1>1. \A i \in DOMAIN x.env[e].ws : x.env[e].ws[i].va \in Pages
  BY WsPagesType
<1>2. QED
  BY <1>1 DEF Listed, Lists, Residents, Handy

\* A page is added to a list, ...
LEMMA ListsAppend ==
  ASSUME NEW s \in Seq(Elements), NEW R, Lists(s, R), NEW v \in Elements, v.va \notin R
  PROVE  Lists(Append(s, v), R \union {v.va})
<1> DEFINE r == Append(s, v)
<1>1. /\ Len(s) \in Nat /\ DOMAIN s = 1 .. Len(s) /\ DOMAIN r = 1 .. Len(s) + 1
      /\ r[Len(s) + 1] = v /\ \A i \in 1 .. Len(s) : r[i] = s[i]
  OBVIOUS
<1> HIDE DEF r
<1>2. \A i \in DOMAIN r : i = Len(s) + 1 \/ i \in DOMAIN s
  BY <1>1
<1>3. \A i \in DOMAIN s : i \in DOMAIN r /\ r[i] = s[i] /\ r[i].va \in R /\ i # Len(s) + 1
  BY <1>1 DEF Lists
<1>4. \A i \in DOMAIN r : r[i].va \in R \union {v.va}
  BY <1>1, <1>2, <1>3
<1>5. Len(s) + 1 \in DOMAIN r
  BY <1>1
<1>6. ASSUME NEW va \in R \union {v.va}
      PROVE  \E i \in DOMAIN r : r[i].va = va
  <2>1. CASE va = v.va
    BY <1>1, <1>5, <2>1
  <2>2. CASE va \in R
    BY <1>3, <2>2 DEF Lists
  <2>3. QED
    BY <2>1, <2>2
<1>7. ASSUME NEW i \in DOMAIN r, NEW j \in DOMAIN r, r[i].va = r[j].va
      PROVE  i = j
  BY <1>1, <1>2, <1>3, <1>7 DEF Lists
<1>8. QED
  BY <1>4, <1>6, <1>7 DEF Lists, r

\* ... takes the place of another, ...
LEMMA ListsReplace ==
  ASSUME NEW s \in Seq(Elements), NEW R, Lists(s, R), NEW h \in DOMAIN s,
         NEW v \in Elements, v.va \notin R \ {s[h].va}
  PROVE  Lists([s EXCEPT ![h] = v], (R \ {s[h].va}) \union {v.va})
<1> DEFINE r == [s EXCEPT ![h] = v]
<1>1. DOMAIN r = DOMAIN s /\ r[h] = v /\ \A i \in DOMAIN s : i # h => r[i] = s[i]
  OBVIOUS
<1> HIDE DEF r
<1>2. \A i \in DOMAIN s : i # h => s[i].va \in R \ {s[h].va}
  BY DEF Lists
<1>3. ASSUME NEW va \in (R \ {s[h].va}) \union {v.va}
      PROVE  \E i \in DOMAIN r : r[i].va = va
  <2>1. CASE va = v.va
    BY <1>1, <2>1
  <2>2. CASE va \in R \ {s[h].va}
    <3>1. PICK i \in DOMAIN s : s[i].va = va
      BY <2>2 DEF Lists
    <3>2. i # h
      BY <2>2, <3>1
    <3>3. QED
      BY <1>1, <3>1, <3>2
  <2>3. QED
    BY <2>1, <2>2
<1>4. \A i \in DOMAIN r : r[i].va \in (R \ {s[h].va}) \union {v.va}
  BY <1>1, <1>2
<1>5. ASSUME NEW i \in DOMAIN r, NEW j \in DOMAIN r, r[i].va = r[j].va
      PROVE  i = j
  <2>1. CASE i = h
    BY <1>1, <1>2, <1>5, <2>1
  <2>2. CASE j = h
    BY <1>1, <1>2, <1>5, <2>2
  <2>3. CASE i # h /\ j # h
    BY <1>1, <1>5, <2>3 DEF Lists
  <2>4. QED
    BY <2>1, <2>2, <2>3
<1>6. QED
  BY <1>3, <1>4, <1>5 DEF Lists, r

\* ... or is removed.
LEMMA ListsRemove ==
  ASSUME NEW s \in Seq(Elements), NEW R, Lists(s, R), NEW h \in DOMAIN s
  PROVE  Lists(RemoveAt(s, h), R \ {s[h].va})
<1> DEFINE r == RemoveAt(s, h)
           at(i) == IF i < h THEN i ELSE i + 1
<1>1. Len(s) \in Nat /\ DOMAIN s = 1 .. Len(s) /\ h \in 1 .. Len(s)
  OBVIOUS
<1>2. /\ r \in Seq(Elements) /\ Len(r) = Len(s) - 1
      /\ \A i \in 1 .. Len(s) - 1 : r[i] = s[at(i)]
  BY RemoveElement
<1> HIDE DEF r
<1>3. DOMAIN r = 1 .. Len(s) - 1
  BY <1>2
<1>4. \A i \in DOMAIN r : at(i) \in DOMAIN s /\ at(i) # h /\ r[i] = s[at(i)]
  BY <1>1, <1>2, <1>3
<1>5. \A i, j \in DOMAIN r : at(i) = at(j) => i = j
  BY <1>1, <1>3
<1>6. \A i \in DOMAIN s : i # h => \E j \in DOMAIN r : at(j) = i
  <2>1. SUFFICES ASSUME NEW i \in DOMAIN s, i # h
                 PROVE  \E j \in DOMAIN r : at(j) = i
    OBVIOUS
  <2>2. CASE i < h
    <3>1. i \in DOMAIN r /\ at(i) = i
      BY <1>1, <1>3, <2>2
    <3>2. QED
      BY <3>1
  <2>3. CASE i > h
    <3>1. i - 1 \in DOMAIN r /\ at(i - 1) = i
      BY <1>1, <1>3, <2>3
    <3>2. QED
      BY <3>1
  <2>4. QED
    BY <1>1, <2>1, <2>2, <2>3
<1> HIDE DEF at
<1>7. \A i \in DOMAIN r : r[i].va \in R \ {s[h].va}
  BY <1>4 DEF Lists
<1>8. ASSUME NEW va \in R \ {s[h].va}
      PROVE  \E i \in DOMAIN r : r[i].va = va
  <2>1. PICK i \in DOMAIN s : s[i].va = va
    BY DEF Lists
  <2>2. PICK j \in DOMAIN r : at(j) = i
    BY <1>6, <2>1
  <2>3. QED
    BY <1>4, <2>1, <2>2
<1>9. \A i, j \in DOMAIN r : r[i].va = r[j].va => i = j
  BY <1>4, <1>5 DEF Lists
<1>10. QED
  BY <1>7, <1>8, <1>9 DEF Lists, r

\* An assignment to the record of e that keeps its tables and its page file.
LEMMA SetRecord ==
  ASSUME NEW x, Base(x), NEW e \in Envs, NEW r \in EnvRecords,
         r.disk = x.env[e].disk, r.tables = x.env[e].tables,
         \A va \in Area : \A i \in 1 .. r.marked[va] : va + i - 1 \in Area
  PROVE  /\ Base([x EXCEPT !.env[e] = r]) /\ AllUntouched(x, [x EXCEPT !.env[e] = r])
         /\ OtherEnvs(x, [x EXCEPT !.env[e] = r], e) /\ [x EXCEPT !.env[e] = r].env[e] = r
         /\ [x EXCEPT !.env[e] = r].mm = x.mm /\ [x EXCEPT !.env[e] = r].data = x.data
         /\ [x EXCEPT !.env[e] = r].disk = x.disk
<1> DEFINE y == [x EXCEPT !.env[e] = r]
<1>1. x \in Worlds
  BY DEF Base
<1>2. /\ y \in Worlds /\ y.mm = x.mm /\ y.data = x.data /\ y.disk = x.disk
      /\ y.env[e] = r /\ \A c \in Envs : c # e => y.env[c] = x.env[c]
  BY <1>1, SetEnv
<1> HIDE DEF y
<1>3. \A c \in Envs : y.env[c].disk = x.env[c].disk /\ y.env[c].tables = x.env[c].tables
  BY <1>2
<1>4. DiskApart(y)
  BY <1>2, <1>3, SameDisk DEF Base
<1>5. \A c \in Envs : y.env[c].disk[Hole] = 0 /\ MarksInside(y, c)
  <2>1. SUFFICES ASSUME NEW c \in Envs
                 PROVE  y.env[c].disk[Hole] = 0 /\ MarksInside(y, c)
    OBVIOUS
  <2>2. x.env[c].disk[Hole] = 0 /\ MarksInside(x, c)
    BY DEF Base, Sound
  <2>3. CASE c = e
    BY <1>2, <1>3, <2>2, <2>3 DEF MarksInside
  <2>4. CASE c # e
    BY <1>2, <1>3, <2>2, <2>4 DEF MarksInside
  <2>5. QED
    BY <2>3, <2>4
<1>6. Base(y)
  BY <1>2, <1>3, <1>4, <1>5, BaseKept DEF Base
<1>7. AllUntouched(x, y)
  BY <1>2, <1>3 DEF AllUntouched, Untouched
<1>8. QED
  BY <1>2, <1>6, <1>7 DEF OtherEnvs, y

\* A step that changes only the working set of e, and its hand.
OnlyWs(x, y, e) ==
  /\ Base(y) /\ AllUntouched(x, y) /\ OtherEnvs(x, y, e)
  /\ y.mm = x.mm /\ y.data = x.data /\ y.disk = x.disk
  /\ y.env[e].status = x.env[e].status /\ y.env[e].disk = x.env[e].disk
  /\ y.env[e].tables = x.env[e].tables
  /\ y.env[e].brk = x.env[e].brk /\ y.env[e].marked = x.env[e].marked

WithList(x, e, s, h) == [x EXCEPT !.env[e].ws = s, !.env[e].hand = h]

\* A new list and a new hand.
LEMMA SetWorkingSet ==
  ASSUME NEW x, Base(x), NEW e \in Envs, NEW s \in Seq(Elements), NEW h \in Int
  PROVE  /\ OnlyWs(x, WithList(x, e, s, h), e)
         /\ WithList(x, e, s, h).env[e].ws = s /\ WithList(x, e, s, h).env[e].hand = h
<1> DEFINE r == [x.env[e] EXCEPT !.ws = s, !.hand = h]
           y == [x EXCEPT !.env[e] = r]
<1>1. x \in Worlds /\ x.env[e] \in EnvRecords
  BY EnvTypes DEF Base
<1>2. /\ r \in EnvRecords /\ r.ws = s /\ r.hand = h
      /\ r.status = x.env[e].status /\ r.disk = x.env[e].disk /\ r.tables = x.env[e].tables
      /\ r.brk = x.env[e].brk /\ r.marked = x.env[e].marked
  BY <1>1 DEF EnvRecords
<1>3. y = WithList(x, e, s, h)
  BY <1>1 DEF Worlds, WithList
<1> HIDE DEF r
<1>4. \A va \in Area : \A i \in 1 .. r.marked[va] : va + i - 1 \in Area
  BY <1>2 DEF Base, Sound, MarksInside
<1>5. /\ Base(y) /\ AllUntouched(x, y) /\ OtherEnvs(x, y, e)
      /\ y.mm = x.mm /\ y.data = x.data /\ y.disk = x.disk /\ y.env[e] = r
  BY <1>2, <1>4, SetRecord
<1> HIDE DEF y
<1>6. QED
  BY <1>2, <1>3, <1>5 DEF OnlyWs

WithHand(x, e, h) == [x EXCEPT !.env[e].hand = h]

\* A new hand alone.
LEMMA SetHand ==
  ASSUME NEW x, Base(x), NEW e \in Envs, NEW h \in Int
  PROVE  /\ OnlyWs(x, WithHand(x, e, h), e)
         /\ WithHand(x, e, h).env[e].ws = x.env[e].ws /\ WithHand(x, e, h).env[e].hand = h
<1>1. x \in Worlds /\ x.env[e] \in EnvRecords /\ x.env[e].ws \in Seq(Elements)
  BY EnvTypes DEF Base
<1>2. WithHand(x, e, h) = WithList(x, e, x.env[e].ws, h)
  BY <1>1 DEF Worlds, EnvRecords, WithHand, WithList
<1>3. QED
  BY <1>1, <1>2, SetWorkingSet

\* Two steps that change only the working set.
LEMMA OnlyWsTwice ==
  ASSUME NEW x, NEW y, NEW z, NEW e, OnlyWs(x, y, e), OnlyWs(y, z, e)
  PROVE  OnlyWs(x, z, e)
<1>1. AllUntouched(x, z)
  BY UntouchedTwice DEF OnlyWs, AllUntouched
<1>2. QED
  BY <1>1 DEF OnlyWs, OtherEnvs

\* A new element at the tail; a list that is full then has its hand on the first.
LEMMA InsertTail ==
  ASSUME NEW x, Base(x), NEW e \in Envs, NEW va \in Pages
  PROVE  /\ OnlyWs(x, insert_tail(x, e, va), e)
         /\ env_page_ws_list_create_element(va) \in Elements
         /\ insert_tail(x, e, va).env[e].ws
              = Append(x.env[e].ws, env_page_ws_list_create_element(va))
         /\ Full(insert_tail(x, e, va), e) => insert_tail(x, e, va).env[e].hand = 1
<1> DEFINE v == env_page_ws_list_create_element(va)
           s == Append(x.env[e].ws, v)
           y == [x EXCEPT !.env[e].ws = s]
           z == [y EXCEPT !.env[e].hand = 1]
<1>1. /\ x \in Worlds /\ x.env[e] \in EnvRecords /\ x.env[e].ws \in Seq(Elements)
      /\ x.env[e].hand \in Int /\ x.env \in [Envs -> EnvRecords]
  BY EnvTypes, WorldTypes DEF Base
<1>2. v \in Elements /\ s \in Seq(Elements)
  BY <1>1 DEF env_page_ws_list_create_element, Elements
<1>3. insert_tail(x, e, va) = IF Full(y, e) THEN z ELSE y
  BY DEF insert_tail
<1> HIDE DEF s
<1>4. y = WithList(x, e, s, x.env[e].hand)
  BY <1>1 DEF Worlds, EnvRecords, WithList
<1>5. OnlyWs(x, y, e) /\ y.env[e].ws = s
  BY <1>1, <1>2, <1>4, SetWorkingSet
<1> HIDE DEF y
<1>10. z = WithHand(y, e, 1)
  BY DEF WithHand
<1> HIDE DEF z
<1>6. OnlyWs(y, z, e) /\ z.env[e].ws = s /\ z.env[e].hand = 1
  <2>1. Base(y) /\ 1 \in Int
    BY <1>5 DEF OnlyWs
  <2>2. QED
    BY <1>5, <1>10, <2>1, SetHand
<1>7. OnlyWs(x, z, e)
  BY <1>5, <1>6, OnlyWsTwice
<1>8. Full(y, e) <=> Full(z, e)
  BY <1>5, <1>6 DEF Full
<1>9. QED
  BY <1>2, <1>3, <1>5, <1>6, <1>7, <1>8 DEF s

-----------------------------------------------------------------------------
(* A page gets a frame, loses it, or is written *)

\* Two such steps.
LEMMA PageStepTwice ==
  ASSUME NEW x, NEW y, NEW z, NEW e, NEW va, PageStep(x, y, e, va), PageStep(y, z, e, va)
  PROVE  PageStep(x, z, e, va)
BY OnlyPageTwice DEF PageStep

\* What such a step has to show.
LEMMA PageStepIs ==
  ASSUME NEW x, Base(x), NEW e \in Envs, NEW va \in Pages, NEW y \in Worlds, NEW v,
         y.env = x.env, y.disk = x.disk, FramesApart(y.mm), EntryIs(x.mm, y.mm, <<e, va>>, v),
         \A f \in Frames : y.data[f] = x.data[f] \/ \A q \in Owners : q # <<e, va>> => x.mm.pt[q].frame # f
  PROVE  PageStep(x, y, e, va)
<1>1. x \in Worlds
  BY DEF Base
<1>2. DataApart(x, y, e, va)
  BY DEF DataApart
<1>3. /\ OnlyPage(x, y, e, va)
      /\ \A c \in Envs, t \in Tables : y.mm.pt[KTable(c, t)] = x.mm.pt[KTable(c, t)]
  BY <1>1, <1>2, OnlyPageChanges
<1>4. DiskApart(y)
  BY SameDisk DEF Base
<1>5. \A c \in Envs : /\ y.env[c].tables = x.env[c].tables /\ y.env[c].disk[Hole] = 0
                      /\ MarksInside(y, c)
  BY DEF Base, Sound, MarksInside
<1>6. Base(y)
  BY <1>3, <1>4, <1>5, BaseKept
<1>7. QED
  BY <1>3, <1>6 DEF PageStep

\* allocate_frame() and map_frame() of a page that has a frame of its own then.
WithPage(x, e, va, perm) == [x EXCEPT !.mm = allocate_and_map(@, <<e, va>>, perm)]

\* The page is present then, in the frame that was first in the free list.
LEMMA MapPage ==
  ASSUME NEW x, Base(x), NEW e \in Envs, NEW va \in Pages, va # Hole, ~Resident(x, e, va),
         x.mm.free # <<>>, NEW perm \in SUBSET Perms
  PROVE  /\ PageStep(x, WithPage(x, e, va, perm), e, va) /\ WithPage(x, e, va, perm).data = x.data
         /\ perms(WithPage(x, e, va, perm), e, va)
              = (perms(x, e, va) \intersect PERM_AVAILABLE) \union perm \union {"P"}
         /\ FrameOf(WithPage(x, e, va, perm), e, va) = FreeFrame(x.mm) /\ FreeFrame(x.mm) \in Frames
         /\ WithPage(x, e, va, perm).mm.free = Tail(x.mm.free)
<1> DEFINE p == <<e, va>>
           m == allocate_and_map(x.mm, p, perm)
           y == [x EXCEPT !.mm = m]
<1>1. x \in Worlds /\ FramesApart(x.mm) /\ x.mm \in Memories /\ p \in AllPages /\ p \in Owners
  BY WorldTypes, PagesApart DEF Base
<1>2. "P" \notin x.mm.pt[p].perm
  BY DEF Resident, perms, pt_get_page_permissions
<1>3. /\ m \in Memories /\ FramesApart(m) /\ FreeFrame(x.mm) \in Frames /\ m.free = Tail(x.mm.free)
      /\ EntryIs(x.mm, m, p, Mapped(x.mm, FreeFrame(x.mm), p, perm))
  <2>1. Allocated(x.mm, m, p, perm) /\ FramesApart(m)
    BY <1>1, <1>2, AllocateAndMap, AllocatedApart
  <2> HIDE DEF m, p
  <2>2. QED
    BY <2>1 DEF Allocated
<1>4. y = WithPage(x, e, va, perm)
  BY DEF WithPage
<1> HIDE DEF m
<1>5. y \in Worlds /\ y.mm = m /\ y.data = x.data /\ y.disk = x.disk /\ y.env = x.env
  BY <1>1, <1>3, SetMemory
<1> HIDE DEF y
<1>6. PageStep(x, y, e, va)
  BY <1>3, <1>5, PageStepIs
<1>7. /\ perms(y, e, va) = (perms(x, e, va) \intersect PERM_AVAILABLE) \union perm \union {"P"}
      /\ FrameOf(y, e, va) = FreeFrame(x.mm)
  BY <1>3, <1>5 DEF EntryIs, Mapped, perms, FrameOf, get_frame_info, pt_get_page_permissions
<1>8. QED
  BY <1>3, <1>4, <1>5, <1>6, <1>7

\* unmap_frame().
WithoutPage(x, e, va) == [x EXCEPT !.mm = unmap_frame(@, <<e, va>>)]

\* The page is away then, and its frame is free.
LEMMA UnmapPage ==
  ASSUME NEW x, Base(x), NEW e \in Envs, NEW va \in Pages, va # Hole, Resident(x, e, va)
  PROVE  /\ PageStep(x, WithoutPage(x, e, va), e, va) /\ WithoutPage(x, e, va).data = x.data
         /\ perms(WithoutPage(x, e, va), e, va) = perms(x, e, va) \intersect PERM_AVAILABLE
         /\ WithoutPage(x, e, va).mm.free # <<>>
<1> DEFINE p == <<e, va>>
           m == unmap_frame(x.mm, p)
           y == [x EXCEPT !.mm = m]
<1>1. x \in Worlds /\ FramesApart(x.mm) /\ x.mm \in Memories /\ p \in AllPages /\ p \in Owners
      /\ x.mm.free \in Seq(Frames)
  BY WorldTypes, PagesApart, MemoryTypes DEF Base
<1>2. x.mm.pt[p].frame # NoFrame
  BY <1>1 DEF Resident, perms, pt_get_page_permissions, FramesApart
<1>3. /\ m \in Memories /\ FramesApart(m) /\ m.free = <<x.mm.pt[p].frame>> \o x.mm.free
      /\ EntryIs(x.mm, m, p, Unmapped(x.mm, p)) /\ x.mm.pt[p].frame \in Frames
  BY <1>1, <1>2, UnmapApart
<1>4. y = WithoutPage(x, e, va)
  BY DEF WithoutPage
<1> HIDE DEF m
<1>5. y \in Worlds /\ y.mm = m /\ y.data = x.data /\ y.disk = x.disk /\ y.env = x.env
  BY <1>1, <1>3, SetMemory
<1> HIDE DEF y
<1>6. PageStep(x, y, e, va)
  BY <1>3, <1>5, PageStepIs
<1>7. perms(y, e, va) = perms(x, e, va) \intersect PERM_AVAILABLE
  BY <1>3, <1>5 DEF EntryIs, Unmapped, perms, pt_get_page_permissions
<1>8. y.mm.free # <<>>
  BY <1>1, <1>3, <1>5
<1>9. QED
  BY <1>4, <1>5, <1>6, <1>7, <1>8

\* The frame of a present page is one of the frames.
LEMMA PresentFrame ==
  ASSUME NEW x, Base(x), NEW e \in Envs, NEW va \in Pages, va # Hole, Resident(x, e, va)
  PROVE  FrameOf(x, e, va) \in Frames /\ FrameOf(x, e, va) # NoFrame /\ x.data[FrameOf(x, e, va)] \in Int
<1>1. x \in Worlds /\ FramesApart(x.mm) /\ x.mm \in Memories /\ <<e, va>> \in AllPages /\ <<e, va>> \in Owners
      /\ x.data \in [Frames -> Int]
  BY WorldTypes, PagesApart DEF Base
<1>2. FrameOf(x, e, va) # NoFrame
  BY <1>1 DEF Resident, perms, pt_get_page_permissions, FramesApart, FrameOf, get_frame_info
<1>3. FrameOf(x, e, va) \in Frames
  BY <1>1, <1>2, MemoryTypes DEF FrameOf, get_frame_info
<1>4. QED
  BY <1>1, <1>2, <1>3

\* A write to the frame of a page.
Written(x, e, va, v) == [x EXCEPT !.data[FrameOf(x, e, va)] = v]

\* Only that page shows the new value.
LEMMA WritePage ==
  ASSUME NEW x, Base(x), NEW e \in Envs, NEW va \in Pages, va # Hole, Resident(x, e, va), NEW v \in Int
  PROVE  /\ PageStep(x, Written(x, e, va, v), e, va) /\ Written(x, e, va, v).mm = x.mm
         /\ Written(x, e, va, v).data[FrameOf(x, e, va)] = v
<1> DEFINE f == FrameOf(x, e, va)
           p == <<e, va>>
           y == [x EXCEPT !.data[f] = v]
<1>1. f \in Frames /\ f # NoFrame /\ x \in Worlds /\ FramesApart(x.mm) /\ p \in Owners /\ p \in AllPages
  BY PresentFrame, PagesApart DEF Base
<1>2. f = x.mm.pt[p].frame
  BY DEF FrameOf, get_frame_info
<1>3. y = Written(x, e, va, v)
  BY DEF Written
<1> HIDE DEF f
<1>4. /\ y \in Worlds /\ y.mm = x.mm /\ y.disk = x.disk /\ y.env = x.env /\ y.data[f] = v
      /\ \A g \in Frames : g # f => y.data[g] = x.data[g]
  BY <1>1, SetData
<1> HIDE DEF y
<1>5. \A q \in Owners : q # p => x.mm.pt[q].frame # f
  BY <1>1, <1>2 DEF FramesApart
<1>6. EntryIs(x.mm, y.mm, p, x.mm.pt[p]) /\ FramesApart(y.mm)
  BY <1>1, <1>4 DEF EntryIs
<1>7. \A g \in Frames : y.data[g] = x.data[g] \/ \A q \in Owners : q # p => x.mm.pt[q].frame # g
  BY <1>4, <1>5
<1>8. PageStep(x, y, e, va)
  BY <1>4, <1>6, <1>7, PageStepIs
<1>9. QED
  BY <1>3, <1>4, <1>8 DEF f

-----------------------------------------------------------------------------
(* The clock *)

\* What stays of a full working set when its hand turns: all but counters and
\* used bits.
Turned(x, y, e) ==
  /\ Base(y) /\ OnlyEnv(x, y, e)
  /\ y.data = x.data /\ y.disk = x.disk /\ y.mm.free = x.mm.free
  /\ y.env[e].status = x.env[e].status /\ y.env[e].disk = x.env[e].disk
  /\ y.env[e].tables = x.env[e].tables
  /\ y.env[e].brk = x.env[e].brk /\ y.env[e].marked = x.env[e].marked
  /\ Full(x, e) /\ Full(y, e) /\ y.env[e].hand \in 1 .. page_WS_max_size
  /\ \A i \in 1 .. page_WS_max_size : y.env[e].ws[i].va = x.env[e].ws[i].va
  /\ \A va \in Pages : /\ FrameOf(y, e, va) = FrameOf(x, e, va)
                       /\ perms(y, e, va) \ {"A"} = perms(x, e, va) \ {"A"}

\* Two turns of the hand.
LEMMA TurnedTwice ==
  ASSUME NEW x, NEW y, NEW z, NEW e, Turned(x, y, e), Turned(y, z, e)
  PROVE  Turned(x, z, e)
<1>1. OnlyEnv(x, z, e)
  BY UntouchedTwice DEF Turned, OnlyEnv, OtherEnvs
<1>2. QED
  BY <1>1 DEF Turned

\* A new list with the same pages, and a new place for the hand.
LEMMA NewList ==
  ASSUME NEW x, Base(x), NEW e \in Envs, Full(x, e), NEW h \in 1 .. page_WS_max_size,
         NEW s \in Seq(Elements), Len(s) = page_WS_max_size,
         \A i \in 1 .. page_WS_max_size : s[i].va = x.env[e].ws[i].va
  PROVE  Turned(x, WithList(x, e, s, h), e)
<1> DEFINE y == WithList(x, e, s, h)
<1>1. OnlyWs(x, y, e) /\ y.env[e].ws = s /\ y.env[e].hand = h
  BY SetWorkingSet
<1> HIDE DEF y
<1>2. \A va \in Pages : FrameOf(y, e, va) = FrameOf(x, e, va) /\ perms(y, e, va) = perms(x, e, va)
  BY <1>1 DEF OnlyWs, FrameOf, get_frame_info, perms, pt_get_page_permissions
<1>3. Turned(x, y, e)
  BY <1>1, <1>2 DEF OnlyWs, Turned, OnlyEnv, AllUntouched, Full
<1>4. QED
  BY <1>3 DEF y

\* One look at the element under the hand.
LEMMA LookTurns ==
  ASSUME NEW x, Base(x), NEW e \in Envs, Full(x, e), x.env[e].hand \in 1 .. page_WS_max_size
  PROVE  Turned(x, look(x, e), e)
<1> DEFINE ws == x.env[e].ws
           h  == x.env[e].hand
           va == ws[h].va
           a  == WithList(x, e, [ws EXCEPT ![h].cnt = 0], Next1(x, e, h))
           b  == WithList(x, e, [ws EXCEPT ![h].cnt = @ + 1], Next1(x, e, h))
<1>1. x \in Worlds /\ Len(ws) = page_WS_max_size /\ page_WS_max_size \in Nat /\ page_WS_max_size >= 1
  BY PagingAssumption DEF Base, Full
<1>2. /\ ws \in Seq(Elements) /\ DOMAIN ws = 1 .. page_WS_max_size /\ h \in DOMAIN ws
      /\ va \in Pages /\ ws[h] \in [va : Pages, cnt : Int] /\ ws[h].cnt \in Int
  BY <1>1, EnvTypes, WsPagesType DEF Elements
<1>3. Next1(x, e, h) \in 1 .. page_WS_max_size
  BY <1>1 DEF Next1
<1>4. ASSUME NEW k \in Int
      PROVE  Turned(x, WithList(x, e, [ws EXCEPT ![h].cnt = k], Next1(x, e, h)), e)
  <2> DEFINE v == [ws[h] EXCEPT !.cnt = k]
             s == [ws EXCEPT ![h] = v]
  <2>1. v \in Elements /\ v.va = va
    BY <1>2 DEF Elements
  <2> HIDE DEF v
  <2>2. s \in Seq(Elements) /\ Len(s) = page_WS_max_size
    BY <1>1, <1>2, <2>1
  <2>3. \A i \in 1 .. page_WS_max_size : s[i].va = ws[i].va
    BY <1>2, <2>1
  <2>4. s = [ws EXCEPT ![h].cnt = k]
    BY DEF v
  <2> HIDE DEF s
  <2>5. QED
    BY <1>3, <2>2, <2>3, <2>4, NewList
<1>5. Turned(x, a, e)
  BY <1>4
<1>6. Turned(x, b, e)
  <2>1. b = WithList(x, e, [ws EXCEPT ![h].cnt = ws[h].cnt + 1], Next1(x, e, h))
    OBVIOUS
  <2>2. ws[h].cnt + 1 \in Int
    BY <1>2
  <2>3. QED
    BY <1>4, <2>1, <2>2
<1>7. look(x, e) = IF "A" \in perms(x, e, va) THEN set_perms(a, e, va, {}, {"A"}) ELSE b
  BY DEF look, WithList
<1> HIDE DEF a, b, h, va, ws
<1>8. Turned(a, set_perms(a, e, va, {}, {"A"}), e)
  <2> DEFINE none == {}
             used == {"A"}
             y == set_perms(a, e, va, none, used)
  <2>1. none \in SUBSET (Perms \ {"P"}) /\ used \in SUBSET (Perms \ {"P"})
    BY DEF Perms
  <2>2. /\ Base(y) /\ y.env = a.env /\ y.data = a.data /\ y.disk = a.disk /\ y.mm.free = a.mm.free
        /\ OnlyPage(a, y, e, va) /\ FrameOf(y, e, va) = FrameOf(a, e, va)
        /\ perms(y, e, va) = (perms(a, e, va) \union none) \ used
    <3> HIDE DEF none, used
    <3>1. Base(a) /\ va \in Pages
      BY <1>2, <1>5 DEF Turned
    <3>2. PermsSet(a, y, e, va, none, used)
      BY <2>1, <3>1, SetPermsDoes
    <3> HIDE DEF y
    <3>3. QED
      BY <3>2 DEF PermsSet, PageStep
  <2> HIDE DEF y
  <2>3. \A u \in Pages : u # va => FrameOf(y, e, u) = FrameOf(a, e, u) /\ perms(y, e, u) = perms(a, e, u)
    BY <2>2 DEF OnlyPage, Untouched, FrameOf, perms, get_frame_info, pt_get_page_permissions
  <2>4. \A u \in Pages : /\ FrameOf(y, e, u) = FrameOf(a, e, u)
                         /\ perms(y, e, u) \ {"A"} = perms(a, e, u) \ {"A"}
    <3>1. perms(y, e, va) \ {"A"} = perms(a, e, va) \ {"A"}
      BY <2>2
    <3>2. QED
      BY <2>2, <2>3, <3>1
  <2>5. OnlyEnv(a, y, e)
    BY <2>2 DEF OnlyEnv, OtherEnvs, OnlyPage
  <2>6. Full(y, e)
    BY <1>5, <2>2 DEF Turned, Full
  <2>7. Turned(a, y, e)
    BY <1>5, <2>2, <2>4, <2>5, <2>6 DEF Turned
  <2>8. QED
    BY <2>7 DEF y
<1>9. QED
  BY <1>5, <1>6, <1>7, <1>8, TurnedTwice

\* The looks of a replacement.
LEMMA ClockTurns ==
  ASSUME NEW x, Base(x), NEW e \in Envs, Full(x, e), x.env[e].hand \in 1 .. page_WS_max_size,
         NEW n \in Int
  PROVE  Turned(x, clock(x, e, n), e)
<1> DEFINE k == Fuel(n)
           Good == {y \in Worlds : Turned(x, y, e)}
           D == [i \in 0 .. k |-> Good]
           G == [i \in 1 .. k |-> [y \in Good |-> turn(y, e, n)]]
<1>1. k \in Nat
  <2>1. page_WS_max_size \in Nat
    BY PagingAssumption
  <2>4. (IF n < 0 THEN -n ELSE n) + 3 \in Nat
    OBVIOUS
  <2>2. \A a, b \in Nat : a * b \in Nat
    OBVIOUS
  <2>3. QED
    BY <2>1, <2>2, <2>4 DEF Fuel
<1>2. Turned(x, x, e)
  <2>1. OnlyEnv(x, x, e)
    BY DEF OnlyEnv, OtherEnvs, Untouched
  <2>2. QED
    BY <2>1 DEF Turned
<1>3. \A y : Turned(x, y, e) => y \in Worlds
  BY DEF Turned, Base
<1>4. ASSUME NEW y \in Good
      PROVE  turn(y, e, n) \in Good
  <2>1. Turned(x, y, e) /\ y \in Worlds
    BY <1>3
  <2>2. Turned(y, look(y, e), e)
    BY <2>1, LookTurns DEF Turned
  <2>3. Turned(x, turn(y, e, n), e)
    BY <2>1, <2>2, TurnedTwice DEF turn
  <2>4. QED
    BY <1>3, <2>3
<1>5. x \in Good
  BY <1>2, <1>3
<1> HIDE DEF Good, k
<1>6. x \in D[0] /\ \A i \in 1 .. k : \A y \in D[i - 1] : G[i][y] \in D[i]
  BY <1>1, <1>4, <1>5
<1>7. PICK u : LoopIs(u, k, x, G) /\ \A i \in 0 .. k : u[i] \in D[i]
  <2> HIDE DEF D, G
  <2>1. QED
    BY <1>1, <1>6, Loop
<1>8. \A i \in 0 .. k : u[i] \in Good
  BY <1>7
<1>9. u = [i \in 0 .. k |-> IF i = 0 THEN x ELSE turn(u[i - 1], e, n)]
  <2>1. \A i \in 1 .. k : i - 1 \in 0 .. k /\ G[i][u[i - 1]] = turn(u[i - 1], e, n)
    BY <1>1, <1>8
  <2> HIDE DEF G
  <2>2. \A i \in 0 .. k : i # 0 => i \in 1 .. k
    BY <1>1
  <2>3. QED
    BY <1>7, <2>1, <2>2 DEF LoopIs
<1> DEFINE hand == CHOOSE hand : hand = [i \in 0 .. k |-> IF i = 0 THEN x ELSE turn(hand[i - 1], e, n)]
<1>10. hand = [i \in 0 .. k |-> IF i = 0 THEN x ELSE turn(hand[i - 1], e, n)]
  BY <1>9
<1> HIDE DEF hand
<1>11. \A i \in 0 .. k : hand[i] \in Good
  <2> DEFINE S == {i \in Nat : hand[i] \in Good}
  <2>1. 0 \in S
    BY <1>1, <1>5, <1>10
  <2>2. ASSUME NEW i \in 0 .. k - 1, i \in S
        PROVE  i + 1 \in S
    <3>1. i + 1 \in 0 .. k /\ i + 1 # 0 /\ (i + 1) - 1 = i /\ i + 1 \in Nat
      BY <1>1
    <3>2. hand[i + 1] = turn(hand[i], e, n)
      BY <1>10, <3>1
    <3>3. QED
      BY <1>4, <2>2, <3>1, <3>2
  <2> HIDE DEF S
  <2>3. \A i \in 0 .. k : i \in S
    BY <1>1, <2>1, <2>2, UpTo
  <2>4. QED
    BY <2>3 DEF S
<1>12. hand[k] \in Good
  BY <1>1, <1>11
<1>13. clock(x, e, n) = hand[k]
  BY DEF clock, hand, k
<1>14. QED
  BY <1>12, <1>13 DEF Good

\* A turn of the hand keeps an environment good.
LEMMA TurnedGood ==
  ASSUME NEW x, Base(x), NEW y, NEW e \in Envs, Turned(x, y, e), NEW val, EnvGood(x, e, val)
  PROVE  EnvGood(y, e, val) /\ \A va \in Pages : Resident(y, e, va) <=> Resident(x, e, va)
<1>1. x \in Worlds /\ y \in Worlds /\ page_WS_max_size \in Nat
  BY PagingAssumption DEF Base, Turned
<1>2. \A va \in Pages : /\ Resident(y, e, va) <=> Resident(x, e, va)
                        /\ \A b \in {"b10", "b11", "D"} : b \in perms(y, e, va) <=> b \in perms(x, e, va)
  BY DEF Turned, Resident
<1>3. PagesGood(y, e)
  BY <1>2 DEF EnvGood, PagesGood, PageGood, Turned, InPageFile
<1>4. ASSUME NEW va \in Pages
      PROVE  PageHolds(y, e, va, val[va])
  <2>1. PageHolds(x, e, va, val[va])
    BY DEF EnvGood, Holds
  <2>2. FrameOf(y, e, va) = FrameOf(x, e, va)
    BY DEF Turned
  <2>3. Resident(y, e, va) <=> Resident(x, e, va)
    BY <1>2
  <2>4. "D" \in perms(y, e, va) <=> "D" \in perms(x, e, va)
    BY <1>2
  <2>5. y.data = x.data /\ y.disk = x.disk /\ y.env[e].disk = x.env[e].disk
    BY DEF Turned
  <2>6. QED
    BY <2>1, <2>2, <2>3, <2>4, <2>5 DEF PageHolds
<1>5. Listed(y, e)
  <2>1. Len(x.env[e].ws) = page_WS_max_size /\ Len(y.env[e].ws) = page_WS_max_size
    BY DEF Turned, Full
  <2>2. DOMAIN x.env[e].ws = 1 .. page_WS_max_size /\ DOMAIN y.env[e].ws = 1 .. page_WS_max_size
    BY <1>1, <2>1, WsPagesType
  <2>3. \A i \in 1 .. page_WS_max_size : y.env[e].ws[i].va = x.env[e].ws[i].va
    BY DEF Turned
  <2>4. \A i \in 1 .. page_WS_max_size : x.env[e].ws[i].va \in Pages
    BY <1>1, <2>2, WsPagesType
  <2>5. y.env[e].hand \in 1 .. page_WS_max_size /\ Len(y.env[e].ws) <= page_WS_max_size
    BY <1>1, <2>1 DEF Turned
  <2>6. Listed(x, e)
    BY DEF EnvGood
  <2>7. /\ \A i \in DOMAIN y.env[e].ws : Resident(y, e, y.env[e].ws[i].va)
        /\ \A i, j \in DOMAIN y.env[e].ws : y.env[e].ws[i].va = y.env[e].ws[j].va => i = j
    BY <1>2, <2>2, <2>3, <2>4, <2>6 DEF Listed
  <2>8. \A va \in Pages : Resident(y, e, va) => \E i \in DOMAIN y.env[e].ws : y.env[e].ws[i].va = va
    BY <1>2, <2>2, <2>3, <2>6 DEF Listed
  <2>9. QED
    BY <2>5, <2>7, <2>8 DEF Listed
<1>6. QED
  BY <1>2, <1>3, <1>4, <1>5 DEF EnvGood, Holds

-----------------------------------------------------------------------------
(* Bringing a page in *)

\* A page that belongs to nothing is mapped, and its frame given back at once.
LEMMA MapHole ==
  ASSUME NEW x, Base(x), NEW e \in Envs, ~Resident(x, e, Hole), x.mm.free # <<>>,
         NEW perm \in SUBSET Perms
  PROVE  PageStep(x, [WithPage(x, e, Hole, perm) EXCEPT !.mm = free_frame(@, FreeFrame(x.mm))], e, Hole)
<1> DEFINE f == FreeFrame(x.mm)
           p == <<e, Hole>>
           m == allocate_and_map(x.mm, p, perm)
           k == free_frame(m, f)
           y == [x EXCEPT !.mm = k]
<1>1. /\ x \in Worlds /\ FramesApart(x.mm) /\ x.mm \in Memories /\ p \in AllPages /\ p \notin Owners
      /\ x.mm.free \in Seq(Frames) /\ x.mm.ref \in [Frames -> Int] /\ Hole \in Pages
  BY WorldTypes, PagesApart, PartsOfPages, MemoryTypes DEF Base
<1>2. "P" \notin x.mm.pt[p].perm
  BY DEF Resident, perms, pt_get_page_permissions
<1>3. /\ f \in Frames /\ m \in Memories /\ m.free = Tail(x.mm.free)
      /\ m.ref = [x.mm.ref EXCEPT ![f] = 1] /\ EntryIs(x.mm, m, p, Mapped(x.mm, f, p, perm))
  <2>1. Allocated(x.mm, m, p, perm)
    BY <1>1, <1>2, AllocateAndMap
  <2> HIDE DEF m, p
  <2>2. QED
    BY <2>1 DEF Allocated, f
<1>4. y = [WithPage(x, e, Hole, perm) EXCEPT !.mm = free_frame(@, FreeFrame(x.mm))]
  BY <1>1 DEF WithPage, Worlds
<1>5. /\ Tail(x.mm.free) \in Seq(Frames) /\ NoDup(Tail(x.mm.free)) /\ f \in Elems(x.mm.free)
      /\ Elems(Tail(x.mm.free)) = Elems(x.mm.free) \ {f}
  BY <1>1, PopList DEF FramesApart, FreeFrame
<1> HIDE DEF m, f
<1>6. IsMemory(m) /\ DOMAIN m.ref = Frames /\ DOMAIN m.pt = AllPages
  BY <1>3, MemoriesAre
<1>7. IsMemory(k) /\ k.free = <<f>> \o m.free /\ k.pt = m.pt /\ k.ref = [m.ref EXCEPT ![f] = 0]
  BY <1>3, <1>6, GiveFrame
<1> HIDE DEF k
<1>8. k \in Memories
  BY <1>6, <1>7, MemoriesAre
<1>9. NoDup(k.free) /\ Elems(k.free) = Elems(x.mm.free)
  <2>1. f \notin Elems(Tail(x.mm.free))
    BY <1>5
  <2> DEFINE s == Tail(x.mm.free)
  <2>4. s \in Seq(Frames) /\ NoDup(s) /\ f \notin Elems(s) /\ f \in Frames
    BY <1>3, <1>5, <2>1
  <2>2. Elems(<<f>> \o s) = Elems(s) \union {f} /\ NoDup(<<f>> \o s)
    <3> HIDE DEF s
    <3>1. QED
      BY <2>4, PushList
  <2>3. QED
    BY <1>3, <1>5, <1>7, <2>2
<1>10. \A g \in Frames : k.ref[g] = x.mm.ref[g]
  <2>1. x.mm.ref[f] = 0
    BY <1>1, <1>3, <1>5 DEF FramesApart
  <2>2. QED
    BY <1>1, <1>3, <1>7, <2>1
<1>11. \A q \in Owners : k.pt[q] = x.mm.pt[q] /\ q \in AllPages /\ x.mm.pt[q].frame \in Frames \union {NoFrame}
  BY <1>1, <1>3, <1>7, MemoryTypes DEF EntryIs, Owners
<1>12. FramesApart(k)
  <2>1. \A g \in Frames : g \in Elems(k.free) <=> k.ref[g] = 0
    BY <1>1, <1>9, <1>10 DEF FramesApart
  <2>2. ASSUME NEW g \in Frames, k.ref[g] # 0
        PROVE  k.ref[g] = 1 /\ \E q \in Owners : k.pt[q].frame = g
    <3>1. x.mm.ref[g] = 1 /\ \E q \in Owners : x.mm.pt[q].frame = g
      BY <1>1, <1>10, <2>2 DEF FramesApart
    <3>2. QED
      BY <1>10, <1>11, <3>1
  <2>3. ASSUME NEW q \in Owners
        PROVE  /\ k.pt[q].frame # NoFrame => k.ref[k.pt[q].frame] # 0
               /\ k.pt[q].frame # NoFrame <=> "P" \in k.pt[q].perm
    <3>1. k.pt[q] = x.mm.pt[q] /\ x.mm.pt[q].frame \in Frames \union {NoFrame}
      BY <1>11
    <3>2. /\ x.mm.pt[q].frame # NoFrame => x.mm.ref[x.mm.pt[q].frame] # 0
          /\ x.mm.pt[q].frame # NoFrame <=> "P" \in x.mm.pt[q].perm
      BY <1>1 DEF FramesApart
    <3>3. QED
      BY <1>10, <3>1, <3>2
  <2>4. \A q, s \in Owners : k.pt[q].frame = k.pt[s].frame /\ k.pt[q].frame # NoFrame => q = s
    <3>1. \A q, s \in Owners : x.mm.pt[q].frame = x.mm.pt[s].frame /\ x.mm.pt[q].frame # NoFrame => q = s
      BY <1>1 DEF FramesApart
    <3>2. QED
      BY <1>11, <3>1
  <2>5. QED
    BY <1>9, <2>1, <2>2, <2>3, <2>4 DEF FramesApart
<1>13. EntryIs(x.mm, k, p, Mapped(x.mm, f, p, perm))
  BY <1>3, <1>7 DEF EntryIs
<1>14. y \in Worlds /\ y.mm = k /\ y.data = x.data /\ y.disk = x.disk /\ y.env = x.env
  BY <1>1, <1>8, SetMemory
<1> HIDE DEF y
<1>15. PageStep(x, y, e, Hole)
  BY <1>1, <1>12, <1>13, <1>14, PageStepIs
<1>16. QED
  BY <1>4, <1>15

\* A page that came in holds what the page file has of it; its reservation stays.
Brought(x, y, e, va) ==
  /\ Resident(y, e, va) /\ "D" \notin perms(y, e, va)
  /\ "b10" \in perms(x, e, va) => "b10" \in perms(y, e, va)
  /\ y.env[e].disk[va] = x.env[e].disk[va]
  /\ x.env[e].disk[va] # 0 =>
       /\ y.disk.data[x.env[e].disk[va]] = x.disk.data[x.env[e].disk[va]]
       /\ y.data[FrameOf(y, e, va)] = x.disk.data[x.env[e].disk[va]]

\* What bring_in() does.
BroughtIn(x, r, e, va) ==
  /\ r.end \in {"ok", "env_exit"} /\ PageStep(x, r.w, e, va)
  /\ r.end = "ok" => va # Hole /\ Brought(x, r.w, e, va)

\* The page gets a frame with what the page file has, or the environment ends.
LEMMA BringIn ==
  ASSUME NEW x, Base(x), NEW e \in Envs, NEW va \in Pages, ~Resident(x, e, va), x.mm.free # <<>>,
         va \in Text => InPageFile(x, e, va)
  PROVE  BroughtIn(x, bring_in(x, e, va), e, va)
<1> DEFINE rights == {"P", "W", "U"}
           y == WithPage(x, e, va, rights)
<1>1. rights \in SUBSET Perms /\ "P" \in rights /\ "D" \notin rights
  BY DEF Perms
<1>2. bring_in(x, e, va) =
        IF InPageFile(x, e, va) THEN Done(pf_read_env_page(y, e, va))
        ELSE IF va \in UHeap \union Stack THEN Done([y EXCEPT !.data[FreeFrame(x.mm)] = Unknown])
        ELSE Ends([y EXCEPT !.mm = free_frame(@, FreeFrame(x.mm))], "env_exit")
  BY DEF bring_in, WithPage
<1> HIDE DEF rights
<1>3. CASE va = Hole
  <2>1. ~InPageFile(x, e, va) /\ va \notin UHeap \union Stack
    BY <1>3, PartsOfPages DEF Base, Sound, InPageFile
  <2> DEFINE z == [y EXCEPT !.mm = free_frame(@, FreeFrame(x.mm))]
  <2>2. PageStep(x, z, e, va)
    BY <1>1, <1>3, MapHole
  <2>3. bring_in(x, e, va) = Ends(z, "env_exit")
    BY <1>2, <2>1
  <2> HIDE DEF z
  <2>4. QED
    BY <2>2, <2>3 DEF BroughtIn, Ends
<1>4. CASE va # Hole
  <2>1. /\ PageStep(x, y, e, va) /\ y.data = x.data
        /\ perms(y, e, va) = (perms(x, e, va) \intersect PERM_AVAILABLE) \union rights \union {"P"}
        /\ FrameOf(y, e, va) = FreeFrame(x.mm)
    BY <1>1, <1>4, MapPage
  <2> HIDE DEF y
  <2>2. Base(y) /\ y.env = x.env /\ y.disk = x.disk
    BY <2>1 DEF PageStep
  <2>3. /\ Resident(y, e, va) /\ "D" \notin perms(y, e, va)
        /\ "b10" \in perms(x, e, va) => "b10" \in perms(y, e, va)
    BY <1>1, <2>1 DEF Resident, PERM_AVAILABLE
  <2>4. CASE InPageFile(x, e, va)
    <3> DEFINE s == {"A"}
               c == {"D"}
               u == set_perms(y, e, va, s, c)
               v == x.disk.data[x.env[e].disk[va]]
               z == Written(u, e, va, v)
    <3>1. s \in SUBSET (Perms \ {"P"}) /\ c \in SUBSET (Perms \ {"P"})
      BY DEF Perms
    <3>2. PermsSet(y, u, e, va, s, c)
      BY <2>2, <3>1, SetPermsDoes
    <3>3. v \in Int
      BY <2>4, EnvTypes, WorldTypes DEF Base, InPageFile
    <3>4. bring_in(x, e, va) = Done(z)
      <4>1. pf_read_env_page(y, e, va) = [u EXCEPT !.data[FrameOf(y, e, va)] = v]
        BY <2>2 DEF pf_read_env_page
      <4>2. FrameOf(u, e, va) = FrameOf(y, e, va)
        <5> HIDE DEF u
        <5>1. QED
          BY <3>2 DEF PermsSet
      <4>3. QED
        BY <1>2, <2>4, <4>1, <4>2 DEF Written
    <3> HIDE DEF u, v
    <3>5. /\ PageStep(y, u, e, va) /\ u.env = y.env /\ u.disk = y.disk /\ Base(u)
          /\ perms(u, e, va) = (perms(y, e, va) \union s) \ c
      BY <3>2 DEF PermsSet, PageStep
    <3>6. /\ Resident(u, e, va) /\ "D" \notin perms(u, e, va)
          /\ "b10" \in perms(x, e, va) => "b10" \in perms(u, e, va)
      BY <2>3, <3>5 DEF Resident
    <3>7. /\ PageStep(u, z, e, va) /\ z.mm = u.mm /\ z.data[FrameOf(u, e, va)] = v
      BY <1>4, <3>3, <3>5, <3>6, WritePage
    <3> HIDE DEF z
    <3>8. PageStep(x, z, e, va)
      BY <2>1, <3>5, <3>7, PageStepTwice
    <3>9. FrameOf(z, e, va) = FrameOf(u, e, va) /\ perms(z, e, va) = perms(u, e, va)
      BY <3>7 DEF FrameOf, get_frame_info, perms, pt_get_page_permissions
    <3>10. Brought(x, z, e, va)
      BY <3>6, <3>7, <3>8, <3>9 DEF Brought, PageStep, Resident, v
    <3>11. QED
      BY <1>4, <3>4, <3>8, <3>10 DEF BroughtIn, Done
  <2>5. CASE ~InPageFile(x, e, va)
    <3> DEFINE z == Written(y, e, va, Unknown)
    <3>1. va \in UHeap \union Stack
      BY <1>4, <2>5, PartsOfPages
    <3>2. bring_in(x, e, va) = Done(z)
      BY <1>2, <2>1, <2>5, <3>1 DEF Written
    <3>3. PageStep(y, z, e, va) /\ z.mm = y.mm
      <4>1. Unknown \in Int
        BY DEF Unknown
      <4>2. QED
        BY <1>4, <2>2, <2>3, <4>1, WritePage
    <3> HIDE DEF z
    <3>4. PageStep(x, z, e, va)
      BY <2>1, <3>3, PageStepTwice
    <3>5. perms(z, e, va) = perms(y, e, va)
      BY <3>3 DEF perms, pt_get_page_permissions
    <3>6. Brought(x, z, e, va)
      BY <2>3, <2>5, <3>4, <3>5 DEF Brought, PageStep, Resident, InPageFile
    <3>7. QED
      BY <1>4, <3>2, <3>4, <3>6 DEF BroughtIn, Done
  <2>6. QED
    BY <2>4, <2>5
<1>5. QED
  BY <1>3, <1>4

\* The page that came in is marked resident: the pages are good again.
PagedIn(x, y, z, e, va, val) ==
  /\ Base(z) /\ OnlyPage(x, z, e, va) /\ z.env = y.env
  /\ PagesGood(z, e) /\ Holds(z, e, val)
  /\ Residents(z, e) = Residents(x, e) \union {va}

\* A page that came in shows what it should, as the other pages do.
LEMMA PageIn ==
  ASSUME NEW x, Base(x), NEW e \in Envs, NEW va \in Pages, NEW val,
         PagesGood(x, e), Holds(x, e, val), ~Resident(x, e, va), va \in UHeap => "b10" \in perms(x, e, va),
         va # Hole, NEW y, PageStep(x, y, e, va), Brought(x, y, e, va), NEW u, OnlyWs(y, u, e)
  PROVE  PagedIn(x, u, set_perms(u, e, va, {"b11"}, {}), e, va, val)
<1> DEFINE s == {"b11"}
           c == {}
           z == set_perms(u, e, va, s, c)
<1>1. s \in SUBSET (Perms \ {"P"}) /\ c \in SUBSET (Perms \ {"P"})
  BY DEF Perms, PERM_AVAILABLE
<1>2. Base(u) /\ u.mm = y.mm /\ u.data = y.data /\ u.disk = y.disk /\ u.env[e].disk = y.env[e].disk
  BY DEF OnlyWs
<1>3. PermsSet(u, z, e, va, s, c)
  BY <1>1, <1>2, SetPermsDoes
<1> HIDE DEF z
<1>4. /\ Base(z) /\ OnlyPage(u, z, e, va) /\ z.env = u.env /\ z.disk = u.disk /\ z.data = u.data
      /\ perms(z, e, va) = (perms(u, e, va) \union s) \ c /\ FrameOf(z, e, va) = FrameOf(u, e, va)
  BY <1>3 DEF PermsSet, PageStep
<1>5. perms(u, e, va) = perms(y, e, va) /\ FrameOf(u, e, va) = FrameOf(y, e, va)
  BY <1>2 DEF perms, pt_get_page_permissions, FrameOf, get_frame_info
<1>6. /\ Resident(z, e, va) /\ "D" \notin perms(z, e, va) /\ "b11" \in perms(z, e, va)
      /\ "b10" \in perms(x, e, va) => "b10" \in perms(z, e, va)
  BY <1>4, <1>5 DEF Brought, Resident
<1>7. OnlyPage(x, z, e, va)
  <2>1. OnlyPage(x, y, e, va) /\ OnlyPage(y, u, e, va)
    BY DEF PageStep, OnlyWs, AllUntouched, OnlyPage
  <2>2. OnlyPage(x, u, e, va)
    BY <2>1, OnlyPageTwice
  <2>3. QED
    BY <1>4, <2>2, OnlyPageTwice
<1>8. FramesApart(x.mm)
  BY DEF Base
<1>9. ASSUME NEW a \in Pages
      PROVE  PageGood(z, e, a) /\ PageHolds(z, e, a, val[a]) /\ (Resident(z, e, a) <=> Resident(x, e, a) \/ a = va)
  <2>1. PageGood(x, e, a) /\ PageHolds(x, e, a, val[a])
    BY DEF PagesGood, Holds
  <2>2. CASE a # va
    <3>1. Untouched(x, z, e, a)
      BY <1>7, <2>2 DEF OnlyPage
    <3>2. QED
      BY <1>8, <2>1, <2>2, <3>1, UntouchedGood
  <2>3. CASE a = va
    <3>1. x.env[e].disk[va] = z.env[e].disk[va]
      BY <1>2, <1>4 DEF Brought
    <3>2. x.env[e].disk[va] # 0 =>
            /\ z.disk.data[x.env[e].disk[va]] = x.disk.data[x.env[e].disk[va]]
            /\ z.data[FrameOf(z, e, va)] = x.disk.data[x.env[e].disk[va]]
      BY <1>2, <1>4, <1>5 DEF Brought
    <3>3. PageGood(z, e, va)
      BY <1>6, <2>1, <2>3, <3>1 DEF PageGood, InPageFile
    <3>4. PageHolds(z, e, va, val[va])
      BY <1>6, <2>1, <2>3, <3>1, <3>2 DEF PageHolds
    <3>5. QED
      BY <1>6, <2>3, <3>3, <3>4
  <2>4. QED
    BY <2>2, <2>3
<1>10. Residents(z, e) = Residents(x, e) \union {va}
  BY <1>9 DEF Residents
<1>11. PagedIn(x, u, z, e, va, val)
  BY <1>4, <1>7, <1>9, <1>10 DEF PagedIn, PagesGood, Holds
<1>12. QED
  BY <1>11 DEF z

\* What a fault that is served, or not, does to environment e.
Served(x, r, e, val) ==
  /\ Base(r.w) /\ r.end # "no"
  /\ r.end \in {"ok", "env_exit"} => OnlyEnv(x, r.w, e) /\ r.w.env[e].status = x.env[e].status
  /\ r.end = "ok" => EnvGood(r.w, e, val)

\* A step that touches one page of e touches only e.
LEMMA OnlyPageEnv ==
  ASSUME NEW x, NEW y, NEW e, NEW va, OnlyPage(x, y, e, va), OtherEnvs(x, y, e)
  PROVE  OnlyEnv(x, y, e)
BY DEF OnlyPage, OnlyEnv

\* Two steps that touch only e.
LEMMA OnlyEnvTwice ==
  ASSUME NEW x, NEW y, NEW z, NEW e, OnlyEnv(x, y, e), OnlyEnv(y, z, e)
  PROVE  OnlyEnv(x, z, e)
BY UntouchedTwice DEF OnlyEnv, OtherEnvs

\* The page is placed in a working set that has room.
LEMMA Placement ==
  ASSUME NEW x, Base(x), NEW e \in Envs, NEW va \in Pages, NEW val, EnvGood(x, e, val),
         ~Full(x, e), ~Resident(x, e, va), va \in UHeap => "b10" \in perms(x, e, va)
  PROVE  Served(x, placement(x, e, va), e, val)
<1> DEFINE r == bring_in(x, e, va)
           u == insert_tail(r.w, e, va)
           z == set_perms(u, e, va, {"b11"}, {})
<1>1. /\ x \in Worlds /\ page_WS_max_size \in Nat /\ x.env[e].ws \in Seq(Elements)
      /\ Len(x.env[e].ws) \in Nat /\ x.mm.free \in Seq(Frames)
  BY PagingAssumption, EnvTypes, WsPagesType, WorldTypes, MemoryTypes DEF Base
<1>2. PagesGood(x, e) /\ Holds(x, e, val) /\ Lists(x.env[e].ws, Residents(x, e)) /\ Handy(x, e)
  BY <1>1, ListedMeans DEF EnvGood
<1>3. CASE Len(x.mm.free) = 0
  BY <1>3 DEF placement, Ends, Served
<1>4. CASE Len(x.mm.free) # 0
  <2>1. x.mm.free # <<>>
    BY <1>1, <1>4
  <2>2. va \in Text => InPageFile(x, e, va)
    BY <1>2 DEF PagesGood, PageGood
  <2>3. BroughtIn(x, r, e, va)
    BY <2>1, <2>2, BringIn
  <2>4. placement(x, e, va) = IF r.end # "ok" THEN r ELSE Done(z)
    BY <1>4 DEF placement, placed
  <2> HIDE DEF r
  <2>5. PageStep(x, r.w, e, va) /\ Base(r.w) /\ r.w.env = x.env
    BY <2>3 DEF BroughtIn, PageStep
  <2>6. CASE r.end # "ok"
    <3>1. OnlyEnv(x, r.w, e)
      BY <2>5, OnlyPageEnv DEF PageStep, OtherEnvs
    <3>2. r.end = "env_exit"
      BY <2>3, <2>6 DEF BroughtIn
    <3>3. QED
      BY <2>4, <2>5, <2>6, <3>1, <3>2 DEF Served
  <2>7. CASE r.end = "ok"
    <3>1. Brought(x, r.w, e, va) /\ va # Hole
      BY <2>3, <2>7 DEF BroughtIn
    <3> DEFINE v == env_page_ws_list_create_element(va)
    <3>2. /\ OnlyWs(r.w, u, e) /\ v \in Elements /\ v.va = va
          /\ u.env[e].ws = Append(x.env[e].ws, v) /\ (Full(u, e) => u.env[e].hand = 1)
      BY <2>5, InsertTail, ZenonT(30) DEF env_page_ws_list_create_element
    <3> HIDE DEF u, v
    <3>3. PagedIn(x, u, z, e, va, val)
      BY <1>2, <2>5, <3>1, <3>2, PageIn
    <3> HIDE DEF z
    <3>4. /\ Base(z) /\ OnlyPage(x, z, e, va) /\ z.env = u.env /\ PagesGood(z, e) /\ Holds(z, e, val)
          /\ Residents(z, e) = Residents(x, e) \union {va}
      BY <3>3 DEF PagedIn
    <3>5. OnlyEnv(x, z, e) /\ z.env[e].status = x.env[e].status
      <4>1. OtherEnvs(x, z, e)
        BY <2>5, <3>2, <3>4 DEF OnlyWs, OtherEnvs
      <4>2. QED
        BY <2>5, <3>2, <3>4, <4>1, OnlyPageEnv DEF OnlyWs
    <3>6. va \notin Residents(x, e)
      BY DEF Residents
    <3>7. Lists(z.env[e].ws, Residents(z, e))
      <4>1. Lists(Append(x.env[e].ws, v), Residents(x, e) \union {v.va})
        BY <1>1, <1>2, <3>2, <3>6, ListsAppend
      <4>2. QED
        BY <3>2, <3>4, <4>1
    <3>8. Handy(z, e)
      <4>1. Len(Append(x.env[e].ws, v)) = Len(x.env[e].ws) + 1
        BY <1>1, <3>2
      <4>2. Len(z.env[e].ws) <= page_WS_max_size
        BY <1>1, <1>2, <3>2, <3>4, <4>1 DEF Handy, Full
      <4>3. Full(z, e) => z.env[e].hand = 1
        BY <3>2, <3>4 DEF Full
      <4>4. 1 \in 1 .. page_WS_max_size
        <5>1. page_WS_max_size \in Nat \ {0}
          BY PagingAssumption
        <5>2. QED
          BY <5>1
      <4>5. QED
        BY <4>2, <4>3, <4>4 DEF Handy
    <3>9. EnvGood(z, e, val)
      BY <3>4, <3>7, <3>8, ListedMeans DEF EnvGood, Base
    <3>10. QED
      BY <2>4, <2>7, <3>4, <3>5, <3>9 DEF Served, Done
  <2>8. QED
    BY <2>6, <2>7
<1>5. QED
  BY <1>3, <1>4

-----------------------------------------------------------------------------
(* Replacing a page *)

\* The kernel stops for want of a frame or of room in the page file, if at all.
LEMMA SaveEnds ==
  ASSUME NEW x, NEW e, NEW va
  PROVE  save_victim(x, e, va).end \notin {"env_exit", "no"}
<1>1. \A y, t : with_table(y, e, t).end \notin {"env_exit", "no"}
  BY DEF with_table, create_page_table, Done, Ends
<1>2. \A r : r.end \notin {"env_exit", "no"} => copy_out(r, e, va).end \notin {"env_exit", "no"}
  BY DEF copy_out, Done
<1>3. pf_update_env_page(x, e, va).end \notin {"env_exit", "no"}
  BY <1>1, <1>2 DEF pf_update_env_page, Ends
<1>4. QED
  BY <1>3 DEF save_victim, Done

\* A victim is unmapped, and no longer marked resident.
Dropped(x, y, e, va) == /\ PageStep(x, y, e, va) /\ ~Resident(y, e, va)
                        /\ "b11" \notin perms(y, e, va) /\ y.mm.free # <<>>

\* drop_victim() frees the frame of a page that was present.
LEMMA DropVictim ==
  ASSUME NEW x, Base(x), NEW e \in Envs, NEW va \in Pages, va # Hole, Resident(x, e, va)
  PROVE  Dropped(x, drop_victim(x, e, va), e, va)
<1> DEFINE s == {}
           c == {"b11"}
           a == Written(x, e, va, Unknown)
           b == set_perms(a, e, va, s, c)
           y == WithoutPage(b, e, va)
<1>1. s \in SUBSET (Perms \ {"P"}) /\ c \in SUBSET (Perms \ {"P"})
  BY DEF Perms, PERM_AVAILABLE
<1>2. x \in Worlds /\ Unknown \in Int
  BY DEF Base, Unknown
<1>3. y = drop_victim(x, e, va)
  BY <1>2 DEF drop_victim, set_perms, WithoutPage, Written, Worlds
<1>4. PageStep(x, a, e, va) /\ a.mm = x.mm
  BY <1>2, WritePage
<1> HIDE DEF a
<1>5. Base(a) /\ perms(a, e, va) = perms(x, e, va)
  BY <1>4 DEF PageStep, perms, pt_get_page_permissions
<1>6. PermsSet(a, b, e, va, s, c)
  BY <1>1, <1>5, SetPermsDoes
<1> HIDE DEF b
<1>7. /\ PageStep(a, b, e, va) /\ Base(b) /\ Resident(b, e, va) /\ "b11" \notin perms(b, e, va)
  BY <1>5, <1>6 DEF PermsSet, PageStep, Resident
<1>8. /\ PageStep(b, y, e, va) /\ y.mm.free # <<>>
      /\ perms(y, e, va) = perms(b, e, va) \intersect PERM_AVAILABLE
  BY <1>7, UnmapPage
<1> HIDE DEF y
<1>9. PageStep(x, y, e, va)
  BY <1>4, <1>7, <1>8, PageStepTwice
<1>10. ~Resident(y, e, va) /\ "b11" \notin perms(y, e, va)
  BY <1>7, <1>8 DEF Resident, PERM_AVAILABLE
<1>11. QED
  BY <1>3, <1>8, <1>9, <1>10 DEF Dropped

\* A victim that was written out, if it had to be.
VictimSaved(x, y, e, va) ==
  /\ Base(y) /\ OtherEnvs(x, y, e) /\ OnlyPage(x, y, e, va) /\ RecordKept(x, y, e)
  /\ Resident(y, e, va) /\ (va \in Text => InPageFile(y, e, va))
  /\ \A v : PageHolds(x, e, va, v) /\ v # Unknown =>
              y.env[e].disk[va] # 0 /\ y.disk.data[y.env[e].disk[va]] = v

\* save_victim() leaves a page that can be dropped without loss.
LEMMA SaveVictim ==
  ASSUME NEW x, Base(x), NEW e \in Envs, NEW va \in Pages, va # Hole, Resident(x, e, va), PageGood(x, e, va)
  PROVE  /\ save_victim(x, e, va).end = "ok" => VictimSaved(x, save_victim(x, e, va).w, e, va)
         /\ save_victim(x, e, va).end # "ok" => Base(save_victim(x, e, va).w)
<1> DEFINE r == pf_update_env_page(x, e, va)
<1>1. CASE "D" \in perms(x, e, va)
  <2>1. save_victim(x, e, va) = r
    BY <1>1 DEF save_victim
  <2>2. FrameOf(x, e, va) # NoFrame
    BY PresentFrame
  <2>3. (r.end = "ok" => Saved(x, r.w, e, va)) /\ (r.end # "ok" => Base(r.w))
    BY <2>2, UpdateEnvPage
  <2> HIDE DEF r
  <2>4. ASSUME r.end = "ok"
        PROVE  VictimSaved(x, r.w, e, va)
    <3>1. Saved(x, r.w, e, va)
      BY <2>3, <2>4
    <3>2. Resident(r.w, e, va)
      BY <3>1 DEF Saved, Resident, perms, pt_get_page_permissions
    <3>3. \A v : PageHolds(x, e, va, v) /\ v # Unknown => x.data[FrameOf(x, e, va)] = v
      BY DEF PageHolds
    <3>4. QED
      BY <3>1, <3>2, <3>3 DEF Saved, VictimSaved, InPageFile
  <2>5. QED
    BY <2>1, <2>3, <2>4
<1>2. CASE "D" \notin perms(x, e, va)
  <2>1. save_victim(x, e, va) = Done(x)
    BY <1>2 DEF save_victim
  <2>2. VictimSaved(x, x, e, va)
    BY <1>2 DEF VictimSaved, OtherEnvs, OnlyPage, Untouched, RecordKept, PageGood, PageHolds
  <2>3. QED
    BY <2>1, <2>2 DEF Done
<1>3. QED
  BY <1>1, <1>2

\* Once it is dropped the others are good, and it is good as a page that is away.
Gone(x, y, e, va, val) ==
  /\ Base(y) /\ OtherEnvs(x, y, e) /\ OnlyPage(x, y, e, va) /\ RecordKept(x, y, e)
  /\ PagesGood(y, e) /\ Holds(y, e, val) /\ y.mm.free # <<>>
  /\ Residents(y, e) = Residents(x, e) \ {va}

\* Saving and dropping loses nothing of what the environment wrote.
LEMMA VictimGone ==
  ASSUME NEW x, Base(x), NEW e \in Envs, NEW va \in Pages, NEW val, PagesGood(x, e), Holds(x, e, val),
         va # Hole, NEW y, VictimSaved(x, y, e, va)
  PROVE  Gone(x, drop_victim(y, e, va), e, va, val)
<1> DEFINE z == drop_victim(y, e, va)
<1>1. Base(y) /\ Resident(y, e, va)
  BY DEF VictimSaved
<1>2. Dropped(y, z, e, va)
  BY <1>1, DropVictim
<1> HIDE DEF z
<1>3. /\ Base(z) /\ OnlyPage(y, z, e, va) /\ z.env = y.env /\ z.disk = y.disk
      /\ ~Resident(z, e, va) /\ "b11" \notin perms(z, e, va) /\ z.mm.free # <<>>
  BY <1>2 DEF Dropped, PageStep
<1>4. OnlyPage(x, z, e, va)
  BY <1>3, OnlyPageTwice DEF VictimSaved
<1>5. OtherEnvs(x, z, e) /\ RecordKept(x, z, e)
  BY <1>3 DEF VictimSaved, OtherEnvs, RecordKept
<1>6. FramesApart(x.mm)
  BY DEF Base
<1>7. ASSUME NEW a \in Pages
      PROVE  PageGood(z, e, a) /\ PageHolds(z, e, a, val[a]) /\ (Resident(z, e, a) <=> Resident(x, e, a) /\ a # va)
  <2>1. PageGood(x, e, a) /\ PageHolds(x, e, a, val[a])
    BY DEF PagesGood, Holds
  <2>2. CASE a # va
    <3>1. Untouched(x, z, e, a)
      BY <1>4, <2>2 DEF OnlyPage
    <3>2. QED
      BY <1>6, <2>1, <2>2, <3>1, UntouchedGood
  <2>3. CASE a = va
    <3>1. PageGood(z, e, va)
      BY <1>3 DEF VictimSaved, PageGood, InPageFile
    <3>2. PageHolds(z, e, va, val[va])
      BY <1>3, <2>1, <2>3 DEF VictimSaved, PageHolds
    <3>3. QED
      BY <1>3, <2>3, <3>1, <3>2
  <2>4. QED
    BY <2>2, <2>3
<1>8. Residents(z, e) = Residents(x, e) \ {va}
  BY <1>7 DEF Residents
<1>9. Gone(x, z, e, va, val)
  BY <1>3, <1>4, <1>5, <1>7, <1>8 DEF Gone, PagesGood, Holds
<1>10. QED
  BY <1>9 DEF z

\* The page under the hand makes room for va.
LEMMA Evict ==
  ASSUME NEW x, Base(x), NEW e \in Envs, NEW va \in Pages, NEW val, EnvGood(x, e, val),
         Full(x, e), ~Resident(x, e, va), va \in UHeap => "b10" \in perms(x, e, va), NEW n
  PROVE  Served(x, evict(x, e, va, n), e, val)
<1> DEFINE ws  == x.env[e].ws
           h   == x.env[e].hand
           old == ws[h].va
           q   == save_victim(x, e, old)
           d   == drop_victim(q.w, e, old)
           r   == bring_in(d, e, va)
           v   == env_page_ws_list_create_element(va)
           s   == [ws EXCEPT ![h] = v]
           k   == Next1(r.w, e, h)
           u   == WithList(r.w, e, s, k)
           z   == set_perms(u, e, va, {"b11"}, {})
<1>1. /\ x \in Worlds /\ page_WS_max_size \in Nat /\ ws \in Seq(Elements)
      /\ Len(ws) = page_WS_max_size /\ page_WS_max_size \in Nat \ {0}
  BY PagingAssumption, EnvTypes DEF Base, Full
<1>2. PagesGood(x, e) /\ Holds(x, e, val) /\ Lists(ws, Residents(x, e)) /\ Handy(x, e)
  BY <1>1, ListedMeans DEF EnvGood
<1>3. h \in 1 .. page_WS_max_size /\ DOMAIN ws = 1 .. page_WS_max_size /\ h \in DOMAIN ws
  BY <1>1, <1>2 DEF Handy
<1>4. old \in Residents(x, e)
  BY <1>2, <1>3 DEF Lists
<1>5. old \in Pages /\ Resident(x, e, old) /\ old # va
  BY <1>4 DEF Residents
<1>6. old # Hole /\ PageGood(x, e, old)
  BY <1>2, <1>5 DEF PagesGood, PageGood
<1>7. CASE ~IsVictim(x, e, n)
  BY <1>7 DEF evict, Ends, Served
<1>8. CASE IsVictim(x, e, n) /\ q.end # "ok"
  <2>1. Base(q.w)
    BY <1>5, <1>6, <1>8, SaveVictim
  <2>2. q.end # "env_exit" /\ q.end # "no"
    BY SaveEnds
  <2>3. evict(x, e, va, n) = q
    BY <1>8 DEF evict, exchange
  <2> HIDE DEF q
  <2>4. QED
    BY <1>8, <2>1, <2>2, <2>3 DEF Served
<1>9. CASE IsVictim(x, e, n) /\ q.end = "ok"
  <2>1. VictimSaved(x, q.w, e, old)
    BY <1>5, <1>6, <1>9, SaveVictim
  <2>2. evict(x, e, va, n) = replaced(r, e, va)
    BY <1>9 DEF evict, exchange
  <2> HIDE DEF q, old
  <2>3. Gone(x, d, e, old, val)
    BY <1>2, <1>5, <1>6, <2>1, VictimGone
  <2> HIDE DEF d
  <2>4. /\ Base(d) /\ OtherEnvs(x, d, e) /\ OnlyPage(x, d, e, old) /\ RecordKept(x, d, e)
        /\ PagesGood(d, e) /\ Holds(d, e, val) /\ d.mm.free # <<>>
        /\ Residents(d, e) = Residents(x, e) \ {old}
    BY <2>3 DEF Gone
  <2>5. ~Resident(d, e, va) /\ perms(d, e, va) = perms(x, e, va)
    <3>1. Untouched(x, d, e, va)
      BY <1>5, <2>4 DEF OnlyPage
    <3>2. QED
      BY <3>1, UntouchedGood DEF Base
  <2>6. va \in Text => InPageFile(d, e, va)
    BY <2>4 DEF PagesGood, PageGood
  <2>7. BroughtIn(d, r, e, va)
    BY <2>4, <2>5, <2>6, BringIn
  <2> HIDE DEF r
  <2>8. PageStep(d, r.w, e, va) /\ Base(r.w) /\ r.w.env = d.env
    BY <2>7 DEF BroughtIn, PageStep
  <2>9. OnlyEnv(x, d, e) /\ d.env[e].status = x.env[e].status /\ d.env[e].ws = ws /\ d.env[e].hand = h
    BY <2>4, OnlyPageEnv DEF RecordKept
  <2>10. CASE r.end # "ok"
    <3>1. replaced(r, e, va) = r
      BY <2>10 DEF replaced
    <3>2. OnlyEnv(d, r.w, e)
      BY <2>8, OnlyPageEnv DEF PageStep, OtherEnvs
    <3>3. OnlyEnv(x, r.w, e)
      BY <2>9, <3>2, OnlyEnvTwice
    <3>4. r.end = "env_exit"
      BY <2>7, <2>10 DEF BroughtIn
    <3>5. QED
      BY <2>2, <2>8, <2>9, <2>10, <3>1, <3>3, <3>4 DEF Served
  <2>11. CASE r.end = "ok"
    <3>1. Brought(d, r.w, e, va) /\ va # Hole
      BY <2>7, <2>11 DEF BroughtIn
    <3>2. v \in Elements /\ v.va = va
      BY DEF env_page_ws_list_create_element, Elements
    <3> HIDE DEF v
    <3>3. s \in Seq(Elements) /\ Len(s) = page_WS_max_size
      BY <1>1, <1>3, <3>2
    <3>4. k \in 1 .. page_WS_max_size
      BY <1>1, <1>3, <2>8, <2>9 DEF Next1
    <3>5. replaced(r, e, va) = Done(z)
      <4>1. r.w.env[e].hand = h /\ r.w.env[e].ws = ws /\ r.w \in Worlds
        BY <2>8, <2>9 DEF Base
      <4>2. u = [r.w EXCEPT !.env[e].ws[h] = v, !.env[e].hand = Next1(r.w, e, h)]
        BY <4>1 DEF WithList, Worlds
      <4>3. QED
        BY <2>11, <4>1, <4>2 DEF replaced, v
    <3> HIDE DEF s, k
    <3>6. OnlyWs(r.w, u, e) /\ u.env[e].ws = s /\ u.env[e].hand = k
      BY <2>8, <3>3, <3>4, SetWorkingSet
    <3> HIDE DEF u
    <3>7. PagedIn(d, u, z, e, va, val)
      BY <2>4, <2>5, <2>8, <3>1, <3>6, PageIn
    <3> HIDE DEF z
    <3>8. /\ Base(z) /\ OnlyPage(d, z, e, va) /\ z.env = u.env /\ PagesGood(z, e) /\ Holds(z, e, val)
          /\ Residents(z, e) = Residents(d, e) \union {va}
      BY <3>7 DEF PagedIn
    <3>9. OnlyEnv(x, z, e) /\ z.env[e].status = x.env[e].status
      <4>1. OtherEnvs(d, z, e)
        BY <2>8, <3>6, <3>8 DEF OnlyWs, OtherEnvs
      <4>2. OnlyEnv(d, z, e)
        BY <3>8, <4>1, OnlyPageEnv
      <4>3. OnlyEnv(x, z, e)
        BY <2>9, <4>2, OnlyEnvTwice
      <4>4. QED
        BY <2>8, <2>9, <3>6, <3>8, <4>3 DEF OnlyWs
    <3>10. Lists(z.env[e].ws, Residents(z, e))
      <4>1. v.va \notin Residents(x, e) \ {ws[h].va}
        BY <3>2 DEF Residents
      <4>2. Lists(s, (Residents(x, e) \ {ws[h].va}) \union {v.va})
        <5> HIDE DEF ws, h
        <5>1. QED
          BY <1>1, <1>2, <1>3, <3>2, <4>1, ListsReplace DEF s
      <4>3. QED
        BY <2>4, <3>2, <3>6, <3>8, <4>2 DEF old
    <3>11. Handy(z, e)
      BY <1>1, <3>3, <3>4, <3>6, <3>8 DEF Handy, Full
    <3>12. EnvGood(z, e, val)
      BY <3>8, <3>10, <3>11, ListedMeans DEF EnvGood, Base
    <3>13. QED
      BY <2>2, <3>5, <3>8, <3>9, <3>12 DEF Served, Done
  <2>12. QED
    BY <2>10, <2>11
<1>10. QED
  BY <1>7, <1>8, <1>9

\* A replacement serves the fault, whichever element is chosen.
LEMMA Replacement ==
  ASSUME NEW x, Base(x), NEW e \in Envs, NEW va \in Pages, NEW val, EnvGood(x, e, val),
         Full(x, e), ~Resident(x, e, va), va \in UHeap => "b10" \in perms(x, e, va), NEW n \in Int
  PROVE  Served(x, replacement(x, e, va, n), e, val)
<1> DEFINE c == clock(x, e, n)
           r == evict(c, e, va, n)
<1>1. x.env[e].hand \in 1 .. page_WS_max_size
  BY DEF EnvGood, Listed
<1>2. Turned(x, c, e)
  BY <1>1, ClockTurns
<1>3. r = replacement(x, e, va, n)
  BY DEF replacement
<1> HIDE DEF c
<1>4. EnvGood(c, e, val) /\ ~Resident(c, e, va)
  BY <1>2, TurnedGood
<1>5. "b10" \in perms(c, e, va) <=> "b10" \in perms(x, e, va)
  BY <1>2 DEF Turned
<1>6. Base(c) /\ Full(c, e) /\ OnlyEnv(x, c, e) /\ c.env[e].status = x.env[e].status
  BY <1>2 DEF Turned
<1>7. Served(c, r, e, val)
  BY <1>4, <1>5, <1>6, Evict
<1> HIDE DEF r
<1>8. Served(x, r, e, val)
  BY <1>6, <1>7, OnlyEnvTwice DEF Served
<1>9. QED
  BY <1>3, <1>8

\* page_fault_handler().
LEMMA PageFault ==
  ASSUME NEW x, Base(x), NEW e \in Envs, NEW va \in Pages, NEW val, EnvGood(x, e, val),
         ~Resident(x, e, va), va \in UHeap => "b10" \in perms(x, e, va), NEW n \in Int
  PROVE  Served(x, page_fault_handler(x, e, va, n), e, val)
BY Placement, Replacement DEF page_fault_handler

\* Page tables are not seen by the environment.
LEMMA TableServes ==
  ASSUME NEW x, Base(x), NEW e \in Envs, NEW t, NEW val, EnvGood(x, e, val), NEW r, TableMade(x, r, e, t)
  PROVE  Served(x, r, e, val)
<1>1. CASE r.end # "ok"
  <2>1. r = Ends(x, "no memory")
    BY <1>1 DEF TableMade
  <2>2. r.w = x /\ r.end = "no memory"
    BY <2>1 DEF Ends
  <2>3. QED
    BY <2>2 DEF Served
<1>2. CASE r.end = "ok"
  <2>1. /\ Base(r.w) /\ AllUntouched(x, r.w) /\ OtherEnvs(x, r.w, e)
        /\ r.w.env[e] = [x.env[e] EXCEPT !.tables = r.w.env[e].tables]
    BY <1>2 DEF TableMade
  <2>2. x \in Worlds /\ x.env[e] \in EnvRecords
    BY EnvTypes DEF Base
  <2>3. /\ r.w.env[e].ws = x.env[e].ws /\ r.w.env[e].hand = x.env[e].hand
        /\ r.w.env[e].status = x.env[e].status
    BY <2>1, <2>2 DEF EnvRecords
  <2>4. EnvGood(r.w, e, val)
    BY <2>1, <2>2, <2>3, KeptGood DEF Base, AllUntouched
  <2>5. OnlyEnv(x, r.w, e)
    BY <2>1 DEF OnlyEnv, AllUntouched
  <2>6. QED
    BY <1>2, <2>1, <2>3, <2>4, <2>5 DEF Served
<1>3. QED
  BY <1>1, <1>2

\* fault_handler().
LEMMA FaultHandler ==
  ASSUME Base(w), sweeps \in Int, NEW e \in Envs, NEW va \in Pages, NEW val, EnvGood(w, e, val)
  PROVE  Served(w, fault_handler(e, va), e, val)
<1>1. CASE Repeated(e, va) /\ fault.n = 2
  BY <1>1 DEF fault_handler, Ends, Served
<1>2. CASE ~(Repeated(e, va) /\ fault.n = 2) /\ NeedsTable(w, e, TableOf(va))
  <2>1. TableOf(va) \in Tables
    BY DEF TableOf, Tables
  <2>2. TableMade(w, create_page_table(w, e, TableOf(va)), e, TableOf(va))
    BY <1>2, <2>1, CreateTable
  <2>3. fault_handler(e, va) = create_page_table(w, e, TableOf(va))
    BY <1>2 DEF fault_handler
  <2>4. QED
    BY <2>2, <2>3, TableServes
<1>3. CASE ~(Repeated(e, va) /\ fault.n = 2) /\ ~NeedsTable(w, e, TableOf(va)) /\ InvalidPointer(w, e, va)
  <2>1. fault_handler(e, va) = Ends(w, "env_exit")
    BY <1>3 DEF fault_handler
  <2>2. OnlyEnv(w, w, e)
    BY DEF OnlyEnv, OtherEnvs, Untouched
  <2>3. QED
    BY <2>1, <2>2 DEF Ends, Served
<1>4. CASE /\ ~(Repeated(e, va) /\ fault.n = 2) /\ ~NeedsTable(w, e, TableOf(va))
           /\ ~InvalidPointer(w, e, va) /\ "P" \in perms(w, e, va)
  BY <1>4 DEF fault_handler, Ends, Served
<1>5. CASE /\ ~(Repeated(e, va) /\ fault.n = 2) /\ ~NeedsTable(w, e, TableOf(va))
           /\ ~InvalidPointer(w, e, va) /\ "P" \notin perms(w, e, va)
  <2>1. ~Resident(w, e, va)
    BY <1>5 DEF Resident
  <2>2. va \in UHeap => "b10" \in perms(w, e, va)
    BY <1>5, <2>1 DEF InvalidPointer, EnvGood, PagesGood, PageGood
  <2>3. fault_handler(e, va) = page_fault_handler(w, e, va, sweeps)
    BY <1>5 DEF fault_handler
  <2>4. QED
    BY <2>1, <2>2, <2>3, PageFault
<1>6. QED
  BY <1>1, <1>2, <1>3, <1>4, <1>5

-----------------------------------------------------------------------------
(* The actions *)

\* What an action on environment e has to show.
LEMMA InvariantKept ==
  ASSUME PagingInv, panic = "no", NEW e \in Envs,
         Base(w'), sweeps' \in Int, expect' \in [Envs -> [Pages -> Int]], pending' \in [Envs -> Accesses],
         panic' = "no" => /\ OnlyEnv(w, w', e)
                          /\ \A c \in Envs : c # e => expect'[c] = expect[c] /\ pending'[c] = pending[c]
                          /\ EnvInv(w', e, expect'[e], pending'[e])
  PROVE  PagingInv'
<1>1. Base(w) /\ \A c \in Envs : EnvInv(w, c, expect[c], pending[c])
  BY DEF PagingInv
<1>2. w \in Worlds /\ FramesApart(w.mm)
  BY <1>1 DEF Base
<1>3. ASSUME panic' = "no", NEW c \in Envs
      PROVE  EnvInv(w', c, expect'[c], pending'[c])
  <2>1. CASE c = e
    BY <1>3, <2>1
  <2>2. CASE c # e
    <3>1. w'.env[c] = w.env[c] /\ \A u \in Pages : Untouched(w, w', c, u)
      BY <1>3, <2>2 DEF OnlyEnv, OtherEnvs
    <3>2. EnvInv(w', c, expect[c], pending[c])
      BY <1>1, <1>2, <3>1, UntouchedEnv
    <3>3. QED
      BY <1>3, <2>2, <3>2
  <2>3. QED
    BY <2>1, <2>2
<1>4. QED
  BY <1>3 DEF PagingInv

\* An environment that ends: its record is kept, but for the status.
LEMMA SetDead ==
  ASSUME NEW x, Base(x), NEW e \in Envs
  PROVE  /\ Base([x EXCEPT !.env[e].status = "dead"])
         /\ OnlyEnv(x, [x EXCEPT !.env[e].status = "dead"], e)
         /\ [x EXCEPT !.env[e].status = "dead"].env[e].status = "dead"
<1> DEFINE r == [x.env[e] EXCEPT !.status = "dead"]
           y == [x EXCEPT !.env[e] = r]
<1>1. x \in Worlds /\ x.env[e] \in EnvRecords
  BY EnvTypes DEF Base
<1>2. /\ r \in EnvRecords /\ r.disk = x.env[e].disk /\ r.tables = x.env[e].tables
      /\ r.marked = x.env[e].marked /\ r.status = "dead"
  BY <1>1 DEF EnvRecords
<1>3. [x EXCEPT !.env[e].status = "dead"] = y
  OBVIOUS
<1> HIDE DEF r
<1>4. \A va \in Area : \A i \in 1 .. r.marked[va] : va + i - 1 \in Area
  BY <1>2 DEF Base, Sound, MarksInside
<1>5. Base(y) /\ AllUntouched(x, y) /\ OtherEnvs(x, y, e) /\ y.env[e] = r
  BY <1>2, <1>4, SetRecord
<1> HIDE DEF y
<1>6. OnlyEnv(x, y, e)
  BY <1>5 DEF OnlyEnv, AllUntouched
<1>7. QED
  BY <1>2, <1>3, <1>5, <1>6

\* What an environment may do: the pages are its own, and what it writes is known.
LEMMA AccessTypes ==
  ASSUME NEW e \in Envs, NEW va \in Touches[e], NEW v \in Values \union {Zero}
  PROVE  va \in Pages /\ v \in Int /\ v # Unknown
<1>1. Touches[e] \in SUBSET Pages
  BY TouchesAssumption
<1>2. Values \subseteq Nat \ {0}
  BY PagingAssumption
<1>3. QED
  <2>1. v \in Nat
    <3>1. \A u \in Values : u \in Nat
      BY <1>2
    <3>2. QED
      BY <3>1 DEF Zero
  <2>2. v \in Int /\ v # Unknown
    <3>1. \A n \in Nat : n \in Int /\ n # Unknown
      BY DEF Unknown
    <3>2. QED
      BY <2>1, <3>1
  <2>3. va \in Pages
    BY <1>1
  <2>4. QED
    BY <2>2, <2>3

\* An environment that executes is live.
LEMMA ExecutesLive ==
  ASSUME PagingInv, NEW e \in Envs, NEW va \in Pages, NEW v, Executes(e, va, v)
  PROVE  /\ panic = "no" /\ Base(w) /\ sweeps \in Int /\ w.env[e].status = "live"
         /\ EnvGood(w, e, expect[e])
<1>1. panic = "no" /\ EnvInv(w, e, expect[e], pending[e])
  BY DEF Executes, PagingInv
<1>2. w.env[e].status = "live"
  <2>1. CASE Ready(e)
    BY <2>1 DEF Ready
  <2>2. CASE pending[e].va = va
    <3>1. va # 0
      BY PartsOfPages
    <3>2. pending[e] # NoOp
      BY <2>2, <3>1 DEF NoOp
    <3>3. QED
      BY <1>1, <3>2 DEF EnvInv
  <2>3. QED
    BY <2>1, <2>2 DEF Executes
<1>3. QED
  BY <1>1, <1>2 DEF PagingInv, EnvInv

\* A page fault keeps the invariant.
LEMMA FaultKeeps ==
  ASSUME PagingInv, NEW e \in Envs, NEW va \in Touches[e], NEW v \in Values \union {Zero}, Fault(e, va, v)
  PROVE  PagingInv'
<1>1. va \in Pages /\ v \in Int
  BY AccessTypes
<1>2. /\ panic = "no" /\ Base(w) /\ sweeps \in Int /\ w.env[e].status = "live"
      /\ EnvGood(w, e, expect[e])
  BY <1>1, ExecutesLive DEF Fault
<1> DEFINE r == fault_handler(e, va)
<1>3. Served(w, r, e, expect[e])
  BY <1>1, <1>2, FaultHandler
<1>4. sweeps' \in Int /\ expect' = expect /\ expect \in [Envs -> [Pages -> Int]] /\ pending \in [Envs -> Accesses]
  BY DEF PagingInv, Fault
<1>5. CASE r.end = "env_exit"
  <2>1. w' = [r.w EXCEPT !.env[e].status = "dead"] /\ pending' = [pending EXCEPT ![e] = NoOp]
    BY <1>5 DEF Fault
  <2> HIDE DEF r
  <2>2. Base(r.w) /\ OnlyEnv(w, r.w, e)
    BY <1>3, <1>5 DEF Served
  <2>3. Base(w') /\ OnlyEnv(r.w, w', e) /\ w'.env[e].status = "dead"
    BY <2>1, <2>2, SetDead
  <2>4. OnlyEnv(w, w', e)
    BY <2>2, <2>3, OnlyEnvTwice
  <2>5. NoOp \in Accesses
    BY DEF NoOp, Accesses
  <2>6. /\ pending' \in [Envs -> Accesses] /\ pending'[e] = NoOp
        /\ \A c \in Envs : c # e => pending'[c] = pending[c]
    BY <1>4, <2>1, <2>5
  <2>7. EnvInv(w', e, expect'[e], pending'[e])
    BY <2>3, <2>6 DEF EnvInv
  <2>8. QED
    BY <1>2, <1>4, <2>3, <2>4, <2>6, <2>7, InvariantKept
<1>6. CASE r.end # "env_exit"
  <2> DEFINE op == [va |-> va, v |-> v, faults |-> UpTo3(pending[e].faults + 1)]
  <2>1. Outcome(r) /\ pending' = [pending EXCEPT ![e] = op]
    BY <1>6 DEF Fault
  <2>2. w' = r.w /\ (panic' = "no" => r.end = "ok" \/ r.end = "no")
    BY <2>1 DEF Outcome
  <2>3. r.end # "no"
    BY <1>3 DEF Served
  <2>4. op \in Accesses
    <3>1. pending[e].faults \in Int
      BY <1>4 DEF Accesses
    <3>2. UpTo3(pending[e].faults + 1) \in Int
      BY <3>1 DEF UpTo3
    <3>3. QED
      BY <1>1, <3>2 DEF Accesses
  <2> HIDE DEF r, op
  <2>5. /\ pending' \in [Envs -> Accesses] /\ \A c \in Envs : c # e => pending'[c] = pending[c]
    BY <1>4, <2>1, <2>4
  <2>6. Base(w')
    BY <1>3, <2>2 DEF Served
  <2>7. ASSUME panic' = "no"
        PROVE  OnlyEnv(w, w', e) /\ EnvInv(w', e, expect'[e], pending'[e])
    BY <1>2, <1>3, <1>4, <2>2, <2>3, <2>7 DEF Served, EnvInv
  <2>8. QED
    BY <1>2, <1>4, <2>5, <2>6, <2>7, InvariantKept
<1>7. QED
  BY <1>5, <1>6

\* One page changes but stays present, or away.
LEMMA PageChanged ==
  ASSUME NEW x, Base(x), NEW e \in Envs, NEW va \in Pages, NEW val, EnvGood(x, e, val),
         NEW y, PageStep(x, y, e, va), Resident(y, e, va) <=> Resident(x, e, va), PageGood(y, e, va),
         NEW new, \A u \in Pages : u # va => new[u] = val[u], PageHolds(y, e, va, new[va])
  PROVE  EnvGood(y, e, new) /\ OnlyEnv(x, y, e) /\ y.env[e] = x.env[e]
<1>1. Base(y) /\ OnlyPage(x, y, e, va) /\ y.env = x.env
  BY DEF PageStep
<1>2. x \in Worlds /\ FramesApart(x.mm)
  BY DEF Base
<1>3. ASSUME NEW u \in Pages
      PROVE  PageGood(y, e, u) /\ PageHolds(y, e, u, new[u]) /\ (Resident(y, e, u) <=> Resident(x, e, u))
  <2>1. PageGood(x, e, u) /\ PageHolds(x, e, u, val[u])
    BY DEF EnvGood, PagesGood, Holds
  <2>2. CASE u # va
    <3>1. Untouched(x, y, e, u) /\ new[u] = val[u]
      BY <1>1, <2>2 DEF OnlyPage
    <3>2. QED
      BY <1>2, <2>1, <2>2, <3>1, UntouchedGood
  <2>3. CASE u = va
    BY <2>3
  <2>4. QED
    BY <2>2, <2>3
<1>4. Listed(y, e)
  <2>1. \A i \in DOMAIN x.env[e].ws : x.env[e].ws[i].va \in Pages
    BY <1>2, WsPagesType
  <2>2. QED
    BY <1>1, <1>3, <2>1 DEF EnvGood, Listed, Full
<1>5. OnlyEnv(x, y, e)
  BY <1>1, OnlyPageEnv DEF OtherEnvs
<1>6. QED
  BY <1>1, <1>3, <1>4, <1>5 DEF EnvGood, PagesGood, Holds

\* A read or write that does not fault keeps the invariant.
LEMMA AccessKeeps ==
  ASSUME PagingInv, NEW e \in Envs, NEW va \in Touches[e], NEW v \in Values \union {Zero}, Access(e, va, v)
  PROVE  PagingInv'
<1>1. va \in Pages /\ v \in Int
  BY AccessTypes
<1>2. /\ panic = "no" /\ Base(w) /\ sweeps \in Int /\ w.env[e].status = "live"
      /\ EnvGood(w, e, expect[e])
  BY <1>1, ExecutesLive DEF Access
<1>3. Resident(w, e, va) /\ PageGood(w, e, va) /\ PageHolds(w, e, va, expect[e][va])
  BY <1>1, <1>2 DEF Access, Accessible, Resident, EnvGood, PagesGood, Holds
<1>4. va # Hole
  BY <1>3 DEF PageGood
<1>5. /\ sweeps' \in Int /\ pending' = [pending EXCEPT ![e] = NoOp]
      /\ expect \in [Envs -> [Pages -> Int]] /\ pending \in [Envs -> Accesses]
  BY DEF PagingInv, Access
<1>6. /\ pending' \in [Envs -> Accesses] /\ pending'[e] = NoOp
      /\ \A c \in Envs : c # e => pending'[c] = pending[c]
  <2>1. NoOp \in Accesses
    BY DEF NoOp, Accesses
  <2>2. QED
    BY <1>5, <2>1
<1>7. ASSUME PageStep(w, w', e, va), Resident(w', e, va), PageGood(w', e, va),
             expect' \in [Envs -> [Pages -> Int]], PageHolds(w', e, va, expect'[e][va]),
             \A c \in Envs : c # e => expect'[c] = expect[c],
             \A u \in Pages : u # va => expect'[e][u] = expect[e][u]
      PROVE  PagingInv'
  <2>1. EnvGood(w', e, expect'[e]) /\ OnlyEnv(w, w', e) /\ w'.env[e] = w.env[e]
    BY <1>1, <1>2, <1>3, <1>7, PageChanged
  <2>2. EnvInv(w', e, expect'[e], pending'[e])
    BY <1>2, <1>6, <2>1 DEF EnvInv
  <2>3. Base(w')
    BY <1>7 DEF PageStep
  <2>4. QED
    BY <1>2, <1>5, <1>6, <1>7, <2>1, <2>2, <2>3, InvariantKept
<1>8. CASE v = Zero
  <2> DEFINE s == {"A"}
             c == {}
             y == set_perms(w, e, va, s, c)
  <2>1. s \in SUBSET (Perms \ {"P"}) /\ c \in SUBSET (Perms \ {"P"})
    BY DEF Perms
  <2>2. PermsSet(w, y, e, va, s, c)
    BY <1>1, <1>2, <2>1, SetPermsDoes
  <2>3. w' = y /\ expect' = expect
    BY <1>8 DEF Access
  <2> HIDE DEF y
  <2>4. /\ PageStep(w, w', e, va) /\ w'.data = w.data /\ w'.disk = w.disk /\ w'.env = w.env
        /\ perms(w', e, va) = (perms(w, e, va) \union s) \ c /\ FrameOf(w', e, va) = FrameOf(w, e, va)
    BY <2>2, <2>3 DEF PermsSet, PageStep
  <2>5. Resident(w', e, va) /\ PageGood(w', e, va)
    BY <1>3, <2>4 DEF Resident, PageGood, InPageFile
  <2>6. PageHolds(w', e, va, expect[e][va])
    BY <1>3, <2>4, <2>5 DEF PageHolds
  <2>7. QED
    BY <1>5, <1>7, <2>3, <2>4, <2>5, <2>6
<1>9. CASE v # Zero
  <2> DEFINE s == {"A", "D"}
             c == {}
             y == set_perms(w, e, va, s, c)
             z == Written(y, e, va, v)
  <2>1. s \in SUBSET (Perms \ {"P"}) /\ c \in SUBSET (Perms \ {"P"})
    BY DEF Perms
  <2>2. PermsSet(w, y, e, va, s, c)
    BY <1>1, <1>2, <2>1, SetPermsDoes
  <2>3. w' = [y EXCEPT !.data[FrameOf(w, e, va)] = v] /\ expect' = [expect EXCEPT ![e][va] = v]
    BY <1>9 DEF Access
  <2> HIDE DEF y
  <2>4. /\ PageStep(w, y, e, va) /\ Base(y) /\ y.env = w.env
        /\ perms(y, e, va) = (perms(w, e, va) \union s) \ c /\ FrameOf(y, e, va) = FrameOf(w, e, va)
    BY <2>2 DEF PermsSet, PageStep
  <2>5. w' = z
    BY <2>3, <2>4 DEF Written
  <2>6. Resident(y, e, va) /\ PageGood(y, e, va) /\ "D" \in perms(y, e, va)
    BY <1>3, <2>4 DEF Resident, PageGood, InPageFile
  <2>7. PageStep(y, z, e, va) /\ z.mm = y.mm /\ z.data[FrameOf(y, e, va)] = v
    BY <1>1, <1>4, <2>4, <2>6, WritePage
  <2> HIDE DEF z
  <2>8. PageStep(w, z, e, va) /\ z.env = y.env
    BY <2>4, <2>7, PageStepTwice DEF PageStep
  <2>9. perms(z, e, va) = perms(y, e, va) /\ FrameOf(z, e, va) = FrameOf(y, e, va)
    BY <2>7 DEF perms, FrameOf, pt_get_page_permissions, get_frame_info
  <2>10. Resident(z, e, va) /\ PageGood(z, e, va) /\ "D" \in perms(z, e, va)
    BY <2>6, <2>8, <2>9 DEF Resident, PageGood, InPageFile
  <2>11. PageHolds(z, e, va, v)
    BY <2>7, <2>9, <2>10 DEF PageHolds
  <2>12. /\ expect' \in [Envs -> [Pages -> Int]] /\ expect'[e][va] = v
         /\ \A d \in Envs : d # e => expect'[d] = expect[d]
         /\ \A u \in Pages : u # va => expect'[e][u] = expect[e][u]
    BY <1>1, <1>5, <2>3
  <2>13. QED
    BY <1>7, <2>5, <2>8, <2>10, <2>11, <2>12
<1>10. QED
  BY <1>8, <1>9

\* env_exit().
LEMMA ExitKeeps ==
  ASSUME PagingInv, NEW e \in Envs, Exit(e)
  PROVE  PagingInv'
<1>1. panic = "no" /\ pending[e] = NoOp /\ Base(w)
  BY DEF Exit, Ready, PagingInv
<1>2. w' = [w EXCEPT !.env[e].status = "dead"] /\ sweeps' = sweeps /\ pending' = pending /\ expect' = expect
  BY DEF Exit
<1>3. Base(w') /\ OnlyEnv(w, w', e) /\ w'.env[e].status = "dead"
  BY <1>1, <1>2, SetDead
<1>4. EnvInv(w', e, expect'[e], pending'[e])
  BY <1>1, <1>2, <1>3 DEF EnvInv
<1>5. sweeps \in Int /\ expect \in [Envs -> [Pages -> Int]] /\ pending \in [Envs -> Accesses]
  BY DEF PagingInv
<1>6. QED
  BY <1>1, <1>2, <1>3, <1>4, <1>5, InvariantKept

\* The command nclock.
LEMMA SetSweepsKeeps ==
  ASSUME PagingInv, NEW n \in Sweeps, SetSweeps(n)
  PROVE  PagingInv'
<1>1. n \in Int
  BY PagingAssumption
<1>2. sweeps' = n /\ w' = w /\ pending' = pending /\ expect' = expect /\ panic' = panic
  BY DEF SetSweeps
<1>3. QED
  BY <1>1, <1>2 DEF PagingInv

-----------------------------------------------------------------------------
(* The heap *)

\* A step of kernel code of environment e after which it shows val.
Kept(x, y, e, val) ==
  /\ Base(y) /\ OnlyEnv(x, y, e) /\ y.env[e].status = x.env[e].status /\ EnvGood(y, e, val)

\* An assignment to the heap's part of the record.
LEMMA SetHeap ==
  ASSUME NEW x, Base(x), NEW e \in Envs, NEW val, EnvGood(x, e, val), NEW r \in EnvRecords,
         r.disk = x.env[e].disk, r.tables = x.env[e].tables, r.status = x.env[e].status,
         r.ws = x.env[e].ws, r.hand = x.env[e].hand,
         \A va \in Area : \A i \in 1 .. r.marked[va] : va + i - 1 \in Area
  PROVE  Kept(x, [x EXCEPT !.env[e] = r], e, val)
<1> DEFINE y == [x EXCEPT !.env[e] = r]
<1>1. Base(y) /\ AllUntouched(x, y) /\ OtherEnvs(x, y, e) /\ y.env[e] = r
  BY SetRecord
<1> HIDE DEF y
<1>2. x \in Worlds /\ FramesApart(x.mm)
  BY DEF Base
<1>3. EnvGood(y, e, val)
  BY <1>1, <1>2, KeptGood DEF AllUntouched
<1>4. Kept(x, y, e, val)
  BY <1>1, <1>3 DEF Kept, OnlyEnv, AllUntouched
<1>5. QED
  BY <1>4 DEF y

\* Marking pages of the heap as reserved.
LEMMA MarkPage ==
  ASSUME NEW x, Base(x), NEW e \in Envs, NEW va \in UHeap, NEW val, EnvGood(x, e, val)
  PROVE  /\ Kept(x, set_perms(x, e, va, {"b10", "U"}, {}), e, val)
         /\ set_perms(x, e, va, {"b10", "U"}, {}).env = x.env
<1> DEFINE s == {"b10", "U"}
           c == {}
           y == set_perms(x, e, va, s, c)
<1>1. s \in SUBSET (Perms \ {"P"}) /\ c \in SUBSET (Perms \ {"P"})
  BY DEF Perms, PERM_AVAILABLE
<1>2. va \in Pages
  BY PartsOfPages
<1>3. PermsSet(x, y, e, va, s, c)
  BY <1>1, <1>2, SetPermsDoes
<1> HIDE DEF y
<1>4. /\ PageStep(x, y, e, va) /\ y.data = x.data /\ y.disk = x.disk /\ y.env = x.env /\ Base(y)
      /\ perms(y, e, va) = (perms(x, e, va) \union s) \ c /\ FrameOf(y, e, va) = FrameOf(x, e, va)
  BY <1>3 DEF PermsSet, PageStep
<1>5. PageGood(x, e, va) /\ PageHolds(x, e, va, val[va])
  BY <1>2 DEF EnvGood, PagesGood, Holds
<1>6. (Resident(y, e, va) <=> Resident(x, e, va)) /\ PageGood(y, e, va)
  BY <1>4, <1>5 DEF Resident, PageGood, InPageFile
<1>7. "D" \in perms(y, e, va) <=> "D" \in perms(x, e, va)
  BY <1>4
<1>8. PageHolds(y, e, va, val[va])
  BY <1>4, <1>5, <1>6, <1>7 DEF PageHolds
<1>9. EnvGood(y, e, val) /\ OnlyEnv(x, y, e) /\ y.env[e] = x.env[e]
  BY <1>2, <1>4, <1>6, <1>8, PageChanged
<1>10. Kept(x, y, e, val) /\ y.env = x.env
  BY <1>4, <1>9 DEF Kept
<1>11. QED
  BY <1>10 DEF y

\* mark() keeps the environment good: it sets bit 10 of pages of the heap.
LEMMA MarkRun ==
  ASSUME NEW x, Base(x), NEW e \in Envs, NEW val, EnvGood(x, e, val), NEW from \in Nat, NEW n \in Nat,
         \A i \in 0 .. n - 1 : from + i \in UHeap
  PROVE  Kept(x, mark(x, e, from, n), e, val) /\ mark(x, e, from, n).env = x.env
<1> DEFINE Step(y, i) == set_perms(y, e, from + i - 1, {"b10", "U"}, {})
           Good == {y \in Worlds : Kept(x, y, e, val) /\ y.env = x.env}
           D == [i \in 0 .. n |-> Good]
           G == [i \in 1 .. n |-> [y \in Good |-> Step(y, i)]]
<1>1. ASSUME NEW i \in 1 .. n, NEW y \in Good
      PROVE  Step(y, i) \in Good
  <2>1. from + (i - 1) \in UHeap /\ from + (i - 1) = from + i - 1
    <3>1. i - 1 \in 0 .. n - 1
      OBVIOUS
    <3>2. from + (i - 1) \in UHeap
      BY <3>1
    <3>3. QED
      BY <3>2
  <2>2. Base(y) /\ EnvGood(y, e, val) /\ OnlyEnv(x, y, e) /\ y.env = x.env
    BY DEF Kept
  <2> DEFINE z == Step(y, i)
  <2>3. Kept(y, z, e, val) /\ z.env = y.env
    BY <2>1, <2>2, MarkPage
  <2> HIDE DEF z
  <2>4. Kept(x, z, e, val) /\ z \in Worlds
    BY <2>2, <2>3, OnlyEnvTwice DEF Kept, Base
  <2>5. QED
    BY <2>2, <2>3, <2>4 DEF z
<1>2. x \in Good
  BY DEF Kept, OnlyEnv, OtherEnvs, Untouched, Base
<1> HIDE DEF Good, Step
<1>3. x \in D[0] /\ \A i \in 1 .. n : \A y \in D[i - 1] : G[i][y] \in D[i]
  BY <1>1, <1>2
<1>4. PICK u : LoopIs(u, n, x, G) /\ \A i \in 0 .. n : u[i] \in D[i]
  <2> HIDE DEF D, G
  <2>1. QED
    BY <1>3, Loop
<1>5. \A i \in 0 .. n : u[i] \in Good
  BY <1>4
<1>6. u = [i \in 0 .. n |-> IF i = 0 THEN x ELSE Step(u[i - 1], i)]
  <2>1. \A i \in 1 .. n : i - 1 \in 0 .. n /\ G[i][u[i - 1]] = Step(u[i - 1], i)
    BY <1>5
  <2> HIDE DEF G
  <2>2. \A i \in 0 .. n : i # 0 => i \in 1 .. n
    OBVIOUS
  <2>3. QED
    BY <1>4, <2>1, <2>2 DEF LoopIs
<1> DEFINE run == CHOOSE run : run = [i \in 0 .. n |-> IF i = 0 THEN x ELSE Step(run[i - 1], i)]
<1>7. run = [i \in 0 .. n |-> IF i = 0 THEN x ELSE Step(run[i - 1], i)]
  BY <1>6
<1> HIDE DEF run
<1>8. \A i \in 0 .. n : run[i] \in Good
  <2> DEFINE S == {i \in Nat : run[i] \in Good}
  <2>1. 0 \in S
    BY <1>2, <1>7
  <2>2. ASSUME NEW i \in 0 .. n - 1, i \in S
        PROVE  i + 1 \in S
    <3>1. i + 1 \in 1 .. n /\ i + 1 \in 0 .. n /\ i + 1 # 0 /\ (i + 1) - 1 = i /\ i + 1 \in Nat
      OBVIOUS
    <3>2. run[i + 1] = Step(run[i], i + 1)
      BY <1>7, <3>1
    <3>3. QED
      BY <1>1, <2>2, <3>1, <3>2
  <2> HIDE DEF S
  <2>3. \A i \in 0 .. n : i \in S
    BY <2>1, <2>2, UpTo
  <2>4. QED
    BY <2>3 DEF S
<1>9. run[n] \in Good
  BY <1>8
<1>10. mark(x, e, from, n) = run[n]
  BY DEF mark, run, Step
<1>11. QED
  BY <1>9, <1>10 DEF Good

\* Two steps that keep e good.
LEMMA KeptTwice ==
  ASSUME NEW x, NEW y, NEW z, NEW e, NEW val, NEW new, Kept(x, y, e, val), Kept(y, z, e, new)
  PROVE  Kept(x, z, e, new)
BY OnlyEnvTwice DEF Kept

\* An action of a live environment that is not accessing a page.
LEMMA KernelKeeps ==
  ASSUME PagingInv, NEW e \in Envs, Ready(e), NEW r, Served(w, r, e, expect[e]), r.end # "env_exit",
         Outcome(r), UNCHANGED <<sweeps, fault, pending, expect>>
  PROVE  PagingInv'
<1>1. panic = "no" /\ w.env[e].status = "live" /\ pending[e] = NoOp
  BY DEF Ready
<1>2. w' = r.w /\ (panic' = "no" => r.end = "ok")
  BY DEF Outcome, Served
<1>3. Base(w')
  BY <1>2 DEF Served
<1>4. sweeps \in Int /\ expect \in [Envs -> [Pages -> Int]] /\ pending \in [Envs -> Accesses]
  BY DEF PagingInv
<1>5. panic' = "no" => OnlyEnv(w, w', e) /\ EnvInv(w', e, expect'[e], pending'[e])
  BY <1>1, <1>2 DEF Served, EnvInv
<1>6. QED
  BY <1>1, <1>3, <1>4, <1>5, InvariantKept

\* What an environment that can make a call finds.
LEMMA ReadyGood ==
  ASSUME PagingInv, NEW e \in Envs, Ready(e)
  PROVE  Base(w) /\ EnvGood(w, e, expect[e])
BY DEF PagingInv, Ready, EnvInv

\* The run of unmarked pages that is found lies inside the area.
LEMMA RunFound ==
  ASSUME NEW x, NEW e, NEW n \in Nat, Runs(x, e, n) # {}
  PROVE  getConsecutiveFreePages(x, e, n) \in Runs(x, e, n)
<1>1. Area \subseteq Nat
  BY PartsOfPages
<1>2. Runs(x, e, n) \in SUBSET Nat
  BY <1>1 DEF Runs
<1>3. \E va \in Runs(x, e, n) : \A u \in Runs(x, e, n) : va <= u
  BY <1>2, LeastNat
<1>4. QED
  BY <1>3 DEF getConsecutiveFreePages

\* malloc() keeps the invariant.
LEMMA MallocKeeps ==
  ASSUME PagingInv, NEW e \in Envs, NEW n \in 1 .. NPage, Malloc(e, n)
  PROVE  PagingInv'
<1> DEFINE va == getConsecutiveFreePages(w, e, n)
           t  == with_table(w, e, 2)
           r  == sys_allocate_user_mem(w, e, va, n)
<1>1. Ready(e) /\ panic = "no" /\ pending[e] = NoOp /\ Outcome(r) /\ UNCHANGED <<sweeps, fault, pending, expect>>
  BY DEF Malloc, Ready
<1>2. Base(w) /\ EnvGood(w, e, expect[e])
  BY <1>1, ReadyGood
<1>3. n \in Nat /\ n >= 1
  BY PagingAssumption
<1>4. va \in Runs(w, e, n)
  BY <1>3, RunFound DEF Malloc
<1>5. va \in Area /\ \A i \in 0 .. n - 1 : va + i \in Area
  BY <1>4 DEF Runs
<1>6. va \in Nat /\ \A i \in 0 .. n - 1 : va + i \in UHeap
  BY <1>5, PartsOfPages
<1> HIDE DEF va
<1>7. CASE Refused(va, n)
  <2> DEFINE y == [w EXCEPT !.env[e].status = "dead"]
  <2>1. r = Done(y)
    BY <1>7 DEF sys_allocate_user_mem
  <2> HIDE DEF r
  <2>2. w' = y /\ panic' = "no"
    BY <1>1, <2>1 DEF Outcome, Done
  <2>3. Base(y) /\ OnlyEnv(w, y, e) /\ y.env[e].status = "dead"
    BY <1>2, SetDead
  <2> HIDE DEF y
  <2>4. EnvInv(w', e, expect'[e], pending'[e])
    BY <1>1, <2>2, <2>3 DEF EnvInv
  <2>5. sweeps \in Int /\ expect \in [Envs -> [Pages -> Int]] /\ pending \in [Envs -> Accesses]
    BY DEF PagingInv
  <2>6. QED
    BY <1>1, <2>2, <2>3, <2>4, <2>5, InvariantKept
<1>8. CASE ~Refused(va, n)
  <2>1. r = allocate_user_mem(t, e, va, n)
    BY <1>8 DEF sys_allocate_user_mem
  <2>2. TableMade(w, t, e, 2)
    BY <1>2, WithTable DEF Tables
  <2>3. Served(w, t, e, expect[e])
    BY <1>2, <2>2, TableServes
  <2>4. t.end # "env_exit"
    BY DEF with_table, create_page_table, Done, Ends
  <2> HIDE DEF r, t
  <2>5. CASE t.end # "ok"
    <3>1. r = t
      BY <2>1, <2>5 DEF allocate_user_mem
    <3>2. QED
      BY <1>1, <2>3, <2>4, <3>1, KernelKeeps
  <2>6. CASE t.end = "ok"
    <3> DEFINE y == mark(t.w, e, va, n)
               k == [y.env[e] EXCEPT !.marked[va] = n]
               z == [y EXCEPT !.env[e] = k]
    <3>1. Base(t.w) /\ EnvGood(t.w, e, expect[e]) /\ OnlyEnv(w, t.w, e)
      BY <2>3, <2>6 DEF Served
    <3>2. r = Done(z)
      BY <2>1, <2>6 DEF allocate_user_mem
    <3>3. Kept(t.w, y, e, expect[e])
      BY <1>3, <1>6, <3>1, MarkRun
    <3> HIDE DEF y
    <3>4. Base(y) /\ EnvGood(y, e, expect[e]) /\ y.env[e] \in EnvRecords
      BY <3>3, EnvTypes DEF Kept, Base
    <3>5. /\ k \in EnvRecords /\ k.disk = y.env[e].disk /\ k.tables = y.env[e].tables
          /\ k.status = y.env[e].status /\ k.ws = y.env[e].ws /\ k.hand = y.env[e].hand
          /\ k.marked = [y.env[e].marked EXCEPT ![va] = n] /\ y.env[e].marked \in [Area -> Nat]
      BY <1>3, <1>5, <3>4 DEF EnvRecords
    <3> HIDE DEF k
    <3>6. ASSUME NEW a \in Area, NEW i \in 1 .. k.marked[a]
          PROVE  a + i - 1 \in Area
      <4>1. CASE a = va
        <5>1. i \in 1 .. n
          BY <3>5, <3>6, <4>1
        <5>2. i - 1 \in 0 .. n - 1
          BY <1>3, <5>1
        <5>3. va + (i - 1) \in Area
          BY <1>5, <5>2
        <5>4. va + (i - 1) = a + i - 1
          BY <1>6, <4>1, <5>1
        <5>5. QED
          BY <5>3, <5>4
      <4>2. CASE a # va
        <5>1. i \in 1 .. y.env[e].marked[a]
          BY <3>5, <3>6, <4>2
        <5>2. MarksInside(y, e)
          BY <3>4 DEF Base, Sound
        <5>3. QED
          BY <5>1, <5>2 DEF MarksInside
      <4>3. QED
        BY <4>1, <4>2
    <3>7. Kept(y, z, e, expect[e])
      BY <3>4, <3>5, <3>6, SetHeap
    <3> HIDE DEF z
    <3>8. Kept(t.w, z, e, expect[e])
      BY <3>3, <3>7, KeptTwice
    <3>9. Served(w, r, e, expect[e]) /\ r.end = "ok"
      <4>1. r.w = z /\ r.end = "ok"
        BY <3>2 DEF Done
      <4>2. OnlyEnv(w, z, e)
        BY <3>1, <3>8, OnlyEnvTwice DEF Kept
      <4>3. z.env[e].status = w.env[e].status
        BY <2>3, <2>6, <3>8 DEF Kept, Served
      <4>4. QED
        BY <3>8, <4>1, <4>2, <4>3 DEF Served, Kept
    <3>10. QED
      BY <1>1, <3>9, KernelKeeps
  <2>7. QED
    BY <2>5, <2>6
<1>9. QED
  BY <1>7, <1>8

\* sys_sbrk() marks one page of the block area and moves the break.
LEMMA SbrkKeeps ==
  ASSUME PagingInv, NEW e \in Envs, Sbrk(e)
  PROVE  PagingInv'
<1> DEFINE t == with_table(w, e, 2)
           r == sys_sbrk(t, e)
<1>1. /\ Ready(e) /\ panic = "no" /\ pending[e] = NoOp /\ Outcome(r)
      /\ UNCHANGED <<sweeps, fault, pending, expect>> /\ w.env[e].brk \in Block
  BY DEF Sbrk, Ready
<1>2. Base(w) /\ EnvGood(w, e, expect[e])
  BY <1>1, ReadyGood
<1>3. TableMade(w, t, e, 2)
  BY <1>2, WithTable DEF Tables
<1>4. Served(w, t, e, expect[e])
  BY <1>2, <1>3, TableServes
<1>5. t.end # "env_exit"
  BY DEF with_table, create_page_table, Done, Ends
<1> HIDE DEF t
<1>6. CASE t.end # "ok"
  <2>1. r = t
    BY <1>6 DEF sys_sbrk
  <2>2. QED
    BY <1>1, <1>4, <1>5, <2>1, KernelKeeps
<1>7. CASE t.end = "ok"
  <2> DEFINE from == t.w.env[e].brk
             y == mark(t.w, e, from, 1)
             b == y.env[e].brk + 1
             k == [y.env[e] EXCEPT !.brk = b]
             z == [y EXCEPT !.env[e] = k]
  <2>1. Base(t.w) /\ EnvGood(t.w, e, expect[e]) /\ OnlyEnv(w, t.w, e)
    BY <1>4, <1>7 DEF Served
  <2>2. r = Done(z)
    BY <1>7 DEF sys_sbrk
  <2>3. w.env[e] \in EnvRecords
    BY <1>2, EnvTypes DEF Base
  <2>4. from = w.env[e].brk
    BY <1>3, <1>7, <2>3 DEF TableMade, EnvRecords
  <2>5. from \in UHeap /\ from \in Nat
    BY <1>1, <2>4, PartsOfPages
  <2> HIDE DEF from, r
  <2>6. 1 \in Nat /\ \A i \in 0 .. 1 - 1 : from + i \in UHeap
    BY <2>5
  <2>7. Kept(t.w, y, e, expect[e])
    BY <2>1, <2>5, <2>6, MarkRun
  <2> HIDE DEF y, b
  <2>8. Base(y) /\ EnvGood(y, e, expect[e]) /\ y.env[e] \in EnvRecords
    BY <2>7, EnvTypes DEF Kept, Base
  <2>9. /\ k \in EnvRecords /\ k.disk = y.env[e].disk /\ k.tables = y.env[e].tables
        /\ k.status = y.env[e].status /\ k.ws = y.env[e].ws /\ k.hand = y.env[e].hand
        /\ k.marked = y.env[e].marked
    <3>1. b \in Int
      BY <2>8 DEF EnvRecords, b
    <3>2. QED
      BY <2>8, <3>1 DEF EnvRecords
  <2> HIDE DEF k
  <2>10. \A va \in Area : \A i \in 1 .. k.marked[va] : va + i - 1 \in Area
    BY <2>8, <2>9 DEF Base, Sound, MarksInside
  <2>11. Kept(y, z, e, expect[e])
    BY <2>8, <2>9, <2>10, SetHeap
  <2> HIDE DEF z
  <2>12. Kept(t.w, z, e, expect[e])
    BY <2>7, <2>11, KeptTwice
  <2>13. r.w = z /\ r.end = "ok"
    BY <2>2 DEF Done
  <2>14. OnlyEnv(w, z, e)
    BY <2>1, <2>12, OnlyEnvTwice DEF Kept
  <2>15. z.env[e].status = w.env[e].status
    BY <1>4, <1>7, <2>12 DEF Kept, Served
  <2>16. Served(w, r, e, expect[e])
    BY <2>12, <2>13, <2>14, <2>15 DEF Served, Kept
  <2>17. QED
    BY <1>1, <2>13, <2>16, KernelKeeps
<1>8. QED
  BY <1>6, <1>7

-----------------------------------------------------------------------------
(* Freeing *)

\* What a page may show, it may show no longer.
LEMMA Forgotten ==
  ASSUME NEW x, NEW e, NEW val, EnvGood(x, e, val), NEW new,
         \A u \in Pages : new[u] = val[u] \/ new[u] = Unknown
  PROVE  EnvGood(x, e, new)
<1>1. \A u \in Pages : PageHolds(x, e, u, new[u])
  BY DEF EnvGood, Holds, PageHolds
<1>2. QED
  BY <1>1 DEF EnvGood, Holds

\* The element of a resident page.
LEMMA WsIndexIs ==
  ASSUME NEW x, NEW e, Listed(x, e), NEW va \in Pages, Resident(x, e, va)
  PROVE  WsIndex(x, e, va) \in DOMAIN x.env[e].ws /\ x.env[e].ws[WsIndex(x, e, va)].va = va
BY DEF Listed, WsIndex

\* The state after one page of e changed, and perhaps its list.
LEMMA OnePageGood ==
  ASSUME NEW x, Base(x), NEW e \in Envs, NEW va \in Pages, NEW val, PagesGood(x, e), Holds(x, e, val),
         NEW z, OnlyPage(x, z, e, va), PageGood(z, e, va), PageHolds(z, e, va, val[va])
  PROVE  /\ PagesGood(z, e) /\ Holds(z, e, val)
         /\ ~Resident(z, e, va) => Residents(z, e) = Residents(x, e) \ {va}
         /\ Resident(z, e, va) => Residents(z, e) = Residents(x, e) \union {va}
<1>1. FramesApart(x.mm)
  BY DEF Base
<1>2. ASSUME NEW a \in Pages
      PROVE  PageGood(z, e, a) /\ PageHolds(z, e, a, val[a]) /\ (a # va => (Resident(z, e, a) <=> Resident(x, e, a)))
  <2>1. PageGood(x, e, a) /\ PageHolds(x, e, a, val[a])
    BY DEF PagesGood, Holds
  <2>2. CASE a # va
    <3>1. Untouched(x, z, e, a)
      BY <2>2 DEF OnlyPage
    <3>2. QED
      BY <1>1, <2>1, <2>2, <3>1, UntouchedGood
  <2>3. CASE a = va
    BY <2>3
  <2>4. QED
    BY <2>2, <2>3
<1>3. QED
  BY <1>2 DEF PagesGood, Holds, Residents

\* A page of the heap loses its frame and its element of the working set.
LEMMA FreeResident ==
  ASSUME NEW x, Base(x), NEW e \in Envs, NEW va \in Area, NEW val, EnvGood(x, e, val),
         val[va] = Unknown, Resident(x, e, va)
  PROVE  /\ Kept(x, set_perms(free_resident(x, e, va), e, va, {}, {"b10", "b11"}), e, val)
         /\ set_perms(free_resident(x, e, va), e, va, {}, {"b10", "b11"}).env[e].marked = x.env[e].marked
<1> DEFINE s == {}
           c == {"b10", "b11"}
           a == Written(x, e, va, Unknown)
           b == WithoutPage(a, e, va)
           k == WsIndex(x, e, va)
           list == RemoveAt(x.env[e].ws, k)
           n == Len(b.env[e].ws)
           h == b.env[e].hand
           hand == IF h = k THEN IF k < n THEN k ELSE IF n = 1 THEN 0 ELSE 1 ELSE IF h > k THEN h - 1 ELSE h
           y == WithList(b, e, list, hand)
           z == set_perms(y, e, va, s, c)
<1>1. /\ s \in SUBSET (Perms \ {"P"}) /\ c \in SUBSET (Perms \ {"P"}) /\ Unknown \in Int
      /\ va \in Pages /\ va # Hole /\ va \in UHeap /\ va \notin Text
  BY PartsOfPages DEF Perms, PERM_AVAILABLE, Unknown
<1>2. x \in Worlds /\ Listed(x, e) /\ PagesGood(x, e) /\ Holds(x, e, val)
  BY DEF Base, EnvGood
<1>3. PageStep(x, a, e, va) /\ a.mm = x.mm
  BY <1>1, WritePage
<1>4. b = [x EXCEPT !.mm = unmap_frame(@, <<e, va>>), !.data[FrameOf(x, e, va)] = Unknown]
  BY <1>2 DEF WithoutPage, Written, Worlds
<1> HIDE DEF a
<1>5. Base(a) /\ Resident(a, e, va)
  BY <1>3 DEF PageStep, perms, pt_get_page_permissions, Resident
<1>6. PageStep(a, b, e, va) /\ perms(b, e, va) = perms(a, e, va) \intersect PERM_AVAILABLE
  BY <1>1, <1>5, UnmapPage
<1>7. free_resident(x, e, va) = ws_remove(b, e, k)
  BY <1>4 DEF free_resident
<1> HIDE DEF b
<1>8. PageStep(x, b, e, va)
  BY <1>3, <1>6, PageStepTwice
<1>9. Base(b) /\ OnlyPage(x, b, e, va) /\ b.env = x.env /\ b.disk = x.disk
  BY <1>8 DEF PageStep
<1>10. ~Resident(b, e, va)
  BY <1>6 DEF Resident, PERM_AVAILABLE
<1>11. k \in DOMAIN x.env[e].ws /\ x.env[e].ws[k].va = va
  BY <1>1, <1>2, WsIndexIs
<1>12. y = ws_remove(b, e, k)
  BY <1>9 DEF ws_remove, WithList
<1>13. x.env[e].ws \in Seq(Elements) /\ x.env[e].hand \in Int
  BY <1>2, EnvTypes
<1>14. k \in Int /\ n \in Int /\ h \in Int /\ Len(x.env[e].ws) \in Nat
  BY <1>9, <1>11, <1>13
<1>15. hand \in Int
  BY <1>14
<1>16. list \in Seq(Elements) /\ Len(list) = Len(x.env[e].ws) - 1
  BY <1>11, <1>13, RemoveElement
<1> HIDE DEF k, hand, n, h
<1>17. Lists(list, Residents(x, e) \ {va})
  BY <1>2, <1>11, <1>13, ListedMeans, ListsRemove
<1> HIDE DEF list
<1>18. OnlyWs(b, y, e) /\ y.env[e].ws = list
  BY <1>9, <1>15, <1>16, SetWorkingSet
<1> HIDE DEF y
<1>19. Base(y) /\ AllUntouched(b, y) /\ OtherEnvs(b, y, e) /\ y.mm = b.mm /\ y.disk = b.disk
       /\ y.env[e].status = x.env[e].status /\ y.env[e].marked = x.env[e].marked
  BY <1>9, <1>18 DEF OnlyWs
<1>20. PermsSet(y, z, e, va, s, c)
  BY <1>1, <1>19, SetPermsDoes
<1> HIDE DEF z
<1>21. /\ Base(z) /\ OnlyPage(y, z, e, va) /\ z.env = y.env
       /\ perms(z, e, va) = (perms(y, e, va) \union s) \ c
  BY <1>20 DEF PermsSet, PageStep
<1>22. ~Resident(z, e, va) /\ "b11" \notin perms(z, e, va)
  BY <1>10, <1>19, <1>21 DEF Resident, perms, pt_get_page_permissions
<1>23. OnlyPage(x, z, e, va)
  <2>1. OnlyPage(b, y, e, va)
    BY <1>19 DEF AllUntouched, OnlyPage
  <2>2. OnlyPage(x, y, e, va)
    BY <1>9, <2>1, OnlyPageTwice
  <2>3. QED
    BY <1>21, <2>2, OnlyPageTwice
<1>24. PageGood(z, e, va) /\ PageHolds(z, e, va, val[va])
  BY <1>1, <1>22 DEF PageGood, PageHolds
<1>25. PagesGood(z, e) /\ Holds(z, e, val) /\ Residents(z, e) = Residents(x, e) \ {va}
  BY <1>1, <1>2, <1>22, <1>23, <1>24, OnePageGood
<1>26. Handy(z, e)
  <2>1. Len(x.env[e].ws) <= page_WS_max_size
    BY <1>2 DEF Listed
  <2>2. page_WS_max_size \in Nat \ {0}
    BY PagingAssumption
  <2>3. Len(z.env[e].ws) <= page_WS_max_size /\ Len(z.env[e].ws) # page_WS_max_size
    BY <1>14, <1>16, <1>18, <1>21, <2>1, <2>2
  <2>4. QED
    BY <2>3 DEF Handy, Full
<1>27. Listed(z, e)
  BY <1>17, <1>18, <1>21, <1>25, <1>26, ListedMeans DEF Base
<1>28. OtherEnvs(x, z, e)
  BY <1>9, <1>19, <1>21 DEF OtherEnvs
<1>29. OnlyEnv(x, z, e)
  BY <1>23, <1>28, OnlyPageEnv
<1>30. Kept(x, z, e, val) /\ z.env[e].marked = x.env[e].marked
  BY <1>19, <1>21, <1>25, <1>27, <1>29 DEF Kept, EnvGood
<1>31. QED
  BY <1>7, <1>12, <1>30 DEF z

\* free_user_mem() of one page.
LEMMA FreePage ==
  ASSUME NEW x, Base(x), NEW e \in Envs, NEW va \in Area, NEW val, EnvGood(x, e, val),
         val[va] = Unknown
  PROVE  Kept(x, free_page(x, e, va), e, val) /\ free_page(x, e, va).env[e].marked = x.env[e].marked
<1>1. va \in Pages /\ va # Hole /\ va \in UHeap /\ va \notin Text
  BY PartsOfPages
<1>2. PageGood(x, e, va)
  BY <1>1 DEF EnvGood, PagesGood
<1>3. Resident(x, e, va) <=> "b11" \in perms(x, e, va)
  BY <1>1, <1>2 DEF PageGood
<1>4. CASE Resident(x, e, va)
  <2>1. free_page(x, e, va) = set_perms(free_resident(x, e, va), e, va, {}, {"b10", "b11"})
    BY <1>3, <1>4 DEF free_page, Resident
  <2>2. QED
    BY <1>4, <2>1, FreeResident
<1>5. CASE ~Resident(x, e, va)
  <2> DEFINE s == {}
             c == {"b10"}
             y == set_perms(x, e, va, s, c)
  <2>1. s \in SUBSET (Perms \ {"P"}) /\ c \in SUBSET (Perms \ {"P"})
    BY DEF Perms, PERM_AVAILABLE
  <2>2. free_page(x, e, va) = y
    BY <1>3, <1>5 DEF free_page
  <2>3. PermsSet(x, y, e, va, s, c)
    BY <1>1, <2>1, SetPermsDoes
  <2> HIDE DEF y
  <2>4. PageStep(x, y, e, va) /\ Base(y) /\ perms(y, e, va) = (perms(x, e, va) \union s) \ c
    BY <2>3 DEF PermsSet, PageStep
  <2>5. ~Resident(y, e, va) /\ "b11" \notin perms(y, e, va)
    BY <1>3, <1>5, <2>4 DEF Resident
  <2>6. PageGood(y, e, va) /\ PageHolds(y, e, va, val[va])
    BY <1>1, <2>5 DEF PageGood, PageHolds
  <2>7. EnvGood(y, e, val) /\ OnlyEnv(x, y, e) /\ y.env[e] = x.env[e]
    BY <1>1, <1>5, <2>4, <2>5, <2>6, PageChanged
  <2>8. QED
    BY <2>2, <2>4, <2>7 DEF Kept
<1>6. QED
  BY <1>4, <1>5

\* ... and of a run of pages.
FreedRun(x, e, from, n) == CHOOSE run : run = [i \in 0 .. n |-> IF i = 0 THEN x ELSE free_page(run[i - 1], e, from + i - 1)]

\* The pages of the run lie in the area, and none of them has to show anything.
RunForgotten(val, from, n) == \A i \in 1 .. n : from + i - 1 \in Area /\ val[from + i - 1] = Unknown

\* Freeing the pages of a run keeps e good, if nothing is expected of them.
LEMMA FreeRun ==
  ASSUME NEW x, Base(x), NEW e \in Envs, NEW val, EnvGood(x, e, val), NEW from \in Nat, NEW n \in Nat,
         RunForgotten(val, from, n)
  PROVE  /\ Kept(x, FreedRun(x, e, from, n)[n], e, val)
         /\ FreedRun(x, e, from, n)[n].env[e].marked = x.env[e].marked
<1> DEFINE Step(y, i) == free_page(y, e, from + i - 1)
           Good == {y \in Worlds : Kept(x, y, e, val) /\ y.env[e].marked = x.env[e].marked}
           D == [i \in 0 .. n |-> Good]
           G == [i \in 1 .. n |-> [y \in Good |-> Step(y, i)]]
<1>1. ASSUME NEW i \in 1 .. n, NEW y \in Good
      PROVE  Step(y, i) \in Good
  <2>1. Base(y) /\ EnvGood(y, e, val) /\ OnlyEnv(x, y, e) /\ y.env[e].marked = x.env[e].marked
    BY DEF Kept
  <2> DEFINE z == Step(y, i)
  <2>2. Kept(y, z, e, val) /\ z.env[e].marked = y.env[e].marked
    BY <2>1, FreePage DEF RunForgotten
  <2> HIDE DEF z
  <2>3. Kept(x, y, e, val)
    OBVIOUS
  <2>4. Kept(x, z, e, val) /\ z \in Worlds
    BY <2>2, <2>3, KeptTwice DEF Kept, Base
  <2>5. QED
    BY <2>1, <2>2, <2>4 DEF z
<1>2. x \in Good
  BY DEF Kept, OnlyEnv, OtherEnvs, Untouched, Base
<1> HIDE DEF Good, Step
<1>3. x \in D[0] /\ \A i \in 1 .. n : \A y \in D[i - 1] : G[i][y] \in D[i]
  BY <1>1, <1>2
<1>4. PICK u : LoopIs(u, n, x, G) /\ \A i \in 0 .. n : u[i] \in D[i]
  <2> HIDE DEF D, G
  <2>1. QED
    BY <1>3, Loop
<1>5. \A i \in 0 .. n : u[i] \in Good
  BY <1>4
<1>6. u = [i \in 0 .. n |-> IF i = 0 THEN x ELSE Step(u[i - 1], i)]
  <2>1. \A i \in 1 .. n : i - 1 \in 0 .. n /\ G[i][u[i - 1]] = Step(u[i - 1], i)
    BY <1>5
  <2> HIDE DEF G
  <2>2. \A i \in 0 .. n : i # 0 => i \in 1 .. n
    OBVIOUS
  <2>3. QED
    BY <1>4, <2>1, <2>2 DEF LoopIs
<1> DEFINE run == CHOOSE run : run = [i \in 0 .. n |-> IF i = 0 THEN x ELSE Step(run[i - 1], i)]
<1>7. run = [i \in 0 .. n |-> IF i = 0 THEN x ELSE Step(run[i - 1], i)]
  BY <1>6
<1> HIDE DEF run
<1>8. \A i \in 0 .. n : run[i] \in Good
  <2> DEFINE S == {i \in Nat : run[i] \in Good}
  <2>1. 0 \in S
    BY <1>2, <1>7
  <2>2. ASSUME NEW i \in 0 .. n - 1, i \in S
        PROVE  i + 1 \in S
    <3>1. i + 1 \in 1 .. n /\ i + 1 \in 0 .. n /\ i + 1 # 0 /\ (i + 1) - 1 = i /\ i + 1 \in Nat
      OBVIOUS
    <3>2. run[i + 1] = Step(run[i], i + 1)
      BY <1>7, <3>1
    <3>3. QED
      BY <1>1, <2>2, <3>1, <3>2
  <2> HIDE DEF S
  <2>3. \A i \in 0 .. n : i \in S
    BY <2>1, <2>2, UpTo
  <2>4. QED
    BY <2>3 DEF S
<1>9. run[n] \in Good
  BY <1>8
<1>10. FreedRun(x, e, from, n) = run
  BY DEF FreedRun, run, Step
<1>11. QED
  BY <1>9, <1>10 DEF Good

\* free() keeps the invariant.
LEMMA FreeKeeps ==
  ASSUME PagingInv, NEW e \in Envs, NEW va \in Area, Free(e, va)
  PROVE  PagingInv'
<1> DEFINE n == w.env[e].marked[va]
           new == [u \in Pages |-> IF u >= va /\ u < va + n THEN Unknown ELSE expect[e][u]]
           y == FreedRun(w, e, va, n)[n]
           k == [y.env[e] EXCEPT !.marked[va] = 0]
           z == [y EXCEPT !.env[e] = k]
<1>1. Ready(e) /\ panic = "no" /\ pending[e] = NoOp /\ w.env[e].status = "live"
  BY DEF Free, Ready
<1>2. Base(w) /\ EnvGood(w, e, expect[e])
  BY <1>1, ReadyGood
<1>3. sweeps \in Int /\ expect \in [Envs -> [Pages -> Int]] /\ pending \in [Envs -> Accesses]
  BY DEF PagingInv
<1>4. w' = z /\ expect' = [expect EXCEPT ![e] = new] /\ UNCHANGED <<sweeps, fault, pending, panic>>
  <2>1. free_user_mem(w, e, va, n) = z
    BY DEF free_user_mem, FreedRun
  <2>2. expect' = [expect EXCEPT ![e] = new]
    BY <1>3 DEF Free
  <2>3. QED
    BY <2>1, <2>2 DEF Free
<1>5. w.env[e].marked \in [Area -> Nat]
  BY <1>2, EnvTypes DEF Base
<1>6. n \in Nat /\ va \in Nat /\ va \in Pages
  BY <1>5, PartsOfPages
<1>7. \A i \in 1 .. n : va + i - 1 \in Area
  BY <1>2 DEF Base, Sound, MarksInside
<1>8. new \in [Pages -> Int] /\ \A u \in Pages : new[u] = expect[e][u] \/ new[u] = Unknown
  <2>1. Unknown \in Int
    BY DEF Unknown
  <2> HIDE DEF n
  <2>2. QED
    BY <1>3, <2>1
<1>9. ASSUME NEW i \in 1 .. n
      PROVE  va + i - 1 \in Area /\ new[va + i - 1] = Unknown
  <2>1. va + i - 1 \in Area /\ va + i - 1 \in Pages
    BY <1>7, PartsOfPages
  <2> HIDE DEF n
  <2>2. va + i - 1 >= va /\ va + i - 1 < va + n
    BY <1>6
  <2>3. QED
    BY <2>1, <2>2
<1> HIDE DEF new, n
<1>10. EnvGood(w, e, new)
  BY <1>2, <1>8, Forgotten
<1> HIDE DEF k, z
<1>11. Kept(w, y, e, new) /\ y.env[e].marked = w.env[e].marked
  <2>1. RunForgotten(new, va, n)
    BY <1>9 DEF RunForgotten
  <2>2. Base(w)
    BY <1>2
  <2>3. n \in Nat /\ va \in Nat
    BY <1>6
  <2>4. QED
    BY <2>1, <2>2, <2>3, <1>10, FreeRun
<1> HIDE DEF y
<1>12. Base(y) /\ EnvGood(y, e, new) /\ y.env[e] \in EnvRecords
  BY <1>11, EnvTypes DEF Kept, Base
<1>13. /\ k \in EnvRecords /\ k.disk = y.env[e].disk /\ k.tables = y.env[e].tables
       /\ k.status = y.env[e].status /\ k.ws = y.env[e].ws /\ k.hand = y.env[e].hand
       /\ k.marked = [y.env[e].marked EXCEPT ![va] = 0] /\ y.env[e].marked \in [Area -> Nat]
  BY <1>12 DEF EnvRecords, k
<1>14. ASSUME NEW a \in Area, NEW i \in 1 .. k.marked[a]
       PROVE  a + i - 1 \in Area
  <2>1. CASE a = va
    BY <1>13, <1>14, <2>1
  <2>2. CASE a # va
    <3>1. i \in 1 .. y.env[e].marked[a]
      BY <1>13, <1>14, <2>2
    <3>2. QED
      BY <1>12, <3>1 DEF Base, Sound, MarksInside
  <2>3. QED
    BY <2>1, <2>2
<1>15. Kept(y, z, e, new)
  BY <1>12, <1>13, <1>14, SetHeap DEF z
<1>16. Kept(w, z, e, new)
  BY <1>11, <1>15, KeptTwice
<1>17. Base(w') /\ OnlyEnv(w, w', e) /\ w'.env[e].status = "live" /\ EnvGood(w', e, new)
  BY <1>1, <1>4, <1>16 DEF Kept
<1>18. expect' \in [Envs -> [Pages -> Int]] /\ expect'[e] = new /\ \A c \in Envs : c # e => expect'[c] = expect[c]
  BY <1>3, <1>4, <1>8
<1>19. EnvInv(w', e, expect'[e], pending'[e])
  BY <1>1, <1>4, <1>17, <1>18 DEF EnvInv
<1>20. QED
  BY <1>1, <1>3, <1>4, <1>17, <1>18, <1>19, InvariantKept

-----------------------------------------------------------------------------
(* Creating an environment *)

\* What a page of the program or the stack page first holds; the stack page
\* counts as modified.
First(u) == IF u \in Text THEN Image(u) ELSE Zero
PageLoaded(y, e, u) == /\ y.data[FrameOf(y, e, u)] = First(u)
                       /\ "D" \in perms(y, e, u) <=> u \notin Text
PageFiled(y, e, u)  == y.env[e].disk[u] # 0 /\ y.disk.data[y.env[e].disk[u]] = Image(u)

PagesLoaded(y, e, R, F) == /\ \A u \in R : PageLoaded(y, e, u)
                           /\ \A u \in F : PageFiled(y, e, u)
                           /\ \A u \in UHeap : "b11" \notin perms(y, e, u)

\* The environment with the pages of R loaded, n of them, and those of F in the
\* page file; x is the memory before it was created.
Loading(x, y, e, R, F, n) ==
  /\ Base(y) /\ OnlyEnv(x, y, e) /\ y.env[e].status = "live"
  /\ Lists(y.env[e].ws, R) /\ Residents(y, e) = R
  /\ Handy(y, e) /\ Len(y.env[e].ws) = n /\ PagesLoaded(y, e, R, F)

Stops == {"no memory", "page file full"}
Creating(x, r, e, R, F, n) ==
  /\ r.end \in Stops \union {"ok"} /\ Base(r.w)
  /\ r.end = "ok" => Loading(x, r.w, e, R, F, n)

\* A page that an operation leaves alone.
LEMMA LoadedKept ==
  ASSUME NEW x, NEW y, FramesApart(x.mm), NEW e \in Envs, NEW u \in Pages, Untouched(x, y, e, u)
  PROVE  /\ u # Hole /\ Resident(x, e, u) /\ PageLoaded(x, e, u) => PageLoaded(y, e, u)
         /\ PageFiled(x, e, u) => PageFiled(y, e, u)
         /\ Resident(y, e, u) <=> Resident(x, e, u)
         /\ perms(y, e, u) = perms(x, e, u)
<1>1. (Resident(y, e, u) <=> Resident(x, e, u)) /\ perms(y, e, u) = perms(x, e, u) /\ FrameOf(y, e, u) = FrameOf(x, e, u)
  BY UntouchedGood
<1>2. PageFiled(x, e, u) => PageFiled(y, e, u)
  BY DEF Untouched, PageFiled
<1>3. ASSUME u # Hole, Resident(x, e, u), PageLoaded(x, e, u)
      PROVE  PageLoaded(y, e, u)
  <2>1. <<e, u>> \in Owners
    BY <1>3, PagesApart
  <2>2. x.mm.pt[<<e, u>>].frame # NoFrame
    BY <1>3, <2>1 DEF FramesApart, Resident, perms, pt_get_page_permissions
  <2>3. y.data[FrameOf(x, e, u)] = x.data[FrameOf(x, e, u)]
    BY <1>3, <2>2 DEF Untouched, FrameOf, get_frame_info
  <2>4. QED
    BY <1>1, <1>3, <2>3 DEF PageLoaded
<1>4. QED
  BY <1>1, <1>2, <1>3

\* The page table of a part of the address space.
LEMMA LoadTable ==
  ASSUME NEW x, NEW y, NEW e \in Envs, NEW t \in Tables, NEW R \in SUBSET (Text \union {Top}),
         NEW F \in SUBSET Text, NEW n \in Nat, Loading(x, y, e, R, F, n)
  PROVE  Creating(x, with_table(y, e, t), e, R, F, n)
<1> DEFINE r == with_table(y, e, t)
<1>1. Base(y) /\ y \in Worlds /\ FramesApart(y.mm)
  BY DEF Loading, Base
<1>2. TableMade(y, r, e, t)
  BY <1>1, WithTable
<1> SUFFICES Creating(x, r, e, R, F, n)
  OBVIOUS
<1> HIDE DEF r
<1>3. CASE r.end # "ok"
  <2>1. r = Ends(y, "no memory")
    BY <1>2, <1>3 DEF TableMade
  <2>2. r.w = y /\ r.end = "no memory"
    BY <2>1 DEF Ends
  <2>3. r.end \in Stops
    BY <2>2 DEF Stops
  <2>4. QED
    BY <1>1, <1>3, <2>2, <2>3 DEF Creating
<1>4. CASE r.end = "ok"
  <2>1. /\ Base(r.w) /\ AllUntouched(y, r.w) /\ OtherEnvs(y, r.w, e)
        /\ r.w.env[e] = [y.env[e] EXCEPT !.tables = r.w.env[e].tables]
    BY <1>2, <1>4 DEF TableMade
  <2>2. y.env[e] \in EnvRecords
    BY <1>1, EnvTypes
  <2>3. /\ r.w.env[e].ws = y.env[e].ws /\ r.w.env[e].hand = y.env[e].hand
        /\ r.w.env[e].status = y.env[e].status
    BY <2>1, <2>2 DEF EnvRecords
  <2>4. \A u \in Pages : Untouched(y, r.w, e, u)
    BY <2>1 DEF AllUntouched
  <2>5. OnlyEnv(x, r.w, e)
    BY <2>1, OnlyEnvTwice DEF OnlyEnv, AllUntouched, Loading
  <2>6. R \subseteq Pages /\ F \subseteq Pages /\ UHeap \subseteq Pages /\ Hole \notin R
    BY PartsOfPages
  <2>7. Residents(y, e) = R /\ Residents(r.w, e) = R
    BY <1>1, <2>4, LoadedKept DEF Loading, Residents
  <2>8. \A u \in R : PageLoaded(r.w, e, u)
    BY <1>1, <2>4, <2>6, <2>7, LoadedKept DEF Loading, PagesLoaded, Residents
  <2>9. (\A u \in F : PageFiled(r.w, e, u)) /\ \A u \in UHeap : "b11" \notin perms(r.w, e, u)
    BY <1>1, <2>4, <2>6, LoadedKept DEF Loading, PagesLoaded
  <2>10. Handy(r.w, e)
    BY <2>3 DEF Loading, Handy, Full
  <2>11. Loading(x, r.w, e, R, F, n)
    BY <2>1, <2>3, <2>5, <2>7, <2>8, <2>9, <2>10 DEF Loading, PagesLoaded
  <2>12. r.end \in Stops \union {"ok"}
    BY <1>4
  <2>13. QED
    BY <2>1, <2>11, <2>12 DEF Creating
<1>5. QED
  BY <1>3, <1>4

\* A step that leaves all pages of e but va alone keeps what was loaded of them.
OthersAre(z, e, va, R, F) ==
  /\ \A u \in R : u # va => PageLoaded(z, e, u)
  /\ \A u \in F : u # va => PageFiled(z, e, u)
  /\ \A u \in UHeap : u # va => "b11" \notin perms(z, e, u)
  /\ \A u \in Pages : u # va => (Resident(z, e, u) <=> u \in R)

\* Loading page va leaves the pages as they are that were loaded before.
LEMMA OthersLoaded ==
  ASSUME NEW y, FramesApart(y.mm), NEW z, NEW e \in Envs, NEW va, OnlyPage(y, z, e, va),
         NEW R \in SUBSET (Text \union {Top}), NEW F \in SUBSET Text, Residents(y, e) = R,
         PagesLoaded(y, e, R, F)
  PROVE  OthersAre(z, e, va, R, F)
<1>1. \A u \in Pages : u # va => Untouched(y, z, e, u)
  BY DEF OnlyPage
<1>2. R \subseteq Pages /\ F \subseteq Pages /\ UHeap \subseteq Pages /\ Hole \notin R
  BY PartsOfPages
<1>3. \A u \in R : Resident(y, e, u)
  BY DEF Residents
<1>4. \A u \in R : u # va => PageLoaded(z, e, u)
  BY <1>1, <1>2, <1>3, LoadedKept DEF PagesLoaded
<1>5. \A u \in F : u # va => PageFiled(z, e, u)
  BY <1>1, <1>2, LoadedKept DEF PagesLoaded
<1>6. \A u \in UHeap : u # va => "b11" \notin perms(z, e, u)
  BY <1>1, <1>2, LoadedKept DEF PagesLoaded
<1>7. \A u \in Pages : u # va => (Resident(z, e, u) <=> u \in R)
  BY <1>1, LoadedKept DEF Residents
<1>8. QED
  BY <1>4, <1>5, <1>6, <1>7 DEF OthersAre

\* One page is loaded: it gets an element, a frame and its first contents.
WithLoaded(y, e, va, bits) ==
  [insert_tail(y, e, va) EXCEPT
     !.mm = allocate_and_map(@, <<e, va>>, {"P", "W", "U"} \union bits),
     !.data[FreeFrame(y.mm)] = First(va)]

\* Loading a page adds it to those that are loaded.
LEMMA LoadOne ==
  ASSUME NEW x, NEW y, NEW e \in Envs, NEW R \in SUBSET (Text \union {Top}), NEW F \in SUBSET Text,
         NEW n \in Nat, Loading(x, y, e, R, F, n), n < page_WS_max_size,
         NEW va \in Text \union {Top}, va \notin R, y.mm.free # <<>>,
         NEW bits \in SUBSET {"A", "D"}, "D" \in bits <=> va \notin Text
  PROVE  Loading(x, WithLoaded(y, e, va, bits), e, R \union {va}, F, n + 1)
<1> DEFINE u == insert_tail(y, e, va)
           el == env_page_ws_list_create_element(va)
           perm == {"P", "W", "U"} \union bits
           p == WithPage(u, e, va, perm)
           z == Written(p, e, va, First(va))
<1>1. /\ va \in Pages /\ va # Hole /\ va \notin UHeap /\ R \subseteq Pages
      /\ First(va) \in Int /\ perm \in SUBSET Perms
  <2>1. va \in Pages /\ va # Hole /\ va \notin UHeap /\ R \subseteq Pages /\ va \in Nat
    BY PartsOfPages
  <2>2. First(va) \in Int
    BY <2>1 DEF First, Image, Zero
  <2>3. perm \in SUBSET Perms
    BY DEF Perms, PERM_AVAILABLE
  <2>4. QED
    BY <2>1, <2>2, <2>3
<1>2. /\ Base(y) /\ OnlyEnv(x, y, e) /\ y.env[e].status = "live" /\ Lists(y.env[e].ws, R)
      /\ Residents(y, e) = R /\ Len(y.env[e].ws) = n /\ FramesApart(y.mm)
      /\ y \in Worlds /\ y.env[e].ws \in Seq(Elements)
  BY EnvTypes DEF Loading, Base
<1>3. /\ OnlyWs(y, u, e) /\ el \in Elements /\ el.va = va
      /\ u.env[e].ws = Append(y.env[e].ws, el) /\ (Full(u, e) => u.env[e].hand = 1)
  BY <1>1, <1>2, InsertTail DEF env_page_ws_list_create_element
<1>4. /\ Base(u) /\ AllUntouched(y, u) /\ OtherEnvs(y, u, e) /\ u.mm = y.mm
      /\ u.env[e].status = "live"
  BY <1>2, <1>3 DEF OnlyWs
<1>5. ~Resident(y, e, va) /\ ~Resident(u, e, va)
  BY <1>1, <1>2, <1>4 DEF Residents, Resident, perms, pt_get_page_permissions
<1>6. u \in Worlds
  BY <1>4 DEF Base
<1> HIDE DEF u, el
<1>7. /\ PageStep(u, p, e, va)
      /\ perms(p, e, va) = (perms(u, e, va) \intersect PERM_AVAILABLE) \union perm \union {"P"}
      /\ FrameOf(p, e, va) = FreeFrame(y.mm)
  <2>1. perm \in SUBSET Perms /\ va \in Pages /\ va # Hole /\ u.mm.free # <<>> /\ u.mm = y.mm
    BY <1>1, <1>4
  <2> HIDE DEF perm
  <2>2. QED
    BY <1>4, <1>5, <2>1, MapPage
<1>8. z = WithLoaded(y, e, va, bits)
  <2>1. FrameOf(p, e, va) = FreeFrame(y.mm)
    BY <1>7
  <2>2. z = [p EXCEPT !.data[FreeFrame(y.mm)] = First(va)]
    BY <2>1 DEF Written
  <2>3. [p EXCEPT !.data[FreeFrame(y.mm)] = First(va)]
         = [u EXCEPT !.mm = allocate_and_map(@, <<e, va>>, perm), !.data[FreeFrame(y.mm)] = First(va)]
    BY <1>6 DEF WithPage, Worlds
  <2>4. QED
    BY <2>2, <2>3 DEF WithLoaded, u
<1> SUFFICES Loading(x, z, e, R \union {va}, F, n + 1)
  BY <1>8
<1> HIDE DEF p
<1>9. Base(p) /\ OnlyPage(u, p, e, va) /\ p.env = u.env /\ Resident(p, e, va)
  BY <1>7 DEF PageStep, Resident
<1>10. PageStep(p, z, e, va) /\ z.mm = p.mm /\ z.data[FrameOf(p, e, va)] = First(va)
  BY <1>1, <1>9, WritePage
<1> HIDE DEF z
<1>11. /\ Base(z) /\ OnlyPage(p, z, e, va) /\ z.env = u.env
       /\ perms(z, e, va) = perms(p, e, va) /\ FrameOf(z, e, va) = FrameOf(p, e, va)
  BY <1>9, <1>10 DEF PageStep, perms, pt_get_page_permissions, FrameOf, get_frame_info
<1>12. OnlyPage(y, z, e, va)
  <2>1. OnlyPage(y, u, e, va)
    BY <1>4 DEF AllUntouched, OnlyPage
  <2>2. OnlyPage(y, p, e, va)
    BY <1>9, <2>1, OnlyPageTwice
  <2>3. QED
    BY <1>11, <2>2, OnlyPageTwice
<1>13. Resident(z, e, va) /\ PageLoaded(z, e, va)
  <2>1. "D" \in perms(z, e, va) <=> "D" \in bits
    BY <1>7, <1>11 DEF PERM_AVAILABLE
  <2>2. QED
    BY <1>9, <1>10, <1>11, <2>1 DEF PageLoaded, Resident
<1>14. /\ \A a \in R : a # va => PageLoaded(z, e, a)
       /\ \A a \in F : a # va => PageFiled(z, e, a)
       /\ \A a \in UHeap : a # va => "b11" \notin perms(z, e, a)
       /\ \A a \in Pages : a # va => (Resident(z, e, a) <=> a \in R)
  <2>1. PagesLoaded(y, e, R, F)
    BY DEF Loading
  <2>2. FramesApart(y.mm) /\ Residents(y, e) = R
    BY <1>2
  <2>3. OthersAre(z, e, va, R, F)
    BY <1>12, <2>1, <2>2, OthersLoaded
  <2>4. QED
    BY <2>3 DEF OthersAre
<1>15. \A a \in F : PageFiled(z, e, a)
  <2>1. CASE va \in F
    <3>1. PageFiled(y, e, va)
      BY <2>1 DEF Loading, PagesLoaded
    <3>2. z.env[e].disk = y.env[e].disk /\ z.disk = y.disk
      BY <1>3, <1>7, <1>10 DEF OnlyWs, PageStep
    <3>3. PageFiled(z, e, va)
      BY <3>1, <3>2 DEF PageFiled
    <3>4. QED
      BY <1>14, <3>3
  <2>2. CASE va \notin F
    BY <1>14, <2>2
  <2>3. QED
    BY <2>1, <2>2
<1>16. Residents(z, e) = R \union {va}
  BY <1>1, <1>13, <1>14 DEF Residents
<1>17. OnlyEnv(x, z, e)
  <2>1. OtherEnvs(y, z, e)
    BY <1>4, <1>11 DEF OtherEnvs
  <2>2. OnlyEnv(y, z, e)
    BY <1>12, <2>1, OnlyPageEnv
  <2>3. QED
    BY <1>2, <2>2, OnlyEnvTwice
<1>18. Lists(z.env[e].ws, R \union {va}) /\ Len(z.env[e].ws) = n + 1
  <2>1. Lists(Append(y.env[e].ws, el), R \union {el.va})
    BY <1>2, <1>3, ListsAppend
  <2>2. Len(Append(y.env[e].ws, el)) = n + 1
    BY <1>2, <1>3
  <2>3. QED
    BY <1>3, <1>11, <2>1, <2>2
<1>19. Handy(z, e)
  <2>1. page_WS_max_size \in Nat \ {0}
    BY PagingAssumption
  <2>2. Len(z.env[e].ws) <= page_WS_max_size /\ 1 \in 1 .. page_WS_max_size
    BY <1>18, <2>1
  <2>3. Full(z, e) => z.env[e].hand = 1
    BY <1>3, <1>11 DEF Full
  <2>4. QED
    BY <2>2, <2>3 DEF Handy
<1>20. (\A a \in R \union {va} : PageLoaded(z, e, a)) /\ \A a \in UHeap : "b11" \notin perms(z, e, a)
  BY <1>1, <1>13, <1>14
<1>21. QED
  BY <1>4, <1>11, <1>15, <1>16, <1>17, <1>18, <1>19, <1>20 DEF Loading, PagesLoaded

\* ... unless there is no frame.
LEMMA LoadPage ==
  ASSUME NEW x, NEW r, NEW e \in Envs, NEW R \in SUBSET (Text \union {Top}), NEW F \in SUBSET Text,
         NEW n \in Nat, Creating(x, r, e, R, F, n), n < page_WS_max_size,
         NEW va \in Text \union {Top}, va \notin R,
         NEW bits \in SUBSET {"A", "D"}, "D" \in bits <=> va \notin Text
  PROVE  Creating(x, load_page(r, e, va, First(va), bits), e, R \union {va}, F, n + 1)
<1> DEFINE q == load_page(r, e, va, First(va), bits)
<1> SUFFICES Creating(x, q, e, R \union {va}, F, n + 1)
  OBVIOUS
<1>1. Base(r.w) /\ r.end \in Stops \union {"ok"}
  BY DEF Creating
<1>2. CASE r.end # "ok"
  <2>1. q = r
    BY <1>2 DEF load_page
  <2>2. QED
    BY <1>1, <1>2, <2>1 DEF Creating
<1>3. CASE r.end = "ok" /\ Len(r.w.mm.free) = 0
  <2>1. q = Ends(r.w, "no memory")
    BY <1>3 DEF load_page
  <2> HIDE DEF q
  <2>2. q.w = r.w /\ q.end = "no memory"
    BY <2>1 DEF Ends
  <2>3. q.end \in Stops /\ q.end # "ok"
    BY <2>2 DEF Stops
  <2>4. QED
    BY <1>1, <2>2, <2>3 DEF Creating
<1>4. CASE r.end = "ok" /\ Len(r.w.mm.free) # 0
  <2>1. q = Done(WithLoaded(r.w, e, va, bits))
    BY <1>4 DEF load_page, WithLoaded
  <2> HIDE DEF q
  <2>2. q.w = WithLoaded(r.w, e, va, bits) /\ q.end = "ok"
    BY <2>1 DEF Done
  <2>3. Loading(x, r.w, e, R, F, n)
    BY <1>4 DEF Creating
  <2>4. r.w.mm.free # <<>>
    BY <1>4
  <2>5. Loading(x, q.w, e, R \union {va}, F, n + 1)
    BY <2>2, <2>3, <2>4, LoadOne
  <2>6. Base(q.w)
    BY <2>5 DEF Loading
  <2>7. QED
    BY <2>2, <2>5, <2>6 DEF Creating
<1>5. QED
  BY <1>2, <1>3, <1>4

\* A page of e gets its frame of the page file.
LEMMA FiledLoading ==
  ASSUME NEW x, NEW y, NEW e \in Envs, NEW R \in SUBSET (Text \union {Top}), NEW F \in SUBSET Text,
         NEW n \in Nat, Loading(x, y, e, R, F, n), NEW va \in Pages, NEW z, Filed(y, z, e, va),
         NEW G \in SUBSET Text, \A u \in G : u # va => u \in F, va \in G => PageFiled(z, e, va)
  PROVE  Loading(x, z, e, R, G, n)
<1>1. /\ Base(z) /\ z.mm = y.mm /\ z.data = y.data /\ OtherEnvs(y, z, e) /\ OnlyPage(y, z, e, va)
      /\ RecordKept(y, z, e)
  BY DEF Filed
<1>2. /\ OnlyEnv(x, y, e) /\ y.env[e].status = "live" /\ Lists(y.env[e].ws, R) /\ Residents(y, e) = R
      /\ Handy(y, e) /\ Len(y.env[e].ws) = n /\ PagesLoaded(y, e, R, F) /\ FramesApart(y.mm)
  BY DEF Loading, Base
<1>3. z.env[e].ws = y.env[e].ws /\ z.env[e].hand = y.env[e].hand /\ z.env[e].status = y.env[e].status
  BY <1>1 DEF RecordKept
<1>4. \A u : perms(z, e, u) = perms(y, e, u) /\ FrameOf(z, e, u) = FrameOf(y, e, u)
  BY <1>1 DEF perms, pt_get_page_permissions, FrameOf, get_frame_info
<1>5. Residents(z, e) = R
  BY <1>2, <1>4 DEF Residents, Resident
<1>6. \A u \in R : PageLoaded(z, e, u)
  BY <1>1, <1>2, <1>4 DEF PagesLoaded, PageLoaded
<1>7. \A u \in UHeap : "b11" \notin perms(z, e, u)
  BY <1>2, <1>4 DEF PagesLoaded
<1>8. \A u \in G : PageFiled(z, e, u)
  <2>1. SUFFICES ASSUME NEW u \in G, u # va
                 PROVE  PageFiled(z, e, u)
    OBVIOUS
  <2>2. PageFiled(y, e, u) /\ u \in Pages
    BY <1>2, <2>1, PartsOfPages DEF PagesLoaded
  <2>3. Untouched(y, z, e, u)
    BY <1>1, <2>1, <2>2 DEF OnlyPage
  <2>4. QED
    BY <1>2, <2>2, <2>3, LoadedKept
<1>9. OnlyEnv(x, z, e)
  BY <1>1, <1>2, OnlyPageEnv, OnlyEnvTwice
<1>10. Handy(z, e)
  BY <1>2, <1>3 DEF Handy, Full
<1>11. QED
  BY <1>1, <1>2, <1>3, <1>5, <1>6, <1>7, <1>8, <1>9, <1>10 DEF Loading, PagesLoaded

\* file_page(): a page of the program is written to the page file.
LEMMA FilePage ==
  ASSUME NEW x, NEW r, NEW e \in Envs, NEW R \in SUBSET (Text \union {Top}), NEW F \in SUBSET Text,
         NEW n \in Nat, Creating(x, r, e, R, F, n), NEW va \in Text
  PROVE  Creating(x, file_page(r, e, va), e, R, F \union {va}, n)
<1> DEFINE q == file_page(r, e, va)
           y == r.w
<1> SUFFICES Creating(x, q, e, R, F \union {va}, n)
  OBVIOUS
<1>1. Base(y) /\ r.end \in Stops \union {"ok"}
  BY DEF Creating
<1>2. CASE r.end # "ok"
  <2>1. q = r
    BY <1>2 DEF file_page
  <2>2. QED
    BY <1>1, <1>2, <2>1 DEF Creating
<1>3. CASE r.end = "ok"
  <2>1. q = pf_add_env_page(y, e, va, Image(va))
    BY <1>3 DEF file_page
  <2>2. va \in Pages /\ va # Hole /\ Image(va) \in Int
    BY PartsOfPages DEF Image
  <2>3. /\ q.end = "ok" => /\ Filed(y, q.w, e, va)
                           /\ q.w.disk.data[q.w.env[e].disk[va]] = Image(va)
        /\ q.end # "ok" => q = Ends(y, "page file full")
    <3> HIDE DEF q, y
    <3> DEFINE v == Image(va)
    <3>1. q = pf_add_env_page(y, e, va, v) /\ v \in Int
      BY <2>1, <2>2
    <3> HIDE DEF v
    <3>2. Added(y, q, e, va, v)
      BY <1>1, <2>2, <3>1, AddEnvPage
    <3>3. QED
      BY <3>2 DEF v, Added
  <2> HIDE DEF q
  <2>4. CASE q.end # "ok"
    <3>1. q.w = y /\ q.end = "page file full"
      <4>1. q = Ends(y, "page file full")
        BY <2>3, <2>4
      <4>2. QED
        BY <4>1 DEF Ends
    <3>2. q.end \in Stops
      BY <3>1 DEF Stops
    <3>3. QED
      BY <1>1, <2>4, <3>1, <3>2 DEF Creating
  <2>5. CASE q.end = "ok"
    <3>1. Filed(y, q.w, e, va) /\ q.w.disk.data[q.w.env[e].disk[va]] = Image(va)
      BY <2>3, <2>5
    <3>2. PageFiled(q.w, e, va)
      <4>1. q.w.env[e].disk[va] \in Blocks
        BY <3>1 DEF Filed
      <4>2. QED
        BY <3>1, <4>1 DEF PageFiled, Blocks
    <3>3. Loading(x, y, e, R, F, n)
      BY <1>3 DEF Creating
    <3> DEFINE G == F \union {va}
    <3>4. G \in SUBSET Text /\ \A u \in G : u # va => u \in F
      OBVIOUS
    <3> HIDE DEF G
    <3>5. Loading(x, q.w, e, R, G, n)
      BY <2>2, <3>1, <3>2, <3>3, <3>4, FiledLoading
    <3>6. QED
      BY <2>5, <3>1, <3>5 DEF Creating, Filed, G
  <2>6. QED
    BY <2>4, <2>5
<1>4. QED
  BY <1>2, <1>3

\* load_stack(): the page table, the page, its place in the page file.
LEMMA LoadStack ==
  ASSUME NEW x, NEW r, NEW e \in Envs, NEW R \in SUBSET Text, NEW F \in SUBSET Text,
         NEW n \in Nat, Creating(x, r, e, R, F, n), n < page_WS_max_size
  PROVE  Creating(x, load_stack(r, e), e, R \union {Top}, F, n + 1)
<1> DEFINE t == with_table(r.w, e, 3)
           l == load_page(t, e, Top, Zero, {"A", "D"})
           q == pf_add_empty_env_page(l, e, Top)
<1>1. /\ Top \notin Text /\ Top \notin R /\ Top \in Pages /\ Top # Hole /\ First(Top) = Zero /\ Zero \in Int
      /\ R \in SUBSET (Text \union {Top})
  BY PartsOfPages DEF First, Zero
<1>2. CASE r.end # "ok"
  BY <1>2 DEF load_stack, Creating
<1>3. CASE r.end = "ok"
  <2>1. load_stack(r, e) = q
    BY <1>3 DEF load_stack
  <2>2. Loading(x, r.w, e, R, F, n)
    BY <1>3 DEF Creating
  <2>3. Creating(x, t, e, R, F, n)
    BY <1>1, <2>2, LoadTable DEF Tables
  <2> HIDE DEF t
  <2> DEFINE bits == {"A", "D"}
             top == Top
  <2>4. Creating(x, l, e, R \union {Top}, F, n + 1)
    <3>1. bits \in SUBSET {"A", "D"} /\ "D" \in bits
      OBVIOUS
    <3>2. l = load_page(t, e, top, First(top), bits)
      BY <1>1
    <3>3. top \in Text \union {Top} /\ top \notin R /\ top \notin Text
      BY <1>1
    <3> HIDE DEF bits, top, l
    <3>4. Creating(x, l, e, R \union {top}, F, n + 1)
      BY <1>1, <2>3, <3>1, <3>2, <3>3, LoadPage
    <3>5. QED
      BY <3>4 DEF top
  <2> HIDE DEF l
  <2>5. Base(l.w)
    BY <2>4 DEF Creating
  <2>6. CASE l.end # "ok" \/ DiskFull(l.w, e, Top)
    <3>1. q = l
      BY <2>6 DEF pf_add_empty_env_page
    <3>2. QED
      BY <2>1, <2>4, <3>1
  <2>7. CASE l.end = "ok" /\ ~DiskFull(l.w, e, Top)
    <3> DEFINE p == pf_add_env_page(l.w, e, Top, Zero)
    <3>1. q = p
      BY <2>7 DEF pf_add_empty_env_page
    <3>2. p.end = "ok"
      BY <2>7 DEF pf_add_env_page, Done
    <3>3. Added(l.w, p, e, Top, Zero)
      BY <1>1, <2>5, AddEnvPage
    <3> HIDE DEF p
    <3>4. Filed(l.w, p.w, e, Top)
      BY <3>2, <3>3 DEF Added
    <3>5. Loading(x, l.w, e, R \union {Top}, F, n + 1)
      BY <2>4, <2>7 DEF Creating
    <3>6. \A u \in F : u # Top => u \in F
      OBVIOUS
    <3>7. R \union {Top} \in SUBSET (Text \union {Top}) /\ n + 1 \in Nat /\ Top \notin F
      BY <1>1
    <3>8. Loading(x, p.w, e, R \union {Top}, F, n + 1)
      BY <1>1, <3>4, <3>5, <3>6, <3>7, FiledLoading
    <3>9. Creating(x, p, e, R \union {Top}, F, n + 1)
      BY <3>2, <3>4, <3>8 DEF Creating, Filed
    <3>10. QED
      BY <2>1, <3>1, <3>9
  <2>8. QED
    BY <2>6, <2>7
<1>4. QED
  BY <1>2, <1>3

\* The outcomes of these operations.
Outcomes == [w : Worlds, end : Stops \union {"ok"}]

\* A step of the loading returns a world and how it ended.
LEMMA OutcomeIs ==
  ASSUME NEW x, NEW r, NEW e, NEW R, NEW F, NEW n, Creating(x, r, e, R, F, n),
         r \in Outcomes \/ \E y, how : r = Ends(y, how)
  PROVE  r \in Outcomes
<1>1. r.end \in Stops \union {"ok"} /\ r.w \in Worlds
  BY DEF Creating, Base
<1>2. ASSUME NEW y, NEW how, r = Ends(y, how)
      PROVE  r \in Outcomes
  <2>1. r = [w |-> y, end |-> how]
    BY <1>2 DEF Ends
  <2>2. y \in Worlds /\ how \in Stops \union {"ok"}
    BY <1>1, <2>1
  <2>3. QED
    BY <2>1, <2>2 DEF Outcomes
<1>3. QED
  BY <1>2

\* How many pages of the program are loaded.
ResidentText == IF NText < page_WS_max_size THEN NText ELSE page_WS_max_size - 1

\* There is room for those pages, and one more for the stack.
LEMMA ResidentTextIs ==
  ResidentText \in Nat /\ ResidentText < page_WS_max_size /\ 1 .. ResidentText \in SUBSET Text
<1>1. NText \in Nat \ {0} /\ page_WS_max_size \in Nat \ {0}
  BY PagingAssumption
<1>2. ResidentText \in Nat /\ ResidentText < page_WS_max_size /\ ResidentText <= NText
  BY <1>1 DEF ResidentText
<1>3. QED
  BY <1>1, <1>2 DEF Text

\* One round of the loading: page i.
LEMMA LoadRound ==
  ASSUME NEW x, NEW r \in Outcomes, NEW e \in Envs, NEW i \in 1 .. ResidentText,
         Creating(x, r, e, 1 .. i - 1, {}, i - 1)
  PROVE  /\ load_page(r, e, i, Image(i), {"A"}) \in Outcomes
         /\ Creating(x, load_page(r, e, i, Image(i), {"A"}), e, 1 .. i, {}, i)
<1> DEFINE R == 1 .. i - 1
           F == {}
           n == i - 1
           bits == {"A"}
           q == load_page(r, e, i, Image(i), bits)
<1>1. ResidentText \in Nat /\ i \in Text /\ First(i) = Image(i)
  BY ResidentTextIs DEF First
<1>2. /\ R \in SUBSET (Text \union {Top}) /\ F \in SUBSET Text /\ n \in Nat /\ n < page_WS_max_size
      /\ i \in Text \union {Top} /\ i \notin R /\ R \union {i} = 1 .. i /\ n + 1 = i
  <2>1. ResidentText <= NText /\ ResidentText < page_WS_max_size /\ NText \in Nat /\ page_WS_max_size \in Nat
    <3>1. NText \in Nat \ {0} /\ page_WS_max_size \in Nat \ {0}
      BY PagingAssumption
    <3>2. QED
      BY <3>1 DEF ResidentText
  <2>2. i \in Nat /\ i >= 1 /\ i <= ResidentText
    BY <1>1
  <2>3. R \in SUBSET Text
    <3>1. ASSUME NEW k \in 1 .. i - 1
          PROVE  k \in 1 .. NText
      BY <1>1, <2>1, <2>2
    <3>2. QED
      BY <3>1 DEF Text
  <2>4. n \in Nat /\ n < page_WS_max_size /\ i \notin R /\ R \union {i} = 1 .. i /\ n + 1 = i
    <3>1. n \in Nat /\ n < page_WS_max_size /\ n + 1 = i
      BY <1>1, <2>1, <2>2
    <3>2. i \notin 1 .. i - 1
      BY <2>2
    <3>3. (1 .. i - 1) \union {i} = 1 .. i
      BY <2>2
    <3>4. QED
      BY <3>1, <3>2, <3>3
  <2>5. QED
    BY <1>1, <2>3, <2>4
<1>3. bits \in SUBSET {"A", "D"} /\ ("D" \in bits <=> i \notin Text)
  BY <1>1
<1>4. r \in Outcomes /\ Creating(x, r, e, R, F, n)
  OBVIOUS
<1>5. q = load_page(r, e, i, First(i), bits)
  BY <1>1
<1>6. q \in Outcomes \/ \E y, how : q = Ends(y, how)
  BY DEF load_page, Ends, Done
<1> HIDE DEF R, F, n, bits, q
<1>7. Creating(x, q, e, R \union {i}, F, n + 1)
  BY <1>2, <1>3, <1>4, <1>5, LoadPage
<1>8. Creating(x, q, e, 1 .. i, {}, i)
  BY <1>2, <1>7 DEF F
<1>9. q \in Outcomes
  BY <1>6, <1>8, OutcomeIs
<1>10. QED
  BY <1>8, <1>9 DEF q, bits

\* The loading of the program.
LEMMA LoadSegment ==
  ASSUME NEW x, NEW y, NEW e \in Envs, Loading(x, y, e, {}, {}, 0)
  PROVE  /\ program_segment_alloc_map_copy_workingset(y, e) \in Outcomes
         /\ Creating(x, program_segment_alloc_map_copy_workingset(y, e), e,
                     1 .. ResidentText, {}, ResidentText)
<1> DEFINE n == ResidentText
           a == with_table(y, e, 1)
           Step(r, i) == load_page(r, e, i, Image(i), {"A"})
           Good(i) == {r \in Outcomes : Creating(x, r, e, 1 .. i, {}, i)}
           D == [i \in 0 .. n |-> Good(i)]
           G == [i \in 1 .. n |-> [r \in Outcomes |-> Step(r, i)]]
<1>1. ASSUME NEW i \in 1 .. n, NEW r \in Good(i - 1)
      PROVE  Step(r, i) \in Good(i)
  BY LoadRound
<1>2. a \in Good(0)
  <2>1. {} \in SUBSET (Text \union {Top}) /\ {} \in SUBSET Text /\ 0 \in Nat
    OBVIOUS
  <2>2. Creating(x, a, e, {}, {}, 0)
    BY <2>1, LoadTable DEF Tables
  <2>3. \E z, how : a = Ends(z, how)
    BY DEF with_table, create_page_table, Ends, Done
  <2>4. a \in Outcomes
    BY <2>2, <2>3, OutcomeIs
  <2>5. 1 .. 0 = {}
    OBVIOUS
  <2>6. QED
    BY <2>2, <2>4, <2>5
<1>3. \A i : Good(i) \subseteq Outcomes
  OBVIOUS
<1>4. n \in Nat
  BY ResidentTextIs
<1> HIDE DEF Good, Step, a, n
<1>5. a \in D[0] /\ \A i \in 1 .. n : \A r \in D[i - 1] : G[i][r] \in D[i]
  <2>1. 0 \in 0 .. n
    BY <1>4
  <2>2. ASSUME NEW i \in 1 .. n, NEW r \in D[i - 1]
        PROVE  G[i][r] \in D[i]
    <3>1. i - 1 \in 0 .. n /\ i \in 0 .. n
      BY <1>4
    <3>2. r \in Good(i - 1) /\ D[i] = Good(i)
      BY <3>1
    <3>3. G[i][r] = Step(r, i)
      BY <1>3, <3>2
    <3>4. QED
      BY <1>1, <3>2, <3>3
  <2>3. QED
    BY <1>2, <2>1, <2>2
<1>6. PICK u : LoopIs(u, n, a, G) /\ \A i \in 0 .. n : u[i] \in D[i]
  <2> HIDE DEF D, G
  <2>1. QED
    BY <1>4, <1>5, Loop
<1>7. \A i \in 0 .. n : u[i] \in Outcomes
  BY <1>3, <1>6
<1>8. u = [i \in 0 .. n |-> IF i = 0 THEN a ELSE Step(u[i - 1], i)]
  <2>1. \A i \in 1 .. n : i - 1 \in 0 .. n /\ G[i][u[i - 1]] = Step(u[i - 1], i)
    BY <1>4, <1>7
  <2> HIDE DEF G
  <2>2. \A i \in 0 .. n : i # 0 => i \in 1 .. n
    BY <1>4
  <2>3. QED
    BY <1>6, <2>1, <2>2 DEF LoopIs
<1> DEFINE run == CHOOSE run : run = [i \in 0 .. n |-> IF i = 0 THEN a ELSE Step(run[i - 1], i)]
<1>9. run = [i \in 0 .. n |-> IF i = 0 THEN a ELSE Step(run[i - 1], i)]
  BY <1>8
<1> HIDE DEF run
<1>10. \A i \in 0 .. n : run[i] \in Good(i)
  <2> DEFINE S == {i \in Nat : run[i] \in Good(i)}
  <2>1. 0 \in S
    BY <1>2, <1>4, <1>9
  <2>2. ASSUME NEW i \in 0 .. n - 1, i \in S
        PROVE  i + 1 \in S
    <3>1. i + 1 \in 1 .. n /\ i + 1 \in 0 .. n /\ i + 1 # 0 /\ (i + 1) - 1 = i /\ i + 1 \in Nat
      BY <1>4
    <3>2. run[i + 1] = Step(run[i], i + 1)
      BY <1>9, <3>1
    <3>3. run[i] \in Good((i + 1) - 1)
      BY <2>2, <3>1
    <3>4. Step(run[i], i + 1) \in Good(i + 1)
      BY <1>1, <3>1, <3>3
    <3>5. QED
      BY <3>1, <3>2, <3>4
  <2> HIDE DEF S
  <2>3. \A i \in 0 .. n : i \in S
    BY <1>4, <2>1, <2>2, UpTo
  <2>4. QED
    BY <2>3 DEF S
<1>11. run[n] \in Good(n)
  BY <1>4, <1>10
<1>12. program_segment_alloc_map_copy_workingset(y, e) = run[n]
  BY DEF program_segment_alloc_map_copy_workingset, run, Step, a, n, ResidentText
<1>13. QED
  BY <1>11, <1>12 DEF Good, n

\* ... and of all of it to the page file.
LEMMA FileSegment ==
  ASSUME NEW x, NEW a \in Outcomes, NEW e \in Envs, NEW R \in SUBSET (Text \union {Top}), NEW m \in Nat,
         Creating(x, a, e, R, {}, m)
  PROVE  Creating(x, write_segment(a, e), e, R, Text, m)
<1> DEFINE n == NText
           Step(r, i) == file_page(r, e, i)
           Good(i) == {r \in Outcomes : Creating(x, r, e, R, 1 .. i, m)}
           D == [i \in 0 .. n |-> Good(i)]
           G == [i \in 1 .. n |-> [r \in Outcomes |-> Step(r, i)]]
<1>1. ASSUME NEW i \in 1 .. n, NEW r \in Good(i - 1)
      PROVE  Step(r, i) \in Good(i)
  <2>1. i \in Text /\ NText \in Nat
    BY PagingAssumption DEF Text
  <2> DEFINE F == 1 .. i - 1
             q == Step(r, i)
  <2>2. F \in SUBSET Text /\ F \union {i} = 1 .. i
    <3>1. i \in Nat /\ i >= 1 /\ i <= NText
      BY <2>1
    <3>2. (1 .. i - 1) \union {i} = 1 .. i
      BY <3>1
    <3>3. ASSUME NEW k \in 1 .. i - 1
          PROVE  k \in 1 .. NText
      BY <2>1, <3>1
    <3>4. QED
      BY <3>2, <3>3 DEF Text
  <2>3. r \in Outcomes /\ Creating(x, r, e, R, F, m)
    OBVIOUS
  <2> HIDE DEF F
  <2>4. Creating(x, q, e, R, F \union {i}, m)
    BY <2>1, <2>2, <2>3, FilePage
  <2>5. q \in Outcomes \/ \E y, how : q = Ends(y, how)
    BY <2>3 DEF file_page, pf_add_env_page, Ends, Done
  <2> HIDE DEF q
  <2>6. q \in Outcomes
    BY <2>4, <2>5, OutcomeIs
  <2>7. QED
    BY <2>2, <2>4, <2>6 DEF q
<1>2. a \in Good(0)
  <2>1. 1 .. 0 = {}
    OBVIOUS
  <2>2. QED
    BY <2>1
<1>3. \A i : Good(i) \subseteq Outcomes
  OBVIOUS
<1>4. n \in Nat
  BY PagingAssumption
<1> HIDE DEF Good, Step, n
<1>5. a \in D[0] /\ \A i \in 1 .. n : \A r \in D[i - 1] : G[i][r] \in D[i]
  <2>1. 0 \in 0 .. n
    BY <1>4
  <2>2. ASSUME NEW i \in 1 .. n, NEW r \in D[i - 1]
        PROVE  G[i][r] \in D[i]
    <3>1. i - 1 \in 0 .. n /\ i \in 0 .. n
      BY <1>4
    <3>2. r \in Good(i - 1) /\ D[i] = Good(i)
      BY <3>1
    <3>3. G[i][r] = Step(r, i)
      BY <1>3, <3>2
    <3>4. QED
      BY <1>1, <3>2, <3>3
  <2>3. QED
    BY <1>2, <2>1, <2>2
<1>6. PICK u : LoopIs(u, n, a, G) /\ \A i \in 0 .. n : u[i] \in D[i]
  <2> HIDE DEF D, G
  <2>1. QED
    BY <1>4, <1>5, Loop
<1>7. \A i \in 0 .. n : u[i] \in Outcomes
  BY <1>3, <1>6
<1>8. u = [i \in 0 .. n |-> IF i = 0 THEN a ELSE Step(u[i - 1], i)]
  <2>1. \A i \in 1 .. n : i - 1 \in 0 .. n /\ G[i][u[i - 1]] = Step(u[i - 1], i)
    BY <1>4, <1>7
  <2> HIDE DEF G
  <2>2. \A i \in 0 .. n : i # 0 => i \in 1 .. n
    BY <1>4
  <2>3. QED
    BY <1>6, <2>1, <2>2 DEF LoopIs
<1> DEFINE run == CHOOSE run : run = [i \in 0 .. n |-> IF i = 0 THEN a ELSE Step(run[i - 1], i)]
<1>9. run = [i \in 0 .. n |-> IF i = 0 THEN a ELSE Step(run[i - 1], i)]
  BY <1>8
<1> HIDE DEF run
<1>10. \A i \in 0 .. n : run[i] \in Good(i)
  <2> DEFINE S == {i \in Nat : run[i] \in Good(i)}
  <2>1. 0 \in S
    BY <1>2, <1>4, <1>9
  <2>2. ASSUME NEW i \in 0 .. n - 1, i \in S
        PROVE  i + 1 \in S
    <3>1. i + 1 \in 1 .. n /\ i + 1 \in 0 .. n /\ i + 1 # 0 /\ (i + 1) - 1 = i /\ i + 1 \in Nat
      BY <1>4
    <3>2. run[i + 1] = Step(run[i], i + 1)
      BY <1>9, <3>1
    <3>3. run[i] \in Good((i + 1) - 1)
      BY <2>2, <3>1
    <3>4. Step(run[i], i + 1) \in Good(i + 1)
      BY <1>1, <3>1, <3>3
    <3>5. QED
      BY <3>1, <3>2, <3>4
  <2> HIDE DEF S
  <2>3. \A i \in 0 .. n : i \in S
    BY <1>4, <2>1, <2>2, UpTo
  <2>4. QED
    BY <2>3 DEF S
<1>11. run[n] \in Good(n)
  BY <1>4, <1>10
<1>12. write_segment(a, e) = run[n]
  BY DEF write_segment, run, Step, n
<1>13. QED
  BY <1>11, <1>12 DEF Good, n, Text

\* What env_create() starts from.
LEMMA StartLoading ==
  ASSUME NEW x, Base(x), NEW e \in Envs, Fresh(x, e)
  PROVE  Loading(x, [x EXCEPT !.env[e].status = "live"], e, {}, {}, 0)
<1> DEFINE r == [x.env[e] EXCEPT !.status = "live"]
           y == [x EXCEPT !.env[e] = r]
<1>1. x \in Worlds /\ x.env[e] \in EnvRecords
  BY EnvTypes DEF Base
<1>2. /\ r \in EnvRecords /\ r.disk = x.env[e].disk /\ r.tables = x.env[e].tables
      /\ r.marked = x.env[e].marked /\ r.status = "live" /\ r.ws = x.env[e].ws
  BY <1>1 DEF EnvRecords
<1>3. [x EXCEPT !.env[e].status = "live"] = y
  OBVIOUS
<1>4. x.env[e].ws = <<>>
  BY DEF Fresh, initialize_environment
<1> HIDE DEF r
<1>5. \A va \in Area : \A i \in 1 .. r.marked[va] : va + i - 1 \in Area
  BY <1>2 DEF Base, Sound, MarksInside
<1>6. Base(y) /\ AllUntouched(x, y) /\ OtherEnvs(x, y, e) /\ y.env[e] = r /\ y.mm = x.mm
  BY <1>2, <1>5, SetRecord
<1> HIDE DEF y
<1>7. OnlyEnv(x, y, e)
  BY <1>6 DEF OnlyEnv, AllUntouched
<1>8. \A u \in Pages : perms(y, e, u) = {}
  BY <1>6 DEF Fresh, NoEntry, perms, pt_get_page_permissions
<1>9. Residents(y, e) = {} /\ PagesLoaded(y, e, {}, {})
  BY <1>8, PartsOfPages DEF Residents, Resident, PagesLoaded
<1>10. y.env[e].ws = <<>> /\ y.env[e].status = "live"
  BY <1>2, <1>4, <1>6
<1>11. Lists(y.env[e].ws, {}) /\ Len(y.env[e].ws) = 0
  BY <1>10 DEF Lists
<1>12. Handy(y, e)
  <2>1. page_WS_max_size \in Nat \ {0}
    BY PagingAssumption
  <2>2. QED
    BY <1>11, <2>1 DEF Handy, Full
<1>13. Loading(x, y, e, {}, {}, 0)
  BY <1>6, <1>7, <1>9, <1>10, <1>11, <1>12 DEF Loading
<1>14. QED
  BY <1>3, <1>13

\* What a program shows before it ran.
Initially == [va \in Pages |-> IF va \in Text THEN Image(va) ELSE IF va = Top THEN Zero ELSE Unknown]

\* An environment that is completely loaded is good.
LEMMA LoadedGood ==
  ASSUME NEW x, NEW y, NEW e \in Envs, NEW R \in SUBSET (Text \union {Top}), Top \in R,
         NEW n \in Nat, Loading(x, y, e, R, Text, n)
  PROVE  EnvGood(y, e, Initially)
<1>1. /\ y \in Worlds /\ Residents(y, e) = R /\ Lists(y.env[e].ws, R) /\ Handy(y, e)
      /\ PagesLoaded(y, e, R, Text)
  BY DEF Loading, Base
<1>2. \A u \in Pages : Resident(y, e, u) <=> u \in R
  BY <1>1 DEF Residents
<1>3. /\ Hole \notin R /\ \A u \in UHeap : u \notin R
      /\ Top \in Pages /\ Top \notin Text /\ Text \subseteq Pages /\ UHeap \subseteq Pages /\ Hole \in Pages
      /\ \A u \in Text : u # Hole /\ u \notin UHeap
  BY PartsOfPages
<1>4. Listed(y, e)
  BY <1>1, ListedMeans
<1>5. ASSUME NEW u \in Pages
      PROVE  PageGood(y, e, u)
  <2>1. u \in Text => InPageFile(y, e, u)
    BY <1>1 DEF PagesLoaded, PageFiled, InPageFile
  <2>2. u \in UHeap => ~Resident(y, e, u) /\ "b11" \notin perms(y, e, u)
    BY <1>1, <1>2, <1>3 DEF PagesLoaded
  <2>3. u = Hole => ~Resident(y, e, u)
    BY <1>2, <1>3
  <2>4. QED
    BY <2>1, <2>2, <2>3 DEF PageGood
<1>6. ASSUME NEW u \in Pages
      PROVE  PageHolds(y, e, u, Initially[u])
  <2>1. CASE u \in Text
    <3>1. Initially[u] = Image(u) /\ First(u) = Image(u)
      BY <2>1 DEF Initially, First
    <3>2. Resident(y, e, u) => y.data[FrameOf(y, e, u)] = Image(u)
      BY <1>1, <1>2, <3>1 DEF PagesLoaded, PageLoaded
    <3>3. y.env[e].disk[u] # 0 /\ y.disk.data[y.env[e].disk[u]] = Image(u)
      BY <1>1, <2>1 DEF PagesLoaded, PageFiled
    <3>4. QED
      BY <3>1, <3>2, <3>3 DEF PageHolds
  <2>2. CASE u = Top
    <3>1. Initially[u] = Zero /\ First(u) = Zero /\ u \notin Text
      BY <1>3, <2>2 DEF Initially, First
    <3>2. Resident(y, e, u) /\ y.data[FrameOf(y, e, u)] = Zero /\ "D" \in perms(y, e, u)
      BY <1>1, <1>2, <2>2, <3>1 DEF PagesLoaded, PageLoaded
    <3>3. QED
      BY <3>1, <3>2 DEF PageHolds
  <2>3. CASE u \notin Text /\ u # Top
    BY <2>3 DEF Initially, PageHolds
  <2>4. QED
    BY <2>1, <2>2, <2>3
<1>7. QED
  BY <1>4, <1>5, <1>6 DEF EnvGood, PagesGood, Holds

\* env_create() keeps the invariant.
LEMMA CreateKeeps ==
  ASSUME PagingInv, NEW e \in Envs, Create(e)
  PROVE  PagingInv'
<1> DEFINE y == [w EXCEPT !.env[e].status = "live"]
           p == program_segment_alloc_map_copy_workingset(y, e)
           s == write_segment(p, e)
           r == load_stack(s, e)
           R == 1 .. ResidentText
<1>1. /\ panic = "no" /\ w.env[e].status = "none" /\ UNCHANGED <<sweeps, fault, pending>>
      /\ expect' = [expect EXCEPT ![e] = Initially]
  BY DEF Create, Initially
<1>2. /\ Base(w) /\ EnvInv(w, e, expect[e], pending[e]) /\ sweeps \in Int
      /\ expect \in [Envs -> [Pages -> Int]] /\ pending \in [Envs -> Accesses]
  BY <1>1 DEF PagingInv
<1>3. Outcome(r)
  BY DEF Create, env_create
<1>4. Fresh(w, e)
  BY <1>1, <1>2 DEF EnvInv
<1>5. Loading(w, y, e, {}, {}, 0)
  BY <1>2, <1>4, StartLoading
<1>6. ResidentText \in Nat /\ ResidentText < page_WS_max_size /\ R \in SUBSET Text
  BY ResidentTextIs
<1> HIDE DEF y
<1>7. p \in Outcomes /\ Creating(w, p, e, R, {}, ResidentText)
  BY <1>5, LoadSegment
<1> HIDE DEF p, R
<1>8. Creating(w, s, e, R, Text, ResidentText)
  <2>1. R \in SUBSET (Text \union {Top})
    BY <1>6
  <2>2. QED
    BY <1>6, <1>7, <2>1, FileSegment
<1> HIDE DEF s
<1>9. Creating(w, r, e, R \union {Top}, Text, ResidentText + 1)
  <2> DEFINE F == Text
  <2>1. F \in SUBSET Text /\ Creating(w, s, e, R, F, ResidentText)
    BY <1>8
  <2> HIDE DEF F
  <2>2. Creating(w, r, e, R \union {Top}, F, ResidentText + 1)
    BY <1>6, <2>1, LoadStack
  <2>3. QED
    BY <2>2 DEF F
<1> HIDE DEF r
<1>10. w' = r.w /\ Base(w') /\ r.end \in Stops \union {"ok"}
  BY <1>3, <1>9 DEF Outcome, Creating
<1>11. panic' = "no" => r.end = "ok"
  BY <1>3, <1>10 DEF Outcome, Stops
<1>12. Initially \in [Pages -> Int]
  <2>1. \A va \in Pages : Image(va) \in Int
    BY PartsOfPages DEF Image
  <2>2. QED
    BY <2>1 DEF Initially, Zero, Unknown
<1>13. expect' \in [Envs -> [Pages -> Int]] /\ expect'[e] = Initially /\ \A c \in Envs : c # e => expect'[c] = expect[c]
  BY <1>1, <1>2, <1>12
<1>14. ASSUME panic' = "no"
       PROVE  OnlyEnv(w, w', e) /\ EnvInv(w', e, expect'[e], pending'[e])
  <2>1. Loading(w, w', e, R \union {Top}, Text, ResidentText + 1)
    BY <1>9, <1>10, <1>11, <1>14 DEF Creating
  <2>2. OnlyEnv(w, w', e) /\ w'.env[e].status = "live"
    BY <2>1 DEF Loading
  <2>3. EnvGood(w', e, Initially)
    <3> DEFINE Q == R \union {Top}
               n == ResidentText + 1
    <3>1. Q \in SUBSET (Text \union {Top}) /\ Top \in Q /\ n \in Nat
      BY <1>6
    <3>2. Loading(w, w', e, Q, Text, n)
      BY <2>1
    <3> HIDE DEF Q, n
    <3>3. QED
      BY <3>1, <3>2, LoadedGood
  <2>4. QED
    BY <1>13, <2>2, <2>3 DEF EnvInv
<1>15. QED
  BY <1>1, <1>2, <1>10, <1>13, <1>14, InvariantKept

-----------------------------------------------------------------------------
(* The first state *)

\* The list of all numbers up to n, in either direction.
LEMMA AllFree ==
  ASSUME NEW n \in Nat
  PROVE  /\ [i \in 1 .. n |-> i] \in Seq(1 .. n) /\ NoDup([i \in 1 .. n |-> i])
         /\ Elems([i \in 1 .. n |-> i]) = 1 .. n
         /\ [i \in 1 .. n |-> n + 1 - i] \in Seq(1 .. n) /\ NoDup([i \in 1 .. n |-> n + 1 - i])
         /\ Elems([i \in 1 .. n |-> n + 1 - i]) = 1 .. n
<1> DEFINE s == [i \in 1 .. n |-> i]
           r == [i \in 1 .. n |-> n + 1 - i]
<1>1. /\ DOMAIN s = 1 .. n /\ DOMAIN r = 1 .. n
      /\ \A i \in 1 .. n : s[i] = i /\ r[i] = n + 1 - i /\ n + 1 - i \in 1 .. n
  OBVIOUS
<1>2. s \in [1 .. n -> 1 .. n] /\ r \in [1 .. n -> 1 .. n]
  BY <1>1
<1>3. s \in Seq(1 .. n) /\ r \in Seq(1 .. n)
  BY <1>2
<1> HIDE DEF s, r
<1>4. NoDup(s) /\ NoDup(r)
  BY <1>1 DEF NoDup
<1>5. Elems(s) = 1 .. n
  BY <1>1 DEF Elems
<1>6. Elems(r) = 1 .. n
  <2>1. ASSUME NEW f \in 1 .. n
        PROVE  f \in Elems(r)
    <3>1. n + 1 - f \in 1 .. n /\ r[n + 1 - f] = n + 1 - (n + 1 - f)
      BY <1>1
    <3>2. n + 1 - (n + 1 - f) = f
      OBVIOUS
    <3>3. QED
      BY <1>1, <3>1, <3>2 DEF Elems
  <2>2. QED
    BY <1>1, <2>1 DEF Elems
<1>7. QED
  BY <1>3, <1>4, <1>5, <1>6 DEF s, r

\* All frames are free.
LEMMA PagingInitialized ==
  /\ initialize_paging(FrameCount, AllPages) \in Memories
  /\ FramesApart(initialize_paging(FrameCount, AllPages))
  /\ \A p \in AllPages : initialize_paging(FrameCount, AllPages).pt[p] = NoEntry
<1> DEFINE m == initialize_paging(FrameCount, AllPages)
           list == [i \in 1 .. FrameCount |-> FrameCount + 1 - i]
<1>1. FrameCount \in Nat
  BY PagingAssumption
<1>2. list \in Seq(Frames) /\ NoDup(list) /\ Elems(list) = Frames
  BY <1>1, AllFree DEF Frames
<1> HIDE DEF list
<1>3. m = [free |-> list, ref |-> [f \in Frames |-> 0], base |-> [f \in Frames |-> NoPage],
           pt |-> [p \in AllPages |-> NoEntry]]
  BY DEF initialize_paging, list, Frames
<1> HIDE DEF m
<1>4. NoEntry \in EntriesFor(Frames) /\ NoEntry.frame = NoFrame /\ NoEntry.perm = {}
  BY DEF NoEntry, EntriesFor
<1>5. /\ m.free = list /\ (\A f \in Frames : m.ref[f] = 0) /\ (\A p \in AllPages : m.pt[p] = NoEntry)
  BY <1>3
<1>6. m \in Memories
  BY <1>2, <1>3, <1>4 DEF Memories, MemoriesFor
<1>7. \A p \in Owners : m.pt[p] = NoEntry
  BY <1>5 DEF Owners
<1>8. FramesApart(m)
  BY <1>2, <1>4, <1>5, <1>7 DEF FramesApart
<1>9. QED
  BY <1>5, <1>6, <1>8 DEF m

\* Nothing was created, and every frame and every frame of the page file is free.
LEMMA Initialized == Init => PagingInv
<1> SUFFICES ASSUME Init
             PROVE  PagingInv
  OBVIOUS
<1> DEFINE m == initialize_paging(FrameCount, AllPages)
           data == [f \in Frames |-> Unknown]
           list == [i \in 1 .. DiskFrames |-> i]
           disk == [free |-> list, data |-> [d \in Blocks |-> Zero]]
           rec  == initialize_environment
           env  == [e \in Envs |-> rec]
           x    == [mm |-> m, data |-> data, disk |-> disk, env |-> env]
<1>1. w = x
  BY DEF Init, AllPages, UserPages, KernelPages, Frames, Blocks
<1>2. m \in Memories /\ FramesApart(m) /\ \A p \in AllPages : m.pt[p] = NoEntry
  BY PagingInitialized
<1>3. Unknown \in Int /\ Zero \in Int /\ Hole \in Int /\ NoEntry.perm = {}
  BY PartsOfPages DEF Unknown, Zero, NoEntry
<1>4. list \in Seq(Blocks) /\ NoDup(list) /\ Elems(list) = Blocks
  BY PagingAssumption, AllFree DEF Blocks
<1>5. /\ rec.status = "none" /\ rec.ws = <<>> /\ rec.tables = {}
      /\ \A va \in Pages : rec.disk[va] = 0
      /\ \A va \in Area : rec.marked[va] = 0
  BY DEF initialize_environment
<1>6. rec \in EnvRecords
  BY <1>3 DEF initialize_environment, EnvRecords
<1> HIDE DEF m, list, rec
<1>7. disk \in Disks /\ data \in [Frames -> Int] /\ env \in [Envs -> EnvRecords]
  BY <1>3, <1>4, <1>6 DEF Disks
<1>8. disk.free = list
  OBVIOUS
<1> HIDE DEF disk, data
<1>9. w \in Worlds /\ w.mm = m /\ w.disk = disk /\ \A e \in Envs : w.env[e] = rec
  BY <1>1, <1>2, <1>7 DEF Worlds, Memories
<1>10. DiskApart(w)
  <2>1. \A e \in Envs, va \in Pages : w.env[e].disk[va] = 0
    BY <1>5, <1>9
  <2>2. 0 \notin Blocks
    BY DEF Blocks
  <2>3. w.disk.free = list
    BY <1>8, <1>9
  <2>4. QED
    BY <1>4, <2>1, <2>2, <2>3 DEF DiskApart
<1>11. ASSUME NEW e \in Envs
       PROVE  Sound(w, e) /\ Fresh(w, e)
  <2>1. TablesMapped(w, e)
    BY <1>2, <1>3, <1>5, <1>9, PagesApart DEF TablesMapped
  <2>2. MarksInside(w, e)
    BY <1>5, <1>9 DEF MarksInside
  <2>3. w.env[e].disk[Hole] = 0
    BY <1>5, <1>9, PartsOfPages
  <2>4. Fresh(w, e)
    BY <1>2, <1>9, PagesApart DEF Fresh, rec
  <2>5. QED
    BY <2>1, <2>2, <2>3, <2>4 DEF Sound
<1>12. Base(w)
  BY <1>2, <1>9, <1>10, <1>11 DEF Base
<1>13. sweeps \in Int /\ expect \in [Envs -> [Pages -> Int]] /\ pending \in [Envs -> Accesses]
  <2>1. sweeps \in Int
    BY PagingAssumption DEF Init
  <2>2. expect \in [Envs -> [Pages -> Int]]
    BY <1>3 DEF Init
  <2>3. NoOp \in Accesses
    BY DEF NoOp, Accesses
  <2>4. QED
    BY <2>1, <2>2, <2>3 DEF Init
<1>14. \A e \in Envs : EnvInv(w, e, expect[e], pending[e])
  BY <1>5, <1>9, <1>11 DEF EnvInv, Init
<1>15. QED
  BY <1>12, <1>13, <1>14 DEF PagingInv

-----------------------------------------------------------------------------
(* The invariant *)

\* The memory, the page file and every environment stay in order, whatever the
\* environments do and whatever the fault handler replaces.
THEOREM PagingInvariant == Spec => []PagingInv
<1>1. Init => PagingInv
  BY Initialized
<1>2. PagingInv /\ [Next]_vars => PagingInv'
  <2> SUFFICES ASSUME PagingInv, [Next]_vars
               PROVE  PagingInv'
    OBVIOUS
  <2>1. ASSUME NEW e \in Envs, Create(e)
        PROVE  PagingInv'
    BY <2>1, CreateKeeps
  <2>2. ASSUME NEW e \in Envs, NEW va \in Touches[e], NEW v \in Values \union {Zero}, Access(e, va, v)
        PROVE  PagingInv'
    BY <2>2, AccessKeeps
  <2>3. ASSUME NEW e \in Envs, NEW va \in Touches[e], NEW v \in Values \union {Zero}, Fault(e, va, v)
        PROVE  PagingInv'
    BY <2>3, FaultKeeps
  <2>4. ASSUME NEW e \in Envs, NEW n \in 1 .. NPage, Malloc(e, n)
        PROVE  PagingInv'
    BY <2>4, MallocKeeps
  <2>5. ASSUME NEW e \in Envs, NEW va \in Area, Free(e, va)
        PROVE  PagingInv'
    BY <2>5, FreeKeeps
  <2>6. ASSUME NEW e \in Envs, Sbrk(e) \/ Exit(e)
        PROVE  PagingInv'
    BY <2>6, SbrkKeeps, ExitKeeps
  <2>7. ASSUME NEW n \in Sweeps, SetSweeps(n)
        PROVE  PagingInv'
    BY <2>7, SetSweepsKeeps
  <2>8. ASSUME UNCHANGED vars
        PROVE  PagingInv'
    BY <2>8 DEF vars, PagingInv
  <2>9. QED
    BY <2>1, <2>2, <2>3, <2>4, <2>5, <2>6, <2>7, <2>8 DEF Next
<1>3. QED
  BY <1>1, <1>2, PTL DEF Spec

\* What was written to a page of a live environment last is what it holds, however often
\* it was replaced, written out and read back.
THEOREM LastWriteIsSeen == Spec => []LastWriteSeen
<1>1. PagingInv => LastWriteSeen
  <2> SUFFICES ASSUME PagingInv, panic = "no", NEW e \in Envs, Live(e),
                      NEW va \in Pages, expect[e][va] # Unknown
               PROVE  Content(e, va) = expect[e][va]
    BY DEF LastWriteSeen
  <2>1. EnvGood(w, e, expect[e])
    BY DEF PagingInv, EnvInv, Live
  <2>2. PageHolds(w, e, va, expect[e][va])
    BY <2>1 DEF EnvGood, Holds
  <2>3. va \in Present(e) <=> Resident(w, e, va)
    BY DEF Present, Resident
  <2>4. CASE Resident(w, e, va)
    BY <2>2, <2>3, <2>4 DEF Content, PageHolds
  <2>5. CASE ~Resident(w, e, va)
    BY <2>2, <2>3, <2>5 DEF Content, PageHolds, InPageFile
  <2>6. QED
    BY <2>4, <2>5
<1>2. QED
  BY <1>1, PagingInvariant, PTL

\* The working set of a live environment is the set of its resident pages, once each,
\* within its bound; its hand is set when it is full; a heap page is marked as resident
\* if and only if it is.
THEOREM WorkingSetIsExact == Spec => []WorkingSetExact
<1>1. PagingInv => WorkingSetExact
  <2> SUFFICES ASSUME PagingInv, panic = "no", NEW e \in Envs, Live(e)
               PROVE  /\ WsPages(e) = Present(e)
                      /\ Len(w.env[e].ws) = Cardinality(WsPages(e)) /\ Len(w.env[e].ws) <= page_WS_max_size
                      /\ Full(w, e) => w.env[e].hand \in DOMAIN w.env[e].ws
                      /\ \A va \in UHeap : /\ "b11" \in perms(w, e, va) <=> va \in Present(e)
                                           /\ va \in Present(e) => "b10" \in perms(w, e, va)
    BY DEF WorkingSetExact
  <2> DEFINE ws == w.env[e].ws
  <2>1. w \in Worlds /\ Listed(w, e) /\ PagesGood(w, e)
    BY DEF PagingInv, EnvInv, Live, EnvGood, Base
  <2>2. Len(ws) \in Nat /\ DOMAIN ws = 1 .. Len(ws) /\ \A i \in DOMAIN ws : ws[i].va \in Pages
    BY <2>1, WsPagesType
  <2>3. \A va : va \in Present(e) <=> va \in Pages /\ Resident(w, e, va)
    BY DEF Present, Resident
  <2>4. WsPages(e) = Present(e)
    BY <2>1, <2>2, <2>3 DEF WsPages, Listed
  <2>5. Len(ws) = Cardinality(WsPages(e))
    <3> DEFINE f == [i \in 1 .. Len(ws) |-> ws[i].va]
    <3>1. \A i, j \in 1 .. Len(ws) : f[i] = f[j] => i = j
      BY <2>1, <2>2 DEF Listed
    <3>2. WsPages(e) = {f[i] : i \in 1 .. Len(ws)}
      BY <2>2 DEF WsPages
    <3>3. f \in Bijection(1 .. Len(ws), WsPages(e))
      <4>1. f \in [1 .. Len(ws) -> WsPages(e)] /\ \A u \in WsPages(e) : \E i \in 1 .. Len(ws) : f[i] = u
        BY <3>2
      <4> HIDE DEF f, ws
      <4>2. QED
        BY <3>1, <4>1 DEF Bijection, Injection, IsInjective, Surjection
    <3>4. ExistsBijection(1 .. Len(ws), WsPages(e))
      BY <3>3 DEF ExistsBijection
    <3> HIDE DEF f, ws
    <3>5. QED
      BY <2>2, <3>4, FS_CountingElements
  <2>6. Full(w, e) => w.env[e].hand \in DOMAIN ws
    BY <2>1, <2>2 DEF Listed, Full
  <2>7. \A va \in UHeap : PageGood(w, e, va) /\ va \in Pages
    BY <2>1, PartsOfPages DEF PagesGood
  <2>8. QED
    BY <2>1, <2>3, <2>4, <2>5, <2>6, <2>7 DEF Listed, PageGood
<1>2. QED
  BY <1>1, PagingInvariant, PTL

\* No frame of the page file is lost or has two users.
THEOREM PageFileIsConserved == Spec => []PageFileConserved
<1>1. PagingInv => PageFileConserved
  <2> SUFFICES ASSUME PagingInv, NEW d \in Blocks
               PROVE  Cardinality({p \in Envs \X Pages : w.env[p[1]].disk[p[2]] = d})
                        + Cardinality({i \in DOMAIN w.disk.free : w.disk.free[i] = d}) = 1
    BY DEF PageFileConserved, Blocks
  <2> DEFINE U == {p \in Envs \X Pages : w.env[p[1]].disk[p[2]] = d}
             F == {i \in DOMAIN w.disk.free : w.disk.free[i] = d}
  <2>1. DiskApart(w)
    BY DEF PagingInv, Base
  <2>2. d # 0
    BY DEF Blocks
  <2>3. \A p, q \in U : p = q
    BY <2>1, <2>2 DEF DiskApart
  <2>4. \A i, j \in F : i = j
    BY <2>1 DEF DiskApart, NoDup
  <2>5. F # {} <=> d \in Elems(w.disk.free)
    BY DEF Elems
  <2>6. U # {} <=> \E e \in Envs, va \in Pages : w.env[e].disk[va] = d
    <3>1. ASSUME NEW e \in Envs, NEW va \in Pages, w.env[e].disk[va] = d
          PROVE  <<e, va>> \in U
      BY <3>1
    <3>2. QED
      BY <3>1
  <2>7. U = {} <=> F # {}
    BY <2>1, <2>5, <2>6 DEF DiskApart
  <2>8. /\ Cardinality(U) = IF U = {} THEN 0 ELSE 1
        /\ Cardinality(F) = IF F = {} THEN 0 ELSE 1
    <3> HIDE DEF U, F
    <3>1. QED
      BY <2>3, <2>4, OneOrNone
  <2>9. QED
    BY <2>7, <2>8
<1>2. QED
  BY <1>1, PagingInvariant, PTL

\* No frame is lost or has two owners.
THEOREM PagingFramesAreConserved == Spec => []PagingFramesConserved
<1>1. PagingInv => PagingFramesConserved
  <2> SUFFICES ASSUME PagingInv
               PROVE  FramesCounted([w.mm EXCEPT !.pt =
                        [p \in {q \in DOMAIN @ : q[1] = 0 \/ q[2] # Hole} |-> @[p]]], LAMBDA f : 0)
    BY DEF PagingFramesConserved
  <2> DEFINE m == [w.mm EXCEPT !.pt = [p \in {q \in DOMAIN @ : q[1] = 0 \/ q[2] # Hole} |-> @[p]]]
  <2>1. w.mm \in Memories /\ FramesApart(w.mm)
    BY WorldTypes DEF PagingInv, Base
  <2>2. /\ w.mm.ref \in [Frames -> Int] /\ DOMAIN w.mm.pt = AllPages
        /\ w.mm = [free |-> w.mm.free, ref |-> w.mm.ref, base |-> w.mm.base, pt |-> w.mm.pt]
    BY <2>1 DEF Memories, MemoriesFor
  <2>3. m.free = w.mm.free /\ m.ref = w.mm.ref /\ m.pt = [p \in Owners |-> w.mm.pt[p]]
    BY <2>2 DEF Owners
  <2> HIDE DEF m
  <2>4. DOMAIN m.ref = Frames /\ DOMAIN m.pt = Owners /\ \A p \in Owners : m.pt[p] = w.mm.pt[p]
    BY <2>2, <2>3
  <2>5. ASSUME NEW f \in Frames
        PROVE  /\ m.ref[f] = Cardinality({p \in DOMAIN m.pt : m.pt[p].frame = f}) + 0
               /\ Cardinality({i \in DOMAIN m.free : m.free[i] = f}) = IF m.ref[f] = 0 THEN 1 ELSE 0
    <3> DEFINE U == {p \in DOMAIN m.pt : m.pt[p].frame = f}
               F == {i \in DOMAIN m.free : m.free[i] = f}
    <3>1. f # NoFrame
      BY DEF Frames, NoFrame
    <3>2. \A p, q \in U : p = q
      BY <2>1, <2>4, <3>1 DEF FramesApart
    <3>3. \A i, j \in F : i = j
      BY <2>1, <2>3 DEF FramesApart, NoDup
    <3>4. F # {} <=> m.ref[f] = 0
      BY <2>1, <2>3 DEF Elems, FramesApart
    <3>5. U # {} <=> m.ref[f] # 0
      <4>1. m.ref[f] # 0 => \E p \in Owners : w.mm.pt[p].frame = f
        BY <2>1, <2>3 DEF FramesApart
      <4>2. \A p \in Owners : w.mm.pt[p].frame = f => m.ref[f] # 0
        BY <2>1, <2>3, <3>1 DEF FramesApart
      <4>3. QED
        BY <2>4, <4>1, <4>2
    <3>6. m.ref[f] # 0 => m.ref[f] = 1
      BY <2>1, <2>3 DEF FramesApart
    <3>7. /\ Cardinality(U) = IF U = {} THEN 0 ELSE 1
          /\ Cardinality(F) = IF F = {} THEN 0 ELSE 1
      <4> HIDE DEF U, F
      <4>1. QED
        BY <3>2, <3>3, OneOrNone
    <3> HIDE DEF U, F
    <3>8. m.ref[f] = Cardinality(U) + 0 /\ Cardinality(F) = IF m.ref[f] = 0 THEN 1 ELSE 0
      BY <3>4, <3>5, <3>6, <3>7
    <3>9. QED
      BY <3>8 DEF U, F
  <2>6. FramesCounted(m, LAMBDA f : 0)
    BY <2>4, <2>5 DEF FramesCounted
  <2>7. QED
    BY <2>6 DEF m
<1>2. QED
  BY <1>1, PagingInvariant, PTL
=============================================================================
