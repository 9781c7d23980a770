-------------------------------- MODULE KHeap --------------------------------
(***************************************************************************)
(* The kernel heap, kern/mem/kheap.c: a block allocator below HARD_LIMIT   *)
(* for requests up to DYN_ALLOC_MAX_BLOCK_SIZE and a page allocator above  *)
(* it.  The two lean on each other: the elements of freePagesList_KH are   *)
(* blocks of the block allocator, so a kfree() of pages may have to        *)
(* allocate a block, which may have to map a page.                         *)
(*                                                                         *)
(* The whole heap is the record kh: the block allocator kh.da, the frames  *)
(* and the kernel's page table kh.mm, freePagesList_KH as the sequence     *)
(* kh.list of [node, va, n], and KH_page_allocator_flag as kh.flag.  Each  *)
(* call is one step: the code takes no lock that would make it so, and the *)
(* kernel heap is used here by one caller at a time.                       *)
(***************************************************************************)
EXTENDS BlockAllocator, MemoryManager

CONSTANTS BlockPages,   \* pages between the start of the heap and HARD_LIMIT
          PagePages,    \* pages of the page allocator
          FrameCount,   \* frames of physical memory given to the heap
          Sizes,        \* request sizes in bytes
          MaxLive       \* bound: allocations alive at the same time

ASSUME KHeapAssumption ==
  /\ BlockPages \in Nat \ {0} /\ PagePages \in Nat \ {0} /\ FrameCount \in Nat \ {0}
  /\ Sizes \subseteq Nat /\ MaxLive \in Nat

VARIABLES kh,
          strategy,     \* _KHeapPlacementStrategy
          live,         \* history: address |-> size asked for, of what is in use
          panicked      \* the kernel stopped in a panic or a fault on NULL

vars == <<kh, strategy, live, panicked>>

KERNEL_HEAP_START == PAGE_SIZE
HARD_LIMIT        == KERNEL_HEAP_START + BlockPages * PAGE_SIZE
PAGE_START        == HARD_LIMIT + PAGE_SIZE
KERNEL_HEAP_MAX   == PAGE_START + PagePages * PAGE_SIZE
NodeSize          == 16         \* sizeof(struct FreePagesInfo)

(* kmalloc() takes the elements of freePagesList_KH from the blocks.       *)
ASSUME NodeAssumption == NodeSize <= DYN_ALLOC_MAX_BLOCK_SIZE

Strategies == {"FF", "BF", "other"}     \* the last: CONTALLOC, NF and WF
K(va) == <<0, va>>

PageAddresses == {KERNEL_HEAP_START + i * PAGE_SIZE : i \in 0 .. BlockPages + PagePages}
Smallest(S) == CHOOSE x \in S : \A y \in S : x <= y

-----------------------------------------------------------------------------
(* Each of the n pages from va on gets a frame.                            *)
MapRun(mm, va, n, perm(_)) ==
  LET run[i \in 0 .. n] ==
        IF i = 0 THEN mm
        ELSE allocate_and_map(run[i - 1], K(va + (i - 1) * PAGE_SIZE), perm(i))
  IN  run[n]

PlainPage(i) == {"P", "W"}

(* initialize_kheap_dynamic_allocator().                                   *)
initialize_kheap_dynamic_allocator(pages) ==
  LET mm  == initialize_paging(FrameCount, {K(va) : va \in PageAddresses})
      da  == [mem |-> <<>>, fbl |-> <<>>, brk |-> KERNEL_HEAP_START + pages * PAGE_SIZE, up |-> FALSE]
  IN  [da   |-> initialize_dynamic_allocator(da, KERNEL_HEAP_START, pages * PAGE_SIZE),
       mm   |-> MapRun(mm, KERNEL_HEAP_START, pages, PlainPage),
       list |-> <<>>, flag |-> FALSE]

(* sbrk().                                                                 *)
sbrk_fails(k, n) ==
  k.da.brk + n * PAGE_SIZE - 1 >= HARD_LIMIT \/ Len(k.mm.free) < n

sbrk(k, n) == [k EXCEPT !.mm = MapRun(@, k.da.brk, n, PlainPage),
                        !.da.brk = @ + n * PAGE_SIZE]

(* The outcome of a call: the heap, the address returned, and whether the  *)
(* kernel stopped.                                                         *)
Returns(k, va) == [kh |-> k, va |-> va, panic |-> FALSE]
Panics(k)      == [kh |-> k, va |-> NULL, panic |-> TRUE]

(* kmalloc() of a block: alloc_block_FF() or alloc_block_BF(), which grow  *)
(* the heap and start again when nothing fits.                             *)
grown(k, pages) == [k EXCEPT !.da = Extended(@, pages)]
allocated(k, r) == Returns([k EXCEPT !.da = r.da], r.va)
from_block(k, n, strat) == allocated(k, alloc_block(k.da, n, strat))

kmalloc_block(k, size, strat) ==
  LET n     == Payload(size)
      grow  == ~k.da.up \/ Sufficient(k.da, n) = {}
      pages == PagesFor(k.da, n)
  IN  IF size = 0 \/ strat = "other" \/ (grow /\ sbrk_fails(k, pages)) THEN Returns(k, NULL)
      ELSE from_block(IF grow THEN grown(sbrk(k, pages), pages) ELSE k, n, strat)

(* The first use of the page allocator makes one element for all pages;    *)
(* without a block for it the code writes through NULL.                    *)
first_page(r) ==
  IF r.va = NULL THEN Panics(r.kh)
  ELSE Returns([r.kh EXCEPT !.list = <<[node |-> r.va, va |-> PAGE_START, n |-> PagePages]>>,
                            !.flag = TRUE], NULL)

\* Mutant: the element of an exact fit is unlinked but not freed.
take_pages_leak(k, i, n) ==
  IF k.list[i].n = n THEN [k EXCEPT !.list = RemoveAt(@, i)]
  ELSE [k EXCEPT !.list[i].va = @ + n * PAGE_SIZE, !.list[i].n = @ - n]

(* The element i of the list gives up n pages.                             *)
take_pages(k, i, n) ==
  IF k.list[i].n = n
  THEN [k EXCEPT !.da = free_block(@, k.list[i].node), !.list = RemoveAt(@, i)]
  ELSE [k EXCEPT !.list[i].va = @ + n * PAGE_SIZE, !.list[i].n = @ - n]

(* They are mapped; the first and the last of several carry bit 9.         *)
map_pages(k, va, n) ==
  LET perm(j) == IF n > 1 /\ j \in {1, n} THEN {"P", "W", "b9"} ELSE {"P", "W"}
  IN  Returns([k EXCEPT !.mm = MapRun(@, va, n, perm)], va)

(* The first element with enough pages is the one that gives them.         *)
from_pages(k, n) ==
  LET fit == {i \in DOMAIN k.list : k.list[i].n >= n}
      i   == Smallest(fit)
  IN  IF Len(k.mm.free) < n \/ fit = {} THEN Returns(k, NULL)
      ELSE map_pages(take_pages(k, i, n), k.list[i].va, n)

after_init(r, n) == IF r.panic THEN r ELSE from_pages(r.kh, n)

kmalloc_pages(k, size, strat) ==
  after_init(IF k.flag THEN Returns(k, NULL) ELSE first_page(kmalloc_block(k, NodeSize, strat)),
             RoundUp(size, PAGE_SIZE) \div PAGE_SIZE)

kmalloc(k, size, strat) ==
  IF size <= DYN_ALLOC_MAX_BLOCK_SIZE THEN kmalloc_block(k, size, strat)
  ELSE kmalloc_pages(k, size, strat)

-----------------------------------------------------------------------------
(* kfree() finds the end of the allocation by bit 9 ...                    *)
LastPage(mm, va) ==
  IF "b9" \notin pt_get_page_permissions(mm, K(va)) THEN va
  ELSE Smallest({p \in PageAddresses :
                   p > va /\ "b9" \in pt_get_page_permissions(mm, K(p))})

\* Mutant: the last page stays mapped.
UnmapRun_short(mm, va, n) ==
  LET clear(m, p) == unmap_frame(pt_set_page_permissions(m, p, {}, PERM_AVAILABLE), p)
      run[i \in 0 .. n] ==
        IF i \in {0, n} THEN IF i = 0 THEN mm ELSE run[i - 1]
        ELSE clear(run[i - 1], K(va + (i - 1) * PAGE_SIZE))
  IN  [run[n] EXCEPT !.pt[K(va + (n - 1) * PAGE_SIZE)] = NoEntry]

(* ... unmaps its pages ...                                                *)
UnmapRun(mm, va, n) ==
  LET clear(m, p) == unmap_frame(pt_set_page_permissions(m, p, {}, PERM_AVAILABLE), p)
      run[i \in 0 .. n] ==
        IF i = 0 THEN mm ELSE clear(run[i - 1], K(va + (i - 1) * PAGE_SIZE))
  IN  run[n]

(* ... and gives the range back to the list, where it joins its            *)
(* neighbours.  An element of its own needs a block: without one the code  *)
(* writes through NULL.                                                    *)
insert_range(r, i, va, n) ==
  IF r.va = NULL THEN Panics(r.kh)
  ELSE Returns([r.kh EXCEPT !.list = InsertAt(@, i, [node |-> r.va, va |-> va, n |-> n])], NULL)

\* Mutant: the pages of the element that goes are forgotten.
join_both_forgets(k, p, i, n) ==
  [k EXCEPT !.da = free_block(@, k.list[i].node),
            !.list = RemoveAt([k.list EXCEPT ![p].n = @ + n], i)]

join_both(k, p, i, n) ==
  [k EXCEPT !.da = free_block(@, k.list[i].node),
            !.list = RemoveAt([k.list EXCEPT ![p].n = @ + n + k.list[i].n], i)]

return_pages(k, va, last, n, strat) ==
  LET after == {i \in DOMAIN k.list : last < k.list[i].va}
      i     == IF after = {} THEN Len(k.list) + 1 ELSE Smallest(after)
      p     == i - 1
      right == after # {} /\ k.list[i].va - last = PAGE_SIZE
      left  == p > 0 /\ va - (k.list[p].va + (k.list[p].n - 1) * PAGE_SIZE) = PAGE_SIZE
  IN  IF left /\ right THEN Returns(join_both(k, p, i, n), NULL)
      ELSE IF right THEN Returns([k EXCEPT !.list[i].va = va, !.list[i].n = @ + n], NULL)
      ELSE IF left THEN Returns([k EXCEPT !.list[p].n = @ + n], NULL)
      ELSE insert_range(kmalloc_block(k, NodeSize, strat), i, va, n)

kfree_pages(k, va, last, strat) ==
  LET n == (last - va) \div PAGE_SIZE + 1
  IN  return_pages([k EXCEPT !.mm = UnmapRun(@, va, n)], va, last, n, strat)

kfree(k, va, strat) ==
  IF va >= KERNEL_HEAP_START /\ va < k.da.brk
  THEN Returns([k EXCEPT !.da = free_block(@, va)], NULL)
  ELSE IF va < HARD_LIMIT + 4 \/ va >= KERNEL_HEAP_MAX \/ get_frame_info(k.mm, K(va)) = NoFrame
  THEN Panics(k)
  ELSE kfree_pages(k, va, LastPage(k.mm, va), strat)

-----------------------------------------------------------------------------
(* krealloc() that moves: the new place r first, the old one freed only if *)
(* there is one.                                                           *)
moved(f, va) == [f EXCEPT !.va = va]
\* Mutant: the old place is freed although there is no new one.
move_blind(va, r, strat) ==
  IF r.panic THEN r ELSE moved(kfree(r.kh, va, strat), r.va)

move(va, r, strat) ==
  IF r.panic \/ r.va = NULL THEN r ELSE moved(kfree(r.kh, va, strat), r.va)

(* realloc_block_FF() of an allocated block; it allocates first fit        *)
(* whatever the strategy is.                                               *)
realloc_block_FF(k, va, size) ==
  LET even   == IF size % 2 = 1 THEN size + 1 ELSE size
      actual == Header(k.da, va) - 1
  IN  IF even + 8 = actual THEN Returns(k, va)
      ELSE IF even + 8 < actual THEN Returns([k EXCEPT !.da = shrink(@, va, even)], va)
      ELSE IF NextIsEnough(k.da, va, even)
           THEN Returns([k EXCEPT !.da = absorb(@, va, even)], va)
      ELSE move(va, kmalloc_block(k, even, "FF"), "FF")

(* A block that outgrows the blocks, and pages that are resized (always    *)
(* counted as one page, see ReallocWorks), move.                           *)
krealloc(k, va, size, strat) ==
  LET old == IF va < k.da.brk THEN Header(k.da, va) - 9 ELSE PAGE_SIZE
  IN  IF size = 0 THEN kfree(k, va, strat)
      ELSE IF va = NULL THEN kmalloc(k, size, strat)
      ELSE IF size = old THEN Returns(k, va)
      ELSE IF va < k.da.brk /\ size <= DYN_ALLOC_MAX_BLOCK_SIZE THEN realloc_block_FF(k, va, size)
      ELSE move(va, kmalloc(k, size, strat), strat)

(* The requests that krealloc() serves as its comment promises.  Left out  *)
(* are five that it does not: a block shrunk by 2 to 14 bytes, or to less  *)
(* than 8 (lines 617-634 of dynamic_allocator.c look for the next header   *)
(* inside the block, 561 does not raise the size); a block grown by 2 to   *)
(* 14 bytes into a part of the next one (see LinksSurvive); pages shrunk   *)
(* to less than a page that is too much for a block (it frees the page     *)
(* that is kept); one page grown in place (it returns the address of the   *)
(* second).                                                                *)
ReallocWorks(k, va, size) ==
  LET even == IF size % 2 = 1 THEN size + 1 ELSE size
      less == Header(k.da, va) - 1 - (even + 8)
      more == size \div PAGE_SIZE
      room == {i \in DOMAIN k.list : /\ k.list[i].va = va + PAGE_SIZE
                                     /\ \/ k.list[i].n = more - 1
                                        \/ k.list[i].n > more}
  IN  \/ size = 0
      \/ va = NULL
      \/ /\ va >= KERNEL_HEAP_START /\ va < k.da.brk
         /\ size >= DYN_ALLOC_MIN_BLOCK_SIZE /\ less \notin 1 .. 15
         /\ size <= DYN_ALLOC_MAX_BLOCK_SIZE => LinksSurvive(k.da, va, even)
      \/ va > HARD_LIMIT /\ size <= DYN_ALLOC_MAX_BLOCK_SIZE
      \/ va > HARD_LIMIT /\ size >= PAGE_SIZE /\ room = {}

-----------------------------------------------------------------------------
Init == \E pages \in 0 .. 1 :
          /\ kh = initialize_kheap_dynamic_allocator(pages)
          /\ strategy = "FF"
          /\ live = <<>>
          /\ panicked = FALSE

Without(f, va) == [x \in DOMAIN f \ {va} |-> f[x]]
With(f, va, n) == [x \in DOMAIN f \union {va} |-> IF x = va THEN n ELSE f[x]]

Kmalloc(size) ==
  /\ ~panicked
  /\ Cardinality(DOMAIN live) < MaxLive
  /\ \E r \in {kmalloc(kh, size, strategy)} :
       /\ kh' = r.kh
       /\ panicked' = r.panic
       /\ live' = IF r.va = NULL THEN live ELSE With(live, r.va, size)
  /\ UNCHANGED strategy

Kfree(va) ==
  /\ ~panicked
  /\ \E r \in {kfree(kh, va, strategy)} :
       /\ kh' = r.kh
       /\ panicked' = r.panic
  /\ live' = Without(live, va)
  /\ UNCHANGED strategy

Resize(va, size) ==
  /\ ~panicked
  /\ va = NULL => size # 0 /\ Cardinality(DOMAIN live) < MaxLive
  /\ \E r \in {krealloc(kh, va, size, strategy)} :
       /\ kh' = r.kh
       /\ panicked' = r.panic
       /\ live' = IF size = 0 THEN Without(live, va)
                  ELSE IF r.va = NULL THEN live
                  ELSE With(Without(live, va), r.va, size)
  /\ UNCHANGED strategy

Krealloc(va, size) == ReallocWorks(kh, va, size) /\ Resize(va, size)

(* krealloc() of a block that has room behind it, however little it grows. *)
Grow(va, size) ==
  /\ va < kh.da.brk
  /\ size <= DYN_ALLOC_MAX_BLOCK_SIZE
  /\ size > Header(kh.da, va) - 9
  /\ NextIsEnough(kh.da, va, size + (size % 2))
  /\ Resize(va, size)

(* The commands khff, khbf, khnf, khwf and khcontalloc of the prompt.      *)
SetStrategy(s) ==
  /\ ~panicked
  /\ strategy' = s
  /\ UNCHANGED <<kh, live, panicked>>

Next == \/ \E size \in Sizes : Kmalloc(size)
        \/ \E va \in DOMAIN live : Kfree(va)
        \/ \E va \in DOMAIN live \union {NULL}, size \in Sizes \union {0} : Krealloc(va, size)
        \/ \E s \in Strategies : SetStrategy(s)

Spec == Init /\ [][Next]_vars

(* The same with every growth in place, also those that ReallocWorks       *)
(* leaves out.                                                             *)
GrowNext == Next \/ \E va \in DOMAIN live, size \in Sizes : Grow(va, size)
GrowSpec == Init /\ [][GrowNext]_vars

-----------------------------------------------------------------------------
(* kheap_physical_address() and kheap_virtual_address(): page to frame by  *)
(* the page table, frame to page by base_va_page.                          *)
kheap_physical_address(k, va) ==
  LET f == get_frame_info(k.mm, K(va - (va % PAGE_SIZE)))
  IN  IF f = NoFrame THEN 0 ELSE f * PAGE_SIZE + (va % PAGE_SIZE)

kheap_virtual_address(k, pa) ==
  LET f == pa \div PAGE_SIZE
  IN  IF k.mm.ref[f] = 0 THEN 0 ELSE k.mm.base[f][2] + (pa - f * PAGE_SIZE)

-----------------------------------------------------------------------------
Blocks    == Tiles(kh.da, KERNEL_HEAP_START)
FreeTiles == {b \in Blocks : is_free_block(kh.da, b)}
Nodes     == {kh.list[i].node : i \in DOMAIN kh.list}
InBlocks(va) == va < HARD_LIMIT

(* Whatever is allocated, freed and resized, following the tags from the   *)
(* BEGIN word meets block after block and ends at the END word: header and *)
(* footer of each agree, no two free blocks touch, and freeBlocksList      *)
(* holds exactly the free ones in the order of their addresses.            *)
HeapTiled ==
  kh.da.up =>
    /\ Garbage \notin Blocks
    /\ \A b \in Blocks : Word(kh.da.mem, b + get_block_size(kh.da, b) - 8) = Header(kh.da, b)
    /\ \A b \in FreeTiles : b + get_block_size(kh.da, b) \notin FreeTiles
    /\ {kh.da.fbl[i] : i \in DOMAIN kh.da.fbl} = FreeTiles
    /\ \A i, j \in DOMAIN kh.da.fbl : i < j => kh.da.fbl[i] < kh.da.fbl[j]

(* Growing a block in place by a part of the free block behind it replaces *)
(* that block in freeBlocksList by the rest (realloc_block_FF() #3.1 of    *)
(* the kernel's tests), whatever the number of bytes.                      *)
RestIsListed ==
  kh.da.up => FreeTiles \subseteq {kh.da.fbl[i] : i \in DOMAIN kh.da.fbl}

(* No block leaks and none is handed out twice: the allocated blocks are   *)
(* those the callers hold and the elements of freePagesList_KH, each large *)
(* enough for what it was asked for.                                       *)
BlocksOwned ==
  LET held == {va \in DOMAIN live : InBlocks(va)}
  IN  kh.da.up =>
        /\ Blocks \ FreeTiles = held \union Nodes
        /\ held \intersect Nodes = {}
        /\ Cardinality(Nodes) = Len(kh.list)
        /\ \A va \in held : live[va] <= get_block_size(kh.da, va) - 8
        /\ \A b \in Nodes : get_block_size(kh.da, b) - 8 >= NodeSize

PagesOf(va)  == {p \in PageAddresses : va <= p /\ p <= LastPage(kh.mm, va)}
RangeOf(e)   == {p \in PageAddresses : e.va <= p /\ p < e.va + e.n * PAGE_SIZE}
PageArea     == {p \in PageAddresses : p >= PAGE_START}

(* Every page of the page allocator is either in exactly one element of    *)
(* freePagesList_KH, unmapped and unmarked, or in exactly one allocation,  *)
(* mapped, with bit 9 on the two ends of a longer run and nowhere else.    *)
(* The list is sorted and no two elements touch.                           *)
PagesPartition ==
  LET held == {va \in DOMAIN live : ~InBlocks(va)}
  IN  ~panicked =>
    /\ \A i, j \in DOMAIN kh.list :
         i < j => kh.list[i].va + kh.list[i].n * PAGE_SIZE < kh.list[j].va
    /\ \A va, w \in held : va # w => PagesOf(va) \intersect PagesOf(w) = {}
    /\ \A va \in held : live[va] <= Cardinality(PagesOf(va)) * PAGE_SIZE
    /\ \A p \in PageArea :
         LET listed == \E i \in DOMAIN kh.list : p \in RangeOf(kh.list[i])
             owners == {va \in held : p \in PagesOf(va)}
             ends   == \E va \in owners : p \in {va, LastPage(kh.mm, va)} /\ Cardinality(PagesOf(va)) > 1
         IN  /\ owners = {} <=> (listed \/ ~kh.flag)
             /\ owners = {} => kh.mm.pt[K(p)] = NoEntry
             /\ owners # {} => kh.mm.pt[K(p)].perm = {"P", "W"} \union (IF ends THEN {"b9"} ELSE {})

(* No frame is lost, shared or freed while mapped, the block allocator has *)
(* exactly the pages below its break, and the two address translations     *)
(* are inverse to each other on everything that is mapped.                 *)
FramesConserved ==
  /\ FramesCounted(kh.mm, LAMBDA f : 0)
  /\ \A p \in PageAddresses : p < PAGE_START =>
       (get_frame_info(kh.mm, K(p)) # NoFrame <=> p < kh.da.brk)
  /\ \A p \in PageAddresses : get_frame_info(kh.mm, K(p)) # NoFrame =>
       \A off \in {0, PAGE_SIZE - 1} :
         kheap_virtual_address(kh, kheap_physical_address(kh, p + off)) = p + off

Extent(va) == IF InBlocks(va) THEN get_block_size(kh.da, va) - 8
              ELSE Cardinality(PagesOf(va)) * PAGE_SIZE

Regions == {[va |-> va, size |-> Extent(va)] : va \in DOMAIN live}

Contract == INSTANCE Heap WITH owned <- Regions

(* The heap keeps the promise of module Heap, where a region is as large   *)
(* as the block's tag or the run's marks say: every call hands out fresh   *)
(* bytes, takes back or moves one region, or changes none.                 *)
HeapContract == Contract!Spec
=============================================================================
