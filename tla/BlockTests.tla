------------------------------ MODULE BlockTests ------------------------------
(***************************************************************************)
(* The test programs of user/ for the block part of the user heap, run on  *)
(* the operators of BlockAllocator at the real sizes: 7 sizes of blocks,   *)
(* allocCntPerSize of each, with the headers, footers and list the         *)
(* allocator keeps in the heap itself.                                     *)
(*                                                                         *)
(* A program is a sequence of calls, each with the address and the size    *)
(* it expects.  Where the first allocations should be is computed by the   *)
(* rule of the programs (curVA, curTotalSize), the later ones relative to  *)
(* the blocks they free.  Addresses count from USER_HEAP_START.            *)
(***************************************************************************)
EXTENDS BlockAllocator, FiniteSets

CONSTANTS allocCntPerSize,   \* 200 in the programs
          LimitPages         \* bound: pages of the block area (DYN_ALLOC_MAX_SIZE)

ASSUME BlockTestsAssumption ==
  /\ allocCntPerSize \in Nat \ (0 .. 3) /\ LimitPages \in Nat

VARIABLE bt      \* the program that runs, and its heap

kilo == 1024
sizeOfMetaData == 8
allocSizes == <<20, 16, 28, kilo \div 2, kilo, (3 * kilo) \div 2, 2 * kilo>>
numOfAllocs == Len(allocSizes)
N == numOfAllocs * allocCntPerSize

-----------------------------------------------------------------------------
(* The calls of a program.  A block is expected off bytes after the one    *)
(* that was allocated as number i, with total bytes.                       *)
Alloc(size, i, off, total) == [op |-> "malloc", size |-> size, i |-> i, off |-> off, total |-> total]
Kept(size, i, off, total)  == [op |-> "store", size |-> size, i |-> i, off |-> off, total |-> total]
FreeOf(k, i, total)        == [op |-> "free", k |-> k, i |-> i, total |-> total]
Freed(i, total)            == FreeOf(i, i, total)
Dummy(size)                == [op |-> "dummy", size |-> size]
Just(op)                   == [op |-> op]

(* The first block of each size is freed.                                  *)
First(s) == (s - 1) * allocCntPerSize
free_firsts == [s \in 1 .. numOfAllocs |-> Freed(First(s), allocSizes[s])]

(* tst_malloc_2: the data of every block and the pages that hold them.     *)
tst_malloc_2 == <<Just("data"), Just("list"), Just("pages")>>

(* tst_first_fit_2: the first hole that fits, exactly or with padding, and *)
(* the end of the area.                                                    *)
ff2_smaller ==
  <<Kept(kilo \div 4 - 8, First(4), 0, kilo \div 4),
    Kept(8, 0, 0, allocSizes[1]),
    Kept(kilo \div 8 - 8, First(4), kilo \div 4, kilo \div 8)>>
ff2_equal == <<Kept(kilo \div 8 - 8, First(4), kilo \div 4 + kilo \div 8, kilo \div 8)>>
ff2_limit ==
  <<Dummy(2 * kilo - 8), Just("rem"), Just("fill"), Dummy(2 * kilo - 8), Just("refused")>>
tst_first_fit_2 ==
  <<Just("rest")>> \o free_firsts \o ff2_smaller \o ff2_equal \o <<Just("data")>> \o ff2_limit

(* tst_free_2: merging with the block before, after, and both.             *)
free_2_alone ==
  free_firsts
  \o <<Freed(N - 1, allocSizes[7]), Alloc(allocSizes[1] - 8, 0, 0, allocSizes[1]),
       Freed(1, allocSizes[1])>>
free_2_previous ==
  <<[FreeOf(N, N - 1, allocSizes[7]) EXCEPT !.op = "freerest"],
    FreeOf(First(3) + 1, First(3), 2 * allocSizes[3])>>
free_2_next ==
  <<Freed(0, 2 * allocSizes[1]), Freed(First(2) - 1, allocSizes[1] + allocSizes[2])>>
free_2_both ==
  <<Freed(First(5) - 2, allocSizes[4]),
    FreeOf(First(5) - 1, First(5) - 2, 2 * allocSizes[4] + allocSizes[5])>>
OneAndHalf == (3 * kilo) \div 2
free_2_reuse_next ==
  <<Alloc(16, 0, 0, 24), Alloc(8, 0, 24, 16), Alloc(20, First(2) - 1, 0, allocSizes[1] + allocSizes[2])>>
free_2_reuse_both == <<Alloc(OneAndHalf, First(5) - 2, 0, OneAndHalf + 8)>>
free_2_reuse_previous ==
  <<Alloc(30, First(3), 0, 38), Dummy(OneAndHalf - 8), Dummy(OneAndHalf - 8),
    Alloc(OneAndHalf, N - 1, 0, OneAndHalf + 8),
    Alloc(OneAndHalf, N - 1, OneAndHalf + 8, OneAndHalf + 8)>>
tst_free_2 ==
  <<Just("rest"), Just("frames")>> \o free_2_alone \o free_2_previous \o free_2_next \o free_2_both
  \o free_2_reuse_next \o free_2_reuse_both \o free_2_reuse_previous
  \o <<Just("same"), Just("list"), Just("pages")>>

Programs == [malloc_2 |-> tst_malloc_2, first_fit_2 |-> tst_first_fit_2, free_2 |-> tst_free_2]

-----------------------------------------------------------------------------
(* The heap of a program that starts: nothing, not even an allocator.      *)
BInit == bt = [prog |-> "all", pc |-> 1, ok |-> TRUE, left |-> 0, data |-> {},
               pages |-> {}, frames |-> 0, start |-> <<>>, cur |-> 4, total |-> 4,
               da |-> [mem |-> <<>>, fbl |-> <<>>, brk |-> 0, up |-> FALSE]]

(* sys_sbrk(): moves the break, allocates nothing.                         *)
Refuses(d, n) == d.brk + n * PAGE_SIZE - 1 >= LimitPages * PAGE_SIZE
sbrk(d, n) == Extended([d EXCEPT !.brk = @ + n * PAGE_SIZE], n)

(* malloc() of a block: alloc_block_FF().                                  *)
malloc(d, size) ==
  LET n     == Payload(size)
      grow  == ~d.up \/ Sufficient(d, n) = {}
      pages == PagesFor(d, n)
  IN  IF size = 0 \/ (grow /\ Refuses(d, pages)) THEN [da |-> d, va |-> NULL]
      ELSE alloc_block(IF grow THEN sbrk(d, pages) ELSE d, n, "FF")

(* check_block(): the address, the header and the footer.                  *)
check_block(d, va, want, size, flag) ==
  /\ va = want
  /\ Header(d, va) = size + flag
  /\ Word(d.mem, va + size - 8) = size + flag

(* The pages the allocator has written to have a frame from then on.       *)
Touched(d) == {a \div PAGE_SIZE : a \in DOMAIN d.mem}
(* The places of a block where a program stores its number.                *)
Marks(va, size) == {va, va + size \div 2, va + size - 2}
(* No tag of the allocator lies on such a place.                           *)
Whole(d, places) == \A a \in places : {a - 2, a} \intersect DOMAIN d.mem = {}

startVAs(i) == bt.start[i + 1]
remainSize  == RoundUp(bt.total, PAGE_SIZE) - bt.total - 4
Expected    == RoundUp(bt.total, PAGE_SIZE) \div PAGE_SIZE     \* pages of the heap

Op == Programs[bt.prog][bt.pc]
Has(op) == bt.prog # "all" /\ bt.pc <= Len(Programs[bt.prog]) /\ Op.op = op

Becomes(d, ok) ==
  bt' = [bt EXCEPT !.da = d, !.ok = @ /\ ok, !.pages = @ \union Touched(d), !.pc = @ + 1]
Stores(d, ok, marks) ==
  bt' = [bt EXCEPT !.da = d, !.ok = @ /\ ok, !.pages = @ \union Touched(d), !.pc = @ + 1,
                   !.data = @ \union marks]

(* PREREQUISITE#1 of all of them: allocCntPerSize blocks of each size.  A  *)
(* rest of the page too small for a block belongs to the block before it   *)
(* and the next one starts at the END word.                                *)
Allocate(size, total, rounded) ==
  LET diff == rounded - total
      skip == diff > 0 /\ diff < DYN_ALLOC_MIN_BLOCK_SIZE + sizeOfMetaData
  IN  \E r \in {malloc(bt.da, size - sizeOfMetaData)} :
        bt' = [bt EXCEPT
          !.da = r.da, !.pc = @ + 1, !.start = Append(@, r.va),
          !.pages = @ \union Touched(r.da),
          !.data  = @ \union Marks(r.va, size - sizeOfMetaData),
          !.ok    = @ /\ check_block(r.da, r.va, bt.cur + sizeOfMetaData \div 2,
                                     IF skip THEN size + diff - 4 ELSE size, 1),
          !.cur   = IF skip THEN RoundUp(@, PAGE_SIZE) - 4 ELSE @ + size,
          !.total = IF skip THEN rounded - 4 ELSE total]
BAllocate ==
  /\ bt.prog = "all" /\ bt.pc <= N
  /\ \E size \in {allocSizes[((bt.pc - 1) \div allocCntPerSize) + 1]} :
       Allocate(size, bt.total + size, RoundUp(bt.total + size, PAGE_SIZE))
(* On with one of the programs; only tst_malloc_2 stored something.        *)
BChoose == /\ bt.prog = "all" /\ bt.pc > N
           /\ \E p \in DOMAIN Programs :
                bt' = [bt EXCEPT !.prog = p, !.pc = 1, !.data = IF p = "malloc_2" THEN @ ELSE {}]
(* The rest of the last page, with alloc_block() itself.                   *)
BRest ==
  /\ Has("rest")
  /\ IF remainSize < DYN_ALLOC_MIN_BLOCK_SIZE + sizeOfMetaData THEN Becomes(bt.da, TRUE)
     ELSE \E r \in {malloc(bt.da, remainSize - sizeOfMetaData)} :
            bt' = [bt EXCEPT !.da = r.da, !.pc = @ + 1, !.start = Append(@, r.va),
                             !.ok = @ /\ check_block(r.da, r.va, bt.cur + 4, remainSize, 1),
                             !.pages = @ \union Touched(r.da)]

BMalloc == /\ Has("malloc")
           /\ \E r \in {malloc(bt.da, Op.size)} :
                Becomes(r.da, check_block(r.da, r.va, startVAs(Op.i) + Op.off, Op.total, 1))
BStore == /\ Has("store")
          /\ \E r \in {malloc(bt.da, Op.size)} :
               Stores(r.da, check_block(r.da, r.va, startVAs(Op.i) + Op.off, Op.total, 1),
                      Marks(r.va, Op.size))
BDummy == \/ Has("dummy") /\ \E r \in {malloc(bt.da, Op.size)} : Becomes(r.da, TRUE)
          \/ Has("list") /\ \E r \in {malloc(bt.da, 4 * Expected)} : Becomes(r.da, TRUE)
BFree == \/ Has("free") /\ \E d \in {free_block(bt.da, startVAs(Op.k))} :
              Becomes(d, check_block(d, startVAs(Op.i), startVAs(Op.i), Op.total, 0))
         \/ Has("freerest") /\ \E d \in {free_block(bt.da, startVAs(Op.k))} :
              Becomes(d, check_block(d, startVAs(Op.i), startVAs(Op.i),
                                     Op.total + remainSize, 0))
(* malloc() until the area is full, then once more.                        *)
BRem == Has("rem") /\ bt' = [bt EXCEPT !.pc = @ + 1,
                               !.left = ((LimitPages * PAGE_SIZE - bt.da.brk) \div PAGE_SIZE) * 2]
BFill == /\ Has("fill")
         /\ IF bt.left = 0 THEN Becomes(bt.da, TRUE)
            ELSE \E r \in {malloc(bt.da, 2 * kilo - 8)} :
                   bt' = [bt EXCEPT !.da = r.da, !.ok = @ /\ r.va # NULL, !.left = @ - 1,
                                    !.pages = @ \union Touched(r.da)]
BRefused == Has("refused") /\ \E r \in {malloc(bt.da, 2 * kilo - 8)} : Becomes(r.da, r.va = NULL)
BChecks == \/ Has("data") /\ Becomes(bt.da, Whole(bt.da, bt.data))
           \/ Has("pages") /\ Becomes(bt.da, 0 .. Expected - 1 \subseteq bt.pages)
           \/ Has("frames") /\ bt' = [bt EXCEPT !.pc = @ + 1, !.frames = Cardinality(bt.pages)]
           \/ Has("same") /\ Becomes(bt.da, bt.frames = Cardinality(bt.pages))

BNext == BAllocate \/ BChoose \/ BRest \/ BMalloc \/ BStore \/ BDummy \/ BFree
         \/ BRem \/ BFill \/ BRefused \/ BChecks

-----------------------------------------------------------------------------
(* Every block is where the test programs expect it, with header and       *)
(* footer right, after splitting, padding and each way of merging          *)
(* (user/tst_malloc_2.c, tst_first_fit_2.c, tst_free_2.c against           *)
(* lib/dynamic_allocator.c); no tag ever lies on stored data, free() gives *)
(* no page back, and the area is refused only when it is full.             *)
BlockTestsMet == bt.ok
=============================================================================
