--------------------------- MODULE BlockAllocator ---------------------------
(***************************************************************************)
(* The dynamic block allocator of lib/dynamic_allocator.c, which manages   *)
(* the small blocks of the kernel heap and of every user heap.  The module *)
(* has no variables of its own: the state of one allocator is a record     *)
(*                                                                         *)
(*   da.mem : the words of the heap one may rely on, by byte address       *)
(*   da.fbl : freeBlocksList, the payload addresses of the free blocks     *)
(*   da.brk : the segment break, first byte that is not the allocator's    *)
(*   da.up  : is_initialized                                               *)
(*                                                                         *)
(* and each C function is an operator from record to record.  Sizes and    *)
(* addresses are bytes, and only even ones occur.  A word is kept at the   *)
(* address it was written to; writing one destroys those it overlaps, and  *)
(* what is not kept (user data, list links, old tags) reads as Garbage.    *)
(* A block is header, payload, footer; both tags hold the total size with  *)
(* the allocated flag in the lowest bit.                                   *)
(***************************************************************************)
EXTENDS Integers, Sequences, SequencesExt

CONSTANTS PAGE_SIZE,               \* 4096 in the code
          DYN_ALLOC_MAX_BLOCK_SIZE \* 2048 in the code

DYN_ALLOC_MIN_BLOCK_SIZE == 8

(* A fresh page can hold the largest block and still be split: alloc_block *)
(* relies on this, see Extended.                                           *)
ASSUME PageAssumption ==
  /\ PAGE_SIZE \in Nat /\ DYN_ALLOC_MAX_BLOCK_SIZE \in Nat
  /\ PAGE_SIZE % 4 = 0
  /\ DYN_ALLOC_MAX_BLOCK_SIZE >= DYN_ALLOC_MIN_BLOCK_SIZE
  /\ DYN_ALLOC_MAX_BLOCK_SIZE + 8 + 16 <= PAGE_SIZE

NULL    == 0
Garbage == -1      \* a word nobody may rely on

RoundUp(n, m) == ((n + m - 1) \div m) * m

Word(mem, a) == IF a \in DOMAIN mem THEN mem[a] ELSE Garbage

Put(mem, a, v) ==
  [x \in (DOMAIN mem \ {a - 2, a, a + 2}) \union (IF v = Garbage THEN {} ELSE {a})
     |-> IF x = a THEN v ELSE mem[x]]

(* The bytes va .. va+n-1 hold data, links or nothing at all: no word of   *)
(* them may be relied on.                                                  *)
Scribble(mem, va, n) ==
  [x \in {y \in DOMAIN mem : y <= va - 4 \/ y >= va + n} |-> mem[x]]

OrOne(w) == IF w = Garbage THEN Garbage ELSE w + 1 - (w % 2)
Minus1(w) == IF w = Garbage THEN Garbage ELSE w - 1

Header(da, va) == Word(da.mem, va - 4)
get_block_size(da, va) == Header(da, va) - (Header(da, va) % 2)
is_free_block(da, va) == Header(da, va) % 2 = 0

Position(da, va) == CHOOSE i \in DOMAIN da.fbl : da.fbl[i] = va
Unlink(da, va) == RemoveAt(da.fbl, Position(da, va))

-----------------------------------------------------------------------------
(* initialize_dynamic_allocator(): one free block between the BEGIN and    *)
(* the END word.  A size of 0 initialises nothing.                         *)
initialize_dynamic_allocator(da, daStart, size) ==
  LET even == IF size % 2 = 1 THEN size + 1 ELSE size
      s    == IF even < 24 THEN 24 ELSE even
      mem1 == Put(Put(da.mem, daStart, 1), daStart + s - 4, 1)
      mem2 == Put(Put(mem1, daStart + 4, s - 8), daStart + s - 8, s - 8)
  IN  IF even = 0 THEN da
      ELSE [da EXCEPT !.mem = Scribble(mem2, daStart + 8, s - 16),
                      !.fbl = <<daStart + 8>>, !.up = TRUE]

-----------------------------------------------------------------------------
(* free_block() of a block no neighbour of which is free: the list stays   *)
(* ordered by address.                                                     *)
free_alone(da, va, footer, prev, next) ==
  LET at == IF prev = 1 THEN 1
            ELSE IF next = 1 \/ \A i \in DOMAIN da.fbl : da.fbl[i] < va
                 THEN Len(da.fbl) + 1
                 ELSE CHOOSE i \in DOMAIN da.fbl :
                        /\ da.fbl[i] > va
                        /\ \A j \in 1 .. i - 1 : da.fbl[j] <= va
  IN  [da EXCEPT !.mem = Scribble(Put(Put(@, va - 4, Header(da, va) - 1),
                                      footer, Minus1(Word(@, footer))), va, footer - va),
                 !.fbl = InsertAt(@, at, va)]

(* ... with a free block before it: that one grows.                        *)
free_with_prev(da, va, footer, prev) ==
  LET hp    == va - 4 - prev
      total == Header(da, va) - 1 + prev
  IN  [da EXCEPT !.mem = Scribble(Put(Put(@, hp, total), footer, total),
                                  hp + 4, total - 8)]

(* ... with a free block after it: the merged block takes its place in the *)
(* list.                                                                   *)
free_with_next(da, va, footer, next, hn) ==
  LET total == Header(da, va) - 1 + next
      mem1  == Put(Put(da.mem, footer, Minus1(Word(da.mem, footer))), va - 4, total)
  IN  [da EXCEPT !.mem = Scribble(Put(mem1, hn + next - 4, total), va, total - 8),
                 !.fbl = ReplaceAt(@, Position(da, hn + 4), va)]

\* Mutant: the block after it stays in the list.
free_with_both_linked(da, va, footer, prev, next, hn) ==
  LET hp    == va - 4 - prev
      total == Word(da.mem, hp) + Header(da, va) - 1 + next
  IN  [da EXCEPT !.mem = Scribble(Put(Put(@, hp, total), hn + next - 4, total),
                                  hp + 4, total - 8)]

(* ... and between two free blocks.                                        *)
free_with_both(da, va, footer, prev, next, hn) ==
  LET hp    == va - 4 - prev
      total == Word(da.mem, hp) + Header(da, va) - 1 + next
      mem1  == Put(Put(da.mem, va - 4, Header(da, va) - 1), footer,
                   Minus1(Word(da.mem, footer)))
  IN  [da EXCEPT !.mem = Scribble(Put(Put(mem1, hp, total), hn + next - 4, total),
                                  hp + 4, total - 8),
                 !.fbl = Unlink(da, hn + 4)]

free_block(da, va) ==
  LET hd     == Header(da, va)
      footer == va + (hd - 1) - 8
      hn     == va + (hd - 1) - 4
      prev   == Word(da.mem, va - 8)
      next   == Word(da.mem, hn)
  IN  IF va = NULL \/ is_free_block(da, va) THEN da
      ELSE IF prev % 2 = 1 /\ next % 2 = 1 THEN free_alone(da, va, footer, prev, next)
      ELSE IF next % 2 = 1 THEN free_with_prev(da, va, footer, prev)
      ELSE IF prev % 2 = 1 THEN free_with_next(da, va, footer, next, hn)
      ELSE free_with_both(da, va, footer, prev, next, hn)

-----------------------------------------------------------------------------
(* The size a request really takes: even, and large enough for the links   *)
(* of freeBlocksList.                                                      *)
Payload(size) ==
  LET even == IF size % 2 = 1 THEN size + 1 ELSE size
  IN  IF even < DYN_ALLOC_MIN_BLOCK_SIZE THEN DYN_ALLOC_MIN_BLOCK_SIZE ELSE even

(* The positions of the free blocks that can hold a payload.               *)
Sufficient(da, size) ==
  {i \in DOMAIN da.fbl : Header(da, da.fbl[i]) >= size + 8}

(* alloc_block_FF(): the first of them.                                    *)
FirstFit(da, size) ==
  CHOOSE i \in Sufficient(da, size) : \A j \in Sufficient(da, size) : i <= j

(* alloc_block_BF(): the first of the smallest ones.                       *)
BestFit(da, size) ==
  LET hd(i) == Header(da, da.fbl[i])
  IN  CHOOSE i \in Sufficient(da, size) :
        \A j \in Sufficient(da, size) \ {i} :
          hd(i) < hd(j) \/ (hd(i) = hd(j) /\ i < j)

\* Mutant: any rest becomes a free block.
take_exact(da, i, size) ==
  LET va    == da.fbl[i]
      hd    == Header(da, va)
      total == size + 8
      old   == va + hd - 8
      rest  == va + total
      whole == Put(Put(da.mem, va - 4, OrOne(hd)), old, OrOne(Word(da.mem, old)))
      split == Put(Put(Put(Put(da.mem, va + size, total + 1), va - 4, total + 1),
                       rest - 4, hd - total), old, hd - total)
  IN  IF hd = total
      THEN [da EXCEPT !.mem = whole, !.fbl = RemoveAt(@, i)]
      ELSE [da EXCEPT !.mem = split, !.fbl = ReplaceAt(@, i, rest)]

(* Takes the block at position i of the free list.  What is left becomes a *)
(* free block if it can be one (16 bytes), else it is padding.             *)
take(da, i, size) ==
  LET va    == da.fbl[i]
      hd    == Header(da, va)
      total == size + 8
      old   == va + hd - 8          \* footer of the whole block
      rest  == va + total           \* payload of the split block
      whole == Put(Put(da.mem, va - 4, OrOne(hd)), old, OrOne(Word(da.mem, old)))
      split == Put(Put(Put(Put(da.mem, va + size, total + 1), va - 4, total + 1),
                       rest - 4, hd - total), old, hd - total)
  IN  IF hd - total < 16
      THEN [da EXCEPT !.mem = whole, !.fbl = RemoveAt(@, i)]
      ELSE [da EXCEPT !.mem = Scribble(split, rest, hd - total - 8), !.fbl = ReplaceAt(@, i, rest)]

(* Pages asked of sbrk() when nothing fits, or at the first request.       *)
PagesFor(da, size) ==
  RoundUp(IF da.up THEN size + 8 ELSE size + 16, PAGE_SIZE) \div PAGE_SIZE

(* The heap after sbrk() moved the break by n pages: the END word becomes  *)
(* the header of a block of n pages, marked allocated and handed to        *)
(* free_block().  Its footer is written 4 bytes too low, so the word that  *)
(* free_block() takes for the footer is whatever the page held: it is      *)
(* right again once the block was merged or split.                         *)
Extended(da, n) ==
  LET size == n * PAGE_SIZE
      addr == da.brk - size
      mem1 == Put(Put(da.mem, addr - 4, size + 1), addr - 4 + size - 8, size + 1)
      mem2 == Put(mem1, addr - 4 + size, 1)
  IN  IF da.up THEN free_block([da EXCEPT !.mem = mem2], addr)
      ELSE initialize_dynamic_allocator(da, addr, size)

(* alloc_block_FF() / alloc_block_BF() once a block fits: the new state    *)
(* and the address returned.  The owner may write its bytes from now on.   *)
alloc_block(da, size, strategy) ==
  LET i  == IF strategy = "FF" THEN FirstFit(da, size) ELSE BestFit(da, size)
      va == da.fbl[i]
      d  == take(da, i, size)
  IN  [da |-> [d EXCEPT !.mem = Scribble(@, va, size)], va |-> va]

-----------------------------------------------------------------------------
(* realloc_block_FF() of an allocated block.  Shrinking splits the tail    *)
(* off and frees it.                                                       *)
shrink(da, va, size) ==
  LET actual == Header(da, va) - 1
      total  == size + 8
      footer == va + actual - 8
      rest   == va + total
      mem1   == Put(Put(da.mem, va + size, total + 1), va - 4, total + 1)
      mem2   == Put(Put(mem1, rest - 4, actual - total + 1), footer, actual - total + 1)
  IN  free_block([da EXCEPT !.mem = mem2], rest)

(* Growing takes the free block that follows, wholly or in part.           *)
NextIsEnough(da, va, size) ==
  LET actual == Header(da, va) - 1
      next   == Word(da.mem, va + actual - 4)
  IN  next % 2 = 0 /\ actual + next >= size + 8

(* The list of a part is made after its tags: the new footer and header    *)
(* are written, and only then do LIST_INSERT_AFTER and LIST_REMOVE read    *)
(* the links of the old free block.  Growing by 2 to 14 bytes puts the     *)
(* tags, or the links of the rest, over these links.                       *)
LinksSurvive(da, va, size) ==
  LET actual == Header(da, va) - 1
      next   == Word(da.mem, va + actual - 4)
  IN  NextIsEnough(da, va, size) /\ actual + next - (size + 8) >= 16
        => size + 8 - actual \notin 1 .. 15

absorb(da, va, size) ==
  LET actual == Header(da, va) - 1
      hn     == va + actual - 4
      next   == Word(da.mem, hn)
      footer == hn + next - 4
      total  == size + 8
      left   == actual + next - total
      rest   == va + total
      whole  == Put(Put(da.mem, va - 4, actual + next + 1), footer, actual + next + 1)
      split  == Put(Put(Put(Put(da.mem, va + size, total + 1), va - 4, total + 1),
                        rest - 4, left), footer, left)
  IN  IF left < 16
      THEN [da EXCEPT !.mem = Scribble(whole, va, actual + next - 8), !.fbl = Unlink(da, hn + 4)]
      ELSE [da EXCEPT !.mem = Scribble(Scribble(split, va, size), rest, left - 8),
                      !.fbl = IF LinksSurvive(da, va, size)
                              THEN ReplaceAt(@, Position(da, hn + 4), rest)
                              ELSE <<Garbage>>]

-----------------------------------------------------------------------------
(* What the heap looks like to somebody who walks it from block to block.  *)
(* Tiles(da, start) holds the payload addresses met when every tag is      *)
(* followed; it contains Garbage unless the walk ends at the END word.     *)
Tiles(da, start) ==
  LET step[a \in DOMAIN da.mem \union {Garbage}] ==
        LET next == a + da.mem[a] - (da.mem[a] % 2)
        IN  IF a = Garbage THEN {Garbage}
            ELSE IF a = da.brk - 4 THEN IF da.mem[a] = 1 THEN {} ELSE {Garbage}
            ELSE IF da.mem[a] < 16 \/ next > da.brk - 4 THEN {Garbage}
            ELSE {a + 4} \union step[IF next \in DOMAIN da.mem THEN next ELSE Garbage]
  IN  step[IF start + 4 \in DOMAIN da.mem THEN start + 4 ELSE Garbage]
=============================================================================
