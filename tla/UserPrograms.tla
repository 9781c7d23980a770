----------------------------- MODULE UserPrograms -----------------------------
(***************************************************************************)
(* The programs of user/ that sort arrays, multiply matrices and compute   *)
(* Fibonacci numbers, with their heap: every malloc() and free() they make *)
(* is done on the block allocator of BlockAllocator.  The user answers the *)
(* questions of the console in any way.  The sorts keep their elements,    *)
(* which live outside the allocator's words; the numbers of the other      *)
(* programs are left out.                                                  *)
(*                                                                         *)
(* QSort and MSort recur in the code; here todo is the stack of the calls  *)
(* that are still to be made, and each turn of their loops is a step.      *)
(***************************************************************************)
EXTENDS BlockTests

CONSTANTS MaxElements,   \* bound: elements of an array, index of a Fibonacci number
          MaxDim,        \* bound: rows of a matrix
          MaxRounds      \* bound: times the user repeats

ASSUME UserProgramsAssumption ==
  MaxElements \in Nat \ (0 .. 2) /\ MaxDim \in Nat /\ MaxRounds \in Nat

VARIABLE up              \* the program that runs

-----------------------------------------------------------------------------
(* The sorting programs.  Each file has a copy of its own of the functions *)
(* below, and its record stands for it: what tells it from the others.     *)
(* own: Elements comes from malloc(); temps: so do Left and Right; frees:  *)
(* they are given back; guard: InitializeSemiRandom avoids a modulus of 0; *)
(* random: the pivot is drawn by RAND.                                     *)
quicksort_noleakage ==
  [sort |-> "quick", own |-> TRUE, temps |-> FALSE, frees |-> TRUE, guard |-> TRUE, random |-> FALSE]
quicksort_leakage ==
  [sort |-> "quick", own |-> TRUE, temps |-> FALSE, frees |-> FALSE, guard |-> TRUE, random |-> FALSE]
mergesort_noleakage ==
  [sort |-> "merge", own |-> TRUE, temps |-> TRUE, frees |-> TRUE, guard |-> FALSE, random |-> FALSE]
mergesort_leakage ==
  [sort |-> "merge", own |-> TRUE, temps |-> TRUE, frees |-> FALSE, guard |-> FALSE, random |-> FALSE]
(* This one sorts SIZE elements of a static array in one way, once.        *)
mergesort_static ==
  [sort |-> "merge", own |-> FALSE, temps |-> FALSE, frees |-> FALSE, guard |-> TRUE, random |-> FALSE]
(* The slaves of arrayOperations work on copies in shared memory.  Their   *)
(* master dies in create_semaphore(): these are their functions only, on   *)
(* the arrays the master would give them.                                  *)
arrayOperations_quicksort ==
  [sort |-> "quick", own |-> FALSE, temps |-> FALSE, frees |-> FALSE, guard |-> FALSE, random |-> TRUE]
arrayOperations_mergesort ==
  [sort |-> "merge", own |-> FALSE, temps |-> TRUE, frees |-> TRUE, guard |-> FALSE, random |-> FALSE]
arrayOperations_stats ==
  [sort |-> "select", own |-> FALSE, temps |-> FALSE, frees |-> FALSE, guard |-> FALSE, random |-> TRUE]

Sorters ==
  [quick_noleak |-> quicksort_noleakage, quick_leak |-> quicksort_leakage,
   merge_noleak |-> mergesort_noleakage, merge_leak |-> mergesort_leakage,
   merge_static |-> mergesort_static, array_quick |-> arrayOperations_quicksort,
   array_merge |-> arrayOperations_mergesort, array_stats |-> arrayOperations_stats]
Repeated == {"quick_noleak", "quick_leak", "merge_noleak", "merge_leak", "matrix"}

(* InitializeAscending(), InitializeDescending(), InitializeSemiRandom().  *)
Initialize(c, n, guard) ==
  LET Repetition == IF n \div 3 = 0 /\ guard THEN 3 ELSE n \div 3
  IN  [i \in 0 .. n - 1 |-> IF c = "a" THEN i ELSE IF c = "b" THEN n - i - 1 ELSE i % Repetition]
DividesByZero(c, n, guard) == c = "c" /\ n \in {1, 2} /\ ~guard

Counts(p)  == IF p = "merge_static" THEN {MaxElements}
              ELSE IF Sorters[p].own THEN 0 .. MaxElements ELSE 1 .. MaxElements
Letters(p) == IF p = "merge_static" THEN {"c"} ELSE {"a", "b", "c"}

NoPart == [i |-> 0, j |-> 0]
NoMerge == [k |-> 0]
Sorter == Sorters[up.prog]

(* The questions, malloc() of Elements, and its initialization.            *)
FirstCall(p, n) == IF Sorters[p].sort = "merge" THEN [op |-> "sort", p |-> 1, r |-> n]
                ELSE [s |-> 0, f |-> n - 1]
Start(p, n, c, r) ==
  IF DividesByZero(c, n, Sorters[p].guard)
  THEN up' = [up EXCEPT !.st = "killed", !.n = n, !.choice = c, !.da = r.da]
  ELSE \E a \in {Initialize(c, n, Sorters[p].guard)} :
         up' = [up EXCEPT !.st = "sort", !.n = n, !.choice = c, !.da = r.da, !.ptr = r.va,
                          !.a = a, !.first = a, !.todo = <<FirstCall(p, n)>>]
AskArray ==
  /\ up.st = "ask" /\ up.prog \in DOMAIN Sorters
  /\ \E n \in Counts(up.prog), c \in Letters(up.prog) :
       \E r \in {IF Sorter.own THEN malloc(up.da, 4 * n) ELSE [da |-> up.da, va |-> NULL]} :
         Start(up.prog, n, c, r)

-----------------------------------------------------------------------------
(* QSort(): the pivot stands at startIndex; i and j scan towards each      *)
(* other and swap what is on the wrong side.                               *)
Swap(a, x, y) == [a EXCEPT ![x] = a[y], ![y] = a[x]]
RAND(s, e) == s .. e - 1

ScanUp(a, s, f, i) ==
  CHOOSE x \in i .. f + 1 : /\ x > f \/ a[s] < a[x]
                            /\ \A y \in i .. x - 1 : a[s] >= a[y]
ScanDown(a, s, j) ==
  CHOOSE x \in s .. j : /\ x = s \/ a[s] > a[x]
                        /\ \A y \in x + 1 .. j : a[s] <= a[y]

Quick == up.st = "sort" /\ Sorter.sort \in {"quick", "select"} /\ up.todo # <<>>
Call == Head(up.todo)

QSort ==
  /\ Quick /\ up.part = NoPart
  /\ IF Call.s >= Call.f
     THEN up' = [up EXCEPT !.todo = Tail(@), !.kth = Call.f]
     ELSE \E pvtIndex \in IF Sorter.random THEN RAND(Call.s, Call.f) ELSE {Call.s} :
            up' = [up EXCEPT !.a = Swap(@, Call.s, pvtIndex), !.part = [i |-> Call.s + 1, j |-> Call.f]]

Scanned(i, j) == up' = [up EXCEPT !.part = [i |-> i, j |-> j],
                                  !.a = IF i <= j THEN Swap(@, i, j) ELSE @]
QScan ==
  /\ Quick /\ up.part # NoPart /\ up.part.i <= up.part.j
  /\ \E i \in {ScanUp(up.a, Call.s, Call.f, up.part.i)}, j \in {ScanDown(up.a, Call.s, up.part.j)} :
       Scanned(i, j)

(* KthElement() goes on in one part only, the sorts in both.               *)
kIndex == up.n \div 2 - 1
QSplit ==
  /\ Quick /\ up.part # NoPart /\ up.part.i > up.part.j
  /\ LET j == up.part.j
         low == [s |-> Call.s, f |-> j - 1]
         high == [s |-> up.part.i, f |-> Call.f]
     IN  up' = [up EXCEPT !.a = Swap(@, Call.s, j), !.part = NoPart, !.kth = j,
                          !.todo = IF Sorter.sort = "quick" THEN <<low, high>> \o Tail(@)
                                   ELSE IF kIndex = j THEN <<>>
                                   ELSE IF kIndex < j THEN <<low>> ELSE <<high>>]

-----------------------------------------------------------------------------
(* MSort() and Merge(), whose indices count from 1.                        *)
Merging == up.st = "sort" /\ Sorter.sort = "merge" /\ up.todo # <<>>
\* Mutant: the second half starts one element late.
Halves_gap(p, q, r) ==
  <<[op |-> "sort", p |-> p, r |-> q], [op |-> "sort", p |-> q + 2, r |-> r],
    [op |-> "merge", p |-> p, q |-> q, r |-> r]>>
Halves(p, q, r) ==
  <<[op |-> "sort", p |-> p, r |-> q], [op |-> "sort", p |-> q + 1, r |-> r],
    [op |-> "merge", p |-> p, q |-> q, r |-> r]>>
MSort ==
  /\ Merging /\ Call.op = "sort"
  /\ up' = [up EXCEPT !.todo =
       IF Call.p >= Call.r THEN Tail(@)
       ELSE Halves(Call.p, (Call.p + Call.r) \div 2, Call.r) \o Tail(@)]

Copies(left, right, da) ==
  up' = [up EXCEPT !.da = da,
    !.mrg = [k |-> Call.p, li |-> 0, ri |-> 0, left |-> left.va, right |-> right.va,
             Left  |-> [i \in 0 .. Call.q - Call.p |-> up.a[Call.p + i - 1]],
             Right |-> [j \in 0 .. Call.r - Call.q - 1 |-> up.a[Call.q + j]]]]
MergeBegin ==
  /\ Merging /\ Call.op = "merge" /\ up.mrg = NoMerge
  /\ IF Sorter.temps
     THEN \E left \in {malloc(up.da, 4 * (Call.q - Call.p + 1))} :
          \E right \in {malloc(left.da, 4 * (Call.r - Call.q))} : Copies(left, right, right.da)
     ELSE Copies([va |-> NULL], [va |-> NULL], up.da)

MergeStep ==
  /\ Merging /\ Call.op = "merge" /\ up.mrg # NoMerge /\ up.mrg.k <= Call.r
  /\ LET m == up.mrg
         takeLeft == /\ m.li \in DOMAIN m.Left
                     /\ m.ri \in DOMAIN m.Right => m.Left[m.li] < m.Right[m.ri]
     IN  up' = [up EXCEPT
           !.a[m.k - 1] = IF takeLeft THEN m.Left[m.li] ELSE m.Right[m.ri],
           !.mrg.k = @ + 1,
           !.mrg.li = IF takeLeft THEN @ + 1 ELSE @,
           !.mrg.ri = IF takeLeft THEN @ ELSE @ + 1]

\* Mutant: only Left is given back.
FreeTemps_left(da, left, right) == free_block(da, left)
FreeTemps(da, left, right) == free_block(free_block(da, left), right)
MergeEnd ==
  /\ Merging /\ Call.op = "merge" /\ up.mrg # NoMerge /\ up.mrg.k > Call.r
  /\ up' = [up EXCEPT !.mrg = NoMerge, !.todo = Tail(@),
              !.da = IF Sorter.temps /\ Sorter.frees
                     THEN FreeTemps(@, up.mrg.left, up.mrg.right) ELSE @]

-----------------------------------------------------------------------------
CheckSorted(a, n) == \A i \in 0 .. n - 2 : a[i] <= a[i + 1]

(* The check of the result; the program panics when it is not sorted.      *)
CheckArray ==
  /\ up.st = "sort" /\ up.todo = <<>> /\ up.prog \in DOMAIN Sorters
  /\ up' = [up EXCEPT !.st = IF Sorter.sort = "select" \/ CheckSorted(up.a, up.n)
                             THEN "checked" ELSE "killed"]
(* free(): the address must be one of the heap, NULL is a panic.           *)
ReleaseArray ==
  /\ up.st = "checked"
  /\ IF ~(Sorter.own /\ Sorter.frees) THEN up' = [up EXCEPT !.st = "again"]
     ELSE IF up.ptr = NULL THEN up' = [up EXCEPT !.st = "killed"]
     ELSE up' = [up EXCEPT !.st = "again", !.da = free_block(@, up.ptr)]

(* Do you want to repeat?                                                  *)
Repeat ==
  /\ up.st = "again"
  /\ \/ up.prog \in Repeated /\ up.round < MaxRounds
        /\ up' = [up EXCEPT !.st = "ask", !.round = @ + 1, !.a = <<>>, !.first = <<>>, !.ptr = NULL,
                            !.n = 0, !.choice = "", !.kth = 0]
     \/ up' = [up EXCEPT !.st = "done"]

-----------------------------------------------------------------------------
(* The other programs: which blocks they ask for and give back, in order.  *)
(* A number is a size to allocate, [free |-> i] gives back the i-th block. *)
Gives(i) == [free |-> i]
Takes(size) == [take |-> size]
Copy(n, step) == [i \in 1 .. n |-> step]

(* malloc of M1, M2, their rows, Res and its rows; free of the rows of all *)
(* three and then of M1, M2 and Res.  The elements are left out.           *)
MatrixAddition(n) == <<Takes(8 * n)>> \o Copy(n, Takes(8 * n))     \* and the others
matrix_operations(n) ==
  <<Takes(4 * n), Takes(4 * n)>> \o Copy(2 * n, Takes(4 * n)) \o MatrixAddition(n)
  \o [i \in 1 .. 3 * n |-> LET row == (i - 1) \div 3
                           IN  Gives(CASE i % 3 = 1 -> 3 + 2 * row
                                       [] i % 3 = 2 -> 4 + 2 * row
                                       [] OTHER -> 4 + 2 * n + row)]
  \o <<Gives(1), Gives(2), Gives(3 + 2 * n)>>
fib_loop(index) == <<Takes(8 * (index + 1)), Gives(1)>>
fib_memomize(index) == <<Takes(8 * (index + 1)), Gives(1)>>
fos_alloc == <<Takes(100), Gives(1), Takes(100), Gives(2)>>

Script(p, n) == CASE p = "matrix" -> matrix_operations(n)
                  [] p = "fib_loop" -> fib_loop(n)
                  [] p = "fib_memomize" -> fib_memomize(n)
                  [] p = "fos_alloc" -> fos_alloc
Scripted == {"matrix", "fib_loop", "fib_memomize", "fos_alloc"}
Inputs(p) == IF p = "matrix" THEN 0 .. MaxDim ELSE IF p = "fos_alloc" THEN {0} ELSE 0 .. MaxElements

AskNumber == /\ up.st = "ask" /\ up.prog \in Scripted
             /\ \E n \in Inputs(up.prog) :
                  up' = [up EXCEPT !.st = "heap", !.n = n, !.todo = Script(up.prog, n), !.blocks = <<>>]
Take == /\ up.st = "heap" /\ up.todo # <<>> /\ "take" \in DOMAIN Call
        /\ \E r \in {malloc(up.da, Call.take)} :
             up' = [up EXCEPT !.todo = Tail(@), !.da = r.da, !.blocks = Append(@, r.va)]
Give == /\ up.st = "heap" /\ up.todo # <<>> /\ "free" \in DOMAIN Call
        /\ IF up.blocks[Call.free] = NULL THEN up' = [up EXCEPT !.st = "killed"]
           ELSE up' = [up EXCEPT !.todo = Tail(@), !.da = free_block(@, up.blocks[Call.free])]
Finish == /\ up.st = "heap" /\ up.todo = <<>>
          /\ up' = [up EXCEPT !.st = "again", !.blocks = <<>>]

-----------------------------------------------------------------------------
UInit == /\ \E p \in DOMAIN Sorters \union Scripted :
              up = [prog |-> p, st |-> "ask", n |-> 0, choice |-> "", a |-> <<>>, first |-> <<>>,
                    todo |-> <<>>, part |-> NoPart, mrg |-> NoMerge, ptr |-> NULL, blocks |-> <<>>,
                    kth |-> 0, round |-> 1,
                    da |-> [mem |-> <<>>, fbl |-> <<>>, brk |-> 0, up |-> FALSE]]

UNext == \/ AskArray \/ QSort \/ QScan \/ QSplit \/ MSort \/ MergeBegin \/ MergeStep \/ MergeEnd
         \/ CheckArray \/ ReleaseArray \/ Repeat \/ AskNumber \/ Take \/ Give \/ Finish

-----------------------------------------------------------------------------
Occurrences(a, v) == Cardinality({i \in DOMAIN a : a[i] = v})
Permutation(a, b) == DOMAIN a = DOMAIN b /\ \A i \in DOMAIN a : Occurrences(a, a[i]) = Occurrences(b, a[i])
Rank(a, i) == Cardinality({x \in DOMAIN a : a[x] < a[i]}) .. Cardinality({x \in DOMAIN a : a[x] <= a[i]}) - 1

(* A sort leaves an ordered permutation of what it was given, and          *)
(* KthElement() returns the k-th smallest (user/quicksort_*.c,             *)
(* mergesort_*.c, arrayOperations_*.c), whatever pivots are drawn; the     *)
(* latter without repetitions only, since it never looks between j and i,  *)
(* where the elements equal to the pivot are.  No program dies but for two *)
(* inputs the code does not expect: 0 elements, where free(NULL) panics,   *)
(* and 1 or 2 elements "semi random" in a merge sort, a division by zero.  *)
ProgramsRight ==
  /\ up.st = "checked" =>
       /\ Permutation(up.a, up.first)
       /\ IF Sorter.sort = "select" THEN up.n > 1 /\ up.choice # "c" => kIndex \in Rank(up.a, up.kth)
          ELSE CheckSorted(up.a, up.n)
  /\ up.st = "killed" =>
       \/ up.n = 0 /\ up.prog \in {"quick_noleak", "merge_noleak", "matrix"}
       \/ up.prog \in DOMAIN Sorters /\ DividesByZero(up.choice, up.n, Sorter.guard)

Thrifty == up.prog \in Scripted \/ Sorter.frees \/ ~(Sorter.own \/ Sorter.temps)

(* A program that frees what it allocated leaves one free block that spans *)
(* the whole heap, however its blocks were split, padded and merged on the *)
(* way (user/quicksort_noleakage.c, mergesort_noleakage.c,                 *)
(* matrix_operations.c, fib_*.c, fos_alloc.c on lib/dynamic_allocator.c).  *)
HeapGivenBack ==
  up.st \in {"again", "done"} /\ Thrifty /\ up.da.up =>
    up.da.fbl = <<8>> /\ Header(up.da, 8) = up.da.brk - 8
=============================================================================
