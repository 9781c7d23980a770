------------------------------ MODULE UserTests ------------------------------
(***************************************************************************)
(* The test programs of user/ for the page part of the user heap, for      *)
(* shared variables, for invalid pointers and for channels, run against    *)
(* what malloc, free, smalloc, sget, the fault handler and the channel do  *)
(* at the real sizes.  A program is a sequence of steps; the processes of  *)
(* one test (a master and its slaves) interleave step by step.             *)
(*                                                                         *)
(* Sizes and addresses of the programs are in KB from pagealloc_start,     *)
(* pages are numbered from there.  freeFrames is what                      *)
(* sys_calculate_free_frames() returns.  The working sets are as large as  *)
(* the tests ask for, so the pages of the program itself are resident and  *)
(* nothing is replaced; the page file is never written.  Creating a page   *)
(* table takes one frame.  Creating a working set element or a Share may   *)
(* make the kernel's block area grow by a page: grown counts those.        *)
(***************************************************************************)
EXTENDS Integers, Sequences, FiniteSets

CONSTANTS HeapPages,   \* (USER_HEAP_MAX - pagealloc_start) / PAGE_SIZE
          Growth       \* bound: pages the kernel's block area grows in one test

ASSUME UserTestsAssumption == HeapPages \in Nat /\ Growth \in Nat

VARIABLES test,        \* the test that runs
          proc,        \* its processes
          mem,         \* freeFrames (as a difference), grown, shares, cons, bypass
          tst,         \* the counter of rsttst, inctst, gettst
          chan,        \* the processes that sleep on the test channel
          failed       \* history: the checks that did not hold

tvars == <<test, proc, mem, tst, chan, failed>>

None == -1
Mega == 1024
Pages(kb)  == (kb + 3) \div 4
TableOf(p) == (p + 1) \div 1024     \* pagealloc_start is one page into a table
Tables(b, n) == TableOf(b) .. TableOf(b + n - 1)

-----------------------------------------------------------------------------
(* The steps of a program.                                                 *)
Count               == [op |-> "count"]
Malloc(k, kb, at)   == [op |-> "malloc", k |-> k, kb |-> kb, at |-> at]
Smalloc(k, nm, kb, w, at) == [op |-> "smalloc", k |-> k, name |-> nm, kb |-> kb, w |-> w, at |-> at]
Sget(k, nm, at)     == [op |-> "sget", k |-> k, name |-> nm, at |-> at]
Free(k)             == [op |-> "free", k |-> k]
Diff(lo, hi)        == [op |-> "diff", lo |-> lo, hi |-> hi]
Write(k, kb, v)     == [op |-> "write", k |-> k, kb |-> kb, v |-> v]
Read(k, kb, v)      == [op |-> "read", k |-> k, kb |-> kb, v |-> v]
InWS(k, kbs, yes)   == [op |-> "ws", k |-> k, kbs |-> kbs, yes |-> yes]
Poke(pg)            == [op |-> "poke", pg |-> pg]
Create              == [op |-> "create"]
Run(p)              == [op |-> "run", p |-> p]
Await(n)            == [op |-> "await", n |-> n]
AtMost(n)           == [op |-> "atmost", n |-> n]
Inc                 == [op |-> "inc"]
Reset               == [op |-> "reset"]
Lock                == [op |-> "lock"]
Unlock              == [op |-> "unlock"]
Bypass(on)          == [op |-> "bypass", on |-> on]
Sleep               == [op |-> "sleep"]
WakeupOne           == [op |-> "wakeup", all |-> FALSE]
WakeupAll           == [op |-> "wakeup", all |-> TRUE]
AwaitAsleep(n)      == [op |-> "asleep", n |-> n]
AwaitFinished(n)    == [op |-> "finished", n |-> n]

(* An allocation between two readings of the number of free frames, and    *)
(* the same for free().                                                    *)
Took(s, lo, hi) == <<Count, s, Diff(lo, hi)>>
Gave(k, n)      == <<Count, Free(k), Diff(-n, -n)>>
(* Writing the places kbs of allocation k must take n frames (two more for *)
(* the block allocator), and leave the pages in the working set.           *)
TouchUpTo(k, kbs, n, hi) ==
  <<Count>> \o [i \in DOMAIN kbs |-> Write(k, kbs[i], i)]
            \o <<Diff(n, hi), InWS(k, {kbs[i] : i \in DOMAIN kbs}, TRUE)>>
Touch(k, kbs, n) == TouchUpTo(k, kbs, n, n + 2)
Released(k, kbs, n) == Gave(k, n) \o <<InWS(k, kbs, FALSE)>>
Stored(k, kbs) == [i \in DOMAIN kbs |-> Read(k, kbs[i], i)]

-----------------------------------------------------------------------------
(* tst_first_fit_1: holes are reused first fit.                            *)
ff1_allocate ==
  <<Malloc(0, Mega - 1, 0), Malloc(1, Mega - 1, Mega), Malloc(2, Mega - 1, 2 * Mega),
    Malloc(3, Mega - 1, 3 * Mega), Malloc(4, 2 * Mega - 1, 4 * Mega),
    Malloc(5, 2 * Mega - 1, 6 * Mega), Malloc(6, 3 * Mega - 1, 8 * Mega),
    Malloc(7, 3 * Mega - 1, 11 * Mega)>>
ff1_holes == Gave(1, 0) \o Gave(4, 0) \o Gave(6, 0)
ff1_again ==
  <<Malloc(8, 511, Mega), Malloc(9, Mega - 1, 4 * Mega), Malloc(10, 255, Mega + 512),
    Malloc(11, 2 * Mega, 8 * Mega), Malloc(12, 4 * Mega - 1, 14 * Mega)>>
ff1_contiguous == Gave(2, 0) \o Gave(9, 0) \o Gave(3, 0)
ff1_coalesced ==
  <<Malloc(13, 4 * Mega + 255, Mega + 768),
    Malloc(9, 4 * HeapPages - 18 * Mega + 1, None)>>
tst_first_fit_1 == ff1_allocate \o ff1_holes \o ff1_again \o ff1_contiguous \o ff1_coalesced

(* tst_first_fit_3: the same with shared variables in between.  A shared   *)
(* variable takes its pages at once, and a page for framesStorage when     *)
(* that exceeds 2 KB; two frames more are accepted.                        *)
ff3_allocate ==
     Took(Smalloc(0, "x", Mega, TRUE, 0), 256 + 1, 256 + 3)
  \o Took(Malloc(1, Mega - 1, Mega), 0, 0)
  \o Took(Malloc(2, Mega - 1, 2 * Mega), 0, 0)
  \o Took(Malloc(3, Mega - 1, 3 * Mega), 1, 1)
  \o Took(Malloc(4, 2 * Mega - 1, 4 * Mega), 0, 0)
  \o Took(Smalloc(5, "y", 2 * Mega, TRUE, 6 * Mega), 512 + 1, 512 + 3)
  \o Took(Malloc(6, 3 * Mega - 1, 8 * Mega), 0, 0)
  \o Took(Smalloc(7, "z", 3 * Mega, FALSE, 11 * Mega), 768 + 2, 768 + 4)
ff3_holes == Gave(1, 0) \o Gave(4, 0) \o Gave(6, 0)
ff3_again ==
     Took(Malloc(8, 511, Mega), 0, 0)
  \o Took(Malloc(9, Mega - 1, 4 * Mega), 0, 0)
  \o Took(Smalloc(10, "a", 255, FALSE, Mega + 512), 64, 66)
  \o Took(Malloc(11, 2 * Mega, 8 * Mega), 0, 0)
  \o Took(Smalloc(12, "b", 4 * Mega - 1, FALSE, 14 * Mega), 1024 + 2, 1024 + 4)
ff3_contiguous == Gave(2, 0) \o Gave(9, 0) \o Gave(3, 0)
ff3_coalesced ==
     Took(Malloc(13, Mega + 255, Mega + 768), 0, 0)
  \o Took(Smalloc(14, "w", 4 * Mega, FALSE, 18 * Mega), 1024 + 2, 1024 + 4)
  \o Took(Sget(15, "z", 3 * Mega), 0, 0)
  \o Took(Sget(16, "x", 10 * Mega), 0, 0)
tst_first_fit_3 == ff3_allocate \o ff3_holes \o ff3_again \o ff3_contiguous \o ff3_coalesced

(* tst_malloc_1: pages are taken when they are touched.  The first 3 KB    *)
(* are compared with a count read before the two touches of the 2 MB: it   *)
(* fits, since the table they need came with the second 2 MB already.      *)
StaleCount == Diff(1, 3)
malloc_1_shorts ==
     Took(Malloc(0, 2 * Mega - 1, 0), 1, 3) \o Touch(0, <<0, 2 * Mega - 2>>, 2)
  \o Took(Malloc(1, 2 * Mega - 1, 2 * Mega), 0, 2) \o Touch(1, <<0, 2 * Mega - 2>>, 2)
malloc_1_small ==
     <<Malloc(2, 3, 4 * Mega), StaleCount>> \o Touch(2, <<0, 1>>, 1)
  \o <<Malloc(3, 3, 4 * Mega + 4)>>
  \o Took(Malloc(4, 7, 4 * Mega + 8), 0, 2) \o Touch(4, <<0, 6>>, 2)
malloc_1_large ==
     Took(Malloc(5, 3 * Mega - 1, 4 * Mega + 16), 0, 2)
  \o Took(Malloc(6, 6 * Mega - 1, 7 * Mega + 16), 2, 4)
  \o Touch(6, <<0, 3 * Mega - 1, 6 * Mega - 2>>, 3)
  \o Took(Malloc(7, 14, 13 * Mega + 16), 0, 2) \o Touch(7, <<0, 6, 13>>, 3)
malloc_1_stored ==
  Stored(0, <<0, 2 * Mega - 2>>) \o Stored(1, <<0, 2 * Mega - 2>>) \o Stored(2, <<0, 1>>)
  \o Stored(4, <<0, 6>>) \o Stored(6, <<0, 3 * Mega - 1, 6 * Mega - 2>>) \o Stored(7, <<0, 6, 13>>)
tst_malloc_1 == malloc_1_shorts \o malloc_1_small \o malloc_1_large \o malloc_1_stored

(* tst_free_1: the same allocations, then free() gives back exactly the    *)
(* pages that were touched, and a slave that touches freed pages is killed.*)
free_1_allocate == malloc_1_shorts \o malloc_1_small
free_1_allocate_large == malloc_1_large
free_1_free ==
     Released(0, {0, 2 * Mega - 2}, 2) \o Released(1, {0, 2 * Mega - 2}, 2)
  \o Released(6, {0, 3 * Mega - 1, 6 * Mega - 2}, 3) \o Released(4, {0, 6}, 2)
free_1_free_rest == Gave(5, 0) \o Released(2, {0, 1}, 1) \o Gave(3, 0) \o Released(7, {0, 6, 13}, 3)
SecondAwait == [op |-> "await", n |-> 1, second |-> TRUE]
free_1_slaves ==
  <<Reset, Create, Run("s1"), Await(1), Create, Run("s2"), SecondAwait, Inc, AtMost(3)>>
tst_free_1 == free_1_allocate \o free_1_allocate_large \o free_1_free \o free_1_free_rest
              \o free_1_slaves
tst_free_1_slave(kb) ==
  <<Malloc(0, 2 * Mega - 1, 0)>> \o TouchUpTo(0, <<0, 2 * Mega - 2>>, 2, HeapPages)
  \o Released(0, {0, 2 * Mega - 2}, 2) \o <<Inc, Await(3), Write(0, kb, 1), Inc>>
tst_free_1_slave1 == tst_free_1_slave(8)     \* a page that was never touched
tst_free_1_slave2 == tst_free_1_slave(0)

(* tst_sharing_1: creation of shared variables.                            *)
sharing_1_create ==
     Took(Smalloc("x", "x", 4, TRUE, 0), 1 + 1, 4)
  \o Took(Smalloc("z", "z", 5, TRUE, 4), 2, 4)
  \o Took(Smalloc("y", "y", 1, TRUE, 12), 1, 3)
sharing_1_use ==
  <<Write("x", 0, 1), Write("y", 0, 1), Write("x", 3, 2), Write("y", 3, 2),
    Write("z", 0, 1), Write("z", 7, 2)>>
  \o Stored("x", <<0, 3>>) \o Stored("y", <<0, 3>>) \o Stored("z", <<0, 7>>)
tst_sharing_1 == sharing_1_create \o sharing_1_use

(* tst_sharing_2: the slaves get what the master created, in another       *)
(* order; x and y are read-only for them.                                  *)
sharing_2_create ==
     Took(Smalloc("x", "x", 1, FALSE, 0), 1 + 1, 4) \o Took(Smalloc("y", "y", 1, FALSE, 4), 1, 3)
  \o Took(Smalloc("z", "z", 1, TRUE, 8), 1, 3) \o <<Write("x", 0, 10), Write("y", 0, 20)>>
tst_sharing_2master ==
  sharing_2_create
  \o <<Create, Create, Create, Reset, Run("s1"), Run("s2"), Run("s3"), Await(3), Read("z", 0, 30),
       Create, Run("s4"), Await(4), Read("z", 0, 50), Inc, Await(6), Read("x", 0, 10)>>
LockedGet(nm, at, n) == <<Lock>> \o Took(Sget(nm, nm, at), n, n) \o <<Unlock>>
tst_sharing_2slave1 ==
     LockedGet("z", 0, 1) \o LockedGet("y", 4, 0) \o <<Read("y", 0, 20)>>
  \o LockedGet("x", 8, 0) \o <<Read("x", 0, 10), Write("z", 0, 30), Read("z", 0, 30), Inc>>
tst_sharing_2slave2 ==
     LockedGet("z", 0, 1) \o LockedGet("x", 4, 0)
  \o <<Read("x", 0, 10), Write("z", 0, 50), Read("z", 0, 50), Inc, Await(5),
       Bypass(TRUE), Write("x", 0, 100), Bypass(FALSE), Inc, Read("x", 0, 10)>>

(* tst_sharing_3: a name that exists, one that does not, and too much.     *)
tst_sharing_3 ==
  <<Smalloc("x", "x", 4, TRUE, 0)>> \o Took(Smalloc("x", "x", 4, TRUE, None), 0, 0)
  \o <<Sget("x", "xx", None)>> \o <<Count, Diff(0, 0)>>
  \o Took(Smalloc("y", "y", 4 * HeapPages - 4 + 1, TRUE, None), 0, 0)

(* tst_invalid_access: each slave touches a page that is not its own.      *)
(* What the fault handler sees of a page:                                  *)
Page == [kernel |-> FALSE, heap |-> FALSE, marked |-> FALSE, present |-> FALSE,
         writable |-> FALSE, known |-> FALSE]      \* known: in the page file, or stack
tst_invalid_access ==
  <<Reset, Create, Run("s1"), Create, Run("s2"), Create, Run("s3"), AtMost(0),
    Reset, Create, Run("s4"), AtMost(0)>>
tst_invalid_access_slave1 ==
  <<Poke([Page EXCEPT !.kernel = TRUE, !.present = TRUE, !.writable = TRUE]), Inc>>
tst_invalid_access_slave2 == <<Poke([Page EXCEPT !.present = TRUE]), Inc>>
tst_invalid_access_slave3 == <<Poke([Page EXCEPT !.heap = TRUE]), Inc>>
tst_invalid_access_slave4 == <<Poke(Page), Inc>>

(* tst_chan_all and tst_chan_one with three slaves.                        *)
chan_slaves ==
  <<Create, Run("s1"), Create, Run("s2"), Create, Run("s3"), AwaitAsleep(3), Reset>>
tst_chan_all_master == chan_slaves \o <<WakeupAll, AwaitFinished(3)>>
tst_chan_all_slave  == <<Sleep, Inc>>
tst_chan_one_master == chan_slaves \o <<WakeupOne, AwaitFinished(3)>>
tst_chan_one_slave  == <<Sleep, WakeupOne, Inc>>

Scripts ==
  [first_fit_1 |-> [master |-> tst_first_fit_1],
   first_fit_3 |-> [master |-> tst_first_fit_3],
   malloc_1    |-> [master |-> tst_malloc_1],
   free_1      |-> [master |-> tst_free_1, s1 |-> tst_free_1_slave1, s2 |-> tst_free_1_slave2],
   sharing_1   |-> [master |-> tst_sharing_1],
   sharing_2   |-> [master |-> tst_sharing_2master, s1 |-> tst_sharing_2slave1,
                    s2 |-> tst_sharing_2slave1, s3 |-> tst_sharing_2slave1,
                    s4 |-> tst_sharing_2slave2],
   sharing_3   |-> [master |-> tst_sharing_3],
   invalid     |-> [master |-> tst_invalid_access, s1 |-> tst_invalid_access_slave1,
                    s2 |-> tst_invalid_access_slave2, s3 |-> tst_invalid_access_slave3,
                    s4 |-> tst_invalid_access_slave4],
   chan_all    |-> [master |-> tst_chan_all_master, s1 |-> tst_chan_all_slave,
                    s2 |-> tst_chan_all_slave, s3 |-> tst_chan_all_slave],
   chan_one    |-> [master |-> tst_chan_one_master, s1 |-> tst_chan_one_slave,
                    s2 |-> tst_chan_one_slave, s3 |-> tst_chan_one_slave]]

-----------------------------------------------------------------------------
(* A process: st is "new" (not yet run), "run", "asleep", "gone" (returned *)
(* from _main) or "killed"; runs are its allocations; ptr its pointers.    *)
Fresh == [st |-> "new", pc |-> 1, base |-> 0, ptr |-> <<>>, runs |-> {}, tables |-> {},
          resident |-> {}, data |-> <<>>]
NoShares == <<>>

TInit == /\ test \in DOMAIN Scripts
         /\ proc = [p \in DOMAIN Scripts[test] |->
                      [Fresh EXCEPT !.st = IF p = "master" THEN "run" ELSE "new"]]
         /\ mem = [free |-> 0, grown |-> 0, shares |-> NoShares, cons |-> "nobody", bypass |-> FALSE]
         /\ tst = 0 /\ chan = <<>> /\ failed = {}

Set(f, x, v) == [y \in DOMAIN f \union {x} |-> IF y = x THEN v ELSE f[y]]
At(p) == Scripts[test][p][proc[p].pc]
Is(p, op) == /\ proc[p].st = "run" /\ proc[p].pc <= Len(Scripts[test][p])
             /\ At(p).op = op
Advance(x) == [x EXCEPT !.pc = @ + 1]
Kill(x)    == [x EXCEPT !.st = "killed"]

(* A check: the master notes a failure, a slave panics.                    *)
Checked(p, x, ok) == IF ok \/ p = "master" THEN Advance(x) ELSE Kill(x)
Note(p, ok) == IF ok THEN failed ELSE failed \union {<<test, p, proc[p].pc>>}

Run_(r) == r.first .. r.first + r.n - 1
RunsAt(x, page) == {r \in x.runs : page \in Run_(r)}

\* Mutant: the last run that fits.
getConsecutiveFreePages_last(x, n) ==
  LET starts == {b \in {0} \union {r.first + r.n : r \in x.runs} :
                   /\ b + n <= HeapPages
                   /\ \A r \in x.runs : b + n <= r.first \/ r.first + r.n <= b}
  IN  IF starts = {} THEN None ELSE CHOOSE b \in starts : \A c \in starts : b >= c

getConsecutiveFreePages(x, n) ==
  LET starts == {b \in {0} \union {r.first + r.n : r \in x.runs} :
                   /\ b + n <= HeapPages
                   /\ \A r \in x.runs : b + n <= r.first \/ r.first + r.n <= b}
  IN  IF starts = {} THEN None ELSE CHOOSE b \in starts : \A c \in starts : b <= c

NewTables(x, b, n) == Cardinality(Tables(b, n) \ x.tables)
Reserve(x, b, n, share, w) ==
  [x EXCEPT !.runs = @ \union {[first |-> b, n |-> n, share |-> share, w |-> w]},
            !.tables = @ \union Tables(b, n)]
Returned(b) == IF b = None THEN None ELSE 4 * b

(* malloc(): reserves the pages, takes nothing but page tables.  The       *)
(* system call kills the caller when the run reaches the end of the heap.  *)
DoMalloc(p) ==
  /\ Is(p, "malloc")
  /\ \E b \in {getConsecutiveFreePages(proc[p], Pages(At(p).kb))} :
       LET x == proc[p]
           n == Pages(At(p).kb)
           y == [x EXCEPT !.ptr = Set(@, At(p).k, b)]
           ok == Returned(b) = At(p).at
       IN  IF b = None
           THEN /\ proc' = [proc EXCEPT ![p] = Checked(p, y, ok)]
                /\ mem' = mem /\ failed' = Note(p, ok)
           ELSE IF b + n = HeapPages
           THEN proc' = [proc EXCEPT ![p] = Kill(x)] /\ UNCHANGED <<mem, failed>>
           ELSE /\ proc' = [proc EXCEPT ![p] = Checked(p, Reserve(y, b, n, "", TRUE), ok)]
                /\ mem' = [mem EXCEPT !.free = @ - NewTables(x, b, n)]
                /\ failed' = Note(p, ok)
  /\ UNCHANGED <<test, tst, chan>>

(* smalloc(): also takes the frames of all pages, the framesStorage and    *)
(* the Share; the name is refused if the process has it already.           *)
StorageFrames(n) == IF 4 * n > 2048 THEN (4 * n + 4095) \div 4096 ELSE 0
BlocksOf(n)      == IF 4 * n > 2048 THEN 1 ELSE 2
DoSmalloc(p) ==
  /\ Is(p, "smalloc")
  /\ \E b \in {getConsecutiveFreePages(proc[p], Pages(At(p).kb))}, g \in 0 .. Growth - mem.grown :
       LET x == proc[p]
           n == Pages(At(p).kb)
           fails == b = None \/ At(p).name \in DOMAIN mem.shares
           v == IF fails THEN None ELSE b
           y == [x EXCEPT !.ptr = Set(@, At(p).k, v)]
           ok == Returned(v) = At(p).at
       IN  /\ g <= IF fails THEN 0 ELSE BlocksOf(n)
           /\ failed' = Note(p, ok)
           /\ IF fails
              THEN proc' = [proc EXCEPT ![p] = Checked(p, y, ok)] /\ mem' = mem
              ELSE /\ proc' = [proc EXCEPT ![p] = Checked(p, Reserve(y, b, n, At(p).name, TRUE), ok)]
                   /\ mem' = [mem EXCEPT
                        !.free = @ - n - NewTables(x, b, n) - StorageFrames(n) - g,
                        !.grown = @ + g,
                        !.shares = Set(@, At(p).name, [n |-> n, w |-> At(p).w, data |-> <<>>])]
  /\ UNCHANGED <<test, tst, chan>>

(* sget(): maps the frames of the object, with its permissions.            *)
DoSget(p) ==
  /\ Is(p, "sget")
  /\ LET x == proc[p]
         known == At(p).name \in DOMAIN mem.shares
         n == IF known THEN mem.shares[At(p).name].n ELSE 0
         b == IF known THEN getConsecutiveFreePages(x, n) ELSE None
         y == [x EXCEPT !.ptr = Set(@, At(p).k, b)]
         ok == Returned(b) = At(p).at
     IN  /\ proc' = [proc EXCEPT ![p] = Checked(p,
                       IF b = None THEN y
                       ELSE Reserve(y, b, n, At(p).name, mem.shares[At(p).name].w), ok)]
         /\ mem' = IF b = None THEN mem ELSE [mem EXCEPT !.free = @ - NewTables(x, b, n)]
         /\ failed' = Note(p, ok)
  /\ UNCHANGED <<test, tst, chan>>

(* free(): the run that starts at the pointer; its resident pages give     *)
(* their frames back, page tables stay.                                    *)
DoFree(p) ==
  /\ Is(p, "free")
  /\ LET x == proc[p]
         r == CHOOSE s \in x.runs : s.first = x.ptr[At(p).k]
     IN  /\ proc' = [proc EXCEPT ![p] = Advance([x EXCEPT
                       !.runs = @ \ {r}, !.resident = @ \ Run_(r),
                       !.data = [a \in {c \in DOMAIN @ : (c \div 4) \notin Run_(r)} |-> @[a]]])]
         /\ mem' = [mem EXCEPT !.free = @ + Cardinality({q \in x.resident : q \in Run_(r)})]
  /\ UNCHANGED <<test, tst, chan, failed>>

-----------------------------------------------------------------------------
(* Which faults of a user program kill it: a kernel address, a heap page   *)
(* that is not reserved, a page without the right, an unknown page.        *)
Invalid(pg) ==
  \/ pg.kernel
  \/ pg.heap /\ ~pg.marked
  \/ pg.present /\ ~pg.writable
  \/ ~pg.heap /\ ~pg.present /\ ~pg.known

HeapPage(x, page) ==
  [Page EXCEPT !.heap = TRUE, !.marked = RunsAt(x, page) # {},
               !.present = page \in x.resident \/ \E r \in RunsAt(x, page) : r.share # "",
               !.writable = page \in x.resident \/ \E r \in RunsAt(x, page) : r.share # "" /\ r.w]
Faults(pg) == ~pg.present \/ ~pg.writable

Address(x, s)  == 4 * x.ptr[s.k] + s.kb
ShareOf(x, s)  == {r \in RunsAt(x, Address(x, s) \div 4) : r.share # ""}
Store(p, x, s) ==
  LET rs == ShareOf(x, s)
  IN  IF rs = {}
      THEN /\ proc' = [proc EXCEPT ![p] = Advance([x EXCEPT !.data = Set(@, Address(x, s), s.v)])]
           /\ mem' = mem
      ELSE \E r \in rs :
             /\ proc' = [proc EXCEPT ![p] = Advance(x)]
             /\ mem' = [mem EXCEPT !.shares[r.share].data =
                                      Set(@, Address(x, s) - 4 * r.first, s.v)]

(* An instruction that writes.  A fault is skipped while                   *)
(* sys_bypassPageFault() is in force, kills, or takes a frame (the element *)
(* of the working set may take one more).                                  *)
DoWrite(p) ==
  /\ Is(p, "write")
  /\ LET x == proc[p]
         s == At(p)
         q == Address(x, s) \div 4
         pg == HeapPage(x, q)
     IN  IF ~Faults(pg) THEN Store(p, x, s)
         ELSE IF mem.bypass THEN proc' = [proc EXCEPT ![p] = Advance(x)] /\ mem' = mem
         ELSE IF Invalid(pg) THEN proc' = [proc EXCEPT ![p] = Kill(x)] /\ mem' = mem
         ELSE \E g \in 0 .. 1 :
                /\ mem.grown + g <= Growth
                /\ proc' = [proc EXCEPT ![p] = Advance([x EXCEPT !.resident = @ \union {q},
                                                 !.data = Set(@, Address(x, s), s.v)])]
                /\ mem' = [mem EXCEPT !.free = @ - 1 - g, !.grown = @ + g]
  /\ UNCHANGED <<test, tst, chan, failed>>

DoPoke(p) ==
  /\ Is(p, "poke")
  /\ proc' = [proc EXCEPT ![p] = IF Invalid(At(p).pg) THEN Kill(@) ELSE Advance(@)]
  /\ UNCHANGED <<test, mem, tst, chan, failed>>

Value(x, s) ==
  LET rs == ShareOf(x, s)
      f  == IF rs = {} THEN x.data ELSE mem.shares[(CHOOSE r \in rs : TRUE).share].data
      a  == IF rs = {} THEN Address(x, s)
            ELSE Address(x, s) - 4 * (CHOOSE r \in rs : TRUE).first
  IN  IF a \in DOMAIN f THEN f[a] ELSE None

-----------------------------------------------------------------------------
Check(p, op, ok) == /\ Is(p, op)
                    /\ proc' = [proc EXCEPT ![p] = Checked(p, @, ok)]
                    /\ failed' = Note(p, ok)
                    /\ UNCHANGED <<test, mem, tst, chan>>
Taken(p) == proc[p].base - mem.free
DoDiff(p)   == Is(p, "diff")   /\ Check(p, "diff", At(p).lo <= Taken(p) /\ Taken(p) <= At(p).hi)
DoRead(p)   == Is(p, "read")   /\ Check(p, "read", Value(proc[p], At(p)) = At(p).v)
DoWS(p)     == /\ Is(p, "ws")
               /\ Check(p, "ws", \A kb \in At(p).kbs :
                    (proc[p].ptr[At(p).k] + kb \div 4 \in proc[p].resident) <=> At(p).yes)
DoAtMost(p) == Is(p, "atmost") /\ Check(p, "atmost", tst <= At(p).n)

DoCount(p) == /\ Is(p, "count")
              /\ proc' = [proc EXCEPT ![p] = Advance([@ EXCEPT !.base = mem.free])]
              /\ UNCHANGED <<test, mem, tst, chan, failed>>

(* sys_create_env() takes frames, one here for all of them, and makes an   *)
(* environment that sys_run_env() lets run.                                *)
DoCreate(p) == /\ Is(p, "create")
               /\ proc' = [proc EXCEPT ![p] = Advance(@)]
               /\ mem' = [mem EXCEPT !.free = @ - 1]
               /\ UNCHANGED <<test, tst, chan, failed>>
DoRun(p) == /\ Is(p, "run")
            /\ proc' = [proc EXCEPT ![p] = Advance(@), ![At(p).p].st = "run"]
            /\ UNCHANGED <<test, mem, tst, chan, failed>>

DoInc(p)   == /\ Is(p, "inc") /\ tst' = tst + 1
              /\ proc' = [proc EXCEPT ![p] = Advance(@)] /\ UNCHANGED <<test, mem, chan, failed>>
DoReset(p) == /\ Is(p, "reset") /\ tst' = 0
              /\ proc' = [proc EXCEPT ![p] = Advance(@)] /\ UNCHANGED <<test, mem, chan, failed>>
(* while (gettst() != n) ;                                                 *)
DoAwait(p) == /\ Is(p, "await") /\ tst = At(p).n
              /\ proc' = [proc EXCEPT ![p] = Advance(@)] /\ UNCHANGED <<test, mem, tst, chan, failed>>

DoLock(p)   == /\ Is(p, "lock") /\ mem.cons = "nobody"
               /\ mem' = [mem EXCEPT !.cons = p]
               /\ proc' = [proc EXCEPT ![p] = Advance(@)] /\ UNCHANGED <<test, tst, chan, failed>>
DoUnlock(p) == /\ Is(p, "unlock")
               /\ mem' = [mem EXCEPT !.cons = "nobody"]
               /\ proc' = [proc EXCEPT ![p] = Advance(@)] /\ UNCHANGED <<test, tst, chan, failed>>
DoBypass(p) == /\ Is(p, "bypass")
               /\ mem' = [mem EXCEPT !.bypass = At(p).on]
               /\ proc' = [proc EXCEPT ![p] = Advance(@)] /\ UNCHANGED <<test, tst, chan, failed>>

(* __Sleep__, __WakeupOne__, __WakeupAll__, __GetChanQueueSize__.          *)
DoSleep(p) == /\ Is(p, "sleep") /\ chan' = Append(chan, p)
              /\ proc' = [proc EXCEPT ![p] = [Advance(@) EXCEPT !.st = "asleep"]]
              /\ UNCHANGED <<test, mem, tst, failed>>
\* Mutant: the sleeper is taken off the queue and stays blocked.
Woken_lost(all) == {}
Woken(all) == IF all THEN {chan[i] : i \in DOMAIN chan}
              ELSE IF chan = <<>> THEN {} ELSE {Head(chan)}
DoWakeup(p) == /\ Is(p, "wakeup")
               /\ chan' = IF At(p).all \/ chan = <<>> THEN <<>> ELSE Tail(chan)
               /\ proc' = [q \in DOMAIN proc |->
                             IF q = p THEN Advance(proc[q])
                             ELSE IF q \in Woken(At(p).all) THEN [proc[q] EXCEPT !.st = "run"]
                             ELSE proc[q]]
               /\ UNCHANGED <<test, mem, tst, failed>>
(* The master looks, sleeps and looks again, and panics after a few        *)
(* rounds: how far the slaves are by then is up to the scheduler.          *)
Polls(p, op, count) ==
  /\ Is(p, op)
  /\ \/ count = At(p).n /\ proc' = [proc EXCEPT ![p] = Advance(@)]
     \/ count # At(p).n /\ proc' = [proc EXCEPT ![p] = Kill(@)]
  /\ UNCHANGED <<test, mem, tst, chan, failed>>
DoAsleep(p)   == Polls(p, "asleep", Len(chan))
DoFinished(p) == Polls(p, "finished", tst)

DoReturn(p) == /\ proc[p].st = "run" /\ proc[p].pc > Len(Scripts[test][p])
               /\ proc' = [proc EXCEPT ![p].st = "gone"]
               /\ UNCHANGED <<test, mem, tst, chan, failed>>

TStep(p) ==
  \/ DoCount(p) \/ DoMalloc(p) \/ DoSmalloc(p) \/ DoSget(p) \/ DoFree(p) \/ DoDiff(p)
  \/ DoWrite(p) \/ DoRead(p) \/ DoWS(p) \/ DoPoke(p) \/ DoCreate(p) \/ DoRun(p) \/ DoAwait(p) \/ DoAtMost(p)
  \/ DoInc(p) \/ DoReset(p) \/ DoLock(p) \/ DoUnlock(p) \/ DoBypass(p)
  \/ DoSleep(p) \/ DoWakeup(p) \/ DoAsleep(p) \/ DoFinished(p) \/ DoReturn(p)
TNext == \E p \in DOMAIN proc : TStep(p)

-----------------------------------------------------------------------------
(* Every check of every test holds (user/tst_*.c against lib/uheap.c,      *)
(* kern/mem/chunk_operations.c, shared_memory_manager.c and                *)
(* fault_handler.c): first fit, page tables and frames counted exactly,    *)
(* whatever the interleaving and wherever the kernel's block area grows.   *)
UserTestsMet == failed = {}

Moves(p) ==
  /\ proc[p].st = "run"
  /\ proc[p].pc <= Len(Scripts[test][p]) =>
       /\ At(p).op = "await" => tst = At(p).n
       /\ At(p).op = "lock" => mem.cons = "nobody"
SecondSlaveFirst == test = "free_1" /\ tst = 2 /\ proc["master"].pc <= Len(tst_free_1)
                    /\ At("master") = SecondAwait
GaveUp == /\ test \in {"chan_all", "chan_one"} /\ proc["master"].st = "killed"
          /\ At("master").op = "asleep"

(* The processes of a test never wait for each other for ever: when none   *)
(* can go on, all have returned or were killed.  Two exceptions are real:  *)
(* the master of tst_free_1 looks for 1 again after it started the second  *)
(* slave and hangs when that one was faster; the master of a channel test  *)
(* may give up before its slaves sleep, and then nobody wakes them.        *)
NobodyStuck ==
  (\A p \in DOMAIN proc : ~Moves(p)) =>
     \/ \A p \in DOMAIN proc : proc[p].st \in {"gone", "killed"}
     \/ SecondSlaveFirst
     \/ GaveUp
=============================================================================
