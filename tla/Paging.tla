------------------------------- MODULE Paging -------------------------------
(***************************************************************************)
(* Demand paging: the fault handler (kern/trap/fault_handler.c), working   *)
(* sets, the page file (kern/disk/pagefile_manager.c), the loading of      *)
(* programs (env_create) and the page side of the user heap (lib/uheap.c,  *)
(* kern/mem/chunk_operations.c).                                           *)
(*                                                                         *)
(* w is the memory of the machine:                                         *)
(*   w.mm   : frames and page tables, see MemoryManager                    *)
(*   w.data : what each frame holds; the old bytes of a frame that was     *)
(*            given back, which nobody clears, count as Unknown            *)
(*   w.disk : the page file, [free, data]                                  *)
(*   w.env  : per environment its status, page_WS_list ws of [va, cnt],    *)
(*            page_last_WS_element as the index hand (0: NULL), the disk   *)
(*            frame of each page, its page tables, USERH_BRK and           *)
(*            marked_page_size                                             *)
(* A page is a number.  From below: text (the program's segments), a hole  *)
(* that belongs to nothing, the block area and the page area of the user   *)
(* heap, the stack.  The bits of an entry are those of MemoryManager; b10  *)
(* (1024) marks a reserved heap page, b11 (2048) one that was faulted in.  *)
(*                                                                         *)
(* An instruction that touches a page is tried again until it finds the    *)
(* page present; each fault is one step.  The model ends where the kernel  *)
(* panics (see Sched, Panic).                                              *)
(***************************************************************************)
EXTENDS MemoryManager

CONSTANTS Envs,            \* environments, numbers from 1
          NText, NBlock, NPage, NStack,   \* pages of each part
          page_WS_max_size,
          FrameCount, DiskFrames,
          Touches,         \* the pages that the program of each environment touches
          Values,          \* what a program writes, numbers from 1
          Sweeps           \* values of page_WS_max_sweeps the command may set

ASSUME PagingAssumption ==
  /\ \A n \in {NText, NPage, NStack, page_WS_max_size} : n \in Nat \ {0}
  /\ NBlock \in Nat
  /\ FrameCount \in Nat \ {0} /\ DiskFrames \in Nat \ {0}
  /\ Envs \subseteq Nat \ {0} /\ Values \subseteq Nat \ {0} /\ Sweeps \subseteq Int

VARIABLES w,
          sweeps,     \* page_WS_max_sweeps
          fault,      \* last_fault_va, last_faulted_env, num_repeated_fault
          pending,    \* the access each environment is executing, or NoOp
          expect,     \* history: the value a page must show, or Unknown
          panic       \* why the kernel stopped, "no" while it runs

vars == <<w, sweeps, fault, pending, expect, panic>>

Text   == 1 .. NText
Hole   == NText + 1
Block  == Hole + 1 .. Hole + NBlock
Area   == Hole + NBlock + 1 .. Hole + NBlock + NPage
UHeap  == Block \union Area
Top    == Hole + NBlock + NPage + NStack
Stack  == Hole + NBlock + NPage + 1 .. Top
Pages  == 1 .. Top

ASSUME TouchesAssumption == Touches \in [Envs -> SUBSET Pages]

(* The page tables of an environment, and the kernel page of each.         *)
Tables == {1, 2, 3, 4}             \* text, heap, stack, PGFLTEMP
TableOf(va) == IF va \in UHeap THEN 2 ELSE IF va \in Stack THEN 3 ELSE 1
KTable(e, t) == <<0, 10 * e + t>>

Zero    == 0
Unknown == -1
NoOp    == [va |-> 0, v |-> 0, faults |-> 0]

(* The outcome of kernel code: the memory and how it ended.                *)
Done(x)      == [w |-> x, end |-> "ok"]
Ends(x, how) == [w |-> x, end |-> how]

-----------------------------------------------------------------------------
(* create_page_table(): a page of the kernel heap; it panics without one.  *)
NeedsTable(x, e, t) == t \notin x.env[e].tables
\* Mutant: the directory entry is not written.
create_page_table_lost(x, e, t) ==
  IF Len(x.mm.free) = 0 THEN Ends(x, "no memory")
  ELSE Done([x EXCEPT !.mm = allocate_and_map(@, KTable(e, t), {"P", "W"})])

create_page_table(x, e, t) ==
  IF Len(x.mm.free) = 0 THEN Ends(x, "no memory")
  ELSE Done([x EXCEPT !.mm = allocate_and_map(@, KTable(e, t), {"P", "W"}),
                      !.env[e].tables = @ \union {t}])
with_table(x, e, t) == IF NeedsTable(x, e, t) THEN create_page_table(x, e, t) ELSE Done(x)

perms(x, e, va) == pt_get_page_permissions(x.mm, <<e, va>>)
set_perms(x, e, va, set, clear) ==
  [x EXCEPT !.mm = pt_set_page_permissions(@, <<e, va>>, set, clear)]
FrameOf(x, e, va) == get_frame_info(x.mm, <<e, va>>)

-----------------------------------------------------------------------------
\* Mutant: the frame stays on the free list.
allocate_disk_frame_kept(x, e, va) == [x EXCEPT !.env[e].disk[va] = Head(x.disk.free)]

(* The page file.  allocate_disk_frame() and free_disk_frame() use the     *)
(* free list as a stack.                                                   *)
allocate_disk_frame(x, e, va) ==
  [x EXCEPT !.disk.free = Tail(@), !.env[e].disk[va] = Head(x.disk.free)]
DiskFull(x, e, va) == x.env[e].disk[va] = 0 /\ x.disk.free = <<>>
with_disk_frame(x, e, va) ==
  IF x.env[e].disk[va] = 0 THEN allocate_disk_frame(x, e, va) ELSE x

write_disk_page(x, dfn, v) == [x EXCEPT !.disk.data[dfn] = v]

pf_add_env_page(x, e, va, v) ==
  LET y == with_disk_frame(x, e, va)
  IN  IF DiskFull(x, e, va) THEN Ends(x, "page file full")
      ELSE Done(write_disk_page(y, y.env[e].disk[va], v))

(* pf_update_env_page(): the frame is mapped at PGFLTEMP for the copy,     *)
(* which leaves the number of references and loses base_va_page.           *)
copy_out(r, e, va) ==
  IF r.end # "ok" THEN r
  ELSE Done([write_disk_page(r.w, r.w.env[e].disk[va], r.w.data[FrameOf(r.w, e, va)])
               EXCEPT !.mm.base[FrameOf(r.w, e, va)] = NoPage])

pf_update_env_page(x, e, va) ==
  IF x.env[e].disk[va] = 0 /\ va \notin UHeap \union Stack THEN Ends(x, "invalid update")
  ELSE IF DiskFull(x, e, va) THEN Ends(x, "page file full")
  ELSE copy_out(with_table(with_disk_frame(x, e, va), e, 4), e, va)

(* pf_read_env_page() into the frame just mapped: the copy sets the used   *)
(* bit, the modified bit is cleared.                                       *)
InPageFile(x, e, va) == x.env[e].disk[va] # 0
pf_read_env_page(x, e, va) ==
  LET y == set_perms(x, e, va, {"A"}, {"D"})
  IN  [y EXCEPT !.data[FrameOf(x, e, va)] = x.disk.data[x.env[e].disk[va]]]

pf_remove_env_page(x, e, va) ==
  IF ~InPageFile(x, e, va) THEN x
  ELSE [x EXCEPT !.disk.free = <<x.env[e].disk[va]>> \o @, !.env[e].disk[va] = 0]

-----------------------------------------------------------------------------
(* Working sets.                                                           *)
env_page_ws_list_create_element(va) == [va |-> va, cnt |-> 0]
Full(x, e) == Len(x.env[e].ws) = page_WS_max_size
Next1(x, e, i) == IF i = Len(x.env[e].ws) THEN 1 ELSE i + 1

\* Mutant: the clock of a full list has no hand.
insert_tail_handless(x, e, va) ==
  [x EXCEPT !.env[e].ws = Append(@, env_page_ws_list_create_element(va))]

insert_tail(x, e, va) ==
  LET y == [x EXCEPT !.env[e].ws = Append(@, env_page_ws_list_create_element(va))]
  IN  IF Full(y, e) THEN [y EXCEPT !.env[e].hand = 1] ELSE y

(* The element i is unlinked; the hand moves on if it was there.  (Of the  *)
(* only element the code keeps the address; a list that is not full does   *)
(* not use its hand, and gets a new one when it fills.)                    *)
ws_remove(x, e, i) ==
  LET n == Len(x.env[e].ws)
      h == x.env[e].hand
  IN  [x EXCEPT !.env[e].ws = RemoveAt(@, i),
                !.env[e].hand = IF h = i THEN IF i < n THEN i ELSE IF n = 1 THEN 0 ELSE 1
                                ELSE IF h > i THEN h - 1 ELSE h]

-----------------------------------------------------------------------------
(* page_fault_handler().  A page gets a frame and, if the page file has    *)
(* it, its contents; one that is in neither the page file, the heap nor    *)
(* the stack ends the environment, with the frame already given back and   *)
(* still mapped.                                                           *)
bring_in(x, e, va) ==
  LET y == [x EXCEPT !.mm = allocate_and_map(@, <<e, va>>, {"P", "W", "U"})]
  IN  IF InPageFile(x, e, va) THEN Done(pf_read_env_page(y, e, va))
      ELSE IF va \in UHeap \union Stack THEN Done([y EXCEPT !.data[FreeFrame(x.mm)] = Unknown])
      ELSE Ends([y EXCEPT !.mm = free_frame(@, FreeFrame(x.mm))], "env_exit")

placed(r, e, va) ==
  IF r.end # "ok" THEN r
  ELSE Done(set_perms(insert_tail(r.w, e, va), e, va, {"b11"}, {}))

placement(x, e, va) ==
  IF Len(x.mm.free) = 0 THEN Ends(x, "no memory") ELSE placed(bring_in(x, e, va), e, va)

(* The N-chance clock.  One look at the element under the hand: a used     *)
(* page gets another round, an unused one is a victim after |N| rounds, or *)
(* one more if N < 0 and it was modified.                                  *)
IsVictim(x, e, n) ==
  LET el == x.env[e].ws[x.env[e].hand]
      p  == perms(x, e, el.va)
  IN  /\ "A" \notin p
      /\ IF n >= 0 THEN el.cnt + 1 >= n
         ELSE el.cnt + 1 = IF "D" \in p THEN 1 - n ELSE - n

look(x, e) ==
  LET h  == x.env[e].hand
      va == x.env[e].ws[h].va
  IN  IF "A" \in perms(x, e, va)
      THEN set_perms([x EXCEPT !.env[e].ws[h].cnt = 0, !.env[e].hand = Next1(x, e, h)],
                     e, va, {}, {"A"})
      ELSE [x EXCEPT !.env[e].ws[h].cnt = @ + 1, !.env[e].hand = Next1(x, e, h)]

(* Enough looks for every page to lose its used bit and its chances.       *)
Fuel(n) == page_WS_max_size * ((IF n < 0 THEN - n ELSE n) + 3)
turn(x, e, n) == IF IsVictim(x, e, n) THEN x ELSE look(x, e)
clock(x, e, n) ==
  LET hand[i \in 0 .. Fuel(n)] ==
        IF i = 0 THEN x ELSE turn(hand[i - 1], e, n)
  IN  hand[Fuel(n)]

\* Mutant: a modified page that the page file already has is not written.
save_victim_once(x, e, va) ==
  IF "D" \in perms(x, e, va) /\ ~InPageFile(x, e, va) THEN pf_update_env_page(x, e, va)
  ELSE Done(x)

\* Mutant: the entry is cleared but the frame is not given up.
drop_victim_leak(x, e, va) ==
  [x EXCEPT !.mm.pt[<<e, va>>] = [frame |-> NoFrame, perm |-> @.perm \intersect {"b10"}]]

(* The victim goes: written out if modified, then unmapped.                *)
save_victim(x, e, va) ==
  IF "D" \in perms(x, e, va) THEN pf_update_env_page(x, e, va) ELSE Done(x)
drop_victim(x, e, va) ==
  [x EXCEPT !.mm = unmap_frame(pt_set_page_permissions(@, <<e, va>>, {}, {"b11"}), <<e, va>>),
            !.data[FrameOf(x, e, va)] = Unknown]

(* The new page takes over its element, and the hand moves past it.        *)
replaced(r, e, va) ==
  IF r.end # "ok" THEN r
  ELSE LET h == r.w.env[e].hand
       IN  Done(set_perms([r.w EXCEPT !.env[e].ws[h] = env_page_ws_list_create_element(va),
                                      !.env[e].hand = Next1(r.w, e, h)],
                          e, va, {"b11"}, {}))

exchange(r, e, old, va) ==
  IF r.end # "ok" THEN r
  ELSE replaced(bring_in(drop_victim(r.w, e, old), e, va), e, va)

evict(x, e, va, n) ==
  IF ~IsVictim(x, e, n) THEN Ends(x, "clock runs for ever")
  ELSE LET old == x.env[e].ws[x.env[e].hand].va
       IN  exchange(save_victim(x, e, old), e, old, va)

replacement(x, e, va, n) == evict(clock(x, e, n), e, va, n)

page_fault_handler(x, e, va, n) ==
  IF Full(x, e) THEN replacement(x, e, va, n) ELSE placement(x, e, va)

(* The checks of fault_handler() on a user's access to a page whose table  *)
(* exists.                                                                 *)
InvalidPointer(x, e, va) ==
  \/ va \in UHeap /\ perms(x, e, va) \intersect {"b10", "b11"} = {}
  \/ "P" \in perms(x, e, va) /\ "W" \notin perms(x, e, va)

Repeated(e, va) == fault.va = va /\ fault.env = e

\* Mutant: a table fault is neither counted nor served.
fault_handler_tableless(e, va) ==
  IF NeedsTable(w, e, TableOf(va)) THEN Done(w)
  ELSE IF InvalidPointer(w, e, va) THEN Ends(w, "env_exit")
  ELSE page_fault_handler(w, e, va, sweeps)

fault_handler(e, va) ==
  IF Repeated(e, va) /\ fault.n = 2 THEN Ends(w, "fault repeated")
  ELSE IF NeedsTable(w, e, TableOf(va)) THEN create_page_table(w, e, TableOf(va))
  ELSE IF InvalidPointer(w, e, va) THEN Ends(w, "env_exit")
  ELSE IF "P" \in perms(w, e, va) THEN Ends(w, "access rights")
  ELSE page_fault_handler(w, e, va, sweeps)

-----------------------------------------------------------------------------
(* env_create(): the first pages of the program are loaded, one place of   *)
(* the working set is kept for the stack, and all of them are written to   *)
(* the page file.  The copying sets the used and the modified bit of a     *)
(* page; the latter is cleared at the end for the program, not for the     *)
(* stack.                                                                  *)
Image(va) == 10 + va
load_page(r, e, va, v, bits) ==
  IF r.end # "ok" THEN r
  ELSE IF Len(r.w.mm.free) = 0 THEN Ends(r.w, "no memory")
  ELSE Done([insert_tail(r.w, e, va) EXCEPT
               !.mm = allocate_and_map(@, <<e, va>>, {"P", "W", "U"} \union bits),
               !.data[FreeFrame(r.w.mm)] = v])

file_page(r, e, va) == IF r.end # "ok" THEN r ELSE pf_add_env_page(r.w, e, va, Image(va))

program_segment_alloc_map_copy_workingset(x, e) ==
  LET resident == IF NText < page_WS_max_size THEN NText ELSE page_WS_max_size - 1
      load[i \in 0 .. resident] ==
        IF i = 0 THEN with_table(x, e, 1) ELSE load_page(load[i - 1], e, i, Image(i), {"A"})
  IN  load[resident]

write_segment(r, e) ==
  LET file[i \in 0 .. NText] == IF i = 0 THEN r ELSE file_page(file[i - 1], e, i)
  IN  file[NText]

(* The stack page; that the page file has no room for it goes unnoticed.   *)
pf_add_empty_env_page(r, e, va) ==
  IF r.end # "ok" \/ DiskFull(r.w, e, va) THEN r ELSE pf_add_env_page(r.w, e, va, Zero)
load_stack(r, e) ==
  IF r.end # "ok" THEN r
  ELSE pf_add_empty_env_page(load_page(with_table(r.w, e, 3), e, Top, Zero, {"A", "D"}), e, Top)

(* initialize_environment() and initialize_uheap_dynamic_allocator(): the  *)
(* user heap is empty.                                                     *)
initialize_environment == [status |-> "none", ws |-> <<>>, hand |-> 0,
                           disk |-> [va \in Pages |-> 0], tables |-> {},
                           brk |-> Hole + 1, marked |-> [va \in Area |-> 0]]

env_create(x, e) ==
  load_stack(write_segment(program_segment_alloc_map_copy_workingset(
               [x EXCEPT !.env[e].status = "live"], e), e), e)

-----------------------------------------------------------------------------
(* malloc() of n pages: the first run of unmarked pages, which is then     *)
(* marked; nothing is allocated before it is touched.                      *)
Unmarked(x, e, va) == perms(x, e, va) \intersect {"b10", "b11"} = {}
Runs(x, e, n) == {va \in Area : \A i \in 0 .. n - 1 : va + i \in Area /\ Unmarked(x, e, va + i)}
getConsecutiveFreePages(x, e, n) ==
  CHOOSE va \in Runs(x, e, n) : \A u \in Runs(x, e, n) : va <= u

mark(x, e, from, n) ==
  LET run[i \in 0 .. n] ==
        IF i = 0 THEN x ELSE set_perms(run[i - 1], e, from + i - 1, {"b10", "U"}, {})
  IN  run[n]

allocate_user_mem(r, e, va, n) ==
  IF r.end # "ok" THEN r ELSE Done([mark(r.w, e, va, n) EXCEPT !.env[e].marked[va] = n])

(* The test of sys_allocate_user_mem(): a run that ends where the heap     *)
(* ends is refused too, and the caller is ended for it.                    *)
Refused(va, n) == va + n >= Hole + NBlock + NPage + 1

sys_allocate_user_mem(x, e, va, n) ==
  IF Refused(va, n) THEN Done([x EXCEPT !.env[e].status = "dead"])
  ELSE allocate_user_mem(with_table(x, e, 2), e, va, n)

(* sys_sbrk() of one page of the block area.                               *)
sys_sbrk(r, e) ==
  IF r.end # "ok" THEN r
  ELSE Done([mark(r.w, e, r.w.env[e].brk, 1) EXCEPT !.env[e].brk = @ + 1])

(* free_user_mem() of one page, then of the run that begins at va.  A page *)
(* that was replaced has lost bit 11, so what the page file holds of it    *)
(* stays there.                                                            *)
WsIndex(x, e, va) == CHOOSE i \in DOMAIN x.env[e].ws : x.env[e].ws[i].va = va
free_resident(x, e, va) ==
  ws_remove([x EXCEPT !.mm = unmap_frame(@, <<e, va>>), !.data[FrameOf(x, e, va)] = Unknown],
            e, WsIndex(x, e, va))
free_page(x, e, va) ==
  IF "b11" \notin perms(x, e, va) THEN set_perms(x, e, va, {}, {"b10"})
  ELSE IF "P" \in perms(x, e, va)
       THEN set_perms(free_resident(x, e, va), e, va, {}, {"b10", "b11"})
  ELSE set_perms(pf_remove_env_page(x, e, va), e, va, {}, {"b10", "b11"})

free_user_mem(x, e, va, n) ==
  LET run[i \in 0 .. n] == IF i = 0 THEN x ELSE free_page(run[i - 1], e, va + i - 1)
  IN  [run[n] EXCEPT !.env[e].marked[va] = 0]

-----------------------------------------------------------------------------
Init ==
  /\ w = [mm   |-> initialize_paging(FrameCount,
                     (Envs \X Pages) \union {KTable(e, t) : e \in Envs, t \in Tables}),
          data |-> [f \in 1 .. FrameCount |-> Unknown],
          disk |-> [free |-> [i \in 1 .. DiskFrames |-> i], data |-> [d \in 1 .. DiskFrames |-> Zero]],
          env  |-> [e \in Envs |-> initialize_environment]]
  /\ sweeps \in Sweeps
  /\ fault = [va |-> 0, env |-> 0, n |-> 0]
  /\ pending = [e \in Envs |-> NoOp]
  /\ expect = [e \in Envs |-> [va \in Pages |-> Unknown]]
  /\ panic = "no"

Ready(e) == panic = "no" /\ w.env[e].status = "live" /\ pending[e] = NoOp

(* How kernel code that can stop leaves the machine.                       *)
Outcome(r) == w' = r.w /\ panic' = IF r.end = "ok" THEN "no" ELSE r.end

Create(e) ==
  /\ panic = "no" /\ w.env[e].status = "none"
  /\ \E r \in {env_create(w, e)} : Outcome(r)
  /\ expect' = [expect EXCEPT ![e] = [va \in Pages |-> IF va \in Text THEN Image(va)
                                                       ELSE IF va = Top THEN Zero ELSE Unknown]]
  /\ UNCHANGED <<sweeps, fault, pending>>

(* An instruction that reads page va, or writes v to it, is executed for   *)
(* the first time or, after a fault, again.                                *)
Executes(e, va, v) ==
  panic = "no" /\ (Ready(e) \/ (pending[e].va = va /\ pending[e].v = v))
Accessible(e, va) == {"P", "U", "W"} \subseteq perms(w, e, va)

(* The processor finds the page and sets its used and modified bits.       *)
Access(e, va, v) ==
  /\ Executes(e, va, v)
  /\ Accessible(e, va)
  /\ w' = IF v = Zero THEN set_perms(w, e, va, {"A"}, {})
          ELSE [set_perms(w, e, va, {"A", "D"}, {}) EXCEPT !.data[FrameOf(w, e, va)] = v]
  /\ expect' = IF v = Zero THEN expect ELSE [expect EXCEPT ![e][va] = v]
  /\ pending' = [pending EXCEPT ![e] = NoOp]
  /\ UNCHANGED <<sweeps, fault, panic>>

(* Bound of the two counters of faults: nothing tells more of them apart.  *)
UpTo3(n) == IF n > 3 THEN 3 ELSE n

(* It does not find it: fault_handler(), after which the instruction is    *)
(* executed again unless the environment was ended.                        *)
Fault(e, va, v) ==
  /\ Executes(e, va, v)
  /\ ~Accessible(e, va)
  /\ fault' = [va |-> va, env |-> e, n |-> IF Repeated(e, va) THEN UpTo3(fault.n + 1) ELSE 0]
  /\ \E r \in {fault_handler(e, va)} :
       IF r.end = "env_exit"
       THEN /\ w' = [r.w EXCEPT !.env[e].status = "dead"]
            /\ panic' = panic
            /\ pending' = [pending EXCEPT ![e] = NoOp]
       ELSE /\ Outcome(r)
            /\ pending' = [pending EXCEPT ![e] = [va |-> va, v |-> v, faults |-> UpTo3(@.faults + 1)]]
  /\ UNCHANGED <<sweeps, expect>>

Retry(e) == \E va \in Touches[e], v \in Values \union {Zero} :
              pending[e] # NoOp /\ (Access(e, va, v) \/ Fault(e, va, v))

Malloc(e, n) ==
  /\ Ready(e)
  /\ Runs(w, e, n) # {}
  /\ \E r \in {sys_allocate_user_mem(w, e, getConsecutiveFreePages(w, e, n), n)} : Outcome(r)
  /\ UNCHANGED <<sweeps, fault, pending, expect>>

Free(e, va) ==
  /\ Ready(e)
  /\ w' = free_user_mem(w, e, va, w.env[e].marked[va])
  /\ expect' = [expect EXCEPT ![e] =
       [u \in Pages |-> IF u >= va /\ u < va + w.env[e].marked[va] THEN Unknown ELSE @[u]]]
  /\ UNCHANGED <<sweeps, fault, pending, panic>>

Sbrk(e) ==
  /\ Ready(e)
  /\ w.env[e].brk \in Block
  /\ \E r \in {sys_sbrk(with_table(w, e, 2), e)} : Outcome(r)
  /\ UNCHANGED <<sweeps, fault, pending, expect>>

(* env_exit(): env_free() returns at once, so nothing is given back.       *)
Exit(e) ==
  /\ Ready(e)
  /\ w' = [w EXCEPT !.env[e].status = "dead"]
  /\ UNCHANGED <<sweeps, fault, pending, expect, panic>>

(* The command nclock, given at the prompt: no environment can run then    *)
(* (Lifecycle, PromptMeansIdle).                                           *)
SetSweeps(n) ==
  /\ panic = "no" /\ \A e \in Envs : w.env[e].status # "live"
  /\ sweeps' = n
  /\ UNCHANGED <<w, fault, pending, expect, panic>>

Next == \/ \E e \in Envs :
             \/ Create(e)
             \/ \E va \in Touches[e], v \in Values \union {Zero} : Access(e, va, v) \/ Fault(e, va, v)
             \/ \E n \in 1 .. NPage : Malloc(e, n)
             \/ \E va \in Area : Free(e, va)
             \/ Sbrk(e) \/ Exit(e)
        \/ \E n \in Sweeps : SetSweeps(n)

(* An environment that can run is scheduled again and again (Lifecycle,    *)
(* ReadyGetsTheCpu), and then executes its next instruction.               *)
Spec == Init /\ [][Next]_vars /\ \A e \in Envs : WF_vars(Retry(e))

-----------------------------------------------------------------------------
Live(e)       == w.env[e].status = "live"
Present(e)    == {va \in Pages : "P" \in perms(w, e, va)}
WsPages(e)    == {w.env[e].ws[i].va : i \in DOMAIN w.env[e].ws}
Content(e, va) == IF va \in Present(e) THEN w.data[FrameOf(w, e, va)]
                  ELSE IF InPageFile(w, e, va) THEN w.disk.data[w.env[e].disk[va]]
                  ELSE Unknown

(* Whatever is replaced, written out and read back, a page of a live       *)
(* environment holds what was last written to it, in its frame if it has   *)
(* one and in the page file otherwise.                                     *)
LastWriteSeen ==
  panic = "no" => \A e \in Envs : Live(e) =>
    \A va \in Pages : expect[e][va] # Unknown => Content(e, va) = expect[e][va]

(* page_WS_list is the set of resident pages, without repetition and never *)
(* longer than allowed; when it is full the clock has a hand to turn.  A   *)
(* heap page with bit 11 is resident and a resident heap page is reserved. *)
WorkingSetExact ==
  panic = "no" => \A e \in Envs : Live(e) =>
    /\ WsPages(e) = Present(e)
    /\ Len(w.env[e].ws) = Cardinality(WsPages(e)) /\ Len(w.env[e].ws) <= page_WS_max_size
    /\ Full(w, e) => w.env[e].hand \in DOMAIN w.env[e].ws
    /\ \A va \in UHeap : /\ "b11" \in perms(w, e, va) <=> va \in Present(e)
                         /\ va \in Present(e) => "b10" \in perms(w, e, va)

(* No frame is lost or has two owners, and every frame that may be handed  *)
(* out next is mapped nowhere but, perhaps, in an environment that ended   *)
(* for touching a page that is not its own.                                *)
PagingFramesConserved ==
  panic = "no" =>
    FramesCounted([w.mm EXCEPT !.pt = [p \in {q \in DOMAIN @ : q[1] = 0 \/ q[2] # Hole} |-> @[p]]],
                  LAMBDA f : 0)

(* A frame of the page file is free or holds one page of one environment.  *)
PageFileConserved ==
  LET users(d) == {p \in Envs \X Pages : w.env[p[1]].disk[p[2]] = d}
      free(d)  == {i \in DOMAIN w.disk.free : w.disk.free[i] = d}
  IN  \A d \in 1 .. DiskFrames : Cardinality(users(d)) + Cardinality(free(d)) = 1

(* One access causes at most a table fault and a page fault, and the       *)
(* handler never stops the kernel but for want of frames or of room in the *)
(* page file, or because it believes that a fault repeats itself.          *)
TwoFaultsSuffice ==
  /\ \A e \in Envs : pending[e] # NoOp => pending[e].faults <= 2
  /\ panic \in {"no", "no memory", "page file full", "fault repeated"}

(* Every access comes to an end: it is done, the environment is ended, or  *)
(* the kernel has stopped.                                                 *)
AccessEnds == \A e \in Envs : pending[e] # NoOp ~> (pending[e] = NoOp \/ panic # "no")
=============================================================================
