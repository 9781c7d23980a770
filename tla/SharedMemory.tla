---------------------------- MODULE SharedMemory ----------------------------
(***************************************************************************)
(* Shared memory: kern/mem/shared_memory_manager.c and its user side       *)
(* smalloc(), sget() and sfree() of lib/uheap.c.                           *)
(*                                                                         *)
(* A system call can be preempted wherever it holds no spinlock, so a call *)
(* is cut into the steps between its uses of shareslock; each environment  *)
(* is at one of them:                                                      *)
(*                                                                         *)
(*   smalloc  create -> frames -> fill        createSharedObject()         *)
(*   sget     find -> map -> count            getSharedObject()            *)
(*   sfree    unmap -> drop -> test           freeSharedObject()           *)
(*                                                                         *)
(* An object is named by its address in the kernel heap, a number.  The    *)
(* user pages of an environment are the page area of its heap.             *)
(***************************************************************************)
EXTENDS MemoryManager, Queues

CONSTANTS Envs,          \* environments, numbers from 1
          Objects,       \* the objects programs create: [owner, name, size, rw],
                         \* the size in pages
          NArea,         \* pages of the page area
          TableSize,     \* pages of a page table
          FrameCount,
          NShares        \* shares that the kernel heap has room for

ASSUME SharingAssumption ==
  /\ \A n \in {NArea, TableSize, FrameCount, NShares} : n \in Nat \ {0}
  /\ Envs \subseteq Nat \ {0} /\ IsFiniteSet(Envs)
  /\ \A o \in Objects : o.owner \in Envs /\ o.size \in Nat \ {0} /\ o.rw \in BOOLEAN

VARIABLES mm,       \* frames and page tables, see MemoryManager
          tables,   \* the page tables each environment has
          obj,      \* the struct Share at each address
          shares,   \* AllShares.shares_list, the addresses in order
          ids,      \* va_page_id_share_object of each environment
          op,       \* the call each environment is in
          held,     \* history: the addresses a program was given, with the key
          calm,     \* history: no call has failed half way, none overlapped a
                    \* smalloc() or sfree() of the same object by another
          ended     \* how the kernel stopped, "no" while it runs

vars == <<mm, tables, obj, shares, ids, op, held, calm, ended>>

Area       == 1 .. NArea
Addresses  == 1 .. NShares
TableOf(p) == p \div TableSize
Key(o)     == <<o.owner, o.name>>      \* what get_share() compares
NULL       == 0
NoKey      == <<>>
E_NO_SHARE == -1

Idle == [call |-> "no", at |-> "no", key |-> NoKey, size |-> 0, rw |-> FALSE, va |-> 0, ptr |-> NULL]
FreeShare == [live |-> FALSE, key |-> NoKey, size |-> 0, rw |-> FALSE, refs |-> 0, frames |-> <<>>]

-----------------------------------------------------------------------------
(* The first run of n pages that are neither reserved nor shared; 0 if     *)
(* there is none.                                                          *)
Unmarked(e, p) == mm.pt[<<e, p>>].perm \intersect {"b10", "b11"} = {}
Runs(e, n) == {p \in Area : \A i \in p .. p + n - 1 : i \in Area /\ Unmarked(e, i)}
getConsecutiveFreePages(e, n) ==
  IF Runs(e, n) = {} THEN NULL ELSE CHOOSE p \in Runs(e, n) : \A q \in Runs(e, n) : p <= q

(* get_share(): the first object of the list with the key, or NULL.        *)
First(hits) == IF hits = {} THEN NULL ELSE shares[CHOOSE i \in hits : \A j \in hits : i <= j]
get_share(key) == First({i \in DOMAIN shares : obj[shares[i]].key = key})

(* create_share(): kmalloc() takes the lowest free address.                *)
FreeAddresses == {s \in Addresses : ~obj[s].live}
kmalloc_share == CHOOSE s \in FreeAddresses : \A t \in FreeAddresses : s <= t
create_share(key, size, rw) ==
  [live |-> TRUE, key |-> key, size |-> size, rw |-> rw, refs |-> 1,
   frames |-> [i \in 1 .. size |-> NoFrame]]

(* A page table takes a frame: of the frames that mm counts as free, as    *)
(* many as there are page tables are not.                                  *)
Tables(m) == Cardinality(UNION {{<<e, t>> : t \in m.tables[e]} : e \in Envs})
FreeFrames(m) == Len(m.mm.free) - Tables(m)

(* A page gets frame f; its page table is made first if it is missing.     *)
(* m is [mm, tables, ok]; ok is FALSE once a frame was wanted in vain.     *)
with_table(m, e, p) ==
  IF TableOf(p) \in m.tables[e] THEN m
  ELSE [m EXCEPT !.ok = @ /\ FreeFrames(m) > 0, !.tables[e] = @ \union {TableOf(p)}]

put_frame(m, e, p, f, rw) ==
  IF ~m.ok THEN m
  ELSE [m EXCEPT !.mm = map_frame(@, f, <<e, p>>,
                                  {"P", "U", "b11"} \union (IF rw THEN {"W"} ELSE {}))]
put_new_frame(m, e, p) ==
  IF m.ok /\ FreeFrames(m) > 0
  THEN [m EXCEPT !.mm = allocate_and_map(@, <<e, p>>, {"P", "W", "U", "b11"})]
  ELSE [m EXCEPT !.ok = FALSE]

share_page(m, e, p, f, rw) == put_frame(with_table(m, e, p), e, p, f, rw)
new_page(m, e, p) == put_new_frame(with_table(m, e, p), e, p)

Memory == [mm |-> mm, tables |-> tables, ok |-> TRUE]

(* Which frame is handed out next, and base_va_page, make no difference    *)
(* here: the free list is kept in one order, and base_va_page is left out. *)
Settle(m) == [m EXCEPT !.free = SetToSeq(Range(@)),
                       !.base = [f \in DOMAIN @ |-> NoPage]]

(* The loops of createSharedObject() and getSharedObject().                *)
fill_pages(e, va, n) ==
  LET upto[i \in 0 .. n] ==
        IF i = 0 THEN Memory ELSE new_page(upto[i - 1], e, va + i - 1)
  IN  upto[n]

\* Mutant: everybody may write.
map_pages_writable(e, va, frames, rw) ==
  LET upto[i \in 0 .. Len(frames)] ==
        IF i = 0 THEN Memory ELSE share_page(upto[i - 1], e, va + i - 1, frames[i], TRUE)
  IN  upto[Len(frames)]

map_pages(e, va, frames, rw) ==
  LET upto[i \in 0 .. Len(frames)] ==
        IF i = 0 THEN Memory ELSE share_page(upto[i - 1], e, va + i - 1, frames[i], rw)
  IN  upto[Len(frames)]

(* The loop of freeSharedObject(): a page table without entries goes back  *)
(* to the kernel heap.                                                     *)
EmptyTable(m, e, t) == \A p \in Area : TableOf(p) = t => m.mm.pt[<<e, p>>] = NoEntry
drop_table(m, e, t) ==
  IF EmptyTable(m, e, t) THEN [m EXCEPT !.tables[e] = @ \ {t}] ELSE m

\* Mutant: the page is forgotten, its frame is not given up.
unshare_page_leak(m, e, p) ==
  drop_table([m EXCEPT !.mm.pt[<<e, p>>] = NoEntry], e, TableOf(p))

unshare_page(m, e, p) ==
  drop_table([m EXCEPT !.mm = unmap_frame(pt_set_page_permissions(@, <<e, p>>, {}, PERM_AVAILABLE),
                                          <<e, p>>)],
             e, TableOf(p))
unmap_pages(e, va, n) ==
  LET upto[i \in 0 .. n] == IF i = 0 THEN Memory ELSE unshare_page(upto[i - 1], e, va + i - 1)
  IN  upto[n]

-----------------------------------------------------------------------------
(* sharing_init(): no objects.                                             *)
Init ==
  /\ mm = Settle(initialize_paging(FrameCount, Envs \X Area))
  /\ tables = [e \in Envs |-> {}]
  /\ obj = [s \in Addresses |-> FreeShare]
  /\ shares = <<>>
  /\ ids = [e \in Envs |-> [p \in Area |-> 0]]
  /\ op = [e \in Envs |-> Idle]
  /\ held = [e \in Envs |-> [p \in Area |-> NoKey]]
  /\ calm = TRUE
  /\ ended = "no"

At(e, at) == ended = "no" /\ op[e].at = at
Goto(e, at) == op' = [op EXCEPT ![e].at = at]
Return(e)   == op' = [op EXCEPT ![e] = Idle]

(* The environment begins a call about key; another call about it that may *)
(* disturb or be disturbed ends the calm.  After that the calls that are   *)
(* in progress are followed to their end, and no new ones begun.           *)
Overlaps(e, call, key) ==
  \E d \in Envs \ {e} : op[d].key = key /\ ~(call = "sget" /\ op[d].call = "sget")
Begin(e, rec) ==
  /\ calm
  /\ op' = [op EXCEPT ![e] = rec]
  /\ calm' = ~Overlaps(e, rec.call, rec.key)

(* The program is given va, and the library notes the id there.            *)
Give(e, id) ==
  /\ ids' = [ids EXCEPT ![e][op[e].va] = id]
  /\ held' = [held EXCEPT ![e][op[e].va] = op[e].key]

(* The kernel uses memory it should not.                                   *)
Wild(e) ==
  /\ ended' = "wild"
  /\ UNCHANGED <<mm, tables, obj, shares, ids, op, held, calm>>

(* smalloc() to the end of the test for the name.                          *)
Smalloc(e, o) ==
  /\ At(e, "no")
  /\ o.owner = e
  /\ getConsecutiveFreePages(e, o.size) # NULL
  /\ get_share(Key(o)) = NULL
  /\ Begin(e, [call |-> "smalloc", at |-> "create", key |-> Key(o), size |-> o.size, rw |-> o.rw,
               va |-> getConsecutiveFreePages(e, o.size), ptr |-> NULL])
  /\ UNCHANGED <<mm, tables, obj, shares, ids, held, ended>>

(* Of the errors smalloc() tests for, createSharedObject() returns only    *)
(* E_SHARED_MEM_EXISTS: on E_NO_SHARE the program gets an address.         *)
NoShare(e) ==
  /\ Give(e, E_NO_SHARE)
  /\ Return(e)
  /\ calm' = FALSE
  /\ UNCHANGED <<mm, tables, obj, shares, ended>>

CreateShare(e) ==
  /\ At(e, "create")
  /\ FreeAddresses # {}
  /\ obj' = [obj EXCEPT ![kmalloc_share] = create_share(op[e].key, op[e].size, op[e].rw)]
  /\ shares' = <<kmalloc_share>> \o shares
  /\ op' = [op EXCEPT ![e].at = "frames", ![e].ptr = kmalloc_share]
  /\ UNCHANGED <<mm, tables, ids, held, calm, ended>>

CreateShareFails(e) == At(e, "create") /\ FreeAddresses = {} /\ NoShare(e)

(* The frames are counted, not taken.                                      *)
EnoughFrames(e) == FreeFrames(Memory) >= op[e].size
CountFrames(e) ==
  /\ At(e, "frames")
  /\ EnoughFrames(e)
  /\ Goto(e, "fill")
  /\ UNCHANGED <<mm, tables, obj, shares, ids, held, calm, ended>>

TooFewFrames(e) == At(e, "frames") /\ ~EnoughFrames(e) /\ NoShare(e)

(* Frames that went since, or that the page tables need, are missed: the   *)
(* kernel panics.                                                          *)
FillPages(e) ==
  /\ At(e, "fill")
  /\ \E m \in {fill_pages(e, op[e].va, op[e].size)} :
       /\ mm' = Settle(m.mm)
       /\ tables' = m.tables
       /\ ended' = IF m.ok THEN "no" ELSE "no memory"
       /\ obj' = [obj EXCEPT ![op[e].ptr].frames =
                    [i \in DOMAIN @ |-> get_frame_info(m.mm, <<e, op[e].va + i - 1>>)]]
  /\ Give(e, op[e].ptr)
  /\ Return(e)
  /\ UNCHANGED <<shares, calm>>

-----------------------------------------------------------------------------
(* sget(): the size of the object, and as many free pages.                 *)
getSizeOfSharedObject(key) == obj[get_share(key)].size
Sget(e, key) ==
  /\ At(e, "no")
  /\ get_share(key) # NULL
  /\ \E n \in {getSizeOfSharedObject(key)} :
       /\ getConsecutiveFreePages(e, n) # NULL
       /\ Begin(e, [call |-> "sget", at |-> "find", key |-> key, size |-> n, rw |-> FALSE,
                    va |-> getConsecutiveFreePages(e, n), ptr |-> NULL])
  /\ UNCHANGED <<mm, tables, obj, shares, ids, held, ended>>

(* getSharedObject() looks the name up again.                              *)
FindShare(e) ==
  /\ At(e, "find")
  /\ op' = IF get_share(op[e].key) = NULL THEN [op EXCEPT ![e] = Idle]
           ELSE [op EXCEPT ![e].at = "map", ![e].ptr = get_share(op[e].key)]
  /\ UNCHANGED <<mm, tables, obj, shares, ids, held, calm, ended>>

(* The size is read again; the frames may not be there yet, or any more.   *)
Mappable(e) ==
  LET s == obj[op[e].ptr]
  IN  s.live /\ NoFrame \notin Range(s.frames) /\ op[e].va + s.size - 1 \in Area
MapShare(e) ==
  /\ At(e, "map")
  /\ Mappable(e)
  /\ \E m \in {map_pages(e, op[e].va, obj[op[e].ptr].frames, obj[op[e].ptr].rw)} :
       /\ mm' = Settle(m.mm)
       /\ tables' = m.tables
       /\ ended' = IF m.ok THEN "no" ELSE "no memory"
  /\ Goto(e, "count")
  /\ UNCHANGED <<obj, shares, ids, held, calm>>
MapShareWild(e) == At(e, "map") /\ ~Mappable(e) /\ Wild(e)

\* Mutant: the new user is not counted.
CountShare_not(e) ==
  /\ At(e, "count") /\ obj[op[e].ptr].live
  /\ Give(e, op[e].ptr) /\ Return(e)
  /\ UNCHANGED <<mm, tables, obj, shares, calm, ended>>

CountShare(e) ==
  /\ At(e, "count")
  /\ obj[op[e].ptr].live
  /\ obj' = [obj EXCEPT ![op[e].ptr].refs = @ + 1]
  /\ Give(e, op[e].ptr)
  /\ Return(e)
  /\ UNCHANGED <<mm, tables, shares, calm, ended>>
CountShareWild(e) == At(e, "count") /\ ~obj[op[e].ptr].live /\ Wild(e)

-----------------------------------------------------------------------------
(* sfree() of an address the program was given: the object is found by the *)
(* id noted there.                                                         *)
ById(e, va) == First({i \in DOMAIN shares : shares[i] = ids[e][va]})
Sfree(e, va) ==
  /\ At(e, "no")
  /\ held[e][va] # NoKey
  /\ ById(e, va) # NULL
  /\ Begin(e, [call |-> "sfree", at |-> "unmap", key |-> held[e][va], size |-> 0, rw |-> FALSE,
               va |-> va, ptr |-> ById(e, va)])
  /\ UNCHANGED <<mm, tables, obj, shares, ids, held, ended>>

(* Nothing is found: share_object has no value, and is used.               *)
SfreeWild(e, va) == At(e, "no") /\ held[e][va] # NoKey /\ ById(e, va) = NULL /\ Wild(e)

(* The reference of this address is still counted, so the object is there. *)
UnmapShare(e) ==
  /\ At(e, "unmap")
  /\ \E m \in {unmap_pages(e, op[e].va, obj[op[e].ptr].size)} :
       mm' = Settle(m.mm) /\ tables' = m.tables
  /\ Goto(e, "drop")
  /\ UNCHANGED <<obj, shares, ids, held, calm, ended>>

(* references - 1 under shareslock; only afterwards, without it, the test. *)
DropShare(e) ==
  /\ At(e, "drop")
  /\ obj' = [obj EXCEPT ![op[e].ptr].refs = @ - 1]
  /\ Goto(e, "test")
  /\ UNCHANGED <<mm, tables, shares, ids, held, calm, ended>>

\* Mutant: the object stays on the list.
free_share_listed(s) == /\ obj' = [obj EXCEPT ![s] = FreeShare]
                        /\ shares' = shares

free_share(s) == /\ obj' = [obj EXCEPT ![s] = FreeShare]
                 /\ shares' = LIST_REMOVE(shares, s)

TestShare(e) ==
  /\ At(e, "test")
  /\ obj[op[e].ptr].refs = 0 => obj[op[e].ptr].live
  /\ IF obj[op[e].ptr].refs = 0 THEN free_share(op[e].ptr) ELSE UNCHANGED <<obj, shares>>
  /\ ids' = [ids EXCEPT ![e][op[e].va] = 0]
  /\ held' = [held EXCEPT ![e][op[e].va] = NoKey]
  /\ Return(e)
  /\ UNCHANGED <<mm, tables, calm, ended>>
(* Both of two calls can see the 0: the object is removed and freed twice. *)
TestShareWild(e) == At(e, "test") /\ obj[op[e].ptr].refs = 0 /\ ~obj[op[e].ptr].live /\ Wild(e)

-----------------------------------------------------------------------------
Next == \E e \in Envs :
  \/ \E o \in Objects : Smalloc(e, o)
  \/ CreateShare(e) \/ CreateShareFails(e) \/ CountFrames(e) \/ TooFewFrames(e) \/ FillPages(e)
  \/ \E key \in {Key(o) : o \in Objects} : Sget(e, key)
  \/ FindShare(e) \/ MapShare(e) \/ MapShareWild(e) \/ CountShare(e) \/ CountShareWild(e)
  \/ \E va \in Area : Sfree(e, va) \/ SfreeWild(e, va)
  \/ UnmapShare(e) \/ DropShare(e) \/ TestShare(e) \/ TestShareWild(e)

Spec == Init /\ [][Next]_vars

-----------------------------------------------------------------------------
Good == calm /\ ended = "no"

(* As long as every smalloc() succeeded and nobody's smalloc() or sfree()  *)
(* overlapped another call about the same object, the kernel never uses an *)
(* object that was freed or has no frames, never frees one twice and never *)
(* searches one in vain.  Calls about different objects, and sget() of the *)
(* same one, may overlap in any way.                                       *)
SharingSafe == calm => ended # "wild"

Users(s) ==
  LET dropped(e, va) == op[e].at = "test" /\ op[e].va = va
      filling(e)     == op[e].call = "smalloc" /\ op[e].ptr = s
  IN  Cardinality({u \in Envs \X Area : ids[u[1]][u[2]] = s /\ ~dropped(u[1], u[2])})
        + Cardinality({e \in Envs : filling(e)})

(* references is the number of addresses at which the object is mapped,    *)
(* those that are being mapped not yet and those that are being unmapped   *)
(* until they were dropped.  The list holds the live objects, each once    *)
(* and no two under one name, though the name is tested long before the    *)
(* object is inserted.                                                     *)
ReferencesExact ==
  Good =>
    /\ Range(shares) = {s \in Addresses : obj[s].live}
    /\ \A i, j \in DOMAIN shares : i # j => obj[shares[i]].key # obj[shares[j]].key
    /\ \A s \in Range(shares) : obj[s].refs = Users(s)

(* Everybody who was given an object sees the frames of that object, page  *)
(* by page, and may write to them if the object is writable; otherwise     *)
(* only the owner can, where smalloc() mapped them.                        *)
SameFrames ==
  Good => \A e \in Envs, va \in Area :
    held[e][va] # NoKey /\ ~(op[e].va = va /\ op[e].call = "sfree") =>
      LET s == obj[get_share(held[e][va])]
      IN  \A i \in DOMAIN s.frames :
            LET entry == mm.pt[<<e, va + i - 1>>]
            IN  /\ entry.frame = s.frames[i]
                /\ {"P", "U"} \subseteq entry.perm
                /\ s.rw => "W" \in entry.perm
                /\ "W" \in entry.perm => s.rw \/ s.key[1] = e

(* Frames are neither lost nor used twice, and an environment without      *)
(* objects has no page table left: sfree() gave all of them back.          *)
SharingFramesConserved ==
  Good =>
    /\ FramesCounted(mm, LAMBDA f : 0)
    /\ \A e \in Envs : op[e] = Idle /\ (\A va \in Area : held[e][va] = NoKey) => tables[e] = {}
=============================================================================
