---------------------------- MODULE MemoryManager ----------------------------
(***************************************************************************)
(* Physical frames and page table entries: kern/mem/memory_manager.c and   *)
(* kern/mem/paging_helpers.c.  There are no variables here: the state is a *)
(* record                                                                  *)
(*                                                                         *)
(*   mm.free : free_frame_list, used as a stack                            *)
(*   mm.ref  : the references of each frame                                *)
(*   mm.base : base_va_page of each frame, NoPage if none                  *)
(*   mm.pt   : the page table entry of each page, [frame, perm]            *)
(*                                                                         *)
(* A page is a pair <<directory, address>>; directory 0 is the kernel's.   *)
(* Frames are numbers from 1; an entry with frame 0 maps nothing but may   *)
(* carry marks in its three available bits.  A permission is a set of bit  *)
(* names: P(resent), W(riteable), U(ser), A(ccessed), D(irty), b9 .. b11.  *)
(***************************************************************************)
EXTENDS Integers, Sequences, SequencesExt, FiniteSets

NoFrame == 0
NoPage  == <<>>
PERM_AVAILABLE == {"b9", "b10", "b11"}
NoEntry == [frame |-> NoFrame, perm |-> {}]

(* initialize_paging(): the usable frames are pushed one by one.           *)
initialize_paging(n, Pages) ==
  [free |-> [i \in 1 .. n |-> n + 1 - i], ref |-> [f \in 1 .. n |-> 0],
   base |-> [f \in 1 .. n |-> NoPage], pt |-> [p \in Pages |-> NoEntry]]

initialize_frame_info(mm, f) ==
  [mm EXCEPT !.ref[f] = 0, !.base[f] = NoPage]

(* allocate_frame() of the head of the list; without one it panics.        *)
FreeFrame(mm) == Head(mm.free)
allocate_frame(mm) ==
  initialize_frame_info([mm EXCEPT !.free = Tail(@)], FreeFrame(mm))

free_frame(mm, f) ==
  initialize_frame_info([mm EXCEPT !.free = <<f>> \o @], f)

decrement_references(mm, f) ==
  LET m == [mm EXCEPT !.ref[f] = @ - 1]
  IN  IF m.ref[f] = 0 THEN free_frame(m, f) ELSE m

pt_get_page_permissions(mm, p) == mm.pt[p].perm
pt_set_page_permissions(mm, p, set, clear) ==
  [mm EXCEPT !.pt[p].perm = (@ \union set) \ clear]

get_frame_info(mm, p) == mm.pt[p].frame

(* unmap_frame() keeps the available bits of the entry.                    *)
unmap_frame(mm, p) ==
  LET f == get_frame_info(mm, p)
      m == decrement_references(mm, f)
  IN  IF f = NoFrame THEN mm
      ELSE [m EXCEPT !.pt[p] = [frame |-> NoFrame, perm |-> @.perm \intersect PERM_AVAILABLE],
                     !.base[f] = NoPage]

(* map_frame() keeps them too, and drops an older frame of the page.       *)
map_frame(mm, f, p, perm) ==
  LET same  == "P" \in mm.pt[p].perm /\ mm.pt[p].frame = f
      clean == IF "P" \in mm.pt[p].perm THEN unmap_frame(mm, p) ELSE mm
      keep  == clean.pt[p].perm \intersect PERM_AVAILABLE
  IN  IF same THEN mm
      ELSE [clean EXCEPT !.ref[f] = @ + 1, !.base[f] = p,
                         !.pt[p] = [frame |-> f, perm |-> keep \union perm \union {"P"}]]

(* The pair of calls that gives a page a frame of its own.                 *)
allocate_and_map(mm, p, perm) == map_frame(allocate_frame(mm), FreeFrame(mm), p, perm)

-----------------------------------------------------------------------------
(* Every frame is on the free list, once and forgotten, or is referenced   *)
(* by as many entries as its counter says; extra(f) counts the references  *)
(* that are not in a page table of mm.                                     *)
FramesCounted(mm, extra(_)) ==
  \A f \in DOMAIN mm.ref :
    LET users == {p \in DOMAIN mm.pt : mm.pt[p].frame = f}
    IN  /\ mm.ref[f] = Cardinality(users) + extra(f)
        /\ Cardinality({i \in DOMAIN mm.free : mm.free[i] = f})
             = IF mm.ref[f] = 0 THEN 1 ELSE 0
=============================================================================
