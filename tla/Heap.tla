-------------------------------- MODULE Heap --------------------------------
(***************************************************************************)
(* What a heap promises its users, whatever it does inside: the regions    *)
(* handed out and not yet given back never overlap, a new one is made of   *)
(* bytes that nobody owns, and only its owner's call makes a region        *)
(* disappear or change.  kmalloc(), kfree() and krealloc() of              *)
(* kern/mem/kheap.c are shown to keep this promise (KHeap!Contract).       *)
(***************************************************************************)
EXTENDS Integers

VARIABLE owned      \* the regions in use, records [va, size]

Apart(r, s) == r.va + r.size <= s.va \/ s.va + s.size <= r.va

Unowned(r, others) == r.size > 0 /\ \A o \in others : Apart(r, o)

Init == owned = {}

(* A request is granted: one more region, of fresh bytes.  (A refused      *)
(* request changes nothing, which every specification allows.)             *)
Alloc == \E r \in owned' \ owned :
           /\ owned' = owned \union {r}
           /\ Unowned(r, owned)

Free == \E r \in owned : owned' = owned \ {r}

(* One region is resized where it is, or moved to fresh bytes.             *)
Resize == \E r \in owned, s \in owned' \ owned :
            /\ owned' = (owned \ {r}) \union {s}
            /\ Unowned(s, owned \ {r})

Next == Alloc \/ Free \/ Resize

Spec == Init /\ [][Next]_owned
=============================================================================
