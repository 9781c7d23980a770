------------------------------ MODULE MCPaging ------------------------------
(* Two programs: one uses its text, a page of the page area (the last page *)
(* of the heap cannot be had) and its stack, and now and then a page that  *)
(* is not its own; the other only the block area and its stack.            *)
EXTENDS Paging

MCTouches == <<Text \union {Hole} \union {Hole + NBlock + 1} \union Stack, Block \union Stack>>

(* Two chances, and the variant that spares modified pages.                *)
MCSweeps == {2, -1}
=============================================================================
