------------------------------- MODULE Queues -------------------------------
(* The lists of inc/queue.h as sequences: their links, one at a time. *)
EXTENDS Naturals, Sequences, FiniteSets

\* Where e is linked into q, and how often.
LinksOf(q, e) == {i \in DOMAIN q : q[i] = e}
Count(q, e) == Cardinality(LinksOf(q, e))

\* LIST_REMOVE(): one link of e leaves q.
LIST_REMOVE(q, e) ==
  LET at == CHOOSE i \in LinksOf(q, e) : TRUE
  IN  SubSeq(q, 1, at - 1) \o SubSeq(q, at + 1, Len(q))
=============================================================================
