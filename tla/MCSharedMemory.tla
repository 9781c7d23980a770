--------------------------- MODULE MCSharedMemory ---------------------------
(* The first environment makes an object of one page that all may write,   *)
(* or one of two pages under the same name that they may read, and a small *)
(* one under another name; the second makes a large one under that name    *)
(* and a small one under the first: the names of different owners differ.  *)
EXTENDS SharedMemory

MCObjects == {[owner |-> 1, name |-> "x", size |-> 1, rw |-> TRUE],
              [owner |-> 1, name |-> "x", size |-> 2, rw |-> FALSE],
              [owner |-> 1, name |-> "y", size |-> 1, rw |-> FALSE],
              [owner |-> 2, name |-> "x", size |-> 1, rw |-> FALSE],
              [owner |-> 2, name |-> "y", size |-> 2, rw |-> TRUE]}
=============================================================================
