------------------------------ MODULE MCConsole ------------------------------
(* Instances of Console for TLC. *)
EXTENDS Console, TLC

\* The environments are interchangeable.
Symmetry == Permutations(Envs)
=============================================================================
