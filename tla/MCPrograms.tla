----------------------------- MODULE MCPrograms -----------------------------
(* The user programs side by side: one kind of program runs, the others    *)
(* stay where they started, so that the state spaces add up.               *)
EXTENDS UserTests, UserPrograms

VARIABLE which

vars == <<tvars, bt, up, which>>

Init == /\ which \in {"tests", "blocks", "programs"}
        /\ TInit /\ BInit /\ UInit
        /\ which # "tests" => test = "malloc_1"
        /\ which # "programs" => up.prog = "matrix"

Next == \/ which = "tests" /\ TNext /\ UNCHANGED <<bt, up, which>>
        \/ which = "blocks" /\ BNext /\ UNCHANGED <<tvars, up, which>>
        \/ which = "programs" /\ UNext /\ UNCHANGED <<tvars, bt, which>>

Spec == Init /\ [][Next]_vars
=============================================================================
