--------------------------- MODULE MCKanbanFleet ---------------------------
(* Instances of KanbanFleet for TLC: two dispatch loops, in one process or *)
(* in two.                                                                 *)
EXTENDS KanbanFleet, TLC

CONSTANTS w1, w2, p1, p2, a1, a2

OneProcess   == (w1 :> p1) @@ (w2 :> p1)
TwoProcesses == (w1 :> p1) @@ (w2 :> p2)

\* The loops of one process are interchangeable.
LoopSymmetry == Permutations({w1, w2})

=============================================================================
