------------------------- MODULE MCParallelGateway -------------------------
(* Instances of ParallelGateway: a model thread and two or three others. *)
EXTENDS ParallelGateway, TLC
CONSTANTS m, a, b, c, none, all
MCThreads2 == {m, a, b}
MCThreads3 == {m, a, b, c}
MCOnce  == [t \in Threads |-> 1]
MCTwice == [t \in Threads |-> 2]
MCMainTwice == [t \in Threads |-> IF t = Main THEN 2 ELSE 1]
MCSymmetryAB  == Permutations({a, b})
MCSymmetryBC  == Permutations({b, c})
=============================================================================
