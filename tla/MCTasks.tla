------------------------------ MODULE MCTasks ------------------------------
(* Instances of Tasks for TLC.                                             *)
EXTENDS Tasks, TLC

CONSTANTS p1, p2, k1

MCUser == {p1, p2, k1}

(* Two rewards of 1 fill the child's wallet.                               *)
MCOpening == [u \in User |-> [cur \in Currency |-> 1]]

Symmetry == Permutations(Call)
=============================================================================
