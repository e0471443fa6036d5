--------------------------- MODULE MCSavingsGoals ---------------------------
(* Instances of SavingsGoals for TLC.                                      *)
EXTENDS SavingsGoals, TLC

MCCall == Creation \cup Work

(* Enough for three contributions; a refund can take it to MaxBalance.     *)
MCOpening == [u \in User |-> [cur \in Currency |-> 3]]

Symmetry == Permutations(Work)
=============================================================================
