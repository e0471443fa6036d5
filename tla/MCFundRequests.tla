--------------------------- MODULE MCFundRequests ---------------------------
(* Instances of FundRequests for TLC.                                      *)
EXTENDS FundRequests, TLC

CONSTANTS p1, p2, k1

MCCall == Creation \cup Review
MCUser == {p1, p2, k1}

(* p1 can pay any request but not two of the largest; two requests         *)
(* together can take the child's wallet over MaxBalance.  p2 is a parent   *)
(* of another family.                                                      *)
MCOpening == [u \in User |->
    [cur \in Currency |-> IF u = p1 THEN MaxBalance ELSE 1]]

Symmetry == Permutations(Review) \cup Permutations(Creation)
=============================================================================
