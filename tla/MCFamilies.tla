----------------------------- MODULE MCFamilies -----------------------------
(* Instances of Families for TLC.                                          *)
EXTENDS Families, TLC

Symmetry == Permutations(Joining) \cup Permutations(Inviting)
                \cup Permutations(Code) \cup Permutations(Child)
=============================================================================
