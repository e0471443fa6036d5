--------------------------- MODULE MCClientSession --------------------------
(* Instances of ClientSession for TLC.                                     *)
EXTENDS ClientSession, TLC

Symmetry == Permutations(Request \ LogoutRequest)
=============================================================================
