---------------------------- MODULE MCAuthTokens ----------------------------
(* Instances of AuthTokens for TLC.                                        *)
EXTENDS AuthTokens, TLC

Symmetry == Permutations(Login) \cup Permutations(Refresh)
                \cup Permutations(Logout) \cup Permutations(Change)
=============================================================================
