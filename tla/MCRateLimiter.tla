---------------------------- MODULE MCRateLimiter ---------------------------
(* Instances of RateLimiter for TLC.                                       *)
EXTENDS RateLimiter, TLC

MCLimit == [k \in Kind |-> 1]

Symmetry == Permutations(Request)
=============================================================================
