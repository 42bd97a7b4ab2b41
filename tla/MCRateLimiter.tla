--------------------------- MODULE MCRateLimiter ---------------------------
(***************************************************************************)
(* RateLimiter on small instances.                                         *)
(***************************************************************************)
EXTENDS RateLimiter, TLC

CONSTANTS near, far, s1, s2

LimiterSymmetry == Permutations({near, far}) \cup Permutations({s1, s2})
=============================================================================
