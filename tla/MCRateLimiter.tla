---------------------------- MODULE MCRateLimiter ----------------------------
(***************************************************************************)
(* Small instances of the rate limiter for TLC.                            *)
(***************************************************************************)
EXTENDS RateLimiterProperties, TLC

CONSTANTS u1, r1, r2, r3, r4, r5

OneUser == [r \in Requests |-> u1]

Interchangeable == Permutations(Requests)
=============================================================================
