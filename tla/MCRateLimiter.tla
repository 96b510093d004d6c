---------------------------- MODULE MCRateLimiter ----------------------------
(* Small instances of RateLimiter for TLC. *)
EXTENDS RateLimiter, TLC

\* Callers are interchangeable (safety runs only).
Symmetry == Permutations(Callers)
=============================================================================
