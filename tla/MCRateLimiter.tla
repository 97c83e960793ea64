----------------------------- MODULE MCRateLimiter -----------------------------
(***************************************************************************)
(* Small instances of RateLimiter for TLC.                                 *)
(***************************************************************************)
EXTENDS RateLimiter, TLC

(* Goroutines and limiter objects are interchangeable.                     *)
LimiterSymmetry == Permutations(Requests) \cup Permutations(Limiters)
=============================================================================
