------------------------------ MODULE MCRate ------------------------------
(***************************************************************************)
(* RateLimiter for TLC: four units of time per token and a clock that runs *)
(* for twice the time it takes to fill the bucket.                         *)
(***************************************************************************)
EXTENDS RateLimiter
=============================================================================
