------------------------- MODULE MCAuthRateLimiter -------------------------
(* AuthRateLimiter for TLC: two interleaved requests of one client, three    *)
(* windows long, so that a bucket is renewed twice and a late alarm of the   *)
(* first can meet the third.  No symmetry: the run checks liveness.          *)
EXTENDS AuthRateLimiter
=============================================================================
