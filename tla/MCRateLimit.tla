---------------------------- MODULE MCRateLimit ----------------------------
(* RateLimit with a limit of two requests in a minute of two ticks.        *)
EXTENDS RateLimit, TLC

Interchangeable == Permutations(Req)
=============================================================================
