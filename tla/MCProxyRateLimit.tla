-------------------------- MODULE MCProxyRateLimit --------------------------
(* ProxyRateLimit with two workers and a limit of two requests a window.     *)
EXTENDS ProxyRateLimit, TLC

Interchangeable == Permutations(Worker)
=============================================================================
