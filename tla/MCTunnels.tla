----------------------------- MODULE MCTunnels -----------------------------
(* TunnelService with small sets, two requests at a time.                  *)
EXTENDS TunnelService, TLC

Interchangeable == Permutations(Proc) \cup Permutations(Subdomains)
                   \cup Permutations(Ports)
=============================================================================
