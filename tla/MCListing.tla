----------------------------- MODULE MCListing -----------------------------
(* Listing with three names and a port, two requests at a time.            *)
EXTENDS Listing, TLC

Interchangeable == Permutations(Proc) \cup Permutations(Subdomains)
=============================================================================
