------------------------------ MODULE MCAgent ------------------------------
(* Agent with small sets.  Only TCP tunnels are created: Subdomains is empty. *)
EXTENDS Agent
=============================================================================
