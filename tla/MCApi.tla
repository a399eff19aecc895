-------------------------------- MODULE MCApi --------------------------------
(* Api with one request at a time.                                         *)
EXTENDS Api, TLC

\* A configuration without a cap.
NoCap == Unlimited
\* Durations asked for: one allowed, one without an end, one below the minimum,
\* and the one the handlers refuse.
Asked == {1, Unlimited, -2, 0}

\* Nothing tells the names apart.
Interchangeable == Permutations(Subdomains)
=============================================================================
