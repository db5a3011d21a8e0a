-------------------------------- MODULE MCWeb --------------------------------
(* An instance of WebClient for TLC.                                       *)
EXTENDS WebClient, TLC

Symmetry == Permutations(Extensions) \cup Permutations(Calls) \cup Permutations(Streams)
=============================================================================
