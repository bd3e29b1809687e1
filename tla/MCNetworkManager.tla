-------------------------- MODULE MCNetworkManager --------------------------
(* NetworkManager on small instances.                                        *)
EXTENDS NetworkManager, TLC

Symmetry == Permutations(Handlers) \cup Permutations(Names)
=============================================================================
