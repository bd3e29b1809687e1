--------------------------- MODULE MCTestManager ---------------------------
(* Instances of TestManager for TLC.                                        *)
EXTENDS TestManager, TLC

\* Handlers are interchangeable, and so are containers.  (Safety runs only.)
Symmetry == Permutations(Handlers) \cup Permutations(Nodes)
=============================================================================
