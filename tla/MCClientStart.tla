---------------------------- MODULE MCClientStart ----------------------------
\* Instances of ClientStart for TLC; the starts are interchangeable.
EXTENDS ClientStart, TLC

Symmetry == Permutations(Starts)
=============================================================================
