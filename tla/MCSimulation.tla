---------------------------- MODULE MCSimulation ----------------------------
\* An instance of Simulation for TLC: a suite with a test that runs a subtest, and a
\* suite with one test.
EXTENDS Simulation

CONSTANTS a, a1, b

ThreeTests == {a, a1, b}
SuitesOfThree == [t \in ThreeTests |-> IF t \in {a, a1} THEN 1 ELSE 2]
ParentsOfThree == [t \in ThreeTests |-> IF t = a1 THEN a ELSE None]
=============================================================================
