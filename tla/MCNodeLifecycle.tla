-------------------------- MODULE MCNodeLifecycle --------------------------
(* Model values for the runs of NodeLifecycle.                              *)
EXTENDS NodeLifecycle, TLC

CONSTANTS p1, p2, p3, p4

TwoPids == {p1, p2}
FourPids == {p1, p2, p3, p4}

\* Process ids are only compared for equality.
Symmetry == Permutations(Pids)

OnePhase == [n \in Nodes |-> 1]
\* No node of phase 1: its commands must leave all nodes alone.
LatePhase == [n \in Nodes |-> 2]
=============================================================================
