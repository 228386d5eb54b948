----------------------------- MODULE MCTraffic -----------------------------
(* Model values for the runs of Traffic.                                    *)
EXTENDS Traffic

CONSTANTS c1, c2

TwoClients == {c1, c2}

\* One client whose send buffer takes everything, one whose buffer is often full.
WideAndNarrow == [c \in TwoClients |-> IF c = c1 THEN Pieces + 1 ELSE 1]

\* verify uses echo clients through a proxy, main() echo clients without one.
AllModes == [echo : BOOLEAN, proxy : BOOLEAN]
=============================================================================
