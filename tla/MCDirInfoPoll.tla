--------------------------- MODULE MCDirInfoPoll ---------------------------
(* Values for the runs of DirInfoPoll.                                      *)
EXTENDS DirInfoPoll, FiniteSets

\* Files that have the entry or do not, of which at most two are missing. Empty and
\* short files are what a write may leave in between.
PlainContent ==
  {content \in [Formats -> {"missing", "long", "listed"}] :
     Cardinality({f \in Formats : content[f] = "missing"}) <= 2}
=============================================================================
