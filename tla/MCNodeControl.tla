--------------------------- MODULE MCNodeControl ---------------------------
(* The run of NodeLifecycle with its history, and NodeControl.              *)
EXTENDS NodeHistory, MCNodeLifecycle
=============================================================================
