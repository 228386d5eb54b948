---------------------------- MODULE NodeHistory ----------------------------
(***************************************************************************)
(* NodeLifecycle with a history variable that remembers which nodes have   *)
(* been up at the same time since the command began, and the promise that  *)
(* the pid files and signals keep: they implement NodeControl.             *)
(***************************************************************************)
EXTENDS NodeLifecycle

VARIABLE seen   \* history: the values of Up since the command began

\* The nodes that have a tor, whether chutney knows it or not, from its launch until it
\* shuts down.
Up == {n \in Nodes : \E p \in Pids : owner[p] = n /\ stage[p] # "leaving"}

Remember == seen' = IF pc' = "idle" THEN {} ELSE seen \union {Up'}

HistoryInit == Init /\ seen = {}

HistoryNext == Next /\ Remember

HistorySpec == HistoryInit /\ [][HistoryNext]_<<vars, seen>>

-----------------------------------------------------------------------------
Control == INSTANCE NodeControl WITH up <- Up, state <- (IF pc = "idle" THEN "idle" ELSE "busy")

\* Each answer of each command is true of the network at some moment of the command:
\* ok of start and status means that every node of the phase was up, of hup that all
\* nodes were, of restart that once all were down, and of stop that all are down now;
\* a failure means that some node was down, and an exception that one went down
\* meanwhile, or cannot be launched. Nothing but start, or restart after a complete
\* stop, brings a tor up, one that was down, of the phase that was asked for.
ImplementsNodeControl == Control!Spec

-----------------------------------------------------------------------------
(* Inductive strengthening: what a command has learnt was true at the time *)
(* it learnt it.                                                           *)

WasUp(n) == Control!WasUp(n)
WasDown(n) == Control!WasDown(n)

\* Every tor was up at some moment of the command, be it that it shuts down now.
SeenInv ==
  /\ pc = "idle" => seen = {}
  /\ pc # "idle" => Up \in seen /\ \A p \in Pids : Tor(p) => WasUp(owner[p])

\* start and status, about the nodes of the phase that they have passed.
PhaseInv ==
  verb \in {"start", "status"} /\ pc # "idle" =>
    /\ pc = "looking" => LaunchPhase[node] = phase
    /\ ok => \A n \in Passed : WasUp(n)
    /\ ~ok => \E n \in Nodes : LaunchPhase[n] = phase /\ WasDown(n)

\* hup, about the nodes that it has passed.
HupInv ==
  verb = "hup" /\ pc # "idle" =>
    /\ ok => \A n \in Nodes : n < node \/ pc = "finish" => WasUp(n)
    /\ ~ok => \E n \in Nodes : WasDown(n)

\* Went down while the command ran.
Lost(n) == WasUp(n) /\ n \notin Up

\* A node that is signalled was up, one that is launched is down, one that start waits
\* for was up and down, and a file that has gone since it was seen took its tor along.
NodeInv ==
  /\ pc = "kill" => WasUp(node)
  /\ pc = "launch" => node \notin Up
  /\ pc = "communicate" => WasUp(node) /\ WasDown(node)
  /\ at = "open" => pidfile[node] # None \/ Lost(node)
  /\ pc = "rmlock" => lockfile[node] # None \/ Lost(node)
  /\ pc = "mvpid" => pidfile[node] # None

\* stop never fails, and restart starts after all have been down.
RestartInv ==
  /\ verb = "stop" => ok
  /\ verb = "restart" /\ (Starting \/ pc = "finish") => {} \in seen

HInv == SeenInv /\ PhaseInv /\ HupInv /\ NodeInv /\ RestartInv
=============================================================================
