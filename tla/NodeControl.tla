---------------------------- MODULE NodeControl ----------------------------
(***************************************************************************)
(* What the user of start, stop, restart, hup and status can rely on, told *)
(* without pids, files and signals: tors are up or not, they go down when  *)
(* they like, and the answer of a command says something about the states  *)
(* of the network that the command has been through.                       *)
(***************************************************************************)

EXTENDS Naturals

CONSTANTS Nodes, LaunchPhase

VARIABLES
  up,       \* the nodes whose tor runs
  state,    \* "busy" while a command runs, else "idle"
  verb,     \* the command that runs, or ran last
  phase,    \* its launch phase
  result,   \* how it ended
  seen      \* the values of up since it began

vars == <<up, state, verb, phase, result, seen>>

Verbs == {"start", "stop", "restart", "hup", "status"}

OfPhase == {n \in Nodes : LaunchPhase[n] = phase}

WasUp(n) == \E U \in seen : n \in U
WasDown(n) == \E U \in seen : n \notin U

Recorded == seen' = IF state = "busy" THEN seen \union {up'} ELSE {}

-----------------------------------------------------------------------------
\* A tor begins to shut down, crashes or is killed.
GoesDown(n) ==
  /\ n \in up
  /\ up' = up \ {n}
  /\ Recorded
  /\ UNCHANGED <<state, verb, phase, result>>

\* Only start launches tors, and restart after it has stopped the whole network.
Launches ==
  \/ verb = "start"
  \/ verb = "restart" /\ {} \in seen

\* One of the phase comes up, that is down.
ComesUp(n) ==
  /\ state = "busy"
  /\ Launches
  /\ n \in OfPhase \ up
  /\ up' = up \union {n}
  /\ Recorded
  /\ UNCHANGED <<state, verb, phase, result>>

Begin(v, ph) ==
  /\ state = "idle"
  /\ state' = "busy"
  /\ verb' = v /\ phase' = ph /\ result' = "none"
  /\ seen' = {up}
  /\ UNCHANGED up

\* What "ok" means.
Done ==
  CASE verb \in {"start", "status"} -> \A n \in OfPhase : WasUp(n)
    [] verb = "stop" -> up = {}
    [] verb = "restart" -> {} \in seen
    [] verb = "hup" -> \A n \in Nodes : WasUp(n)

\* What a failure means; stop and restart do not fail.
Refused ==
  CASE verb \in {"start", "status"} -> \E n \in OfPhase : WasDown(n)
    [] verb = "hup" -> \E n \in Nodes : WasDown(n)
    [] OTHER -> FALSE

\* An exception is only raised over a tor that went down while the command ran, or
\* over a node that cannot be launched.
Overtaken == \E n \in Nodes \ up : WasUp(n)

Unlaunched == Launches /\ OfPhase \ up # {}

Answer ==
  /\ state = "busy"
  /\ state' = "idle"
  /\ \/ result' = "ok" /\ Done
     \/ result' = "failed" /\ Refused
     \/ result' = "exception" /\ (Overtaken \/ Unlaunched)
     \/ result' = "interrupted"
  /\ seen' = {}
  /\ UNCHANGED <<up, verb, phase>>

-----------------------------------------------------------------------------
Init ==
  /\ up = {} /\ state = "idle"
  /\ verb = "stop" /\ phase = 1 /\ result = "none"
  /\ seen = {}

Next ==
  \/ \E n \in Nodes : GoesDown(n) \/ ComesUp(n)
  \/ \E v \in Verbs, n \in Nodes : \E ph \in 1..LaunchPhase[n] : Begin(v, ph)
  \/ Answer

Spec == Init /\ [][Next]_vars
=============================================================================
