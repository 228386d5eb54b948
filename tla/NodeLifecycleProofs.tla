----------------------- MODULE NodeLifecycleProofs -----------------------
(***************************************************************************)
(* Proofs about start, stop, restart, hup and status.                      *)
(*                                                                         *)
(* Under Settled (a command begins when each tor has its pid file or is    *)
(* gone): IInv is inductive, and with it LiveTorsFound, OneTor,            *)
(* KillComesLast and the first half of StopIsComplete, whether pids are    *)
(* reused or not. LiveTorsAreFound alone is not inductive: that the        *)
(* clean-up takes no file from a live tor rests on StopInv (once a poll    *)
(* has found all tors down they stay down), this on HeldInv (a pid that    *)
(* was read stays that of the only tor of its node), and this on StageInv  *)
(* (only start runs beside a tor without a pid file). AskedInv adds how    *)
(* often a tor has been asked.                                             *)
(*                                                                         *)
(* Under Controlled, which excludes that pids are reused: CInv, with the   *)
(* second half of StopIsComplete, and HInv over the history of             *)
(* NodeHistory, with the refinement ControlRefined.                        *)
(*                                                                         *)
(* Under no assumption on tors and pids: TypeCorrect, StartHonest, and     *)
(* CommandsRunOut, from a measure that each step of a command lowers.      *)
(***************************************************************************)
EXTENDS NodeHistory, WellFoundedInduction, TLAPS

\* The constants that all the proofs below rest on.
LEMMA Constants ==
  /\ 1 \in Nodes /\ Nodes \subseteq Int /\ NumNodes \in Nodes
  /\ None \notin Nodes /\ None \notin Pids
  /\ Other \notin Nodes /\ Other # None /\ Foreign \notin Nodes /\ Foreign # None
  /\ \A n \in Nodes : n >= 1 /\ n <= NumNodes
  /\ \A n \in Nodes : n < NumNodes => n + 1 \in Nodes
  /\ MaxPolls \in Nat /\ MaxPolls >= 1
BY LifecycleAssumption DEF Nodes

LEMMA PhasesAreNumbers ==
  /\ Phases \subseteq Nat
  /\ \A ph \in Phases : \E n \in Nodes : ph \in 1..LaunchPhase[n]
BY LifecycleAssumption DEF Phases

\* Going on with the next node stays within the network.
LEMMA NextNodeType ==
  ASSUME NEW step, NEW last, node \in Nodes, NextNode(step, last)
  PROVE  node' \in Nodes /\ pc' \in {step, last}
BY Constants DEF NextNode

\* The process table, the files and what start knows of its process.
TypeOfSystem ==
  /\ owner \in [Pids -> Nodes \union {Other, Foreign, None}]
  /\ stage \in [Pids -> {"none", "launched", "starting", "running", "leaving"}]
  /\ sigints \in [Pids -> 0..2]
  /\ pidfile \in [Nodes -> Pids \union {None}]
  /\ lockfile \in [Nodes -> Pids \union {None}]
  /\ child \in {"none", "running", "ok", "failed"}

\* And the rest.
TypeOfCommand ==
  /\ verb \in Verbs /\ phase \in Nat
  /\ pc \in Readers \union Askers \union
       {"idle", "launch", "communicate", "kill", "sleep", "lockexists", "rmlock",
        "pidexists", "mvpid", "finish"}
  /\ node \in Nodes
  /\ pid \in Pids \union {None}
  /\ at \in {"exists", "open", "ask"}
  /\ asked \in Pids \union {None}
  /\ round \in 1..3 /\ polls \in 0..(MaxPolls - 1)
  /\ anyRunning \in BOOLEAN /\ ok \in BOOLEAN
  /\ result \in {"none", "ok", "failed", "exception", "interrupted"}
  /\ launched \subseteq Nodes

LEMMA TypeParts == TypeOK <=> TypeOfSystem /\ TypeOfCommand
BY DEF TypeOK, TypeOfSystem, TypeOfCommand

LEMMA SystemType ==
  ASSUME TypeOK, System
  PROVE  TypeOK'
<1>1. PICK p \in Pids : \/ TakeLock(p) \/ WritePid(p) \/ Crash(p) \/ Shutdown(p) \/ Exit(p)
                        \/ ReusePid(p) \/ OtherExits(p)
  BY DEF System
<1>2. TypeOfSystem
  BY TypeParts
<1>3. TypeOfSystem'
  <2>1. CASE TakeLock(p) \/ WritePid(p) \/ Shutdown(p)
    BY <1>2, <2>1 DEF TakeLock, WritePid, Shutdown, TypeOfSystem, Tor
  <2>2. Dies(p) => /\ owner' \in [Pids -> Nodes \union {Other, Foreign, None}]
                   /\ stage' \in [Pids -> {"none", "launched", "starting", "running", "leaving"}]
                   /\ sigints' \in [Pids -> 0..2]
                   /\ child' \in {"none", "running", "ok", "failed"}
    BY <1>2 DEF Dies, TypeOfSystem
  <2>3. CASE Crash(p) \/ Exit(p) \/ OtherExits(p)
    BY <1>2, <2>2, <2>3 DEF Crash, Exit, OtherExits, files, TypeOfSystem
  <2>4. CASE ReusePid(p)
    BY <1>2, <2>4 DEF ReusePid, files, TypeOfSystem
  <2> QED BY <1>1, <2>1, <2>3, <2>4
<1>4. TypeOfCommand'
  BY TypeParts DEF System, loop, TypeOfCommand
<1> QED BY <1>3, <1>4, TypeParts DEF TypeOK, TypeOfSystem, TypeOfCommand

LEMMA AnswerType ==
  ASSUME TypeOK, NEW r \in {"ok", "failed", "exception", "interrupted"}, Answer(r)
  PROVE  TypeOK'
BY Constants DEF Answer, Returns, os, files, TypeOK

\* The steps of getPid and isRunning.
LEMMA ReadType ==
  ASSUME TypeOK, FindPidfile \/ ReadPid \/ GetPid
  PROVE  TypeOK'
<1>1. pidfile[node] \in Pids \union {None}
  BY DEF TypeOK
<1>2. CASE FindPidfile
  BY <1>2 DEF FindPidfile, TypeOK, os, files, loop
<1>3. CASE ReadPid
  BY <1>1, <1>3 DEF ReadPid, getPid, TypeOK, os, files, loop
<1>4. CASE GetPid
  <2>1. pc' \in {"looking", "reporting", "signal"}
    BY <1>4 DEF GetPid, Readers, AsksAt
  <2>2. at' \in {"exists", "open", "ask"}
    BY <1>4 DEF GetPid, TypeOK
  <2> QED BY <1>1, <1>4, <2>1, <2>2 DEF GetPid, getPid, TypeOK, Readers, Askers, os, files, loop
<1> QED BY <1>2, <1>3, <1>4

\* A step that is done with a method of the controller, and may go on with the next node.
LEMMA ReturnType ==
  ASSUME TypeOK, Returns, UNCHANGED <<files, verb, phase, result>>,
         owner' \in [Pids -> Nodes \union {Other, Foreign, None}],
         stage' \in [Pids -> {"none", "launched", "starting", "running", "leaving"}],
         sigints' \in [Pids -> 0..2],
         node' \in Nodes, launched' \subseteq Nodes, round' \in 1..3, polls' \in 0..(MaxPolls - 1),
         anyRunning' \in BOOLEAN, ok' \in BOOLEAN,
         pc' \in Readers \union Askers \union
           {"idle", "launch", "communicate", "kill", "sleep", "lockexists", "rmlock",
            "pidexists", "mvpid", "finish"}
  PROVE  TypeOK'
BY Constants DEF Returns, files, TypeOK

LEMMA CommandType ==
  ASSUME TypeOK, Command
  PROVE  TypeOK'
<1>t. /\ node \in Nodes /\ launched \subseteq Nodes /\ round \in 1..3 /\ polls \in 0..(MaxPolls - 1)
      /\ anyRunning \in BOOLEAN /\ ok \in BOOLEAN
      /\ owner \in [Pids -> Nodes \union {Other, Foreign, None}]
      /\ stage \in [Pids -> {"none", "launched", "starting", "running", "leaving"}]
      /\ sigints \in [Pids -> 0..2]
  BY DEF TypeOK
<1>1. CASE OpenRaises \/ AskRaises \/ LaunchRaises \/ FormatRaises \/ KillRaises \/ CleanupRaises \/ Finish
  BY <1>1, AnswerType DEF OpenRaises, AskRaises, LaunchRaises, FormatRaises, KillRaises, CleanupRaises, Finish
<1>2. CASE FindPidfile \/ ReadPid \/ GetPid
  BY <1>2, ReadType
<1>3. CASE Skip
  <2>1. node' \in Nodes /\ pc' \in {"check", "look", "finish"}
    BY <1>3, <1>t, NextNodeType DEF Skip, OutOfPhase
  <2> QED BY <1>3, <2>1 DEF Skip, TypeOK, Readers, Askers, os, files, call, loop
<1>4. CASE CheckStarted
  <2>1. node' \in Nodes /\ pc' \in {"check", "finish", "launch"}
    BY <1>4, <1>t, NextNodeType DEF CheckStarted
  <2> QED BY <1>4, <1>t, <2>1, ReturnType DEF CheckStarted, os, loop, Readers, Askers
<1>5. ASSUME NEW p \in Pids, Launch(p) PROVE TypeOK'
  BY <1>5 DEF Launch, TypeOK, files, loop
<1>6. CASE Communicate
  <2>1. node' \in Nodes /\ pc' \in {"check", "finish"}
    BY <1>6, <1>t, NextNodeType DEF Communicate
  <2>2. launched' \subseteq Nodes /\ ok' \in BOOLEAN
    BY <1>6, <1>t DEF Communicate
  <2> QED BY <1>6, <1>t, <2>1, <2>2, ReturnType DEF Communicate, os, Readers, Askers
<1>7. CASE Look
  <2>1. node' \in Nodes /\ pc' \in {"look", "finish"}
    BY <1>7, <1>t, NextNodeType DEF Look
  <2> QED BY <1>7, <1>t, <2>1, ReturnType DEF Look, os, Readers, Askers
<1>8. CASE Probe
  <2>1. node' \in Nodes /\ pc' \in {"probe", "poll", "getpid"} /\ anyRunning' \in BOOLEAN
    BY <1>8, <1>t, NextNodeType DEF Probe
  <2> QED BY <1>8, <1>t, <2>1, ReturnType DEF Probe, os, Readers, Askers
<1>9. CASE NotRunning
  <2>1. node' \in Nodes /\ pc' \in {"getpid", "probe", "poll", "finish"} /\ ok' \in BOOLEAN
    BY <1>9, <1>t, NextNodeType DEF NotRunning, Signalled
  <2> QED BY <1>9, <1>t, <2>1, ReturnType DEF NotRunning, os, Readers, Askers
<1>10. CASE FoundRunning
  BY <1>10 DEF FoundRunning, TypeOK, os, files, loop
<1>11. CASE Kill
  <2>1. node' \in Nodes /\ pc' \in {"getpid", "probe", "poll", "finish"}
    BY <1>11, <1>t, NextNodeType DEF Kill, Signalled
  <2>2. /\ owner' \in [Pids -> Nodes \union {Other, Foreign, None}]
        /\ stage' \in [Pids -> {"none", "launched", "starting", "running", "leaving"}]
        /\ sigints' \in [Pids -> 0..2]
    BY <1>11, <1>t DEF Kill, os, TypeOK
  <2> QED BY <1>11, <1>t, <2>1, <2>2, ReturnType DEF Kill, loop, Readers, Askers
<1>12. CASE Poll
  <2>1. node' \in Nodes /\ pc' \in {"poll", "sleep", "report"}
    BY <1>12, <1>t, NextNodeType, Constants DEF Poll
  <2>2. polls' \in 0..(MaxPolls - 1)
    <3>1. polls' = polls \/ (polls + 1 < MaxPolls /\ polls' = polls + 1) \/ polls' = 0
      BY <1>12 DEF Poll
    <3> QED BY <1>t, <3>1, Constants
  <2>3. Returns /\ UNCHANGED <<os, files, verb, phase, round, anyRunning, ok, result, launched>>
    BY <1>12 DEF Poll
  <2> QED BY <2>1, <2>2, <2>3, Constants DEF Returns, TypeOK, Readers, Askers, os, files
<1>13. CASE Report
  <2>1. node' \in Nodes /\ pc' \in {"report", "sleep", "probe"}
    BY <1>13, <1>t, NextNodeType DEF Report
  <2>2. round' \in 1..3
    <3>1. round' = IF node = NumNodes /\ round < 3 THEN round + 1 ELSE round
      BY <1>13 DEF Report
    <3> QED BY <1>t, <3>1
  <2>3. Returns /\ UNCHANGED <<os, files, verb, phase, polls, anyRunning, ok, result, launched>>
    BY <1>13 DEF Report
  <2> QED BY <2>1, <2>2, <2>3, Constants DEF Returns, TypeOK, Readers, Askers, os, files
<1>14. CASE Sleep \/ LookForLockfile \/ RemoveLockfile
  <2>1. /\ UNCHANGED <<os, pidfile, verb, phase, node, call, loop, result, launched>>
        /\ pc' \in {"lockcheck", "rmlock", "pidcheck"}
    BY <1>14 DEF Sleep, LookForLockfile, RemoveLockfile, files
  <2>2. lockfile' \in [Nodes -> Pids \union {None}]
    BY <1>14 DEF Sleep, LookForLockfile, RemoveLockfile, files, TypeOK
  <2> QED BY <2>1, <2>2 DEF TypeOK, Askers, os, call, loop
<1>15. CASE CheckLockfile
  BY <1>15, <1>t, ReturnType DEF CheckLockfile, os, loop, Readers, Askers
<1>16. CASE CheckPidfile
  <2>1. node' \in Nodes /\ pc' \in {"lockcheck", "check", "finish", "pidexists"}
    BY <1>16, <1>t, NextNodeType DEF CheckPidfile, AfterCleanup
  <2> QED BY <1>16, <1>t, <2>1, ReturnType DEF CheckPidfile, os, loop, Readers, Askers
<1>17. CASE LookForPidfile \/ RenamePidfile
  <2>1. node' \in Nodes /\ pc' \in {"lockcheck", "check", "finish", "mvpid"}
    BY <1>17, <1>t, NextNodeType DEF LookForPidfile, RenamePidfile, AfterCleanup
  <2>2. pidfile' \in [Nodes -> Pids \union {None}]
    BY <1>17 DEF LookForPidfile, RenamePidfile, files, TypeOK
  <2> QED BY <1>17, <2>1, <2>2 DEF LookForPidfile, RenamePidfile, TypeOK, Readers, Askers, os, files, call, loop
<1> QED
  BY <1>1, <1>2, <1>3, <1>4, <1>5, <1>6, <1>7, <1>8, <1>9, <1>10, <1>11, <1>12, <1>13, <1>14,
     <1>15, <1>16, <1>17 DEF Command

LEMMA TypeStep == TypeOK /\ [Next]_vars => TypeOK'
<1> SUFFICES ASSUME TypeOK, [Next]_vars PROVE TypeOK'
  OBVIOUS
<1>1. ASSUME NEW v \in Verbs, NEW ph \in Phases, Begin(v, ph) PROVE TypeOK'
  <2>1. ph \in Nat BY PhasesAreNumbers
  <2>2. pc' \in {"check", "probe", "getpid", "look"}
    BY <1>1 DEF Begin, Verbs
  <2> QED BY <1>1, <2>1, <2>2 DEF Begin, TypeOK, Readers, Askers, os, files, call
<1>2. CASE Interrupt
  BY <1>2, AnswerType DEF Interrupt
<1>3. CASE UNCHANGED vars
  BY <1>3 DEF vars, TypeOK, os, files, call, loop
<1> QED
  BY <1>1, <1>2, <1>3, SystemType, CommandType DEF Next

-----------------------------------------------------------------------------
(* What holds of commands whatever the tors do.                            *)

\* The steps that end a command.
Ends ==
  OpenRaises \/ AskRaises \/ LaunchRaises \/ FormatRaises \/ KillRaises \/ CleanupRaises
  \/ Finish \/ Interrupt

LEMMA EndsAnswer ==
  ASSUME Ends
  PROVE  \E r \in {"ok", "failed", "exception", "interrupted"} : Answer(r)
BY DEF Ends, OpenRaises, AskRaises, LaunchRaises, FormatRaises, KillRaises, CleanupRaises,
       Finish, Interrupt

LEMMA CallStep ==
  ASSUME TypeOK, CallInv, [Next]_vars
  PROVE  CallInv'
<1>1. CASE System \/ UNCHANGED vars
  <2>1. UNCHANGED <<phase, pc, node, pid, at, asked, round, polls, ok>>
    BY <1>1 DEF System, vars, call, loop
  <2> QED BY <2>1 DEF CallInv, OutOfPhase
<1>2. CASE Ends
  <2>1. /\ pc' = "idle" /\ node' = 1 /\ round' = 1 /\ polls' = 0 /\ ok' = TRUE
        /\ pid' = None /\ at' = "exists"
    BY <1>2, EndsAnswer DEF Answer, Returns
  <2> QED BY <2>1 DEF CallInv, OutOfPhase
<1>3. ASSUME NEW v \in Verbs, NEW ph \in Phases, Begin(v, ph) PROVE CallInv'
  <2>1. at' = "exists" /\ pc' \in {"check", "probe", "getpid", "look"}
    BY <1>3 DEF Begin, CallInv, call, Verbs
  <2> QED BY <2>1 DEF CallInv
\* A method that returns leaves no pid behind.
<1>4. ASSUME CheckStarted \/ Communicate \/ Look \/ Probe \/ NotRunning \/ Kill \/ Poll \/ Report
             \/ CheckLockfile \/ CheckPidfile
      PROVE  CallInv'
  <2>1. Returns
    BY <1>4 DEF CheckStarted, Communicate, Look, Probe, NotRunning, Kill, Poll, Report, CheckLockfile, CheckPidfile
  <2>2. pc' # "idle" /\ (pc' = "sleep" => node' = 1)
    BY <1>4 DEF CheckStarted, Communicate, Look, Probe, NotRunning, Kill, Poll, Report, CheckLockfile, CheckPidfile,
           NextNode, Signalled, AfterCleanup
  <2> QED BY <2>1, <2>2 DEF Returns, CallInv
<1>5. CASE FindPidfile
  BY <1>5 DEF FindPidfile, CallInv, OutOfPhase, Readers, Askers
<1>6. CASE ReadPid
  BY <1>6 DEF ReadPid, CallInv, OutOfPhase, Readers, Askers
<1>7. CASE GetPid
  <2>1. pc' \in {"looking", "reporting", "signal"}
    BY <1>7 DEF GetPid, Readers, AsksAt
  <2>2. \/ at' = "exists" /\ pid' = None
        \/ at' = "ask" /\ pid' # None /\ asked' = pid'
    BY <1>7 DEF GetPid
  <2> QED BY <2>1, <2>2 DEF CallInv, OutOfPhase, Askers
<1>8. ASSUME Skip \/ (\E p \in Pids : Launch(p)) \/ Sleep \/ LookForLockfile \/ RemoveLockfile \/ LookForPidfile \/ RenamePidfile
      PROVE  CallInv'
  <2>1. at = "exists"
    BY <1>8 DEF Skip, Launch, Sleep, LookForLockfile, RemoveLockfile, LookForPidfile, RenamePidfile, CallInv, TypeOK, Readers, Askers
  <2>2. at' = "exists" /\ pc' \in {"check", "look", "finish", "communicate", "lockcheck", "rmlock", "pidcheck", "mvpid"}
    BY <1>8, <2>1 DEF Skip, Launch, Sleep, LookForLockfile, RemoveLockfile, LookForPidfile, RenamePidfile, NextNode,
           AfterCleanup, OutOfPhase, call
  <2> QED BY <2>2 DEF CallInv
<1>9. CASE FoundRunning
  BY <1>9 DEF FoundRunning, CallInv, OutOfPhase
<1> QED
  BY <1>1, <1>2, <1>3, <1>4, <1>5, <1>6, <1>7, <1>8, <1>9 DEF Next, Command, Ends

LEMMA VerbStep ==
  ASSUME TypeOK, CallInv, VerbInv, [Next]_vars
  PROVE  VerbInv'
<1>1. CASE System \/ UNCHANGED vars
  <2>1. UNCHANGED <<pc, verb, round>>
    BY <1>1 DEF System, vars, loop
  <2> QED BY <2>1 DEF VerbInv, Reporting, Cleaning, Starting
<1>2. CASE Ends
  <2>1. pc' = "idle" /\ round' = 1
    BY <1>2, EndsAnswer DEF Answer
  <2> QED BY <2>1 DEF VerbInv, Reporting, Cleaning, Starting
<1>3. ASSUME NEW v \in Verbs, NEW ph \in Phases, Begin(v, ph) PROVE VerbInv'
  BY <1>3 DEF Begin, VerbInv, CallInv, Reporting, Cleaning, Starting, Verbs
<1>4. CASE Report
  BY <1>4 DEF Report, NextNode, VerbInv, Reporting, Cleaning, Starting
<1>5. ASSUME FindPidfile \/ ReadPid \/ GetPid
      PROVE  VerbInv'
  <2>1. UNCHANGED <<verb, round>> /\ (pc' = pc \/ <<pc, pc'>> \in {<<"look", "looking">>, <<"report", "reporting">>, <<"getpid", "signal">>})
    BY <1>5 DEF FindPidfile, ReadPid, GetPid, loop, Readers, AsksAt
  <2> QED BY <2>1 DEF VerbInv, Reporting, Cleaning, Starting
<1>6. ASSUME Skip \/ CheckStarted \/ (\E p \in Pids : Launch(p)) \/ Communicate
      PROVE  VerbInv'
  <2>1. /\ UNCHANGED <<verb, round>>
        /\ \/ Starting /\ pc' \in {"check", "launch", "communicate", "finish"}
           \/ pc = "look" /\ pc' \in {"look", "finish"}
    BY <1>6 DEF Skip, CheckStarted, Launch, Communicate, NextNode, OutOfPhase, Starting, loop
  <2> QED BY <2>1 DEF VerbInv, Reporting, Cleaning, Starting
<1>7. ASSUME Look \/ Probe \/ NotRunning \/ FoundRunning \/ Kill
      PROVE  VerbInv'
  <2>1. /\ UNCHANGED <<verb, round>>
        /\ \/ pc = "looking" /\ pc' \in {"look", "finish"}
           \/ pc = "probe" /\ pc' \in {"probe", "getpid", "poll"}
           \/ pc \in {"signal", "kill"} /\ verb # "hup" /\ pc' \in {"probe", "poll", "kill"}
           \/ pc \in {"signal", "kill"} /\ verb = "hup" /\ pc' \in {"getpid", "finish", "kill"}
    BY <1>7 DEF Look, Probe, NotRunning, FoundRunning, Kill, NextNode, Signalled, loop
  <2> QED BY <2>1 DEF VerbInv, Reporting, Cleaning, Starting
<1>8. ASSUME Poll \/ Sleep \/ CheckLockfile \/ LookForLockfile \/ RemoveLockfile \/ CheckPidfile
             \/ LookForPidfile \/ RenamePidfile
      PROVE  VerbInv'
  <2>1. /\ UNCHANGED <<verb, round>>
        /\ pc \in {"poll", "sleep"} \/ Cleaning
        /\ \/ pc' \in {"poll", "sleep", "report", "finish"} \/ Cleaning'
           \/ pc' = "check" /\ verb = "restart"
    BY <1>8 DEF Poll, Sleep, CheckLockfile, LookForLockfile, RemoveLockfile, CheckPidfile, LookForPidfile, RenamePidfile,
           NextNode, AfterCleanup, Cleaning, loop
  <2> QED BY <2>1 DEF VerbInv, Reporting, Cleaning, Starting
<1> QED
  BY <1>1, <1>2, <1>3, <1>4, <1>5, <1>6, <1>7, <1>8 DEF Next, Command, Ends

\* The nodes that a loop has passed after one more of them.
LEMMA OneMorePassed ==
  ASSUME NEW step, step # "finish", node \in Nodes, pc # "finish", NextNode(step, "finish")
  PROVE  \A n \in Nodes : (n < node' \/ pc' = "finish") <=> ((n < node \/ pc = "finish") \/ n = node)
<1>1. CASE node < NumNodes
  <2>1. pc' = step /\ node' = node + 1
    BY <1>1 DEF NextNode
  <2>2. \A n \in Nodes : n < node' <=> n < node \/ n = node
    BY <2>1, Constants
  <2> QED BY <2>1, <2>2
<1>2. CASE ~(node < NumNodes)
  <2>1. pc' = "finish"
    BY <1>2 DEF NextNode
  <2>2. \A n \in Nodes : n < node \/ n = node
    BY <1>2, Constants
  <2> QED BY <2>1, <2>2
<1> QED BY <1>1, <1>2

\* start() counts right, whatever the tors do meanwhile.
LEMMA StartStep ==
  ASSUME TypeOK, CallInv, VerbInv, StartInv, [Next]_vars
  PROVE  StartInv'
<1>t. node \in Nodes /\ ok \in BOOLEAN
  BY DEF TypeOK
<1>1. CASE System \/ UNCHANGED vars
  <2>1. UNCHANGED <<verb, phase, pc, node, ok, result, launched>>
    BY <1>1 DEF System, vars, loop
  <2> QED BY <2>1 DEF StartInv, StartIsHonest, Passed, Starting
<1>2. ASSUME NEW v \in Verbs, NEW ph \in Phases, Begin(v, ph) PROVE StartInv'
  <2>1. /\ pc' \in {"check", "probe", "getpid", "look"}
        /\ node' = 1 /\ launched' = {} /\ ok' = TRUE
    BY <1>2 DEF Begin, CallInv, Verbs
  <2>2. \A n \in Nodes : ~(n < node' \/ pc' = "finish")
    BY <2>1, Constants
  <2>3. Passed' = {}
    BY <2>2 DEF Passed
  <2> QED BY <2>1, <2>3 DEF StartInv, StartIsHonest, Starting
<1>3. CASE Finish
  <2>1. /\ pc = "finish" /\ pc' = "idle" /\ UNCHANGED <<verb, phase, launched>>
        /\ verb = "start" => (result' = "ok" <=> ok)
    BY <1>3, <1>t DEF Finish, Answer
  <2>2. Passed = {n \in Nodes : LaunchPhase[n] = phase}
    BY <2>1 DEF Passed
  <2> QED BY <2>1, <2>2 DEF StartInv, StartIsHonest, Starting
<1>4. CASE Ends /\ ~Finish
  <2>1. pc' = "idle" /\ result' \in {"exception", "interrupted"}
    BY <1>4 DEF Ends, OpenRaises, AskRaises, LaunchRaises, FormatRaises, KillRaises, CleanupRaises, Interrupt, Answer
  <2> QED BY <2>1 DEF StartInv, StartIsHonest, Starting
\* The node is looked up, found down or launched, but not passed yet.
<1>5. ASSUME UNCHANGED <<verb, phase, node, ok, launched>>, Starting, Starting',
             pc' \in {"launch", "communicate"} => LaunchPhase[node] = phase
      PROVE  StartInv'
  <2>1. Passed' = Passed
    BY <1>5 DEF Passed, Starting
  <2> QED BY <1>5, <2>1 DEF StartInv, StartIsHonest, Starting
<1>6. CASE CheckStarted /\ pc' = "launch"
  <2>1. UNCHANGED <<verb, phase, node, ok, launched>> /\ pc = "check" /\ isRunning(FALSE)
    BY <1>6 DEF CheckStarted, NextNode, loop
  <2>2. LaunchPhase[node] = phase
    BY <2>1 DEF isRunning, OutOfPhase, CallInv
  <2> QED BY <1>5, <1>6, <2>1, <2>2 DEF Starting
<1>7. CASE \E p \in Pids : Launch(p)
  <2>1. UNCHANGED <<verb, phase, node, ok, launched>> /\ pc = "launch" /\ pc' = "communicate"
    BY <1>7 DEF Launch, loop
  <2> QED BY <1>5, <2>1 DEF Starting, StartInv
<1>8. CASE (FindPidfile \/ ReadPid) /\ Starting
  <2>1. UNCHANGED <<verb, phase, pc, node, ok, launched>>
    BY <1>8 DEF FindPidfile, ReadPid, loop
  <2> QED BY <1>5, <1>8, <2>1 DEF Starting, StartInv
\* The node is passed.
<1>9. CASE (Skip \/ CheckStarted \/ Communicate) /\ NextNode("check", "finish")
  <2>1. /\ UNCHANGED <<phase, verb>> /\ pc \in {"check", "communicate", "look"}
        /\ pc' \in {"check", "finish"}
    BY <1>9 DEF Skip, CheckStarted, Communicate, NextNode, OutOfPhase
  <2>2. pc # "look" =>
          \/ LaunchPhase[node] # phase /\ launched' = launched /\ ok' = ok
          \/ LaunchPhase[node] = phase /\ launched' = launched \union {node} /\ ok' = ok
          \/ LaunchPhase[node] = phase /\ launched' = launched /\ ok' = FALSE
    <3>1. CASE Skip
      BY <3>1 DEF Skip, OutOfPhase, loop
    <3>2. CASE CheckStarted
      <4>1. isRunning(TRUE) /\ launched' = launched \union {node} /\ ok' = ok
        BY <1>9, <3>2 DEF CheckStarted, NextNode, loop
      <4>2. LaunchPhase[node] = phase
        BY <3>2, <4>1 DEF CheckStarted, isRunning, OutOfPhase, CallInv
      <4> QED BY <4>1, <4>2
    <3>3. CASE Communicate
      BY <3>3, <1>t DEF Communicate, StartInv
    <3> QED BY <1>9, <3>1, <3>2, <3>3
  <2>3. /\ LaunchPhase[node] = phase => Passed' = Passed \union {node}
        /\ LaunchPhase[node] # phase => Passed' = Passed
        /\ node \notin Passed
    <3>1. \A n \in Nodes : (n < node' \/ pc' = "finish") <=> ((n < node \/ pc = "finish") \/ n = node)
      BY <1>9, <1>t, <2>1, OneMorePassed
    <3>2. ~(node < node)
      BY <1>t, Constants
    <3> QED BY <2>1, <3>1, <3>2, <1>t DEF Passed
  <2>4. pc # "look" /\ verb = "start" => launched' \subseteq Passed' /\ (ok' <=> launched' = Passed')
    BY <2>1, <2>2, <2>3, <1>t DEF StartInv, Starting
  <2>5. pc = "look" => verb # "start"
    BY DEF VerbInv
  <2> QED BY <2>1, <2>4, <2>5 DEF StartInv, StartIsHonest
\* start() does nothing else.
<1>10. ASSUME verb' = verb, verb # "start", pc' \notin {"idle", "launch", "communicate"}
       PROVE  StartInv'
  BY <1>10 DEF StartInv, StartIsHonest
<1>11. ASSUME \/ (Skip \/ FindPidfile \/ ReadPid) /\ ~Starting
              \/ GetPid \/ Look \/ Probe \/ NotRunning \/ FoundRunning \/ Kill \/ Poll \/ Report \/ Sleep \/ CheckLockfile
              \/ LookForLockfile \/ RemoveLockfile \/ CheckPidfile \/ LookForPidfile \/ RenamePidfile
       PROVE  StartInv'
  <2>1. pc \notin {"idle", "finish", "check", "launch", "communicate"}
    BY <1>11 DEF Skip, FindPidfile, ReadPid, GetPid, Look, Probe, NotRunning, FoundRunning, Kill, Poll, Report, Sleep,
           CheckLockfile, LookForLockfile, RemoveLockfile, CheckPidfile, LookForPidfile, RenamePidfile,
           Starting, Readers, Askers, OutOfPhase
  <2>2. verb # "start"
    BY <2>1 DEF TypeOK, VerbInv, Readers, Askers, Reporting, Cleaning
  <2>3. verb' = verb /\ pc' \notin {"idle", "launch", "communicate"}
    <3>1. CASE FindPidfile \/ ReadPid \/ GetPid
      BY <2>1, <3>1 DEF FindPidfile, ReadPid, GetPid, Readers, AsksAt
    <3>2. CASE Skip
      BY <2>1, <3>2 DEF Skip, NextNode
    <3>3. CASE Look \/ Probe \/ NotRunning \/ FoundRunning \/ Kill \/ Poll \/ Report
      BY <3>3 DEF Look, Probe, NotRunning, FoundRunning, Kill, Poll, Report, NextNode, Signalled
    <3>4. CASE Sleep \/ CheckLockfile \/ LookForLockfile \/ RemoveLockfile \/ CheckPidfile \/ LookForPidfile \/ RenamePidfile
      BY <3>4 DEF Sleep, CheckLockfile, LookForLockfile, RemoveLockfile, CheckPidfile, LookForPidfile, RenamePidfile,
             NextNode, AfterCleanup
    <3> QED BY <1>11, <3>1, <3>2, <3>3, <3>4
  <2> QED BY <1>10, <2>2, <2>3
<1>12. /\ CheckStarted => pc' = "launch" \/ NextNode("check", "finish")
       /\ Communicate => NextNode("check", "finish")
       /\ Skip => NextNode("check", "finish") \/ ~Starting
  BY DEF CheckStarted, Communicate, Skip, OutOfPhase, Starting
<1> QED
  BY <1>1, <1>2, <1>3, <1>4, <1>6, <1>7, <1>8, <1>9, <1>11, <1>12 DEF Next, Command, Ends

-----------------------------------------------------------------------------
(* What the tors do to processes and files, and what a command reads.      *)

\* Only start, stop's signals and the clean-up change processes and files.
LEMMA CommandChanges ==
  ASSUME Command \/ Interrupt
  PROVE  /\ (\E p \in Pids : Launch(p)) \/ Kill \/ UNCHANGED os
         /\ RemoveLockfile \/ RenamePidfile \/ UNCHANGED files
<1>1. Ends => UNCHANGED <<os, files>>
  BY EndsAnswer DEF Answer
<1> QED
  BY <1>1 DEF Command, Ends, FindPidfile, ReadPid, GetPid, Skip, CheckStarted, Launch, Communicate,
         Look, Probe, NotRunning, FoundRunning, Kill, Poll, Report, Sleep, CheckLockfile, LookForLockfile,
         RemoveLockfile, CheckPidfile, LookForPidfile, RenamePidfile

LEMMA WhoChanges ==
  ASSUME [Next]_vars
  PROVE  /\ System \/ (\E p \in Pids : Launch(p)) \/ Kill \/ UNCHANGED os
         /\ System \/ RemoveLockfile \/ RenamePidfile \/ UNCHANGED files
BY CommandChanges DEF Next, Begin, vars

\* A tor that is there after a step of the tors was there before, and may have got on.
LEMMA TorsFate ==
  ASSUME TypeOK, System, \A p \in Pids : Tor(p) <=> stage[p] # "none"
  PROVE  \A p \in Pids :
           /\ Tor(p)' <=> stage'[p] # "none"
           /\ Tor(p)' =>
                /\ Tor(p) /\ owner'[p] = owner[p] /\ sigints'[p] = sigints[p]
                /\ \/ stage'[p] = stage[p]
                   \/ stage[p] = "launched" /\ stage'[p] = "starting"
                   \/ stage[p] = "starting" /\ stage'[p] = "running"
                   \/ stage[p] = "running" /\ stage'[p] = "leaving"
<1> SUFFICES ASSUME NEW p \in Pids
             PROVE  /\ Tor(p)' <=> stage'[p] # "none"
                    /\ Tor(p)' =>
                         /\ Tor(p) /\ owner'[p] = owner[p] /\ sigints'[p] = sigints[p]
                         /\ \/ stage'[p] = stage[p]
                            \/ stage[p] = "launched" /\ stage'[p] = "starting"
                            \/ stage[p] = "starting" /\ stage'[p] = "running"
                            \/ stage[p] = "running" /\ stage'[p] = "leaving"
  OBVIOUS
<1>1. PICK q \in Pids : \/ TakeLock(q) \/ WritePid(q) \/ Crash(q) \/ Shutdown(q) \/ Exit(q)
                        \/ ReusePid(q) \/ OtherExits(q)
  BY DEF System
<1>2. CASE TakeLock(q) \/ WritePid(q) \/ Shutdown(q)
  BY <1>2 DEF TakeLock, WritePid, Shutdown, Tor, TypeOK
<1>3. CASE Dies(q)
  BY <1>3, Constants DEF Dies, Tor, TypeOK
<1>4. CASE ReusePid(q)
  BY <1>4, Constants DEF ReusePid, Alive, Tor, TypeOK
<1> QED BY <1>1, <1>2, <1>3, <1>4 DEF Crash, Exit, OtherExits

\* A pid file only changes by the tor that starts or shuts down.
LEMMA PidfilesFate ==
  ASSUME TypeOK, System, NEW n \in Nodes
  PROVE  \/ pidfile'[n] = pidfile[n]
         \/ \E p \in Pids : owner[p] = n /\ stage[p] = "starting" /\ pidfile'[n] = p
         \/ pidfile'[n] = None /\ \E p \in Pids : owner[p] = n /\ stage[p] = "running" /\ stage'[p] = "leaving"
<1>1. PICK q \in Pids : \/ TakeLock(q) \/ WritePid(q) \/ Crash(q) \/ Shutdown(q) \/ Exit(q)
                        \/ ReusePid(q) \/ OtherExits(q)
  BY DEF System
<1>2. CASE WritePid(q) \/ Shutdown(q)
  BY <1>2 DEF WritePid, Shutdown, Tor, TypeOK
<1>3. ~WritePid(q) /\ ~Shutdown(q) => pidfile' = pidfile
  BY <1>1 DEF TakeLock, Crash, Exit, ReusePid, OtherExits, files
<1> QED BY <1>1, <1>2, <1>3

\* Live tors are found, so there is one for each data directory.
LEMMA FoundIsUnique == TypeOK /\ LiveTorsAreFound => OneTorPerNode
BY DEF LiveTorsAreFound, OneTorPerNode, Tor, TypeOK

\* Where a command looks at a node, no tor of that node is without its pid file.
LEMMA NoneStartsHere ==
  ASSUME TypeOK, StageInv, pc \in Readers \union Askers
  PROVE  \A p \in Pids : owner[p] = node => stage[p] \in {"running", "leaving"}
<1>1. pc \notin {"idle", "finish", "communicate"}
  BY DEF Readers, Askers
<1>2. node \in Nodes /\ ~(node < node)
  BY Constants DEF TypeOK
<1>3. \A p \in Pids : owner[p] = node => stage[p] \notin {"none", "launched", "starting"}
  BY <1>1, <1>2 DEF StageInv, Tor
<1> QED BY <1>3 DEF TypeOK

\* And only start() meets tors without their pid files at all.
LEMMA NoneStarts ==
  ASSUME TypeOK, StageInv, pc \notin {"idle", "finish"}, ~Starting
  PROVE  \A p \in Pids : stage[p] \notin {"launched", "starting"}
BY DEF StageInv

LEMMA StageStep ==
  ASSUME TypeOK, VerbInv, StageInv, Settled, [Next]_vars
  PROVE  StageInv'
<1>t. node \in Nodes /\ (\A n \in Nodes : n \in Int) /\ \A p \in Pids : Tor(p) <=> stage[p] # "none"
  BY Constants DEF TypeOK, StageInv
<1>1. (\A p \in Pids : Tor(p) <=> stage[p] # "none")'
  <2>1. CASE System
    BY <1>t, <2>1, TorsFate
  <2>2. ASSUME NEW p \in Pids, Launch(p) PROVE (\A q \in Pids : Tor(q) <=> stage[q] # "none")'
    BY <1>t, <2>2 DEF Launch, Tor, TypeOK
  <2>3. CASE Kill
    BY <1>t, <2>3, Constants DEF Kill, Tor, TypeOK, os
  <2> QED BY <1>t, <2>1, <2>2, <2>3, WhoChanges DEF os, Tor
<1> DEFINE New(p) == stage[p] \in {"launched", "starting"}
           Behind(p) == owner[p] < node \/ (owner[p] = node /\ pc = "communicate")
<1>o. pc \notin {"idle", "finish"} => \A p \in Pids : New(p) => Starting /\ Behind(p)
  BY DEF StageInv
<1> SUFFICES ASSUME pc' \notin {"idle", "finish"}, NEW p \in Pids, New(p)'
             PROVE  (Starting /\ Behind(p))'
  BY <1>1 DEF StageInv
<1>2. CASE System \/ UNCHANGED vars
  <2>1. UNCHANGED <<pc, node>> /\ pc \notin {"idle", "finish"}
    BY <1>2 DEF System, vars
  <2>2. New(p) /\ owner'[p] = owner[p]
    BY <1>t, <1>1, <1>2, TorsFate DEF vars, os
  <2> QED BY <1>o, <2>1, <2>2 DEF Starting
<1>3. ASSUME NEW v \in Verbs, NEW ph \in Phases, Begin(v, ph) PROVE FALSE
  BY <1>t, <1>3 DEF Begin, os
<1>4. CASE Ends
  BY <1>4, EndsAnswer DEF Answer
<1>5. ASSUME NEW q \in Pids, Launch(q) PROVE (Starting /\ Behind(p))'
  <2>1. pc = "launch" /\ pc' = "communicate" /\ node' = node
    BY <1>5 DEF Launch
  <2>2. CASE p = q
    BY <1>5, <2>1, <2>2 DEF Launch, Starting, TypeOK
  <2>3. CASE p # q
    BY <1>5, <1>o, <2>1, <2>3 DEF Launch, Starting, TypeOK
  <2> QED BY <2>2, <2>3
<1>6. ASSUME Command, ~Ends, ~(\E q \in Pids : Launch(q)) PROVE (Starting /\ Behind(p))'
  <2>1. pc \notin {"idle", "finish"}
    BY <1>6 DEF Command, Ends, FindPidfile, ReadPid, GetPid, Skip, CheckStarted, Communicate,
         Look, Probe, NotRunning, FoundRunning, Kill, Poll, Report, Sleep, CheckLockfile, LookForLockfile,
         RemoveLockfile, CheckPidfile, LookForPidfile, RenamePidfile, OutOfPhase, Readers, Askers
  <2>2. New(p) /\ owner'[p] = owner[p]
    <3>1. CASE Kill
      BY <3>1 DEF Kill, TypeOK, os
    <3> QED BY <1>6, <3>1, CommandChanges DEF os
  <2>3. Starting /\ Behind(p) /\ owner[p] \in Int
    BY <1>t, <1>o, <2>1, <2>2 DEF Tor
  <2>4. pc' \in {"check", "launch"} /\ (pc = "communicate" => node' = node + 1) /\ node' \in {node, node + 1}
    BY <1>6, <2>3 DEF Command, Ends, Starting, FindPidfile, ReadPid, GetPid, Skip, CheckStarted, Communicate,
         Look, Probe, NotRunning, FoundRunning, Kill, Poll, Report, Sleep, CheckLockfile, LookForLockfile,
         RemoveLockfile, CheckPidfile, LookForPidfile, RenamePidfile, NextNode, OutOfPhase, Readers, Askers
  <2> QED BY <1>t, <2>2, <2>3, <2>4 DEF Starting
<1> QED
  BY <1>2, <1>3, <1>4, <1>5, <1>6 DEF Next, Command, Ends

-----------------------------------------------------------------------------
(* The inductive invariant, for commands that begin when each tor has its  *)
(* pid file.                                                               *)

\* What StopInv says of the clean-up: the files that it removes are nobody's.
CleaningDown == Cleaning => \A n \in Nodes : Down(n)

LEMMA LiveStep ==
  ASSUME TypeOK, StageInv, LiveTorsAreFound, CleaningDown, [Next]_vars
  PROVE  LiveTorsAreFound'
<1>0. OneTorPerNode
  BY FoundIsUnique
<1>t. node \in Nodes /\ \A p \in Pids : Tor(p) <=> stage[p] # "none"
  BY DEF TypeOK, StageInv
<1>1. ASSUME NEW q \in Pids, TakeLock(q) PROVE LiveTorsAreFound'
  <2>1. \A p \in Pids : Tor(p) /\ owner[p] = owner[q] => stage[p] \notin {"starting", "running"}
    BY <1>1, Constants DEF TakeLock, Locked, LiveTorsAreFound, Tor
  <2> QED BY <1>1, <2>1 DEF TakeLock, LiveTorsAreFound, Tor, TypeOK
<1>2. ASSUME NEW q \in Pids, WritePid(q) PROVE LiveTorsAreFound'
  BY <1>0, <1>2 DEF WritePid, LiveTorsAreFound, OneTorPerNode, Tor, TypeOK
<1>3. ASSUME NEW q \in Pids, Dies(q), UNCHANGED files PROVE LiveTorsAreFound'
  BY <1>3, Constants DEF Dies, files, LiveTorsAreFound, Tor, TypeOK
<1>4. ASSUME NEW q \in Pids, Shutdown(q) PROVE LiveTorsAreFound'
  BY <1>0, <1>4 DEF Shutdown, LiveTorsAreFound, OneTorPerNode, Tor, TypeOK
<1>5. ASSUME NEW q \in Pids, Exit(q) PROVE LiveTorsAreFound'
  BY <1>5, Constants DEF Exit, Dies, files, LiveTorsAreFound, Tor, TypeOK
<1>6. ASSUME NEW q \in Pids, ReusePid(q) PROVE LiveTorsAreFound'
  BY <1>6, Constants DEF ReusePid, files, Alive, LiveTorsAreFound, Tor, TypeOK
<1>7. CASE System
  BY <1>1, <1>2, <1>3, <1>4, <1>5, <1>6, <1>7 DEF System, Crash, OtherExits
<1>8. ASSUME NEW q \in Pids, Launch(q) PROVE LiveTorsAreFound'
  BY <1>8, <1>t DEF Launch, files, Alive, LiveTorsAreFound, Tor, TypeOK
<1>9. CASE Kill
  BY <1>9, Constants DEF Kill, files, os, LiveTorsAreFound, Tor, TypeOK
<1>10. CASE RemoveLockfile \/ RenamePidfile
  <2>1. \A p \in Pids : Tor(p) => stage[p] = "leaving"
    BY <1>10 DEF RemoveLockfile, RenamePidfile, CleaningDown, Cleaning, Down, Tor
  <2>2. UNCHANGED os
    BY <1>10 DEF RemoveLockfile, RenamePidfile
  <2> QED BY <2>1, <2>2 DEF LiveTorsAreFound, Tor, os
<1>11. CASE UNCHANGED <<os, files>>
  BY <1>11 DEF os, files, LiveTorsAreFound, Tor
<1>12. (\E p \in Pids : Launch(p)) \/ Kill => UNCHANGED files
  BY DEF Launch, Kill
<1> QED
  BY <1>7, <1>8, <1>9, <1>10, <1>11, <1>12, WhoChanges

\* The pid in the pid file of the node that a command is at is that of its only tor.
LEMMA ReadIsOwn ==
  ASSUME TypeOK, StageInv, LiveTorsAreFound, pc \in Readers \union Askers
  PROVE  \A q \in Pids : owner[q] = node /\ stage[q] # "leaving" => q = pidfile[node]
BY NoneStartsHere DEF LiveTorsAreFound, Tor, TypeOK

LEMMA HeldStep ==
  ASSUME TypeOK, CallInv, StageInv, LiveTorsAreFound, HeldInv, [Next]_vars
  PROVE  HeldInv'
<1> DEFINE Names(p) == /\ pidfile[node] \in {p, None}
                       /\ \A q \in Pids : owner[q] = node /\ stage[q] # "leaving" => q = p
<1>o. (at = "ask" => Names(asked)) /\ (Holding => Names(pid))
  BY DEF HeldInv
<1>t. node \in Nodes /\ \A p \in Pids : Tor(p) <=> stage[p] # "none"
  BY DEF TypeOK, StageInv
<1> SUFFICES (at = "ask" => Names(asked))' /\ (Holding => Names(pid))'
  BY DEF HeldInv
<1>1. CASE System
  <2>1. UNCHANGED <<pc, node, pid, at, asked>>
    BY <1>1 DEF System
  <2>2. ASSUME pc \notin {"idle", "finish"}, ~Starting \/ pc = "check", NEW p, Names(p) PROVE Names(p)'
    <3>1. \A q \in Pids : owner[q] = node => stage[q] \in {"running", "leaving"}
      BY <1>t, <2>2, Constants DEF StageInv, Starting, Tor, TypeOK
    <3>2. pidfile'[node] \in {pidfile[node], None}
      BY <1>1, <1>t, <3>1, PidfilesFate
    <3>3. \A q \in Pids : owner'[q] = node => owner[q] = node /\ (stage[q] = "leaving" => stage'[q] = "leaving")
      BY <1>1, <1>t, TorsFate DEF Tor
    <3> QED BY <2>1, <2>2, <3>2, <3>3
  <2>3. at = "ask" \/ Holding => pc \notin {"idle", "finish"} /\ (~Starting \/ pc = "check")
    BY DEF CallInv, Holding, Starting, Askers
  <2> HIDE DEF Names
  <2> QED BY <1>o, <2>1, <2>2, <2>3 DEF Holding
<1>2. CASE UNCHANGED vars
  BY <1>2, <1>o DEF vars, os, files, call, Holding
<1>3. CASE Ends
  BY <1>3, EndsAnswer DEF Answer, Returns, Holding
<1>4. ASSUME NEW v \in Verbs, NEW ph \in Phases, Begin(v, ph) PROVE at' = "exists" /\ ~Holding'
  BY <1>4 DEF Begin, CallInv, call, Holding, Verbs
<1>5. ASSUME Command, UNCHANGED <<os, files, node>>, NEW p, p = pidfile[node], pc \in Readers \union Askers
      PROVE  Names(p)'
  BY <1>5, ReadIsOwn DEF os, files
<1>6. CASE FindPidfile
  BY <1>6, <1>o DEF FindPidfile, os, files, Holding
<1>7. CASE ReadPid
  <2>1. /\ UNCHANGED <<os, files, node, pc, pid>> /\ asked' = pidfile[node] /\ Command
        /\ pc \in Readers \union Askers
    BY <1>7 DEF ReadPid, getPid, Command
  <2>2. Names(asked)'
    BY <2>1, <1>5
  <2>3. (Holding => Names(pid))'
    BY <2>1, <1>o DEF Holding, os, files
  <2> QED BY <2>2, <2>3
<1>8. CASE GetPid
  <2>1. /\ UNCHANGED <<os, files, node>> /\ asked' = pidfile[node] /\ pid' = pidfile[node] /\ Command
        /\ pc \in Readers \union Askers
    BY <1>8 DEF GetPid, getPid, Command
  <2>2. Names(asked)' /\ Names(pid)'
    BY <2>1, <1>5
  <2> QED BY <2>2
<1>9. CASE FoundRunning
  BY <1>9, <1>o DEF FoundRunning, os, files, Holding
<1>10. ASSUME CheckStarted \/ Communicate \/ Look \/ Probe \/ NotRunning \/ Kill \/ Poll \/ Report
             \/ CheckLockfile \/ CheckPidfile
      PROVE  at' = "exists" /\ ~Holding'
  <2>1. Returns
    BY <1>10 DEF CheckStarted, Communicate, Look, Probe, NotRunning, Kill, Poll, Report, CheckLockfile, CheckPidfile
  <2>2. ~Holding'
    BY <1>10 DEF CheckStarted, Communicate, Look, Probe, NotRunning, Kill, Poll, Report, CheckLockfile, CheckPidfile,
           NextNode, Signalled, AfterCleanup, Holding
  <2> QED BY <2>1, <2>2 DEF Returns
<1>11. ASSUME Skip \/ (\E p \in Pids : Launch(p)) \/ Sleep \/ LookForLockfile \/ RemoveLockfile \/ LookForPidfile \/ RenamePidfile
      PROVE  at' = "exists" /\ ~Holding'
  <2>1. at = "exists"
    BY <1>11 DEF Skip, Launch, Sleep, LookForLockfile, RemoveLockfile, LookForPidfile, RenamePidfile, CallInv, TypeOK, Readers, Askers
  <2> QED BY <1>11, <2>1 DEF Skip, Launch, Sleep, LookForLockfile, RemoveLockfile, LookForPidfile, RenamePidfile, NextNode,
           AfterCleanup, OutOfPhase, call, Holding
<1> QED
  BY <1>1, <1>2, <1>3, <1>4, <1>6, <1>7, <1>8, <1>9, <1>10, <1>11 DEF Next, Command, Ends

\* A node that looks as if it did not run has no tor but one that shuts down, and its
\* pid file names none.
LEMMA NotRunningIsDown ==
  ASSUME TypeOK, StageInv, LiveTorsAreFound, HeldInv, pc \in Readers \union Askers, isRunning(FALSE)
  PROVE  Down(node) /\ \A p \in Pids : pidfile[node] = p => ~Tor(p)
<1>1. CASE at = "exists" /\ pidfile[node] = None
  BY <1>1, ReadIsOwn, Constants DEF Down
<1>2. CASE at = "ask" /\ ~Alive(asked)
  BY <1>2, Constants DEF HeldInv, Down, Alive, Tor, TypeOK
<1> QED BY <1>1, <1>2 DEF isRunning, getPid

\* No command brings back a tor of a node that has none, but start().
LEMMA DownStays ==
  ASSUME TypeOK, StageInv, [Next]_vars, \A p \in Pids : ~Launch(p), NEW n \in Nodes, Down(n)
  PROVE  Down(n)'
<1>1. System => Down(n)'
  BY TorsFate DEF StageInv, Down, Tor
<1>2. Kill => Down(n)'
  BY Constants DEF Kill, Down, os, TypeOK
<1> QED
  BY <1>1, <1>2, WhoChanges DEF os, Down

\* What stop() knows when it is done with a node in a loop over the nodes.
LEMMA DoneWithNode ==
  ASSUME NEW step, NEW last, node \in Nodes, NextNode(step, last)
  PROVE  \/ /\ pc' = step /\ node < NumNodes /\ node' = node + 1
            /\ \A n \in Nodes : n < node' => n < node \/ n = node
         \/ /\ pc' = last /\ node = NumNodes /\ node' = 1
            /\ \A n \in Nodes : ~(n < node') /\ (n < node \/ n = node)
BY Constants DEF NextNode

\* The loops of stop(): over the nodes with a signal, over the polls, over the reports.
StopLoops ==
  /\ Signalling /\ round = 3 => \A n \in Nodes : n < node => Down(n)
  /\ pc = "poll" => \A n \in Nodes : n < node \/ round = 3 => Down(n)
  /\ Reporting /\ round = 3 => \A n \in Nodes : Down(n)

\* The clean-up, and what is left of it.
Stopped == verb = "stop" /\ (pc = "finish" \/ Answered("stop", "ok"))
StopCleaned == pc = "sleep" \/ Cleaning \/ Stopped => \A n \in Nodes : Down(n)
StopWaited == Cleaning \/ Stopped => ~(Timely /\ anyRunning /\ \E p \in Pids : Tor(p))

LEMMA StopParts == StopInv <=> StopLoops /\ StopCleaned /\ StopWaited
BY DEF StopInv, StopLoops, Stopped, StopCleaned, StopWaited

\* Done with one node: all nodes behind the loop are down, if this one is.
LEMMA StopNext ==
  ASSUME node \in Nodes, NEW step, NEW last, step # last, NextNode(step, last),
         \A n \in Nodes : n < node \/ n = node => Down(n)'
  PROVE  /\ \A n \in Nodes : n < node' => Down(n)'
         /\ pc' = last => \A n \in Nodes : Down(n)'
BY DoneWithNode

\* A step that leaves the command at the same place of the same loop.
LEMMA StopStays ==
  ASSUME StopLoops, UNCHANGED <<node, round>>, \A n \in Nodes : Down(n) => Down(n)',
         Signalling' => Signalling, pc' = "poll" => pc = "poll", Reporting' => Reporting
  PROVE  StopLoops'
BY DEF StopLoops

LEMMA StopLoopsStep ==
  ASSUME IInv, Settled, [Next]_vars
  PROVE  StopLoops'
<1> USE DEF IInv
<1>t. node \in Nodes /\ round \in 1..3
  BY DEF TypeOK
<1>o. StopLoops
  BY StopParts
<1>d. ASSUME pc # "launch", NEW n \in Nodes, Down(n) PROVE Down(n)'
  BY <1>d, DownStays DEF Launch
<1>1. CASE System \/ UNCHANGED vars
  <2>1. UNCHANGED <<pc, node, round>>
    BY <1>1 DEF System, vars, loop
  <2>2. pc = "launch" => StopLoops'
    BY <2>1 DEF StopLoops, Signalling, Reporting
  <2> QED BY <1>o, <1>d, <2>1, <2>2, StopStays DEF Signalling, Reporting
<1>2. CASE Ends
  BY <1>2, EndsAnswer DEF Answer, StopLoops, Signalling, Reporting
<1>3. ASSUME NEW v \in Verbs, NEW ph \in Phases, Begin(v, ph) PROVE StopLoops'
  <2>1. pc' \in {"check", "probe", "getpid", "look"} /\ round' = 1
    BY <1>3 DEF Begin, CallInv, Verbs
  <2> QED BY <2>1 DEF StopLoops, Reporting
<1>4. CASE FindPidfile \/ ReadPid \/ GetPid \/ FoundRunning \/ (Probe /\ pc' = "getpid")
  <2>1. /\ UNCHANGED <<node, round>> /\ pc # "launch" /\ (Signalling' => Signalling)
        /\ (pc' = "poll" => pc = "poll") /\ (Reporting' => Reporting)
    <3>1. CASE FindPidfile \/ ReadPid
      BY <3>1 DEF FindPidfile, ReadPid, Readers, Askers, Signalling, Reporting, loop
    <3>2. CASE GetPid
      BY <3>2 DEF GetPid, Readers, AsksAt, Signalling, Reporting, loop
    <3>3. CASE FoundRunning
      BY <3>3 DEF FoundRunning, Signalling, Reporting, loop
    <3>4. CASE Probe /\ pc' = "getpid"
      BY <3>4 DEF Probe, NextNode, Signalling, Reporting
    <3> QED BY <1>4, <3>1, <3>2, <3>3, <3>4
  <2> QED BY <1>o, <1>d, <2>1, StopStays
<1>5. ASSUME Skip \/ CheckStarted \/ (\E p \in Pids : Launch(p)) \/ Communicate \/ Look \/ Sleep \/ CheckLockfile
             \/ LookForLockfile \/ RemoveLockfile \/ CheckPidfile \/ LookForPidfile \/ RenamePidfile
      PROVE  StopLoops'
  <2>1. ~Signalling' /\ ~Reporting' /\ pc' # "poll"
    BY <1>5 DEF Skip, CheckStarted, Launch, Communicate, Look, Sleep, CheckLockfile, LookForLockfile,
           RemoveLockfile, CheckPidfile, LookForPidfile, RenamePidfile, NextNode, AfterCleanup, OutOfPhase,
           Signalling, Reporting
  <2> QED BY <2>1 DEF StopLoops
\* A node is dealt with.
<1>6. CASE (Probe /\ pc' # "getpid") \/ NotRunning \/ Kill
  <2>1. round' = round /\ Signalling /\ pc # "launch"
    BY <1>6 DEF Probe, NotRunning, Kill, Signalling, loop
  <2>2. round = 3 => \A n \in Nodes : n = node => Down(n)'
    <3>1. CASE Probe /\ pc' # "getpid"
      <4>1. pc \in Readers \union Askers /\ isRunning(FALSE)
        BY <3>1 DEF Probe, Askers
      <4> QED BY <1>d, <2>1, <4>1, NotRunningIsDown
    <3>2. CASE NotRunning
      <4>1. pc \in Readers \union Askers /\ isRunning(FALSE)
        BY <3>2 DEF NotRunning, Askers
      <4> QED BY <1>d, <2>1, <4>1, NotRunningIsDown
    <3>3. CASE Kill /\ round = 3
      <4>1. Signal = "SIGKILL" /\ pid \in Pids /\ pc = "kill"
        BY <3>3 DEF Kill, Signal, VerbInv, TypeOK
      <4>2. owner' = [owner EXCEPT ![pid] = None] /\ stage' = [stage EXCEPT ![pid] = "none"]
        BY <3>3, <4>1 DEF Kill
      <4>3. \A q \in Pids : owner[q] = node /\ stage[q] # "leaving" => q = pid
        BY <4>1 DEF HeldInv, Holding
      <4> QED BY <1>t, <4>1, <4>2, <4>3, Constants DEF Down, TypeOK
    <3> QED BY <1>6, <3>1, <3>2, <3>3
  <2>3. round = 3 => \A n \in Nodes : n < node \/ n = node => Down(n)'
    BY <1>o, <1>d, <2>1, <2>2 DEF StopLoops
  <2>4. NextNode("getpid", "finish") \/ NextNode("probe", "poll")
    BY <1>6 DEF Probe, NotRunning, Kill, Signalled
  <2>5. round = 3 => /\ \A n \in Nodes : n < node' => Down(n)'
                     /\ pc' = "poll" => \A n \in Nodes : Down(n)'
    BY <1>t, <2>3, <2>4, StopNext DEF NextNode
  <2>6. pc' # "poll" => StopLoops'
    BY <2>1, <2>4, <2>5 DEF NextNode, StopLoops, Signalling, Reporting
  <2>7. pc' = "poll" => node' = 1
    BY <2>4 DEF NextNode
  <2>8. pc' = "poll" => \A n \in Nodes : ~(n < node')
    BY <2>7, Constants
  <2> QED BY <2>1, <2>5, <2>6, <2>8 DEF StopLoops, Signalling, Reporting
<1>7. CASE Poll
  <2>1. CASE isRunning(FALSE) /\ NextNode("poll", "sleep") /\ UNCHANGED round
    <3>1. Down(node) /\ pc = "poll"
      BY <1>7, <2>1, <1>t, NotRunningIsDown DEF Poll, Askers
    <3>2. \A n \in Nodes : n < node \/ n = node \/ round = 3 => Down(n)'
      BY <3>1, <1>o, <1>d, <1>t DEF StopLoops
    <3>3. \A n \in Nodes : n < node' \/ round = 3 => Down(n)'
      BY <1>t, <2>1, <3>2, StopNext
    <3> QED BY <2>1, <3>3 DEF NextNode, StopLoops, Signalling, Reporting
  <2>2. CASE node' = 1 /\ pc' \in {"poll", "report"} /\ UNCHANGED round
    <3>1. \A n \in Nodes : ~(n < node')
      BY <2>2, Constants
    <3> QED BY <1>7, <2>2, <3>1, <1>o, <1>d DEF Poll, StopLoops, Signalling, Reporting
  <2> QED BY <1>7, <2>1, <2>2 DEF Poll
<1>8. CASE Report
  <2>1. CASE round = 3
    <3>1. \A n \in Nodes : Down(n)'
      BY <1>8, <1>o, <1>d, <2>1 DEF Report, StopLoops, Reporting
    <3> QED BY <3>1 DEF StopLoops
  <2>2. CASE round # 3 /\ pc' = "report"
    <3>1. node < NumNodes \/ round' = round
      BY <1>8, <2>2 DEF Report, NextNode
    <3>2. round' = round
      BY <1>8, <1>t, <3>1, Constants DEF Report
    <3> QED BY <2>2, <3>2 DEF StopLoops, Signalling
  <2>3. CASE round # 3 /\ pc' # "report"
    <3>1. pc' = "probe" /\ node' = 1
      BY <1>8, <1>t, <2>3 DEF Report, NextNode
    <3>2. \A n \in Nodes : ~(n < node')
      BY <3>1, Constants
    <3> QED BY <3>1, <3>2 DEF StopLoops, Reporting
  <2> QED BY <2>1, <2>2, <2>3
<1> QED
  BY <1>1, <1>2, <1>3, <1>4, <1>5, <1>6, <1>7, <1>8 DEF Next, Command, Ends

LEMMA StopCleanedStep ==
  ASSUME IInv, Settled, [Next]_vars
  PROVE  StopCleaned' /\ StopWaited'
<1> USE DEF IInv
<1>t. node \in Nodes /\ round \in 1..3 /\ \A p \in Pids : Tor(p) <=> stage[p] # "none"
  BY DEF TypeOK, StageInv
<1>o. StopLoops /\ StopCleaned /\ StopWaited
  BY StopParts
<1>d. ASSUME pc # "launch", NEW n \in Nodes, Down(n) PROVE Down(n)'
  BY <1>d, DownStays DEF Launch
<1>l. Stopped => pc # "launch"
  BY DEF Stopped, Answered
\* No step of the tors brings one back.
<1>1. CASE System \/ UNCHANGED vars
  <2>1. UNCHANGED <<pc, verb, result, anyRunning>>
    BY <1>1 DEF System, vars, loop
  <2>2. \A p \in Pids : Tor(p)' => Tor(p)
    BY <1>1, <1>t, TorsFate DEF vars, os, Tor
  <2> QED BY <1>o, <1>d, <1>l, <2>1, <2>2 DEF StopCleaned, StopWaited, Stopped, Cleaning, Answered
<1>2. CASE Finish
  <2>1. /\ pc = "finish" /\ pc' = "idle" /\ UNCHANGED <<os, verb, anyRunning>>
    BY <1>2 DEF Finish, Answer
  <2> QED BY <1>o, <1>d, <2>1 DEF StopCleaned, StopWaited, Stopped, Cleaning, Answered, Tor, os
<1>3. CASE Ends /\ ~Finish
  <2>1. pc' = "idle" /\ result' \in {"exception", "interrupted"}
    BY <1>3 DEF Ends, OpenRaises, AskRaises, LaunchRaises, FormatRaises, KillRaises, CleanupRaises, Interrupt, Answer
  <2> QED BY <2>1 DEF StopCleaned, StopWaited, Stopped, Cleaning, Answered
<1>4. ASSUME NEW v \in Verbs, NEW ph \in Phases, Begin(v, ph) PROVE StopCleaned' /\ StopWaited'
  BY <1>4 DEF Begin, StopCleaned, StopWaited, Stopped, Cleaning, Answered, Verbs
\* What comes before.
<1>5. ASSUME GetPid \/ Skip \/ CheckStarted \/ (\E p \in Pids : Launch(p)) \/ Communicate
             \/ Look \/ Probe \/ NotRunning \/ FoundRunning \/ Kill
      PROVE  StopCleaned' /\ StopWaited'
  <2>1. /\ pc' # "sleep" /\ ~Cleaning' /\ pc' # "idle" /\ UNCHANGED verb
        /\ pc' = "finish" => verb # "stop"
    <3>1. CASE GetPid
      BY <3>1 DEF GetPid, Readers, AsksAt, Cleaning
    <3>2. CASE Skip \/ CheckStarted \/ (\E p \in Pids : Launch(p)) \/ Communicate
      BY <3>2 DEF Skip, CheckStarted, Launch, Communicate, NextNode, OutOfPhase, Cleaning, VerbInv, Starting
    <3>3. CASE Look \/ Probe \/ NotRunning \/ FoundRunning \/ Kill
      BY <3>3 DEF Look, Probe, NotRunning, FoundRunning, Kill, NextNode, Signalled, Cleaning, VerbInv
    <3> QED BY <1>5, <3>1, <3>2, <3>3
  <2> QED BY <2>1 DEF StopCleaned, StopWaited, Stopped, Answered
<1>6. CASE Poll
  <2>1. CASE pc' = "sleep"
    <3>1. isRunning(FALSE) /\ NextNode("poll", "sleep") /\ pc = "poll"
      BY <1>6, <2>1 DEF Poll
    <3>2. Down(node)
      BY <1>t, <3>1, NotRunningIsDown DEF Askers
    <3>3. \A n \in Nodes : n < node \/ n = node => Down(n)'
      BY <1>o, <1>d, <1>t, <3>1, <3>2 DEF StopLoops
    <3>4. \A n \in Nodes : Down(n)'
      BY <1>t, <2>1, <3>1, <3>3, StopNext
    <3> QED BY <2>1, <3>4 DEF StopCleaned, StopWaited, Stopped, Cleaning, Answered
  <2> QED BY <1>6, <2>1 DEF Poll, NextNode, StopCleaned, StopWaited, Stopped, Cleaning, Answered
<1>7. CASE Report
  <2>1. CASE pc' = "sleep"
    <3>1. round = 3 /\ Reporting
      BY <1>7, <1>t, <2>1 DEF Report, NextNode, Reporting
    <3>2. \A n \in Nodes : Down(n)'
      BY <1>o, <1>d, <3>1 DEF StopLoops, Reporting
    <3> QED BY <2>1, <3>2 DEF StopCleaned, StopWaited, Stopped, Cleaning, Answered
  <2> QED BY <1>7, <2>1 DEF Report, NextNode, StopCleaned, StopWaited, Stopped, Cleaning, Answered
\* STOP_WAIT_TIME is enough for the tors that shut down, and there are no others.
<1>8. CASE Sleep
  <2>1. pc' = "lockcheck" /\ UNCHANGED <<os, anyRunning>> /\ \A n \in Nodes : Down(n)
    BY <1>8, <1>o DEF Sleep, StopCleaned, loop
  <2>2. \A p \in Pids : Tor(p) => stage[p] = "leaving"
    BY <2>1 DEF Down, Tor
  <2> QED BY <1>8, <2>1, <2>2 DEF Sleep, StopCleaned, StopWaited, Stopped, Answered, Down, Tor, os
<1>9. ASSUME FindPidfile \/ ReadPid \/ CheckLockfile \/ LookForLockfile \/ RemoveLockfile
             \/ CheckPidfile \/ LookForPidfile \/ RenamePidfile
      PROVE  StopCleaned' /\ StopWaited'
  <2>1. UNCHANGED <<os, verb, anyRunning>> /\ pc \notin {"idle", "launch", "sleep", "finish"}
    BY <1>9 DEF FindPidfile, ReadPid, CheckLockfile, LookForLockfile, RemoveLockfile, CheckPidfile, LookForPidfile, RenamePidfile,
           loop, Readers, Askers
  <2>2. Cleaning' \/ Stopped' \/ pc' = "sleep" => Cleaning
    BY <1>9, <2>1 DEF FindPidfile, ReadPid, CheckLockfile, LookForLockfile, RemoveLockfile, CheckPidfile, LookForPidfile, RenamePidfile,
           NextNode, AfterCleanup, Cleaning, Stopped, Answered
  <2> QED BY <1>o, <1>d, <2>1, <2>2 DEF StopCleaned, StopWaited, Tor, os
<1> QED
  BY <1>1, <1>2, <1>3, <1>4, <1>5, <1>6, <1>7, <1>8, <1>9 DEF Next, Command, Ends

LEMMA AskedStep ==
  ASSUME IInv, Settled, [Next]_vars
  PROVE  AskedInv'
<1> USE DEF IInv
<1> DEFINE Stopping == verb \in {"stop", "restart"}
           Busy == Stopping /\ (Signalling \/ pc = "poll" \/ Reporting)
           Once(p) == sigints[p] >= 1 /\ (round > 1 => sigints[p] = 2)
           Asked(n, p) == IF Signalling /\ n >= node THEN sigints[p] >= round - 1 ELSE Once(p)
           HeldAsked == pc \in {"signal", "kill"} /\ pid # None /\ Tor(pid) => sigints[pid] >= round - 1
<1>t. /\ node \in Nodes /\ round \in 1..3 /\ (\A n \in Nodes : n \in Int)
      /\ \A p \in Pids : sigints[p] \in 0..2 /\ (Tor(p) <=> stage[p] # "none")
  BY Constants DEF TypeOK, StageInv
<1>o. Busy => HeldAsked /\ \A n \in Nodes, p \in Pids : pidfile[n] = p /\ Tor(p) => Asked(n, p)
  BY DEF AskedInv
<1>e. ASSUME Busy' => HeldAsked' /\ \A n \in Nodes, p \in Pids : pidfile'[n] = p /\ Tor(p)' => Asked(n, p)'
      PROVE  AskedInv'
  BY <1>e DEF AskedInv
<1>1. CASE System
  <2>1. UNCHANGED <<pc, node, verb, round, pid>>
    BY <1>1 DEF System, loop
  <2>2. \A p \in Pids : Tor(p)' => Tor(p) /\ sigints'[p] = sigints[p]
    BY <1>1, <1>t, TorsFate
  <2>3. \A n \in Nodes : Busy => pidfile'[n] \in {pidfile[n], None}
    <3>1. Busy => \A p \in Pids : stage[p] # "starting"
      BY NoneStarts DEF Signalling, Reporting, Starting
    <3> QED BY <1>1, <3>1, PidfilesFate
  <2>4. pid # None => pid \in Pids
    BY DEF TypeOK
  <2>5. HeldAsked /\ Busy => HeldAsked'
    BY <2>1, <2>2, <2>4
  <2>6. \A n \in Nodes, p \in Pids : Asked(n, p) /\ Tor(p)' => Asked(n, p)'
    BY <2>1, <2>2 DEF Signalling
  <2>7. Busy' => Busy
    BY <2>1 DEF Signalling, Reporting
  <2> HIDE DEF Busy, HeldAsked, Asked
  <2> QED BY <1>o, <1>e, <2>2, <2>3, <2>5, <2>6, <2>7, Constants
<1>2. CASE UNCHANGED vars
  BY <1>2, <1>o, <1>e DEF vars, os, files, call, loop, Signalling, Reporting, Tor
<1>3. ASSUME NEW v \in Verbs, NEW ph \in Phases, Begin(v, ph) PROVE AskedInv'
  <2>1. /\ pc' \in {"check", "probe", "getpid", "look"} /\ round' = 1 /\ node' = 1 /\ UNCHANGED os
        /\ verb' \in {"stop", "restart"} => pc' # "getpid"
    BY <1>3 DEF Begin, CallInv, Verbs
  <2>2. \A p \in Pids : sigints'[p] >= round' - 1
    BY <1>t, <2>1 DEF os
  <2>3. \A n \in Nodes : n >= node'
    BY <2>1, Constants
  <2>4. pc' \notin {"signal", "kill", "poll", "report", "reporting"}
    BY <2>1
  <2> QED BY <1>e, <2>2, <2>3, <2>4 DEF Reporting
\* What comes before and after the signals.
<1>4. ASSUME Skip \/ CheckStarted \/ (\E p \in Pids : Launch(p)) \/ Communicate \/ Look \/ Sleep \/ CheckLockfile
             \/ LookForLockfile \/ RemoveLockfile \/ CheckPidfile \/ LookForPidfile \/ RenamePidfile
      PROVE  AskedInv'
  <2>1. ~Signalling' /\ ~Reporting' /\ pc' # "poll"
    BY <1>4 DEF Skip, CheckStarted, Launch, Communicate, Look, Sleep, CheckLockfile, LookForLockfile,
           RemoveLockfile, CheckPidfile, LookForPidfile, RenamePidfile, NextNode, AfterCleanup, OutOfPhase,
           Signalling, Reporting
  <2> QED BY <2>1 DEF AskedInv
<1>5. CASE Ends
  BY <1>5, EndsAnswer DEF Answer, AskedInv, Signalling, Reporting
\* A step on the way to the signal for a node.
<1>6. ASSUME UNCHANGED <<os, files, node, round, verb>>, Signalling' <=> Signalling, Reporting' => Reporting,
             pc' = "poll" => pc = "poll",
             pc' \in {"signal", "kill"} => (pid' = pid /\ pc \in {"signal", "kill"}) \/ pid' = pidfile[node]
      PROVE  AskedInv'
  <2>1. Busy' => Busy
    BY <1>6
  <2>2. \A n \in Nodes, p \in Pids : (Asked(n, p) => Asked(n, p)') /\ (Tor(p)' <=> Tor(p))
    BY <1>6 DEF os, Tor
  <2>3. Busy => HeldAsked'
    <3>1. pc' \in {"signal", "kill"} => Signalling /\ node >= node
      BY <1>t, <1>6 DEF Signalling
    <3>2. pid' = pidfile[node] /\ pid' # None => pid' \in Pids
      BY <1>t DEF TypeOK
    <3> QED BY <1>o, <1>t, <1>6, <3>1, <3>2 DEF os, Tor
  <2> QED BY <1>o, <1>e, <1>6, <2>1, <2>2, <2>3 DEF files
<1>7. CASE FindPidfile \/ ReadPid
  BY <1>6, <1>7 DEF FindPidfile, ReadPid, Signalling, Reporting, loop
<1>8. CASE GetPid
  <2>1. \/ pc = "look" /\ pc' = "looking"
        \/ pc = "report" /\ pc' = "reporting"
        \/ pc = "getpid" /\ pc' = "signal"
    BY <1>8 DEF GetPid, Readers, AsksAt
  <2> QED BY <1>6, <1>8, <2>1 DEF GetPid, getPid, Signalling, Reporting, loop
<1>9. CASE FoundRunning
  BY <1>6, <1>9 DEF FoundRunning, Signalling, Reporting, loop
<1>10. CASE Probe /\ pc' = "getpid"
  BY <1>6, <1>10 DEF Probe, NextNode, Signalling, Reporting
\* A node is dealt with.
<1>11. ASSUME verb' = verb, round' = round, pidfile' = pidfile, NextNode("probe", "poll"),
              \A n \in Nodes, p \in Pids : pidfile[n] = p /\ Tor(p)' =>
                /\ n <= node => sigints'[p] >= 1 /\ (round > 1 => sigints'[p] = 2)
                /\ n > node => sigints'[p] >= round - 1
       PROVE  AskedInv'
  <2>1. CASE node < NumNodes
    <3>1. pc' = "probe" /\ node' = node + 1
      BY <1>11, <2>1 DEF NextNode
    <3>2. \A n \in Nodes : IF n >= node' THEN n > node ELSE n <= node
      BY <1>t, <3>1
    <3>3. \A n \in Nodes, p \in Pids : pidfile'[n] = p /\ Tor(p)' => Asked(n, p)'
      BY <1>11, <3>1, <3>2 DEF Signalling
    <3> QED BY <1>e, <3>1, <3>3
  <2>2. CASE ~(node < NumNodes)
    <3>1. pc' = "poll" /\ \A n \in Nodes : n <= node
      BY <1>11, <1>t, <2>2, Constants DEF NextNode
    <3>2. \A n \in Nodes, p \in Pids : pidfile'[n] = p /\ Tor(p)' => Asked(n, p)'
      BY <1>11, <3>1 DEF Signalling
    <3> QED BY <1>e, <3>1, <3>2
  <2> QED BY <2>1, <2>2
<1>12. CASE (Probe /\ pc' # "getpid") \/ (NotRunning /\ Stopping)
  <2>1. /\ isRunning(FALSE) /\ pc \in Readers \union Askers /\ Busy /\ Signalling /\ NextNode("probe", "poll")
        /\ UNCHANGED <<os, files, verb, round>>
    <3>1. CASE Probe /\ pc' # "getpid"
      BY <3>1 DEF Probe, Askers, Signalling, VerbInv
    <3>2. CASE NotRunning /\ Stopping
      BY <3>2 DEF NotRunning, Signalled, Askers, Signalling
    <3> QED BY <1>12, <3>1, <3>2
  <2>2. \A p \in Pids : pidfile[node] = p => ~Tor(p)
    BY <2>1, NotRunningIsDown
  <2>3. \A p \in Pids : Tor(p)' <=> Tor(p)
    BY <2>1 DEF os, Tor
  <2>4. \A n \in Nodes : (n <= node => n = node \/ ~(n >= node)) /\ (n > node => n >= node)
    BY <1>t
  <2>5. \A n \in Nodes, p \in Pids : pidfile[n] = p /\ Tor(p)' =>
                /\ n <= node => sigints'[p] >= 1 /\ (round > 1 => sigints'[p] = 2)
                /\ n > node => sigints'[p] >= round - 1
    BY <1>o, <2>1, <2>2, <2>3, <2>4 DEF os
  <2> QED BY <1>11, <2>1, <2>5 DEF files
<1>13. CASE Kill /\ Stopping
  <2>1. /\ pc = "kill" /\ pid \in Pids /\ Busy /\ Signalling /\ NextNode("probe", "poll")
        /\ UNCHANGED <<files, verb, round>> /\ owner[pid] # None
    BY <1>13 DEF Kill, Signalled, Signalling, TypeOK, loop
  <2>2. pidfile[node] \in {pid, None}
    BY <2>1 DEF HeldInv, Holding
  <2>3. IF round = 3 THEN owner' = [owner EXCEPT ![pid] = None] /\ sigints' = [sigints EXCEPT ![pid] = 0]
                     ELSE UNCHANGED owner /\ sigints' = [sigints EXCEPT ![pid] = IF @ < 2 THEN @ + 1 ELSE @]
    BY <1>t, <1>13 DEF Kill, Signal, VerbInv
  <2>4. \A p \in Pids : Tor(p)' =>
          /\ Tor(p)
          /\ p # pid => sigints'[p] = sigints[p]
          /\ p = pid => round < 3 /\ sigints'[p] = IF sigints[p] < 2 THEN sigints[p] + 1 ELSE sigints[p]
    BY <1>t, <2>1, <2>3, Constants DEF Tor, TypeOK
  <2>5. ASSUME NEW n \in Nodes, NEW p \in Pids, pidfile[n] = p, Tor(p)'
        PROVE  /\ n <= node => sigints'[p] >= 1 /\ (round > 1 => sigints'[p] = 2)
               /\ n > node => sigints'[p] >= round - 1
    <3>1. Tor(p) /\ Asked(n, p) /\ sigints[p] \in 0..2 /\ HeldAsked
      BY <1>o, <1>t, <2>1, <2>4, <2>5
    <3>2. CASE p = pid
      <4>1. sigints[p] >= round - 1 /\ round < 3 /\ sigints'[p] = IF sigints[p] < 2 THEN sigints[p] + 1 ELSE sigints[p]
        BY <2>1, <2>4, <2>5, <3>1, <3>2, Constants
      <4> QED BY <1>t, <3>1, <4>1
    <3>3. CASE p # pid
      <4>1. sigints'[p] = sigints[p] /\ n # node
        BY <2>2, <2>4, <2>5, <3>3, Constants
      <4>2. n <= node => ~(n >= node)
        BY <1>t, <4>1
      <4>3. n > node => n >= node
        BY <1>t
      <4> QED BY <2>1, <3>1, <4>1, <4>2, <4>3
    <3> QED BY <3>2, <3>3
  <2> QED BY <1>11, <2>1, <2>5 DEF files
<1>14. CASE (NotRunning \/ Kill) /\ ~Stopping
  <2>1. verb' = verb
    BY <1>14 DEF NotRunning, Kill
  <2> QED BY <1>14, <2>1 DEF AskedInv
<1>15. CASE Poll
  <2>1. pc = "poll" /\ UNCHANGED <<os, files, verb, round>> /\ pc' \in {"poll", "sleep", "report"}
    BY <1>15 DEF Poll, NextNode
  <2>2. \A n \in Nodes, p \in Pids : (Asked(n, p) => Asked(n, p)') /\ (Tor(p)' <=> Tor(p))
    BY <2>1 DEF os, Tor, Signalling
  <2>3. Busy' => Busy
    BY <2>1
  <2> QED BY <1>o, <1>e, <2>1, <2>2, <2>3 DEF files
<1>16. CASE Report
  <2>1. /\ Reporting /\ ~Signalling /\ UNCHANGED <<os, files, verb>> /\ pc' \in {"report", "sleep", "probe"}
        /\ pc' = "report" => round' = round
        /\ round' = round \/ (round < 3 /\ round' = round + 1)
    BY <1>16, <1>t, Constants DEF Report, NextNode, Reporting, Signalling
  <2>2. \A p \in Pids : Once(p) => sigints[p] >= round' - 1 /\ (round' = round => Once(p)')
    BY <1>t, <2>1 DEF os
  <2>3. \A p \in Pids : sigints'[p] = sigints[p] /\ (Tor(p)' <=> Tor(p))
    BY <2>1 DEF os, Tor
  <2>4. pc' = "probe" => node' = 1
    BY <1>16, <1>t DEF Report, NextNode
  <2>5. pc' = "probe" => \A n \in Nodes : n >= node'
    BY <2>4, Constants
  <2>6. Busy' => Busy /\ pc' # "sleep"
    BY <2>1 DEF Reporting, Signalling
  <2>7. ASSUME NEW n \in Nodes, NEW p \in Pids, Busy', Once(p) PROVE Asked(n, p)'
    <3>1. CASE pc' = "probe"
      BY <2>2, <2>3, <2>5, <2>7, <3>1 DEF Signalling
    <3>2. CASE pc' = "report"
      BY <2>1, <2>2, <2>7, <3>2 DEF Signalling
    <3> QED BY <2>1, <2>6, <2>7, <3>1, <3>2
  <2> QED BY <1>o, <1>e, <2>1, <2>3, <2>6, <2>7 DEF files
<1> QED
  BY <1>1, <1>2, <1>3, <1>4, <1>5, <1>7, <1>8, <1>9, <1>10, <1>12, <1>13, <1>14, <1>15, <1>16 DEF Next, Command, Ends

LEMMA InitIInv == Init => IInv
<1> SUFFICES ASSUME Init PROVE IInv
  OBVIOUS
<1>1. TypeOK
  <2>1. TypeOfSystem
    BY DEF Init, TypeOfSystem
  <2>2. polls \in 0..(MaxPolls - 1) /\ round \in 1..3 /\ node \in Nodes
    BY Constants DEF Init
  <2>3. TypeOfCommand
    BY <2>2, Zenon DEF Init, TypeOfCommand, Verbs
  <2> QED BY <2>1, <2>3, TypeParts
<1>2. \A p \in Pids : ~Tor(p)
  BY Constants DEF Init, Tor
<1>3. LiveTorsAreFound
  BY <1>2 DEF LiveTorsAreFound
<1>4. CallInv /\ VerbInv
  BY DEF Init, CallInv, VerbInv, OutOfPhase, Reporting, Cleaning, Starting
<1>5. StageInv
  BY <1>2 DEF Init, StageInv
<1>6. HeldInv
  BY DEF Init, HeldInv, Holding
<1>7. StopInv /\ AskedInv
  BY DEF Init, StopInv, AskedInv, Signalling, Reporting, Cleaning, Answered
<1> QED BY <1>1, <1>3, <1>4, <1>5, <1>6, <1>7 DEF IInv

LEMMA NextIInv == ASSUME Settled PROVE IInv /\ [Next]_vars => IInv'
<1> SUFFICES ASSUME IInv, [Next]_vars PROVE IInv'
  OBVIOUS
<1>1. TypeOK' /\ CallInv' /\ VerbInv'
  BY TypeStep, CallStep, VerbStep DEF IInv
<1>2. LiveTorsAreFound'
  <2>1. CleaningDown
    BY DEF IInv, StopInv, CleaningDown
  <2> QED BY <2>1, LiveStep DEF IInv
<1>3. StageInv' /\ HeldInv'
  BY StageStep, HeldStep DEF IInv
<1>4. StopInv'
  <2>1. StopLoops' /\ StopCleaned' /\ StopWaited'
    BY StopLoopsStep, StopCleanedStep
  <2> QED BY <2>1 DEF StopInv, StopLoops, Stopped, StopCleaned, StopWaited
<1>5. AskedInv'
  BY AskedStep
<1> QED BY <1>1, <1>2, <1>3, <1>4, <1>5 DEF IInv

-----------------------------------------------------------------------------
\* The variables of a command stay what the code makes them, under any behaviour
\* of the tors, with or without pid reuse.
THEOREM TypeCorrect == Spec => []TypeOK
<1>1. Init => TypeOK
  BY InitIInv DEF IInv
<1>2. TypeOK /\ [Next]_vars => TypeOK'
  BY TypeStep
<1> QED BY <1>1, <1>2, PTL DEF Spec

\* The strengthening is an invariant of commands that begin when each tor has its pid
\* file or is gone.
THEOREM Inductive == ASSUME Settled PROVE Spec => []IInv
BY InitIInv, NextIInv, PTL DEF Spec

\* Run files are never moved away from under a live tor, by any interleaving of the
\* commands with starting, hanging, crashing and exiting tors, pids reused or not.
THEOREM LiveTorsFound == ASSUME Settled PROVE Spec => []LiveTorsAreFound
<1>1. IInv => LiveTorsAreFound
  BY DEF IInv
<1> QED BY <1>1, Inductive, PTL

\* No data directory is ever worked on by two tors.
THEOREM OneTor == ASSUME Settled PROVE Spec => []OneTorPerNode
<1>1. IInv => OneTorPerNode
  BY FoundIsUnique DEF IInv
<1> QED BY <1>1, Inductive, PTL

\* No command kills a tor that it has not asked twice to exit, pids reused or not.
THEOREM KillComesLast == ASSUME Settled PROVE Spec => KillIsLastResort
<1>1. ASSUME IInv, NEW p \in Pids, Kill, Tor(p), owner'[p] = None PROVE sigints[p] = 2
  <2>1. /\ owner' = owner \/ (Signal = "SIGKILL" /\ owner' = [owner EXCEPT ![pid] = None])
        /\ pc = "kill"
    BY <1>1 DEF Kill, os
  <2>2. Signal = "SIGKILL" /\ p = pid
    BY <1>1, <2>1, Constants DEF Tor, IInv, TypeOK
  <2>3. verb \in {"stop", "restart"} /\ round = 3
    BY <1>1, <2>1, <2>2 DEF Signal, IInv, TypeOK, VerbInv
  <2>4. sigints[p] >= 2
    BY <1>1, <2>1, <2>2, <2>3, Constants DEF IInv, AskedInv, Signalling
  <2> QED BY <1>1, <2>4 DEF IInv, TypeOK
<1>2. IInv /\ [Next]_vars => [\A p \in Pids : Kill /\ Tor(p) /\ owner'[p] = None => sigints[p] = 2]_vars
  BY <1>1
<1> QED BY <1>2, Inductive, PTL DEF Spec, KillIsLastResort

\* start answers True exactly if every node of its phase was found running or was
\* launched. This needs nothing of the tors or of the pids.
THEOREM StartHonest == Spec => []StartIsHonest
<1> DEFINE SInv == TypeOK /\ CallInv /\ VerbInv /\ StartInv
<1>1. Init => SInv
  <2> SUFFICES ASSUME Init PROVE SInv
    OBVIOUS
  <2>1. StartInv
    BY DEF Init, StartInv, StartIsHonest, Starting
  <2> QED BY <2>1, InitIInv DEF IInv
<1>2. SInv /\ [Next]_vars => SInv'
  BY TypeStep, CallStep, VerbStep, StartStep
<1>3. SInv => StartIsHonest
  BY DEF StartInv
<1> QED BY <1>1, <1>2, <1>3, PTL DEF Spec

-----------------------------------------------------------------------------
(* What holds beyond that as long as no pid is used again.                 *)

LEMMA OwnStep ==
  ASSUME IInv, OwnInv, Controlled, [Next]_vars
  PROVE  OwnInv'
<1> USE DEF IInv
<1> DEFINE Owns == \A n \in Nodes, p \in Pids : pidfile[n] = p /\ Alive(p) => owner[p] = n /\ stage[p] = "running"
           Known == \A p \in Pids : owner[p] \notin {Other, Foreign}
           AskOwn == at = "ask" /\ Alive(asked) => owner[asked] = node
           HoldOwn == Holding /\ pid # None /\ Alive(pid) => owner[pid] = node
<1>t. /\ node \in Nodes /\ (at = "ask" => asked \in Pids) /\ (pid # None => pid \in Pids)
      /\ \A p \in Pids : owner[p] \in Nodes \union {None}
  BY DEF TypeOK, CallInv, OwnInv
<1>o. Owns /\ Known /\ AskOwn /\ HoldOwn
  BY DEF OwnInv
<1>e. Owns' /\ Known' /\ AskOwn' /\ HoldOwn' => OwnInv'
  BY DEF OwnInv
<1>1. CASE System
  <2>1. PICK q \in Pids : \/ TakeLock(q) \/ WritePid(q) \/ Crash(q) \/ Shutdown(q) \/ Exit(q)
                          \/ ReusePid(q) \/ OtherExits(q)
    BY <1>1 DEF System
  <2>2. ~ReusePid(q) /\ ~OtherExits(q)
    BY <1>o DEF Controlled, ReusePid, OtherExits
  <2>3. \A p \in Pids : owner'[p] \in {owner[p], None}
    BY <2>1, <2>2 DEF TakeLock, WritePid, Shutdown, Crash, Exit, Dies, TypeOK
  <2>4. Owns'
    <3>1. CASE WritePid(q)
      <4>1. /\ owner[q] \in Nodes /\ stage[q] = "starting" /\ UNCHANGED owner
            /\ pidfile' = [pidfile EXCEPT ![owner[q]] = q] /\ stage' = [stage EXCEPT ![q] = "running"]
        BY <3>1 DEF WritePid, Tor
      <4>2. \A n \in Nodes : pidfile[n] # q
        BY <1>o, <4>1, Constants DEF Alive
      <4> QED BY <1>o, <4>1, <4>2 DEF Alive, TypeOK
    <3>4. CASE Shutdown(q)
      <4>1. /\ owner[q] \in Nodes /\ UNCHANGED owner
            /\ pidfile' = [pidfile EXCEPT ![owner[q]] = None] /\ stage' = [stage EXCEPT ![q] = "leaving"]
        BY <3>4 DEF Shutdown, Tor
      <4>2. \A n \in Nodes : pidfile[n] = q => n = owner[q]
        BY <1>o, <4>1, Constants DEF Alive
      <4> QED BY <1>o, <4>1, <4>2, Constants DEF Alive, TypeOK
    <3>2. CASE TakeLock(q)
      BY <1>o, <3>2 DEF TakeLock, Alive, Tor, TypeOK
    <3>3. CASE Crash(q) \/ Exit(q)
      BY <1>o, <3>3 DEF Crash, Exit, Dies, files, Alive, Tor, TypeOK
    <3> QED BY <2>1, <2>2, <3>1, <3>2, <3>3, <3>4
  <2>5. Known'
    BY <1>o, <2>3, Constants
  <2>6. UNCHANGED <<pc, node, pid, at, asked>>
    BY <1>1 DEF System
  <2>7. AskOwn' /\ HoldOwn'
    BY <1>o, <1>t, <2>3, <2>6 DEF Alive, Holding
  <2> QED BY <1>e, <2>4, <2>5, <2>7
<1>2. CASE UNCHANGED vars
  BY <1>2, <1>o, <1>e DEF vars, os, files, call, Alive, Holding
<1>3. ASSUME ~System, ~UNCHANGED vars PROVE Owns' /\ Known'
  <2>1. ASSUME NEW q \in Pids, Launch(q) PROVE Owns' /\ Known'
    BY <1>o, <1>t, <2>1, Constants DEF Launch, Controlled, files, Alive, TypeOK
  <2>2. CASE Kill
    BY <1>o, <1>t, <2>2, Constants DEF Kill, files, os, Alive, TypeOK
  <2>3. CASE UNCHANGED os
    <3>1. pidfile' = pidfile \/ pidfile' = [pidfile EXCEPT ![node] = None]
      BY <1>3, WhoChanges DEF RemoveLockfile, RenamePidfile, files
    <3>2. \A n \in Nodes, p \in Pids : pidfile'[n] = p => pidfile[n] = p
      BY <1>t, <3>1, Constants DEF TypeOK
    <3> QED BY <1>o, <2>3, <3>2 DEF os, Alive
  <2> QED BY <1>3, <2>1, <2>2, <2>3, WhoChanges
<1>4. ASSUME UNCHANGED <<os, node>>, NEW q, q = pidfile[node]
      PROVE  q # None /\ Alive(q)' => owner'[q] = node'
  BY <1>o, <1>t, <1>4, Constants DEF os, Alive, TypeOK
<1>5. ASSUME Ends PROVE AskOwn' /\ HoldOwn'
  BY <1>5, EndsAnswer DEF Answer, Returns, Holding
<1>6. ASSUME NEW v \in Verbs, NEW ph \in Phases, Begin(v, ph) PROVE at' = "exists" /\ ~Holding'
  BY <1>6 DEF Begin, CallInv, call, Holding, Verbs
<1>7. ASSUME FindPidfile \/ FoundRunning PROVE AskOwn' /\ HoldOwn'
  <2>1. UNCHANGED <<os, node, pid>> /\ at' # "ask" /\ (Holding' => Holding)
    BY <1>7 DEF FindPidfile, FoundRunning, Holding
  <2> QED BY <1>o, <2>1 DEF os, Alive
<1>8. ASSUME ReadPid PROVE AskOwn' /\ HoldOwn'
  <2>1. UNCHANGED <<os, node, pc, pid>> /\ asked' = pidfile[node] /\ asked' # None
    BY <1>8 DEF ReadPid, getPid
  <2> QED BY <1>4, <1>o, <2>1 DEF os, Alive, Holding
<1>9. ASSUME GetPid PROVE AskOwn' /\ HoldOwn'
  <2>1. UNCHANGED <<os, node>> /\ asked' = pidfile[node] /\ pid' = pidfile[node] /\ (at' = "ask" => pid' # None)
    BY <1>9 DEF GetPid, getPid, CallInv, Readers, Askers
  <2> QED BY <1>4, <2>1
<1>10. ASSUME CheckStarted \/ Communicate \/ Look \/ Probe \/ NotRunning \/ Kill \/ Poll \/ Report
             \/ CheckLockfile \/ CheckPidfile
      PROVE  at' = "exists" /\ ~Holding'
  <2>1. Returns
    BY <1>10 DEF CheckStarted, Communicate, Look, Probe, NotRunning, Kill, Poll, Report, CheckLockfile, CheckPidfile
  <2>2. ~Holding'
    BY <1>10 DEF CheckStarted, Communicate, Look, Probe, NotRunning, Kill, Poll, Report, CheckLockfile, CheckPidfile,
           NextNode, Signalled, AfterCleanup, Holding
  <2> QED BY <2>1, <2>2 DEF Returns
<1>11. ASSUME Skip \/ (\E p \in Pids : Launch(p)) \/ Sleep \/ LookForLockfile \/ RemoveLockfile \/ LookForPidfile \/ RenamePidfile
      PROVE  at' = "exists" /\ ~Holding'
  <2>1. at = "exists"
    BY <1>11 DEF Skip, Launch, Sleep, LookForLockfile, RemoveLockfile, LookForPidfile, RenamePidfile, CallInv, TypeOK, Readers, Askers
  <2> QED BY <1>11, <2>1 DEF Skip, Launch, Sleep, LookForLockfile, RemoveLockfile, LookForPidfile, RenamePidfile, NextNode,
           AfterCleanup, OutOfPhase, call, Holding
<1> HIDE DEF Owns, Known
<1>12. ~System /\ ~UNCHANGED vars => AskOwn' /\ HoldOwn'
  BY <1>5, <1>6, <1>7, <1>8, <1>9, <1>10, <1>11 DEF Next, Command, Ends
<1> QED
  BY <1>1, <1>2, <1>3, <1>12, <1>e

\* Once all tors are gone or leaving, nobody but the command adds or names a file.
LEMMA QuietWhenDown ==
  ASSUME TypeOK, StageInv, System, \A n \in Nodes : Down(n)
  PROVE  pidfile' = pidfile /\ \A n \in Nodes : lockfile[n] = None => lockfile'[n] = None
<1>1. PICK q \in Pids : \/ TakeLock(q) \/ WritePid(q) \/ Crash(q) \/ Shutdown(q) \/ Exit(q)
                        \/ ReusePid(q) \/ OtherExits(q)
  BY DEF System
<1>2. Tor(q) => stage[q] = "leaving"
  BY DEF Down, Tor
<1>3. ~TakeLock(q) /\ ~WritePid(q) /\ ~Shutdown(q)
  BY <1>2 DEF TakeLock, WritePid, Shutdown
<1> QED
  BY <1>1, <1>3 DEF Crash, Exit, ReusePid, OtherExits, files, TypeOK

\* A node whose tors are all leaving, and whose files are its own, does not run.
LEMMA DownIsNotRunning ==
  ASSUME IInv, CInv, Cleaning, isRunning(TRUE)
  PROVE  FALSE
BY DEF CInv, CleanedInv, isRunning

LEMMA CleanedStep ==
  ASSUME IInv, CInv, Controlled, [Next]_vars
  PROVE  CleanedInv'
<1> USE DEF IInv
<1>t. node \in Nodes /\ (\A n \in Nodes : n \in Int) /\ pidfile \in [Nodes -> Pids \union {None}] /\ lockfile \in [Nodes -> Pids \union {None}]
  BY Constants DEF TypeOK
<1> DEFINE Late == pc \in {"pidcheck", "pidexists", "mvpid"}
           NoneAlive == Cleaning /\ at = "ask" => ~Alive(asked)
           Moved == Cleaning => \A n \in Nodes : n < node => pidfile[n] = None
           Removed == Cleaning => \A n \in Nodes : n < node \/ (n = node /\ Late) => lockfile[n] = None
           NoFiles == Stopped => \A n \in Nodes : pidfile[n] = None /\ lockfile[n] = None
<1>o. NoneAlive /\ Moved /\ Removed /\ NoFiles
  BY DEF CInv, CleanedInv, Stopped
<1>e. NoneAlive' /\ Moved' /\ Removed' /\ NoFiles' => CleanedInv'
  BY DEF CleanedInv, Stopped
<1>n. ~Cleaning' /\ ~Stopped' => CleanedInv'
  BY DEF CleanedInv, Stopped
<1>d. Cleaning \/ Stopped => \A n \in Nodes : Down(n)
  BY StopParts DEF StopCleaned
<1>1. CASE System
  <2>1. UNCHANGED <<pc, verb, result, node, at, asked>>
    BY <1>1 DEF System
  <2>2. Cleaning \/ Stopped => pidfile' = pidfile /\ \A n \in Nodes : lockfile[n] = None => lockfile'[n] = None
    BY <1>1, <1>d, QuietWhenDown
  <2>3. at = "ask" => asked \in Pids
    BY DEF TypeOK, CallInv
  <2>4. \A p \in Pids : Alive(p)' => Alive(p)
    <3>1. OwnInv'
      BY OwnStep DEF CInv
    <3>2. \A p \in Pids : Alive(p)' => Tor(p)'
      BY <3>1, TypeStep DEF OwnInv, Alive, Tor, TypeOK
    <3>3. \A p \in Pids : Tor(p)' => Tor(p)
      BY <1>1, TorsFate DEF StageInv
    <3> QED BY <3>2, <3>3, Constants DEF Alive, Tor
  <2> QED BY <1>o, <1>e, <2>1, <2>2, <2>3, <2>4 DEF Cleaning, Stopped, Answered
<1>2. CASE UNCHANGED vars
  BY <1>2, <1>o, <1>e DEF vars, os, files, call, Cleaning, Stopped, Answered, Alive
<1>3. CASE Finish
  <2>1. /\ pc = "finish" /\ pc' = "idle" /\ UNCHANGED <<os, files, verb, anyRunning>>
    BY <1>3 DEF Finish, Answer
  <2> QED BY <1>o, <1>e, <2>1 DEF Stopped, Cleaning, Answered, files
<1>4. CASE Ends /\ ~Finish
  <2>1. pc' = "idle" /\ result' \in {"exception", "interrupted"}
    BY <1>4 DEF Ends, OpenRaises, AskRaises, LaunchRaises, FormatRaises, KillRaises, CleanupRaises, Interrupt, Answer
  <2> QED BY <1>n, <2>1 DEF Stopped, Cleaning, Answered
<1>5. ASSUME NEW v \in Verbs, NEW ph \in Phases, Begin(v, ph) PROVE CleanedInv'
  BY <1>5, <1>n DEF Begin, Stopped, Cleaning, Answered, Verbs
\* What comes before.
<1>6. ASSUME GetPid \/ Skip \/ CheckStarted \/ (\E p \in Pids : Launch(p)) \/ Communicate
             \/ Look \/ Probe \/ NotRunning \/ FoundRunning \/ Kill \/ Poll \/ Report
      PROVE  CleanedInv'
  <2>1. ~Cleaning' /\ pc' # "idle" /\ (pc' = "finish" => verb' # "stop")
    <3>1. CASE GetPid
      BY <3>1 DEF GetPid, Readers, AsksAt, Cleaning
    <3>2. CASE Skip \/ CheckStarted \/ (\E p \in Pids : Launch(p)) \/ Communicate
      BY <3>2 DEF Skip, CheckStarted, Launch, Communicate, NextNode, OutOfPhase, Cleaning, VerbInv, Starting
    <3>3. CASE Look \/ Probe \/ NotRunning \/ FoundRunning \/ Kill \/ Poll \/ Report
      BY <3>3 DEF Look, Probe, NotRunning, FoundRunning, Kill, Poll, Report, NextNode, Signalled, Cleaning, VerbInv
    <3> QED BY <1>6, <3>1, <3>2, <3>3
  <2> QED BY <1>n, <2>1 DEF Stopped, Answered
<1>7. CASE Sleep
  <2>1. pc' = "lockcheck" /\ node' = 1 /\ at' = "exists"
    BY <1>7 DEF Sleep, CallInv, TypeOK, Readers, Askers, call
  <2>2. \A n \in Nodes : ~(n < node')
    BY <2>1, Constants
  <2> QED BY <1>e, <2>1, <2>2 DEF Stopped, Answered
<1>8. CASE (FindPidfile \/ ReadPid) /\ ~Cleaning
  <2>1. pc' = pc /\ pc \in Readers \union Askers
    BY <1>8 DEF FindPidfile, ReadPid
  <2> QED BY <1>8, <1>n, <2>1 DEF Cleaning, Stopped, Answered, Readers, Askers
\* The pid that is read is that of no live process: the node has none that has its pid file.
<1>9. CASE (FindPidfile \/ ReadPid) /\ Cleaning
  <2>1. /\ UNCHANGED <<pc, node, os, files>> /\ pc \in Askers
        /\ at' # "ask" \/ (at' = "ask" /\ asked' = pidfile[node])
    BY <1>9 DEF FindPidfile, ReadPid, Cleaning, getPid, Readers, Askers
  <2>2. at' = "ask" => ~Alive(asked')
    BY <1>9, <1>d, <1>t, <2>1 DEF CInv, OwnInv, Down, Alive, FindPidfile, ReadPid, getPid
  <2>3. ~Stopped'
    BY <2>1 DEF Stopped, Answered, Askers
  <2> QED BY <1>9, <1>o, <1>e, <2>1, <2>2, <2>3 DEF Cleaning, os, files, Alive
\* A step at the same node.
<1>10. ASSUME CheckLockfile \/ LookForLockfile \/ RemoveLockfile \/ (CheckPidfile /\ pc' = "pidexists") \/ (LookForPidfile /\ pc' = "mvpid")
       PROVE  CleanedInv'
  <2>5. pc \in {"lockexists", "rmlock", "pidexists"} => at = "exists"
    BY DEF CallInv, TypeOK, Readers, Askers
  <2>1. /\ node' = node /\ Cleaning /\ Cleaning' /\ pidfile' = pidfile
        /\ pc \in {"lockexists", "rmlock", "pidexists"} \/ CheckLockfile \/ CheckPidfile
    BY <1>10 DEF CheckLockfile, LookForLockfile, RemoveLockfile, CheckPidfile, LookForPidfile, Cleaning, files, NextNode, AfterCleanup
  <2>2. at' = "exists"
    BY <1>10, <2>1, <2>5 DEF CheckLockfile, LookForLockfile, RemoveLockfile, CheckPidfile, LookForPidfile, Returns, call
  <2>3. ~Stopped'
    BY <2>1 DEF Stopped, Answered, Cleaning
  <2>4. Removed'
    <3>1. CASE CheckLockfile
      BY <3>1, <1>o, <2>1, DownIsNotRunning DEF CheckLockfile, files
    <3>2. CASE LookForLockfile
      BY <3>2, <1>o, <2>1 DEF LookForLockfile, files
    <3>3. CASE RemoveLockfile
      BY <3>3, <1>o, <1>t, <2>1 DEF RemoveLockfile
    <3>4. CASE (CheckPidfile /\ pc' = "pidexists") \/ (LookForPidfile /\ pc' = "mvpid")
      BY <3>4, <1>o, <2>1 DEF CheckPidfile, LookForPidfile, files
    <3> QED BY <1>10, <3>1, <3>2, <3>3, <3>4
  <2> QED BY <1>o, <1>e, <2>1, <2>2, <2>3, <2>4
\* Done with a node.
<1>11. CASE (LookForPidfile /\ pc' # "mvpid") \/ RenamePidfile
  <2>1. /\ pc \in {"pidexists", "mvpid"} /\ verb' = verb /\ at' = "exists"
        /\ NextNode("lockcheck", AfterCleanup) /\ lockfile' = lockfile
    BY <1>11 DEF LookForPidfile, RenamePidfile, files, call, CallInv, TypeOK, Readers, Askers
  <2>2. pidfile'[node] = None /\ \A n \in Nodes : pidfile[n] = None => pidfile'[n] = None
    BY <1>11, <1>t DEF LookForPidfile, RenamePidfile, files
  <2>3. \A n \in Nodes : n < node \/ n = node => pidfile'[n] = None /\ lockfile'[n] = None
    BY <1>o, <2>1, <2>2 DEF Cleaning
  <2>4. CASE pc' = "lockcheck"
    <3>1. \A n \in Nodes : n < node' => n < node \/ n = node
      BY <1>t, <2>1, <2>4, DoneWithNode DEF AfterCleanup
    <3> QED BY <1>e, <2>1, <2>3, <2>4, <3>1 DEF Stopped, Answered
  <2>5. CASE pc' # "lockcheck"
    <3>1. pc' \in {"check", "finish"} /\ \A n \in Nodes : n < node \/ n = node
      BY <1>t, <2>1, <2>5, DoneWithNode DEF AfterCleanup
    <3> QED BY <1>e, <2>3, <3>1 DEF Cleaning
  <2> QED BY <2>4, <2>5
<1>12. ~(CheckPidfile /\ pc' # "pidexists")
  BY DownIsNotRunning DEF CheckPidfile, Cleaning
<1> QED
  BY <1>1, <1>2, <1>3, <1>4, <1>5, <1>6, <1>7, <1>8, <1>9, <1>10, <1>11, <1>12 DEF Next, Command, Ends

LEMMA ControlledInvariance == ASSUME Controlled PROVE Spec => [](IInv /\ CInv)
<1>1. Init => IInv /\ CInv
  <2>1. Init => CInv
    BY Constants DEF Init, CInv, OwnInv, CleanedInv, Holding, Cleaning, Answered, Alive
  <2> QED BY <2>1, InitIInv
<1>2. IInv /\ CInv /\ [Next]_vars => IInv' /\ CInv'
  BY NextIInv, OwnStep, CleanedStep DEF Controlled, CInv
<1> QED BY <1>1, <1>2, PTL DEF Spec

\* After a stop that ends normally no tor of the network is left, hung or not, apart
\* from those that were shutting down before it found any running, whatever pids are
\* reused; and no pid file and no lock file is, if none is.
THEOREM StopIsComplete == ASSUME Settled PROVE Spec => []StopStopsAll
<1> DEFINE Gone == \A p \in Pids : Tor(p) => stage[p] = "leaving" /\ ~(Timely /\ anyRunning)
           Clean == \A n \in Nodes : pidfile[n] = None /\ lockfile[n] = None
<1>1. IInv /\ Answered("stop", "ok") => Gone
  BY DEF IInv, StopInv, Answered, Down, Tor
<1>2. CInv /\ Answered("stop", "ok") => Clean
  BY DEF CInv, CleanedInv, Answered
<1>3. CASE PidReuse
  <2>1. IInv => StopStopsAll
    BY <1>1, <1>3 DEF StopStopsAll
  <2> QED BY <2>1, Inductive, PTL
<1>4. CASE ~PidReuse
  <2>1. IInv /\ CInv => StopStopsAll
    BY <1>1, <1>2 DEF StopStopsAll
  <2>2. Controlled
    BY <1>4 DEF Controlled
  <2>3. Spec => [](IInv /\ CInv)
    BY <2>2, ControlledInvariance
  <2> QED BY <2>1, <2>3, PTL
<1> QED BY <1>3, <1>4

-----------------------------------------------------------------------------
(* What a command has seen (NodeHistory).                                  *)

\* How a step changes which nodes are up. (If one of two tors of a node goes down,
\* the node stays up.)
LEMMA UpStep ==
  ASSUME TypeOK, StageInv, [Next]_vars
  PROVE  \/ Up' = Up
         \/ (System \/ Kill) /\ \E n \in Up : Up' = Up \ {n}
         \/ (\E p \in Pids : Launch(p)) /\ Up' = Up \union {node}
<1> DEFINE IsUp(p, n) == owner[p] = n /\ stage[p] # "leaving"
<1>t. node \in Nodes /\ \A p \in Pids : Tor(p) <=> stage[p] # "none"
  BY DEF TypeOK, StageInv
<1>u. /\ Up = {n \in Nodes : \E p \in Pids : IsUp(p, n)}
      /\ Up' = {n \in Nodes : \E p \in Pids : IsUp(p, n)'}
  BY DEF Up
<1>1. ASSUME NEW q \in Pids,
             \A p \in Pids : p # q => owner'[p] = owner[p] /\ stage'[p] = stage[p],
             \A n \in Nodes : IsUp(q, n)' => IsUp(q, n)
      PROVE  Up' = Up \/ \E n \in Up : Up' = Up \ {n}
  <2>1. CASE \A n \in Nodes : IsUp(q, n) => IsUp(q, n)'
    <3>1. \A p \in Pids, n \in Nodes : IsUp(p, n) <=> IsUp(p, n)'
      BY <1>1, <2>1
    <3> HIDE DEF IsUp
    <3> QED BY <3>1, <1>u
  <2>2. ASSUME NEW m \in Nodes, IsUp(q, m), ~IsUp(q, m)' PROVE Up' = Up \/ Up' = Up \ {m}
    <3>1. \A n \in Nodes : n # m => ((\E p \in Pids : IsUp(p, n)') <=> (\E p \in Pids : IsUp(p, n)))
      BY <1>1, <2>2
    <3>2. \A n \in Nodes : (\E p \in Pids : IsUp(p, n)') => (\E p \in Pids : IsUp(p, n))
      BY <1>1
    <3> HIDE DEF IsUp
    <3> QED BY <1>u, <2>2, <3>1, <3>2
  <2> QED BY <2>1, <2>2, <1>u
<1>2. CASE System
  <2>1. PICK q \in Pids : \/ TakeLock(q) \/ WritePid(q) \/ Crash(q) \/ Shutdown(q) \/ Exit(q)
                          \/ ReusePid(q) \/ OtherExits(q)
    BY <1>2 DEF System
  <2>2. \A p \in Pids : p # q => owner'[p] = owner[p] /\ stage'[p] = stage[p]
    BY <2>1 DEF TakeLock, WritePid, Shutdown, Crash, Exit, ReusePid, OtherExits, Dies, TypeOK
  <2>3. \A n \in Nodes : IsUp(q, n)' => IsUp(q, n)
    BY <1>2, <1>t, TorsFate DEF Tor
  <2> QED BY <1>1, <1>2, <2>2, <2>3
<1>3. CASE Kill
  <2>1. PICK q \in Pids : q = pid
    BY <1>3 DEF Kill, TypeOK
  <2>2. \A p \in Pids : p # q => owner'[p] = owner[p] /\ stage'[p] = stage[p]
    BY <1>3, <2>1 DEF Kill, os, TypeOK
  <2>3. \A n \in Nodes : IsUp(q, n)' => IsUp(q, n)
    <3>1. (owner' = owner /\ stage' = stage) \/ owner'[q] = None
      BY <1>3, <2>1 DEF Kill, os, TypeOK
    <3> QED BY <3>1, Constants
  <2> HIDE DEF IsUp
  <2> QED BY <1>1, <1>3, <2>1, <2>2, <2>3
<1>4. ASSUME NEW q \in Pids, Launch(q) PROVE Up' = Up \union {node}
  <2>1. owner[q] = None /\ owner' = [owner EXCEPT ![q] = node] /\ stage' = [stage EXCEPT ![q] = "launched"]
    BY <1>4 DEF Launch, Alive
  <2>2. \A n \in Nodes : IsUp(q, n)' <=> n = node
    BY <2>1 DEF TypeOK
  <2>3. \A n \in Nodes : ~IsUp(q, n)
    BY <2>1, Constants
  <2>4. \A p \in Pids, n \in Nodes : p # q => (IsUp(p, n)' <=> IsUp(p, n))
    BY <2>1 DEF TypeOK
  <2> HIDE DEF IsUp
  <2> QED BY <1>t, <1>u, <2>2, <2>3, <2>4
<1>5. UNCHANGED os => Up' = Up
  BY DEF Up, os
<1> QED
  BY <1>2, <1>3, <1>4, <1>5, WhoChanges

\* What was seen is not forgotten while the command runs, and what is, is seen.
LEMMA Remembered ==
  ASSUME Remember, pc' # "idle"
  PROVE  /\ Up' \in seen' /\ seen \subseteq seen'
         /\ \A n \in Nodes : (WasUp(n) => WasUp(n)') /\ (WasDown(n) => WasDown(n)')
         /\ \A n \in Nodes : (n \in Up' => WasUp(n)') /\ (n \notin Up' => WasDown(n)')
BY DEF Remember, WasUp, WasDown, Control!WasUp, Control!WasDown

LEMMA DownIsNotUp ==
  ASSUME NEW n \in Nodes
  PROVE  Down(n) <=> n \notin Up
BY DEF Down, Up

LEMMA SeenStep ==
  ASSUME TypeOK, CallInv, StageInv, SeenInv, Settled, Remember, [Next]_vars
  PROVE  SeenInv'
<1>t. node \in Nodes /\ \A p \in Pids : Tor(p) <=> stage[p] # "none"
  BY DEF TypeOK, StageInv
<1>1. pc' = "idle" => seen' = {}
  BY DEF Remember
<1> SUFFICES ASSUME pc' # "idle", NEW p \in Pids, Tor(p)' PROVE WasUp(owner[p])'
  BY <1>1, Remembered DEF SeenInv
<1>2. ASSUME pc # "idle", Tor(p), owner'[p] = owner[p] PROVE WasUp(owner[p])'
  <2>1. WasUp(owner[p]) /\ owner[p] \in Nodes
    BY <1>2 DEF SeenInv, Tor
  <2> QED BY <1>2, <2>1, Remembered DEF WasUp, Control!WasUp
<1>3. ASSUME stage'[p] # "leaving" PROVE WasUp(owner[p])'
  <2>1. owner'[p] \in Nodes /\ owner'[p] \in Up'
    BY <1>3 DEF Up, Tor
  <2> QED BY <2>1, Remembered DEF WasUp, Control!WasUp
<1>4. CASE System
  <2>1. pc' = pc
    BY <1>4 DEF System
  <2> QED BY <1>2, <1>4, <1>t, <2>1, TorsFate
<1>5. ASSUME NEW q \in Pids, Launch(q) PROVE WasUp(owner[p])'
  <2>1. pc # "idle"
    BY <1>5 DEF Launch
  <2>2. CASE p = q
    BY <1>3, <1>5, <2>2 DEF Launch, TypeOK
  <2>3. CASE p # q
    BY <1>2, <1>5, <2>1, <2>3 DEF Launch, Tor, TypeOK
  <2> QED BY <2>2, <2>3
<1>6. CASE Kill
  <2>1. pc # "idle"
    BY <1>6 DEF Kill
  <2>2. Tor(p) /\ owner'[p] = owner[p]
    BY <1>6, Constants DEF Kill, os, Tor, TypeOK
  <2> QED BY <1>2, <2>1, <2>2
<1>7. ASSUME NEW v \in Verbs, NEW ph \in Phases, Begin(v, ph) PROVE WasUp(owner[p])'
  BY <1>3, <1>7 DEF Begin, os, Tor
<1>8. CASE UNCHANGED os /\ pc # "idle"
  BY <1>2, <1>8 DEF os, Tor
<1>9. pc = "idle" => System \/ UNCHANGED vars \/ \E v \in Verbs, ph \in Phases : Begin(v, ph)
  BY DEF Next, Interrupt, Command, FindPidfile, OpenRaises, ReadPid, GetPid, AskRaises, Skip, CheckStarted, Launch,
         LaunchRaises, Communicate, Look, FormatRaises, Probe, NotRunning, FoundRunning, Kill, KillRaises, Poll, Report,
         Sleep, CheckLockfile, LookForLockfile, RemoveLockfile, CheckPidfile, LookForPidfile, RenamePidfile,
         CleanupRaises, Finish, Readers, Askers, OutOfPhase, CallInv
<1>10. UNCHANGED vars => pc' = pc
  BY DEF vars
<1> QED
  BY <1>4, <1>5, <1>6, <1>7, <1>8, <1>9, <1>10, WhoChanges

\* What isRunning tells the command: it was so, be it for a tor that shuts down by now.
LEMMA Learnt ==
  ASSUME IInv, CInv, SeenInv, pc \in Readers \union Askers
  PROVE  /\ isRunning(TRUE) => WasUp(node)
         /\ isRunning(FALSE) => node \notin Up /\ WasDown(node)
<1> USE DEF IInv
<1>t. node \in Nodes /\ pc # "idle"
  BY DEF TypeOK, Readers, Askers
<1>1. ASSUME isRunning(TRUE) PROVE WasUp(node)
  <2>1. at = "ask" /\ Alive(asked) /\ asked \in Pids
    BY <1>1 DEF isRunning, CallInv, TypeOK
  <2>2. owner[asked] = node
    BY <2>1 DEF CInv, OwnInv
  <2> QED BY <1>t, <2>1, <2>2 DEF SeenInv, Tor
<1>2. ASSUME isRunning(FALSE) PROVE node \notin Up /\ WasDown(node)
  <2>1. node \notin Up
    BY <1>t, <1>2, NotRunningIsDown, DownIsNotUp
  <2> QED BY <1>t, <2>1 DEF SeenInv, WasDown, Control!WasDown
<1> QED BY <1>1, <1>2

LEMMA RestartStep ==
  ASSUME IInv, SeenInv, RestartInv, Settled, Remember, [Next]_vars
  PROVE  RestartInv'
<1> USE DEF IInv
<1>1. (verb = "stop" => ok)'
  <2>1. ASSUME NEW v \in Verbs, NEW ph \in Phases, Begin(v, ph) PROVE ok'
    BY <2>1 DEF Begin, CallInv
  <2>2. CASE UNCHANGED <<verb, ok>>
    BY <2>2 DEF RestartInv
  <2>3. CASE Communicate \/ Look
    BY <2>3 DEF Communicate, Look, VerbInv, Starting
  <2>4. CASE NotRunning
    BY <2>4 DEF NotRunning, RestartInv
  <2>5. CASE Ends
    BY <2>5, EndsAnswer DEF Answer
  <2>6. \/ \E v \in Verbs, ph \in Phases : Begin(v, ph)
        \/ UNCHANGED <<verb, ok>> \/ Communicate \/ Look \/ NotRunning \/ Ends
    BY DEF Next, System, Command, Ends, FindPidfile, ReadPid, GetPid, Skip, CheckStarted, Launch, Probe, FoundRunning, Kill,
           Poll, Report, Sleep, CheckLockfile, LookForLockfile, RemoveLockfile, CheckPidfile, LookForPidfile, RenamePidfile,
           vars, loop
  <2> QED BY <2>1, <2>2, <2>3, <2>4, <2>5, <2>6
<1>2. (verb = "restart" /\ (Starting \/ pc = "finish") => {} \in seen)'
  <2> SUFFICES ASSUME verb' = "restart", (Starting \/ pc = "finish")' PROVE {} \in seen'
    OBVIOUS
  <2>1. seen \subseteq seen' /\ pc' # "idle"
    BY Remembered DEF Starting
  <2>2. verb = "restart" /\ (Starting \/ pc = "finish" \/ Cleaning)
    <3>1. CASE System \/ UNCHANGED vars
      BY <3>1 DEF System, vars, Starting
    <3>2. ASSUME NEW v \in Verbs, NEW ph \in Phases, Begin(v, ph) PROVE FALSE
      BY <3>2 DEF Begin, Starting
    <3>3. CASE FindPidfile \/ ReadPid \/ GetPid
      BY <3>3 DEF FindPidfile, ReadPid, GetPid, Starting, Readers, AsksAt
    <3>4. CASE Skip \/ CheckStarted \/ (\E p \in Pids : Launch(p)) \/ Communicate
      BY <3>4 DEF Skip, CheckStarted, Launch, Communicate, OutOfPhase, Starting, VerbInv
    <3>5. CASE Look \/ Probe \/ NotRunning \/ FoundRunning \/ Kill \/ Poll \/ Report \/ Sleep
      BY <3>5 DEF Look, Probe, NotRunning, FoundRunning, Kill, Poll, Report, Sleep, NextNode, Signalled, Starting, VerbInv
    <3>6. CASE CheckLockfile \/ LookForLockfile \/ RemoveLockfile \/ CheckPidfile \/ LookForPidfile \/ RenamePidfile
      BY <3>6 DEF CheckLockfile, LookForLockfile, RemoveLockfile, CheckPidfile, LookForPidfile, RenamePidfile, Cleaning
    <3>7. ~Ends
      BY <2>1, EndsAnswer DEF Answer
    <3> QED BY <3>1, <3>2, <3>3, <3>4, <3>5, <3>6, <3>7 DEF Next, Command, Ends
  <2>3. CASE Cleaning
    <3>1. \A n \in Nodes : Down(n)
      BY <2>3 DEF StopInv
    <3>2. Up = {}
      BY <3>1 DEF Up, Down
    <3> QED BY <2>1, <2>3, <3>2 DEF SeenInv, Cleaning
  <2> QED BY <2>1, <2>2, <2>3 DEF RestartInv
<1> QED BY <1>1, <1>2 DEF RestartInv

\* The only steps that make a command be at one of these.
LEMMA WhereFrom ==
  ASSUME TypeOK, CallInv, [Next]_vars
  PROVE  /\ pc' = "kill" => ((System \/ UNCHANGED vars) /\ pc = "kill") \/ FoundRunning
         /\ pc' = "launch" => ((System \/ UNCHANGED vars) /\ pc = "launch") \/ (CheckStarted /\ isRunning(FALSE) /\ node' = node)
         /\ pc' = "communicate" => ((System \/ UNCHANGED vars) /\ pc = "communicate") \/ \E p \in Pids : Launch(p)
         /\ at' = "open" => ((System \/ UNCHANGED vars) /\ at = "open") \/ FindPidfile
         /\ pc' = "rmlock" => ((System \/ UNCHANGED vars) /\ pc = "rmlock") \/ LookForLockfile
         /\ pc' = "mvpid" => ((System \/ UNCHANGED vars) /\ pc = "mvpid") \/ LookForPidfile
<1> DEFINE Quiet == pc' \notin {"kill", "launch", "communicate", "rmlock", "mvpid"} /\ at' # "open"
<1>1. CASE System \/ UNCHANGED vars
  <2>1. UNCHANGED <<pc, at>>
    BY <1>1 DEF System, vars, call
  <2> QED BY <1>1, <2>1
<1>2. CASE FindPidfile \/ FoundRunning \/ LookForLockfile \/ LookForPidfile \/ (CheckStarted /\ pc' = "launch") \/ \E p \in Pids : Launch(p)
  <2>1. pc \in {"lockexists", "pidexists", "launch"} => at = "exists"
    BY DEF CallInv, TypeOK, Readers, Askers
  <2>2. FindPidfile => pc' = pc /\ pc \in Readers \union Askers
    BY DEF FindPidfile
  <2>3. FoundRunning => pc' = "kill" /\ at' = "exists"
    BY DEF FoundRunning
  <2>4. LookForLockfile => pc' \in {"rmlock", "pidcheck"} /\ at' = "exists"
    BY <2>1 DEF LookForLockfile, call
  <2>5. LookForPidfile => pc' \notin {"kill", "launch", "communicate", "rmlock"} /\ at' = "exists"
    BY <2>1 DEF LookForPidfile, call, NextNode, AfterCleanup
  <2>6. CheckStarted /\ pc' = "launch" => isRunning(FALSE) /\ node' = node /\ at' = "exists"
    BY DEF CheckStarted, Returns, NextNode
  <2>7. ASSUME NEW p \in Pids, Launch(p) PROVE pc' = "communicate" /\ at' = "exists"
    BY <2>1, <2>7 DEF Launch
  <2> QED BY <1>2, <2>2, <2>3, <2>4, <2>5, <2>6, <2>7 DEF Readers, Askers
<1>3. CASE Ends
  <2>1. Quiet
    BY <1>3, EndsAnswer DEF Answer, Returns
  <2> QED BY <2>1
<1>4. ASSUME NEW v \in Verbs, NEW ph \in Phases, Begin(v, ph) PROVE Quiet
  BY <1>4 DEF Begin, CallInv, call, Verbs
<1>5. ASSUME ReadPid \/ GetPid PROVE Quiet
  <2>1. CASE ReadPid
    BY <2>1 DEF ReadPid, Askers
  <2>2. CASE GetPid
    BY <2>2 DEF GetPid, Readers, AsksAt
  <2> QED BY <1>5, <2>1, <2>2
<1>6. ASSUME (CheckStarted /\ pc' # "launch") \/ Communicate \/ Look \/ Probe \/ NotRunning \/ Kill \/ Poll \/ Report
             \/ CheckLockfile \/ CheckPidfile
      PROVE  Quiet
  <2>1. Returns
    BY <1>6 DEF CheckStarted, Communicate, Look, Probe, NotRunning, Kill, Poll, Report, CheckLockfile, CheckPidfile
  <2>2. pc' \notin {"kill", "launch", "communicate", "rmlock", "mvpid"}
    BY <1>6 DEF CheckStarted, Communicate, Look, Probe, NotRunning, Kill, Poll, Report, CheckLockfile, CheckPidfile,
           NextNode, Signalled, AfterCleanup
  <2> QED BY <2>1, <2>2 DEF Returns
<1>7. ASSUME Skip \/ Sleep \/ RemoveLockfile \/ RenamePidfile PROVE Quiet
  <2>1. at = "exists"
    BY <1>7 DEF Skip, Sleep, RemoveLockfile, RenamePidfile, CallInv, TypeOK, Readers, Askers
  <2> QED BY <1>7, <2>1 DEF Skip, Sleep, RemoveLockfile, RenamePidfile, NextNode, AfterCleanup, OutOfPhase, call
<1> QED
  BY <1>1, <1>2, <1>3, <1>4, <1>5, <1>6, <1>7 DEF Next, Command, Ends

\* A file that a command has found, and that has gone, took its tor along.
LEMMA FileStep ==
  ASSUME IInv, SeenInv, Settled, Remember, System, pc # "idle", NEW n \in Nodes
  PROVE  /\ pidfile[n] # None /\ pidfile'[n] = None /\ n = node /\ pc \in Readers \union Askers =>
              WasUp(n)' /\ n \notin Up'
         /\ lockfile[n] # None /\ lockfile'[n] = None /\ Down(n) => WasUp(n)' /\ n \notin Up'
         /\ Lost(n) => Lost(n)'
<1> USE DEF IInv
<1>t. (\A p \in Pids : Tor(p) <=> stage[p] # "none") /\ pc' # "idle" /\ \A p \in Pids : ~Launch(p)
  BY DEF StageInv, System, Launch
<1>w. WasUp(n) => WasUp(n)'
  BY <1>t, Remembered
<1>s. [Next]_vars
  BY DEF Next
<1>d. Down(n) => n \notin Up'
  <2>1. Down(n) => Down(n)'
    BY <1>t, <1>s, DownStays
  <2>2. Down(n)' => n \notin Up'
    BY DEF Down, Up
  <2> QED BY <2>1, <2>2
<1>1. ASSUME pidfile[n] # None, pidfile'[n] = None, n = node, pc \in Readers \union Askers
      PROVE  WasUp(n)' /\ n \notin Up'
  <2>1. PICK p \in Pids : owner[p] = n /\ stage[p] = "running" /\ stage'[p] = "leaving"
    BY <1>1, PidfilesFate, Constants
  <2>2. \A q \in Pids : owner[q] = n /\ stage[q] # "leaving" => q = p
    BY <1>1, <2>1, ReadIsOwn
  <2>3. \A q \in Pids : owner'[q] = n => owner[q] = n /\ (stage[q] = "leaving" => stage'[q] = "leaving")
    BY <1>t, TorsFate DEF Tor
  <2>4. n \notin Up'
    BY <2>1, <2>2, <2>3 DEF Up
  <2>5. WasUp(n)
    BY <2>1 DEF SeenInv, Tor
  <2> QED BY <1>w, <2>4, <2>5
<1>2. ASSUME lockfile[n] # None, lockfile'[n] = None, Down(n) PROVE WasUp(n)' /\ n \notin Up'
  <2>1. PICK q \in Pids : \/ TakeLock(q) \/ WritePid(q) \/ Crash(q) \/ Shutdown(q) \/ Exit(q)
                          \/ ReusePid(q) \/ OtherExits(q)
    BY DEF System
  <2>2. Exit(q) /\ owner[q] = n
    BY <1>2, <2>1, Constants DEF TakeLock, WritePid, Crash, Shutdown, Exit, ReusePid, OtherExits, files, Tor, TypeOK
  <2>3. WasUp(n)
    BY <2>2 DEF SeenInv, Exit, Tor
  <2> QED BY <1>2, <1>w, <1>d, <2>3
<1>3. Lost(n) => Lost(n)'
  BY <1>w, <1>d, DownIsNotUp DEF Lost
<1> QED BY <1>1, <1>2, <1>3

LEMMA NodeStep ==
  ASSUME IInv, CInv, SeenInv, NodeInv, Controlled, Remember, [Next]_vars
  PROVE  NodeInv'
<1> USE DEF IInv
<1>t. Settled /\ node \in Nodes
  BY DEF Controlled, TypeOK
<1>1. (pc = "kill" => WasUp(node))'
  <2> SUFFICES ASSUME pc' = "kill" PROVE WasUp(node)'
    OBVIOUS
  <2>1. node' = node /\ WasUp(node)
    <3>1. CASE (System \/ UNCHANGED vars) /\ pc = "kill"
      BY <3>1 DEF System, vars, NodeInv
    <3>2. CASE FoundRunning
      <4>1. pc = "signal" /\ isRunning(TRUE) /\ node' = node
        BY <3>2 DEF FoundRunning
      <4> QED BY <4>1, Learnt DEF Askers
    <3> QED BY <3>1, <3>2, WhereFrom
  <2> QED BY <1>t, <2>1, Remembered DEF WasUp, Control!WasUp
<1>2. (pc = "launch" => node \notin Up)'
  <2> SUFFICES ASSUME pc' = "launch" PROVE node' \notin Up'
    OBVIOUS
  <2>1. node' = node /\ node \notin Up /\ \A p \in Pids : ~Launch(p)
    <3>1. CASE (System \/ UNCHANGED vars) /\ pc = "launch"
      BY <3>1 DEF System, vars, NodeInv, Launch
    <3>2. CASE CheckStarted /\ isRunning(FALSE) /\ node' = node
      BY <3>2, Learnt DEF CheckStarted, Askers, Launch
    <3> QED BY <3>1, <3>2, WhereFrom
  <2> QED BY <2>1, UpStep
<1>3. (pc = "communicate" => WasUp(node) /\ WasDown(node))'
  <2> SUFFICES ASSUME pc' = "communicate" PROVE WasUp(node)' /\ WasDown(node)'
    OBVIOUS
  <2>1. CASE (System \/ UNCHANGED vars) /\ pc = "communicate"
    <3>1. node' = node /\ WasUp(node) /\ WasDown(node)
      BY <2>1 DEF System, vars, NodeInv
    <3> QED BY <1>t, <3>1, Remembered DEF WasUp, WasDown, Control!WasUp, Control!WasDown
  <2>2. ASSUME NEW p \in Pids, Launch(p) PROVE WasUp(node)' /\ WasDown(node)'
    <3>1. node' = node /\ node \notin Up /\ Up \in seen
      BY <2>2 DEF Launch, NodeInv, SeenInv
    <3>2. node \in Up'
      BY <1>t, <2>2 DEF Launch, Up, TypeOK
    <3> QED BY <1>t, <3>1, <3>2, Remembered DEF WasUp, WasDown, Control!WasUp, Control!WasDown
  <2> QED BY <2>1, <2>2, WhereFrom
<1>s. ASSUME UNCHANGED vars, Lost(node), pc' # "idle" PROVE Lost(node)'
  <2>1. node' = node /\ Up' = Up
    BY <1>s DEF vars, os, Up
  <2> QED BY <1>s, <1>t, <2>1, Remembered DEF Lost, WasUp, Control!WasUp
<1>4. (at = "open" => pidfile[node] # None \/ Lost(node))'
  <2> SUFFICES ASSUME at' = "open", pidfile'[node'] = None PROVE Lost(node)'
    OBVIOUS
  <2>0. pc' # "idle"
    BY CallStep DEF CallInv, Readers, Askers
  <2>1. CASE System /\ at = "open"
    <3>1. node' = node /\ pc \in Readers \union Askers /\ pc # "idle" /\ (pidfile[node] # None \/ Lost(node))
      BY <2>1 DEF System, CallInv, NodeInv, Readers, Askers
    <3> QED BY <1>t, <2>1, <3>1, FileStep DEF Lost, WasUp, Control!WasUp
  <2>2. CASE UNCHANGED vars /\ at = "open"
    BY <1>s, <2>0, <2>2 DEF vars, files, NodeInv
  <2>3. ~FindPidfile
    BY DEF FindPidfile, getPid, files
  <2> QED BY <2>1, <2>2, <2>3, WhereFrom
<1>5. (pc = "rmlock" => lockfile[node] # None \/ Lost(node))'
  <2> SUFFICES ASSUME pc' = "rmlock", lockfile'[node'] = None PROVE Lost(node)'
    OBVIOUS
  <2>1. CASE System /\ pc = "rmlock"
    <3>1. node' = node /\ pc # "idle" /\ (lockfile[node] # None \/ Lost(node)) /\ Down(node)
      BY <1>t, <2>1 DEF System, NodeInv, StopInv, Cleaning
    <3> QED BY <1>t, <2>1, <3>1, FileStep DEF Lost, WasUp, Control!WasUp
  <2>2. CASE UNCHANGED vars /\ pc = "rmlock"
    BY <1>s, <2>2 DEF vars, files, NodeInv
  <2>3. ~LookForLockfile
    BY DEF LookForLockfile, files
  <2> QED BY <2>1, <2>2, <2>3, WhereFrom
<1>6. (pc = "mvpid" => pidfile[node] # None)'
  <2> SUFFICES ASSUME pc' = "mvpid" PROVE pidfile'[node'] # None
    OBVIOUS
  <2>1. CASE System /\ pc = "mvpid"
    <3>1. \A n \in Nodes : Down(n)
      BY <2>1 DEF StopInv, Cleaning
    <3>2. pidfile' = pidfile
      BY <2>1, <3>1, QuietWhenDown
    <3> QED BY <2>1, <3>2 DEF System, NodeInv
  <2>2. CASE UNCHANGED vars /\ pc = "mvpid"
    BY <2>2 DEF vars, files, NodeInv
  <2>3. CASE LookForPidfile
    BY <2>3 DEF LookForPidfile, files, NextNode, AfterCleanup
  <2> QED BY <2>1, <2>2, <2>3, WhereFrom
<1> QED BY <1>1, <1>2, <1>3, <1>4, <1>5, <1>6 DEF NodeInv

LEMMA PhaseStep ==
  ASSUME IInv, CInv, StartInv, SeenInv, PhaseInv, NodeInv, Remember, [Next]_vars
  PROVE  PhaseInv'
<1> USE DEF IInv
<1>t. node \in Nodes /\ ok \in BOOLEAN
  BY DEF TypeOK
<1> DEFINE Goal == /\ ok' => \A n \in Passed' : WasUp(n)'
                   /\ ~ok' => \E n \in Nodes : LaunchPhase[n] = phase' /\ WasDown(n)'
<1>l. pc' = "looking" => LaunchPhase[node'] = phase'
  <2>1. CASE System \/ UNCHANGED vars
    <3>1. UNCHANGED <<phase, node, pc>>
      BY <2>1 DEF System, vars
    <3> QED BY <3>1 DEF PhaseInv, VerbInv
  <2>2. CASE FindPidfile \/ ReadPid
    <3>1. UNCHANGED <<phase, node, pc>>
      BY <2>2 DEF FindPidfile, ReadPid
    <3> QED BY <3>1 DEF PhaseInv, VerbInv
  <2>3. CASE GetPid
    BY <2>3 DEF GetPid, Readers, AsksAt, OutOfPhase
  <2>4. CASE Ends
    BY <2>4, EndsAnswer DEF Answer
  <2>5. Skip \/ CheckStarted \/ (\E p \in Pids : Launch(p)) \/ Communicate \/ Look \/ Probe \/ NotRunning \/ FoundRunning
        => pc' # "looking"
    BY DEF Skip, CheckStarted, Launch, Communicate, Look, Probe, NotRunning, FoundRunning, NextNode, Signalled, OutOfPhase
  <2>6. Kill \/ Poll \/ Report \/ Sleep \/ CheckLockfile \/ LookForLockfile \/ RemoveLockfile \/ CheckPidfile
        \/ LookForPidfile \/ RenamePidfile => pc' # "looking"
    BY DEF Kill, Poll, Report, Sleep, CheckLockfile, LookForLockfile, RemoveLockfile, CheckPidfile, LookForPidfile,
           RenamePidfile, NextNode, Signalled, AfterCleanup
  <2>7. (\E v \in Verbs, ph \in Phases : Begin(v, ph)) => pc' # "looking"
    BY DEF Begin, Verbs
  <2> QED BY <2>1, <2>2, <2>3, <2>4, <2>5, <2>6, <2>7 DEF Next, Command, Ends
<1> SUFFICES ASSUME verb' \in {"start", "status"}, pc' # "idle" PROVE Goal
  BY <1>l DEF PhaseInv, WasUp, WasDown, Control!WasUp, Control!WasDown
<1>r. \A n \in Nodes : (WasUp(n) => WasUp(n)') /\ (WasDown(n) => WasDown(n)')
  BY Remembered
<1>1. ASSUME UNCHANGED <<verb, phase, ok, node>>, pc # "idle", pc' = "finish" <=> pc = "finish"
      PROVE  Goal
  <2>1. Passed' = Passed
    BY <1>1 DEF Passed
  <2>2. /\ ok => \A n \in Passed : n \in Nodes /\ WasUp(n)
        /\ ~ok => \E n \in Nodes : LaunchPhase[n] = phase /\ WasDown(n)
    BY <1>1 DEF PhaseInv, Passed
  <2> QED BY <1>1, <1>r, <2>1, <2>2
<1>2. ASSUME NEW v \in Verbs, NEW ph \in Phases, Begin(v, ph) PROVE Goal
  <2>1. pc' # "finish" /\ node' = 1 /\ ok' = TRUE
    BY <1>2 DEF Begin, CallInv, Verbs
  <2>2. \A n \in Nodes : ~(n < node' \/ pc' = "finish")
    BY <2>1, Constants
  <2> QED BY <2>1, <2>2 DEF Passed
\* A step that is done with a node, which was seen up or down.
<1>3. ASSUME UNCHANGED <<verb, phase>>, pc \notin {"idle", "finish"}, NEW step, step # "finish", NextNode(step, "finish"),
             \/ ok' = ok /\ (LaunchPhase[node] = phase => WasUp(node))
             \/ ok' = FALSE /\ (ok => LaunchPhase[node] = phase /\ WasDown(node))
      PROVE  Goal
  <2>1. \A n \in Passed' : n \in Passed \/ (n = node /\ LaunchPhase[node] = phase)
    BY <1>3, <1>t, OneMorePassed DEF Passed
  <2>2. /\ ok => \A n \in Passed : WasUp(n)
        /\ ~ok => \E n \in Nodes : LaunchPhase[n] = phase /\ WasDown(n)
    BY <1>3 DEF PhaseInv
  <2>3. CASE ok' = ok /\ (LaunchPhase[node] = phase => WasUp(node))
    <3>1. \A n \in Passed' : WasUp(n) \/ ~ok
      BY <2>1, <2>2, <2>3
    <3>2. \A n \in Passed' : n \in Nodes
      BY DEF Passed
    <3> QED BY <1>3, <1>r, <2>2, <2>3, <3>1, <3>2
  <2>4. CASE ok' = FALSE /\ (ok => LaunchPhase[node] = phase /\ WasDown(node))
    <3>1. \E n \in Nodes : LaunchPhase[n] = phase /\ WasDown(n)
      BY <1>t, <2>2, <2>4
    <3> QED BY <1>3, <1>r, <2>4, <3>1
  <2> QED BY <1>3, <2>3, <2>4
<1> HIDE DEF Goal
<1>4. CASE System \/ UNCHANGED vars
  <2>1. UNCHANGED <<verb, phase, ok, node, pc>>
    BY <1>4 DEF System, vars, loop
  <2> QED BY <1>1, <2>1
<1>5. CASE FindPidfile \/ ReadPid \/ GetPid
  <2>1. UNCHANGED <<verb, phase, ok, node>> /\ pc \notin {"idle", "finish"} /\ pc' # "finish"
    BY <1>5 DEF FindPidfile, ReadPid, GetPid, Readers, Askers, AsksAt, loop
  <2> QED BY <1>1, <2>1
<1>6. CASE (CheckStarted /\ pc' = "launch") \/ \E p \in Pids : Launch(p)
  <2>1. UNCHANGED <<verb, phase, ok, node>> /\ pc \notin {"idle", "finish"} /\ pc' # "finish"
    BY <1>6 DEF CheckStarted, Launch, NextNode, loop
  <2> QED BY <1>1, <2>1
<1>7. CASE Skip
  <2>1. /\ UNCHANGED <<verb, phase, ok>> /\ pc \in {"check", "look"} /\ NextNode(pc, "finish")
        /\ LaunchPhase[node] # phase
    BY <1>7 DEF Skip, OutOfPhase, loop
  <2>2. (pc = "check" /\ NextNode("check", "finish")) \/ (pc = "look" /\ NextNode("look", "finish"))
    BY <2>1
  <2> QED BY <1>3, <2>1, <2>2
<1>8. CASE CheckStarted /\ pc' # "launch"
  <2>1. UNCHANGED <<verb, phase, ok>> /\ pc = "check" /\ NextNode("check", "finish") /\ isRunning(TRUE)
    BY <1>8 DEF CheckStarted, loop
  <2>2. WasUp(node)
    BY <2>1, Learnt DEF Askers
  <2> QED BY <1>3, <2>1, <2>2
<1>9. CASE Communicate
  <2>1. /\ UNCHANGED <<verb, phase>> /\ pc = "communicate" /\ NextNode("check", "finish")
        /\ ok' = ok \/ ok' = FALSE
    BY <1>9, <1>t DEF Communicate
  <2>2. WasUp(node) /\ WasDown(node) /\ LaunchPhase[node] = phase
    BY <2>1 DEF NodeInv, StartInv
  <2> QED BY <1>3, <2>1, <2>2
<1>10. CASE Look
  <2>1. UNCHANGED <<verb, phase>> /\ pc = "looking" /\ NextNode("look", "finish")
    BY <1>10 DEF Look
  <2>2. (isRunning(TRUE) => WasUp(node)) /\ (isRunning(FALSE) => WasDown(node))
    BY <2>1, Learnt DEF Askers
  <2>3. LaunchPhase[node] = phase
    BY <2>1 DEF PhaseInv, VerbInv
  <2>4. (isRunning(TRUE) /\ ok' = ok) \/ (isRunning(FALSE) /\ ok' = FALSE)
    BY <1>10 DEF Look
  <2> QED BY <1>3, <2>1, <2>2, <2>3, <2>4
<1>11. ~Ends
  BY EndsAnswer DEF Answer
<1>12. ~(Probe \/ NotRunning \/ FoundRunning \/ Kill \/ Poll \/ Report \/ Sleep \/ CheckLockfile \/ LookForLockfile
         \/ RemoveLockfile \/ CheckPidfile \/ LookForPidfile \/ RenamePidfile)
  BY DEF Probe, NotRunning, FoundRunning, Kill, Poll, Report, Sleep, CheckLockfile, LookForLockfile,
         RemoveLockfile, CheckPidfile, LookForPidfile, RenamePidfile, VerbInv, Reporting, Cleaning
<1> QED
  BY <1>2, <1>4, <1>5, <1>6, <1>7, <1>8, <1>9, <1>10, <1>11, <1>12 DEF Next, Command, Ends

LEMMA HupStep ==
  ASSUME IInv, CInv, SeenInv, HupInv, NodeInv, Remember, [Next]_vars
  PROVE  HupInv'
<1> USE DEF IInv
<1>t. node \in Nodes /\ ok \in BOOLEAN
  BY DEF TypeOK
<1> DEFINE Goal == /\ ok' => \A n \in Nodes : n < node' \/ pc' = "finish" => WasUp(n)'
                   /\ ~ok' => \E n \in Nodes : WasDown(n)'
<1> SUFFICES ASSUME verb' = "hup", pc' # "idle" PROVE Goal
  BY DEF HupInv, WasUp, WasDown, Control!WasUp, Control!WasDown
<1>r. \A n \in Nodes : (WasUp(n) => WasUp(n)') /\ (WasDown(n) => WasDown(n)')
  BY Remembered
<1>1. ASSUME UNCHANGED <<verb, ok, node>>, pc # "idle", pc' = "finish" => pc = "finish" PROVE Goal
  BY <1>1, <1>r DEF HupInv
<1>2. ASSUME NEW v \in Verbs, NEW ph \in Phases, Begin(v, ph) PROVE Goal
  <2>1. pc' # "finish" /\ node' = 1 /\ ok' = TRUE
    BY <1>2 DEF Begin, CallInv, Verbs
  <2>2. \A n \in Nodes : ~(n < node' \/ pc' = "finish")
    BY <2>1, Constants
  <2> QED BY <2>1, <2>2
<1>3. ASSUME verb' = verb, pc \in {"signal", "kill"}, NextNode("getpid", "finish"),
             \/ ok' = ok /\ WasUp(node)
             \/ ok' = FALSE /\ WasDown(node)
      PROVE  Goal
  <2>1. \A n \in Nodes : n < node' \/ pc' = "finish" => n < node \/ n = node
    BY <1>3, <1>t, OneMorePassed
  <2>2. /\ ok => \A n \in Nodes : n < node => WasUp(n)
        /\ ~ok => \E n \in Nodes : WasDown(n)
    BY <1>3 DEF HupInv
  <2>3. \A n \in Nodes : n = node => (WasUp(node) => WasUp(n)') /\ (WasDown(node) => WasDown(n)')
    BY <1>r
  <2> QED BY <1>3, <1>r, <1>t, <2>1, <2>2, <2>3
<1> HIDE DEF Goal
<1>4. CASE System \/ UNCHANGED vars
  <2>1. UNCHANGED <<verb, ok, node, pc>>
    BY <1>4 DEF System, vars, loop
  <2> QED BY <1>1, <2>1
<1>5. CASE FindPidfile \/ ReadPid \/ GetPid \/ FoundRunning
  <2>1. UNCHANGED <<verb, ok, node>> /\ pc \notin {"idle", "finish"} /\ pc' # "finish"
    <3>1. CASE FindPidfile \/ ReadPid \/ GetPid
      BY <3>1 DEF FindPidfile, ReadPid, GetPid, Readers, Askers, AsksAt, loop
    <3>2. CASE FoundRunning
      BY <3>2 DEF FoundRunning, loop
    <3> QED BY <1>5, <3>1, <3>2
  <2> QED BY <1>1, <2>1
<1>6. CASE NotRunning
  <2>1. UNCHANGED verb /\ pc = "signal" /\ isRunning(FALSE) /\ Signalled /\ ok' = (ok /\ verb # "hup")
    BY <1>6 DEF NotRunning
  <2>2. NextNode("getpid", "finish") /\ ok' = FALSE
    BY <2>1 DEF Signalled
  <2>3. WasDown(node)
    BY <2>1, Learnt DEF Askers
  <2> QED BY <1>3, <2>1, <2>2, <2>3
<1>7. CASE Kill
  <2>1. UNCHANGED <<verb, ok>> /\ pc = "kill" /\ Signalled /\ WasUp(node)
    BY <1>7 DEF Kill, loop, NodeInv
  <2>2. NextNode("getpid", "finish")
    BY <2>1 DEF Signalled
  <2> QED BY <1>3, <2>1, <2>2
<1>8. ~Ends
  BY EndsAnswer DEF Answer
<1>9. ~(Skip \/ CheckStarted \/ (\E p \in Pids : Launch(p)) \/ Communicate \/ Look \/ Probe)
  BY DEF Skip, CheckStarted, Launch, Communicate, Look, Probe, VerbInv, Starting, OutOfPhase
<1>10. ~(Poll \/ Report \/ Sleep \/ CheckLockfile \/ LookForLockfile \/ RemoveLockfile \/ CheckPidfile
         \/ LookForPidfile \/ RenamePidfile)
  BY DEF Poll, Report, Sleep, CheckLockfile, LookForLockfile, RemoveLockfile, CheckPidfile, LookForPidfile,
         RenamePidfile, VerbInv, Reporting, Cleaning
<1> QED
  BY <1>2, <1>4, <1>5, <1>6, <1>7, <1>8, <1>9, <1>10 DEF Next, Command, Ends

\* The invariant of a command and of what it has seen.
AllInv == IInv /\ CInv /\ StartInv /\ HInv

LEMMA HistoryInvariance == ASSUME Controlled PROVE HistorySpec => []AllInv
<1>1. HistoryInit => AllInv
  <2> SUFFICES ASSUME HistoryInit PROVE AllInv
    OBVIOUS
  <2>1. IInv
    BY InitIInv DEF HistoryInit
  <2>2. CInv
    BY Constants DEF HistoryInit, Init, CInv, OwnInv, CleanedInv, Holding, Cleaning, Answered, Alive
  <2>3. StartInv
    BY DEF HistoryInit, Init, StartInv, StartIsHonest, Starting
  <2>4. HInv
    BY DEF HistoryInit, Init, HInv, SeenInv, PhaseInv, HupInv, NodeInv, RestartInv, Starting
  <2> QED BY <2>1, <2>2, <2>3, <2>4 DEF AllInv
<1>2. AllInv /\ [HistoryNext]_<<vars, seen>> => AllInv'
  <2>1. ASSUME AllInv, HistoryNext PROVE AllInv'
    <3>1. [Next]_vars /\ Remember /\ Settled
      BY <2>1 DEF HistoryNext, Controlled
    <3>2. IInv /\ CInv /\ StartInv /\ SeenInv /\ PhaseInv /\ HupInv /\ NodeInv /\ RestartInv
      BY <2>1 DEF AllInv, HInv
    <3>3. IInv' /\ CInv' /\ StartInv'
      BY <3>1, <3>2, NextIInv, OwnStep, CleanedStep, StartStep DEF CInv, IInv
    <3>4. SeenInv' /\ RestartInv' /\ NodeInv' /\ PhaseInv' /\ HupInv'
      BY <3>1, <3>2, SeenStep, RestartStep, NodeStep, PhaseStep, HupStep DEF IInv
    <3> QED BY <3>3, <3>4 DEF AllInv, HInv
  <2>2. ASSUME AllInv, UNCHANGED <<vars, seen>> PROVE AllInv'
    <3>1. [Next]_vars /\ Settled
      BY <2>2 DEF Controlled
    <3>2. IInv' /\ CInv' /\ StartInv'
      BY <2>2, <3>1, NextIInv, OwnStep, CleanedStep, StartStep DEF AllInv, CInv, IInv
    <3>3. HInv'
      <4>1. HInv /\ UNCHANGED <<owner, stage, pidfile, lockfile, verb, phase, pc, node, at, ok, seen>>
        BY <2>2 DEF AllInv, vars, os, files, call, loop
      <4>2. Up' = Up /\ Passed' = Passed /\ (Starting' <=> Starting) /\ \A p \in Pids : Tor(p)' <=> Tor(p)
        BY <4>1 DEF Up, Passed, Starting, Tor
      <4>3. SeenInv' /\ PhaseInv' /\ HupInv' /\ RestartInv'
        BY <4>1, <4>2 DEF HInv, SeenInv, PhaseInv, HupInv, RestartInv, WasUp, WasDown, Control!WasUp, Control!WasDown
      <4>4. NodeInv'
        BY <4>1, <4>2 DEF HInv, NodeInv, Lost, WasUp, WasDown, Control!WasUp, Control!WasDown
      <4> QED BY <4>3, <4>4 DEF HInv
    <3> QED BY <3>2, <3>3 DEF AllInv
  <2> QED BY <2>1, <2>2
<1> QED BY <1>1, <1>2, PTL DEF HistorySpec

\* An exception is about a tor that went down meanwhile, or about a node that cannot be
\* launched.
LEMMA WhoRaises ==
  ASSUME AllInv
  PROVE  /\ OpenRaises \/ FormatRaises \/ KillRaises \/ CleanupRaises => Lost(node)
         /\ ~AskRaises
         /\ LaunchRaises => /\ node \notin Up /\ LaunchPhase[node] = phase
                            /\ verb = "start" \/ (verb = "restart" /\ {} \in seen)
<1> USE DEF AllInv, IInv, HInv
<1>t. node \in Nodes
  BY DEF TypeOK
<1>1. OpenRaises => Lost(node)
  BY DEF OpenRaises, getPid, NodeInv
<1>2. ASSUME FormatRaises PROVE Lost(node)
  <2>1. pc \in {"looking", "reporting"} /\ isRunning(TRUE) /\ pid = None
    BY <1>2 DEF FormatRaises
  <2>2. \A q \in Pids : owner[q] = node => stage[q] = "leaving"
    BY <2>1, Constants DEF HeldInv, Holding
  <2>3. WasUp(node)
    BY <2>1, Learnt DEF Askers
  <2> QED BY <1>t, <2>2, <2>3, DownIsNotUp DEF Lost, Down
<1>3. ASSUME KillRaises PROVE Lost(node)
  <2>1. pc = "kill" /\ (pid = None \/ owner[pid] \in {None, Foreign}) /\ pid \in Pids \union {None}
    BY <1>3 DEF KillRaises, TypeOK
  <2>2. \A q \in Pids : owner[q] = node /\ stage[q] # "leaving" => q = pid
    BY <2>1 DEF HeldInv, Holding
  <2>3. \A q \in Pids : owner[q] = node => stage[q] = "leaving"
    BY <1>t, <2>1, <2>2, Constants
  <2> QED BY <1>t, <2>1, <2>3, DownIsNotUp DEF Lost, Down, NodeInv
<1>4. CleanupRaises => Lost(node)
  BY DEF CleanupRaises, NodeInv
<1>5. ~AskRaises
  BY DEF AskRaises, CallInv, CInv, OwnInv, TypeOK
<1>6. LaunchRaises => /\ node \notin Up /\ LaunchPhase[node] = phase
                      /\ verb = "start" \/ (verb = "restart" /\ {} \in seen)
  BY DEF LaunchRaises, NodeInv, StartInv, VerbInv, RestartInv, Starting
<1> QED BY <1>1, <1>2, <1>3, <1>4, <1>5, <1>6

\* What the answer of a command that has gone through all nodes says.
LEMMA FinishTells ==
  ASSUME AllInv, Finish
  PROVE  \/ result' = "ok" /\ Control!Done
         \/ result' = "failed" /\ Control!Refused
<1> USE DEF AllInv, IInv, HInv
<1>t. pc = "finish" /\ ok \in BOOLEAN /\ verb \in Verbs
  BY DEF Finish, TypeOK
<1>1. result' = IF ok \/ verb = "restart" THEN "ok" ELSE "failed"
  BY DEF Finish, Answer
<1>2. CASE verb \in {"start", "status"}
  <2>1. Passed = Control!OfPhase
    BY <1>t DEF Passed, Control!OfPhase
  <2>2. (ok => \A n \in Passed : WasUp(n)) /\ (~ok => \E n \in Passed : WasDown(n))
    BY <1>t, <1>2 DEF PhaseInv, Passed
  <2> QED BY <1>1, <1>2, <1>t, <2>1, <2>2 DEF Control!Done, Control!Refused, WasUp, WasDown
<1>3. CASE verb = "stop"
  <2>1. ok /\ \A n \in Nodes : Down(n)
    BY <1>t, <1>3 DEF StopInv, RestartInv
  <2>2. Up = {}
    BY <2>1 DEF Up, Down
  <2> QED BY <1>1, <1>3, <2>1, <2>2 DEF Control!Done
<1>4. CASE verb = "restart"
  BY <1>1, <1>4, <1>t DEF RestartInv, Control!Done
<1>5. CASE verb = "hup"
  <2>1. (ok => \A n \in Nodes : WasUp(n)) /\ (~ok => \E n \in Nodes : WasDown(n))
    BY <1>t, <1>5 DEF HupInv
  <2> QED BY <1>1, <1>5, <1>t, <2>1 DEF Control!Done, Control!Refused, WasUp, WasDown
<1> QED BY <1>t, <1>2, <1>3, <1>4, <1>5 DEF Verbs

LEMMA ControlStep ==
  ASSUME AllInv, Controlled, HistoryNext
  PROVE  [Control!Next]_(Control!vars)
<1>n. Next /\ Remember /\ [Next]_vars /\ SeenInv /\ Settled
  BY DEF HistoryNext, AllInv, HInv, Controlled
<1>i. IInv /\ TypeOK /\ CallInv /\ StageInv /\ node \in Nodes
  BY DEF AllInv, IInv, TypeOK
<1>a. ASSUME UNCHANGED <<os, verb, phase>>, pc # "idle", pc' = "idle",
             \/ result' = "ok" /\ Control!Done
             \/ result' = "failed" /\ Control!Refused
             \/ result' = "exception" /\ (Control!Overtaken \/ Control!Unlaunched)
             \/ result' = "interrupted"
      PROVE  Control!Next
  <2>1. Up' = Up
    BY <1>a DEF Up, os
  <2> QED BY <1>a, <1>n, <2>1 DEF Control!Next, Control!Answer, Remember
\* What is not an answer, does not begin a command, and launches no tor.
<1>s. ASSUME UNCHANGED <<verb, phase, result>>, (pc' = "idle") <=> (pc = "idle"), Up' = Up
      PROVE  UNCHANGED Control!vars
  <2>1. seen' = seen
    BY <1>s, <1>n DEF Remember, SeenInv
  <2> QED BY <1>s, <2>1 DEF Control!vars
<1>g. ASSUME UNCHANGED <<verb, phase, result>>, (pc' = "idle") <=> (pc = "idle"), NEW n \in Up, Up' = Up \ {n}
      PROVE  Control!Next
  <2>1. Control!Recorded
    BY <1>g, <1>n DEF Remember, SeenInv, Control!Recorded
  <2>2. Control!GoesDown(n) /\ n \in Nodes
    BY <1>g, <2>1 DEF Control!GoesDown, Up
  <2> QED BY <2>2 DEF Control!Next
<1>1. CASE System \/ Kill
  <2>1. UNCHANGED <<verb, phase, result>> /\ ((pc' = "idle") <=> (pc = "idle"))
    BY <1>1 DEF System, Kill, loop, Signalled, NextNode
  <2>2. ~ \E p \in Pids : Launch(p)
    BY <1>1 DEF System, Kill, Launch, NextNode
  <2>3. Up' = Up \/ \E n \in Up : Up' = Up \ {n}
    BY <1>n, <1>i, <2>2, UpStep
  <2> QED BY <1>s, <1>g, <2>1, <2>3
<1>2. ASSUME NEW p \in Pids, Launch(p) PROVE Control!Next
  <2>1. UNCHANGED <<verb, phase, result>> /\ pc = "launch" /\ pc' = "communicate"
    BY <1>2 DEF Launch, loop
  <2>2. node \notin Up
    BY <2>1 DEF AllInv, HInv, NodeInv
  <2>3. node \in Up'
    BY <1>2, <1>i DEF Launch, Up, TypeOK
  <2>4. Up' = Up \union {node}
    <3>1. Up' # Up /\ ~(\E n \in Up : Up' = Up \ {n})
      BY <2>2, <2>3
    <3> QED BY <1>n, <1>i, <3>1, UpStep
  <2>5. LaunchPhase[node] = phase /\ (verb = "start" \/ (verb = "restart" /\ {} \in seen))
    BY <2>1 DEF AllInv, IInv, HInv, StartInv, VerbInv, RestartInv, Starting
  <2>6. Control!Recorded
    BY <1>n, <2>1 DEF Remember, Control!Recorded
  <2>7. Control!ComesUp(node)
    BY <1>i, <2>1, <2>2, <2>4, <2>5, <2>6 DEF Control!ComesUp, Control!OfPhase, Control!Launches
  <2> QED BY <1>i, <2>7 DEF Control!Next
<1>3. ASSUME NEW v \in Verbs, NEW ph \in Phases, Begin(v, ph) PROVE Control!Next
  <2>1. /\ pc = "idle" /\ pc' # "idle" /\ UNCHANGED os
        /\ verb' = v /\ phase' = ph /\ result' = "none"
    BY <1>3 DEF Begin, Verbs
  <2>2. Up' = Up
    BY <2>1 DEF Up, os
  <2>3. seen = {} /\ seen' = seen \union {Up'}
    BY <1>n, <2>1 DEF Remember, SeenInv
  <2>4. Control!Begin(v, ph)
    BY <2>1, <2>2, <2>3 DEF Control!Begin
  <2>5. \E n \in Nodes : ph \in 1..LaunchPhase[n]
    BY PhasesAreNumbers
  <2>6. v \in Control!Verbs
    BY DEF Verbs, Control!Verbs
  <2> QED BY <2>4, <2>5, <2>6 DEF Control!Next
<1>4. CASE Finish
  <2>1. UNCHANGED <<os, verb, phase>> /\ pc = "finish" /\ pc' = "idle"
    BY <1>4 DEF Finish, Answer
  <2> QED BY <1>a, <1>4, <2>1, FinishTells
<1>5. CASE Interrupt
  <2>1. UNCHANGED <<os, verb, phase>> /\ pc # "idle" /\ pc' = "idle" /\ result' = "interrupted"
    BY <1>5 DEF Interrupt, Answer
  <2> QED BY <1>a, <2>1
<1>6. CASE OpenRaises \/ FormatRaises \/ KillRaises \/ CleanupRaises
  <2>1. UNCHANGED <<os, verb, phase>> /\ pc # "idle" /\ pc' = "idle" /\ result' = "exception"
    BY <1>6, <1>i DEF OpenRaises, FormatRaises, KillRaises, CleanupRaises, Answer, CallInv, Readers, Askers
  <2>2. Control!Overtaken
    BY <1>6, <1>i, WhoRaises DEF Control!Overtaken, Lost, WasUp
  <2> QED BY <1>a, <2>1, <2>2
<1>7. CASE LaunchRaises
  <2>1. UNCHANGED <<os, verb, phase>> /\ pc # "idle" /\ pc' = "idle" /\ result' = "exception"
    BY <1>7 DEF LaunchRaises, Answer
  <2>2. Control!Unlaunched
    BY <1>7, <1>i, WhoRaises DEF Control!Unlaunched, Control!Launches, Control!OfPhase
  <2> QED BY <1>a, <2>1, <2>2
<1>8. ~AskRaises
  BY WhoRaises
<1>9. ASSUME UNCHANGED <<os, verb, phase, result>>, pc # "idle", pc' # "idle"
      PROVE  UNCHANGED Control!vars
  <2>1. Up' = Up
    BY <1>9 DEF Up, os
  <2> QED BY <1>s, <1>9, <2>1
<1>10. CASE FindPidfile \/ ReadPid \/ GetPid
  BY <1>9, <1>10 DEF FindPidfile, ReadPid, GetPid, Readers, Askers, AsksAt
<1>11. CASE Skip \/ CheckStarted \/ Communicate \/ Look \/ Probe \/ NotRunning \/ FoundRunning
  BY <1>9, <1>11 DEF Skip, CheckStarted, Communicate, Look, Probe, NotRunning, FoundRunning, NextNode, Signalled, OutOfPhase
<1>12. CASE Poll \/ Report \/ Sleep \/ CheckLockfile \/ LookForLockfile \/ RemoveLockfile \/ CheckPidfile
            \/ LookForPidfile \/ RenamePidfile
  BY <1>9, <1>12 DEF Poll, Report, Sleep, CheckLockfile, LookForLockfile, RemoveLockfile, CheckPidfile, LookForPidfile,
         RenamePidfile, NextNode, AfterCleanup
<1> QED
  BY <1>n, <1>1, <1>2, <1>3, <1>4, <1>5, <1>6, <1>7, <1>8, <1>10, <1>11, <1>12 DEF Next, Command

\* The commands over pid files, lock files and signals implement NodeControl, as long as
\* no pid is used again: each answer, exceptions included, is true of the network at a
\* moment of the command, whatever the tors do between any two of its steps.
THEOREM ControlRefined == ASSUME Controlled PROVE HistorySpec => ImplementsNodeControl
<1>1. HistoryInit => Control!Init
  BY Constants DEF HistoryInit, Init, Control!Init, Up
<1>2. AllInv /\ [HistoryNext]_<<vars, seen>> => [Control!Next]_(Control!vars)
  <2>1. UNCHANGED <<vars, seen>> => UNCHANGED Control!vars
    BY DEF Control!vars, vars, os, Up
  <2> QED BY <2>1, ControlStep
<1> QED BY <1>1, <1>2, HistoryInvariance, PTL DEF HistorySpec, ImplementsNodeControl, Control!Spec

-----------------------------------------------------------------------------
(* Commands run out of steps.                                              *)

\* What a command has left to do: the stages still to come, the signals and polls of
\* stop(), the nodes of the current loop and the steps at the current node. Each is a
\* number, and an earlier one outweighs all later ones.
Stage == CASE pc = "idle" -> 0
           [] pc = "finish" -> 1
           [] Starting \/ pc \in {"look", "looking"} -> 2
           [] Cleaning -> 3
           [] pc = "sleep" -> 4
           [] OTHER -> 5

Part == IF Signalling THEN 2 ELSE IF pc = "poll" THEN 1 ELSE 0

\* The steps of a command at one node; at some of them isRunning has a file to find, to
\* read and a process to ask for.
Site == CASE pc = "lockcheck" -> 5
          [] pc = "lockexists" -> 4
          [] pc \in {"probe", "rmlock"} -> 3
          [] pc \in {"getpid", "pidcheck", "check"} -> 2
          [] pc \in {"signal", "pidexists", "launch", "look", "report"} -> 1
          [] OTHER -> 0

StepsAtNode == 3 * Site + (IF at = "exists" THEN 2 ELSE IF at = "open" THEN 1 ELSE 0)

Left == <<Stage, 3 - round, Part, MaxPolls - polls, NumNodes - node, StepsAtNode>>

Measures == [1..6 -> Nat]

Less(a, b) == \E i \in 1..6 : a[i] < b[i] /\ \A j \in 1..6 : j < i => a[j] = b[j]

\* A command runs out of steps: each of its own leaves less to do, and the tors can
\* add nothing.
StepsRunOut ==
  [][ /\ Command \/ Interrupt => Less(Left', Left)
      /\ System => Left' = Left ]_vars

\* When the first number in which two measures differ is less, the measure is.
LEMMA LessAt ==
  ASSUME NEW a1, NEW a2, NEW a3, NEW a4, NEW a5, NEW a6,
         NEW b1, NEW b2, NEW b3, NEW b4, NEW b5, NEW b6
  PROVE  \/ a1 < b1
         \/ a1 = b1 /\ a2 < b2
         \/ a1 = b1 /\ a2 = b2 /\ a3 < b3
         \/ a1 = b1 /\ a2 = b2 /\ a3 = b3 /\ a4 < b4
         \/ a1 = b1 /\ a2 = b2 /\ a3 = b3 /\ a4 = b4 /\ a5 < b5
         \/ a1 = b1 /\ a2 = b2 /\ a3 = b3 /\ a4 = b4 /\ a5 = b5 /\ a6 < b6
         => Less(<<a1, a2, a3, a4, a5, a6>>, <<b1, b2, b3, b4, b5, b6>>)
<1> DEFINE a == <<a1, a2, a3, a4, a5, a6>>
           b == <<b1, b2, b3, b4, b5, b6>>
<1>1. /\ a[1] = a1 /\ a[2] = a2 /\ a[3] = a3 /\ a[4] = a4 /\ a[5] = a5 /\ a[6] = a6
      /\ b[1] = b1 /\ b[2] = b2 /\ b[3] = b3 /\ b[4] = b4 /\ b[5] = b5 /\ b[6] = b6
  OBVIOUS
<1> HIDE DEF a, b
<1>2. a1 < b1 => Less(a, b)
  BY <1>1 DEF Less
<1>3. a1 = b1 /\ a2 < b2 => Less(a, b)
  BY <1>1 DEF Less
<1>4. a1 = b1 /\ a2 = b2 /\ a3 < b3 => Less(a, b)
  BY <1>1 DEF Less
<1>5. a1 = b1 /\ a2 = b2 /\ a3 = b3 /\ a4 < b4 => Less(a, b)
  BY <1>1 DEF Less
<1>6. a1 = b1 /\ a2 = b2 /\ a3 = b3 /\ a4 = b4 /\ a5 < b5 => Less(a, b)
  BY <1>1 DEF Less
<1>7. a1 = b1 /\ a2 = b2 /\ a3 = b3 /\ a4 = b4 /\ a5 = b5 /\ a6 < b6 => Less(a, b)
  BY <1>1 DEF Less
<1> QED BY <1>2, <1>3, <1>4, <1>5, <1>6, <1>7, Zenon DEF a, b

LEMMA LeftIsMeasure == TypeOK => Left \in Measures
<1> SUFFICES ASSUME TypeOK PROVE Left \in Measures
  OBVIOUS
<1>1. Stage \in Nat /\ Part \in Nat
  BY DEF Stage, Part
<1>2. Site \in Nat
  BY DEF Site
<1>3. StepsAtNode \in Nat
  BY <1>2 DEF StepsAtNode
<1>4. 3 - round \in Nat
  BY DEF TypeOK
<1>5. MaxPolls - polls \in Nat /\ NumNodes - node \in Nat
  <2>1. polls \in 0..(MaxPolls - 1) /\ node \in Nodes
    BY DEF TypeOK
  <2> QED BY <2>1, LifecycleAssumption DEF Nodes
<1> QED BY <1>1, <1>3, <1>4, <1>5 DEF Left, Measures

\* A step to a later stage.
LEMMA LaterStage ==
  ASSUME Stage' < Stage PROVE Less(Left', Left)
BY LessAt DEF Left

\* A later step at the same node.
LEMMA LaterSite ==
  ASSUME Site' < Site PROVE StepsAtNode' < StepsAtNode
<1>1. Site \in Nat /\ Site' \in Nat
  BY DEF Site
<1> DEFINE Rest == IF at = "exists" THEN 2 ELSE IF at = "open" THEN 1 ELSE 0
<1>2. Rest \in 0..2 /\ Rest' \in 0..2
  OBVIOUS
<1>3. StepsAtNode = 3 * Site + Rest /\ StepsAtNode' = 3 * Site' + Rest'
  BY DEF StepsAtNode
<1> HIDE DEF Rest
<1>4. ASSUME NEW a \in Nat, NEW b \in Nat, NEW r \in 0..2, NEW s \in 0..2, a < b
      PROVE  3 * a + r < 3 * b + s
  BY <1>4
<1>5. 3 * Site' + Rest' < 3 * Site + Rest
  BY <1>1, <1>2, <1>4
<1> QED BY <1>3, <1>5

\* The next node of the same loop, or a later step at the same one.
LEMMA NextNodeLess ==
  ASSUME TypeOK, UNCHANGED <<round, polls>>, Stage' = Stage, Part' = Part,
         \/ node' = node + 1
         \/ node' = node /\ StepsAtNode' < StepsAtNode
  PROVE  Less(Left', Left)
<1>1. node \in Int /\ NumNodes \in Int
  BY Constants, LifecycleAssumption DEF TypeOK
<1>2. node' = node + 1 => NumNodes - node' < NumNodes - node
  BY <1>1
<1> QED BY <1>2, LessAt DEF Left

LEMMA CommandLess ==
  ASSUME TypeOK, CallInv, Command \/ Interrupt
  PROVE  Less(Left', Left)
<1> DEFINE Same == UNCHANGED <<round, polls>>
           Reads == pc \in Readers \union Askers
\* At the same node.
<1>h. ASSUME Same, node' = node, Stage' = Stage, Part' = Part, Site' < Site PROVE Less(Left', Left)
  BY <1>h, LaterSite, NextNodeLess
<1>1. CASE Ends
  <2>1. pc' = "idle"
    BY <1>1, EndsAnswer DEF Answer
  <2>2. pc # "idle"
    BY <1>1 DEF Ends, OpenRaises, AskRaises, LaunchRaises, FormatRaises, KillRaises, CleanupRaises, Finish, Interrupt,
           CallInv, Readers, Askers
  <2>3. Stage' < Stage
    BY <2>1, <2>2 DEF Stage, Starting, Cleaning
  <2> QED BY <2>3, LaterStage
<1>2. CASE FindPidfile \/ ReadPid
  <2>1. Same /\ UNCHANGED <<pc, node>> /\ ((at = "exists" /\ at' = "open") \/ (at = "open" /\ at' = "ask"))
    BY <1>2 DEF FindPidfile, ReadPid, loop
  <2>2. UNCHANGED <<pc, node, round, polls>>
    BY <1>2 DEF FindPidfile, ReadPid, loop
  <2>3. Stage' = Stage /\ Part' = Part /\ Site' = Site
    BY <2>2 DEF Stage, Part, Site, Starting, Cleaning, Signalling
  <2>4. Site \in Nat
    BY DEF Site
  <2>5. StepsAtNode' < StepsAtNode
    <3> HIDE DEF Site
    <3> QED BY <2>1, <2>3, <2>4 DEF StepsAtNode
  <2> QED BY <2>2, <2>3, <2>5, NextNodeLess
<1>3. CASE GetPid
  <2>1. Same /\ node' = node
    BY <1>3 DEF GetPid, loop
  <2>2. \/ pc = "look" /\ pc' = "looking"
        \/ pc = "report" /\ pc' = "reporting"
        \/ pc = "getpid" /\ pc' = "signal"
    BY <1>3 DEF GetPid, Readers, AsksAt
  <2>3. Stage' = Stage /\ Part' = Part /\ Site' < Site
    BY <2>2 DEF Stage, Part, Site, Starting, Cleaning, Signalling
  <2> QED BY <1>h, <2>1, <2>3
\* start and status.
<1>4. CASE Skip \/ CheckStarted \/ (\E p \in Pids : Launch(p)) \/ Communicate \/ Look
  <2>1. /\ Same
        /\ \/ pc' = "finish" /\ pc \in {"check", "communicate", "look", "looking"}
           \/ pc' = "check" /\ node' = node + 1 /\ pc \in {"check", "communicate"}
           \/ pc' = "look" /\ node' = node + 1 /\ pc \in {"look", "looking"}
           \/ node' = node /\ pc = "check" /\ pc' = "launch"
           \/ node' = node /\ pc = "launch" /\ pc' = "communicate"
    <3>1. CASE Skip
      BY <3>1 DEF Skip, OutOfPhase, NextNode, loop
    <3>2. CASE CheckStarted \/ Communicate
      BY <3>2 DEF CheckStarted, Communicate, NextNode, loop
    <3>3. CASE Look
      BY <3>3 DEF Look, NextNode, loop
    <3>4. CASE \E p \in Pids : Launch(p)
      BY <3>4 DEF Launch, loop
    <3> QED BY <1>4, <3>1, <3>2, <3>3, <3>4
  <2>2. CASE pc' = "finish"
    <3>1. Stage' < Stage
      BY <2>1, <2>2 DEF Stage, Cleaning, Starting
    <3> QED BY <3>1, LaterStage
  <2>3. CASE pc' \in {"check", "look"}
    <3>1. Stage' = Stage /\ Part' = Part
      BY <2>1, <2>3 DEF Stage, Part, Cleaning, Starting, Signalling
    <3> QED BY <2>1, <2>3, <3>1, NextNodeLess
  <2>4. CASE pc' \in {"launch", "communicate"}
    <3>1. Stage' = Stage /\ Part' = Part /\ Site' < Site
      BY <2>1, <2>4 DEF Stage, Part, Site, Cleaning, Starting, Signalling
    <3> QED BY <1>h, <2>1, <2>4, <3>1
  <2> QED BY <2>1, <2>2, <2>3, <2>4
\* stop's signals, and hup.
<1>5. CASE Probe \/ NotRunning \/ FoundRunning \/ Kill
  <2>1. /\ Same /\ Signalling
        /\ \/ pc' \in {"finish", "poll"}
           \/ pc' \in {"probe", "getpid"} /\ node' = node + 1
           \/ node' = node /\ pc = "probe" /\ pc' = "getpid"
           \/ node' = node /\ pc = "signal" /\ pc' = "kill"
    <3>1. CASE Probe \/ FoundRunning
      BY <3>1 DEF Probe, FoundRunning, NextNode, Signalling, loop
    <3>2. CASE NotRunning \/ Kill
      BY <3>2 DEF NotRunning, Kill, Signalled, NextNode, Signalling, loop
    <3> QED BY <1>5, <3>1, <3>2
  <2>2. Stage = 5 /\ Part = 2
    BY <2>1 DEF Stage, Part, Starting, Cleaning, Signalling
  <2>3. CASE pc' = "finish"
    <3>1. Stage' < Stage
      BY <2>2, <2>3 DEF Stage, Starting, Cleaning
    <3> QED BY <3>1, LaterStage
  <2>4. CASE pc' = "poll"
    <3>1. Stage' = 5 /\ Part' = 1 /\ round' = round
      BY <2>1, <2>4 DEF Stage, Part, Starting, Cleaning, Signalling
    <3> QED BY <2>2, <3>1, LessAt DEF Left
  <2>5. CASE pc' \in {"probe", "getpid"} /\ node' = node + 1
    <3>1. Stage' = 5 /\ Part' = 2
      BY <2>5 DEF Stage, Part, Starting, Cleaning, Signalling
    <3> QED BY <2>1, <2>2, <2>5, <3>1, NextNodeLess
  <2>6. CASE \/ node' = node /\ pc = "probe" /\ pc' = "getpid"
             \/ node' = node /\ pc = "signal" /\ pc' = "kill"
    <3>1. Stage' = 5 /\ Part' = 2 /\ Site' < Site
      BY <2>6 DEF Stage, Part, Site, Starting, Cleaning, Signalling
    <3> QED BY <1>h, <2>1, <2>2, <2>6, <3>1
  <2> QED BY <2>1, <2>3, <2>4, <2>5, <2>6
<1>6. CASE Poll
  <2>0. pc = "poll" /\ round' = round /\ polls \in Int /\ MaxPolls \in Int
    BY <1>6, Constants DEF Poll, TypeOK
  <2>1. CASE pc' \in {"sleep", "report"}
    <3>1. Stage' < Stage \/ (Stage' = Stage /\ Part = 1 /\ Part' = 0)
      BY <2>0, <2>1 DEF Stage, Part, Starting, Cleaning, Signalling
    <3>2. Part = 1 /\ Part' = 0 => Part' < Part
      OBVIOUS
    <3> HIDE DEF Stage, Part
    <3> QED BY <2>0, <3>1, <3>2, LaterStage, LessAt DEF Left
  <2>2. CASE pc' = "poll"
    <3>1. Stage' = Stage /\ Part' = Part
      BY <2>0, <2>2 DEF Stage, Part, Starting, Cleaning, Signalling
    <3>2. (polls' = polls /\ node' = node + 1) \/ polls' = polls + 1
      BY <1>6, <2>2 DEF Poll, NextNode
    <3>3. polls' = polls + 1 => MaxPolls - polls' < MaxPolls - polls
      BY <2>0
    <3>4. CASE polls' = polls /\ node' = node + 1
      BY <2>0, <3>1, <3>4, NextNodeLess
    <3>5. CASE polls' = polls + 1
      BY <2>0, <3>1, <3>3, <3>5, LessAt DEF Left
    <3> QED BY <3>2, <3>4, <3>5
  <2> QED BY <1>6, <2>1, <2>2 DEF Poll, NextNode
<1>7. CASE Report
  <2>0. /\ pc = "reporting" /\ round \in 1..3 /\ node \in Int /\ NumNodes \in Int /\ polls' = polls
        /\ node <= NumNodes
    BY <1>7, Constants DEF Report, TypeOK
  <2>1. \/ pc' = "report" /\ node' = node + 1 /\ round' = round
        \/ pc' = "probe" /\ round' = round + 1
        \/ pc' = "sleep"
    BY <1>7, <2>0 DEF Report, NextNode
  <2>2. CASE pc' = "sleep"
    <3>1. Stage' < Stage
      BY <2>0, <2>2 DEF Stage, Starting, Cleaning
    <3> QED BY <3>1, LaterStage
  <2>3. CASE pc' = "probe" /\ round' = round + 1
    <3>1. Stage' = Stage
      BY <2>0, <2>3 DEF Stage, Starting, Cleaning
    <3>2. 3 - round' < 3 - round
      BY <2>0, <2>3
    <3> QED BY <3>1, <3>2, LessAt DEF Left
  <2>4. CASE pc' = "report" /\ node' = node + 1 /\ round' = round
    <3>1. Stage' = Stage /\ Part' = Part
      BY <2>0, <2>4 DEF Stage, Part, Starting, Cleaning, Signalling
    <3> QED BY <2>0, <2>4, <3>1, NextNodeLess
  <2> QED BY <2>1, <2>2, <2>3, <2>4
\* The clean-up.
<1>8. CASE Sleep
  <2>1. Stage' < Stage
    BY <1>8 DEF Sleep, Stage, Starting, Cleaning
  <2> QED BY <2>1, LaterStage
<1>9. CASE CheckLockfile \/ LookForLockfile \/ RemoveLockfile \/ CheckPidfile \/ LookForPidfile \/ RenamePidfile
  <2>1. /\ Same /\ Cleaning
        /\ \/ pc' \in {"finish", "check"}
           \/ pc' = "lockcheck" /\ node' = node + 1
           \/ /\ node' = node
              /\ \/ pc = "lockcheck" /\ pc' \in {"lockexists", "pidcheck"}
                 \/ pc = "lockexists" /\ pc' \in {"rmlock", "pidcheck"}
                 \/ pc = "rmlock" /\ pc' = "pidcheck"
                 \/ pc = "pidcheck" /\ pc' = "pidexists"
                 \/ pc = "pidexists" /\ pc' = "mvpid"
    <3>1. CASE CheckLockfile \/ LookForLockfile \/ RemoveLockfile
      BY <3>1 DEF CheckLockfile, LookForLockfile, RemoveLockfile, Cleaning, loop
    <3>2. CASE CheckPidfile \/ LookForPidfile \/ RenamePidfile
      BY <3>2 DEF CheckPidfile, LookForPidfile, RenamePidfile, NextNode, AfterCleanup, Cleaning, loop
    <3> QED BY <1>9, <3>1, <3>2
  <2>2. Stage = 3 /\ Part = 0
    BY <2>1 DEF Stage, Part, Starting, Cleaning, Signalling
  <2>3. CASE pc' \in {"finish", "check"}
    <3>1. Stage' < Stage
      BY <2>2, <2>3 DEF Stage, Starting, Cleaning
    <3> QED BY <3>1, LaterStage
  <2>4. CASE pc' = "lockcheck" /\ node' = node + 1
    <3>1. Stage' = 3 /\ Part' = 0
      BY <2>4 DEF Stage, Part, Starting, Cleaning, Signalling
    <3> QED BY <2>1, <2>2, <2>4, <3>1, NextNodeLess
  <2>5. CASE /\ node' = node
             /\ \/ pc = "lockcheck" /\ pc' \in {"lockexists", "pidcheck"}
                \/ pc = "lockexists" /\ pc' \in {"rmlock", "pidcheck"}
                \/ pc = "rmlock" /\ pc' = "pidcheck"
                \/ pc = "pidcheck" /\ pc' = "pidexists"
                \/ pc = "pidexists" /\ pc' = "mvpid"
    <3>1. Stage' = 3 /\ Part' = 0 /\ Site' < Site
      BY <2>5 DEF Stage, Part, Site, Starting, Cleaning, Signalling
    <3> QED BY <1>h, <2>1, <2>2, <2>5, <3>1
  <2> QED BY <2>1, <2>3, <2>4, <2>5
<1> QED
  BY <1>1, <1>2, <1>3, <1>4, <1>5, <1>6, <1>7, <1>8, <1>9 DEF Command, Ends

\* Every set of numbers has a least one.
LEMMA LeastNumber ==
  ASSUME NEW T \in SUBSET Nat, T # {}
  PROVE  \E m \in T : \A k \in T : m <= k
<1> DEFINE R == OpToRel(<, Nat)
<1>1. IsWellFoundedOn(R, Nat)
  BY NatLessThanWellFounded
<1>2. PICK m \in T : \A k \in T : ~ (<<k, m>> \in R)
  <2> HIDE DEF R
  <2> QED BY <1>1, WFMin
<1>3. \A k \in T : ~(k < m)
  BY <1>2 DEF OpToRel
<1> QED BY <1>3

\* So measures cannot become less for ever: every set of them has one that none is
\* less than.
LEMMA MeasuresEnd ==
  ASSUME NEW T \in SUBSET Measures, T # {}
  PROVE  \E m \in T : \A t \in T : ~Less(t, m)
<1> DEFINE Least(S, i) == {t \in S : \A u \in S : t[i] <= u[i]}
<1>1. ASSUME NEW S \in SUBSET Measures, S # {}, NEW i \in 1..6
      PROVE  Least(S, i) # {} /\ Least(S, i) \in SUBSET Measures
  <2>1. {t[i] : t \in S} \in SUBSET Nat /\ {t[i] : t \in S} # {}
    BY <1>1 DEF Measures
  <2>2. PICK k \in {t[i] : t \in S} : \A l \in {t[i] : t \in S} : k <= l
    BY <2>1, LeastNumber
  <2> QED BY <1>1, <2>2
<1> DEFINE T1 == Least(T, 1)
           T2 == Least(T1, 2)
           T3 == Least(T2, 3)
           T4 == Least(T3, 4)
           T5 == Least(T4, 5)
           T6 == Least(T5, 6)
<1>2. T6 # {}
  <2> HIDE DEF Least
  <2>1. T1 # {} /\ T1 \in SUBSET Measures BY <1>1
  <2>2. T2 # {} /\ T2 \in SUBSET Measures
    <3> HIDE DEF T1
    <3> QED BY <1>1, <2>1
  <2>3. T3 # {} /\ T3 \in SUBSET Measures
    <3> HIDE DEF T2
    <3> QED BY <1>1, <2>2
  <2>4. T4 # {} /\ T4 \in SUBSET Measures
    <3> HIDE DEF T3
    <3> QED BY <1>1, <2>3
  <2>5. T5 # {} /\ T5 \in SUBSET Measures
    <3> HIDE DEF T4
    <3> QED BY <1>1, <2>4
  <2> HIDE DEF T5
  <2> QED BY <1>1, <2>5
<1>3. PICK m : m \in T6
  <2> HIDE DEF T6
  <2> QED BY <1>2
<1>4. m \in T /\ m \in T1 /\ m \in T2 /\ m \in T3 /\ m \in T4 /\ m \in T5
  BY <1>3
\* What agrees with m in all earlier numbers is not less in the next.
<1>5. ASSUME NEW S, NEW t \in S, NEW i, m \in Least(S, i)
      PROVE  m[i] <= t[i] /\ (t[i] = m[i] => t \in Least(S, i))
  BY <1>5
<1>6. ASSUME NEW t \in T, NEW i \in 1..6, t[i] < m[i], \A j \in 1..6 : j < i => t[j] = m[j]
      PROVE  FALSE
  <2>0. m[i] \in Nat /\ t[i] \in Nat
    BY <1>4 DEF Measures
  <2> HIDE DEF Least
  <2>1. (t[1] = m[1] => t \in T1) /\ m[1] <= t[1]
    BY <1>4, <1>5
  <2>2. t \in T1 => (t[2] = m[2] => t \in T2) /\ m[2] <= t[2]
    BY <1>4, <1>5
  <2>3. t \in T2 => (t[3] = m[3] => t \in T3) /\ m[3] <= t[3]
    BY <1>4, <1>5
  <2>4. t \in T3 => (t[4] = m[4] => t \in T4) /\ m[4] <= t[4]
    BY <1>4, <1>5
  <2>5. t \in T4 => (t[5] = m[5] => t \in T5) /\ m[5] <= t[5]
    BY <1>4, <1>5
  <2>6. t \in T5 => m[6] <= t[6]
    BY <1>3, <1>5
  <2> HIDE DEF T1, T2, T3, T4, T5, T6
  <2>7. m[i] <= t[i]
    <3>1. CASE i = 1
      BY <2>1, <3>1
    <3>2. CASE i = 2
      BY <2>1, <2>2, <1>6, <3>2
    <3>3. CASE i = 3
      BY <2>1, <2>2, <2>3, <1>6, <3>3
    <3>4. CASE i = 4
      BY <2>1, <2>2, <2>3, <2>4, <1>6, <3>4
    <3>5. CASE i = 5
      BY <2>1, <2>2, <2>3, <2>4, <2>5, <1>6, <3>5
    <3>6. CASE i = 6
      BY <2>1, <2>2, <2>3, <2>4, <2>5, <2>6, <1>6, <3>6
    <3> QED BY <3>1, <3>2, <3>3, <3>4, <3>5, <3>6
  <2> QED BY <1>6, <2>0, <2>7
<1> QED BY <1>4, <1>6 DEF Less

\* A command has a finite number of steps in it, whatever the tors do, with pids reused
\* or not: what it has left becomes less with each of its steps, and with no other step
\* more. (That it takes those steps, and that start() does not wait for ever, is what
\* CommandsEnd is about.)
THEOREM CommandsRunOut == Spec => StepsRunOut
<1> DEFINE SInv == TypeOK /\ CallInv
<1>1. Init => SInv
  BY InitIInv DEF IInv
<1>2. SInv /\ [Next]_vars => SInv'
  BY TypeStep, CallStep
<1>3. SInv /\ [Next]_vars =>
        [ /\ Command \/ Interrupt => Less(Left', Left)
          /\ System => Left' = Left ]_vars
  <2>1. ASSUME SInv, System PROVE Left' = Left
    <3>1. UNCHANGED <<pc, node, at, round, polls>>
      BY <2>1 DEF System, loop
    <3> QED BY <3>1 DEF Left, Stage, Part, Site, StepsAtNode, Starting, Signalling, Cleaning
  <2> QED BY <2>1, CommandLess
<1> QED BY <1>1, <1>2, <1>3, PTL DEF Spec, StepsRunOut
=============================================================================
