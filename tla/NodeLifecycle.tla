--------------------------- MODULE NodeLifecycle ---------------------------
(***************************************************************************)
(* start, stop, restart, hup and status: how chutney controls the tor      *)
(* processes of a network through nothing but pid files and signals        *)
(* (LocalNodeController and Network in lib/chutney/TorNet.py).             *)
(*                                                                         *)
(* One chutney command runs at a time; the tors run beside it, and may     *)
(* write or remove their files, crash or exit between any two of its       *)
(* steps. Each file operation and each signal of the command is a step.    *)
(* What tor does is external: it takes the lock file of its data directory *)
(* and goes into the background, writes its pid file some time later, and  *)
(* when it shuts down it removes its pid file first, then may remove its   *)
(* lock file, and exits. A crash leaves all files behind.                  *)
(***************************************************************************)
EXTENDS Integers

CONSTANTS
  NumNodes,       \* the nodes of the network, in list order
  LaunchPhase,    \* launch_phase of each node
  Pids,           \* process ids
  None,           \* no file, no pid, no process
  Other,          \* owner of a process that has nothing to do with chutney
  Foreign,        \* owner of one that chutney may not signal (another user's)
  MaxPolls,       \* how often stop() looks before it escalates (15)
  Settled,        \* TRUE: commands begin when each tor has its pid file or is gone
  Timely,         \* TRUE: a tor that shuts down is gone within STOP_WAIT_TIME
  PidReuse,       \* TRUE: the system gives the pid of a dead tor to a new process
  LaunchMayFail   \* TRUE: the tor binary may be missing, or not be executed

Nodes == 1..NumNodes

\* CUR_LAUNCH_PHASE goes from 1 to the last phase that a node has.
Phases == UNION {1..LaunchPhase[n] : n \in Nodes}

ASSUME LifecycleAssumption ==
  /\ NumNodes \in Nat \ {0}
  /\ LaunchPhase \in [Nodes -> Nat \ {0}]
  /\ None \notin Pids /\ None \notin Nodes
  /\ Other \notin Nodes /\ Other # None
  /\ Foreign \notin Nodes /\ Foreign # None
  /\ MaxPolls \in Nat \ {0}
  /\ Settled \in BOOLEAN /\ Timely \in BOOLEAN
  /\ PidReuse \in BOOLEAN /\ LaunchMayFail \in BOOLEAN

VARIABLES
  owner,       \* the process table: a node's tor, Other, Foreign, or None for each pid
  stage,       \* launched, starting (has the lock), running (has its pid file),
               \* leaving (has removed it): how far the tor of each pid is
  sigints,     \* history: SIGINTs a live process has received
  pidfile,     \* content of each node's pid file, None if there is none
  lockfile,    \* who created each node's lock file, None if there is none
  verb,        \* the command that runs, or ran last
  phase,       \* its CUR_LAUNCH_PHASE
  pc, node,    \* where the command is, and at which node
  pid,         \* local variable of check, stop and hup; the process start waits for
  at, asked,   \* where getPid and isRunning are, and the pid isRunning asks for
  child,       \* what start knows of the process it has launched
  round,       \* which of SIGINT, another SIGINT, SIGKILL stop() is at
  polls,       \* polls of this round
  anyRunning,  \* any_tor_was_running
  ok,          \* what the command will return
  result,      \* how the last command ended
  launched     \* history: nodes this command found running or launched

files == <<pidfile, lockfile>>
os == <<owner, stage, sigints>>
call == <<pid, at, asked, child>>
loop == <<round, polls, anyRunning, ok>>
vars == <<os, files, verb, phase, pc, node, call, loop, result, launched>>

Verbs == {"start", "stop", "restart", "hup", "status"}

Alive(p) == owner[p] # None
Tor(p) == owner[p] \in Nodes

\* Does a live tor hold the lock file of node n?
Locked(n) ==
  /\ lockfile[n] # None
  /\ owner[lockfile[n]] = n
  /\ stage[lockfile[n]] # "launched"

\* Is p the process that start() waits for?
Awaited(p) == pc = "communicate" /\ pid = p /\ stage[p] = "launched"

\* The process with pid p is gone.
Dies(p) ==
  /\ owner' = [owner EXCEPT ![p] = None]
  /\ stage' = [stage EXCEPT ![p] = "none"]
  /\ sigints' = [sigints EXCEPT ![p] = 0]
  /\ child' = IF Awaited(p) THEN "failed" ELSE child

-----------------------------------------------------------------------------
(* The tors and the rest of the system.                                    *)

\* With RunAsDaemon, the process that was launched ends well when its tor has gone
\* into the background, which it does once it has the lock.
TakeLock(p) ==
  /\ Tor(p) /\ stage[p] = "launched"
  /\ ~Locked(owner[p])
  /\ lockfile' = [lockfile EXCEPT ![owner[p]] = p]
  /\ stage' = [stage EXCEPT ![p] = "starting"]
  /\ child' = IF Awaited(p) THEN "ok" ELSE child
  /\ UNCHANGED <<owner, sigints, pidfile>>

WritePid(p) ==
  /\ Tor(p) /\ stage[p] = "starting"
  /\ pidfile' = [pidfile EXCEPT ![owner[p]] = p]
  /\ stage' = [stage EXCEPT ![p] = "running"]
  /\ UNCHANGED <<owner, sigints, lockfile, child>>

\* A crash at any time, or a tor that refuses to start: another one has the lock, or
\* its configuration or a port is no good.
Crash(p) ==
  /\ Tor(p)
  /\ Dies(p)
  /\ UNCHANGED files

\* The shutdown that SIGINT asks for. It may take long, or never happen.
Shutdown(p) ==
  /\ Tor(p) /\ stage[p] = "running"
  /\ sigints[p] > 0
  /\ pidfile' = [pidfile EXCEPT ![owner[p]] = None]
  /\ stage' = [stage EXCEPT ![p] = "leaving"]
  /\ UNCHANGED <<owner, sigints, lockfile, child>>

\* Its end, with or without its lock file.
Exit(p) ==
  /\ Tor(p) /\ stage[p] = "leaving"
  /\ Dies(p)
  /\ \/ UNCHANGED lockfile
     \/ /\ lockfile[owner[p]] = p
        /\ lockfile' = [lockfile EXCEPT ![owner[p]] = None]
  /\ UNCHANGED pidfile

ReusePid(p) ==
  /\ PidReuse
  /\ ~Alive(p)
  /\ \E o \in {Other, Foreign} : owner' = [owner EXCEPT ![p] = o]
  /\ UNCHANGED <<stage, sigints, files, child>>

OtherExits(p) ==
  /\ owner[p] \in {Other, Foreign}
  /\ Dies(p)
  /\ UNCHANGED files

System ==
  /\ \E p \in Pids :
       \/ TakeLock(p) \/ WritePid(p) \/ Crash(p) \/ Shutdown(p) \/ Exit(p)
       \/ ReusePid(p) \/ OtherExits(p)
  /\ UNCHANGED <<verb, phase, pc, node, pid, at, asked, loop, result, launched>>

-----------------------------------------------------------------------------
(* The frame of every command: a loop over the nodes, an answer.           *)

\* Mutant: the loop runs past the last node.
NextNodeTooFar(step, last) ==
  IF node <= NumNodes
    THEN node' = node + 1 /\ pc' = step
    ELSE node' = 1 /\ pc' = last

\* Go on with the next node, or, after the last one, with step last.
NextNode(step, last) ==
  IF node < NumNodes
    THEN node' = node + 1 /\ pc' = step
    ELSE node' = 1 /\ pc' = last

\* A method of the controller returns: its local variables are gone.
Returns == pid' = None /\ at' = "exists" /\ asked' = None /\ child' = "none"

Answer(r) ==
  /\ pc' = "idle"
  /\ result' = r
  /\ node' = 1 /\ round' = 1 /\ polls' = 0 /\ ok' = TRUE
  /\ Returns
  /\ UNCHANGED <<os, files, verb, phase, anyRunning, launched>>

\* Every command is a process of its own, with fresh local variables.
Begin(v, ph) ==
  /\ pc = "idle"
  /\ Settled => \A p \in Pids : Tor(p) => stage[p] = "running"
  /\ verb' = v
  /\ phase' = ph
  /\ pc' = CASE v = "start" -> "check"
             [] v \in {"stop", "restart"} -> "probe"
             [] v = "hup" -> "getpid"
             [] v = "status" -> "look"
  /\ anyRunning' = FALSE
  /\ result' = "none"
  /\ launched' = {}
  /\ UNCHANGED <<os, files, node, call, round, polls, ok>>

\* The value of the command becomes the exit status; restart() has none.
Finish ==
  /\ pc = "finish"
  /\ Answer(IF ok \/ verb = "restart" THEN "ok" ELSE "failed")

\* The user interrupts the command: KeyboardInterrupt ends it where it is.
Interrupt ==
  /\ pc # "idle"
  /\ Answer("interrupted")

-----------------------------------------------------------------------------
(* getPid and isRunning, wherever they are called.                         *)

\* Where a method reads the pid itself, and where it then calls isRunning(pid).
Readers == {"look", "report", "getpid"}
AsksAt == [look |-> "looking", report |-> "reporting", getpid |-> "signal"]

\* Where isRunning() is called, without a pid or with the one that was read.
Askers == {"check", "probe", "poll", "lockcheck", "pidcheck", "looking", "reporting", "signal"}

\* start and status leave out the nodes of other phases.
OutOfPhase == pc \in {"check", "look"} /\ LaunchPhase[node] # phase

\* Mutant: every node is given the pid file of the first one.
getFirstPid(n) == pidfile[1]

\* What getPid finds in the pid file of n, None if there is no file.
getPid(n) == pidfile[n]

\* pidfile.exists(): the file is going to be opened.
FindPidfile ==
  /\ pc \in Readers \union Askers /\ at = "exists" /\ ~OutOfPhase
  /\ getPid(node) # None
  /\ at' = "open"
  /\ UNCHANGED <<os, files, verb, phase, pc, node, pid, asked, child, loop, result, launched>>

\* It may have gone since (FileNotFoundError).
OpenRaises ==
  /\ at = "open"
  /\ getPid(node) = None
  /\ Answer("exception")

\* isRunning reads the pid itself.
ReadPid ==
  /\ pc \in Askers /\ at = "open"
  /\ getPid(node) # None
  /\ asked' = getPid(node)
  /\ at' = "ask"
  /\ UNCHANGED <<os, files, verb, phase, pc, node, pid, child, loop, result, launched>>

\* check(), stop() and hup() read it, and give it to isRunning, which reads once more
\* if there was none.
GetPid ==
  /\ pc \in Readers /\ ~OutOfPhase
  /\ \/ at = "exists" /\ getPid(node) = None /\ UNCHANGED at
     \/ at = "open" /\ getPid(node) # None /\ at' = "ask"
  /\ pid' = getPid(node) /\ asked' = getPid(node)
  /\ pc' = AsksAt[pc]
  /\ UNCHANGED <<os, files, verb, phase, node, child, loop, result, launched>>

\* kill(pid, 0) for the process of another user: any error but ESRCH is raised again.
AskRaises ==
  /\ at = "ask"
  /\ owner[asked] = Foreign
  /\ Answer("exception")

\* isRunning returns the answer now. "process exists": for any process with that pid.
isRunning(answer) ==
  \/ at = "exists" /\ ~OutOfPhase /\ getPid(node) = None /\ answer = FALSE
  \/ at = "ask" /\ owner[asked] # Foreign /\ answer = Alive(asked)

-----------------------------------------------------------------------------
(* start and status: the nodes of the current launch phase.                *)

\* A node of another phase is not in the list.
Skip ==
  /\ OutOfPhase
  /\ NextNode(pc, "finish")
  /\ UNCHANGED <<os, files, verb, phase, call, loop, result, launched>>

\* LocalNodeController.start: nothing to do for a node that is running.
CheckStarted ==
  /\ pc = "check"
  /\ \/ /\ isRunning(TRUE)
        /\ launched' = launched \union {node}
        /\ NextNode("check", "finish")
     \/ /\ isRunning(FALSE)
        /\ pc' = "launch"
        /\ UNCHANGED <<node, launched>>
  /\ Returns
  /\ UNCHANGED <<os, files, verb, phase, loop, result>>

\* Popen: a process that has not got anywhere yet.
Launch(p) ==
  /\ pc = "launch"
  /\ ~Alive(p)
  /\ PidReuse \/ \A n \in Nodes : pidfile[n] # p
  /\ owner' = [owner EXCEPT ![p] = node]
  /\ stage' = [stage EXCEPT ![p] = "launched"]
  /\ pid' = p /\ child' = "running"
  /\ pc' = "communicate"
  /\ UNCHANGED <<sigints, files, verb, phase, node, at, asked, loop, result, launched>>

\* No such binary, or it cannot be executed: the whole command ends.
LaunchRaises ==
  /\ pc = "launch"
  /\ LaunchMayFail
  /\ Answer("exception")

\* Mutant: the result of the last node is the result of all.
CommunicateLast ==
  /\ pc = "communicate"
  /\ child # "running"
  /\ ok' = (child = "ok")
  /\ launched' = IF child = "ok" THEN launched \union {node} ELSE launched
  /\ NextNode("check", "finish")
  /\ Returns
  /\ UNCHANGED <<os, files, verb, phase, round, polls, anyRunning, result>>

\* communicate() returns when the launched process has ended, however long that
\* takes. start() goes on with the other nodes in either case.
Communicate ==
  /\ pc = "communicate"
  /\ child # "running"
  /\ ok' = (ok /\ child = "ok")
  /\ launched' = IF child = "ok" THEN launched \union {node} ELSE launched
  /\ NextNode("check", "finish")
  /\ Returns
  /\ UNCHANGED <<os, files, verb, phase, round, polls, anyRunning, result>>

\* Mutant: the last node speaks for all.
LookLast ==
  /\ pc = "looking"
  /\ \/ isRunning(TRUE) /\ pid # None /\ ok' = TRUE
     \/ isRunning(FALSE) /\ ok' = FALSE
  /\ NextNode("look", "finish")
  /\ Returns
  /\ UNCHANGED <<os, files, verb, phase, round, polls, anyRunning, result, launched>>

\* status: are all nodes of the phase running?
Look ==
  /\ pc = "looking"
  /\ \/ isRunning(TRUE) /\ pid # None /\ UNCHANGED ok
     \/ isRunning(FALSE) /\ ok' = FALSE
  /\ NextNode("look", "finish")
  /\ Returns
  /\ UNCHANGED <<os, files, verb, phase, round, polls, anyRunning, result, launched>>

\* check() prints the pid it has read: none, if only isRunning has found the file.
FormatRaises ==
  /\ pc \in {"looking", "reporting"}
  /\ isRunning(TRUE) /\ pid = None
  /\ Answer("exception")

-----------------------------------------------------------------------------
(* stop and hup: signal every node that is running.                        *)

\* Mutants: a stop that only ever asks, and one that kills after asking once.
SignalPolitely == IF verb = "hup" THEN "SIGHUP" ELSE "SIGINT"
SignalHastily == IF verb = "hup" THEN "SIGHUP" ELSE IF round < 2 THEN "SIGINT" ELSE "SIGKILL"

Signal == IF verb = "hup" THEN "SIGHUP" ELSE IF round < 3 THEN "SIGINT" ELSE "SIGKILL"

\* Where the loop over the nodes goes on after one of them is dealt with.
Signalled ==
  IF verb = "hup" THEN NextNode("getpid", "finish") ELSE NextNode("probe", "poll")

\* stop(): c.isRunning().
Probe ==
  /\ pc = "probe"
  /\ \/ isRunning(TRUE) /\ pc' = "getpid" /\ anyRunning' = TRUE /\ UNCHANGED node
     \/ isRunning(FALSE) /\ NextNode("probe", "poll") /\ UNCHANGED anyRunning
  /\ Returns
  /\ UNCHANGED <<os, files, verb, phase, round, polls, ok, result, launched>>

\* stop(sig) and hup(), of a node that is not running after all.
NotRunning ==
  /\ pc = "signal"
  /\ isRunning(FALSE)
  /\ ok' = (ok /\ verb # "hup")
  /\ Signalled
  /\ Returns
  /\ UNCHANGED <<os, files, verb, phase, round, polls, anyRunning, result, launched>>

FoundRunning ==
  /\ pc = "signal"
  /\ isRunning(TRUE)
  /\ pc' = "kill"
  /\ at' = "exists" /\ asked' = None
  /\ UNCHANGED <<os, files, verb, phase, node, pid, child, loop, result, launched>>

\* os.kill raises for a pid that is None, for one that has just died (ESRCH), and for
\* the process of another user; nobody catches it.
KillRaises ==
  /\ pc = "kill"
  /\ \/ pid = None
     \/ pid # None /\ owner[pid] \in {None, Foreign}
  /\ Answer("exception")

Kill ==
  /\ pc = "kill"
  /\ pid # None /\ owner[pid] \notin {None, Foreign}
  /\ \/ /\ Signal = "SIGKILL"
        /\ owner' = [owner EXCEPT ![pid] = None]
        /\ stage' = [stage EXCEPT ![pid] = "none"]
        /\ sigints' = [sigints EXCEPT ![pid] = 0]
     \/ /\ Signal = "SIGINT"
        /\ sigints' = [sigints EXCEPT ![pid] = IF @ < 2 THEN @ + 1 ELSE @]
        /\ UNCHANGED <<owner, stage>>
     \/ /\ Signal = "SIGHUP"
        /\ UNCHANGED os
  /\ Signalled
  /\ Returns
  /\ UNCHANGED <<files, verb, phase, loop, result, launched>>

\* Mutant: stop() waits for as long as a node is running.
PollForever ==
  /\ pc = "poll"
  /\ \/ isRunning(FALSE) /\ NextNode("poll", "sleep")
     \/ isRunning(TRUE) /\ node' = 1 /\ UNCHANGED pc
  /\ Returns
  /\ UNCHANGED <<os, files, verb, phase, loop, result, launched>>

\* all(not c.isRunning() for c in controllers), once a second. After MaxPolls polls
\* that found a node running, the nodes are listed and the next signal is due.
Poll ==
  /\ pc = "poll"
  /\ \/ /\ isRunning(FALSE)
        /\ NextNode("poll", "sleep")
        /\ UNCHANGED polls
     \/ /\ isRunning(TRUE)
        /\ node' = 1
        /\ \/ polls + 1 < MaxPolls /\ polls' = polls + 1 /\ UNCHANGED pc
           \/ polls + 1 = MaxPolls /\ polls' = 0 /\ pc' = "report"
  /\ Returns
  /\ UNCHANGED <<os, files, verb, phase, round, anyRunning, ok, result, launched>>

\* c.check(listNonRunning=False) for every node, whatever it returns; then the next
\* signal, if there is one.
Report ==
  /\ pc = "reporting"
  /\ \/ isRunning(TRUE) /\ pid # None
     \/ isRunning(FALSE)
  /\ NextNode("report", IF round < 3 THEN "probe" ELSE "sleep")
  /\ round' = IF node = NumNodes /\ round < 3 THEN round + 1 ELSE round
  /\ Returns
  /\ UNCHANGED <<os, files, verb, phase, polls, anyRunning, ok, result, launched>>

-----------------------------------------------------------------------------
(* final_cleanup: remove stale lock files, move stale pid files away.      *)

AfterCleanup == IF verb = "restart" THEN "check" ELSE "finish"

\* STOP_WAIT_TIME, if a tor was running.
Sleep ==
  /\ pc = "sleep"
  /\ Timely /\ anyRunning => \A p \in Pids : Tor(p) => stage[p] # "leaving"
  /\ pc' = "lockcheck"
  /\ UNCHANGED <<os, files, verb, phase, node, call, loop, result, launched>>

\* cleanup_lockfile: not self.isRunning() and lf.exists().
CheckLockfile ==
  /\ pc = "lockcheck"
  /\ \/ isRunning(TRUE) /\ pc' = "pidcheck"
     \/ isRunning(FALSE) /\ pc' = "lockexists"
  /\ Returns
  /\ UNCHANGED <<os, files, verb, phase, node, loop, result, launched>>

LookForLockfile ==
  /\ pc = "lockexists"
  /\ pc' = IF lockfile[node] # None THEN "rmlock" ELSE "pidcheck"
  /\ UNCHANGED <<os, files, verb, phase, node, call, loop, result, launched>>

RemoveLockfile ==
  /\ pc = "rmlock"
  /\ lockfile[node] # None
  /\ lockfile' = [lockfile EXCEPT ![node] = None]
  /\ pc' = "pidcheck"
  /\ UNCHANGED <<os, pidfile, verb, phase, node, call, loop, result, launched>>

\* cleanup_pidfile: not self.isRunning() and pidfile.exists().
CheckPidfile ==
  /\ pc = "pidcheck"
  /\ \/ isRunning(TRUE) /\ NextNode("lockcheck", AfterCleanup)
     \/ isRunning(FALSE) /\ pc' = "pidexists" /\ UNCHANGED node
  /\ Returns
  /\ UNCHANGED <<os, files, verb, phase, loop, result, launched>>

LookForPidfile ==
  /\ pc = "pidexists"
  /\ \/ pidfile[node] # None /\ pc' = "mvpid" /\ UNCHANGED node
     \/ pidfile[node] = None /\ NextNode("lockcheck", AfterCleanup)
  /\ UNCHANGED <<os, files, verb, phase, call, loop, result, launched>>

RenamePidfile ==
  /\ pc = "mvpid"
  /\ pidfile[node] # None
  /\ pidfile' = [pidfile EXCEPT ![node] = None]
  /\ NextNode("lockcheck", AfterCleanup)
  /\ UNCHANGED <<os, lockfile, verb, phase, call, loop, result, launched>>

\* os.remove and rename raise when the file has gone since it was looked for.
CleanupRaises ==
  /\ \/ pc = "rmlock" /\ lockfile[node] = None
     \/ pc = "mvpid" /\ pidfile[node] = None
  /\ Answer("exception")

-----------------------------------------------------------------------------
Command ==
  \/ FindPidfile \/ OpenRaises \/ ReadPid \/ GetPid \/ AskRaises
  \/ Skip \/ CheckStarted \/ (\E p \in Pids : Launch(p)) \/ LaunchRaises \/ Communicate
  \/ Look \/ FormatRaises
  \/ Probe \/ NotRunning \/ FoundRunning \/ Kill \/ KillRaises \/ Poll \/ Report
  \/ Sleep \/ CheckLockfile \/ LookForLockfile \/ RemoveLockfile
  \/ CheckPidfile \/ LookForPidfile \/ RenamePidfile \/ CleanupRaises
  \/ Finish

\* The state configure leaves behind: data directories without any run files.
Init ==
  /\ owner = [p \in Pids |-> None]
  /\ stage = [p \in Pids |-> "none"]
  /\ sigints = [p \in Pids |-> 0]
  /\ pidfile = [n \in Nodes |-> None]
  /\ lockfile = [n \in Nodes |-> None]
  /\ verb = "stop" /\ phase = 1
  /\ pc = "idle" /\ node = 1
  /\ pid = None /\ at = "exists" /\ asked = None /\ child = "none"
  /\ round = 1 /\ polls = 0 /\ anyRunning = FALSE /\ ok = TRUE
  /\ result = "none"
  /\ launched = {}

Next ==
  \/ System
  \/ \E v \in Verbs, ph \in Phases : Begin(v, ph)
  \/ Command
  \/ Interrupt

Spec == Init /\ [][Next]_vars

\* A command that can go on does; nothing is assumed of the tors.
FairSpec == Spec /\ WF_vars(Command)

-----------------------------------------------------------------------------
(* Properties                                                              *)

TypeOK ==
  /\ owner \in [Pids -> Nodes \union {Other, Foreign, None}]
  /\ stage \in [Pids -> {"none", "launched", "starting", "running", "leaving"}]
  /\ sigints \in [Pids -> 0..2]
  /\ pidfile \in [Nodes -> Pids \union {None}]
  /\ lockfile \in [Nodes -> Pids \union {None}]
  /\ verb \in Verbs /\ phase \in Nat
  /\ pc \in Readers \union Askers \union
       {"idle", "launch", "communicate", "kill", "sleep", "lockexists", "rmlock",
        "pidexists", "mvpid", "finish"}
  /\ node \in Nodes
  /\ pid \in Pids \union {None}
  /\ at \in {"exists", "open", "ask"}
  /\ asked \in Pids \union {None}
  /\ child \in {"none", "running", "ok", "failed"}
  /\ round \in 1..3 /\ polls \in 0..(MaxPolls - 1)
  /\ anyRunning \in BOOLEAN /\ ok \in BOOLEAN
  /\ result \in {"none", "ok", "failed", "exception", "interrupted"}
  /\ launched \subseteq Nodes

Answered(v, r) == pc = "idle" /\ verb = v /\ result = r

\* What the run files are for: a tor can always be found through its pid file, from
\* the moment it has written it until it shuts down, and keeps other tors out of its
\* data directory for as long.
LiveTorsAreFound ==
  \A p \in Pids : Tor(p) =>
    /\ stage[p] = "running" => pidfile[owner[p]] = p
    /\ stage[p] \in {"starting", "running"} => lockfile[owner[p]] = p

\* At most one tor works on a data directory.
OneTorPerNode ==
  \A p, q \in Pids :
    Tor(p) /\ owner[p] = owner[q] /\ {stage[p], stage[q]} \subseteq {"starting", "running"} => p = q

\* After a stop that ends normally no tor of the network is left, hung or not, apart
\* from those that were shutting down before this stop has found any running; nor
\* (unless a pid was reused) a file that the next stop could take for a tor's.
StopStopsAll ==
  Answered("stop", "ok") =>
    /\ \A p \in Pids : Tor(p) => stage[p] = "leaving" /\ ~(Timely /\ anyRunning)
    /\ ~PidReuse => \A n \in Nodes : pidfile[n] = None /\ lockfile[n] = None

\* start tells the truth: it returns True exactly if every node of the phase was
\* found running or could be launched, whichever of them failed in between.
StartIsHonest ==
  pc = "idle" /\ verb = "start" /\ result \in {"ok", "failed"} =>
    (result = "ok" <=> launched = {n \in Nodes : LaunchPhase[n] = phase})

\* SIGKILL is the last resort: a tor that is killed by the command has been
\* asked twice before.
KillIsLastResort ==
  [][\A p \in Pids : Kill /\ Tor(p) /\ owner'[p] = None => sigints[p] = 2]_vars

\* A command ends, whatever becomes of the tors and their files, unless it waits for
\* ever for a tor that it has launched and that neither goes into the background nor
\* exits.
CommandsEnd ==
  \/ <>[](pc = "communicate" /\ child = "running")
  \/ (pc # "idle" ~> pc = "idle")

-----------------------------------------------------------------------------
(* Inductive strengthening, for commands that begin when each tor has its  *)
(* pid file.                                                               *)

Signalling == pc \in {"probe", "getpid", "signal", "kill"}
Reporting == pc \in {"report", "reporting"}
Cleaning == pc \in {"lockcheck", "lockexists", "rmlock", "pidcheck", "pidexists", "mvpid"}
Starting == pc \in {"check", "launch", "communicate"}
Holding == pc \in {"looking", "reporting", "signal", "kill"}

\* No tor of node n is left, but those that shut down.
Down(n) == \A p \in Pids : owner[p] = n => stage[p] = "leaving"

\* Which step a call is at.
CallInv ==
  /\ at = "open" => pc \in Readers \union Askers
  /\ at = "ask" => pc \in Askers /\ asked # None
  /\ pc \in {"looking", "reporting", "signal"} /\ pid # None => at = "ask" /\ asked = pid
  /\ OutOfPhase => at = "exists"
  /\ pc = "idle" => node = 1 /\ round = 1 /\ polls = 0 /\ ok /\ at = "exists"
  /\ pc = "sleep" => node = 1

\* Which steps a command goes through.
VerbInv ==
  /\ pc \in {"probe", "poll", "sleep"} \/ Reporting \/ Cleaning => verb \in {"stop", "restart"}
  /\ pc \in {"getpid", "signal", "kill"} => verb \in {"stop", "restart", "hup"}
  /\ Starting => verb \in {"start", "restart"}
  /\ pc \in {"look", "looking"} => verb = "status"
  /\ verb = "hup" => round = 1

\* Only start() runs while a tor is without its pid file, one that it has launched.
StageInv ==
  /\ \A p \in Pids : Tor(p) <=> stage[p] # "none"
  /\ pc \notin {"idle", "finish"} => \A p \in Pids : stage[p] \in {"launched", "starting"} =>
       Starting /\ (owner[p] < node \/ (owner[p] = node /\ pc = "communicate"))

\* The pid that a command holds is still the one in the pid file, if there is one, and
\* that of the only tor of the node it is at.
HeldInv ==
  /\ at = "ask" =>
       /\ pidfile[node] \in {asked, None}
       /\ \A q \in Pids : owner[q] = node /\ stage[q] # "leaving" => q = asked
  /\ Holding =>
       /\ pidfile[node] \in {pid, None}
       /\ \A q \in Pids : owner[q] = node /\ stage[q] # "leaving" => q = pid

\* How far stop() has come.
StopInv ==
  /\ Signalling /\ round = 3 => \A n \in Nodes : n < node => Down(n)
  /\ pc = "poll" => \A n \in Nodes : n < node \/ round = 3 => Down(n)
  /\ Reporting /\ round = 3 => \A n \in Nodes : Down(n)
  /\ pc = "sleep" \/ Cleaning => \A n \in Nodes : Down(n)
  /\ verb = "stop" /\ (pc = "finish" \/ Answered("stop", "ok")) => \A n \in Nodes : Down(n)
  /\ Cleaning \/ (verb = "stop" /\ (pc = "finish" \/ Answered("stop", "ok"))) =>
       ~(Timely /\ anyRunning /\ \E p \in Pids : Tor(p))

\* How often stop() has asked the tors that the pid files name, and the one it holds.
AskedInv ==
  verb \in {"stop", "restart"} /\ (Signalling \/ pc = "poll" \/ Reporting) =>
    /\ \A n \in Nodes, p \in Pids : pidfile[n] = p /\ Tor(p) =>
         IF Signalling /\ n >= node
           THEN sigints[p] >= round - 1
           ELSE sigints[p] >= 1 /\ (round > 1 => sigints[p] = 2)
    /\ pc \in {"signal", "kill"} /\ pid # None /\ Tor(pid) => sigints[pid] >= round - 1

IInv ==
  /\ TypeOK /\ LiveTorsAreFound
  /\ CallInv /\ VerbInv /\ StageInv /\ HeldInv /\ StopInv /\ AskedInv

\* The nodes of the phase that start() has passed.
Passed == {n \in Nodes : LaunchPhase[n] = phase /\ (n < node \/ pc = "finish")}

\* start() has kept count of the nodes it has passed.
StartInv ==
  /\ verb = "start" /\ (Starting \/ pc = "finish") =>
       /\ launched \subseteq Passed
       /\ ok <=> launched = Passed
  /\ pc \in {"launch", "communicate"} => LaunchPhase[node] = phase
  /\ StartIsHonest

-----------------------------------------------------------------------------
(* What holds beyond that as long as no pid is used again.                 *)

Controlled == Settled /\ ~PidReuse

\* A pid that a file names or a command holds is the node's own tor, or dead.
OwnInv ==
  /\ \A p \in Pids : owner[p] \notin {Other, Foreign}
  /\ \A n \in Nodes, p \in Pids : pidfile[n] = p /\ Alive(p) => owner[p] = n /\ stage[p] = "running"
  /\ at = "ask" /\ Alive(asked) => owner[asked] = node
  /\ Holding /\ pid # None /\ Alive(pid) => owner[pid] = node

\* The clean-up finds no node running, and has removed the files of those it has passed.
CleanedInv ==
  /\ Cleaning =>
       /\ at = "ask" => ~Alive(asked)
       /\ \A n \in Nodes : n < node => pidfile[n] = None
       /\ \A n \in Nodes : n < node \/ (n = node /\ pc \in {"pidcheck", "pidexists", "mvpid"}) => lockfile[n] = None
  /\ verb = "stop" /\ (pc = "finish" \/ Answered("stop", "ok")) =>
       \A n \in Nodes : pidfile[n] = None /\ lockfile[n] = None

CInv == OwnInv /\ CleanedInv

-----------------------------------------------------------------------------
(* What the documentation says, which the code does not do.                *)

\* Network.stop: "Stop our network's running tor nodes." The least that this means is
\* that a tor which is left has been asked to exit. But one that dies just before it
\* is signalled ends the loop with an exception, and the others are not even asked.
StopStopsRunningNodes ==
  pc = "idle" /\ verb = "stop" /\ result \notin {"none", "interrupted"} =>
    \A p \in Pids : Tor(p) => sigints[p] > 0
=============================================================================
