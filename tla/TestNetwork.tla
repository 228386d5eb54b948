---------------------------- MODULE TestNetwork ----------------------------
(***************************************************************************)
(* tools/test-network.sh, with test-network-impl.sh and                    *)
(* bootstrap-network.sh: attempts to bootstrap a network phase by phase,   *)
(* to verify it in rounds, and to stop it. All scripts run with errexit: a *)
(* command that fails ends its script, unless the script asks for it.      *)
(*                                                                         *)
(* Between two commands all that chutney knows is in the nodes directory,  *)
(* which configure creates anew: stop finds the tors of the newest one.    *)
(* What a command does on its way is in Configure, NodeLifecycle,          *)
(* WaitForBootstrap and Traffic; here it succeeds, with what is proved or  *)
(* checked there, or fails. The tors may exit at any time.                 *)
(***************************************************************************)
EXTENDS Verify, FiniteSets

CONSTANTS Networks, Options   \* values of net and args

ASSUME TestNetworkAssumption ==
  /\ \A n \in Networks :
       /\ {"phase", "clients", "exits", "hss"} \subseteq DOMAIN n
       /\ \A node \in DOMAIN n.phase : n.phase[node] \in Nat \ {0}
       /\ \E last \in DOMAIN n.phase : \A node \in DOMAIN n.phase : n.phase[node] <= n.phase[last]
       /\ n.clients \in Seq(DOMAIN n.phase)
       /\ n.exits \subseteq DOMAIN n.phase /\ n.hss \subseteq DOMAIN n.phase
  /\ Options \subseteq [failures : Nat, start : Int, time : Int, rounds : Nat, stop : Int,
                        data : Nat, multi : BOOLEAN]

VARIABLES
  at,        \* the command that is next, "failed" after one that ended the attempt
  attempt,   \* n_attempts
  phase,     \* launch_idx
  n_rounds,
  exit,      \* exit status of test-network.sh
  dir,       \* number of the newest nodes directory
  tors,      \* <<node, directory>> of every tor that runs
  booted     \* nodes that have bootstrapped and published in the newest directory

script == <<at, attempt, phase, n_rounds, exit>>
system == <<dir, tors, booted>>
vars == <<net, args, round, script, system>>

Nodes == DOMAIN net.phase
InPhase(p) == {n \in Nodes : net.phase[n] = p}
Running == {n \in Nodes : <<n, dir>> \in tors}

LastPhase == CHOOSE p \in {net.phase[n] : n \in Nodes} : \A n \in Nodes : net.phase[n] <= p

-----------------------------------------------------------------------------
(* The tors.                                                               *)

Crash ==
  /\ \E t \in tors : tors' = tors \ {t}
  /\ UNCHANGED <<net, args, round, script, dir, booted>>

FinishBootstrap ==
  /\ \E n \in Running \ booted : booted' = booted \union {n}
  /\ UNCHANGED <<net, args, round, script, dir, tors>>

-----------------------------------------------------------------------------
(* bootstrap-network.sh.                                                   *)

GoTo(command) == at' = command /\ UNCHANGED <<attempt, phase, n_rounds, exit>>

\* Mutant: the script goes on after a stop that failed.
StopGoesOn ==
  /\ at = "stop"
  /\ GoTo("configure")
  /\ tors' \in SUBSET tors
  /\ UNCHANGED <<net, args, round, dir, booted>>

\* All tors of the newest directory are gone, or an exception has left some. After
\* it, supported never objects: isSupported() answers None for each node, which
\* resets what a requirement has found missing.
Stop ==
  /\ at = "stop"
  /\ \/ tors' = {t \in tors : t[2] # dir} /\ GoTo("configure")
     \/ tors' \in SUBSET tors /\ GoTo("failed")
  /\ UNCHANGED <<net, args, round, dir, booted>>

\* A new directory and the link to it come first, then the files of the nodes; each may
\* fail. A directory of the same second is one way: its name is then no Path any more.
NewNodesDir ==
  /\ at = "configure"
  /\ GoTo("configuring")
  /\ dir' = dir + 1 /\ booted' = {} /\ reached' = {}
  /\ UNCHANGED <<net, args, tors, elapsed, tries, port, verdict>>

ConfigureFails ==
  /\ at \in {"configure", "configuring"}
  /\ GoTo("failed")
  /\ UNCHANGED <<net, args, round, system>>

Configured ==
  /\ at = "configuring"
  /\ at' = "start" /\ phase' = 1
  /\ UNCHANGED <<net, args, attempt, n_rounds, exit, round, system>>

Configure == NewNodesDir \/ ConfigureFails \/ Configured

\* The nodes of this phase that do not run yet; when not all of them start, the
\* script ends. The second time is for a network that was not up after three seconds.
Start ==
  \E started \in SUBSET InPhase(phase) :
    /\ Running \intersect InPhase(phase) \subseteq started
    /\ tors' = tors \union {<<n, dir>> : n \in started}
    /\ \/ at = "start" /\ GoTo(IF started = InPhase(phase) THEN "status" ELSE "failed")
       \/ at = "start again" /\ GoTo(IF started = InPhase(phase) THEN "status again" ELSE "failed")
    /\ UNCHANGED <<net, args, round, dir, booted>>

Up == InPhase(phase) \subseteq Running

Status ==
  /\ \/ at = "status" /\ GoTo(IF Up THEN "wait" ELSE "start again")
     \/ at = "status again" /\ GoTo(IF Up THEN "wait" ELSE "failed")
  /\ UNCHANGED <<net, args, round, system>>

NextPhase ==
  /\ IF phase < LastPhase
     THEN phase' = phase + 1 /\ at' = "start" /\ UNCHANGED n_rounds
     ELSE at' = "rounds" /\ n_rounds' = 0 /\ UNCHANGED phase
  /\ UNCHANGED <<attempt, exit>>

\* wait_for_bootstrap looks at the nodes up to this phase; their logs say what they
\* have reached, although they may have exited since. Without a wait, the script
\* reports, and a report may fail (diagnostics.sh and warnings.sh have errexit).
Wait ==
  /\ at = "wait"
  /\ \/ args.start < 0 /\ NextPhase
     \/ args.start >= 0 /\ {n \in Nodes : net.phase[n] <= phase} \subseteq booted /\ NextPhase
     \/ GoTo("failed")
  /\ UNCHANGED <<net, args, round, system>>

-----------------------------------------------------------------------------
(* test-network-impl.sh. Each exit is preceded by the reports.             *)

Exit(code) == exit' = code /\ at' = "exited" /\ UNCHANGED <<attempt, phase, n_rounds>>

LeaveUnverified ==
  /\ at = "rounds" /\ args.time < 0
  /\ Exit(0) \/ GoTo("failed")
  /\ UNCHANGED <<net, args, round, system>>

NextRound ==
  /\ at = "rounds" /\ args.time >= 0
  /\ n_rounds < args.rounds
  /\ GoTo("verify")
  /\ BeginRound
  /\ UNCHANGED <<net, args, system>>

\* Mutant: the answer of the last round is not looked at.
VerifiedIgnoresStatus ==
  /\ at = "verify" /\ verdict \in {"true", "false", "raised"}
  /\ at' = "rounds" /\ n_rounds' = n_rounds + 1 /\ UNCHANGED <<attempt, phase, exit>>
  /\ verdict' = "none"
  /\ UNCHANGED <<net, args, system, elapsed, tries, port, reached>>

\* Mutant: the rounds are not counted.
VerifiedNotCounted ==
  /\ at = "verify"
  /\ \/ verdict = "true" /\ GoTo("rounds")
     \/ verdict \in {"false", "raised"} /\ GoTo("failed")
  /\ verdict' = "none"
  /\ UNCHANGED <<net, args, system, elapsed, tries, port, reached>>

Verified ==
  /\ at = "verify"
  /\ \/ verdict = "true" /\ at' = "rounds" /\ n_rounds' = n_rounds + 1
        /\ UNCHANGED <<attempt, phase, exit>>
     \/ verdict \in {"false", "raised"} /\ GoTo("failed")
  /\ verdict' = "none"
  /\ UNCHANGED <<net, args, system, elapsed, tries, port, reached>>

LeaveRunning ==
  /\ at = "rounds" /\ n_rounds = args.rounds /\ args.stop < 0 /\ args.time >= 0
  /\ Exit(0) \/ GoTo("failed")
  /\ UNCHANGED <<net, args, round, system>>

StopAtTheEnd ==
  /\ at = "rounds" /\ n_rounds = args.rounds /\ args.stop >= 0 /\ args.time >= 0
  /\ \/ tors' = {t \in tors : t[2] # dir} /\ Exit(0)
     \/ tors' \in SUBSET tors /\ GoTo("failed")
  /\ UNCHANGED <<net, args, round, dir, booted>>

-----------------------------------------------------------------------------
(* test-network.sh. Its question for the status 77 comes after an if that  *)
(* has left 0 there.                                                       *)

\* Mutant: one attempt more than the failures that are allowed.
FailedOneMore ==
  /\ at = "failed"
  /\ \/ attempt <= args.failures + 1 /\ at' = "stop" /\ attempt' = attempt + 1
        /\ UNCHANGED <<phase, n_rounds, exit>>
     \/ attempt > args.failures + 1 /\ Exit(1)
  /\ UNCHANGED <<net, args, round, system>>

Failed ==
  /\ at = "failed"
  /\ \/ attempt <= args.failures /\ at' = "stop" /\ attempt' = attempt + 1
        /\ UNCHANGED <<phase, n_rounds, exit>>
     \/ attempt > args.failures /\ Exit(1)
  /\ UNCHANGED <<net, args, round, system>>

Init ==
  /\ net \in Networks /\ args \in Options
  /\ at = "stop" /\ attempt = 1 /\ phase = 1 /\ n_rounds = 0 /\ exit = -1
  /\ dir = 0 /\ tors \in SUBSET (Nodes \X {0}) /\ booted = {}
  /\ elapsed = 0 /\ tries = 0 /\ port = "free" /\ verdict = "none" /\ reached = {}

Verifying ==
  /\ at = "verify"
  /\ RunTest(Running)
  /\ UNCHANGED <<net, args, script, system>>

Command ==
  \/ Stop \/ Start \/ Status \/ Wait
  \/ LeaveUnverified \/ NextRound \/ Verifying \/ Verified \/ LeaveRunning \/ StopAtTheEnd
  \/ Failed

Script == Configure \/ Command

Collect == CollectGarbage /\ at = "verify" /\ UNCHANGED <<net, args, script, system>>

Next == Script \/ Collect \/ Crash \/ FinishBootstrap

\* The scripts and the commands end on their own (wait_for_bootstrap: Returns, the
\* others: CommandsEnd); nothing is assumed of the tors and the garbage collector.
Spec == Init /\ [][Next]_vars /\ WF_vars(Script)

-----------------------------------------------------------------------------
(* Properties                                                              *)

TypeOK ==
  /\ net \in Networks /\ args \in Options
  /\ at \in {"stop", "configure", "configuring", "start", "status", "start again", "status again", "wait",
             "rounds", "verify", "failed", "exited"}
  /\ attempt \in 1..(args.failures + 1)
  /\ phase \in 1..LastPhase
  /\ n_rounds \in 0..args.rounds
  /\ exit \in {-1, 0, 1}
  /\ dir \in 0..attempt
  /\ tors \subseteq Nodes \X (0..dir)
  /\ booted \subseteq Nodes
  /\ elapsed \in Nat /\ tries \in Nat
  /\ port \in {"free", "taken"}
  /\ verdict \in {"none", "trying", "true", "false", "raised"}
  /\ reached \subseteq clients \X (Nodes \union {"exit"})

\* Every tor that runs belongs to the newest nodes directory, where the next stop will
\* find it, however the attempts before failed: a new directory is linked only after
\* the tors of the old one are gone.
NoOrphans == \A t \in tors : t[2] = dir

\* Exit status 0 means that the last network was launched in all its phases, waited
\* for, verified over every client and every onion service, and stopped, except for
\* what the options leave out. Nothing is inherited from an attempt that failed.
SuccessIsEarned ==
  exit = 0 =>
    /\ phase = LastPhase
    /\ args.start >= 0 => booted = Nodes
    /\ args.time >= 0 /\ args.rounds > 0 =>
         /\ \A h \in net.hss : \E c \in clients : <<c, h>> \in reached
         /\ \A c \in clients : net.exits # {} => <<c, "exit">> \in reached
    /\ args.time >= 0 /\ args.stop >= 0 => tors = {}

\* The test ends: each attempt, each round and each try of it do.
Ends == <>(at = "exited")
=============================================================================
