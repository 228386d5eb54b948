------------------------- MODULE TestNetworkProofs -------------------------
(***************************************************************************)
(* Theorems about TestNetwork, for every set of networks and options: no   *)
(* tor is orphaned, exit status 0 is earned, and the port comes back.      *)
(***************************************************************************)
EXTENDS TestNetwork, TLAPS

LEMMA LastPhaseIsLast ==
  ASSUME net \in Networks
  PROVE  /\ LastPhase \in Nat \ {0}
         /\ \A n \in Nodes : net.phase[n] \in Nat /\ net.phase[n] <= LastPhase
  <1> DEFINE Phases == {net.phase[n] : n \in Nodes}
  <1>1. PICK last \in Nodes : \A n \in Nodes : net.phase[n] <= net.phase[last]
    BY TestNetworkAssumption DEF Nodes
  <1>2. \E p \in Phases : \A n \in Nodes : net.phase[n] <= p
    BY <1>1
  <1>3. LastPhase \in Phases /\ \A n \in Nodes : net.phase[n] <= LastPhase
    BY <1>2 DEF LastPhase
  <1>4. \A n \in Nodes : net.phase[n] \in Nat \ {0}
    BY TestNetworkAssumption DEF Nodes
  <1> QED
    BY <1>3, <1>4

-----------------------------------------------------------------------------
(* The invariant.                                                          *)

ConstInv == net \in Networks /\ args \in Options

DirInv ==
  /\ dir \in Nat
  /\ NoOrphans
  /\ at = "configure" => tors = {}

PhaseInv ==
  /\ phase \in Nat \ {0} /\ phase <= LastPhase
  /\ booted \subseteq Nodes
  /\ at \in {"rounds", "verify"} => phase = LastPhase /\ (args.start >= 0 => booted = Nodes)

AllReached ==
  /\ \A h \in net.hss : \E c \in clients : <<c, h>> \in reached
  /\ \A c \in clients : net.exits # {} => <<c, "exit">> \in reached

RoundInv ==
  /\ n_rounds \in Nat
  /\ at # "verify" => verdict = "none"
  /\ verdict = "true" => AllReached
  /\ at \in {"rounds", "verify"} /\ n_rounds > 0 => AllReached

ExitInv == (exit = 0 => at = "exited") /\ SuccessIsEarned

PortInv == (port = "taken" => ~Testable) /\ PortComesBack

DataInv == verdict = "true" => args.data > 0

IInv == ConstInv /\ DirInv /\ PhaseInv /\ RoundInv /\ ExitInv /\ PortInv /\ DataInv

LEMMA InitInv == Init => IInv
  <1> SUFFICES ASSUME Init PROVE IInv
    OBVIOUS
  <1>1. ConstInv
    BY DEF Init, ConstInv
  <1>2. DirInv
    BY DEF Init, DirInv, NoOrphans
  <1>3. PhaseInv
    BY <1>1, LastPhaseIsLast DEF Init, PhaseInv, ConstInv
  <1>4. RoundInv /\ ExitInv /\ PortInv /\ DataInv
    BY DEF Init, DataInv, RoundInv, ExitInv, SuccessIsEarned, PortInv, PortComesBack
  <1> QED
    BY <1>1, <1>2, <1>3, <1>4 DEF IInv

-----------------------------------------------------------------------------
(* The steps.                                                              *)

USE DEF GoTo, Exit

LEMMA ConstStep == IInv /\ [Next]_vars => ConstInv' /\ net' = net /\ args' = args
  BY DEF IInv, ConstInv, Next, vars, Script, Command, Stop, Configure, NewNodesDir, ConfigureFails, Configured,
     Start, Status, Wait, LeaveUnverified, NextRound, Verifying, Verified, LeaveRunning, StopAtTheEnd,
     Failed, Collect, Crash, FinishBootstrap

LEMMA DirStep == IInv /\ [Next]_vars => DirInv'
  <1> SUFFICES ASSUME IInv, [Next]_vars PROVE DirInv'
    OBVIOUS
  <1> USE DEF IInv, DirInv, NoOrphans
  <1>1. CASE Stop
    BY <1>1 DEF Stop
  <1>2. CASE Configure
    BY <1>2 DEF Configure, NewNodesDir, ConfigureFails, Configured, round, system
  <1>3. CASE Start
    <2>1. PICK started \in SUBSET InPhase(phase) : tors' = tors \union {<<n, dir>> : n \in started}
      BY <1>3 DEF Start
    <2>2. dir' = dir /\ at' # "configure"
      BY <1>3 DEF Start
    <2> QED
      BY <2>1, <2>2
  <1>4. CASE StopAtTheEnd
    BY <1>4 DEF StopAtTheEnd
  <1>5. CASE Crash
    BY <1>5 DEF Crash, script
  <1>6. CASE Status \/ Wait \/ LeaveUnverified \/ NextRound \/ Verified \/ LeaveRunning \/ Failed
    BY <1>6 DEF Status, Wait, NextPhase, LeaveUnverified, NextRound, Verified, LeaveRunning, Failed, system
  <1>7. CASE Verifying \/ Collect \/ FinishBootstrap \/ UNCHANGED vars
    BY <1>7 DEF Verifying, Collect, FinishBootstrap, vars, script, system
  <1> QED
    BY <1>1, <1>2, <1>3, <1>4, <1>5, <1>6, <1>7 DEF Next, Script, Command

LEMMA PhaseStep == IInv /\ [Next]_vars => PhaseInv'
  <1> SUFFICES ASSUME IInv, [Next]_vars PROVE PhaseInv'
    OBVIOUS
  <1>1. /\ net' = net /\ args' = args
        /\ LastPhase' = LastPhase /\ Nodes' = Nodes
    BY ConstStep DEF LastPhase, Nodes
  <1>2. /\ LastPhase \in Nat \ {0}
        /\ \A n \in Nodes : net.phase[n] \in Nat /\ net.phase[n] <= LastPhase
    BY LastPhaseIsLast DEF IInv, ConstInv
  <1>3. PhaseInv
    BY DEF IInv
  <1> HIDE DEF LastPhase, Nodes
  <1>4. CASE Stop \/ StopAtTheEnd
    BY <1>1, <1>3, <1>4 DEF PhaseInv, Stop, StopAtTheEnd
  <1>5. CASE Configure
    BY <1>1, <1>2, <1>3, <1>5 DEF PhaseInv, Configure, NewNodesDir, ConfigureFails, Configured, round, system
  <1>6. CASE Start
    BY <1>1, <1>3, <1>6 DEF PhaseInv, Start
  <1>7. CASE Wait
    <2>1. booted' = booted
      BY <1>7 DEF Wait, system
    <2>2. CASE at' = "failed"
      BY <1>1, <1>3, <1>7, <2>1, <2>2 DEF PhaseInv, Wait, NextPhase
    <2>3. CASE at' # "failed" /\ phase < LastPhase
      BY <1>1, <1>2, <1>3, <1>7, <2>1, <2>3 DEF PhaseInv, Wait, NextPhase
    <2>4. CASE at' # "failed" /\ ~(phase < LastPhase)
      <3>1. phase' = LastPhase /\ phase = LastPhase
        BY <1>2, <1>3, <1>7, <2>4 DEF PhaseInv, Wait, NextPhase
      <3>2. args.start \in Int
        BY TestNetworkAssumption DEF IInv, ConstInv
      <3>3. args.start >= 0 => {n \in Nodes : net.phase[n] <= phase} \subseteq booted
        BY <1>7, <2>4, <3>2 DEF Wait
      <3>4. args.start >= 0 => Nodes \subseteq booted
        BY <1>2, <3>1, <3>3
      <3> QED
        BY <1>1, <1>2, <1>3, <2>1, <3>1, <3>4 DEF PhaseInv
    <2> QED
      BY <2>2, <2>3, <2>4
  <1>8. CASE FinishBootstrap
    <2>1. booted \subseteq booted' /\ booted' \subseteq Nodes
      BY <1>3, <1>8 DEF PhaseInv, FinishBootstrap, Running
    <2> QED
      BY <1>1, <1>3, <1>8, <2>1 DEF PhaseInv, FinishBootstrap, script
  <1>9. CASE Status \/ LeaveUnverified \/ NextRound \/ Verified \/ LeaveRunning \/ Failed
    BY <1>1, <1>3, <1>9 DEF PhaseInv, Status, LeaveUnverified, NextRound, Verified, LeaveRunning,
       Failed, system
  <1>10. CASE Verifying \/ Collect \/ Crash \/ UNCHANGED vars
    BY <1>1, <1>3, <1>10 DEF PhaseInv, Verifying, Collect, Crash, vars, script, system
  <1> QED
    BY <1>4, <1>5, <1>6, <1>7, <1>8, <1>9, <1>10 DEF Next, Script, Command

\* A tester that says true has reached everything there is to reach.
LEMMA StreamsReachAll ==
  ASSUME net \in Networks, Testable, Streams \subseteq reached'
  PROVE  /\ \A h \in net.hss : \E c \in clients : <<c, h>> \in reached'
         /\ \A c \in clients : net.exits # {} => <<c, "exit">> \in reached'
  <1>1. net.clients[1] \in clients
    BY TestNetworkAssumption DEF Testable, clients
  <1>2. \A h \in net.hss : <<net.clients[1], h>> \in Streams
    BY <1>1 DEF Streams, HsStreams
  <1>3. net.exits # {} => \A c \in clients : <<c, "exit">> \in Streams
    BY DEF Streams, ExitStreams
  <1> QED
    BY <1>1, <1>2, <1>3

LEMMA RoundStep == IInv /\ [Next]_vars => RoundInv'
  <1> SUFFICES ASSUME IInv, [Next]_vars PROVE RoundInv'
    OBVIOUS
  <1>1. /\ net' = net /\ clients' = clients
        /\ net \in Networks
    BY ConstStep DEF clients, IInv, ConstInv
  <1>2. RoundInv
    BY DEF IInv
  <1> HIDE DEF clients
  <1>3. ASSUME reached' = reached PROVE AllReached' <=> AllReached
    BY <1>1, <1>3 DEF AllReached
  <1>4. CASE Stop \/ Start \/ Status \/ LeaveUnverified \/ LeaveRunning \/ StopAtTheEnd \/ Failed
    <2>1. reached' = reached /\ verdict' = verdict /\ n_rounds' = n_rounds
      BY <1>4 DEF Stop, Start, Status, LeaveUnverified, LeaveRunning, StopAtTheEnd, Failed, round
    <2>2. at # "verify" /\ ~(at' \in {"rounds", "verify"})
      BY <1>4 DEF Stop, Start, Status, LeaveUnverified, LeaveRunning, StopAtTheEnd, Failed
    <2> QED
      BY <1>2, <1>3, <2>1, <2>2 DEF RoundInv
  <1>5. CASE Configure
    BY <1>2, <1>5 DEF RoundInv, Configure, NewNodesDir, ConfigureFails, Configured, round, system
  <1>6. CASE Wait
    <2>1. reached' = reached /\ verdict' = verdict /\ at = "wait" /\ at' # "verify"
      BY <1>6 DEF Wait, NextPhase, round
    <2>2. n_rounds' \in Nat /\ (at' = "rounds" => n_rounds' = 0)
      BY <1>2, <1>6 DEF Wait, NextPhase, RoundInv
    <2> QED
      BY <1>2, <1>3, <2>1, <2>2 DEF RoundInv
  <1>7. CASE NextRound
    BY <1>2, <1>3, <1>7 DEF RoundInv, NextRound, BeginRound
  <1>8. CASE Verifying
    <2>1. at' = at /\ n_rounds' = n_rounds /\ at = "verify"
      BY <1>8 DEF Verifying, script
    <2>2. CASE reached' = reached /\ verdict' # "true"
      BY <1>2, <1>3, <2>1, <2>2 DEF RoundInv
    <2>3. CASE \E d \in Durations : TransmitSucceeds(d, Running)
      <3>1. Testable /\ Streams \subseteq reached'
        BY <2>3 DEF TransmitSucceeds
      <3>2. AllReached'
        BY <1>1, <3>1, StreamsReachAll DEF AllReached
      <3> QED
        BY <1>2, <2>1, <3>2 DEF RoundInv
    <2> QED
      BY <1>8, <2>2, <2>3 DEF Verifying, RunTest, NothingToTest, PortTaken, GiveUp, TransmitFails, Again
  <1>9. CASE Verified
    BY <1>2, <1>3, <1>9 DEF RoundInv, Verified
  <1>10. CASE Collect \/ Crash \/ FinishBootstrap \/ UNCHANGED vars
    <2>1. /\ reached' = reached /\ verdict' = verdict
          /\ n_rounds' = n_rounds /\ at' = at
      BY <1>10 DEF Collect, CollectGarbage, Crash, FinishBootstrap, vars, script, round
    <2> QED
      BY <1>2, <1>3, <2>1 DEF RoundInv
  <1> QED
    BY <1>4, <1>5, <1>6, <1>7, <1>8, <1>9, <1>10 DEF Next, Script, Command

LEMMA PortStep == IInv /\ [Next]_vars => PortInv'
  <1> SUFFICES ASSUME IInv, [Next]_vars PROVE PortInv'
    OBVIOUS
  <1>1. Testable' <=> Testable
    BY ConstStep DEF Testable, clients
  <1>2. PortInv /\ RoundInv
    BY DEF IInv
  <1> HIDE DEF Testable
  <1>3. CASE Verifying
    BY <1>1, <1>2, <1>3 DEF PortInv, PortComesBack, Verifying, RunTest, NothingToTest, PortTaken, GiveUp,
       TransmitFails, TransmitSucceeds, Again
  <1>4. CASE NextRound \/ Collect
    BY <1>1, <1>2, <1>4 DEF PortInv, PortComesBack, NextRound, BeginRound, Collect, CollectGarbage
  <1>5. CASE Configure \/ Verified
    BY <1>1, <1>2, <1>5 DEF PortInv, PortComesBack, Configure, NewNodesDir, ConfigureFails,
       Configured, Verified, round
  <1>6. CASE UNCHANGED round
    BY <1>1, <1>2, <1>6 DEF PortInv, PortComesBack, round
  <1> QED
    BY <1>3, <1>4, <1>5, <1>6 DEF Next, Script, Command, Stop, Start, Status, Wait, LeaveUnverified, LeaveRunning,
       StopAtTheEnd, Failed, Crash, FinishBootstrap, vars

LEMMA DataStep == IInv /\ [Next]_vars => DataInv'
  <1> SUFFICES ASSUME IInv, [Next]_vars, verdict' = "true" PROVE args.data > 0
    BY ConstStep DEF DataInv
  <1>1. args.data \in Nat
    BY TestNetworkAssumption DEF IInv, ConstInv
  <1>2. CASE verdict' = verdict
    BY <1>2 DEF IInv, DataInv
  <1>3. CASE \E d \in Durations : TransmitSucceeds(d, Running)
    BY <1>1, <1>3 DEF TransmitSucceeds, Blocks, Repetitions
  <1>4. CASE NextRound \/ Verified
    BY <1>4 DEF NextRound, BeginRound, Verified
  <1>5. Verifying => verdict' = verdict \/ \E d \in Durations : TransmitSucceeds(d, Running)
    BY DEF Verifying, RunTest, NothingToTest, PortTaken, GiveUp, TransmitFails
  <1>6. Configure \/ Collect => verdict' = verdict
    BY DEF Configure, NewNodesDir, ConfigureFails, Configured, Collect, CollectGarbage, round
  <1>7. UNCHANGED round => verdict' = verdict
    BY DEF round
  <1> QED
    BY <1>2, <1>3, <1>4, <1>5, <1>6, <1>7 DEF Next, Script, Command, Stop, Start, Status, Wait, LeaveUnverified,
       LeaveRunning, StopAtTheEnd, Failed, Crash, FinishBootstrap, vars

LEMMA ExitStep == IInv /\ [Next]_vars => ExitInv'
  <1> SUFFICES ASSUME IInv, [Next]_vars PROVE ExitInv'
    OBVIOUS
  <1>1. /\ net' = net /\ args' = args
        /\ LastPhase' = LastPhase /\ Nodes' = Nodes /\ clients' = clients
    BY ConstStep DEF LastPhase, Nodes, clients
  <1>2. args.time \in Int /\ args.stop \in Int /\ args.rounds \in Nat
    BY TestNetworkAssumption DEF IInv, ConstInv
  <1>3. ExitInv /\ PhaseInv /\ RoundInv /\ NoOrphans
    BY DEF IInv, DirInv
  <1> HIDE DEF LastPhase, Nodes, clients
  <1>4. CASE exit' # 0
    BY <1>4 DEF ExitInv, SuccessIsEarned
  <1>5. CASE exit = 0
    <2>1. at = "exited"
      BY <1>3, <1>5 DEF ExitInv
    <2>2. ~Script /\ ~Collect
      BY <2>1 DEF Script, Command, Stop, Configure, NewNodesDir, ConfigureFails, Configured, Start,
         Status, Wait, LeaveUnverified, NextRound, Verifying,
         Verified, LeaveRunning, StopAtTheEnd, Failed, Collect
    <2>3. Crash \/ FinishBootstrap \/ UNCHANGED vars
      BY <2>2 DEF Next
    <2>4. UNCHANGED <<script, reached>>
      BY <2>3 DEF Crash, FinishBootstrap, vars, round
    <2>5. tors = {} => tors' = {}
      BY <2>3 DEF Crash, FinishBootstrap, vars, system
    <2>6. booted = Nodes => booted' = Nodes
      BY <2>3 DEF Crash, FinishBootstrap, Running, vars, system
    <2> QED
      BY <1>1, <1>3, <2>4, <2>5, <2>6 DEF ExitInv, SuccessIsEarned, script
  <1>6. CASE exit # 0 /\ exit' = 0
    <2>1. LeaveUnverified \/ LeaveRunning \/ StopAtTheEnd
      <3>1. Stop \/ Start \/ Status \/ Failed => exit' = exit \/ exit' = 1
        BY DEF Stop, Start, Status, Failed
      <3>2. Configure \/ Wait \/ NextRound \/ Verified => exit' = exit
        BY DEF Configure, NewNodesDir, ConfigureFails, Configured, Wait, NextPhase, NextRound, Verified
      <3>3. Verifying \/ Collect \/ Crash \/ FinishBootstrap \/ UNCHANGED vars => exit' = exit
        BY DEF Verifying, Collect, Crash, FinishBootstrap, vars, script
      <3> QED
        BY <1>6, <3>1, <3>2, <3>3 DEF Next, Script, Command
    <2>2. /\ at = "rounds" /\ at' = "exited"
          /\ phase' = phase /\ booted' = booted /\ reached' = reached
      BY <1>6, <2>1 DEF LeaveUnverified, LeaveRunning, StopAtTheEnd, round, system
    <2>3. phase = LastPhase /\ (args.start >= 0 => booted = Nodes)
      BY <1>3, <2>2 DEF PhaseInv
    <2>4. args.time >= 0 /\ args.rounds > 0 => AllReached
      BY <1>2, <1>3, <2>1, <2>2 DEF LeaveUnverified, LeaveRunning, StopAtTheEnd, RoundInv
    <2>5. args.time >= 0 /\ args.stop >= 0 => tors' = {}
      <3>1. args.time >= 0 /\ args.stop >= 0 => StopAtTheEnd
        BY <1>2, <2>1 DEF LeaveUnverified, LeaveRunning
      <3>2. StopAtTheEnd => tors' = {t \in tors : t[2] # dir}
        BY <2>2 DEF StopAtTheEnd
      <3>3. {t \in tors : t[2] # dir} = {}
        BY <1>3 DEF NoOrphans
      <3> QED
        BY <3>1, <3>2, <3>3
    <2> QED
      BY <1>1, <2>2, <2>3, <2>4, <2>5 DEF ExitInv, SuccessIsEarned, AllReached
  <1> QED
    BY <1>4, <1>5, <1>6

LEMMA InvStep == IInv /\ [Next]_vars => IInv'
  BY ConstStep, DirStep, PhaseStep, RoundStep, PortStep, DataStep, ExitStep DEF IInv

LEMMA Invariance == Spec => []IInv
  BY InitInv, InvStep, PTL DEF Spec

-----------------------------------------------------------------------------
(* The theorems.                                                           *)

\* No attempt, however it failed, leaves a tor in a nodes directory that the next
\* configure replaces (bootstrap-network.sh: stop comes first, and may end the script).
THEOREM NobodyOrphaned == Spec => []NoOrphans
  <1>1. IInv => NoOrphans
    BY DEF IInv, DirInv
  <1> QED
    BY Invariance, <1>1, PTL

\* Exit status 0 of test-network.sh, for every network, every number of phases,
\* rounds and attempts, and all options.
THEOREM SuccessEarned == Spec => []SuccessIsEarned
  <1>1. IInv => SuccessIsEarned
    BY DEF IInv, ExitInv
  <1> QED
    BY Invariance, <1>1, PTL

\* The listener of an earlier tester never ends a round that has something to test.
THEOREM PortFree == Spec => []PortComesBack
  <1>1. IInv => PortComesBack
    BY DEF IInv, PortInv
  <1> QED
    BY Invariance, <1>1, PTL

\* The blocks that the code counts hold all the data, and less than two more blocks.
LEMMA RepetitionsCover ==
  ASSUME NEW data \in Nat \ {0}
  PROVE  LET carried == Repetitions(data, RandomLen(data)) * RandomLen(data) IN
         data <= carried /\ carried < data + 2 * RandomLen(data)
  <1>1. MaxRandomLen \in Nat \ {0}
    BY VerifyAssumption
  <1>2. CASE data > MaxRandomLen
    <2> DEFINE sum == data + MaxRandomLen - 1 + MaxRandomLen - 1
               quotient == sum \div MaxRandomLen
    <2>1. sum \in Nat
      BY <1>1, <1>2
    <2> HIDE DEF sum
    <2>2. /\ quotient \in Nat
          /\ quotient * MaxRandomLen <= sum
          /\ sum < quotient * MaxRandomLen + MaxRandomLen
      BY <1>1, <2>1
    <2>3. RandomLen(data) = MaxRandomLen /\ Repetitions(data, MaxRandomLen) = quotient
      BY <1>1, <1>2 DEF RandomLen, Repetitions, sum
    <2> DEFINE carried == quotient * MaxRandomLen
    <2>4. carried \in Nat
      BY <1>1, <2>2
    <2> HIDE DEF quotient
    <2>5. sum = data + 2 * MaxRandomLen - 2
      BY <1>1 DEF sum
    <2> HIDE DEF carried
    <2>6. carried <= sum /\ sum < carried + MaxRandomLen
      BY <2>2 DEF carried
    <2>7. data <= carried /\ carried < data + 2 * MaxRandomLen
      BY <1>1, <2>4, <2>5, <2>6
    <2> QED
      BY <2>3, <2>7 DEF carried
  <1>3. CASE ~(data > MaxRandomLen)
    BY <1>1, <1>3 DEF RandomLen, Repetitions
  <1> QED
    BY <1>2, <1>3

LEMMA AllDataInRound == IInv => DataIsCarried
  <1> SUFFICES ASSUME IInv, verdict = "true" PROVE DataIsCarried
    BY DEF DataIsCarried
  <1>1. args.data \in Nat \ {0}
    BY TestNetworkAssumption DEF IInv, ConstInv, DataInv
  <1> QED
    BY <1>1, RepetitionsCover DEF DataIsCarried, Blocks

\* A verified round has carried all the data over each stream, whatever its size
\* (verify.py: the comment at _calculate_reps promises the rounding, the code adds a block).
THEOREM DataCarried == Spec => []DataIsCarried
  BY Invariance, AllDataInRound, PTL

-----------------------------------------------------------------------------
(* The pace of the rounds. While a round goes on, its time lies between    *)
(* its tries times the interval and its tries times the longest span that  *)
(* one of them took.                                                       *)

PaceInv ==
  /\ elapsed \in Nat /\ tries \in Nat
  /\ verdict \in {"none", "trying", "true", "false", "raised"}
  /\ verdict = "trying" =>
       /\ tries * Interval <= elapsed
       /\ tries > 0 => (tries - 1) * Interval < args.time
       /\ \E d \in Durations : elapsed <= tries * Larger(d, Interval)
  /\ RoundPace

LEMMA Products ==
  ASSUME NEW t \in Nat, NEW a \in Nat, NEW b \in Nat, a <= b
  PROVE  /\ t * a \in Nat /\ (t + 1) * a = t * a + a
         /\ t * a <= t * b
         /\ (t - 1) * a <= t * a
  OBVIOUS

LEMMA PaceStep == IInv /\ PaceInv /\ [Next]_vars => PaceInv'
  <1> SUFFICES ASSUME IInv, PaceInv, [Next]_vars PROVE PaceInv'
    OBVIOUS
  <1>1. args' = args /\ args.time \in Int
    BY ConstStep, TestNetworkAssumption DEF IInv, ConstInv
  <1>2. Interval \in Nat \ {0} /\ Durations \subseteq Nat /\ Durations # {}
    BY VerifyAssumption
  <1>3. \A d \in Durations : /\ Larger(d, Interval) \in Nat /\ Interval <= Larger(d, Interval)
                             /\ d <= Larger(d, Interval)
    BY <1>2 DEF Larger
  <1>4. CASE elapsed' = elapsed /\ tries' = tries /\ verdict' = verdict
    BY <1>1, <1>4 DEF PaceInv, RoundPace
  <1>5. CASE verdict' = "none" /\ elapsed' = elapsed /\ tries' = tries
    BY <1>5 DEF PaceInv, RoundPace
  <1>6. CASE NextRound
    <2>1. elapsed' = 0 /\ tries' = 0 /\ verdict' = "trying"
      BY <1>6 DEF NextRound, BeginRound
    <2>2. PICK d \in Durations : Larger(d, Interval) \in Nat
      BY <1>2, <1>3
    <2>3. /\ elapsed' <= tries' * Larger(d, Interval)
          /\ tries' * Interval <= elapsed' /\ (tries' - 1) * Interval <= elapsed'
      BY <1>2, <2>1, <2>2
    <2> QED
      BY <2>1, <2>3 DEF PaceInv, RoundPace
  <1>7. ASSUME Again, NEW span \in Nat, NEW d \in Durations,
               Interval <= span, span <= Larger(d, Interval),
               tries' = tries + 1, elapsed' = elapsed + span, verdict' = verdict
        PROVE  PaceInv'
    <2>1. /\ verdict = "trying" /\ elapsed < args.time
          /\ tries * Interval <= elapsed
      BY <1>7 DEF Again, PaceInv
    <2>2. PICK e \in Durations : elapsed <= tries * Larger(e, Interval)
      BY <2>1 DEF PaceInv
    <2> DEFINE l == Larger(d, Interval)
               m == Larger(e, Interval)
    <2>3. tries \in Nat /\ elapsed \in Nat /\ l \in Nat /\ m \in Nat
      BY <1>3, <1>7, <2>2 DEF PaceInv
    <2>4. tries' \in Nat /\ elapsed' \in Nat /\ tries' - 1 = tries
      BY <1>7, <2>3
    <2>5. tries' * Interval = tries * Interval + Interval /\ tries * Interval \in Nat
      BY <1>2, <1>7, <2>3, Products
    <2>6. tries' * Interval <= elapsed'
      BY <1>2, <1>7, <2>1, <2>3, <2>5
    <2>7. (tries' - 1) * Interval < args.time /\ (tries' - 1) * Interval <= elapsed'
      BY <1>1, <1>2, <1>7, <2>1, <2>3, <2>4, <2>5
    <2>8. \E f \in Durations : elapsed' <= tries' * Larger(f, Interval)
      <3>1. CASE m <= l
        <4>1. tries' * l = tries * l + l /\ tries * m <= tries * l /\ tries * l \in Nat /\ tries * m \in Nat
          BY <1>7, <2>3, <3>1, Products
        <4> HIDE DEF l, m
        <4>2. elapsed' <= tries' * l
          BY <1>7, <2>2, <2>3, <4>1 DEF l, m
        <4> QED
          BY <4>2 DEF l
      <3>2. CASE ~(m <= l)
        <4>1. tries' * m = tries * m + m /\ tries * m \in Nat
          BY <1>7, <2>3, <3>2, Products
        <4>2. span <= m
          BY <1>7, <2>3, <3>2
        <4>3. elapsed' <= tries' * m
          BY <1>7, <2>2, <2>3, <4>1, <4>2
        <4> QED
          BY <4>3
      <3> QED
        BY <3>1, <3>2
    <2> QED
      BY <1>1, <1>7, <2>1, <2>4, <2>6, <2>7, <2>8 DEF PaceInv, RoundPace
  <1>8. CASE Verifying
    <2>1. CASE NothingToTest
      <3>1. PICK d \in Durations : Interval <= Larger(d, Interval)
        BY <1>2, <1>3
      <3> QED
        BY <1>2, <1>7, <2>1, <3>1 DEF NothingToTest
    <2>2. ASSUME NEW d \in Durations, TransmitFails(d) PROVE PaceInv'
      <3>1. /\ Again /\ tries' = tries + 1 /\ verdict' = verdict
            /\ elapsed' = elapsed + Larger(d, Interval)
        BY <2>2 DEF TransmitFails
      <3> QED
        BY <1>3, <1>7, <3>1
    <2>3. ASSUME NEW d \in Durations, TransmitSucceeds(d, Running) PROVE PaceInv'
      <3>1. /\ verdict = "trying" /\ verdict' = "true"
            /\ tries' = tries + 1 /\ elapsed' = elapsed + d
        BY <2>3 DEF TransmitSucceeds, Again
      <3>2. tries \in Nat /\ elapsed \in Nat /\ d \in Nat /\ tries * Interval <= elapsed
        BY <1>2, <3>1 DEF PaceInv
      <3>3. tries' \in Nat /\ elapsed' \in Nat /\ (tries' - 1) * Interval <= elapsed'
        <4>1. tries' - 1 = tries
          BY <3>1, <3>2
        <4>2. tries * Interval \in Nat
          BY <1>2, <3>2
        <4> QED
          BY <3>1, <3>2, <4>1, <4>2
      <3> QED
        BY <3>1, <3>3 DEF PaceInv, RoundPace
    <2>4. CASE PortTaken
      <3>1. verdict = "trying" /\ verdict' = "raised" /\ elapsed' = elapsed /\ tries' = tries
        BY <2>4 DEF PortTaken, Again
      <3> QED
        BY <3>1 DEF PaceInv, RoundPace
    <2>5. CASE GiveUp
      <3>1. /\ verdict = "trying" /\ verdict' = "false" /\ elapsed >= args.time
            /\ elapsed' = elapsed /\ tries' = tries
        BY <2>5 DEF GiveUp
      <3>2. PICK d \in Durations : elapsed <= tries * Larger(d, Interval)
        BY <3>1 DEF PaceInv
      <3>3. tries * Larger(d, Interval) \in Int /\ elapsed \in Nat
        BY <1>3 DEF PaceInv
      <3>4. args.time <= tries * Larger(d, Interval)
        <4> DEFINE all == tries * Larger(d, Interval)
        <4> HIDE DEF all
        <4>1. elapsed <= all /\ all \in Int
          BY <3>2, <3>3 DEF all
        <4>2. args.time <= all
          BY <1>1, <3>1, <3>3, <4>1
        <4> QED
          BY <4>2 DEF all
      <3>5. args.time <= elapsed'
        BY <1>1, <3>1, <3>3
      <3> QED
        BY <1>1, <3>1, <3>4, <3>5 DEF PaceInv, RoundPace
    <2> QED
      BY <1>8, <2>1, <2>2, <2>3, <2>4, <2>5 DEF Verifying, RunTest
  <1>9. Verified => verdict' = "none" /\ elapsed' = elapsed /\ tries' = tries
    BY DEF Verified
  <1>10. Configure \/ Collect => elapsed' = elapsed /\ tries' = tries /\ verdict' = verdict
    BY DEF Configure, NewNodesDir, ConfigureFails, Configured, Collect, CollectGarbage, round
  <1>11. UNCHANGED round => elapsed' = elapsed /\ tries' = tries /\ verdict' = verdict
    BY DEF round
  <1> QED
    BY <1>4, <1>5, <1>6, <1>8, <1>9, <1>10, <1>11 DEF Next, Script, Command, Stop, Start, Status, Wait,
       LeaveUnverified, LeaveRunning, StopAtTheEnd, Failed, Crash, FinishBootstrap, vars

\* A round makes at most one try in each interval, and gives up only when its time is
\* over and it has made a try in every span that a slow tester can take, for every
\* interval, every time and all durations of the tester (verify.py: run_test).
THEOREM RoundsKeepPace == Spec => []RoundPace
  <1>1. Init => PaceInv
    BY DEF Init, PaceInv, RoundPace
  <1>2. IInv /\ PaceInv => RoundPace
    BY DEF PaceInv
  <1> QED
    BY Invariance, PaceStep, <1>1, <1>2, PTL DEF Spec
-----------------------------------------------------------------------------
(* Types, with the number of attempts, rounds and directories. A nodes     *)
(* directory is made at most once in an attempt.                           *)

CountInv ==
  /\ attempt \in Nat \ {0} /\ attempt <= args.failures + 1
  /\ dir \in Nat /\ dir <= attempt
  /\ at \in {"stop", "configure"} => dir < attempt
  /\ n_rounds \in Nat /\ n_rounds <= args.rounds
  /\ at = "verify" => n_rounds < args.rounds
  /\ exit \in {-1, 0, 1}
  /\ at \in {"stop", "configure", "configuring", "start", "status", "start again", "status again",
             "wait", "rounds", "verify", "failed", "exited"}

SystemInv ==
  /\ tors \subseteq Nodes \X (0..dir)
  /\ port \in {"free", "taken"}
  /\ reached \subseteq clients \X (Nodes \union {"exit"})

LEMMA CountStep == IInv /\ CountInv /\ [Next]_vars => CountInv'
  <1> SUFFICES ASSUME IInv, CountInv, [Next]_vars PROVE CountInv'
    OBVIOUS
  <1>1. args' = args /\ args.failures \in Nat /\ args.rounds \in Nat
    BY ConstStep, TestNetworkAssumption DEF IInv, ConstInv
  <1>2. /\ attempt \in Nat /\ dir \in Nat /\ n_rounds \in Nat
        /\ args.failures \in Nat /\ args.rounds \in Nat
        /\ args.failures' = args.failures /\ args.rounds' = args.rounds
    BY <1>1 DEF CountInv
  <1>3. CASE Stop \/ Start \/ Status \/ LeaveUnverified \/ LeaveRunning \/ StopAtTheEnd
    <2>1. /\ attempt' = attempt /\ dir' = dir /\ n_rounds' = n_rounds
          /\ exit' = exit \/ exit' \in {0, 1}
          /\ at' \in {"configure", "status", "status again", "wait", "start again", "failed", "exited"}
          /\ at' = "configure" => at = "stop"
      BY <1>3 DEF Stop, Start, Status, LeaveUnverified, LeaveRunning, StopAtTheEnd, system
    <2> QED
      BY <1>1, <2>1 DEF CountInv
  <1>4. CASE NewNodesDir
    <2>1. /\ attempt' = attempt /\ dir' = dir + 1 /\ n_rounds' = n_rounds /\ exit' = exit
          /\ at = "configure" /\ at' = "configuring"
      BY <1>4 DEF NewNodesDir
    <2>2. dir' \in Nat /\ dir' <= attempt
      BY <1>2, <2>1 DEF CountInv
    <2> QED
      BY <1>2, <2>1, <2>2 DEF CountInv
  <1>5. CASE ConfigureFails \/ Configured \/ Wait
    <2>1. /\ attempt' = attempt /\ dir' = dir /\ exit' = exit
          /\ n_rounds' = n_rounds \/ n_rounds' = 0
          /\ at' \in {"failed", "start", "rounds"}
      BY <1>5 DEF ConfigureFails, Configured, Wait, NextPhase, system
    <2>2. n_rounds <= args.rounds
      BY DEF CountInv
    <2>3. n_rounds' \in Nat /\ n_rounds' <= args.rounds
      BY <1>2, <2>1, <2>2
    <2> QED
      BY <1>2, <2>1, <2>3 DEF CountInv
  <1>6. CASE NextRound \/ Verified
    <2>1. /\ attempt' = attempt /\ dir' = dir /\ exit' = exit
          /\ at' \in {"verify", "rounds", "failed"}
      BY <1>6 DEF NextRound, Verified, system
    <2>2. \/ n_rounds' = n_rounds /\ (at' = "verify" => n_rounds < args.rounds)
          \/ n_rounds' = n_rounds + 1 /\ at = "verify" /\ at' # "verify"
      BY <1>6 DEF NextRound, Verified
    <2>3. /\ n_rounds' \in Nat /\ n_rounds' <= args.rounds
          /\ at' = "verify" => n_rounds' < args.rounds
      <3>1. n_rounds <= args.rounds /\ (at = "verify" => n_rounds < args.rounds)
        BY DEF CountInv
      <3>2. CASE n_rounds' = n_rounds /\ (at' = "verify" => n_rounds < args.rounds)
        BY <1>2, <3>1, <3>2
      <3>3. CASE n_rounds' = n_rounds + 1 /\ at = "verify" /\ at' # "verify"
        BY <1>2, <3>1, <3>3
      <3> QED
        BY <2>2, <3>2, <3>3
    <2> QED
      BY <1>2, <2>1, <2>3 DEF CountInv
  <1>7. CASE Failed
    <2>1. dir' = dir /\ n_rounds' = n_rounds /\ at' \in {"stop", "exited"}
      BY <1>7 DEF Failed, system
    <2>2. \/ attempt' = attempt + 1 /\ attempt <= args.failures /\ exit' = exit
          \/ attempt' = attempt /\ at' = "exited" /\ exit' = 1
      BY <1>7 DEF Failed
    <2>3. /\ attempt' \in Nat \ {0} /\ attempt' <= args.failures + 1 /\ dir <= attempt'
          /\ at' = "stop" => dir < attempt'
      BY <1>1, <1>2, <1>7, <2>1, <2>2 DEF CountInv, Failed
    <2> QED
      BY <1>2, <2>1, <2>2, <2>3 DEF CountInv
  <1>8. CASE Verifying \/ Collect \/ Crash \/ FinishBootstrap \/ UNCHANGED vars
    <2>1. /\ attempt' = attempt /\ dir' = dir /\ exit' = exit /\ n_rounds' = n_rounds /\ at' = at
      BY <1>8 DEF Verifying, Collect, Crash, FinishBootstrap, vars, script, system
    <2> QED
      BY <1>2, <2>1 DEF CountInv
  <1> QED
    BY <1>3, <1>4, <1>5, <1>6, <1>7, <1>8 DEF Next, Script, Command, Configure

LEMMA SystemStep == IInv /\ CountInv /\ SystemInv /\ [Next]_vars => SystemInv'
  <1> SUFFICES ASSUME IInv, CountInv, SystemInv, [Next]_vars PROVE SystemInv'
    OBVIOUS
  <1>1. net' = net /\ Nodes' = Nodes /\ clients' = clients
    BY ConstStep DEF Nodes, clients
  <1>2. dir \in Nat
    BY DEF CountInv
  <1>3. tors' \subseteq Nodes \X (0..dir')
    <2>1. CASE dir' = dir /\ tors' \subseteq tors
      BY <2>1 DEF SystemInv
    <2>2. CASE dir' = dir + 1 /\ tors' = tors
      <3>1. 0..dir \subseteq 0..(dir + 1)
        BY <1>2
      <3> QED
        BY <2>2, <3>1 DEF SystemInv
    <2>3. CASE Start
      <3>1. PICK started \in SUBSET InPhase(phase) : tors' = tors \union {<<n, dir>> : n \in started}
        BY <2>3 DEF Start
      <3>2. dir' = dir /\ started \subseteq Nodes
        BY <2>3, <3>1 DEF Start, InPhase
      <3>3. dir \in 0..dir
        BY <1>2
      <3> QED
        BY <3>1, <3>2, <3>3 DEF SystemInv
    <2>4. Stop \/ StopAtTheEnd \/ Crash => dir' = dir /\ tors' \subseteq tors
      BY DEF Stop, StopAtTheEnd, Crash
    <2>5. Configure => (dir' = dir \/ dir' = dir + 1) /\ tors' = tors
      BY DEF Configure, NewNodesDir, ConfigureFails, Configured, system
    <2>6. \/ Status \/ Wait \/ LeaveUnverified \/ NextRound \/ Verifying \/ Verified \/ LeaveRunning
          \/ Failed \/ Collect \/ FinishBootstrap \/ UNCHANGED vars
          => dir' = dir /\ tors' = tors
      BY DEF Status, Wait, LeaveUnverified, NextRound, Verifying, Verified, LeaveRunning, Failed,
         Collect, FinishBootstrap, vars, system
    <2> QED
      BY <2>1, <2>2, <2>3, <2>4, <2>5, <2>6 DEF Next, Script, Command
  <1>4. port' \in {"free", "taken"} /\ reached' \subseteq clients \X (Nodes \union {"exit"})
    <2>1. CASE UNCHANGED <<port, reached>>
      BY <2>1 DEF SystemInv
    <2>2. CASE Configure
      BY <2>2 DEF Configure, NewNodesDir, ConfigureFails, Configured, round, SystemInv
    <2>3. CASE NextRound \/ Collect
      BY <2>3 DEF NextRound, BeginRound, Collect, CollectGarbage, SystemInv
    <2>4. CASE Verifying
      <3>1. CASE \E d \in Durations : TransmitSucceeds(d, Running)
        <4>1. Testable /\ port' = port /\ reached' = reached \union Streams
          BY <3>1 DEF TransmitSucceeds
        <4>2. net.hss \subseteq Nodes
          BY TestNetworkAssumption DEF IInv, ConstInv, Nodes
        <4>3. net.clients[1] \in clients
          BY <4>1, TestNetworkAssumption DEF IInv, ConstInv, Testable, clients
        <4>4. Streams \subseteq clients \X (Nodes \union {"exit"})
          BY <4>2, <4>3 DEF Streams, HsStreams, ExitStreams
        <4> QED
          BY <4>1, <4>4 DEF SystemInv
      <3>2. CASE ~\E d \in Durations : TransmitSucceeds(d, Running)
        BY <2>4, <3>2 DEF Verifying, RunTest, NothingToTest, PortTaken, GiveUp, TransmitFails, SystemInv
      <3> QED
        BY <3>1, <3>2
    <2>5. Verified \/ UNCHANGED round => UNCHANGED <<port, reached>>
      BY DEF Verified, round
    <2> QED
      BY <2>1, <2>2, <2>3, <2>4, <2>5 DEF Next, Script, Command, Stop, Start, Status, Wait,
         LeaveUnverified, LeaveRunning, StopAtTheEnd, Failed, Crash, FinishBootstrap, vars
  <1> QED
    BY <1>1, <1>3, <1>4 DEF SystemInv

TypeIsCorrect == PaceInv /\ CountInv /\ SystemInv

LEMMA InitTypes == Init => TypeIsCorrect
  <1> SUFFICES ASSUME Init PROVE TypeIsCorrect
    OBVIOUS
  <1>1. args.failures \in Nat /\ args.rounds \in Nat
    BY TestNetworkAssumption DEF Init
  <1> QED
    BY <1>1 DEF Init, TypeIsCorrect, PaceInv, RoundPace, CountInv, SystemInv

LEMMA TypesStep == IInv /\ TypeIsCorrect /\ [Next]_vars => TypeIsCorrect'
  BY PaceStep, CountStep, SystemStep DEF TypeIsCorrect

LEMMA TypesFollow == IInv /\ TypeIsCorrect => TypeOK
  <1> SUFFICES ASSUME IInv, TypeIsCorrect PROVE TypeOK
    OBVIOUS
  <1>1. args.failures \in Nat /\ args.rounds \in Nat
    BY TestNetworkAssumption DEF IInv, ConstInv
  <1>2. /\ attempt \in Nat \ {0} /\ attempt <= args.failures + 1
        /\ n_rounds \in Nat /\ n_rounds <= args.rounds
        /\ dir \in Nat /\ dir <= attempt
    BY DEF TypeIsCorrect, CountInv
  <1>3. attempt \in 1..(args.failures + 1) /\ n_rounds \in 0..args.rounds /\ dir \in 0..attempt
    BY <1>1, <1>2
  <1>4. phase \in 1..LastPhase
    BY LastPhaseIsLast DEF IInv, ConstInv, PhaseInv
  <1> QED
    BY <1>3, <1>4 DEF TypeOK, TypeIsCorrect, CountInv, SystemInv, PaceInv, IInv, ConstInv, PhaseInv

\* The types of the scripts, for all networks and options: never more attempts than
\* failures allowed plus one, and never more directories than attempts.
THEOREM TypeCorrect == Spec => []TypeOK
  BY Invariance, InitTypes, TypesStep, TypesFollow, PTL DEF Spec
-----------------------------------------------------------------------------
(* The scripts run out of steps.                                           *)

\* What a test has left to do: attempts, the stages of an attempt, launch phases or
\* verify rounds, commands of a phase or steps of a round, and the time of the round.
\* Each is a number, and an earlier one outweighs all later ones.
Stage == CASE at = "stop" -> 6
           [] at = "configure" -> 5
           [] at = "configuring" -> 4
           [] at \in {"start", "status", "start again", "status again", "wait"} -> 3
           [] at \in {"rounds", "verify"} -> 2
           [] at = "failed" -> 1
           [] OTHER -> 0

Turns == CASE Stage = 3 -> LastPhase - phase
           [] Stage = 2 -> args.rounds - n_rounds
           [] OTHER -> 0

CommandsLeft == CASE at = "start" -> 4
                  [] at = "status" -> 3
                  [] at \in {"start again", "rounds"} -> 2
                  [] at = "status again" \/ (at = "verify" /\ verdict = "trying") -> 1
                  [] OTHER -> 0

TimeLeft == IF verdict = "trying" /\ elapsed < args.time THEN args.time - elapsed ELSE 0

Left == <<args.failures + 1 - attempt, Stage, Turns, CommandsLeft, TimeLeft>>

\* The lexicographic order of such measures.
Less(a, b) == \E i \in DOMAIN b : a[i] < b[i] /\ \A j \in 1..(i - 1) : a[j] = b[j]

\* Each step of the scripts leaves less to do, and nothing else changes what is left.
ScriptsRunOut ==
  [][ /\ Script => Less(Left', Left)
      /\ ~Script => Left' = Left ]_vars

\* When the first number in which two measures differ is less, the measure is.
LEMMA LessAt ==
  ASSUME NEW a1, NEW a2, NEW a3, NEW a4, NEW a5,
         NEW b1, NEW b2, NEW b3, NEW b4, NEW b5
  PROVE  \/ a1 < b1
         \/ a1 = b1 /\ a2 < b2
         \/ a1 = b1 /\ a2 = b2 /\ a3 < b3
         \/ a1 = b1 /\ a2 = b2 /\ a3 = b3 /\ a4 < b4
         \/ a1 = b1 /\ a2 = b2 /\ a3 = b3 /\ a4 = b4 /\ a5 < b5
         => Less(<<a1, a2, a3, a4, a5>>, <<b1, b2, b3, b4, b5>>)
<1> DEFINE a == <<a1, a2, a3, a4, a5>>
           b == <<b1, b2, b3, b4, b5>>
<1>1. /\ a[1] = a1 /\ a[2] = a2 /\ a[3] = a3 /\ a[4] = a4 /\ a[5] = a5
      /\ b[1] = b1 /\ b[2] = b2 /\ b[3] = b3 /\ b[4] = b4 /\ b[5] = b5
      /\ DOMAIN b = 1..5
  OBVIOUS
<1> HIDE DEF a, b
<1>2. a1 < b1 => Less(a, b)
  BY <1>1 DEF Less
<1>3. a1 = b1 /\ a2 < b2 => Less(a, b)
  BY <1>1 DEF Less
<1>4. a1 = b1 /\ a2 = b2 /\ a3 < b3 => Less(a, b)
  BY <1>1 DEF Less
<1>5. a1 = b1 /\ a2 = b2 /\ a3 = b3 /\ a4 < b4 => Less(a, b)
  BY <1>1 DEF Less
<1>6. a1 = b1 /\ a2 = b2 /\ a3 = b3 /\ a4 = b4 /\ a5 < b5 => Less(a, b)
  BY <1>1 DEF Less
<1> QED BY <1>2, <1>3, <1>4, <1>5, <1>6, Zenon DEF a, b

\* What the measure is made of.
LEMMA Ingredients ==
  ASSUME IInv, TypeIsCorrect
  PROVE  /\ args.failures \in Nat /\ args.rounds \in Nat /\ args.time \in Int
         /\ attempt \in Nat \ {0} /\ attempt <= args.failures + 1
         /\ phase \in Nat /\ LastPhase \in Nat /\ phase <= LastPhase
         /\ n_rounds \in Nat /\ n_rounds <= args.rounds
         /\ elapsed \in Nat
BY LastPhaseIsLast, TestNetworkAssumption
   DEF IInv, ConstInv, PhaseInv, TypeIsCorrect, CountInv, PaceInv

LEMMA LeftIsMeasure == IInv /\ TypeIsCorrect => Left \in [1..5 -> Nat]
<1> SUFFICES ASSUME IInv, TypeIsCorrect PROVE Left \in [1..5 -> Nat]
  OBVIOUS
<1>1. args.failures + 1 - attempt \in Nat
  BY Ingredients
<1>2. Stage \in Nat /\ CommandsLeft \in Nat
  BY DEF Stage, CommandsLeft
<1>3. Turns \in Nat
  BY Ingredients DEF Turns
<1>4. TimeLeft \in Nat
  BY Ingredients DEF TimeLeft
<1> QED BY <1>1, <1>2, <1>3, <1>4 DEF Left

\* A step to a later stage of the same attempt.
LEMMA LaterStage ==
  ASSUME args' = args, attempt' = attempt, Stage' < Stage
  PROVE  Less(Left', Left)
<1>1. args'.failures + 1 - attempt' = args.failures + 1 - attempt
  OBVIOUS
<1> QED BY <1>1, LessAt DEF Left

\* A step within a stage, to the next phase or round.
LEMMA NextTurn ==
  ASSUME args' = args, attempt' = attempt, Stage' = Stage, Turns' < Turns
  PROVE  Less(Left', Left)
<1>1. args'.failures + 1 - attempt' = args.failures + 1 - attempt
  OBVIOUS
<1> QED BY <1>1, LessAt DEF Left

\* A step within a phase or a round.
LEMMA NextCommand ==
  ASSUME args' = args, attempt' = attempt, Stage' = Stage, Turns' = Turns,
         CommandsLeft' < CommandsLeft
  PROVE  Less(Left', Left)
<1>1. args'.failures + 1 - attempt' = args.failures + 1 - attempt
  OBVIOUS
<1> QED BY <1>1, LessAt DEF Left

\* The stages that a command can lead to.
LEMMA Failing ==
  ASSUME args' = args, attempt' = attempt, Stage > 1, at' \in {"failed", "exited"}
  PROVE  Less(Left', Left)
<1>1. Stage' \in {0, 1} /\ Stage \in Nat
  BY DEF Stage
<1> QED BY <1>1, LaterStage

\* Each step of the scripts leaves less to do.
LEMMA ScriptStep ==
  ASSUME IInv, TypeIsCorrect, Script
  PROVE  Less(Left', Left)
<1>0. /\ args' = args /\ net' = net /\ LastPhase' = LastPhase
  <2>1. args' = args /\ net' = net
    BY ConstStep DEF Next
  <2> QED BY <2>1 DEF LastPhase, Nodes
<1>n. /\ args.failures \in Nat /\ args.rounds \in Nat /\ args.time \in Int
      /\ attempt \in Nat \ {0} /\ attempt <= args.failures + 1
      /\ phase \in Nat /\ LastPhase \in Nat /\ phase <= LastPhase
      /\ n_rounds \in Nat /\ n_rounds <= args.rounds
      /\ elapsed \in Nat
  BY Ingredients
<1>1. CASE Stop
  <2>1. attempt' = attempt /\ at = "stop" /\ at' \in {"configure", "failed"}
    BY <1>1 DEF Stop, GoTo
  <2>2. Stage = 6 /\ Stage' \in {5, 1}
    BY <2>1 DEF Stage
  <2> QED BY <1>0, <2>1, <2>2, LaterStage
<1>2. CASE NewNodesDir \/ ConfigureFails \/ Configured
  <2>1. /\ attempt' = attempt
        /\ \/ at = "configure" /\ at' \in {"configuring", "failed"}
           \/ at = "configuring" /\ at' \in {"start", "failed"}
    BY <1>2 DEF NewNodesDir, ConfigureFails, Configured, GoTo
  <2>2. CASE at = "configure"
    <3>1. Stage = 5 /\ Stage' \in {4, 1}
      BY <2>1, <2>2 DEF Stage
    <3> QED BY <1>0, <2>1, <3>1, LaterStage
  <2>3. CASE at = "configuring"
    <3>1. Stage = 4 /\ Stage' \in {3, 1}
      BY <2>1, <2>3 DEF Stage
    <3> QED BY <1>0, <2>1, <3>1, LaterStage
  <2> QED BY <2>1, <2>2, <2>3
<1>3. CASE Start \/ Status
  <2>1. /\ attempt' = attempt /\ phase' = phase
        /\ \/ at = "start" /\ at' \in {"status", "failed"}
           \/ at = "status" /\ at' \in {"wait", "start again"}
           \/ at = "start again" /\ at' \in {"status again", "failed"}
           \/ at = "status again" /\ at' \in {"wait", "failed"}
    <3>1. CASE Start
      BY <3>1 DEF Start, GoTo, round
    <3>2. CASE Status
      BY <3>2 DEF Status, GoTo, round
    <3> QED BY <1>3, <3>1, <3>2
  <2>2. Stage = 3 /\ Stage > 1
    <3>1. Stage = 3
      BY <2>1 DEF Stage
    <3> QED BY <3>1
  <2>u. attempt' = attempt /\ phase' = phase
    BY <2>1
  <2>3. CASE at' = "failed"
    BY <1>0, <2>u, <2>2, <2>3, Failing
  <2>4. CASE at' # "failed"
    <3>1. Stage' = 3
      BY <2>1, <2>4 DEF Stage
    <3>2. Turns' = LastPhase - phase /\ Turns = LastPhase - phase
      BY <1>0, <2>u, <2>2, <3>1 DEF Turns
    <3>3. \/ CommandsLeft = 4 /\ CommandsLeft' = 3
          \/ CommandsLeft = 3 /\ CommandsLeft' \in {0, 2}
          \/ CommandsLeft = 2 /\ CommandsLeft' = 1
          \/ CommandsLeft = 1 /\ CommandsLeft' = 0
      <4>1. CASE at = "start" /\ at' = "status"
        BY <4>1 DEF CommandsLeft
      <4>2. CASE at = "status" /\ at' = "wait"
        BY <4>2 DEF CommandsLeft
      <4>3. CASE at = "status" /\ at' = "start again"
        BY <4>3 DEF CommandsLeft
      <4>4. CASE at = "start again" /\ at' = "status again"
        BY <4>4 DEF CommandsLeft
      <4>5. CASE at = "status again" /\ at' = "wait"
        BY <4>5 DEF CommandsLeft
      <4> QED BY <2>1, <2>4, <4>1, <4>2, <4>3, <4>4, <4>5
    <3>4. Stage' = Stage /\ Turns' = Turns /\ CommandsLeft' < CommandsLeft
      BY <2>2, <3>1, <3>2, <3>3
    <3> QED BY <1>0, <2>u, <3>4, NextCommand
  <2> QED BY <2>3, <2>4
<1>4. CASE Wait
  <2>1. /\ attempt' = attempt /\ at = "wait"
        /\ \/ at' \in {"rounds", "failed"}
           \/ phase < LastPhase /\ phase' = phase + 1 /\ at' = "start"
    BY <1>4 DEF Wait, NextPhase, GoTo
  <2>2. Stage = 3
    BY <2>1 DEF Stage
  <2>3. CASE at' \in {"rounds", "failed"}
    <3>1. Stage' \in {2, 1}
      BY <2>3 DEF Stage
    <3> QED BY <1>0, <2>1, <2>2, <3>1, LaterStage
  <2>4. CASE phase < LastPhase /\ phase' = phase + 1 /\ at' = "start"
    <3>1. Stage' = 3
      BY <2>4 DEF Stage
    <3>2. Turns' = LastPhase - (phase + 1) /\ Turns = LastPhase - phase
      BY <1>0, <2>2, <2>4, <3>1 DEF Turns
    <3>3. Turns' < Turns
      BY <1>n, <3>2
    <3> QED BY <1>0, <2>1, <2>2, <3>1, <3>3, NextTurn
  <2> QED BY <2>1, <2>3, <2>4
<1>5. CASE LeaveUnverified \/ LeaveRunning \/ StopAtTheEnd
  <2>1. attempt' = attempt /\ at = "rounds" /\ at' \in {"exited", "failed"}
    BY <1>5 DEF LeaveUnverified, LeaveRunning, StopAtTheEnd, Exit, GoTo
  <2>2. Stage > 1
    BY <2>1 DEF Stage
  <2> QED BY <1>0, <2>1, <2>2, Failing
<1>6. CASE NextRound
  <2>1. attempt' = attempt /\ n_rounds' = n_rounds /\ at = "rounds" /\ at' = "verify" /\ verdict' = "trying"
    BY <1>6 DEF NextRound, GoTo, BeginRound
  <2>2. Stage = 2 /\ Stage' = 2
    BY <2>1 DEF Stage
  <2>3. Turns' = Turns
    BY <1>0, <2>1, <2>2 DEF Turns
  <2>4. CommandsLeft = 2 /\ CommandsLeft' = 1
    BY <2>1 DEF CommandsLeft
  <2> QED BY <1>0, <2>1, <2>2, <2>3, <2>4, NextCommand
<1>7. CASE Verifying
  <2>1. /\ attempt' = attempt /\ n_rounds' = n_rounds /\ at = "verify" /\ at' = "verify"
        /\ verdict = "trying"
    BY <1>7 DEF Verifying, script, RunTest, NothingToTest, PortTaken, GiveUp, TransmitFails,
                TransmitSucceeds, Again
  <2>2. Stage = 2 /\ Stage' = 2
    BY <2>1 DEF Stage
  <2>3. Turns' = Turns
    BY <1>0, <2>1, <2>2 DEF Turns
  <2>4. CASE NothingToTest \/ \E d \in Durations : TransmitFails(d)
    <3>1. verdict' = "trying" /\ elapsed < args.time
      BY <2>1, <2>4 DEF NothingToTest, TransmitFails, Again
    <3>2. elapsed' \in Nat /\ elapsed < elapsed'
      <4>1. PICK span \in Nat \ {0} : elapsed' = elapsed + span
        <5>1. Interval \in Nat \ {0} /\ Durations \subseteq Nat
          BY VerifyAssumption
        <5>2. CASE NothingToTest
          BY <5>1, <5>2 DEF NothingToTest
        <5>3. CASE \E d \in Durations : TransmitFails(d)
          <6>1. PICK d \in Durations : TransmitFails(d)
            BY <5>3
          <6>2. Larger(d, Interval) \in Nat \ {0}
            BY <5>1 DEF Larger
          <6> QED BY <6>1, <6>2 DEF TransmitFails
        <5> QED BY <2>4, <5>2, <5>3
      <4> QED BY <1>n, <4>1
    <3>3. CommandsLeft' = CommandsLeft
      BY <2>1, <3>1 DEF CommandsLeft
    <3>4. TimeLeft' < TimeLeft
      BY <1>0, <1>n, <2>1, <3>1, <3>2 DEF TimeLeft
    <3>5. args'.failures + 1 - attempt' = args.failures + 1 - attempt
      BY <1>0, <2>1
    <3> QED BY <2>2, <2>3, <3>3, <3>4, <3>5, LessAt DEF Left
  <2>5. CASE PortTaken \/ GiveUp \/ \E d \in Durations : TransmitSucceeds(d, Running)
    <3>1. verdict' # "trying"
      BY <2>5 DEF PortTaken, GiveUp, TransmitSucceeds
    <3>2. CommandsLeft = 1 /\ CommandsLeft' = 0
      BY <2>1, <3>1 DEF CommandsLeft
    <3> QED BY <1>0, <2>1, <2>2, <2>3, <3>2, NextCommand
  <2> QED BY <1>7, <2>4, <2>5 DEF Verifying, RunTest
<1>8. CASE Verified
  <2>1. /\ attempt' = attempt /\ at = "verify"
        /\ \/ at' = "failed"
           \/ at' = "rounds" /\ n_rounds' = n_rounds + 1
    BY <1>8 DEF Verified, GoTo
  <2>2. Stage = 2
    BY <2>1 DEF Stage
  <2>3. CASE at' = "failed"
    BY <1>0, <2>1, <2>2, <2>3, Failing
  <2>4. CASE at' = "rounds" /\ n_rounds' = n_rounds + 1
    <3>1. Stage' = 2
      BY <2>4 DEF Stage
    <3>2. Turns' = args.rounds - (n_rounds + 1) /\ Turns = args.rounds - n_rounds
      BY <1>0, <2>2, <2>4, <3>1 DEF Turns
    <3>3. Turns' < Turns
      BY <1>n, <3>2
    <3> QED BY <1>0, <2>1, <2>2, <3>1, <3>3, NextTurn
  <2> QED BY <2>1, <2>3, <2>4
<1>9. CASE Failed
  <2>1. /\ at = "failed"
        /\ \/ attempt' = attempt + 1
           \/ attempt' = attempt /\ at' = "exited"
    BY <1>9 DEF Failed, Exit
  <2>2. CASE attempt' = attempt + 1
    <3>1. args'.failures + 1 - attempt' < args.failures + 1 - attempt
      BY <1>0, <1>n, <2>2
    <3> QED BY <3>1, LessAt DEF Left
  <2>3. CASE attempt' = attempt /\ at' = "exited"
    <3>1. Stage' < Stage
      BY <2>1, <2>3 DEF Stage
    <3> QED BY <1>0, <2>3, <3>1, LaterStage
  <2> QED BY <2>1, <2>2, <2>3
<1> QED BY <1>1, <1>2, <1>3, <1>4, <1>5, <1>6, <1>7, <1>8, <1>9 DEF Script, Configure, Command

\* What the tors and the garbage collector do leaves what is left as it is.
LEMMA OthersStep ==
  ASSUME Collect \/ Crash \/ FinishBootstrap \/ UNCHANGED vars
  PROVE  Left' = Left
<1>1. UNCHANGED <<net, args, at, attempt, phase, n_rounds, elapsed, verdict>>
  BY DEF Collect, CollectGarbage, Crash, FinishBootstrap, vars, script, round
<1> QED BY <1>1 DEF Left, Stage, Turns, CommandsLeft, TimeLeft, LastPhase, Nodes

\* test-network.sh does not go on for ever, for every network and all options, whatever
\* fails and however long the testers take: each step of the scripts leaves less to do,
\* and the tors can add nothing. (That the scripts take those steps is the fairness of
\* Ends.)
THEOREM TestRunsOut == Spec => ScriptsRunOut
<1>1. IInv /\ TypeIsCorrect /\ [Next]_vars =>
        [ /\ Script => Less(Left', Left)
          /\ ~Script => Left' = Left ]_vars
  BY ScriptStep, OthersStep DEF Next
<1>2. Init => IInv /\ TypeIsCorrect
  BY InitInv, InitTypes
<1>3. IInv /\ TypeIsCorrect /\ [Next]_vars => IInv' /\ TypeIsCorrect'
  BY InvStep, TypesStep
<1> QED BY <1>1, <1>2, <1>3, PTL DEF Spec, ScriptsRunOut
=============================================================================
