-------------------------- MODULE ConfigureProofs --------------------------
(***************************************************************************)
(* Theorems about Configure, for every set of networks: it implements      *)
(* TestNetwork, the torrc files agree with the keys, nothing is written    *)
(* before all templates were checked, and each is expanded to what it      *)
(* means.                                                                  *)
(***************************************************************************)
EXTENDS Configure, TestNetworkProofs, TemplatingProofs

-----------------------------------------------------------------------------
(* The refinement.                                                         *)

LEMMA StepRefines == [ConfigureNext]_allvars => [Next]_vars
  <1> SUFFICES ASSUME [ConfigureNext]_allvars PROVE Next \/ UNCHANGED vars
    OBVIOUS
  <1>1. CASE CreateNodesDir
    BY <1>1 DEF CreateNodesDir, Raise, Configure, Script, Next
  <1>2. CASE CheckConfig
    BY <1>2 DEF CheckConfig, Raise, Configure, Script, Next
  <1>3. CASE PreConfig
    BY <1>3 DEF PreConfig, Raise, Configure, Script, Next
  <1>4. CASE Config
    BY <1>4 DEF Config, Raise, Configure, Script, Next
  <1>5. CASE SkipConfig
    BY <1>5 DEF SkipConfig
  <1>6. CASE WriteArti
    BY <1>6 DEF WriteArti, Raise, Configure, Script, Next
  <1>7. CASE Command \/ Collect \/ Crash \/ FinishBootstrap \/ UNCHANGED allvars
    BY <1>7 DEF Script, Next, allvars
  <1> QED
    BY <1>1, <1>2, <1>3, <1>4, <1>5, <1>6, <1>7 DEF ConfigureNext, Detail

\* Every behaviour of configure, with its phases, nodes and files, is one of the
\* scripts with a configure that is a single command (the safety part of
\* ImplementsTestNetwork).
THEOREM ConfigureRefines == ConfigureSpec => Init /\ [][Next]_vars
  <1>1. ConfigureInit => Init
    BY DEF ConfigureInit
  <1> QED
    BY <1>1, StepRefines, PTL DEF ConfigureSpec

LEMMA ScriptInvariance == ConfigureSpec => [](IInv /\ TypeIsCorrect)
  <1>1. Init => IInv /\ TypeIsCorrect
    BY InitInv, InitTypes
  <1>2. IInv /\ TypeIsCorrect /\ [Next]_vars => IInv' /\ TypeIsCorrect'
    BY InvStep, TypesStep
  <1> QED
    BY <1>1, <1>2, ConfigureRefines, PTL

\* What is proved of the scripts holds when configure runs step by step and may fail
\* in each: no orphans, an earned status 0, a free port, the pace, and all the data.
THEOREM ScriptsKeepTheirPromises ==
  ConfigureSpec => [](NoOrphans /\ SuccessIsEarned /\ PortComesBack /\ RoundPace /\ DataIsCarried)
  <1>1. IInv /\ TypeIsCorrect => NoOrphans /\ SuccessIsEarned /\ PortComesBack /\ RoundPace
    BY DEF IInv, DirInv, ExitInv, PortInv, TypeIsCorrect, PaceInv
  <1> QED
    BY ScriptInvariance, AllDataInRound, <1>1, PTL

-----------------------------------------------------------------------------
(* The nodes and their order.                                              *)

LEMMA OrderIsComplete ==
  ASSUME net \in Networks
  PROVE  /\ Len(net.order) \in Nat \ {0} /\ DOMAIN net.order = 1..Len(net.order)
         /\ \A i \in DOMAIN net.order : net.order[i] \in Nodes
         /\ \A n \in Nodes : \E i \in DOMAIN net.order : net.order[i] = n
  <1>1. /\ net.order \in Seq(Nodes)
        /\ \A n \in Nodes : \E i \in DOMAIN net.order : net.order[i] = n
    BY ConfigureAssumption DEF Nodes
  <1>2. Nodes # {}
    BY ConfigureAssumption DEF Nodes
  <1>3. Len(net.order) \in Nat /\ DOMAIN net.order = 1..Len(net.order)
    BY <1>1
  <1>4. Len(net.order) # 0
    BY <1>1, <1>2, <1>3
  <1> QED
    BY <1>1, <1>3, <1>4

LEMMA LastConfigIsLast ==
  ASSUME net \in Networks
  PROVE  /\ LastConfig \in Nat \ {0}
         /\ \A n \in Nodes : net.config[n] \in Nat \ {0} /\ net.config[n] <= LastConfig
  <1> DEFINE Phases == {net.config[n] : n \in Nodes}
  <1>1. \A n \in Nodes : net.config[n] \in Nat \ {0}
    BY ConfigureAssumption DEF Nodes
  <1>2. PICK last \in Nodes : \A n \in Nodes : net.config[n] <= net.config[last]
    BY ConfigureAssumption DEF Nodes
  <1>3. \E p \in Phases : \A n \in Nodes : net.config[n] <= p
    BY <1>2
  <1>4. LastConfig \in Phases /\ \A n \in Nodes : net.config[n] <= LastConfig
    BY <1>3 DEF LastConfig
  <1> QED
    BY <1>1, <1>4

-----------------------------------------------------------------------------
(* The invariant. A node is made when all keys that its lines need are     *)
(* there: they are not made again, so what is written with them stays      *)
(* right, in all later phases.                                             *)

Made(n) == (n \in net.authority => cert[n] # 0) /\ (n \in net.relay => id[n] # 0)

CurrentAuths == [m \in Nodes |-> AltAuthLines(m, cert, id)]
CurrentBridges == [m \in Nodes |-> BridgeLines(m, id)]
RightTorrc(n) == Torrc(n, Assigned(CurrentAuths, CurrentBridges))
Good(n) == torrc[n] # {} /\ torrc[n] = RightTorrc(n)

AllChecked == \A n \in Nodes : Torrc(n, Nothing) # {}

Launched == {"start", "start again", "status", "status again", "wait", "rounds", "verify"}

\* The nodes that a loop over the nodes has passed.
Passed(n) == \E i \in DOMAIN net.order : i < nodenum /\ net.order[i] = n

TypeInv ==
  /\ config_idx \in Nat \ {0} /\ config_idx <= LastConfig
  /\ step \in {"none", "check", "prepare", "write", "arti"}
  /\ step # "none" <=> at = "configuring"
  /\ nodenum \in DOMAIN net.order /\ (step = "check" => nodenum = 1)
  /\ auths = [n \in Nodes |-> auths[n]] /\ bridges = [n \in Nodes |-> bridges[n]]
  /\ cert \in [Nodes -> Nat] /\ id \in [Nodes -> Nat]
  /\ DOMAIN torrc = Nodes

KeysInv ==
  /\ step \in {"write", "arti"} \/ (step # "none" /\ config_idx > 1) => \A n \in Nodes : Made(n)
  /\ step = "prepare" => \A n \in Nodes : Passed(n) => Made(n)

LinesInv ==
  /\ step = "prepare" =>
       \A n \in Nodes : Passed(n) => auths[n] = CurrentAuths[n] /\ bridges[n] = CurrentBridges[n]
  /\ step \in {"write", "arti"} =>
       \A n \in Nodes : auths[n] = CurrentAuths[n] /\ bridges[n] = CurrentBridges[n]

Written(n) ==
  \/ net.config[n] < config_idx
  \/ net.config[n] = config_idx /\ (step = "arti" \/ (step = "write" /\ Passed(n)))

TorrcInv ==
  /\ step # "none" => \A n \in Nodes : Written(n) => Good(n)
  /\ at \in Launched => \A n \in Nodes : Good(n)

CheckInv ==
  /\ step \in {"prepare", "write", "arti"} \/ (step = "check" /\ config_idx > 1) => AllChecked
  /\ step = "check" /\ config_idx = 1 =>
       \A n \in Nodes : cert[n] = 0 /\ id[n] = 0 /\ torrc[n] = {}

CInv == TypeInv /\ KeysInv /\ LinesInv /\ TorrcInv /\ CheckInv

-----------------------------------------------------------------------------
(* What a step keeps.                                                      *)

\* What depends on the network file only.
LEMMA NetFixed ==
  ASSUME net' = net
  PROVE  /\ Nodes' = Nodes /\ LastConfig' = LastConfig
         /\ \A n : Torrc(n, Nothing)' = Torrc(n, Nothing)
         /\ AllChecked' <=> AllChecked
  <1>1. Nodes' = Nodes /\ LastConfig' = LastConfig
    BY DEF LastConfig, Nodes
  <1>2. \A n : Torrc(n, Nothing)' = Torrc(n, Nothing)
    BY DEF Torrc, World, Nothing
  <1> QED
    BY <1>1, <1>2 DEF AllChecked

\* What depends on the keys of a node only.
LEMMA LinesFixed ==
  ASSUME net' = net, NEW n \in Nodes, cert'[n] = cert[n], id'[n] = id[n]
  PROVE  /\ CurrentAuths'[n] = CurrentAuths[n] /\ CurrentBridges'[n] = CurrentBridges[n]
         /\ Made(n)' <=> Made(n)
  <1>1. Nodes' = Nodes
    BY NetFixed
  <1>2. AltAuthLines(n, cert, id)' = AltAuthLines(n, cert, id)
    BY DEF AltAuthLines
  <1>3. BridgeLines(n, id)' = BridgeLines(n, id)
    BY DEF BridgeLines
  <1>4. CurrentAuths[n] = AltAuthLines(n, cert, id) /\ CurrentBridges[n] = BridgeLines(n, id)
    BY DEF CurrentAuths, CurrentBridges
  <1>5. /\ CurrentAuths'[n] = AltAuthLines(n, cert, id)'
        /\ CurrentBridges'[n] = BridgeLines(n, id)'
    BY <1>1 DEF CurrentAuths, CurrentBridges
  <1> QED
    BY <1>2, <1>3, <1>4, <1>5 DEF Made

LEMMA TorrcsFixed ==
  ASSUME net' = net, TypeInv, TypeInv',
         \A n \in Nodes : cert'[n] = cert[n] /\ id'[n] = id[n]
  PROVE  /\ \A n \in Nodes : CurrentAuths'[n] = CurrentAuths[n] /\ CurrentBridges'[n] = CurrentBridges[n]
         /\ \A n \in Nodes : Made(n)' <=> Made(n)
         /\ \A n \in Nodes : RightTorrc(n)' = RightTorrc(n)
         /\ \A n \in Nodes : torrc'[n] = torrc[n] => (Good(n)' <=> Good(n))
  <1>1. Nodes' = Nodes
    BY NetFixed
  <1>2. \A n \in Nodes : CurrentAuths'[n] = CurrentAuths[n] /\ CurrentBridges'[n] = CurrentBridges[n]
    BY LinesFixed
  <1>3. \A n \in Nodes : Made(n)' <=> Made(n)
    BY LinesFixed
  <1>4. cert' = cert /\ id' = id
    BY <1>1 DEF TypeInv
  <1>5. CurrentAuths' = CurrentAuths /\ CurrentBridges' = CurrentBridges
    BY <1>1, <1>4 DEF CurrentAuths, CurrentBridges, AltAuthLines, BridgeLines
  <1>6. Assigned(CurrentAuths, CurrentBridges)' = Assigned(CurrentAuths, CurrentBridges)
    BY <1>5 DEF Assigned, Joining
  <1>7. \A n \in Nodes : RightTorrc(n)' = RightTorrc(n)
    BY <1>6 DEF RightTorrc, Torrc, World
  <1> QED
    BY <1>2, <1>3, <1>7 DEF Good

\* The other commands, the garbage collector and the tors leave configure alone.
LEMMA RestKeeps ==
  ASSUME Command \/ Collect \/ Crash \/ FinishBootstrap \/ UNCHANGED vars
  PROVE  /\ at' = "configuring" <=> at = "configuring"
         /\ at' \in Launched => at \in Launched
  <1>1. CASE Stop \/ Failed \/ Start \/ Status
    BY <1>1 DEF Stop, Failed, Start, Status, GoTo, Exit, Launched
  <1>2. CASE Wait \/ LeaveUnverified \/ NextRound \/ Verified \/ LeaveRunning \/ StopAtTheEnd
    BY <1>2 DEF Wait, NextPhase, LeaveUnverified, NextRound, Verified, LeaveRunning, StopAtTheEnd,
       GoTo, Exit, Launched
  <1>3. CASE Verifying \/ Collect \/ Crash \/ FinishBootstrap \/ UNCHANGED vars
    BY <1>3 DEF Verifying, Collect, Crash, FinishBootstrap, vars, script
  <1> QED
    BY <1>1, <1>2, <1>3 DEF Command

LEMMA RestSteps ==
  ASSUME IInv, CInv,
         \/ (Command \/ Collect \/ Crash \/ FinishBootstrap) /\ UNCHANGED configuration
         \/ UNCHANGED allvars
  PROVE  CInv'
  <1>1. UNCHANGED configuration /\ (Command \/ Collect \/ Crash \/ FinishBootstrap \/ UNCHANGED vars)
    BY DEF allvars
  <1>2. net' = net
    BY <1>1, ConstStep DEF Next, Script
  <1>3. Nodes' = Nodes /\ LastConfig' = LastConfig /\ (AllChecked' <=> AllChecked)
    BY <1>2, NetFixed
  <1>4. /\ at' = "configuring" <=> at = "configuring"
        /\ at' \in Launched => at \in Launched
    BY <1>1, RestKeeps
  <1>5. /\ config_idx' = config_idx /\ step' = step /\ nodenum' = nodenum
        /\ auths' = auths /\ bridges' = bridges
        /\ cert' = cert /\ id' = id /\ torrc' = torrc
    BY <1>1 DEF configuration, progress, disk
  <1>6. TypeInv'
    BY <1>2, <1>3, <1>4, <1>5 DEF CInv, TypeInv
  <1>7. /\ \A n \in Nodes : CurrentAuths'[n] = CurrentAuths[n] /\ CurrentBridges'[n] = CurrentBridges[n]
        /\ \A n \in Nodes : (Made(n)' <=> Made(n)) /\ (Good(n)' <=> Good(n))
    BY <1>2, <1>5, <1>6, TorrcsFixed DEF CInv
  <1>8. \A n \in Nodes : (Passed(n)' <=> Passed(n)) /\ (Written(n)' <=> Written(n))
    BY <1>2, <1>5 DEF Passed, Written
  <1>9. KeysInv' /\ LinesInv' /\ CheckInv'
    BY <1>3, <1>5, <1>7, <1>8 DEF CInv, KeysInv, LinesInv, CheckInv
  <1>10. TorrcInv'
    BY <1>3, <1>4, <1>5, <1>7, <1>8 DEF CInv, TorrcInv
  <1> QED
    BY <1>6, <1>9, <1>10 DEF CInv

-----------------------------------------------------------------------------
(* The steps of configure.                                                 *)

\* An exception leaves a command that nothing is promised of.
LEMMA RaiseKeeps ==
  ASSUME IInv, CInv, Raise, DOMAIN torrc' = Nodes, cert' \in [Nodes -> Nat], id' \in [Nodes -> Nat]
  PROVE  CInv'
  <1>1. net' = net /\ at' = "failed" /\ step' = "none" /\ config_idx' = 1 /\ nodenum' = 1
    BY DEF Raise, ConfigureFails, Leave, GoTo
  <1>2. Nodes' = Nodes /\ LastConfig' = LastConfig
    BY <1>1, NetFixed
  <1>3. /\ auths' = [n \in Nodes |-> auths'[n]] /\ bridges' = [n \in Nodes |-> bridges'[n]]
    BY DEF Raise, Leave, NoLines
  <1>4. 1 \in DOMAIN net.order /\ LastConfig \in Nat \ {0}
    BY OrderIsComplete, LastConfigIsLast DEF IInv, ConstInv
  <1>5. TypeInv'
    BY <1>1, <1>2, <1>3, <1>4 DEF TypeInv
  <1> QED
    BY <1>1, <1>5 DEF CInv, KeysInv, LinesInv, TorrcInv, CheckInv, Launched

LEMMA CreateNodesDirStep == IInv /\ CInv /\ CreateNodesDir => CInv'
  <1> SUFFICES ASSUME IInv, CInv, CreateNodesDir PROVE CInv'
    OBVIOUS
  <1>1. CASE Raise /\ UNCHANGED disk
    BY <1>1, RaiseKeeps DEF CInv, TypeInv, disk
  <1>2. CASE ~(Raise /\ UNCHANGED disk)
    <2>1. /\ NewNodesDir /\ Begin(1)
          /\ cert' = [n \in Nodes |-> 0] /\ id' = [n \in Nodes |-> 0]
          /\ torrc' = [n \in Nodes |-> {}]
      BY <1>2 DEF CreateNodesDir
    <2>2. net' = net /\ at' = "configuring" /\ step' = "check" /\ config_idx' = 1 /\ nodenum' = 1
      BY <2>1 DEF NewNodesDir, Begin, GoTo
    <2>3. Nodes' = Nodes /\ LastConfig' = LastConfig
      BY <2>2, NetFixed
    <2>4. 1 \in DOMAIN net.order /\ LastConfig \in Nat \ {0}
      BY OrderIsComplete, LastConfigIsLast DEF IInv, ConstInv
    <2>5. TypeInv'
      BY <2>1, <2>2, <2>3, <2>4 DEF TypeInv, Begin, NoLines
    <2>6. KeysInv' /\ LinesInv' /\ CheckInv'
      BY <2>1, <2>2, <2>3 DEF KeysInv, LinesInv, CheckInv
    <2>7. \A n \in Nodes : ~Written(n)'
      BY <2>2, <2>3, LastConfigIsLast DEF Written, IInv, ConstInv
    <2>8. TorrcInv'
      BY <2>2, <2>3, <2>7 DEF TorrcInv, Launched
    <2> QED
      BY <2>5, <2>6, <2>8 DEF CInv
  <1> QED
    BY <1>1, <1>2

LEMMA CheckConfigStep == IInv /\ CInv /\ CheckConfig => CInv'
  <1> SUFFICES ASSUME IInv, CInv, CheckConfig PROVE CInv'
    OBVIOUS
  <1>1. cert' = cert /\ id' = id /\ torrc' = torrc /\ step = "check"
    BY DEF CheckConfig, disk
  <1>2. CASE Raise
    BY <1>1, <1>2, RaiseKeeps DEF CInv, TypeInv
  <1>3. CASE ~Raise
    <2>1. /\ AllChecked /\ step' = "prepare" /\ net' = net /\ at' = at
          /\ config_idx' = config_idx /\ nodenum' = nodenum
          /\ auths' = auths /\ bridges' = bridges
      BY <1>3 DEF CheckConfig, AllChecked, vars, script
    <2>2. Nodes' = Nodes /\ LastConfig' = LastConfig /\ AllChecked'
      BY <2>1, NetFixed
    <2>3. TypeInv'
      BY <1>1, <2>1, <2>2 DEF CInv, TypeInv
    <2>4. \A n \in Nodes : (Made(n)' <=> Made(n)) /\ (Good(n)' <=> Good(n))
      BY <1>1, <2>1, <2>3, TorrcsFixed DEF CInv
    <2>5. nodenum' = 1
      BY <1>1, <2>1 DEF CInv, TypeInv
    <2>6. \A n \in Nodes : ~Passed(n)'
      <3>1. \A i \in DOMAIN net.order : i \in Nat \ {0}
        BY OrderIsComplete DEF IInv, ConstInv
      <3> QED
        BY <2>1, <2>5, <3>1 DEF Passed
    <2>7. KeysInv' /\ LinesInv' /\ CheckInv'
      <3>1. KeysInv'
        <4>1. config_idx > 1 => \A n \in Nodes : Made(n)'
          BY <1>1, <2>4 DEF CInv, KeysInv
        <4> QED
          BY <2>1, <2>2, <2>6, <4>1 DEF KeysInv
      <3>2. LinesInv'
        BY <2>1, <2>2, <2>6 DEF LinesInv
      <3>3. CheckInv'
        BY <2>1, <2>2 DEF CheckInv
      <3> QED
        BY <3>1, <3>2, <3>3
    <2>8. \A n \in Nodes : Written(n)' => Written(n)
      BY <2>1 DEF Written
    <2>9. TorrcInv'
      BY <1>1, <2>1, <2>2, <2>4, <2>8 DEF CInv, TorrcInv
    <2> QED
      BY <2>3, <2>7, <2>9 DEF CInv
  <1> QED
    BY <1>2, <1>3
\* A loop over the nodes passes one, or has passed all.
LEMMA NextNodePasses ==
  ASSUME net \in Networks, net' = net, TypeInv, NEW next, NextNode(next)
  PROVE  /\ nodenum' \in DOMAIN net.order /\ Node \in Nodes
         /\ \/ /\ step' = step /\ nodenum' = nodenum + 1
               /\ \A n \in Nodes : Passed(n)' <=> Passed(n) \/ n = Node
            \/ /\ step' = next /\ nodenum' = 1
               /\ \A n \in Nodes : (Passed(n) \/ n = Node) /\ ~Passed(n)'
  <1>1. /\ Len(net.order) \in Nat \ {0} /\ DOMAIN net.order = 1..Len(net.order)
        /\ \A i \in DOMAIN net.order : net.order[i] \in Nodes
        /\ \A n \in Nodes : \E i \in DOMAIN net.order : net.order[i] = n
    BY OrderIsComplete
  <1>2. nodenum \in DOMAIN net.order
    BY DEF TypeInv
  <1>3. Node \in Nodes
    BY <1>1, <1>2 DEF Node
  <1>4. CASE nodenum < Len(net.order)
    <2>1. step' = step /\ nodenum' = nodenum + 1 /\ nodenum' \in DOMAIN net.order
      BY <1>1, <1>2, <1>4 DEF NextNode
    <2>2. \A i \in DOMAIN net.order : i < nodenum' <=> i < nodenum \/ i = nodenum
      BY <1>1, <1>2, <2>1
    <2>3. ASSUME NEW n \in Nodes PROVE Passed(n)' <=> Passed(n) \/ n = Node
      <3>1. Passed(n)' <=> \E i \in DOMAIN net.order : i < nodenum' /\ net.order[i] = n
        BY DEF Passed
      <3> QED
        BY <1>2, <2>2, <3>1 DEF Passed, Node
    <2> QED
      BY <1>3, <2>1, <2>3
  <1>5. CASE ~(nodenum < Len(net.order))
    <2>1. step' = next /\ nodenum' = 1 /\ 1 \in DOMAIN net.order /\ nodenum = Len(net.order)
      BY <1>1, <1>2, <1>5 DEF NextNode
    <2>2. \A i \in DOMAIN net.order : ~(i < nodenum') /\ (i < nodenum \/ i = nodenum)
      BY <1>1, <2>1
    <2>3. \A n \in Nodes : (Passed(n) \/ n = Node) /\ ~Passed(n)'
      BY <1>1, <2>2 DEF Passed, Node
    <2> QED
      BY <1>3, <2>1, <2>3
  <1> QED
    BY <1>4, <1>5

\* Keys are made once, and only those of the node.
LEMMA KeysAreKept ==
  ASSUME net' = net, cert \in [Nodes -> Nat], id \in [Nodes -> Nat],
         cert' = IF Node \in net.authority THEN Gen(cert, Node) ELSE cert,
         id' = IF Node \in net.relay THEN Gen(id, Node) ELSE id,
         Node \in Nodes
  PROVE  /\ cert' \in [Nodes -> Nat] /\ id' \in [Nodes -> Nat]
         /\ \A n \in Nodes : n # Node \/ Made(n) => cert'[n] = cert[n] /\ id'[n] = id[n]
         /\ \A n \in Nodes : n = Node => Made(n)'
  <1>1. Gen(cert, Node) \in [Nodes -> Nat] /\ Gen(id, Node) \in [Nodes -> Nat]
    BY DEF Gen
  <1>2. /\ \A n \in Nodes : n # Node => Gen(cert, Node)[n] = cert[n] /\ Gen(id, Node)[n] = id[n]
        /\ Gen(cert, Node)[Node] = IF cert[Node] = 0 THEN 1 ELSE cert[Node]
        /\ Gen(id, Node)[Node] = IF id[Node] = 0 THEN 1 ELSE id[Node]
    BY DEF Gen
  <1>3. \A n \in Nodes : n # Node \/ Made(n) => cert'[n] = cert[n] /\ id'[n] = id[n]
    BY <1>2 DEF Made
  <1>4. Node \in net.authority => cert'[Node] # 0
    BY <1>2
  <1>5. Node \in net.relay => id'[Node] # 0
    BY <1>2
  <1>6. \A n \in Nodes : n = Node => Made(n)'
    BY <1>4, <1>5 DEF Made
  <1> QED
    BY <1>1, <1>3, <1>6
LEMMA PreConfigStep == IInv /\ CInv /\ PreConfig => CInv'
  <1> SUFFICES ASSUME IInv, CInv, PreConfig PROVE CInv'
    OBVIOUS
  <1> DEFINE certs == IF Node \in net.authority THEN Gen(cert, Node) ELSE cert
             ids == IF Node \in net.relay THEN Gen(id, Node) ELSE id
  <1>1. TypeInv /\ KeysInv /\ LinesInv /\ TorrcInv /\ CheckInv /\ net \in Networks
    BY DEF CInv, IInv, ConstInv
  <1>2. step = "prepare" /\ torrc' = torrc
    BY DEF PreConfig
  <1>3. Node \in Nodes
    BY <1>1, OrderIsComplete DEF TypeInv, Node
  <1>4. certs \in [Nodes -> Nat] /\ ids \in [Nodes -> Nat]
    BY <1>1, <1>3 DEF TypeInv, Gen
  <1>5. CASE Raise
    <2>1. (cert' = cert \/ cert' = certs) /\ (id' = id \/ id' = ids)
      BY DEF PreConfig
    <2> QED
      BY <1>1, <1>2, <1>4, <1>5, <2>1, RaiseKeeps DEF TypeInv
  <1>6. CASE ~Raise
    <2>1. /\ cert' = certs /\ id' = ids
          /\ auths' = [auths EXCEPT ![Node] = AltAuthLines(Node, certs, ids)]
          /\ bridges' = [bridges EXCEPT ![Node] = BridgeLines(Node, ids)]
          /\ NextNode("write")
          /\ config_idx' = config_idx /\ net' = net /\ at' = at
      BY <1>6 DEF PreConfig, vars, script
    <2>2. Nodes' = Nodes /\ LastConfig' = LastConfig /\ (AllChecked' <=> AllChecked)
      BY <2>1, NetFixed
    <2>3. /\ \A n \in Nodes : n # Node \/ Made(n) => cert'[n] = cert[n] /\ id'[n] = id[n]
          /\ \A n \in Nodes : n = Node => Made(n)'
      BY <1>1, <1>3, <2>1, KeysAreKept DEF TypeInv
    <2>4. /\ nodenum' \in DOMAIN net.order
          /\ \/ /\ step' = "prepare" /\ nodenum' = nodenum + 1
                /\ \A n \in Nodes : Passed(n)' <=> Passed(n) \/ n = Node
             \/ /\ step' = "write" /\ nodenum' = 1
                /\ \A n \in Nodes : (Passed(n) \/ n = Node) /\ ~Passed(n)'
      BY <1>1, <1>2, <2>1, NextNodePasses
    <2>5. TypeInv'
      BY <1>1, <1>2, <1>4, <2>1, <2>2, <2>4 DEF TypeInv
    <2>6. ASSUME NEW n \in Nodes, Made(n)
          PROVE  /\ Made(n)' /\ CurrentAuths'[n] = CurrentAuths[n]
                 /\ CurrentBridges'[n] = CurrentBridges[n]
      BY <2>1, <2>3, <2>6, LinesFixed
    <2>7. ASSUME NEW n \in Nodes, Passed(n) \/ n = Node PROVE Made(n)'
      BY <1>1, <1>2, <2>3, <2>6, <2>7 DEF KeysInv
    <2>8. KeysInv'
      <3>1. step # "none" /\ config_idx > 1 => \A n \in Nodes : Made(n)'
        BY <1>1, <1>2, <2>6 DEF KeysInv
      <3>2. CASE step' = "prepare"
        BY <1>2, <2>1, <2>2, <2>4, <2>7, <3>1, <3>2 DEF KeysInv
      <3>3. CASE step' = "write"
        <4>1. \A n \in Nodes : Made(n)'
          BY <2>4, <2>7, <3>3
        <4> QED
          BY <2>2, <3>3, <4>1 DEF KeysInv
      <3> QED
        BY <2>4, <3>2, <3>3
    <2>9. ASSUME NEW n \in Nodes, Passed(n) \/ n = Node
          PROVE  auths'[n] = CurrentAuths'[n] /\ bridges'[n] = CurrentBridges'[n]
      <3>1. CASE n = Node
        <4>1. auths'[n] = AltAuthLines(n, certs, ids) /\ bridges'[n] = BridgeLines(n, ids)
          BY <1>1, <2>1, <3>1 DEF TypeInv
        <4>2. /\ CurrentAuths'[n] = AltAuthLines(n, cert, id)'
              /\ CurrentBridges'[n] = BridgeLines(n, id)'
          BY <2>2 DEF CurrentAuths, CurrentBridges
        <4>3. /\ AltAuthLines(n, cert, id)' = AltAuthLines(n, certs, ids)
              /\ BridgeLines(n, id)' = BridgeLines(n, ids)
          BY <2>1 DEF AltAuthLines, BridgeLines
        <4> QED
          BY <4>1, <4>2, <4>3
      <3>2. CASE n # Node
        <4>1. auths'[n] = auths[n] /\ bridges'[n] = bridges[n]
          BY <1>1, <2>1, <3>2 DEF TypeInv
        <4>2. CurrentAuths'[n] = CurrentAuths[n] /\ CurrentBridges'[n] = CurrentBridges[n]
          BY <2>1, <2>3, <3>2, LinesFixed
        <4> QED
          BY <1>1, <1>2, <2>9, <3>2, <4>1, <4>2 DEF LinesInv
      <3> QED
        BY <3>1, <3>2
    <2>10. LinesInv'
      BY <2>2, <2>4, <2>9 DEF LinesInv
    <2>11. ASSUME NEW n \in Nodes, Written(n)' PROVE Good(n)'
      <3>1. net.config[n] \in Nat \ {0} /\ net.config[n] < config_idx /\ config_idx > 1
        <4>1. ~Passed(n)' \/ step' = "prepare"
          BY <2>4
        <4>2. net.config[n] < config_idx
          BY <2>1, <2>4, <2>11, <4>1 DEF Written
        <4> QED
          BY <1>1, <4>2, LastConfigIsLast DEF TypeInv
      <3>2. \A m \in Nodes : cert'[m] = cert[m] /\ id'[m] = id[m]
        BY <1>1, <1>2, <2>3, <3>1 DEF KeysInv
      <3>3. Good(n)
        BY <1>1, <1>2, <3>1 DEF TorrcInv, Written
      <3> QED
        BY <1>1, <1>2, <2>1, <2>5, <3>2, <3>3, TorrcsFixed
    <2>12. TorrcInv'
      <3>1. at \notin Launched
        BY <1>1, <1>2 DEF TypeInv, Launched
      <3> QED
        BY <2>1, <2>2, <2>11, <3>1 DEF TorrcInv
    <2>13. CheckInv'
      BY <1>1, <1>2, <2>1, <2>2, <2>4 DEF CheckInv
    <2> QED
      BY <2>5, <2>8, <2>10, <2>12, <2>13 DEF CInv
  <1> QED
    BY <1>5, <1>6
LEMMA WriteStep == IInv /\ CInv /\ (Config \/ SkipConfig) => CInv'
  <1> SUFFICES ASSUME IInv, CInv, Config \/ SkipConfig PROVE CInv'
    OBVIOUS
  <1>1. TypeInv /\ KeysInv /\ LinesInv /\ TorrcInv /\ CheckInv /\ net \in Networks
    BY DEF CInv, IInv, ConstInv
  <1>2. step = "write" /\ cert' = cert /\ id' = id
    BY DEF Config, SkipConfig, disk
  <1>3. Node \in Nodes
    BY <1>1, OrderIsComplete DEF TypeInv, Node
  <1>4. CASE Config /\ Raise
    <2>1. DOMAIN torrc' = Nodes
      BY <1>1, <1>4 DEF Config, TypeInv
    <2> QED
      BY <1>1, <1>2, <1>4, <2>1, RaiseKeeps DEF TypeInv
  <1>5. CASE SkipConfig \/ ~Raise
    <2>1. /\ NextNode("arti") /\ net' = net /\ at' = at
          /\ config_idx' = config_idx /\ auths' = auths /\ bridges' = bridges
      BY <1>5 DEF Config, SkipConfig, vars, script
    <2>2. Nodes' = Nodes /\ LastConfig' = LastConfig /\ (AllChecked' <=> AllChecked)
      BY <2>1, NetFixed
    <2>3. /\ DOMAIN torrc' = Nodes
          /\ \A n \in Nodes : n # Node => torrc'[n] = torrc[n]
      BY <1>1, <1>5 DEF Config, SkipConfig, disk, TypeInv
    <2>4. \/ net.config[Node] # config_idx /\ torrc' = torrc
          \/ /\ net.config[Node] = config_idx
             /\ torrc'[Node] = Torrc(Node, Assigned(auths, bridges)) /\ torrc'[Node] # {}
      BY <1>1, <1>3, <1>5 DEF Config, SkipConfig, disk, TypeInv
    <2>5. /\ nodenum' \in DOMAIN net.order
          /\ \/ /\ step' = "write" /\ nodenum' = nodenum + 1
                /\ \A n \in Nodes : Passed(n)' <=> Passed(n) \/ n = Node
             \/ /\ step' = "arti" /\ nodenum' = 1
                /\ \A n \in Nodes : (Passed(n) \/ n = Node) /\ ~Passed(n)'
      BY <1>1, <1>2, <2>1, NextNodePasses
    <2>6. TypeInv'
      BY <1>1, <1>2, <2>1, <2>2, <2>3, <2>5 DEF TypeInv
    <2>7. /\ \A n \in Nodes : /\ CurrentAuths'[n] = CurrentAuths[n]
                              /\ CurrentBridges'[n] = CurrentBridges[n]
          /\ \A n \in Nodes : Made(n)' <=> Made(n)
          /\ \A n \in Nodes : RightTorrc(n)' = RightTorrc(n)
          /\ \A n \in Nodes : torrc'[n] = torrc[n] => (Good(n)' <=> Good(n))
      BY <1>1, <1>2, <2>1, <2>6, TorrcsFixed
    <2>8. KeysInv'
      BY <1>1, <1>2, <2>2, <2>5, <2>7 DEF KeysInv
    <2>9. LinesInv'
      BY <1>1, <1>2, <2>1, <2>2, <2>5, <2>7 DEF LinesInv
    <2>10. CheckInv'
      BY <1>1, <1>2, <2>2, <2>5 DEF CheckInv
    <2>11. net.config[Node] = config_idx => torrc'[Node] = RightTorrc(Node) /\ torrc'[Node] # {}
      <3>1. auths = CurrentAuths /\ bridges = CurrentBridges
        BY <1>1, <1>2 DEF LinesInv, TypeInv, CurrentAuths, CurrentBridges
      <3> QED
        BY <2>4, <3>1 DEF RightTorrc
    <2>12. ASSUME NEW n \in Nodes, Written(n)' PROVE Good(n)'
      <3>1. net.config[n] = config_idx \/ net.config[n] < config_idx
        BY <2>1, <2>12 DEF Written
      <3>2. CASE n = Node /\ net.config[Node] = config_idx
        BY <2>4, <2>7, <2>11, <3>2 DEF Good
      <3>3. CASE n # Node \/ net.config[Node] # config_idx
        <4>1. Written(n)
          <5>1. CASE net.config[n] < config_idx
            BY <5>1 DEF Written
          <5>2. CASE net.config[n] = config_idx
            BY <1>2, <2>1, <2>5, <2>12, <3>3, <5>2 DEF Written
          <5> QED
            BY <3>1, <5>1, <5>2
        <4>2. Good(n)
          BY <1>1, <1>2, <4>1 DEF TorrcInv
        <4>3. torrc'[n] = torrc[n]
          BY <2>3, <2>4, <3>3
        <4> QED
          BY <2>7, <4>2, <4>3
      <3> QED
        BY <3>2, <3>3
    <2>13. TorrcInv'
      <3>1. at \notin Launched
        BY <1>1, <1>2 DEF TypeInv, Launched
      <3> QED
        BY <2>1, <2>2, <2>12, <3>1 DEF TorrcInv
    <2> QED
      BY <2>6, <2>8, <2>9, <2>10, <2>13 DEF CInv
  <1> QED
    BY <1>4, <1>5

LEMMA WriteArtiStep == IInv /\ CInv /\ WriteArti => CInv'
  <1> SUFFICES ASSUME IInv, CInv, WriteArti PROVE CInv'
    OBVIOUS
  <1>1. TypeInv /\ KeysInv /\ LinesInv /\ TorrcInv /\ CheckInv /\ net \in Networks
    BY DEF CInv, IInv, ConstInv
  <1>2. step = "arti" /\ cert' = cert /\ id' = id /\ torrc' = torrc
    BY DEF WriteArti, disk
  <1>3. 1 \in DOMAIN net.order /\ LastConfig \in Nat \ {0}
    BY <1>1, OrderIsComplete, LastConfigIsLast
  <1>4. CASE Raise
    BY <1>1, <1>2, <1>4, RaiseKeeps DEF TypeInv
  <1>5. ASSUME TypeInv', net' = net
        PROVE  /\ Nodes' = Nodes /\ (AllChecked' <=> AllChecked)
               /\ \A n \in Nodes : Made(n)' /\ (Good(n)' <=> Good(n))
    <2>1. \A n \in Nodes : (Made(n)' <=> Made(n)) /\ (Good(n)' <=> Good(n))
      BY <1>1, <1>2, <1>5, TorrcsFixed
    <2>2. \A n \in Nodes : Made(n)
      BY <1>1, <1>2 DEF KeysInv
    <2> QED
      BY <1>5, <2>1, <2>2, NetFixed
  <1>6. ASSUME NEW n \in Nodes, net.config[n] <= config_idx PROVE Good(n)
    <2>1. net.config[n] \in Nat /\ config_idx \in Nat
      BY <1>1, LastConfigIsLast DEF TypeInv
    <2> QED
      BY <1>1, <1>2, <1>6, <2>1 DEF TorrcInv, Written
  <1>7. CASE config_idx < LastConfig /\ Begin(config_idx + 1) /\ UNCHANGED vars
    <2>1. /\ net' = net /\ at' = at /\ step' = "check" /\ nodenum' = 1
          /\ config_idx' = config_idx + 1
      BY <1>7 DEF Begin, vars, script
    <2>2. Nodes' = Nodes /\ LastConfig' = LastConfig
      BY <2>1, NetFixed
    <2>3. TypeInv'
      BY <1>1, <1>2, <1>3, <1>7, <2>1, <2>2 DEF TypeInv, Begin, NoLines
    <2>4. /\ AllChecked' <=> AllChecked
          /\ \A n \in Nodes : Made(n)' /\ (Good(n)' <=> Good(n))
      BY <1>5, <2>1, <2>3
    <2>5. KeysInv' /\ LinesInv'
      BY <2>1, <2>2, <2>4 DEF KeysInv, LinesInv
    <2>6. CheckInv'
      BY <1>1, <1>2, <2>1, <2>4 DEF CheckInv, TypeInv
    <2>7. ASSUME NEW n \in Nodes, Written(n)' PROVE Good(n)'
      <3>1. net.config[n] < config_idx + 1
        BY <2>1, <2>7 DEF Written
      <3>2. net.config[n] <= config_idx
        BY <1>1, <3>1, LastConfigIsLast DEF TypeInv
      <3> QED
        BY <1>6, <2>4, <3>2
    <2>8. TorrcInv'
      <3>1. at \notin Launched
        BY <1>1, <1>2 DEF TypeInv, Launched
      <3> QED
        BY <2>1, <2>2, <2>7, <3>1 DEF TorrcInv
    <2> QED
      BY <2>3, <2>5, <2>6, <2>8 DEF CInv
  <1>8. CASE config_idx = LastConfig /\ Configured /\ Leave
    <2>1. /\ net' = net /\ at' = "start" /\ step' = "none" /\ nodenum' = 1 /\ config_idx' = 1
      BY <1>8 DEF Configured, Leave
    <2>2. Nodes' = Nodes /\ LastConfig' = LastConfig
      BY <2>1, NetFixed
    <2>3. TypeInv'
      BY <1>1, <1>2, <1>3, <1>8, <2>1, <2>2 DEF TypeInv, Leave, NoLines
    <2>4. \A n \in Nodes : Good(n)' <=> Good(n)
      BY <1>5, <2>1, <2>3
    <2>5. \A n \in Nodes : Good(n)
      BY <1>1, <1>6, <1>8, LastConfigIsLast
    <2>6. TorrcInv'
      BY <2>1, <2>2, <2>4, <2>5 DEF TorrcInv
    <2> QED
      BY <2>1, <2>3, <2>6 DEF CInv, KeysInv, LinesInv, CheckInv
  <1> QED
    BY <1>4, <1>7, <1>8 DEF WriteArti
-----------------------------------------------------------------------------
(* The theorems.                                                           *)

LEMMA ConfigureInitInv == ConfigureInit => CInv
  <1> SUFFICES ASSUME ConfigureInit PROVE CInv
    OBVIOUS
  <1>1. net \in Networks /\ at = "stop" /\ step = "none" /\ config_idx = 1 /\ nodenum = 1
    BY DEF ConfigureInit, Init
  <1>2. 1 \in DOMAIN net.order /\ LastConfig \in Nat \ {0}
    BY <1>1, OrderIsComplete, LastConfigIsLast
  <1>3. TypeInv
    BY <1>1, <1>2 DEF ConfigureInit, TypeInv, NoLines
  <1> QED
    BY <1>1, <1>3 DEF CInv, KeysInv, LinesInv, TorrcInv, CheckInv, Launched

LEMMA ConfigureStep == IInv /\ CInv /\ [ConfigureNext]_allvars => CInv'
  BY CreateNodesDirStep, CheckConfigStep, PreConfigStep, WriteStep, WriteArtiStep, RestSteps
     DEF ConfigureNext, Detail

LEMMA ConfigureInvariance == ConfigureSpec => [](IInv /\ CInv)
  <1>1. IInv /\ CInv /\ [ConfigureNext]_allvars => IInv' /\ CInv'
    BY StepRefines, InvStep, ConfigureStep
  <1>2. ConfigureInit => IInv /\ CInv
    BY InitInv, ConfigureInitInv DEF ConfigureInit
  <1> QED
    BY <1>1, <1>2, PTL DEF ConfigureSpec

\* No tor is started from files that disagree with each other or with the keys, for
\* every number of nodes and phases, whatever order the nodes have (TorNet.py: configure
\* collects the lines anew in each phase, from keys that _genAuthorityKey and
\* _genRouterKey keep).
THEOREM TorrcsAgreeAlways == ConfigureSpec => []TorrcsAgree
  <1>1. CInv => TorrcsAgree
    BY DEF CInv, TorrcInv, Good, RightTorrc, CurrentAuths, CurrentBridges, TorrcsAgree, Launched
  <1> QED
    BY ConfigureInvariance, <1>1, PTL

\* Keys and torrcs are only written once the templates of all nodes could be expanded
\* (_checkConfig goes through the nodes of all phases, not through those of its own).
THEOREM CheckedBeforeWritten == ConfigureSpec => []CheckedFirst
  <1>1. CInv => CheckedFirst
    <2> SUFFICES ASSUME CInv, at = "configuring",
                        \E n \in Nodes : cert[n] # 0 \/ id[n] # 0 \/ torrc[n] # {}
                 PROVE  AllChecked
      BY DEF CheckedFirst, AllChecked
    <2>1. step \in {"check", "prepare", "write", "arti"} /\ config_idx \in Nat \ {0}
      BY DEF CInv, TypeInv
    <2>2. CASE step = "check" /\ config_idx = 1
      BY <2>2 DEF CInv, CheckInv
    <2>3. CASE ~(step = "check" /\ config_idx = 1)
      BY <2>1, <2>3 DEF CInv, CheckInv
    <2> QED
      BY <2>2, <2>3
  <1> QED
    BY ConfigureInvariance, <1>1, PTL

\* The types of the configuration, with those of the scripts: configure runs only when
\* the scripts wait for it, and its loops stay within the nodes and the phases.
THEOREM ConfigureTypeCorrect == ConfigureSpec => []ConfigureTypeOK
  <1>1. IInv /\ TypeIsCorrect /\ CInv => ConfigureTypeOK
    <2> SUFFICES ASSUME IInv, TypeIsCorrect, CInv PROVE ConfigureTypeOK
      OBVIOUS
    <2>1. TypeOK
      BY TypesFollow
    <2>2. TypeInv /\ LastConfig \in Nat
      BY LastConfigIsLast DEF CInv, IInv, ConstInv
    <2>3. config_idx \in 1..LastConfig /\ DOMAIN auths = Nodes /\ DOMAIN bridges = Nodes
      BY <2>2 DEF TypeInv
    <2> QED
      BY <2>1, <2>2, <2>3 DEF ConfigureTypeOK, TypeInv
  <1> QED
    BY ScriptInvariance, ConfigureInvariance, <1>1, PTL

-----------------------------------------------------------------------------
(* The torrc files that tors are started with.                             *)

\* A torrc that a tor is started with is what substitution makes of its template, and
\* one more substitution leaves it as it is: it is there, it is one text, and it
\* reproduces itself. So no tor is given a template that ran out of iterations or that was
\* expanded for the lines of an earlier phase.
TorrcsAreExpanded ==
  at \in {"start", "start again"} =>
    \A n \in Nodes : \E text :
      /\ torrc[n] = {text}
      /\ Substitute(World(n, Assigned([m \in Nodes |-> AltAuthLines(m, cert, id)],
                                     [m \in Nodes |-> BridgeLines(m, id)])), text) = {text}

\* Every torrc that a tor is started with is a text that substitution leaves as it is,
\* for the lines that the keys on the disk give.
THEOREM TorrcsExpanded == ConfigureSpec => []TorrcsAreExpanded
  <1>1. TorrcsAgree => TorrcsAreExpanded
    <2> SUFFICES ASSUME TorrcsAgree, at \in {"start", "start again"}, NEW n \in Nodes
                 PROVE  \E text :
                   /\ torrc[n] = {text}
                   /\ Substitute(World(n, Assigned([m \in Nodes |-> AltAuthLines(m, cert, id)],
                                                  [m \in Nodes |-> BridgeLines(m, id)])), text) = {text}
      BY DEF TorrcsAreExpanded
    <2> DEFINE world == World(n, Assigned([m \in Nodes |-> AltAuthLines(m, cert, id)],
                                          [m \in Nodes |-> BridgeLines(m, id)]))
               pattern == <<Deferred("torrc")>>
    <2>1. torrc[n] # {} /\ torrc[n] = Format(world, pattern)
      BY DEF TorrcsAgree, Torrc, Pattern
    <2> HIDE DEF world, pattern
    <2>2. PICK text : text \in Format(world, pattern)
      BY <2>1
    <2>3. PICK k \in 0..MaxIterations :
            After(world, pattern)[k] = {text} /\ Substitute(world, text) = {text}
      BY <2>2, FormatIsTheFixedPoint
    <2>4. \A t : t \in Format(world, pattern) => t = text
      <3> SUFFICES ASSUME NEW t, t \in Format(world, pattern) PROVE t = text
        OBVIOUS
      <3>1. Format(world, pattern) = {text}
        BY <2>2, FormatAtMostOne DEF AtMostOne
      <3> QED
        BY <3>1
    <2>5. torrc[n] = {text}
      BY <2>1, <2>2, <2>4
    <2> QED
      BY <2>3, <2>5 DEF world
  <1> QED
    BY TorrcsAgreeAlways, <1>1, PTL

-----------------------------------------------------------------------------
(* Templates mean what configure makes of them.                            *)

LEMMA JoiningIsText ==
  ASSUME net \in Networks, NEW A, NEW lines, \A n \in Nodes : lines[n] \in Seq(A)
  PROVE  Joining(lines) \in Seq(A)
<1> DEFINE seqs == [i \in DOMAIN net.order |-> lines[net.order[i]]]
<1>1. PICK k : k = Len(net.order)
  OBVIOUS
<1>2. k \in Nat /\ DOMAIN net.order = 1..k /\ \A i \in 1..k : net.order[i] \in Nodes
  BY <1>1, OrderIsComplete
<1>3. seqs = [i \in 1..k |-> lines[net.order[i]]]
  BY <1>2
<1>4. \A i \in 1..k : lines[net.order[i]] \in Seq(A)
  BY <1>2
<1>5. Joining(lines) = FlattenSeq(seqs)
  BY DEF Joining
<1> HIDE DEF seqs
<1>6. seqs \in [1..k -> Seq(A)]
  BY <1>3, <1>4
<1>7. seqs \in Seq(Seq(A))
  BY <1>2, <1>6
<1> QED BY <1>5, <1>7, FlattenIsText

LineTokens(certs, ids) ==
  {Line(option, n, <<certs[n], ids[n]>>) :
     option \in {"AlternateBridgeAuthority", "AlternateDirAuthority", "DirAuthority"}, n \in Nodes}
    \union {Line("Bridge", n, <<ids[n]>>) : n \in Nodes}

LEMMA LinesAreTexts ==
  ASSUME NEW certs, NEW ids, NEW n \in Nodes
  PROVE  /\ AltAuthLines(n, certs, ids) \in Seq(LineTokens(certs, ids))
         /\ BridgeLines(n, ids) \in Seq(LineTokens(certs, ids))
<1> DEFINE T == LineTokens(certs, ids)
           authority(option) == Line(option, n, <<certs[n], ids[n]>>)
<1>1. \A option \in {"AlternateBridgeAuthority", "AlternateDirAuthority", "DirAuthority"} : authority(option) \in T
  BY DEF LineTokens
<1>2. Line("Bridge", n, <<ids[n]>>) \in T
  BY DEF LineTokens
<1>3. \A x \in T : <<x>> \in Seq(T)
  OBVIOUS
<1>4. <<>> \in Seq(T)
  OBVIOUS
<1>5. AltAuthLines(n, certs, ids) = <<>> \/
        \E option \in {"AlternateBridgeAuthority", "AlternateDirAuthority", "DirAuthority"} :
          AltAuthLines(n, certs, ids) = <<authority(option)>>
  BY DEF AltAuthLines
<1>6. BridgeLines(n, ids) = <<>> \/ BridgeLines(n, ids) = <<Line("Bridge", n, <<ids[n]>>)>>
  BY DEF BridgeLines
<1> HIDE DEF T, authority
<1>7. AltAuthLines(n, certs, ids) \in Seq(T)
  BY <1>1, <1>3, <1>4, <1>5
<1>8. BridgeLines(n, ids) \in Seq(T)
  BY <1>2, <1>3, <1>4, <1>6
<1> QED BY <1>7, <1>8 DEF T

\* What configure puts into the defaults: lines, which nothing is substituted in.
HoldsLines(assigned) ==
  /\ DOMAIN assigned = {"authorities", "bridges"}
  /\ \A key \in DOMAIN assigned :
       IsText(assigned[key]) /\ \A i \in DOMAIN assigned[key] : assigned[key][i].kind = "line"

LEMMA LinesAreHeld ==
  ASSUME net \in Networks, NEW certs, NEW ids, NEW authlines, NEW bridgelines,
         \A n \in Nodes : authlines[n] = AltAuthLines(n, certs, ids) /\ bridgelines[n] = BridgeLines(n, ids)
  PROVE  HoldsLines(Assigned(authlines, bridgelines))
<1> DEFINE T == LineTokens(certs, ids)
<1>1. Joining(authlines) \in Seq(T) /\ Joining(bridgelines) \in Seq(T)
  BY LinesAreTexts, JoiningIsText
<1>2. \A x \in T : x.kind = "line"
  BY DEF LineTokens, Line
<1>3. ASSUME NEW text \in Seq(T)
      PROVE  IsText(text) /\ \A i \in DOMAIN text : text[i].kind = "line"
  <2> HIDE DEF T
  <2>1. \A i \in DOMAIN text : text[i] \in T
    OBVIOUS
  <2> QED BY <1>2, <2>1, IsTextOf
<1> HIDE DEF T
<1> DEFINE assigned == Assigned(authlines, bridgelines)
<1>4. /\ DOMAIN assigned = {"authorities", "bridges"}
      /\ assigned.authorities = Joining(authlines) /\ assigned.bridges = Joining(bridgelines)
  BY DEF Assigned
<1> HIDE DEF assigned
<1> QED BY <1>1, <1>3, <1>4 DEF HoldsLines, assigned

\* The dictionaries and files of a node's world, and what they cannot hold.
LEMMA WorldHolds ==
  ASSUME net \in Networks, NEW n \in Nodes, NEW assigned, HoldsTemplates(assigned)
  PROVE  LET world == World(n, assigned) IN
         /\ IsWorld(world)
         /\ \A text \in TextsIn(world) : \A i \in DOMAIN text : text[i].kind # "deferred"
<1> DEFINE world == World(n, assigned)
           num == CHOOSE i \in DOMAIN net.order : net.order[i] = n
           own == [nodenum |-> <<Number(num - 1)>>]
<1>1. /\ DOMAIN world.env = 1..4
      /\ world.env[1] = own /\ world.env[2] = net.own[n]
      /\ world.env[3] = assigned /\ world.env[4] = net.dflts
      /\ world.files = net.files
  BY DEF World
<1>2. HoldsTemplates(net.own[n]) /\ HoldsTemplates(net.dflts) /\ HoldsTemplates(net.files)
  BY ConfigureAssumption DEF Nodes
<1>3. HoldsTemplates(own)
  <2>1. \A x : <<x>> \in Seq({x})
    OBVIOUS
  <2>2. \A x : IsText(<<x>>)
    BY <2>1, IsTextOf
  <2>3. Number(num - 1).kind # "deferred"
    BY DEF Number
  <2>4. \A x : DOMAIN <<x>> = {1} /\ <<x>>[1] = x
    OBVIOUS
  <2>5. DOMAIN own = {"nodenum"} /\ own["nodenum"] = <<Number(num - 1)>>
    OBVIOUS
  <2> HIDE DEF own, num
  <2>6. /\ IsText(own["nodenum"])
        /\ \A i \in DOMAIN own["nodenum"] : own["nodenum"][i].kind # "deferred"
    BY <2>2, <2>3, <2>4, <2>5
  <2> QED BY <2>5, <2>6 DEF HoldsTemplates
<1> HIDE DEF own, num, world
<1>4. \A i \in DOMAIN world.env : HoldsTemplates(world.env[i])
  <2>1. \A i \in 1..4 : i = 1 \/ i = 2 \/ i = 3 \/ i = 4
    OBVIOUS
  <2> QED BY <1>1, <1>2, <1>3, <2>1
<1>5. HoldsTemplates(world.files)
  BY <1>1, <1>2
<1>6. IsWorld(world)
  BY <1>1, <1>4, <1>5 DEF IsWorld, HoldsTemplates
<1>7. ASSUME NEW text \in TextsIn(world) PROVE \A i \in DOMAIN text : text[i].kind # "deferred"
  <2>1. CASE \E i \in DOMAIN world.env : \E key \in DOMAIN world.env[i] : text = world.env[i][key]
    BY <1>4, <2>1 DEF HoldsTemplates
  <2>2. CASE \E f \in DOMAIN world.files : text = world.files[f]
    BY <1>5, <2>2 DEF HoldsTemplates
  <2> QED BY <2>1, <2>2 DEF TextsIn
<1> QED BY <1>6, <1>7 DEF world

LEMMA NothingDeferred ==
  ASSUME NEW world, \A text \in TextsIn(world) : \A i \in DOMAIN text : text[i].kind # "deferred"
  PROVE  \A x \in TokensIn(world) : x.kind # "deferred"
<1>1. \A x \in TokensOf(TextsIn(world)) : x.kind # "deferred"
  BY DEF TokensOf, Range
<1>2. \A k : Number(k).kind # "deferred" /\ Literal(k).kind # "deferred" /\ File(k).kind # "deferred"
  BY DEF Number, Literal, File
<1>3. \A x \in TokensOf({Texts[key] : key \in DOMAIN Texts}) : x.kind # "deferred"
  <2>1. /\ DOMAIN Texts = {"nick", "dir"}
        /\ Texts["nick"] = <<Literal("test"), Variable("nodenum"), Variable("tag")>>
        /\ Texts["dir"] = <<Variable("net_base_dir"), Literal("/nodes/"), Variable("nodenum"), Variable("tag")>>
    BY DEF Texts
  <2>2. \A k : Variable(k).kind # "deferred"
    BY DEF Variable
  <2>3. \A a, b, c, d : Range(<<a, b, c>>) = {a, b, c} /\ Range(<<a, b, c, d>>) = {a, b, c, d}
    BY DEF Range
  <2>4. TokensOf({Texts[key] : key \in DOMAIN Texts}) = Range(Texts["nick"]) \union Range(Texts["dir"])
    BY <2>1 DEF TokensOf
  <2> HIDE DEF Texts
  <2> QED BY <1>2, <2>1, <2>2, <2>3, <2>4
<1>4. \A x \in FoundIn(world) : x.kind # "deferred"
  BY <1>1, <1>2, <1>3 DEF FoundIn
<1> QED BY <1>2, <1>4 DEF TokensIn

LEMMA MinIs ==
  ASSUME NEW T \in SUBSET Nat, NEW m \in T, \A k \in T : m <= k
  PROVE  Min(T) = m
<1>1. Min(T) \in T /\ Min(T) <= m
  BY MinIsLeast
<1>2. Min(T) \in Nat /\ m \in Nat /\ m <= Min(T)
  BY <1>1
<1> QED BY <1>1, <1>2

\* What is assigned is what a node finds, unless it has a value of its own.
LEMMA ExplicitInWorld ==
  ASSUME NEW n, NEW assigned, NEW key, key # "nodenum"
  PROVE  Explicit(World(n, assigned).env, key) =
           IF key \in DOMAIN net.own[n] THEN {net.own[n][key]}
           ELSE IF key \in DOMAIN assigned THEN {assigned[key]}
           ELSE IF key \in DOMAIN net.dflts THEN {net.dflts[key]}
           ELSE {}
<1> DEFINE env == World(n, assigned).env
           holders == {i \in DOMAIN env : key \in DOMAIN env[i]}
<1>1. /\ DOMAIN env = 1..4
      /\ DOMAIN env[1] = {"nodenum"} /\ env[2] = net.own[n] /\ env[3] = assigned /\ env[4] = net.dflts
  BY DEF World
<1>2. Explicit(env, key) = IF holders = {} THEN {} ELSE {env[Min(holders)][key]}
  BY DEF Explicit
<1> HIDE DEF env
<1>3. \A i \in 1..4 : i = 1 \/ i = 2 \/ i = 3 \/ i = 4
  OBVIOUS
<1>4. /\ holders \in SUBSET Nat /\ 1 \notin holders /\ \A i \in holders : i = 2 \/ i = 3 \/ i = 4
      /\ 2 \in holders <=> key \in DOMAIN net.own[n]
      /\ 3 \in holders <=> key \in DOMAIN assigned
      /\ 4 \in holders <=> key \in DOMAIN net.dflts
  BY <1>1, <1>3
<1> HIDE DEF holders
<1>5. CASE 2 \in holders
  <2>1. Min(holders) = 2
    BY <1>4, <1>5, MinIs
  <2> QED BY <1>1, <1>2, <1>4, <1>5, <2>1 DEF env
<1>6. CASE 2 \notin holders /\ 3 \in holders
  <2>1. Min(holders) = 3
    BY <1>4, <1>6, MinIs
  <2> QED BY <1>1, <1>2, <1>4, <1>6, <2>1 DEF env
<1>7. CASE 2 \notin holders /\ 3 \notin holders /\ 4 \in holders
  <2>1. Min(holders) = 4
    BY <1>4, <1>7, MinIs
  <2> QED BY <1>1, <1>2, <1>4, <1>7, <2>1 DEF env
<1>8. CASE 2 \notin holders /\ 3 \notin holders /\ 4 \notin holders
  <2>1. holders = {}
    BY <1>4, <1>8
  <2> QED BY <1>2, <1>4, <1>8, <2>1 DEF env
<1> QED BY <1>5, <1>6, <1>7, <1>8

LEMMA NodenumInWorld ==
  ASSUME NEW n, NEW assigned, NEW other
  PROVE  /\ World(n, assigned).env[1] = World(n, other).env[1]
         /\ DOMAIN World(n, assigned).env[1] = {"nodenum"}
         /\ Explicit(World(n, assigned).env, "nodenum") = Explicit(World(n, other).env, "nodenum")
<1> DEFINE num == CHOOSE i \in DOMAIN net.order : net.order[i] = n
           own == [nodenum |-> <<Number(num - 1)>>]
<1>1. ASSUME NEW a
      PROVE  /\ World(n, a).env[1] = own /\ DOMAIN own = {"nodenum"}
             /\ Explicit(World(n, a).env, "nodenum") = {own["nodenum"]}
  <2> DEFINE env == World(n, a).env
             holders == {i \in DOMAIN env : "nodenum" \in DOMAIN env[i]}
  <2>1. DOMAIN env = 1..4 /\ env[1] = own /\ DOMAIN own = {"nodenum"}
    BY DEF World
  <2>2. Explicit(env, "nodenum") = IF holders = {} THEN {} ELSE {env[Min(holders)]["nodenum"]}
    BY DEF Explicit
  <2> HIDE DEF env, own
  <2>3. holders \in SUBSET Nat /\ 1 \in holders /\ \A k \in holders : 1 <= k
    BY <2>1
  <2> HIDE DEF holders
  <2>4. Min(holders) = 1
    BY <2>3, MinIs
  <2> QED BY <2>1, <2>2, <2>3, <2>4 DEF env
<1> HIDE DEF own
<1> QED BY <1>1

\* The lines take the place of the defaults, everything else is found as before.
LEMMA LookupInWorld ==
  ASSUME NEW n, NEW assigned, DOMAIN assigned = {"authorities", "bridges"}, NEW key
  PROVE  LET old == World(n, Nothing).env
             new == World(n, assigned).env
         IN \/ Lookup(new, key) = Lookup(old, key)
            \/ key \in DOMAIN assigned /\ Lookup(new, key) = {assigned[key]}
<1> DEFINE old == World(n, Nothing).env
           new == World(n, assigned).env
<1>1. DOMAIN Nothing = {}
  BY DEF Nothing
<1>2. ASSUME NEW k, k \notin DOMAIN assigned PROVE Explicit(new, k) = Explicit(old, k)
  <2>1. CASE k = "nodenum"
    BY <2>1, NodenumInWorld
  <2>2. CASE k # "nodenum"
    <3> DEFINE rest == IF k \in DOMAIN net.dflts THEN {net.dflts[k]} ELSE {}
    <3>1. Explicit(new, k) = IF k \in DOMAIN net.own[n] THEN {net.own[n][k]} ELSE rest
      BY <1>2, <2>2, ExplicitInWorld
    <3>2. Explicit(old, k) = IF k \in DOMAIN net.own[n] THEN {net.own[n][k]} ELSE rest
      BY <1>1, <2>2, ExplicitInWorld
    <3> QED BY <3>1, <3>2
  <2> QED BY <2>1, <2>2
<1>3. new[1] = old[1] /\ DOMAIN new[1] = {"nodenum"}
  BY NodenumInWorld
<1>4. ASSUME key \in DOMAIN assigned
      PROVE  \/ Explicit(new, key) = Explicit(old, key)
             \/ Explicit(new, key) = {assigned[key]}
  <2>1. key # "nodenum"
    BY <1>4
  <2> QED BY <1>1, <1>4, <2>1, ExplicitInWorld
<1> HIDE DEF old, new
<1>5. Computed(new, key) = Computed(old, key)
  <2>1. /\ "orport_base" \notin DOMAIN assigned /\ "dirport_base" \notin DOMAIN assigned
        /\ "controlport_base" \notin DOMAIN assigned /\ "socksport_base" \notin DOMAIN assigned
        /\ "extorport_base" \notin DOMAIN assigned /\ "ptport_base" \notin DOMAIN assigned
        /\ "nodenum" \notin DOMAIN assigned /\ "tag" \notin DOMAIN assigned
        /\ "net_base_dir" \notin DOMAIN assigned
    OBVIOUS
  <2>2. CASE key \in DOMAIN Sums
    <3>1. Sums[key] \notin DOMAIN assigned
      BY <2>1, <2>2 DEF Sums
    <3>2. Explicit(new, Sums[key]) = Explicit(old, Sums[key]) /\ Explicit(new, "nodenum") = Explicit(old, "nodenum")
      BY <1>2, <2>1, <3>1
    <3> QED BY <2>2, <3>2 DEF Computed
  <2>3. CASE key \in DOMAIN Texts /\ key \notin DOMAIN Sums
    <3> DEFINE text == Texts[key]
    <3>1. \A i \in DOMAIN text : text[i].kind = "variable" => text[i].name \notin DOMAIN assigned
      <4>1. /\ DOMAIN Texts = {"nick", "dir"}
            /\ Texts["nick"] = <<Literal("test"), Variable("nodenum"), Variable("tag")>>
            /\ Texts["dir"] = <<Variable("net_base_dir"), Literal("/nodes/"), Variable("nodenum"), Variable("tag")>>
        BY DEF Texts
      <4>2. /\ Variable("nodenum").name = "nodenum" /\ Variable("tag").name = "tag"
            /\ Variable("net_base_dir").name = "net_base_dir"
            /\ \A s : Literal(s).kind # "variable"
        BY DEF Variable, Literal
      <4>3. /\ \A a, b, c : \A i \in DOMAIN <<a, b, c>> : <<a, b, c>>[i] \in {a, b, c}
            /\ \A a, b, c, d : \A i \in DOMAIN <<a, b, c, d>> : <<a, b, c, d>>[i] \in {a, b, c, d}
        OBVIOUS
      <4>4. \A i \in DOMAIN text : text[i] \in
              {Literal("test"), Literal("/nodes/"), Variable("nodenum"), Variable("tag"), Variable("net_base_dir")}
        BY <2>3, <4>1, <4>3
      <4> HIDE DEF text
      <4> QED BY <2>1, <4>2, <4>4
    <3>2. \A i \in DOMAIN text : Part(new, text[i]) = Part(old, text[i])
      <4> HIDE DEF text
      <4> QED BY <1>2, <3>1 DEF Part
    <3>3. [i \in DOMAIN text |-> Part(new, text[i])] = [i \in DOMAIN text |-> Part(old, text[i])]
      <4> HIDE DEF text
      <4> QED BY <3>2
    <3>4. /\ Computed(new, key) = Joined([i \in DOMAIN text |-> Part(new, text[i])])
          /\ Computed(old, key) = Joined([i \in DOMAIN text |-> Part(old, text[i])])
      BY <2>3 DEF Computed
    <3> HIDE DEF text
    <3> QED BY <3>3, <3>4
  <2>4. CASE key \notin DOMAIN Sums /\ key \notin DOMAIN Texts
    BY <2>4 DEF Computed
  <2> QED BY <2>2, <2>3, <2>4
<1>6. CASE key \notin DOMAIN assigned
  <2>1. Lookup(new, key) = Lookup(old, key)
    BY <1>2, <1>3, <1>5, <1>6 DEF Lookup
  <2> QED BY <2>1 DEF old, new
<1>7. CASE key \in DOMAIN assigned
  <2>1. key # "nodenum"
    BY <1>7
  <2>2. Lookup(new, key) = Lookup(old, key) \/ Lookup(new, key) = {assigned[key]}
    BY <1>3, <1>4, <1>5, <1>7, <2>1 DEF Lookup
  <2> QED BY <1>7, <2>2 DEF old, new
<1> QED BY <1>6, <1>7

LEMMA LinesAreSimpler ==
  ASSUME NEW n, NEW assigned, HoldsLines(assigned), NEW T,
         \A key \in DOMAIN assigned : assigned[key] \in Seq(T),
         \A x \in T : x.kind = "deferred" => x.name \notin DOMAIN assigned
  PROVE  Simpler(World(n, Nothing), World(n, assigned), T)
<1> DEFINE old == World(n, Nothing)
           new == World(n, assigned)
<1>1. DOMAIN assigned = {"authorities", "bridges"}
  BY DEF HoldsLines
<1>2. \A key : \/ Lookup(new.env, key) = Lookup(old.env, key)
               \/ key \in DOMAIN assigned /\ Lookup(new.env, key) = {assigned[key]}
  BY <1>1, LookupInWorld
<1>3. new.files = old.files /\ new.modes = old.modes
  BY DEF World
<1>4. \A key \in DOMAIN assigned : Plain(assigned[key])
  BY DEF HoldsLines, Plain, Replaced
<1> HIDE DEF old, new
<1>5. ASSUME NEW x \in T
      PROVE  Value(new, x) = Value(old, x) \/ \E p \in Seq(T) : Plain(p) /\ Value(new, x) = {p}
  <2>1. CASE x.kind = "variable"
    <3>1. Value(new, x) = Lookup(new.env, x.name) /\ Value(old, x) = Lookup(old.env, x.name)
      BY <2>1 DEF Value
    <3> QED BY <1>2, <1>4, <3>1
  <2>2. CASE x.kind = "file"
    BY <1>3, <2>2 DEF Value
  <2>3. CASE x.kind = "program"
    BY <1>3, <2>3 DEF Value
  <2>4. CASE x.kind = "deferred"
    <3>1. Lookup(new.env, x.name) = Lookup(old.env, x.name)
      BY <1>2, <2>4
    <3> QED BY <2>4, <3>1 DEF Value
  <2>5. CASE x.kind \notin Replaced
    BY <2>5, ValueOfPlain
  <2> QED BY <2>1, <2>2, <2>3, <2>4, <2>5 DEF Replaced
<1> QED BY <1>5 DEF Simpler, old, new

\* A template that means something without the lines is expanded with them.
LEMMA CheckSuffices ==
  ASSUME net \in Networks, NEW n \in Nodes, NEW assigned, HoldsLines(assigned),
         Meaning(World(n, Nothing), Pattern) # {}
  PROVE  Torrc(n, assigned) # {}
<1> DEFINE old == World(n, Nothing)
           new == World(n, assigned)
           T == TokensIn(old) \union TokensIn(new) \union Range(Pattern)
<1>1. /\ HoldsTemplates(Nothing)
      /\ HoldsTemplates(assigned)
  BY DEF HoldsTemplates, Nothing, HoldsLines
<1>2. /\ IsWorld(old) /\ \A text \in TextsIn(old) : \A i \in DOMAIN text : text[i].kind # "deferred"
      /\ IsWorld(new) /\ \A text \in TextsIn(new) : \A i \in DOMAIN text : text[i].kind # "deferred"
  BY <1>1, WorldHolds
<1>3. Range(Pattern) = {Deferred("torrc")} /\ IsText(Pattern)
  <2>1. \A x : Range(<<x>>) = {x} /\ <<x>> \in Seq({x})
    BY DEF Range
  <2> QED BY <2>1, IsTextOf DEF Pattern
<1>4. ASSUME NEW x \in T, x.kind = "deferred" PROVE x.name \notin DOMAIN assigned
  <2>1. \A y \in TokensIn(old) \union TokensIn(new) : y.kind # "deferred"
    <3> HIDE DEF old, new
    <3> QED BY <1>2, NothingDeferred
  <2>2. x = Deferred("torrc")
    BY <1>3, <1>4, <2>1
  <2>3. x.name = "torrc"
    BY <2>2 DEF Deferred
  <2> QED BY <2>3 DEF HoldsLines
<1>5. ASSUME NEW key \in DOMAIN assigned PROVE assigned[key] \in Seq(T)
  <2>1. assigned[key] \in TextsIn(new)
    <3>1. 3 \in DOMAIN new.env /\ new.env[3] = assigned
      BY DEF World
    <3> HIDE DEF new
    <3> QED BY <3>1 DEF TextsIn
  <2> HIDE DEF old, new
  <2>2. Range(assigned[key]) \subseteq T
    BY <2>1 DEF TokensIn, FoundIn, TokensOf
  <2>3. IsText(assigned[key])
    BY DEF HoldsLines
  <2> HIDE DEF T
  <2> QED BY <2>2, <2>3, TextIsIn
<1>6. Closed(old, T) /\ Closed(new, T) /\ Pattern \in Seq(T)
  <2> HIDE DEF old, new
  <2> QED BY <1>2, <1>3, WorldIsClosed, TextIsIn
<1>7. Simpler(old, new, T)
  <2> HIDE DEF T
  <2> QED BY <1>4, <1>5, LinesAreSimpler
<1> HIDE DEF T, old, new
<1>8. Meaning(new, Pattern) # {}
  BY <1>6, <1>7, MeaningSurvives DEF old
<1>9. Format(new, Pattern) # {}
  BY <1>2, <1>3, <1>8, FormatIsMeaning, MeaningIsFormatted
<1> QED BY <1>9 DEF Torrc, new

\* Each time configure expands a template it gets what the template means, for every
\* network, with the lines of every phase; and once the check has found that a template
\* means something, the lines do not take that away.
THEOREM ExpansionAlwaysExact == ConfigureSpec => []ExpansionIsExact
  <1>1. IInv /\ CInv => ExpansionIsExact
    <2> SUFFICES ASSUME IInv, CInv PROVE ExpansionIsExact
      OBVIOUS
    <2>1. net \in Networks
      BY DEF IInv, ConstInv
    <2>2. IsText(Pattern)
      <3>1. \A x : <<x>> \in Seq({x})
        OBVIOUS
      <3> QED BY <3>1, IsTextOf DEF Pattern
    <2>3. ASSUME NEW n \in Nodes PROVE MeansWhatItSays(World(n, Nothing), Pattern)
      <3>1. HoldsTemplates(Nothing)
        BY DEF HoldsTemplates, Nothing
      <3>2. IsWorld(World(n, Nothing))
        BY <2>1, <3>1, WorldHolds
      <3> QED BY <2>2, <3>2, FormatIsMeaning
    <2>4. ASSUME step = "write"
          PROVE  /\ MeansWhatItSays(World(Node, Assigned(auths, bridges)), Pattern)
                 /\ Meaning(World(Node, Nothing), Pattern) # {} => Torrc(Node, Assigned(auths, bridges)) # {}
      <3> DEFINE assigned == Assigned(auths, bridges)
      <3>1. Node \in Nodes
        BY <2>1, OrderIsComplete DEF Node, CInv, TypeInv
      <3>2. \A n \in Nodes : auths[n] = AltAuthLines(n, cert, id) /\ bridges[n] = BridgeLines(n, id)
        BY <2>4 DEF CInv, LinesInv, CurrentAuths, CurrentBridges
      <3>3. HoldsLines(assigned)
        BY <2>1, <3>2, LinesAreHeld
      <3> HIDE DEF assigned
      <3>4. HoldsTemplates(assigned)
        BY <3>3 DEF HoldsLines, HoldsTemplates
      <3>5. IsWorld(World(Node, assigned))
        BY <2>1, <3>1, <3>4, WorldHolds
      <3>6. MeansWhatItSays(World(Node, assigned), Pattern)
        BY <2>2, <3>5, FormatIsMeaning
      <3>7. Meaning(World(Node, Nothing), Pattern) # {} => Torrc(Node, assigned) # {}
        BY <2>1, <3>1, <3>3, CheckSuffices
      <3> QED BY <3>6, <3>7 DEF assigned
    <2> QED
      BY <2>3, <2>4 DEF ExpansionIsExact
  <1> QED
    BY ScriptInvariance, ConfigureInvariance, <1>1, PTL

-----------------------------------------------------------------------------
(* configure runs out of steps.                                            *)

\* What configure has left to do, after what the scripts have: phases, stages of a
\* phase, nodes.
StepsLeft == CASE step = "check" -> 4
               [] step = "prepare" -> 3
               [] step = "write" -> 2
               [] step = "arti" -> 1
               [] OTHER -> 0

Inside == <<LastConfig - config_idx, StepsLeft, Len(net.order) - nodenum>>

LeftInside == [i \in 1..8 |-> IF i <= 5 THEN Left[i] ELSE Inside[i - 5]]

\* Each step of the scripts and of configure leaves less to do, and nothing else
\* changes what is left.
ConfigureRunsOut ==
  [][ /\ Detail \/ Command => Less(LeftInside', LeftInside)
      /\ ~(Detail \/ Command) => LeftInside' = LeftInside ]_allvars

\* Measures of the same length cannot become less for ever: every set of them has one
\* that none is less than.
LEMMA MeasuresEnd ==
  ASSUME NEW N \in Nat, NEW T \in SUBSET [1..N -> Nat], T # {}
  PROVE  \E m \in T : \A t \in T : ~Less(t, m)
<1> DEFINE LessBy(t, m, n) == \E i \in 1..n : t[i] < m[i] /\ \A j \in 1..(i - 1) : t[j] = m[j]
           Best(m, n) == \A t \in T : ~LessBy(t, m, n)
           S == {n \in Nat : n <= N => \E m \in T : Best(m, n)}
<1>1. 0 \in S
  OBVIOUS
<1>2. ASSUME NEW n \in Nat, n \in S PROVE n + 1 \in S
  <2> SUFFICES ASSUME n + 1 <= N PROVE \E m \in T : Best(m, n + 1)
    OBVIOUS
  <2>1. PICK m \in T : Best(m, n)
    <3>1. n <= N
      OBVIOUS
    <3> QED BY <1>2, <3>1
  <2> DEFINE Same == {t \in T : \A j \in 1..n : t[j] = m[j]}
             Numbers == {t[n + 1] : t \in Same}
  <2>2. n + 1 \in 1..N
    OBVIOUS
  <2>3. Numbers \in SUBSET Nat /\ Numbers # {}
    <3>1. m \in Same
      BY <2>1
    <3>2. \A t \in Same : t[n + 1] \in Nat
      BY <2>2
    <3> QED BY <3>1, <3>2
  <2>4. PICK b \in Same : \A t \in Same : b[n + 1] <= t[n + 1]
    <3> HIDE DEF Same
    <3>1. PICK v \in Numbers : \A k \in Numbers : v <= k
      <4> HIDE DEF Numbers
      <4> QED BY <2>3, NatMin
    <3> QED BY <3>1
  <2>5. Best(b, n + 1)
    <3> SUFFICES ASSUME NEW t \in T, NEW i \in 1..(n + 1), t[i] < b[i],
                        \A j \in 1..(i - 1) : t[j] = b[j]
                 PROVE  FALSE
      OBVIOUS
    <3>1. CASE i \in 1..n
      <4>1. \A j \in 1..i : b[j] = m[j]
        BY <2>4, <3>1
      <4>2. t[i] < m[i] /\ \A j \in 1..(i - 1) : t[j] = m[j]
        BY <3>1, <4>1
      <4> QED BY <2>1, <3>1, <4>2
    <3>2. CASE i = n + 1
      <4>1. t \in Same
        BY <2>4, <3>2
      <4>2. b[n + 1] <= t[n + 1] /\ b[n + 1] \in Nat /\ t[n + 1] \in Nat
        BY <2>2, <2>4, <4>1
      <4> QED BY <3>2, <4>2
    <3> QED BY <3>1, <3>2
  <2> QED BY <2>4, <2>5
<1> HIDE DEF S
<1>3. N \in S
  BY <1>1, <1>2, Induction
<1>4. PICK m \in T : Best(m, N)
  BY <1>3 DEF S
<1>5. DOMAIN m = 1..N
  OBVIOUS
<1> QED BY <1>4, <1>5 DEF Less

LEMMA OuterLess ==
  ASSUME Less(Left', Left)
  PROVE  Less(LeftInside', LeftInside)
<1>1. DOMAIN Left = 1..5
  BY DEF Left
<1>2. PICK i \in 1..5 : Left'[i] < Left[i] /\ \A j \in 1..(i - 1) : Left'[j] = Left[j]
  BY <1>1 DEF Less
<1>3. \A j \in 1..5 : LeftInside[j] = Left[j] /\ LeftInside'[j] = Left'[j]
  BY DEF LeftInside
<1>4. LeftInside'[i] < LeftInside[i] /\ \A j \in 1..(i - 1) : LeftInside'[j] = LeftInside[j]
  BY <1>2, <1>3
<1>5. i \in DOMAIN LeftInside
  BY DEF LeftInside
<1> QED BY <1>4, <1>5 DEF Less

LEMMA InnerLess ==
  ASSUME Left' = Left,
         \/ Inside'[1] < Inside[1]
         \/ Inside'[1] = Inside[1] /\ Inside'[2] < Inside[2]
         \/ Inside'[1] = Inside[1] /\ Inside'[2] = Inside[2] /\ Inside'[3] < Inside[3]
  PROVE  Less(LeftInside', LeftInside)
<1>1. /\ LeftInside[6] = Inside[1] /\ LeftInside'[6] = Inside'[1]
      /\ LeftInside[7] = Inside[2] /\ LeftInside'[7] = Inside'[2]
      /\ LeftInside[8] = Inside[3] /\ LeftInside'[8] = Inside'[3]
      /\ DOMAIN LeftInside = 1..8
  BY DEF LeftInside
<1>2. \A j \in 1..5 : LeftInside'[j] = LeftInside[j]
  BY DEF LeftInside
<1>3. CASE Inside'[1] < Inside[1]
  BY <1>1, <1>2, <1>3 DEF Less
<1>4. CASE Inside'[1] = Inside[1] /\ Inside'[2] < Inside[2]
  <2>1. \A j \in 1..6 : LeftInside'[j] = LeftInside[j]
    BY <1>1, <1>2, <1>4
  <2> QED BY <1>1, <1>4, <2>1 DEF Less
<1>5. CASE Inside'[1] = Inside[1] /\ Inside'[2] = Inside[2] /\ Inside'[3] < Inside[3]
  <2>1. \A j \in 1..7 : LeftInside'[j] = LeftInside[j]
    BY <1>1, <1>2, <1>5
  <2> QED BY <1>1, <1>5, <2>1 DEF Less
<1> QED BY <1>3, <1>4, <1>5

LEMMA LeftInsideIsMeasure == IInv /\ TypeIsCorrect /\ CInv => LeftInside \in [1..8 -> Nat]
<1> SUFFICES ASSUME IInv, TypeIsCorrect, CInv PROVE LeftInside \in [1..8 -> Nat]
  OBVIOUS
<1>1. \A i \in 1..5 : Left[i] \in Nat
  BY LeftIsMeasure
<1>2. LastConfig - config_idx \in Nat
  BY LastConfigIsLast DEF IInv, ConstInv, CInv, TypeInv
<1>3. Len(net.order) - nodenum \in Nat
  BY OrderIsComplete DEF IInv, ConstInv, CInv, TypeInv
<1>4. StepsLeft \in Nat
  BY DEF StepsLeft
<1>5. \A i \in 1..3 : Inside[i] \in Nat
  BY <1>2, <1>3, <1>4 DEF Inside
<1>6. \A i \in 1..8 : (IF i <= 5 THEN Left[i] ELSE Inside[i - 5]) \in Nat
  BY <1>1, <1>5
<1> QED BY <1>6 DEF LeftInside

\* A step of configure that the scripts do not see: from node to node, from stage to
\* stage, or to the next phase.
LEMMA InsideStep ==
  ASSUME IInv, CInv, UNCHANGED vars, Detail, ~Script
  PROVE  Less(LeftInside', LeftInside)
<1>1. Left' = Left
  BY OthersStep
<1>2. net' = net /\ LastConfig' = LastConfig
  BY DEF vars, LastConfig, Nodes
<1>3. config_idx \in Nat /\ LastConfig \in Nat /\ nodenum \in Nat /\ Len(net.order) \in Nat
  BY LastConfigIsLast, OrderIsComplete DEF IInv, ConstInv, CInv, TypeInv
<1>4. /\ Inside[1] = LastConfig - config_idx /\ Inside'[1] = LastConfig - config_idx'
      /\ Inside[2] = StepsLeft /\ Inside'[2] = StepsLeft'
      /\ Inside[3] = Len(net.order) - nodenum /\ Inside'[3] = Len(net.order) - nodenum'
  BY <1>2 DEF Inside
<1>5. ASSUME config_idx' = config_idx, StepsLeft' < StepsLeft
      PROVE  Less(LeftInside', LeftInside)
  BY <1>1, <1>4, <1>5, InnerLess
<1>6. ASSUME config_idx' = config_idx, step' = step, nodenum' = nodenum + 1
      PROVE  Less(LeftInside', LeftInside)
  <2>1. Inside'[3] < Inside[3] /\ Inside'[1] = Inside[1]
    BY <1>3, <1>4, <1>6
  <2>2. Inside'[2] = Inside[2]
    BY <1>4, <1>6 DEF StepsLeft
  <2> QED BY <1>1, <2>1, <2>2, InnerLess
<1>7. ~Raise
  BY DEF Raise, Script, Configure
<1>8. CASE CheckConfig
  <2>1. step = "check" /\ step' = "prepare" /\ config_idx' = config_idx
    BY <1>7, <1>8 DEF CheckConfig
  <2>2. StepsLeft = 4 /\ StepsLeft' = 3
    BY <2>1 DEF StepsLeft
  <2> QED BY <1>5, <2>1, <2>2
<1>9. CASE PreConfig
  <2>1. step = "prepare" /\ config_idx' = config_idx /\ NextNode("write")
    BY <1>7, <1>9 DEF PreConfig
  <2>2. CASE step' = "write"
    <3>1. StepsLeft = 3 /\ StepsLeft' = 2
      BY <2>1, <2>2 DEF StepsLeft
    <3> QED BY <1>5, <2>1, <3>1
  <2>3. CASE step' # "write"
    BY <1>6, <2>1, <2>3 DEF NextNode
  <2> QED BY <2>2, <2>3
<1>10. CASE Config \/ SkipConfig
  <2>1. step = "write" /\ config_idx' = config_idx /\ NextNode("arti")
    BY <1>7, <1>10 DEF Config, SkipConfig
  <2>2. CASE step' = "arti"
    <3>1. StepsLeft = 2 /\ StepsLeft' = 1
      BY <2>1, <2>2 DEF StepsLeft
    <3> QED BY <1>5, <2>1, <3>1
  <2>3. CASE step' # "arti"
    BY <1>6, <2>1, <2>3 DEF NextNode
  <2> QED BY <2>2, <2>3
<1>11. CASE WriteArti
  <2>1. config_idx' = config_idx + 1
    BY <1>7, <1>11 DEF WriteArti, Begin, Script, Configure
  <2>2. Inside'[1] < Inside[1]
    BY <1>3, <1>4, <2>1
  <2> QED BY <1>1, <2>2, InnerLess
<1>12. ~CreateNodesDir
  BY <1>7 DEF CreateNodesDir, Script, Configure
<1> QED BY <1>8, <1>9, <1>10, <1>11, <1>12 DEF Detail

\* test-network.sh does not go on for ever either when configure runs node by node in
\* each of its phases, for every network and all options: the safety half of Ends for
\* the detailed specification.
THEOREM TestRunsOutInside == ConfigureSpec => ConfigureRunsOut
<1>1. ASSUME IInv, TypeIsCorrect, CInv, [ConfigureNext]_allvars
      PROVE  /\ Detail \/ Command => Less(LeftInside', LeftInside)
             /\ ~(Detail \/ Command) => LeftInside' = LeftInside
  <2>1. CASE Script
    <3>1. Less(LeftInside', LeftInside)
      BY <1>1, <2>1, ScriptStep, OuterLess
    <3>2. Detail \/ Command
      <4>1. CASE Detail \/ Command
        BY <4>1
      <4>2. CASE UNCHANGED allvars
        <5>1. Left' = Left /\ Less(Left', Left)
          BY <1>1, <2>1, <4>2, ScriptStep, OthersStep DEF allvars
        <5>2. \A i \in 1..5 : Left[i] \in Nat
          BY <1>1, LeftIsMeasure
        <5>3. DOMAIN Left = 1..5
          BY DEF Left
        <5> QED BY <5>1, <5>2, <5>3 DEF Less
      <4>3. CASE Collect \/ Crash \/ FinishBootstrap
        <5>1. Left' = Left /\ Less(Left', Left)
          BY <1>1, <2>1, <4>3, ScriptStep, OthersStep
        <5>2. \A i \in 1..5 : Left[i] \in Nat
          BY <1>1, LeftIsMeasure
        <5>3. DOMAIN Left = 1..5
          BY DEF Left
        <5> QED BY <5>1, <5>2, <5>3 DEF Less
      <4> QED BY <1>1, <4>1, <4>2, <4>3 DEF ConfigureNext
    <3> QED BY <3>1, <3>2
  <2>2. CASE ~Script /\ Detail
    <3>1. UNCHANGED vars
      <4>1. ~Raise /\ ~NewNodesDir /\ ~Configured
        BY <2>2 DEF Raise, Script, Configure
      <4> QED BY <2>2, <4>1 DEF Detail, CreateNodesDir, CheckConfig, PreConfig, Config, SkipConfig, WriteArti
    <3> QED BY <1>1, <2>2, <3>1, InsideStep
  <2>3. CASE ~Script /\ ~Detail
    <3>1. ~Command
      BY <2>3 DEF Script
    <3>2. (Collect \/ Crash \/ FinishBootstrap \/ UNCHANGED vars) /\ UNCHANGED configuration
      BY <1>1, <2>3, <3>1 DEF ConfigureNext, allvars
    <3>3. Left' = Left
      BY <3>2, OthersStep
    <3>4. net' = net
      BY <1>1, ConstStep, StepRefines
    <3>5. Inside' = Inside
      BY <3>2, <3>4 DEF Inside, StepsLeft, LastConfig, Nodes, configuration, progress
    <3>6. LeftInside' = LeftInside
      BY <3>3, <3>5 DEF LeftInside
    <3> QED BY <2>3, <3>1, <3>6
  <2> QED BY <2>1, <2>2, <2>3
<1>2. (IInv /\ TypeIsCorrect) /\ (IInv /\ CInv) /\ [ConfigureNext]_allvars =>
        [ /\ Detail \/ Command => Less(LeftInside', LeftInside)
          /\ ~(Detail \/ Command) => LeftInside' = LeftInside ]_allvars
  BY <1>1
<1> QED BY <1>2, ScriptInvariance, ConfigureInvariance, PTL DEF ConfigureSpec, ConfigureRunsOut
=============================================================================
