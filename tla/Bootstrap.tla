----------------------------- MODULE Bootstrap -----------------------------
(***************************************************************************)
(* wait_for_bootstrap on a network of relays, bridges and clients: whether *)
(* a node is published is found out by looking into the directory files of *)
(* one other node after the next (getNodeDirInfoStatus), while the tors    *)
(* go on downloading. WaitForBootstrap takes that answer in one step; the  *)
(* refinement W shows that it may.                                         *)
(*                                                                         *)
(* One look at the files of one other node is an atomic step here, which   *)
(* finds every entry that is there. What it consists of, and how it can    *)
(* miss an entry for once while the other tor folds a journal, is the      *)
(* subject of DirInfoPoll. That the search raises an exception when the    *)
(* key file of a node has a wrong size (_loadEd25519Id) is left out.       *)
(***************************************************************************)
EXTENDS Integers

CONSTANTS
  NumNodes,      \* the controllers launched so far
  Kind,          \* what each of them is
  LaunchPhase,   \* in which phase it was launched
  StartTime, PrintDelay, CheckDelay, WaitTime, MinTime,
  Clock, Starts, Steady, MaxPass, MayRestart, LogsExist

Nodes == 1..NumNodes

Kinds == {"authority", "relay", "bridge", "bridgeauth", "client", "bridgeclient", "onion"}

ASSUME KindsAssumption ==
  /\ NumNodes \in Nat \ {0}
  /\ Kind \in [Nodes -> Kinds]
  /\ LaunchPhase \in [Nodes -> Nat \ {0}]

OnionServices == {n \in Nodes : Kind[n] = "onion"}
ConsensusMembers == {n \in Nodes : Kind[n] \in {"authority", "relay", "bridgeauth"}}
Bridges == {n \in Nodes : Kind[n] = "bridge"}
Publishers == ConsensusMembers \union Bridges

\* _THE_NETWORK._dfltEnv['launch_phase']: the default for nodes that do not set one.
DfltLaunchPhase == 1

\* The nodes whose files are searched for the entry of node c.
DirFilesOf(c) ==
  {o \in Nodes :
     /\ LaunchPhase[o] <= DfltLaunchPhase
     /\ c \in Bridges => Kind[o] \in {"bridgeclient", "bridgeauth"}}

VARIABLES
  cached,        \* cached[c]: the nodes whose directory files have the entry of c
  other,         \* the node whose files are searched next
  allFound,      \* no search of this round has failed yet
  notice, info, pc, node, recentNotice, recentInfo, allBootstrapped,
  wall, start, nextPrint, checks, passes, prints, result

search == <<cached, other, allFound>>
logs == <<notice, info>>
recent == <<recentNotice, recentInfo>>
times == <<wall, start, nextPrint, checks, passes, prints>>
vars == <<search, logs, recent, times, pc, node, allBootstrapped, result>>

\* Without any file to search, the status is an internal error.
Published(c) == DirFilesOf(c) # {} /\ DirFilesOf(c) \subseteq cached[c]

published == [c \in Nodes |-> c \in Publishers /\ Published(c)]

\* The loop of WaitForBootstrap, on the variables of this module.
Loop == INSTANCE WaitForBootstrap

\* The times and the other constants are those of the wait loop.
ASSUME LoopAssumption == Loop!NodesAssumption /\ Loop!TimesAssumption

-----------------------------------------------------------------------------
(* The tors.                                                               *)

Download(c, o) ==
  /\ c \in Publishers
  /\ notice[c] # "none"
  /\ o \notin cached[c]
  /\ cached' = [cached EXCEPT ![c] = @ \union {o}]
  /\ UNCHANGED <<other, allFound, logs, recent, times, pc, node, allBootstrapped, result>>

Tor ==
  \/ \E c, o \in Nodes : Download(c, o)
  \/ /\ UNCHANGED search
     /\ \E c \in Nodes :
          Loop!OpenLogs(c) \/ Loop!LogDone(c) \/ Loop!LogOnionDesc(c) \/ Loop!LogRestart(c)
     /\ UNCHANGED <<recent, times, pc, node, allBootstrapped, result>>

-----------------------------------------------------------------------------
(* The search, node by node.                                               *)

\* Mutant: the files of any node will do.
FoundAnywhere(o) == o \in DirFilesOf(node) => cached[node] # {}

Found(o) == o \in DirFilesOf(node) => o \in cached[node]

\* A client is not searched for; a publisher is, at all nodes but the last.
SearchNext ==
  /\ pc = "dirinfo"
  /\ node \in Publishers
  /\ other < NumNodes
  /\ allFound' = (allFound /\ Found(other))
  /\ other' = other + 1
  /\ UNCHANGED <<cached, logs, recent, times, pc, node, allBootstrapped, result>>

SearchLast ==
  /\ pc = "dirinfo"
  /\ \/ node \notin Publishers /\ UNCHANGED allBootstrapped
     \/ /\ node \in Publishers
        /\ other = NumNodes
        /\ allBootstrapped' = (allBootstrapped /\ allFound /\ Found(other) /\ DirFilesOf(node) # {})
  /\ IF node < NumNodes
       THEN node' = node + 1 /\ pc' = "logs"
       ELSE node' = node /\ pc' = "clock"
  /\ other' = 1
  /\ allFound' = TRUE
  /\ UNCHANGED <<cached, logs, recent, times, result>>

Init ==
  /\ cached = [c \in Nodes |-> {}]
  /\ other = 1
  /\ allFound = TRUE
  /\ Loop!Init

Wait ==
  \/ SearchNext \/ SearchLast
  \/ /\ UNCHANGED search
     /\ \/ Loop!PollLogs \/ Loop!ReadClock \/ Loop!AllBootstrapped \/ Loop!WaitMinTime
        \/ Loop!LimitReached \/ Loop!PrintTooSoon \/ Loop!PrintStatus \/ Loop!NoPrintDue
        \/ Loop!SleepAndCount

Next == Tor \/ Wait

Spec == Init /\ [][Next]_vars

FairSpec == Spec /\ WF_vars(Wait)

-----------------------------------------------------------------------------
(* Properties                                                              *)

\* The search has already failed, and what is left of it makes no difference.
Lost == pc = "dirinfo" /\ ~allFound

\* WaitForBootstrap takes its step at the first search that fails, or else at the
\* last one.
W == INSTANCE WaitForBootstrap WITH
       pc <- IF ~Lost THEN pc ELSE IF node < NumNodes THEN "logs" ELSE "clock",
       node <- IF Lost /\ node < NumNodes THEN node + 1 ELSE node,
       allBootstrapped <- allBootstrapped /\ ~Lost

\* Looking into the files of one node after the next, while they change, gives
\* the same answers as looking into all of them at once, and as surely an answer.
ImplementsWait == W!FairSpec

\* True is returned only when every publisher is in the files of all nodes that
\* are searched, whenever they were searched.
SuccessMeansPublished ==
  result = "bootstrapped" => \A c \in Publishers : Published(c)

-----------------------------------------------------------------------------
(* What the documentation says, which the code does not do.                *)

\* README: "all bridge descriptors have been distributed to all bridge clients".
BridgesReachBridgeClients ==
  result = "bootstrapped" =>
    \A b \in Bridges, o \in Nodes : Kind[o] = "bridgeclient" => o \in cached[b]
=============================================================================
