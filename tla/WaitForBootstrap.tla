-------------------------- MODULE WaitForBootstrap --------------------------
(***************************************************************************)
(* Network.wait_for_bootstrap (lib/chutney/TorNet.py): the loop that polls *)
(* the log and the published directory info of every launched node until   *)
(* all of them are ready, the start time is over, or the loop decides that *)
(* its own timing makes no sense.                                          *)
(*                                                                         *)
(* The nodes change between any two reads of the loop; the wall clock is   *)
(* read with time.time(), so unless Steady holds every reading is an       *)
(* arbitrary member of Clock (it may hang, jump, or run backwards).        *)
(***************************************************************************)
EXTENDS Integers

CONSTANTS
  NumNodes,     \* controllers launched so far; they are polled in list order
  OnionServices, Publishers,  \* which of them are onion services / have a descriptor
  StartTime,    \* CHUTNEY_START_TIME
  PrintDelay,   \* PRINT_NETWORK_STATUS_DELAY
  CheckDelay,   \* CHECK_NETWORK_STATUS_DELAY
  WaitTime,     \* longest getUncheckedDirInfoWaitTime of the controllers
  MinTime,      \* longest getMinStartTime of the controllers
  Clock,        \* the readings time.time() may return
  Starts,       \* the readings at which the wait may begin
  Steady,       \* TRUE: the clock counts the time that passes, and nothing else
  MaxPass,      \* how long one pass over the nodes takes at most, when Steady
  MayRestart,   \* TRUE: a tor may restart and log a lower percentage again
  LogsExist     \* TRUE: tor has opened its log files before the wait begins

Nodes == 1..NumNodes

ChecksPerPrint == PrintDelay \div CheckDelay

ASSUME NodesAssumption ==
  /\ NumNodes \in Nat \ {0}
  /\ OnionServices \subseteq Nodes
  /\ Publishers \subseteq Nodes
  /\ Steady \in BOOLEAN
  /\ MayRestart \in BOOLEAN
  /\ LogsExist \in BOOLEAN

ASSUME TimesAssumption ==
  /\ StartTime \in Nat
  /\ PrintDelay \in Nat \ {0}
  /\ CheckDelay \in Nat \ {0}
  /\ ChecksPerPrint \in Nat \ {0}
  /\ ChecksPerPrint * CheckDelay = PrintDelay
  /\ WaitTime \in Nat
  /\ MinTime \in Nat
  /\ MaxPass \in Nat
  /\ Clock \subseteq Int
  /\ Starts \subseteq Clock

VARIABLES
  notice,     \* what notice.log says: "none" (no file), "booting", "done" (100%)
  info,       \* what info.log says: "none", "nodesc", "published" (onion descriptor)
  published,  \* is the node's descriptor in every expected directory document?
  pc,         \* where the loop is
  node,       \* the controller the pass is at
  recentNotice,  \* most_recent_bootstrap_status ("none" before the first read)
  recentInfo,    \* most_recent_oniondesc_status
  allBootstrapped,
  wall,       \* the last reading of time.time()
  start,
  nextPrint,  \* next_print_status
  checks,     \* checks_since_last_print
  passes,     \* history: completed passes, counted up to MaxPasses + 1
  prints,     \* history: status reports printed while waiting
  result

env == <<notice, info, published>>
recent == <<recentNotice, recentInfo>>
times == <<wall, start, nextPrint, checks, passes, prints>>
vars == <<env, recent, times, pc, node, allBootstrapped, result>>

limit == start + StartTime

\* The most checks that can follow a report without the loop giving up.
MostChecks == 2 * ChecksPerPrint - 1

\* The most passes the loop ever makes, whatever the clock does (see PassesBounded).
MaxPasses == (StartTime \div PrintDelay + 1) * MostChecks + 1

Results == {"none", "bootstrapped", "failed", "timing_error", "exception"}

-----------------------------------------------------------------------------
(* The tors: they open their logs, bootstrap, publish, and may restart.    *)

\* A node with everything wait_for_bootstrap looks for.
Ready(c) ==
  /\ notice[c] = "done"
  /\ c \in OnionServices => info[c] = "published"
  /\ c \in Publishers => published[c]

OpenLogs(c) ==
  /\ notice[c] = "none"
  /\ notice' = [notice EXCEPT ![c] = "booting"]
  /\ info' = [info EXCEPT ![c] = "nodesc"]
  /\ UNCHANGED published

LogDone(c) ==
  /\ notice[c] = "booting"
  /\ notice' = [notice EXCEPT ![c] = "done"]
  /\ UNCHANGED <<info, published>>

LogOnionDesc(c) ==
  /\ c \in OnionServices
  /\ info[c] = "nodesc"
  /\ info' = [info EXCEPT ![c] = "published"]
  /\ UNCHANGED <<notice, published>>

PublishDesc(c) ==
  /\ c \in Publishers
  /\ notice[c] # "none"
  /\ ~published[c]
  /\ published' = [published EXCEPT ![c] = TRUE]
  /\ UNCHANGED <<notice, info>>

\* notice.log is appended to, so the last "Bootstrapped" line counts.
LogRestart(c) ==
  /\ MayRestart
  /\ notice[c] = "done"
  /\ notice' = [notice EXCEPT ![c] = "booting"]
  /\ UNCHANGED <<info, published>>

Tor ==
  /\ \E c \in Nodes :
       OpenLogs(c) \/ LogDone(c) \/ LogOnionDesc(c) \/ PublishDesc(c) \/ LogRestart(c)
  /\ UNCHANGED <<recent, times, pc, node, allBootstrapped, result>>

-----------------------------------------------------------------------------
(* The loop.                                                               *)

\* The readings of time.time() after at least d and at most d + slack seconds.
After(d, slack) ==
  {t \in Clock : Steady => wall + d <= t /\ t <= wall + d + slack}

Return(r) ==
  /\ pc' = "returned"
  /\ result' = r

\* A missing log file leaves the cached status as it is.
UpdateLast(cached, log) == IF log = "none" THEN cached ELSE log

\* c.updateLastStatus(); c.isBootstrapped(). Unpacking a status that was never
\* cached raises a TypeError, which nothing catches.
PollLogs ==
  LET n == UpdateLast(recentNotice[node], notice[node])
      i == UpdateLast(recentInfo[node], info[node])
      readsInfo == n = "done" /\ node \in OnionServices
  IN
  /\ pc = "logs"
  /\ recentNotice' = [recentNotice EXCEPT ![node] = n]
  /\ recentInfo' = [recentInfo EXCEPT ![node] = i]
  /\ \/ /\ n = "none" \/ (readsInfo /\ i = "none")
        /\ Return("exception")
        /\ UNCHANGED allBootstrapped
     \/ /\ n # "none" /\ ~(readsInfo /\ i = "none")
        /\ allBootstrapped' = (/\ allBootstrapped
                               /\ n = "done"
                               /\ readsInfo => i = "published")
        /\ pc' = "dirinfo"
        /\ UNCHANGED result
  /\ UNCHANGED <<env, times, node>>

\* Mutant: the status of a node overwrites what the pass found before.
PollDirInfoForgets ==
  /\ pc = "dirinfo"
  /\ allBootstrapped' = (node \in Publishers => published[node])
  /\ IF node < NumNodes
       THEN node' = node + 1 /\ pc' = "logs"
       ELSE node' = node /\ pc' = "clock"
  /\ UNCHANGED <<env, recent, times, result>>

\* Mutant: the pass runs past the last node.
PollDirInfoTooFar ==
  /\ pc = "dirinfo"
  /\ allBootstrapped' = (allBootstrapped /\ (node \in Publishers => published[node]))
  /\ node' = node + 1
  /\ pc' = IF node <= NumNodes THEN "logs" ELSE "clock"
  /\ UNCHANGED <<env, recent, times, result>>

\* c.getNodeDirInfoStatus(): only nodes with a descriptor have one. (That it raises a
\* ValueError for a key file of the wrong size is left out: tor writes that file whole.)
PollDirInfo ==
  /\ pc = "dirinfo"
  /\ allBootstrapped' = (allBootstrapped /\ (node \in Publishers => published[node]))
  /\ IF node < NumNodes
       THEN node' = node + 1 /\ pc' = "logs"
       ELSE node' = node /\ pc' = "clock"
  /\ UNCHANGED <<env, recent, times, result>>

\* now = time.time(), after the pass.
ReadClock ==
  /\ pc = "clock"
  /\ wall' \in After(0, MaxPass)
  /\ passes' = IF passes <= MaxPasses THEN passes + 1 ELSE passes
  /\ pc' = "decide"
  /\ UNCHANGED <<env, recent, node, allBootstrapped, start, nextPrint, checks,
                 prints, result>>

\* Mutant: no look at the minimum run time.
AllBootstrappedAtOnce ==
  /\ pc = "decide"
  /\ allBootstrapped
  /\ wall' \in After(WaitTime, 0)
  /\ Return("bootstrapped")
  /\ UNCHANGED <<env, recent, node, allBootstrapped, start, nextPrint, checks,
                 passes, prints>>

\* Everything bootstrapped: time.sleep(wait_time), then look at the clock.
AllBootstrapped ==
  /\ pc = "decide"
  /\ allBootstrapped
  /\ wall' \in After(WaitTime, 0)
  /\ pc' = "mintime"
  /\ UNCHANGED <<env, recent, node, allBootstrapped, start, nextPrint, checks,
                 passes, prints, result>>

\* Sleep for what is missing of the minimum run time, and return True.
WaitMinTime ==
  /\ pc = "mintime"
  /\ IF wall - start < MinTime
       THEN wall' \in After(MinTime - (wall - start), 0)
       ELSE wall' = wall
  /\ Return("bootstrapped")
  /\ UNCHANGED <<env, recent, node, allBootstrapped, start, nextPrint, checks,
                 passes, prints>>

\* Mutant: the limit is looked at before the outcome of the pass.
LimitFirst ==
  /\ pc = "decide"
  /\ wall >= limit
  /\ Return("failed")
  /\ UNCHANGED <<env, recent, times, node, allBootstrapped>>

LimitReached ==
  /\ pc = "decide"
  /\ ~allBootstrapped
  /\ wall >= limit
  /\ Return("failed")
  /\ UNCHANGED <<env, recent, times, node, allBootstrapped>>

\* Mutant: all the checks of a report's time are asked for, not half of them.
PrintTooSoonStrict ==
  /\ pc = "decide"
  /\ ~allBootstrapped
  /\ wall < limit
  /\ wall >= nextPrint
  /\ checks <= ChecksPerPrint
  /\ Return("timing_error")
  /\ UNCHANGED <<env, recent, times, node, allBootstrapped>>

\* Too few checks since the last report: "Internal timing error".
PrintTooSoon ==
  /\ pc = "decide"
  /\ ~allBootstrapped
  /\ wall < limit
  /\ wall >= nextPrint
  /\ 2 * checks <= ChecksPerPrint
  /\ Return("timing_error")
  /\ UNCHANGED <<env, recent, times, node, allBootstrapped>>

PrintStatus ==
  /\ pc = "decide"
  /\ ~allBootstrapped
  /\ wall < limit
  /\ wall >= nextPrint
  /\ 2 * checks > ChecksPerPrint
  /\ nextPrint' = wall + PrintDelay
  /\ checks' = 0
  /\ prints' = prints + 1
  /\ pc' = "sleep"
  /\ UNCHANGED <<env, recent, node, allBootstrapped, wall, start, passes, result>>

NoPrintDue ==
  /\ pc = "decide"
  /\ ~allBootstrapped
  /\ wall < limit
  /\ wall < nextPrint
  /\ pc' = "sleep"
  /\ UNCHANGED <<env, recent, times, node, allBootstrapped, result>>

\* Mutant: the checks are not held against the clock.
SleepUncounted ==
  /\ pc = "sleep"
  /\ wall' \in After(CheckDelay, 0)
  /\ checks' = checks
  /\ node' = 1
  /\ allBootstrapped' = TRUE
  /\ pc' = "logs"
  /\ UNCHANGED <<env, recent, start, nextPrint, passes, prints, result>>

\* time.sleep(CHECK_NETWORK_STATUS_DELAY); too many checks without a report
\* mean that the clock hangs.
SleepAndCount ==
  /\ pc = "sleep"
  /\ wall' \in After(CheckDelay, 0)
  /\ checks' = checks + 1
  /\ \/ /\ checks' >= 2 * ChecksPerPrint
        /\ Return("timing_error")
        /\ UNCHANGED <<node, allBootstrapped>>
     \/ /\ checks' < 2 * ChecksPerPrint
        /\ node' = 1
        /\ allBootstrapped' = TRUE
        /\ pc' = "logs"
        /\ UNCHANGED result
  /\ UNCHANGED <<env, recent, start, nextPrint, passes, prints>>

Loop ==
  \/ PollLogs \/ PollDirInfo \/ ReadClock
  \/ AllBootstrapped \/ WaitMinTime
  \/ LimitReached \/ PrintTooSoon \/ PrintStatus \/ NoPrintDue
  \/ SleepAndCount

Init ==
  /\ notice \in [Nodes -> IF LogsExist THEN {"booting", "done"} ELSE {"none", "booting"}]
  /\ info = [c \in Nodes |-> IF notice[c] = "none" THEN "none" ELSE "nodesc"]
  /\ published = [c \in Nodes |-> FALSE]
  /\ pc = "logs"
  /\ node = 1
  /\ recentNotice = [c \in Nodes |-> "none"]
  /\ recentInfo = [c \in Nodes |-> "none"]
  /\ allBootstrapped = TRUE
  /\ start \in Starts
  /\ wall = start
  /\ nextPrint = start + PrintDelay
  /\ checks = 0
  /\ passes = 0
  /\ prints = 0
  /\ result = "none"

Next == Tor \/ Loop

Spec == Init /\ [][Next]_vars

\* The loop is one sequential program: it goes on whenever it can. Nothing is
\* assumed of the tors.
FairSpec == Spec /\ WF_vars(Loop)

-----------------------------------------------------------------------------
(* Properties                                                              *)

TypeOK ==
  /\ notice \in [Nodes -> {"none", "booting", "done"}]
  /\ info \in [Nodes -> {"none", "nodesc", "published"}]
  /\ published \in [Nodes -> BOOLEAN]
  /\ pc \in {"logs", "dirinfo", "clock", "decide", "mintime", "sleep", "returned"}
  /\ node \in Nodes
  /\ recentNotice \in [Nodes -> {"none", "booting", "done"}]
  /\ recentInfo \in [Nodes -> {"none", "nodesc", "published"}]
  /\ allBootstrapped \in BOOLEAN
  /\ wall \in Int /\ start \in Int /\ nextPrint \in Int
  /\ checks \in Nat /\ passes \in Nat /\ prints \in Nat
  /\ result \in Results

\* True is returned only for a network whose nodes are all ready, although no
\* two of them were looked at in the same instant (as long as no tor restarts).
SuccessMeansReady ==
  ~MayRestart /\ result = "bootstrapped" => \A c \in Nodes : Ready(c)

\* The number of passes is bounded whatever the clock does: a clock that hangs
\* or runs backwards trips the check counter, one that jumps ahead reaches the
\* limit (the comment on macOS Travis in the loop).
PassesBounded == passes <= MaxPasses

\* On success the network has been up for the minimum run time and the last
\* unchecked dir info had its extra wait, if the clock can be trusted.
MinimumRunTime ==
  Steady /\ result = "bootstrapped" => wall >= start + MinTime /\ wall >= start + WaitTime

\* A host whose passes take less than a check delay, under a steady clock.
PromptHost ==
  Steady /\ 2 * MaxPass + ChecksPerPrint * (CheckDelay + MaxPass) < 2 * PrintDelay

\* Such a host never sees the internal timing error: the loop gives up only
\* when CHUTNEY_START_TIME has elapsed.
PromptHostGivesUpOnlyAtTheLimit ==
  PromptHost /\ result \in {"failed", "timing_error"} => wall >= limit

\* The wait ends, under every clock.
Returns == <>(pc = "returned")

\* A pass that begins with every node ready ends in success: no check is lost
\* between two reads, and no pass is cut off by the limit half way.
ReadyPassSucceeds ==
  (pc = "logs" /\ node = 1 /\ \A c \in Nodes : Ready(c)) ~> (result = "bootstrapped")

-----------------------------------------------------------------------------
(* Inductive strengthenings, used by the proofs.                           *)

\* An answer is given exactly when the loop is left.
ReturnInv ==
  /\ result = "none" <=> pc # "returned"
  /\ pc = "mintime" => allBootstrapped
  /\ result = "bootstrapped" => allBootstrapped

\* Every report pushes the next one at least PrintDelay ahead, so the limit
\* bounds the reports, and the counter bounds the passes between two of them.
BoundInv ==
  LET thisPass == IF pc \in {"decide", "sleep", "mintime"} THEN 1 ELSE 0 IN
  /\ nextPrint >= start + prints * PrintDelay + PrintDelay
  /\ prints # 0 => prints * PrintDelay < StartTime
  /\ pc # "returned" =>
       /\ checks <= MostChecks
       /\ passes <= prints * MostChecks + checks + thisPass
  /\ PassesBounded

\* The nodes the current pass has already found ready.
Seen(c) ==
  \/ c < node
  \/ pc \notin {"logs", "dirinfo"}

\* A tor opens its two logs together.
LogsInv == \A c \in Nodes : notice[c] = "none" => info[c] = "none"

\* What the pass has seen so far is still so, unless a tor restarts.
SeenInv ==
  /\ \A c \in Nodes : recentNotice[c] = "done" => notice[c] = "done"
  /\ \A c \in Nodes : recentInfo[c] = "published" => info[c] = "published"
  /\ allBootstrapped /\ pc = "dirinfo" =>
       /\ notice[node] = "done"
       /\ node \in OnionServices => info[node] = "published"
  /\ allBootstrapped /\ result \in {"none", "bootstrapped"} =>
       \A c \in Nodes : Seen(c) => Ready(c)

ReadyInv == LogsInv /\ (~MayRestart => SeenInv)

\* Where a steady clock can be, given the checks since the last report.
ClockInv ==
  Steady =>
    /\ wall >= start
    /\ pc = "mintime" => wall >= start + WaitTime
    /\ pc \notin {"mintime", "returned"} =>
         wall >= nextPrint - PrintDelay + checks * CheckDelay
    /\ pc \in {"logs", "dirinfo", "clock"} =>
         wall <= nextPrint - PrintDelay + checks * (CheckDelay + MaxPass)
    /\ pc \in {"decide", "sleep"} =>
         wall <= nextPrint - PrintDelay + MaxPass + checks * (CheckDelay + MaxPass)
    /\ pc = "sleep" => wall < nextPrint

-----------------------------------------------------------------------------
(* What the documentation says, which the code does not do.                *)

\* README: nodes that have not bootstrapped make the wait dump the statuses
\* and exit with a failure; isBootstrapped: "Return true iff the logfile says
\* that this instance is bootstrapped". Neither mentions an exception.
AlwaysAnswers == result # "exception"
=============================================================================
