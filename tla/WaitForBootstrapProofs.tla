----------------------- MODULE WaitForBootstrapProofs -----------------------
(* Proofs about wait_for_bootstrap, for every number of nodes, every set of *)
(* delays and every clock.                                                  *)
EXTENDS WaitForBootstrap, TLAPS

-----------------------------------------------------------------------------
(* Arithmetic.                                                              *)

LEMMA ProductMonotone ==
  ASSUME NEW a \in Int, NEW b \in Int, NEW k \in Nat, a <= b
  PROVE  a * k <= b * k
<1>1. (b - a) * k >= 0  OBVIOUS
<1>2. (b - a) * k = b * k - a * k  OBVIOUS
<1> QED BY <1>1, <1>2

LEMMA QuotientBound ==
  ASSUME NEW a \in Nat, NEW c \in Nat, NEW d \in Nat \ {0}, a * d <= c
  PROVE  a <= c \div d
<1> DEFINE q == c \div d
<1>1. q \in Nat /\ c < d * (q + 1)  OBVIOUS
<1>2. SUFFICES ASSUME a >= q + 1 PROVE FALSE  BY <1>1
<1>3. (q + 1) * d <= a * d  BY <1>1, <1>2, ProductMonotone
<1> QED BY <1>1, <1>3

\* The division of the two delays is exact and positive.
LEMMA CheckCounts ==
  /\ ChecksPerPrint \in Nat \ {0}
  /\ MostChecks \in Nat
  /\ MaxPasses \in Nat
<1>1. ChecksPerPrint \in Nat \ {0}  BY TimesAssumption
<1>2. StartTime \div PrintDelay \in Nat  BY TimesAssumption
<1>3. MostChecks \in Nat  BY <1>1 DEF MostChecks
<1>4. (StartTime \div PrintDelay + 1) * MostChecks \in Nat  BY <1>2, <1>3
<1> QED BY <1>1, <1>3, <1>4 DEF MaxPasses

-----------------------------------------------------------------------------
(* Types.                                                                   *)

LEMMA InitType == Init => TypeOK
<1> SUFFICES ASSUME Init PROVE TypeOK  OBVIOUS
<1>1. start \in Int /\ nextPrint \in Int  BY TimesAssumption DEF Init
<1>2. notice \in [Nodes -> {"none", "booting", "done"}]  BY NodesAssumption DEF Init
<1> QED BY <1>1, <1>2, NodesAssumption DEF Init, TypeOK, Nodes, Results

LEMMA TorType ==
  ASSUME TypeOK, Tor
  PROVE  TypeOK'
<1> USE DEF TypeOK, recent, times
<1>1. PICK c \in Nodes :
        OpenLogs(c) \/ LogDone(c) \/ LogOnionDesc(c) \/ PublishDesc(c) \/ LogRestart(c)
  BY DEF Tor
<1>2. UNCHANGED <<recent, times, pc, node, allBootstrapped, result>>  BY DEF Tor
<1>3. CASE OpenLogs(c)  BY <1>2, <1>3 DEF OpenLogs
<1>4. CASE LogDone(c)  BY <1>2, <1>4 DEF LogDone
<1>5. CASE LogOnionDesc(c)  BY <1>2, <1>5 DEF LogOnionDesc
<1>6. CASE PublishDesc(c)  BY <1>2, <1>6 DEF PublishDesc
<1>7. CASE LogRestart(c)  BY <1>2, <1>7 DEF LogRestart
<1> QED BY <1>1, <1>3, <1>4, <1>5, <1>6, <1>7

LEMMA LoopType ==
  ASSUME TypeOK, Loop
  PROVE  TypeOK'
<1> USE NodesAssumption, TimesAssumption
    DEF TypeOK, env, recent, times, Return, Results, Nodes
<1>1. CASE PollLogs  BY <1>1 DEF PollLogs, UpdateLast
<1>2. CASE PollDirInfo  BY <1>2 DEF PollDirInfo
<1>3. CASE ReadClock  BY <1>3 DEF ReadClock, After
<1>4. CASE AllBootstrapped  BY <1>4 DEF AllBootstrapped, After
<1>5. CASE WaitMinTime  BY <1>5 DEF WaitMinTime, After
<1>6. CASE LimitReached  BY <1>6 DEF LimitReached
<1>7. CASE PrintTooSoon  BY <1>7 DEF PrintTooSoon
<1>8. CASE PrintStatus  BY <1>8 DEF PrintStatus
<1>9. CASE NoPrintDue  BY <1>9 DEF NoPrintDue
<1>10. CASE SleepAndCount
  <2>1. wall' \in Int /\ checks' \in Nat  BY <1>10 DEF SleepAndCount, After
  <2>2. node' \in Nodes /\ pc' \in {"logs", "returned"}
    BY <1>10 DEF SleepAndCount
  <2> QED BY <1>10, <2>1, <2>2 DEF SleepAndCount
<1> QED BY <1>1, <1>2, <1>3, <1>4, <1>5, <1>6, <1>7, <1>8, <1>9, <1>10 DEF Loop

LEMMA NextType ==
  ASSUME TypeOK, [Next]_vars
  PROVE  TypeOK'
<1>1. CASE Next  BY <1>1, TorType, LoopType DEF Next
<1>2. CASE UNCHANGED vars  BY <1>2 DEF TypeOK, vars, env, recent, times
<1> QED BY <1>1, <1>2

\* The model's variables keep their types: every cached status, counter and
\* clock reading of wait_for_bootstrap is one the code can hold.
THEOREM TypeCorrect == Spec => []TypeOK
<1>1. TypeOK /\ [Next]_vars => TypeOK'  BY NextType
<1> QED BY InitType, <1>1, PTL DEF Spec

-----------------------------------------------------------------------------
(* Every action of the loop, for the proofs by cases below.                 *)

LEMMA ReturnStep ==
  ASSUME TypeOK, ReturnInv, [Next]_vars
  PROVE  ReturnInv'
<1> USE DEF ReturnInv, TypeOK, Return
<1>1. CASE Tor  BY <1>1 DEF Tor, recent, times
<1>2. CASE PollLogs  BY <1>2 DEF PollLogs
<1>3. CASE PollDirInfo  BY <1>3 DEF PollDirInfo
<1>4. CASE ReadClock  BY <1>4 DEF ReadClock
<1>5. CASE AllBootstrapped  BY <1>5 DEF AllBootstrapped
<1>6. CASE WaitMinTime  BY <1>6 DEF WaitMinTime
<1>7. CASE LimitReached  BY <1>7 DEF LimitReached
<1>8. CASE PrintTooSoon  BY <1>8 DEF PrintTooSoon
<1>9. CASE PrintStatus  BY <1>9 DEF PrintStatus
<1>10. CASE NoPrintDue  BY <1>10 DEF NoPrintDue
<1>11. CASE SleepAndCount  BY <1>11 DEF SleepAndCount
<1>12. CASE UNCHANGED vars  BY <1>12 DEF vars
<1> QED BY <1>1, <1>2, <1>3, <1>4, <1>5, <1>6, <1>7, <1>8, <1>9, <1>10, <1>11, <1>12
        DEF Next, Loop

LEMMA InitReturn == Init => ReturnInv
BY DEF Init, ReturnInv

\* An answer, once given, stays; the actions that give one are the last.
LEMMA AlwaysReturnInv == Spec => [](TypeOK /\ ReturnInv)
<1>1. TypeOK /\ ReturnInv /\ [Next]_vars => TypeOK' /\ ReturnInv'
  BY NextType, ReturnStep
<1> QED BY InitType, InitReturn, <1>1, PTL DEF Spec

-----------------------------------------------------------------------------
(* The number of passes.                                                    *)

LEMMA InitBound == Init => BoundInv
<1> SUFFICES ASSUME Init PROVE BoundInv  OBVIOUS
<1>1. start \in Int  BY TimesAssumption DEF Init
<1>2. prints = 0 /\ checks = 0 /\ passes = 0 /\ pc = "logs"
      /\ nextPrint = start + PrintDelay
  BY DEF Init
<1>3. 0 * PrintDelay = 0 /\ 0 * MostChecks = 0
  BY CheckCounts, TimesAssumption
<1> QED BY <1>1, <1>2, <1>3, CheckCounts, TimesAssumption DEF BoundInv, PassesBounded

\* The reports so far, and one more round of checks, stay within MaxPasses.
LEMMA PassLimit ==
  ASSUME TypeOK, BoundInv
  PROVE  prints * MostChecks + MostChecks + 1 <= MaxPasses
<1> DEFINE quota == StartTime \div PrintDelay
<1>1. MostChecks \in Nat /\ quota \in Nat /\ prints \in Nat
  BY CheckCounts, TimesAssumption DEF TypeOK
<1>2. prints * PrintDelay <= StartTime
  <2>1. CASE prints = 0  BY <2>1, TimesAssumption
  <2>2. CASE prints # 0
    <3>1. prints * PrintDelay < StartTime  BY <2>2 DEF BoundInv
    <3>2. prints * PrintDelay \in Int  BY <1>1, TimesAssumption
    <3> QED BY <3>1, <3>2, TimesAssumption
  <2> QED BY <2>1, <2>2
<1>3. prints <= quota  BY <1>1, <1>2, QuotientBound, TimesAssumption
<1> HIDE DEF quota
<1>4. prints * MostChecks <= quota * MostChecks  BY <1>1, <1>3, ProductMonotone
<1>5. (quota + 1) * MostChecks = quota * MostChecks + MostChecks  BY <1>1
<1>6. prints * MostChecks \in Int /\ quota * MostChecks \in Int  BY <1>1
<1>7. prints * MostChecks + MostChecks + 1 <= (quota + 1) * MostChecks + 1
  BY <1>1, <1>4, <1>5, <1>6
<1> QED BY <1>7 DEF quota, MaxPasses

LEMMA BoundStep ==
  ASSUME TypeOK, ReturnInv, BoundInv, [Next]_vars
  PROVE  BoundInv'
<1>1. /\ MostChecks \in Nat /\ MaxPasses \in Nat
      /\ PrintDelay \in Nat \ {0} /\ StartTime \in Nat
  BY CheckCounts, TimesAssumption
<1>2. /\ checks \in Nat /\ passes \in Nat /\ prints \in Nat
      /\ wall \in Int /\ start \in Int /\ nextPrint \in Int
  BY DEF TypeOK
<1>3. prints * MostChecks \in Int /\ prints * PrintDelay \in Int  BY <1>1, <1>2
<1>4. CASE Tor
  BY <1>4 DEF Tor, times, BoundInv, PassesBounded
<1>5. CASE PollLogs
  BY <1>5 DEF PollLogs, Return, times, BoundInv, PassesBounded
<1>6. CASE PollDirInfo
  BY <1>6 DEF PollDirInfo, times, BoundInv, PassesBounded
<1>7. CASE ReadClock
  <2>1. /\ pc = "clock" /\ pc' = "decide"
        /\ passes' = IF passes <= MaxPasses THEN passes + 1 ELSE passes
        /\ UNCHANGED <<start, nextPrint, checks, prints>>
    BY <1>7 DEF ReadClock
  <2>2. passes <= prints * MostChecks + checks + 0 /\ checks <= MostChecks
    BY <2>1 DEF BoundInv
  <2>3. passes' <= prints * MostChecks + checks + 1  BY <1>1, <1>2, <1>3, <2>1, <2>2
  <2>4. prints * MostChecks + MostChecks + 1 <= MaxPasses  BY PassLimit
  <2>5. passes' <= MaxPasses  BY <1>1, <1>2, <1>3, <2>1, <2>2, <2>3, <2>4
  <2> QED BY <2>1, <2>2, <2>3, <2>5 DEF BoundInv, PassesBounded
<1>8. CASE AllBootstrapped
  BY <1>8 DEF AllBootstrapped, BoundInv, PassesBounded
<1>9. CASE WaitMinTime
  BY <1>9 DEF WaitMinTime, Return, BoundInv, PassesBounded
<1>10. CASE LimitReached
  BY <1>10 DEF LimitReached, Return, times, BoundInv, PassesBounded
<1>11. CASE PrintTooSoon
  BY <1>11 DEF PrintTooSoon, Return, times, BoundInv, PassesBounded
<1>12. CASE PrintStatus
  <2>1. /\ prints' = prints + 1 /\ checks' = 0 /\ nextPrint' = wall + PrintDelay
        /\ pc = "decide" /\ pc' = "sleep" /\ passes' = passes /\ start' = start
        /\ wall < start + StartTime /\ wall >= nextPrint
    BY <1>12 DEF PrintStatus, limit
  <2>2. /\ nextPrint >= start + prints * PrintDelay + PrintDelay
        /\ checks <= MostChecks
        /\ passes <= prints * MostChecks + checks + 1
        /\ passes <= MaxPasses
    BY <2>1 DEF BoundInv, PassesBounded
  <2>3. /\ (prints + 1) * MostChecks = prints * MostChecks + MostChecks
        /\ (prints + 1) * PrintDelay = prints * PrintDelay + PrintDelay
    BY <1>1, <1>2
  <2>4. /\ nextPrint' >= start' + prints' * PrintDelay + PrintDelay
        /\ prints' * PrintDelay < StartTime
        /\ passes' <= prints' * MostChecks + checks' + 1
    BY <1>1, <1>2, <1>3, <2>1, <2>2, <2>3
  <2> QED BY <1>1, <2>1, <2>2, <2>4 DEF BoundInv, PassesBounded
<1>13. CASE NoPrintDue
  BY <1>13 DEF NoPrintDue, times, BoundInv, PassesBounded
<1>14. CASE SleepAndCount
  <2>1. /\ checks' = checks + 1 /\ UNCHANGED <<passes, prints, start, nextPrint>>
        /\ pc = "sleep"
        /\ pc' = "returned" \/ (pc' = "logs" /\ checks' < 2 * ChecksPerPrint)
    BY <1>14 DEF SleepAndCount, Return
  <2>2. passes <= prints * MostChecks + checks + 1  BY <2>1 DEF BoundInv
  <2>3. passes <= prints * MostChecks + (checks + 1) + 0
    BY <1>1, <1>2, <1>3, <2>2
  <2>4. pc' # "returned" => checks' <= MostChecks
    BY <1>2, <2>1, CheckCounts DEF MostChecks
  <2> QED BY <2>1, <2>3, <2>4 DEF BoundInv, PassesBounded
<1>15. CASE UNCHANGED vars
  BY <1>15 DEF vars, times, BoundInv, PassesBounded
<1> QED BY <1>4, <1>5, <1>6, <1>7, <1>8, <1>9, <1>10, <1>11, <1>12, <1>13, <1>14, <1>15
        DEF Next, Loop

\* Whatever the clock does, the wait makes at most MaxPasses passes over the
\* nodes: the two guards of the loop together bound it (see PassesBounded).
THEOREM BoundedUnderAnyClock == Spec => []PassesBounded
<1>1. TypeOK /\ ReturnInv /\ BoundInv /\ [Next]_vars => BoundInv'  BY BoundStep
<1>2. BoundInv => PassesBounded  BY DEF BoundInv
<1> QED BY AlwaysReturnInv, InitBound, <1>1, <1>2, PTL DEF Spec

-----------------------------------------------------------------------------
(* Success is sound, although the nodes are read one after the other.       *)

LEMMA InitReady == Init => ReadyInv
BY NodesAssumption DEF Init, ReadyInv, LogsInv, SeenInv, Seen, Nodes

LEMMA LogsStep ==
  ASSUME TypeOK, LogsInv, [Next]_vars
  PROVE  LogsInv'
<1> USE DEF LogsInv, TypeOK
<1>1. CASE UNCHANGED <<notice, info>>  BY <1>1
<1>2. CASE Tor
  <2>1. PICK c \in Nodes :
          OpenLogs(c) \/ LogDone(c) \/ LogOnionDesc(c) \/ PublishDesc(c) \/ LogRestart(c)
    BY <1>2 DEF Tor
  <2>2. CASE OpenLogs(c)  BY <2>2 DEF OpenLogs
  <2>3. CASE LogDone(c)  BY <2>3 DEF LogDone
  <2>4. CASE LogOnionDesc(c)  BY <2>4 DEF LogOnionDesc
  <2>5. CASE PublishDesc(c)  BY <2>5 DEF PublishDesc
  <2>6. CASE LogRestart(c)  BY <2>6 DEF LogRestart
  <2> QED BY <2>1, <2>2, <2>3, <2>4, <2>5, <2>6
<1>3. Loop => UNCHANGED <<notice, info>>
  BY DEF Loop, PollLogs, PollDirInfo, ReadClock, AllBootstrapped, WaitMinTime,
         LimitReached, PrintTooSoon, PrintStatus, NoPrintDue, SleepAndCount, env
<1> QED BY <1>1, <1>2, <1>3 DEF Next, vars, env

\* Without restarts a tor never takes back what a pass has seen of it.
LEMMA TorKeeps ==
  ASSUME TypeOK, LogsInv, ~MayRestart, Tor
  PROVE  /\ \A d \in Nodes : notice[d] = "done" => notice'[d] = "done"
         /\ \A d \in Nodes : info[d] = "published" => info'[d] = "published"
         /\ \A d \in Nodes : published[d] => published'[d]
<1> USE DEF TypeOK
<1>1. PICK c \in Nodes :
        OpenLogs(c) \/ LogDone(c) \/ LogOnionDesc(c) \/ PublishDesc(c) \/ LogRestart(c)
  BY DEF Tor
<1>2. CASE OpenLogs(c)  BY <1>2 DEF OpenLogs, LogsInv
<1>3. CASE LogDone(c)  BY <1>3 DEF LogDone
<1>4. CASE LogOnionDesc(c)  BY <1>4 DEF LogOnionDesc
<1>5. CASE PublishDesc(c)  BY <1>5 DEF PublishDesc
<1>6. CASE LogRestart(c)  BY <1>6 DEF LogRestart
<1> QED BY <1>1, <1>2, <1>3, <1>4, <1>5, <1>6

LEMMA SeenStep ==
  ASSUME TypeOK, ReturnInv, LogsInv, SeenInv, ~MayRestart, [Next]_vars
  PROVE  SeenInv'
<1>1. CASE Tor
  <2>1. UNCHANGED <<recent, times, pc, node, allBootstrapped, result>>
    BY <1>1 DEF Tor
  <2>2. \A d \in Nodes : Ready(d) => Ready(d)'  BY <1>1, TorKeeps DEF Ready
  <2> QED BY <1>1, <2>1, <2>2, TorKeeps DEF SeenInv, Seen, recent, TypeOK
<1>2. CASE PollLogs
  <2>1. /\ UNCHANGED <<env, times, node>> /\ pc = "logs"
        /\ recentNotice' = [recentNotice EXCEPT ![node] = UpdateLast(recentNotice[node], notice[node])]
        /\ recentInfo' = [recentInfo EXCEPT ![node] = UpdateLast(recentInfo[node], info[node])]
    BY <1>2 DEF PollLogs
  <2>2. /\ \A c \in Nodes : recentNotice'[c] = "done" => notice'[c] = "done"
        /\ \A c \in Nodes : recentInfo'[c] = "published" => info'[c] = "published"
    BY <2>1 DEF SeenInv, UpdateLast, TypeOK, env
  <2>3. UNCHANGED <<notice, info, published, node>>  BY <2>1 DEF env
  <2>4. \A c \in Nodes : Ready(c)' = Ready(c)  BY <2>3 DEF Ready
  <2>5. CASE pc' = "returned" /\ result' = "exception"
    BY <2>2, <2>5 DEF SeenInv
  <2>6. CASE /\ pc' = "dirinfo"
             /\ allBootstrapped' => /\ allBootstrapped
                                    /\ recentNotice'[node] = "done"
                                    /\ node \in OnionServices => recentInfo'[node] = "published"
    <3>1. \A c \in Nodes : Seen(c)' = Seen(c)  BY <2>1, <2>3, <2>6 DEF Seen
    <3>2. allBootstrapped' => \A c \in Nodes : Seen(c)' => Ready(c)'
      BY <2>1, <2>4, <2>6, <3>1 DEF SeenInv, ReturnInv, TypeOK
    <3> QED BY <2>2, <2>3, <2>6, <3>2 DEF SeenInv, TypeOK
  <2> QED BY <1>2, <2>1, <2>5, <2>6 DEF PollLogs, Return, TypeOK
<1>3. CASE PollDirInfo
  <2>1. /\ UNCHANGED <<env, recent, times, result>> /\ pc = "dirinfo"
        /\ allBootstrapped' => allBootstrapped /\ (node \in Publishers => published[node])
        /\ \/ node < NumNodes /\ node' = node + 1 /\ pc' = "logs"
           \/ ~(node < NumNodes) /\ node' = node /\ pc' = "clock"
    BY <1>3 DEF PollDirInfo
  <2>2. UNCHANGED <<notice, info, published>>  BY <2>1 DEF env
  <2>3. allBootstrapped' => Ready(node)
    BY <2>1 DEF SeenInv, Ready, TypeOK
  <2>4. \A c \in Nodes : Seen(c)' => c = node \/ Seen(c)
    BY <2>1, NodesAssumption DEF Seen, TypeOK, Nodes
  <2>5. \A c \in Nodes : Ready(c)' = Ready(c)  BY <2>2 DEF Ready
  <2>6. allBootstrapped' => \A c \in Nodes : Seen(c)' => Ready(c)'
    BY <2>1, <2>3, <2>4, <2>5 DEF SeenInv, ReturnInv, TypeOK
  <2> QED BY <2>1, <2>2, <2>6 DEF SeenInv, recent
<1>4. ASSUME UNCHANGED <<env, recent, node, allBootstrapped>>,
             pc \notin {"logs", "dirinfo", "returned"},
             pc' \notin {"logs", "dirinfo"}
      PROVE  SeenInv'
  <2>1. \A c \in Nodes : Seen(c) /\ Ready(c)' = Ready(c)
    BY <1>4 DEF Seen, Ready, env
  <2> QED BY <1>4, <2>1 DEF SeenInv, ReturnInv, env, recent
<1>5. CASE SleepAndCount
  <2>1. CASE pc' = "returned"
    BY <1>4, <1>5, <2>1 DEF SleepAndCount
  <2>2. CASE node' = 1 /\ pc' = "logs"
    <3>1. UNCHANGED <<env, recent>>  BY <1>5 DEF SleepAndCount
    <3>2. \A c \in Nodes : ~Seen(c)'
      BY <2>2, NodesAssumption DEF Seen, Nodes
    <3> QED BY <2>2, <3>1, <3>2 DEF SeenInv, env, recent
  <2> QED BY <1>5, <2>1, <2>2 DEF SleepAndCount, Return
<1>6. CASE UNCHANGED vars
  BY <1>6 DEF vars, env, recent, SeenInv, Seen, Ready
<1>7. CASE ReadClock  BY <1>4, <1>7 DEF ReadClock
<1>8. CASE AllBootstrapped  BY <1>4, <1>8 DEF AllBootstrapped
<1>9. CASE WaitMinTime  BY <1>4, <1>9 DEF WaitMinTime, Return
<1>10. CASE LimitReached  BY <1>4, <1>10 DEF LimitReached, Return
<1>11. CASE PrintTooSoon  BY <1>4, <1>11 DEF PrintTooSoon, Return
<1>12. CASE PrintStatus  BY <1>4, <1>12 DEF PrintStatus
<1>13. CASE NoPrintDue  BY <1>4, <1>13 DEF NoPrintDue
<1> QED BY <1>1, <1>2, <1>3, <1>5, <1>6, <1>7, <1>8, <1>9, <1>10, <1>11, <1>12, <1>13
        DEF Next, Loop

\* When no tor restarts, wait_for_bootstrap returns True only for a network
\* all of whose nodes are ready (SuccessMeansReady).
THEOREM SuccessSound == Spec => []SuccessMeansReady
<1>1. TypeOK /\ ReturnInv /\ ReadyInv /\ [Next]_vars => ReadyInv'
  BY LogsStep, SeenStep DEF ReadyInv
<1>2. ReturnInv /\ ReadyInv => SuccessMeansReady
  BY DEF ReturnInv, ReadyInv, SeenInv, Seen, SuccessMeansReady
<1> QED BY AlwaysReturnInv, InitReady, <1>1, <1>2, PTL DEF Spec

-----------------------------------------------------------------------------
(* Under a steady clock.                                                    *)

LEMMA InitClock == Init => ClockInv
<1> SUFFICES ASSUME Init PROVE ClockInv  OBVIOUS
<1>1. /\ start \in Int /\ wall = start /\ nextPrint = start + PrintDelay
      /\ checks = 0 /\ pc = "logs"
  BY TimesAssumption DEF Init
<1>2. 0 * CheckDelay = 0 /\ 0 * (CheckDelay + MaxPass) = 0  BY TimesAssumption
<1> QED BY <1>1, <1>2, TimesAssumption DEF ClockInv

LEMMA ClockStep ==
  ASSUME TypeOK, ClockInv, [Next]_vars
  PROVE  ClockInv'
<1> SUFFICES ASSUME Steady PROVE ClockInv'  BY DEF ClockInv
<1> DEFINE cost == CheckDelay + MaxPass
<1>1. /\ PrintDelay \in Nat \ {0} /\ CheckDelay \in Nat \ {0} /\ MaxPass \in Nat
      /\ WaitTime \in Nat /\ MinTime \in Nat /\ cost \in Nat
  BY TimesAssumption
<1>2. /\ checks \in Nat /\ wall \in Int /\ start \in Int /\ nextPrint \in Int
  BY DEF TypeOK
<1> HIDE DEF cost
<1>3. checks * CheckDelay \in Nat /\ checks * cost \in Nat  BY <1>1, <1>2
<1>4. /\ 0 * CheckDelay = 0 /\ 0 * cost = 0
      /\ (checks + 1) * CheckDelay = checks * CheckDelay + CheckDelay
      /\ (checks + 1) * cost = checks * cost + cost
  BY <1>1, <1>2
<1>5. /\ wall >= start
      /\ pc \notin {"mintime", "returned"} => wall >= nextPrint - PrintDelay + checks * CheckDelay
      /\ pc \in {"logs", "dirinfo", "clock"} => wall <= nextPrint - PrintDelay + checks * cost
      /\ pc \in {"decide", "sleep"} => wall <= nextPrint - PrintDelay + MaxPass + checks * cost
      /\ pc = "mintime" => wall >= start + WaitTime
      /\ pc = "sleep" => wall < nextPrint
  BY DEF ClockInv, cost
<1>6. SUFFICES
        /\ wall' >= start'
        /\ pc' = "mintime" => wall' >= start' + WaitTime
        /\ pc' \notin {"mintime", "returned"} =>
             wall' >= nextPrint' - PrintDelay + checks' * CheckDelay
        /\ pc' \in {"logs", "dirinfo", "clock"} =>
             wall' <= nextPrint' - PrintDelay + checks' * cost
        /\ pc' \in {"decide", "sleep"} =>
             wall' <= nextPrint' - PrintDelay + MaxPass + checks' * cost
        /\ pc' = "sleep" => wall' < nextPrint'
  BY DEF ClockInv, cost
<1>7. CASE Tor  BY <1>5, <1>7 DEF Tor, times
<1>8. CASE PollLogs  BY <1>5, <1>8 DEF PollLogs, times, Return
<1>9. CASE PollDirInfo  BY <1>5, <1>9 DEF PollDirInfo, times
<1>10. CASE ReadClock
  <2>1. /\ pc = "clock" /\ pc' = "decide" /\ UNCHANGED <<start, nextPrint, checks>>
        /\ wall' \in Int /\ wall + 0 <= wall' /\ wall' <= wall + 0 + MaxPass
    BY <1>10, TimesAssumption DEF ReadClock, After
  <2>2. wall <= wall' /\ wall' <= wall + MaxPass  BY <1>1, <1>2, <2>1
  <2>3. wall' >= nextPrint - PrintDelay + checks * CheckDelay
    BY <1>1, <1>2, <1>3, <1>5, <2>1, <2>2
  <2>4. wall' <= nextPrint - PrintDelay + MaxPass + checks * cost
    BY <1>1, <1>2, <1>3, <1>5, <2>1, <2>2
  <2>5. wall' >= start  BY <1>2, <1>5, <2>1, <2>2
  <2> QED BY <2>1, <2>3, <2>4, <2>5
<1>11. CASE AllBootstrapped
  <2>1. /\ pc' = "mintime" /\ start' = start /\ wall' \in Int /\ wall + WaitTime <= wall'
    BY <1>11, TimesAssumption DEF AllBootstrapped, After
  <2> QED BY <1>1, <1>2, <1>5, <2>1
<1>12. CASE WaitMinTime
  <2>1. pc' = "returned" /\ start' = start  BY <1>12 DEF WaitMinTime, Return
  <2>2. CASE wall - start < MinTime
    <3>1. wall' \in Int /\ wall + (MinTime - (wall - start)) <= wall'
      BY <1>12, <2>2, TimesAssumption DEF WaitMinTime, After
    <3> QED BY <1>1, <1>2, <1>5, <2>1, <2>2, <3>1
  <2>3. CASE ~(wall - start < MinTime)
    BY <1>5, <1>12, <2>1, <2>3 DEF WaitMinTime
  <2> QED BY <2>2, <2>3
<1>13. CASE LimitReached  BY <1>5, <1>13 DEF LimitReached, Return, times
<1>14. CASE PrintTooSoon  BY <1>5, <1>14 DEF PrintTooSoon, Return, times
<1>15. CASE PrintStatus
  <2>1. /\ pc' = "sleep" /\ nextPrint' = wall + PrintDelay /\ checks' = 0
        /\ wall' = wall /\ start' = start
    BY <1>15 DEF PrintStatus
  <2> QED BY <1>1, <1>2, <1>4, <1>5, <2>1
<1>16. CASE NoPrintDue
  <2>1. /\ pc = "decide" /\ pc' = "sleep" /\ wall < nextPrint
        /\ UNCHANGED <<wall, start, nextPrint, checks>>
    BY <1>16 DEF NoPrintDue, times
  <2> QED BY <1>5, <2>1
<1>17. CASE SleepAndCount
  <2>1. /\ pc = "sleep" /\ pc' \in {"logs", "returned"} /\ checks' = checks + 1
        /\ UNCHANGED <<start, nextPrint>>
        /\ wall' \in Int /\ wall + CheckDelay <= wall' /\ wall' <= wall + CheckDelay + 0
    BY <1>17, TimesAssumption DEF SleepAndCount, Return, After
  <2>2. cost = CheckDelay + MaxPass  BY DEF cost
  <2>3. wall' = wall + CheckDelay  BY <1>1, <1>2, <2>1
  <2>4. wall' >= nextPrint - PrintDelay + checks' * CheckDelay
    BY <1>1, <1>2, <1>3, <1>4, <1>5, <2>1, <2>3
  <2>5. wall' <= nextPrint - PrintDelay + checks' * cost
    BY <1>1, <1>2, <1>3, <1>4, <1>5, <2>1, <2>2, <2>3
  <2>6. wall' >= start  BY <1>1, <1>2, <1>5, <2>3
  <2> QED BY <2>1, <2>4, <2>5, <2>6
<1>18. CASE UNCHANGED vars  BY <1>5, <1>18 DEF vars, times
<1> QED BY <1>7, <1>8, <1>9, <1>10, <1>11, <1>12, <1>13, <1>14, <1>15, <1>16, <1>17, <1>18
        DEF Next, Loop

LEMMA AlwaysClockInv == Spec => []ClockInv
<1>1. TypeOK /\ ClockInv /\ [Next]_vars => ClockInv'  BY ClockStep
<1> QED BY TypeCorrect, InitClock, <1>1, PTL DEF Spec

\* A successful wait has lasted the minimum run time, and at least the extra
\* time for unchecked dir info (MinimumRunTime).
THEOREM MinimumRunTimeKept == Spec => []MinimumRunTime
<1>1. Init => MinimumRunTime  BY DEF Init, MinimumRunTime
<1>2. ASSUME TypeOK, ReturnInv, ClockInv, MinimumRunTime, [Next]_vars
      PROVE  MinimumRunTime'
  <2>1. SUFFICES ASSUME Steady, result' = "bootstrapped"
                 PROVE  wall' >= start' + MinTime /\ wall' >= start' + WaitTime
    BY DEF MinimumRunTime
  <2>2. CASE WaitMinTime
    <3>1. /\ wall \in Int /\ start \in Int /\ start' = start
          /\ MinTime \in Nat /\ WaitTime \in Nat
          /\ wall >= start + WaitTime
      BY <1>2, <2>1, <2>2, TimesAssumption DEF WaitMinTime, TypeOK, ClockInv
    <3>2. CASE wall - start < MinTime
      <4>1. wall' \in Int /\ wall + (MinTime - (wall - start)) <= wall'
        BY <2>1, <2>2, <3>2, TimesAssumption DEF WaitMinTime, After
      <4>2. wall' >= start + MinTime  BY <3>1, <4>1
      <4>3. wall' >= start + WaitTime  BY <3>1, <3>2, <4>1, <4>2
      <4> QED BY <3>1, <4>2, <4>3
    <3>3. CASE ~(wall - start < MinTime)
      BY <2>2, <3>1, <3>3 DEF WaitMinTime
    <3> QED BY <3>2, <3>3
  <2>3. CASE result = "bootstrapped" /\ UNCHANGED <<wall, start>>
    BY <1>2, <2>1, <2>3 DEF MinimumRunTime
  <2>4. pc = "returned" => UNCHANGED <<wall, start, result>>
    BY <1>2 DEF Next, Tor, Loop, PollLogs, PollDirInfo, ReadClock, AllBootstrapped,
       WaitMinTime, LimitReached, PrintTooSoon, PrintStatus, NoPrintDue, SleepAndCount,
       times, vars
  <2>5. pc # "returned" => WaitMinTime
    BY <1>2, <2>1 DEF Next, Tor, Loop, PollLogs, PollDirInfo, ReadClock, AllBootstrapped,
       LimitReached, PrintTooSoon, PrintStatus, NoPrintDue, SleepAndCount, Return,
       ReturnInv, vars
  <2>6. CASE pc = "returned"
    BY <2>1, <2>3, <2>4, <2>6
  <2> QED BY <2>2, <2>5, <2>6
<1>3. TypeOK /\ ReturnInv /\ ClockInv /\ MinimumRunTime /\ [Next]_vars => MinimumRunTime'
  BY <1>2
<1> QED BY AlwaysReturnInv, AlwaysClockInv, <1>1, <1>3, PTL DEF Spec

\* Two consecutive reports of a prompt host are never too close.
LEMMA PromptNeverTooSoon ==
  ASSUME TypeOK, ClockInv, PromptHost
  PROVE  ~PrintTooSoon
<1> SUFFICES ASSUME PrintTooSoon PROVE FALSE  OBVIOUS
<1> DEFINE cost == CheckDelay + MaxPass
<1>1. /\ PrintDelay \in Nat \ {0} /\ MaxPass \in Nat /\ cost \in Nat
      /\ ChecksPerPrint \in Nat /\ checks \in Nat /\ wall \in Int /\ nextPrint \in Int
  BY TimesAssumption DEF TypeOK
<1>2. /\ wall >= nextPrint /\ 2 * checks <= ChecksPerPrint
      /\ wall <= nextPrint - PrintDelay + MaxPass + checks * cost
      /\ 2 * MaxPass + ChecksPerPrint * cost < 2 * PrintDelay
  BY DEF PrintTooSoon, ClockInv, PromptHost
<1> HIDE DEF cost
<1>3. (2 * checks) * cost <= ChecksPerPrint * cost  BY <1>1, <1>2, ProductMonotone
<1>4. (2 * checks) * cost = 2 * (checks * cost) /\ checks * cost \in Nat
      /\ ChecksPerPrint * cost \in Nat
  BY <1>1
<1>5. PrintDelay <= MaxPass + checks * cost  BY <1>1, <1>2, <1>4
<1> QED BY <1>1, <1>2, <1>3, <1>4, <1>5

\* Under a steady clock a report is due long before the check counter trips.
LEMMA SteadyNeverHangs ==
  ASSUME TypeOK, ClockInv, Steady, SleepAndCount
  PROVE  checks' < 2 * ChecksPerPrint
<1>1. /\ PrintDelay \in Nat \ {0} /\ CheckDelay \in Nat /\ ChecksPerPrint \in Nat \ {0}
      /\ ChecksPerPrint * CheckDelay = PrintDelay
      /\ checks \in Nat /\ wall \in Int /\ nextPrint \in Int
  BY TimesAssumption DEF TypeOK
<1>2. /\ checks' = checks + 1 /\ wall < nextPrint
      /\ wall >= nextPrint - PrintDelay + checks * CheckDelay
  BY DEF SleepAndCount, ClockInv
<1>3. checks * CheckDelay \in Nat /\ checks * CheckDelay < PrintDelay  BY <1>1, <1>2
<1>4. checks < ChecksPerPrint
  <2> SUFFICES ASSUME ChecksPerPrint <= checks PROVE FALSE  BY <1>1
  <2>1. ChecksPerPrint * CheckDelay <= checks * CheckDelay  BY <1>1, ProductMonotone
  <2> QED BY <1>1, <1>3, <2>1
<1> QED BY <1>1, <1>2, <1>4

\* A host that polls fast enough gives up only at the limit: neither guard
\* against a broken clock fires by mistake (PromptHostGivesUpOnlyAtTheLimit).
THEOREM PromptHostPatient == Spec => []PromptHostGivesUpOnlyAtTheLimit
<1>1. Init => PromptHostGivesUpOnlyAtTheLimit
  BY DEF Init, PromptHostGivesUpOnlyAtTheLimit
<1>2. ASSUME TypeOK, ReturnInv, ClockInv, PromptHostGivesUpOnlyAtTheLimit, [Next]_vars
      PROVE  PromptHostGivesUpOnlyAtTheLimit'
  <2>1. SUFFICES ASSUME PromptHost, result' \in {"failed", "timing_error"}
                 PROVE  wall' >= limit'
    BY DEF PromptHostGivesUpOnlyAtTheLimit, PromptHost
  <2>2. pc = "returned" => UNCHANGED <<wall, start, result>>
    BY <1>2 DEF Next, Tor, Loop, PollLogs, PollDirInfo, ReadClock, AllBootstrapped,
       WaitMinTime, LimitReached, PrintTooSoon, PrintStatus, NoPrintDue, SleepAndCount,
       times, vars
  <2>3. CASE pc = "returned"
    BY <1>2, <2>1, <2>2, <2>3 DEF PromptHostGivesUpOnlyAtTheLimit, limit
  <2>4. CASE LimitReached  BY <2>4 DEF LimitReached, times, limit
  <2>5. ~PrintTooSoon  BY <1>2, <2>1, PromptNeverTooSoon
  <2>6. CASE SleepAndCount
    <3>1. checks' < 2 * ChecksPerPrint
      BY <1>2, <2>1, <2>6, SteadyNeverHangs DEF PromptHost
    <3>2. checks' \in Nat /\ ChecksPerPrint \in Nat
      BY <1>2, <2>6, CheckCounts DEF TypeOK, SleepAndCount
    <3>3. result' = result /\ pc # "returned"
      BY <2>6, <3>1, <3>2 DEF SleepAndCount
    <3> QED BY <1>2, <2>1, <3>3 DEF ReturnInv
  <2>7. pc # "returned" => LimitReached \/ PrintTooSoon \/ SleepAndCount
    BY <1>2, <2>1 DEF Next, Tor, Loop, PollLogs, PollDirInfo, ReadClock, AllBootstrapped,
       WaitMinTime, PrintStatus, NoPrintDue, Return, ReturnInv, vars
  <2> QED BY <2>3, <2>4, <2>5, <2>6, <2>7
<1>3. TypeOK /\ ReturnInv /\ ClockInv /\ PromptHostGivesUpOnlyAtTheLimit /\ [Next]_vars
      => PromptHostGivesUpOnlyAtTheLimit'
  BY <1>2
<1> QED BY AlwaysReturnInv, AlwaysClockInv, <1>1, <1>3, PTL DEF Spec

-----------------------------------------------------------------------------
(* When it answers.                                                        *)

\* Every log that is there stays there, and so does what was read of it.
LogsThere ==
  \A c \in Nodes :
    /\ notice[c] # "none" /\ info[c] # "none"
    /\ result # "exception"

\* The wait never ends in an exception, but in one of the documented answers, if the
\* tors have opened their logs before it begins.
THEOREM AnswersWithLogs ==
  ASSUME LogsExist
  PROVE  Spec => []AlwaysAnswers
<1>1. Init => LogsThere
  BY DEF Init, LogsThere
<1>2. ASSUME TypeOK, LogsThere, [Next]_vars
      PROVE  LogsThere'
  <2>1. CASE UNCHANGED vars
    BY <1>2, <2>1 DEF vars, env, LogsThere
  <2>2. CASE Tor
    BY <1>2, <2>2 DEF Tor, OpenLogs, LogDone, LogOnionDesc, PublishDesc, LogRestart, LogsThere, TypeOK
  <2>3. CASE PollLogs
    <3>1. UNCHANGED <<notice, info>> /\ node \in Nodes
      BY <1>2, <2>3 DEF PollLogs, env, TypeOK
    <3>2. UpdateLast(recentNotice[node], notice[node]) # "none" /\ UpdateLast(recentInfo[node], info[node]) # "none"
      BY <1>2, <3>1 DEF LogsThere, UpdateLast
    <3>3. UNCHANGED result
      BY <2>3, <3>2 DEF PollLogs
    <3> QED BY <1>2, <3>1, <3>3 DEF LogsThere
  <2>4. CASE Loop /\ ~PollLogs
    <3>1. UNCHANGED <<notice, info>>
      BY <2>4 DEF Loop, env, PollDirInfo, ReadClock, AllBootstrapped, WaitMinTime, LimitReached,
             PrintTooSoon, PrintStatus, NoPrintDue, SleepAndCount
    <3>2. result' \in {result, "bootstrapped", "failed", "timing_error"}
      BY <2>4 DEF Loop, PollDirInfo, ReadClock, AllBootstrapped, WaitMinTime, LimitReached,
             PrintTooSoon, PrintStatus, NoPrintDue, SleepAndCount, Return
    <3> QED BY <1>2, <3>1, <3>2 DEF LogsThere
  <2> QED BY <1>2, <2>1, <2>2, <2>3, <2>4 DEF Next, Loop
<1>3. LogsThere => AlwaysAnswers
  BY NodesAssumption DEF LogsThere, AlwaysAnswers, Nodes
<1> QED BY <1>1, <1>2, <1>3, TypeCorrect, PTL DEF Spec
=============================================================================
