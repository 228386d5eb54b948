--------------------------- MODULE BootstrapProofs ---------------------------
(***************************************************************************)
(* Proofs about Bootstrap, for every network: the search from node to node *)
(* inside wait_for_bootstrap gives the answers that WaitForBootstrap takes *)
(* in one step, and True means that every descriptor is published.         *)
(***************************************************************************)
EXTENDS Bootstrap, TLAPS

Waiting == {"logs", "dirinfo", "clock", "decide", "mintime", "sleep"}

Types ==
  /\ cached \in [Nodes -> SUBSET Nodes]
  /\ other \in Nodes /\ node \in Nodes
  /\ allFound \in BOOLEAN /\ allBootstrapped \in BOOLEAN
  /\ pc \in Waiting \union {"returned"}
  /\ result # "none" => pc = "returned"

\* How far the search for the node of this pass has got.
SearchInv ==
  /\ pc # "dirinfo" => other = 1 /\ allFound
  /\ ~allFound => node \in Publishers
  /\ allFound => \A o \in Nodes : o < other => Found(o)

\* What this pass has found of the nodes before it is still so.
PassInv ==
  /\ pc = "mintime" \/ result = "bootstrapped" => allBootstrapped
  /\ allBootstrapped /\ result \in {"none", "bootstrapped"} =>
       \A c \in Publishers : c < node \/ pc \notin {"logs", "dirinfo"} => Published(c)

IInv == Types /\ SearchInv /\ PassInv

-----------------------------------------------------------------------------

LEMMA Numbers ==
  /\ NumNodes \in Nat \ {0} /\ 1 \in Nodes /\ NumNodes \in Nodes
  /\ \A n \in Nodes : n \in Nat /\ 1 <= n /\ n <= NumNodes /\ (n < NumNodes => n + 1 \in Nodes)
  /\ Publishers \subseteq Nodes
  /\ \A c \in Nodes : DirFilesOf(c) \subseteq Nodes
  BY KindsAssumption DEF KindsAssumption, Nodes, Publishers, ConsensusMembers, Bridges, DirFilesOf

\* A search that has gone through all nodes says whether this one is published.
LEMMA Searched ==
  ASSUME Types, allFound => \A o \in Nodes : o < other => Found(o), allFound, other = NumNodes
  PROVE  Found(other) /\ DirFilesOf(node) # {} <=> Published(node)
  <1>1. \A o \in Nodes : o < other \/ o = other
    BY Numbers DEF Types
  <1>2. Found(other) => \A o \in Nodes : Found(o)
    BY <1>1
  <1>3. DirFilesOf(node) \subseteq Nodes /\ other \in Nodes
    BY Numbers DEF Types
  <1> QED BY <1>2, <1>3 DEF Found, Published

\* The files of the tors only gain entries.
LEMMA Grows ==
  ASSUME NEW c \in Nodes, cached[c] \subseteq cached'[c]
  PROVE  Published(c) => Published(c)'
  BY DEF Published, DirFilesOf

LEMMA TorStep ==
  ASSUME IInv, Tor
  PROVE  IInv'
  <1>1. UNCHANGED <<other, allFound, recent, times, pc, node, allBootstrapped, result>>
    BY DEF Tor, Download, search
  <1>2. cached' \in [Nodes -> SUBSET Nodes] /\ \A c \in Nodes : cached[c] \subseteq cached'[c]
    BY DEF Tor, Download, search, IInv, Types
  <1>3. Types'
    BY <1>1, <1>2 DEF IInv, Types
  <1>4. SearchInv'
    <2>1. \A o : Found(o) => Found(o)'
      BY <1>1, <1>2 DEF IInv, Types, Found, DirFilesOf
    <2> QED BY <1>1, <2>1 DEF IInv, SearchInv
  <1>5. PassInv'
    <2>1. \A c \in Publishers : Published(c) => Published(c)'
      BY <1>2, Numbers, Grows
    <2> QED BY <1>1, <2>1 DEF IInv, PassInv
  <1> QED BY <1>3, <1>4, <1>5 DEF IInv

LEMMA SearchNextStep ==
  ASSUME IInv, SearchNext
  PROVE  IInv'
  <1>1. /\ node \in Publishers /\ other < NumNodes /\ pc = "dirinfo"
        /\ allFound' = (allFound /\ Found(other)) /\ other' = other + 1
        /\ UNCHANGED <<cached, pc, node, allBootstrapped, result>>
    BY DEF SearchNext
  <1>2. Types'
    BY <1>1, Numbers DEF IInv, Types
  <1>3. \A o : Found(o)' = Found(o)
    BY <1>1 DEF Found, DirFilesOf
  <1>4. SearchInv'
    <2>1. \A o \in Nodes : o < other + 1 => o < other \/ o = other
      BY Numbers DEF IInv, Types
    <2> QED BY <1>1, <1>3, <2>1 DEF IInv, SearchInv
  <1>5. \A c \in Publishers : Published(c)' = Published(c)
    BY <1>1 DEF Published, DirFilesOf
  <1>6. PassInv'
    BY <1>1, <1>5 DEF IInv, PassInv
  <1> QED BY <1>2, <1>4, <1>6 DEF IInv

LEMMA SearchLastStep ==
  ASSUME IInv, SearchLast
  PROVE  IInv'
  <1>1. /\ pc = "dirinfo" /\ other' = 1 /\ allFound' = TRUE
        /\ UNCHANGED <<cached, result>>
        /\ \/ node \notin Publishers /\ allBootstrapped' = allBootstrapped
           \/ /\ node \in Publishers /\ other = NumNodes
              /\ allBootstrapped' = (allBootstrapped /\ allFound /\ Found(other) /\ DirFilesOf(node) # {})
        /\ \/ node < NumNodes /\ node' = node + 1 /\ pc' = "logs"
           \/ ~(node < NumNodes) /\ node' = node /\ pc' = "clock"
    BY DEF SearchLast
  <1>2. Types'
    BY <1>1, Numbers DEF IInv, Types, Waiting
  <1>3. SearchInv'
    <2>1. \A o \in Nodes : ~(o < 1)
      BY Numbers
    <2> QED BY <1>1, <2>1 DEF SearchInv
  <1>4. \A c \in Publishers : Published(c)' = Published(c)
    BY <1>1 DEF Published, DirFilesOf
  <1>5. node \in Publishers /\ allBootstrapped' => Published(node)
    BY <1>1, Searched DEF IInv, SearchInv
  <1>6. result = "none"
    BY <1>1 DEF IInv, Types
  <1>7. ASSUME NEW c \in Publishers, allBootstrapped', c < node' \/ pc' \notin {"logs", "dirinfo"}
        PROVE  Published(c)'
    <2>1. c < node \/ c = node
      BY <1>1, <1>7, Numbers DEF IInv, Types
    <2>2. allBootstrapped
      BY <1>1, <1>7
    <2>3. c < node => Published(c)
      BY <1>6, <2>2 DEF IInv, PassInv
    <2> QED BY <1>4, <1>5, <1>7, <2>1, <2>3
  <1>8. PassInv'
    BY <1>1, <1>6, <1>7 DEF PassInv
  <1> QED BY <1>2, <1>3, <1>8 DEF IInv

WaitStep ==
  \/ Loop!PollLogs \/ Loop!ReadClock \/ Loop!AllBootstrapped \/ Loop!WaitMinTime
  \/ Loop!LimitReached \/ Loop!PrintTooSoon \/ Loop!PrintStatus \/ Loop!NoPrintDue
  \/ Loop!SleepAndCount

LEMMA WaitStepInv ==
  ASSUME IInv, UNCHANGED search, WaitStep
  PROVE  IInv'
  <1>1. UNCHANGED <<cached, other, allFound>>
    BY DEF search
  <1>2. /\ pc \in Waiting \ {"dirinfo"} /\ result = "none"
        /\ pc' \in Waiting \union {"returned"}
        /\ result' # "none" => pc' = "returned"
        /\ node' \in Nodes /\ allBootstrapped' \in BOOLEAN
    BY Numbers DEF IInv, Types, Waiting, WaitStep, Loop!PollLogs, Loop!ReadClock, Loop!AllBootstrapped,
       Loop!WaitMinTime, Loop!LimitReached, Loop!PrintTooSoon, Loop!PrintStatus, Loop!NoPrintDue,
       Loop!SleepAndCount, Loop!Return
  <1>3. Types'
    BY <1>1, <1>2 DEF IInv, Types
  <1>4. SearchInv'
    <2>1. other' = 1 /\ allFound' /\ \A o \in Nodes : ~(o < 1)
      BY <1>1, <1>2, Numbers DEF IInv, SearchInv
    <2> QED BY <2>1 DEF SearchInv
  <1>5. \A c \in Publishers : Published(c)' = Published(c)
    BY <1>1 DEF Published, DirFilesOf
  <1>6. PassInv'
    <2>1. \A c \in Publishers : ~(c < 1)
      BY Numbers
    <2>2. \/ node' = node /\ (allBootstrapped' => allBootstrapped)
             /\ (pc' \in {"logs", "dirinfo"} <=> pc \in {"logs", "dirinfo"})
             /\ (pc' = "mintime" \/ result' = "bootstrapped" => allBootstrapped')
          \/ node' = 1 /\ pc' = "logs" /\ result' = "none"
          \/ result' \notin {"none", "bootstrapped"} /\ pc' = "returned"
      BY DEF IInv, Types, PassInv, WaitStep, Loop!PollLogs, Loop!ReadClock, Loop!AllBootstrapped,
       Loop!WaitMinTime, Loop!LimitReached, Loop!PrintTooSoon, Loop!PrintStatus, Loop!NoPrintDue,
       Loop!SleepAndCount, Loop!Return
    <2> QED BY <1>2, <1>5, <2>1, <2>2 DEF IInv, PassInv
  <1> QED BY <1>3, <1>4, <1>6 DEF IInv

LEMMA InvStep == IInv /\ [Next]_vars => IInv'
  <1> SUFFICES ASSUME IInv, [Next]_vars
               PROVE  IInv'
    OBVIOUS
  <1>1. CASE UNCHANGED vars
    BY <1>1 DEF vars, search, IInv, Types, SearchInv, PassInv, Found, Published, DirFilesOf
  <1>2. CASE Next
    BY <1>2, TorStep, SearchNextStep, SearchLastStep, WaitStepInv DEF Next, Wait, WaitStep
  <1> QED BY <1>1, <1>2

LEMMA InitInv == Init => IInv
  <1> SUFFICES ASSUME Init
               PROVE  IInv
    OBVIOUS
  <1>1. /\ cached = [c \in Nodes |-> {}] /\ other = 1 /\ allFound = TRUE
        /\ pc = "logs" /\ node = 1 /\ allBootstrapped = TRUE /\ result = "none"
    BY DEF Init, Loop!Init
  <1>2. \A c \in Nodes : ~(c < 1)
    BY Numbers
  <1> QED BY <1>1, <1>2, Numbers DEF IInv, Types, Waiting, SearchInv, PassInv

LEMMA Invariance == Spec => []IInv
  BY InitInv, InvStep, PTL DEF Spec

\* True is returned only when every publisher is in the files of all nodes that are
\* searched, for every network and every clock, whether tors restart or not.
THEOREM PublishedAtSuccess == Spec => []SuccessMeansPublished
  <1>1. IInv => SuccessMeansPublished
    BY DEF IInv, Types, PassInv, SuccessMeansPublished
  <1> QED BY <1>1, Invariance, PTL

-----------------------------------------------------------------------------
(* The refinement: what WaitForBootstrap sees of each step.                *)

\* The loop is mapped to itself until a search has failed.
WPc == IF ~Lost THEN pc ELSE IF node < NumNodes THEN "logs" ELSE "clock"
WNode == IF Lost /\ node < NumNodes THEN node + 1 ELSE node
WAll == allBootstrapped /\ ~Lost

LEMMA StutterStep ==
  ASSUME UNCHANGED <<published, notice, info, recent, times, WPc, WNode, WAll, result>>
  PROVE  UNCHANGED W!vars
  BY DEF WPc, WNode, WAll, recent, times, W!vars, W!env, W!recent, W!times

LEMMA TorRefines ==
  ASSUME IInv, Tor
  PROVE  W!Next \/ UNCHANGED W!vars
  <1>1. UNCHANGED <<allFound, recent, times, pc, node, allBootstrapped, result>>
    BY DEF Tor, Download, search
  <1>2. UNCHANGED <<WPc, WNode, WAll>>
    BY <1>1 DEF WPc, WNode, WAll, Lost
  <1>3. ASSUME NEW c \in Nodes, NEW o \in Nodes, Download(c, o)
        PROVE  W!Next \/ UNCHANGED W!vars
    <2>1. /\ c \in Publishers /\ notice[c] # "none" /\ UNCHANGED <<notice, info>>
          /\ \A d \in Nodes \ {c} : cached'[d] = cached[d]
          /\ cached[c] \subseteq cached'[c]
      BY <1>3 DEF Download, logs, IInv, Types
    <2>2. \A d \in Nodes \ {c} : Published(d)' = Published(d)
      BY <2>1 DEF Published, DirFilesOf
    <2>3. Published(c) => Published(c)'
      BY <2>1, Grows
    <2>4. CASE Published(c) <=> Published(c)'
      <3>1. published' = published
        BY <2>2, <2>4 DEF published
      <3> QED BY <1>1, <1>2, <2>1, <3>1, StutterStep
    <2>5. CASE ~Published(c) /\ Published(c)'
      <3>1. ~published[c] /\ published' = [published EXCEPT ![c] = TRUE]
        BY <2>1, <2>2, <2>5 DEF published
      <3>2. W!PublishDesc(c)
        BY <2>1, <3>1 DEF W!PublishDesc
      <3>3. W!Tor
        BY <1>1, <1>2, <3>2 DEF W!Tor, W!Nodes, Nodes, W!recent, W!times, recent, times, WPc, WNode, WAll
      <3> QED BY <3>3 DEF W!Next
    <2> QED BY <2>3, <2>4, <2>5
  <1>4. ASSUME UNCHANGED search, NEW c \in Nodes,
               Loop!OpenLogs(c) \/ Loop!LogDone(c) \/ Loop!LogOnionDesc(c) \/ Loop!LogRestart(c)
        PROVE  W!Next
    <2>1. W!OpenLogs(c) \/ W!LogDone(c) \/ W!LogOnionDesc(c) \/ W!LogRestart(c)
      BY <1>4 DEF Loop!OpenLogs, Loop!LogDone, Loop!LogOnionDesc, Loop!LogRestart,
                  W!OpenLogs, W!LogDone, W!LogOnionDesc, W!LogRestart
    <2>2. W!Tor
      BY <1>1, <1>2, <2>1 DEF W!Tor, W!Nodes, Nodes, W!recent, W!times, recent, times, WPc, WNode, WAll
    <2> QED BY <2>2 DEF W!Next
  <1> QED BY <1>3, <1>4 DEF Tor

\* A poll of WaitForBootstrap, in the terms of the mapping.
LEMMA PollStep ==
  ASSUME pc = "dirinfo", ~Lost, UNCHANGED <<published, notice, info, recent, times, result>>,
         WAll' = (allBootstrapped /\ (node \in Publishers => published[node])),
         \/ node < NumNodes /\ WNode' = node + 1 /\ WPc' = "logs"
         \/ ~(node < NumNodes) /\ WNode' = node /\ WPc' = "clock"
  PROVE  W!Next
  <1>1. W!PollDirInfo
    BY DEF W!PollDirInfo, W!env, W!recent, W!times, recent, times, WPc, WNode, WAll
  <1> QED BY <1>1 DEF W!Next, W!Loop

LEMMA SearchNextRefines ==
  ASSUME IInv, SearchNext
  PROVE  W!Next \/ UNCHANGED W!vars
  <1>1. /\ node \in Publishers /\ other < NumNodes /\ pc = "dirinfo"
        /\ allFound' = (allFound /\ Found(other))
        /\ UNCHANGED <<cached, notice, info, recent, times, pc, node, allBootstrapped, result>>
    BY DEF SearchNext, logs
  <1>2. published' = published
    BY <1>1 DEF published, Published, DirFilesOf
  <1>3. CASE allFound /\ ~Found(other)
    <2>1. ~Lost /\ Lost'
      BY <1>1, <1>3 DEF Lost
    <2>2. ~published[node]
      BY <1>1, <1>3, Numbers DEF Found, published, Published
    <2>3. WAll' = (allBootstrapped /\ (node \in Publishers => published[node]))
      BY <1>1, <2>1, <2>2 DEF WAll
    <2>4. \/ node < NumNodes /\ WNode' = node + 1 /\ WPc' = "logs"
          \/ ~(node < NumNodes) /\ WNode' = node /\ WPc' = "clock"
      BY <1>1, <2>1 DEF WNode, WPc
    <2> QED BY <1>1, <1>2, <2>1, <2>3, <2>4, PollStep
  <1>4. CASE ~allFound \/ Found(other)
    <2>1. allFound' = allFound
      BY <1>1, <1>4 DEF IInv, Types
    <2>2. UNCHANGED <<WPc, WNode, WAll>>
      BY <1>1, <2>1 DEF WPc, WNode, WAll, Lost
    <2> QED BY <1>1, <1>2, <2>2, StutterStep
  <1> QED BY <1>3, <1>4

LEMMA SearchLastRefines ==
  ASSUME IInv, SearchLast
  PROVE  W!Next \/ UNCHANGED W!vars
  <1>1. /\ pc = "dirinfo" /\ allFound' = TRUE
        /\ UNCHANGED <<cached, notice, info, recent, times, result>>
        /\ \/ node \notin Publishers /\ allBootstrapped' = allBootstrapped
           \/ /\ node \in Publishers /\ other = NumNodes
              /\ allBootstrapped' = (allBootstrapped /\ allFound /\ Found(other) /\ DirFilesOf(node) # {})
        /\ \/ node < NumNodes /\ node' = node + 1 /\ pc' = "logs"
           \/ ~(node < NumNodes) /\ node' = node /\ pc' = "clock"
    BY DEF SearchLast, logs
  <1>2. published' = published
    BY <1>1 DEF published, Published, DirFilesOf
  <1>3. ~Lost' /\ WPc' = pc' /\ WNode' = node' /\ WAll' = allBootstrapped'
    <2>1. ~Lost' /\ allBootstrapped' \in BOOLEAN
      BY <1>1, SearchLastStep DEF Lost, IInv, Types
    <2> QED BY <2>1 DEF WPc, WNode, WAll
  <1>4. CASE allFound
    <2>1. ~Lost
      BY <1>4 DEF Lost
    <2>2. node \in Publishers => (published[node] <=> Published(node))
      BY Numbers DEF published
    <2>3. allBootstrapped' = (allBootstrapped /\ (node \in Publishers => published[node]))
      <3>1. CASE node \notin Publishers
        BY <1>1, <3>1 DEF IInv, Types
      <3>2. CASE node \in Publishers
        <4>1. Found(other) /\ DirFilesOf(node) # {} <=> published[node]
          BY <1>1, <1>4, <2>2, <3>2, Searched DEF IInv, SearchInv
        <4> QED BY <1>1, <1>4, <3>2, <4>1
      <3> QED BY <3>1, <3>2
    <2> QED BY <1>1, <1>2, <1>3, <2>1, <2>3, PollStep
  <1>5. CASE ~allFound
    <2>1. Lost /\ node \in Publishers
      BY <1>1, <1>5 DEF Lost, IInv, SearchInv
    <2>2. WAll' = FALSE /\ WAll = FALSE
      BY <1>1, <1>3, <1>5, <2>1 DEF WAll
    <2>3. WPc' = WPc /\ WNode' = WNode
      BY <1>1, <1>3, <2>1 DEF WPc, WNode
    <2> QED BY <1>1, <1>2, <2>2, <2>3, StutterStep
  <1> QED BY <1>4, <1>5 DEF IInv, Types

\* Outside the search the loop is the loop of WaitForBootstrap.
LEMMA WaitRefines ==
  ASSUME IInv, IInv', UNCHANGED search, WaitStep
  PROVE  W!Next
  <1>1. pc # "dirinfo" /\ allFound /\ allFound'
    BY DEF search, IInv, SearchInv, WaitStep, Loop!PollLogs, Loop!ReadClock, Loop!AllBootstrapped,
       Loop!WaitMinTime, Loop!LimitReached, Loop!PrintTooSoon, Loop!PrintStatus, Loop!NoPrintDue,
       Loop!SleepAndCount
  <1>2. ~Lost /\ ~Lost'
    BY <1>1 DEF Lost
  <1>3. WPc = pc /\ WPc' = pc' /\ WNode = node /\ WNode' = node'
        /\ WAll = allBootstrapped /\ WAll' = allBootstrapped'
    BY <1>2 DEF WPc, WNode, WAll, IInv, Types
  <1>4. CASE Loop!PollLogs
    <2> DEFINE n == Loop!UpdateLast(recentNotice[node], notice[node])
               i == Loop!UpdateLast(recentInfo[node], info[node])
               missing == n = "none" \/ (n = "done" /\ node \in OnionServices /\ i = "none")
    <2>1. /\ pc = "logs"
          /\ recentNotice' = [recentNotice EXCEPT ![node] = n]
          /\ recentInfo' = [recentInfo EXCEPT ![node] = i]
          /\ \/ missing /\ pc' = "returned" /\ result' = "exception" /\ allBootstrapped' = allBootstrapped
             \/ /\ ~missing /\ pc' = "dirinfo" /\ result' = result
                /\ allBootstrapped' = (/\ allBootstrapped
                                       /\ n = "done"
                                       /\ n = "done" /\ node \in OnionServices => i = "published")
          /\ UNCHANGED <<published, notice, info, times, node>>
      BY <1>4 DEF Loop!PollLogs, Loop!Return, Loop!env, Loop!times, times
    <2>2. /\ W!UpdateLast(recentNotice[WNode], notice[WNode]) = n
          /\ W!UpdateLast(recentInfo[WNode], info[WNode]) = i
      BY <1>3 DEF Loop!UpdateLast, W!UpdateLast
    <2> HIDE DEF n, i
    <2>3. /\ WPc = "logs"
          /\ recentNotice' = [recentNotice EXCEPT ![WNode] = n]
          /\ recentInfo' = [recentInfo EXCEPT ![WNode] = i]
          /\ \/ /\ n = "none" \/ (n = "done" /\ WNode \in OnionServices /\ i = "none")
                /\ WPc' = "returned" /\ result' = "exception" /\ WAll' = WAll
             \/ /\ n # "none" /\ ~(n = "done" /\ WNode \in OnionServices /\ i = "none")
                /\ WPc' = "dirinfo" /\ result' = result
                /\ WAll' = (/\ WAll /\ n = "done"
                            /\ n = "done" /\ WNode \in OnionServices => i = "published")
          /\ UNCHANGED <<published, notice, info, times, WNode>>
      BY <1>3, <2>1
    <2>4. W!PollLogs
      BY <2>2, <2>3, Zenon DEF W!PollLogs, W!Return, W!env, W!times, times, WPc, WNode, WAll
    <2> QED BY <2>4 DEF W!Next, W!Loop
  <1>5. CASE Loop!ReadClock
    <2>1. W!ReadClock
      BY <1>3, <1>5 DEF WPc, WNode, WAll, Loop!ReadClock, W!ReadClock, Loop!After, W!After,
         Loop!MaxPasses, W!MaxPasses, Loop!MostChecks, W!MostChecks, Loop!ChecksPerPrint, W!ChecksPerPrint,
         Loop!env, W!env, Loop!recent, W!recent
    <2> QED BY <2>1 DEF W!Next, W!Loop
  <1>6. CASE Loop!AllBootstrapped
    <2>1. W!AllBootstrapped
      BY <1>3, <1>6 DEF WPc, WNode, WAll, Loop!AllBootstrapped, W!AllBootstrapped, Loop!After, W!After,
         Loop!env, W!env, Loop!recent, W!recent
    <2> QED BY <2>1 DEF W!Next, W!Loop
  <1>7. CASE Loop!WaitMinTime
    <2>1. W!WaitMinTime
      BY <1>3, <1>7 DEF WPc, WNode, WAll, Loop!WaitMinTime, W!WaitMinTime, Loop!After, W!After,
         Loop!Return, W!Return, Loop!env, W!env, Loop!recent, W!recent
    <2> QED BY <2>1 DEF W!Next, W!Loop
  <1>8. CASE Loop!LimitReached \/ Loop!PrintTooSoon
    <2>1. W!LimitReached \/ W!PrintTooSoon
      BY <1>3, <1>8 DEF WPc, WNode, WAll, Loop!LimitReached, W!LimitReached, Loop!PrintTooSoon, W!PrintTooSoon,
         Loop!limit, W!limit, Loop!ChecksPerPrint, W!ChecksPerPrint,
         Loop!Return, W!Return, Loop!env, W!env, Loop!recent, W!recent, Loop!times, W!times
    <2> QED BY <2>1 DEF W!Next, W!Loop
  <1>9. CASE Loop!PrintStatus \/ Loop!NoPrintDue
    <2>1. W!PrintStatus \/ W!NoPrintDue
      BY <1>3, <1>9 DEF WPc, WNode, WAll, Loop!PrintStatus, W!PrintStatus, Loop!NoPrintDue, W!NoPrintDue,
         Loop!limit, W!limit, Loop!ChecksPerPrint, W!ChecksPerPrint,
         Loop!env, W!env, Loop!recent, W!recent, Loop!times, W!times
    <2> QED BY <2>1 DEF W!Next, W!Loop
  <1>10. CASE Loop!SleepAndCount
    <2>1. W!SleepAndCount
      BY <1>3, <1>10 DEF WPc, WNode, WAll, Loop!SleepAndCount, W!SleepAndCount, Loop!After, W!After,
         Loop!ChecksPerPrint, W!ChecksPerPrint, Loop!Return, W!Return,
         Loop!env, W!env, Loop!recent, W!recent
    <2> QED BY <2>1 DEF W!Next, W!Loop
  <1> QED BY <1>4, <1>5, <1>6, <1>7, <1>8, <1>9, <1>10 DEF WaitStep

LEMMA InitRefines == Init => W!Init
  <1> SUFFICES ASSUME Init
               PROVE  W!Init
    OBVIOUS
  <1>1. cached = [c \in Nodes |-> {}] /\ pc = "logs" /\ Loop!Init
    BY DEF Init, Loop!Init
  <1>2. ~Lost
    BY <1>1 DEF Lost
  <1>3. published = [c \in Nodes |-> FALSE]
    <2>1. \A c \in Nodes : ~Published(c)
      BY <1>1 DEF Published
    <2> QED BY <2>1 DEF published
  <1> QED BY <1>1, <1>2, <1>3 DEF W!Init, Loop!Init, W!Nodes, Loop!Nodes, Nodes

LEMMA NextRefines ==
  ASSUME IInv, IInv', [Next]_vars
  PROVE  W!Next \/ UNCHANGED W!vars
  <1>1. CASE UNCHANGED vars
    <2>1. UNCHANGED <<cached, notice, info, recent, times, pc, node, allFound, allBootstrapped, result>>
      BY <1>1 DEF vars, search, logs
    <2>2. UNCHANGED <<published, WPc, WNode, WAll>>
      BY <2>1 DEF published, Published, DirFilesOf, WPc, WNode, WAll, Lost
    <2> QED BY <2>1, <2>2, StutterStep
  <1>2. CASE Wait
    BY <1>2, SearchNextRefines, SearchLastRefines, WaitRefines DEF Wait, WaitStep
  <1> QED BY <1>1, <1>2, TorRefines DEF Next

\* The search from node to node, while the files change, gives the answers of
\* WaitForBootstrap, which looks into all of them at once: the safety part of
\* ImplementsWait, for every network.
THEOREM SearchRefines == Spec => W!Spec
  <1>1. IInv /\ IInv' /\ [Next]_vars => [W!Next]_(W!vars)
    BY NextRefines
  <1> QED BY <1>1, InitRefines, Invariance, PTL DEF Spec, W!Spec

-----------------------------------------------------------------------------
(* What the refinement is for: the promises of WaitForBootstrap, with a    *)
(* search that takes time.                                                 *)

\* WaitForBootstrap once more, with its theorems.
P == INSTANCE WaitForBootstrapProofs WITH
       pc <- IF ~Lost THEN pc ELSE IF node < NumNodes THEN "logs" ELSE "clock",
       node <- IF Lost /\ node < NumNodes THEN node + 1 ELSE node,
       allBootstrapped <- allBootstrapped /\ ~Lost

LEMMA WaitTheorems ==
  /\ P!Spec => []P!SuccessMeansReady
  /\ P!Spec => []P!PassesBounded
  /\ P!Spec => []P!MinimumRunTime
  /\ P!Spec => []P!PromptHostGivesUpOnlyAtTheLimit
  <1>1. P!NodesAssumption /\ P!TimesAssumption
    BY LoopAssumption DEF Loop!NodesAssumption, Loop!TimesAssumption, P!NodesAssumption, P!TimesAssumption,
           Loop!Nodes, P!Nodes, Loop!ChecksPerPrint, P!ChecksPerPrint
  <1>2. P!Spec => []P!SuccessMeansReady
    BY <1>1, P!SuccessSound
  <1>3. P!Spec => []P!PassesBounded
    BY <1>1, P!BoundedUnderAnyClock
  <1>4. P!Spec => []P!MinimumRunTime
    BY <1>1, P!MinimumRunTimeKept
  <1>5. P!Spec => []P!PromptHostGivesUpOnlyAtTheLimit
    BY <1>1, P!PromptHostPatient
  <1> QED BY <1>2, <1>3, <1>4, <1>5

LEMMA SameWait == W!Spec => P!Spec
  <1>1. W!Init => P!Init
    BY DEF W!Init, P!Init, W!Nodes, P!Nodes
  <1>2. [W!Next]_(W!vars) => [P!Next]_(P!vars)
    BY DEF W!Next, P!Next, W!vars, P!vars, W!Nodes, P!Nodes, W!Tor, P!Tor, W!Loop, P!Loop,
           W!recent, P!recent, W!times, P!times, W!env, P!env, W!OpenLogs, P!OpenLogs,
           W!LogDone, P!LogDone, W!LogOnionDesc, P!LogOnionDesc, W!PublishDesc, P!PublishDesc,
           W!LogRestart, P!LogRestart, W!After, P!After, W!Return, P!Return,
           W!UpdateLast, P!UpdateLast, W!PollLogs, P!PollLogs, W!PollDirInfo, P!PollDirInfo,
           W!ReadClock, P!ReadClock, W!AllBootstrapped, P!AllBootstrapped,
           W!WaitMinTime, P!WaitMinTime, W!LimitReached, P!LimitReached,
           W!PrintTooSoon, P!PrintTooSoon, W!PrintStatus, P!PrintStatus,
           W!NoPrintDue, P!NoPrintDue, W!SleepAndCount, P!SleepAndCount, W!limit, P!limit,
           W!MaxPasses, P!MaxPasses, W!MostChecks, P!MostChecks,
           W!ChecksPerPrint, P!ChecksPerPrint
  <1> QED BY <1>1, <1>2, PTL DEF W!Spec, P!Spec

\* True is returned only for a network whose nodes are all ready and not before the
\* minimum run time, each answer in a bounded number of passes, and no prompt host
\* gives up before the limit, although the search of each pass is overtaken by
\* downloads.
THEOREM SearchKeepsPromises ==
  Spec => [](/\ W!SuccessMeansReady /\ W!PassesBounded
             /\ W!MinimumRunTime /\ W!PromptHostGivesUpOnlyAtTheLimit)
  <1>1. /\ P!SuccessMeansReady <=> W!SuccessMeansReady
        /\ P!PassesBounded <=> W!PassesBounded
        /\ P!MinimumRunTime <=> W!MinimumRunTime
        /\ P!PromptHostGivesUpOnlyAtTheLimit <=> W!PromptHostGivesUpOnlyAtTheLimit
    BY DEF P!SuccessMeansReady, W!SuccessMeansReady, P!Ready, W!Ready, P!Nodes, W!Nodes,
           P!limit, W!limit,
           P!PassesBounded, W!PassesBounded, P!MaxPasses, W!MaxPasses, P!MostChecks, W!MostChecks,
           P!ChecksPerPrint, W!ChecksPerPrint, P!MinimumRunTime, W!MinimumRunTime,
           P!PromptHostGivesUpOnlyAtTheLimit, W!PromptHostGivesUpOnlyAtTheLimit,
           P!PromptHost, W!PromptHost
  <1> QED BY <1>1, SearchRefines, SameWait, WaitTheorems, PTL

\* The README's promise that the bridge descriptors are at all bridge clients holds
\* for the networks that are launched in one phase.
THEOREM BridgesReachedInOnePhase ==
  ASSUME \A n \in Nodes : LaunchPhase[n] <= DfltLaunchPhase
  PROVE  Spec => []BridgesReachBridgeClients
  <1>1. SuccessMeansPublished => BridgesReachBridgeClients
    BY DEF SuccessMeansPublished, BridgesReachBridgeClients, Published, DirFilesOf, Publishers, Bridges
  <1> QED BY <1>1, PublishedAtSuccess, PTL
=============================================================================
