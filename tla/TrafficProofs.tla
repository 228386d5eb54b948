---------------------------- MODULE TrafficProofs ----------------------------
(***************************************************************************)
(* Proofs about Traffic, for every number of clients and pieces, all sizes *)
(* of the send buffers, in all modes, whether the tors fail or not. Each   *)
(* handler concerns one client; what is said of the others it keeps.       *)
(***************************************************************************)
EXTENDS Traffic, FiniteSetTheorems, TLAPS

Statuses == {"unknown", "not done", "success", "failure"}

SuiteTypes ==
  /\ status \in [Tests -> Statuses]
  /\ notDone \in Nat /\ failures \in Nat

ClientTypes ==
  /\ mode \in Modes /\ mode.echo \in BOOLEAN
  /\ state \in [Clients -> {"connecting", "proxy", "connected", "closed"}]
  /\ closer \in [Clients -> BOOLEAN]
  /\ stream \in [Clients -> {"none", "up", "asked", "granted", "refused", "rejected", "eof"}]
  /\ server \in [Clients -> {"none", "waiting", "open", "closed"}]
  /\ faulty \subseteq Clients /\ bad \subseteq Clients

PieceTypes ==
  /\ todo \in [Clients -> Nat] /\ buf \in [Clients -> Nat] /\ arrived \in [Clients -> Nat]
  /\ echo \in [Clients -> Nat] /\ back \in [Clients -> Nat] /\ checked \in [Clients -> Nat]

Types == SuiteTypes /\ ClientTypes /\ PieceTypes

LoopTypes ==
  /\ pc \in {"select", "handle", "returned"}
  /\ ready \subseteq [phase : Phases, who : Clients]
  /\ result \in {"none", "true", "false"}

\* The pieces of a client, and its send buffer.
Kept(c) ==
  /\ todo[c] + buf[c] + arrived[c] + echo[c] + back[c] + checked[c] = Pieces
  /\ buf[c] <= Cap[c]
  /\ state[c] = "connecting" => buf[c] = 0

\* How far the connection of a client has got on both sides.
Linked(c) ==
  /\ stream[c] \in {"none", "up", "asked"} => server[c] = "none"
  /\ stream[c] = "asked" => state[c] = "proxy"
  /\ stream[c] = "rejected" => state[c] \in {"proxy", "closed"} /\ status[<<"send", c>>] = "not done"
  /\ state[c] \in {"connecting", "proxy"} => status[<<"send", c>>] = "not done"

\* What the tests of a client say.
Told(c) ==
  /\ status[<<"check", c>>] = "unknown" <=> ~mode.echo /\ server[c] \in {"none", "waiting"}
  /\ status[<<"send", c>>] # "unknown"
  /\ status[<<"send", c>>] = "success" => todo[c] = 0
  /\ status[<<"check", c>>] = "success" => checked[c] = Pieces /\ c \notin bad

\* What a client's event still finds as select() has seen it.
Fresh(phase, c) ==
  /\ phase = 1 => server[c] = "waiting"
  /\ phase = 4 => \/ state[c] \in {"connecting", "closed"}
                  \/ state[c] = "connected" /\ buf[c] < Cap[c]

ResultInv ==
  /\ result # "none" => pc = "returned"
  /\ TrueMeansVerified

IInv ==
  /\ Types /\ LoopTypes /\ CountsAgree /\ ResultInv
  /\ \A c \in Clients : Kept(c) /\ Linked(c) /\ Told(c)
  /\ \A e \in ready : Fresh(e.phase, e.who)

-----------------------------------------------------------------------------
(* The test suite.                                                         *)

LEMMA TestsFinite == IsFiniteSet(Tests)
  <1>1. IsFiniteSet(({} \union {"send"}) \union {"check"})
    BY FS_EmptySet, FS_AddElement, Zenon
  <1>2. IsFiniteSet({"send", "check"})
    <2>1. {"send", "check"} = ({} \union {"send"}) \union {"check"}
      OBVIOUS
    <2> QED BY <1>1, <2>1, Zenon
  <1>3. IsFiniteSet(Clients)
    BY TrafficAssumption DEF TrafficAssumption
  <1>4. IsFiniteSet({"send", "check"} \X Clients)
    BY <1>2, <1>3, FS_Product, Zenon
  <1> QED BY <1>4, Zenon DEF Tests

\* The names of the tests.
LEMMA Names ==
  ASSUME NEW c \in Clients
  PROVE  /\ <<"send", c>> \in Tests /\ <<"check", c>> \in Tests
         /\ <<"send", c>> # <<"check", c>>
         /\ \A d \in Clients \ {c}, k \in {"send", "check"} :
              /\ <<k, d>> \in Tests
              /\ <<k, d>> # <<"send", c>> /\ <<k, d>> # <<"check", c>>
  BY DEF Tests

With(s) == {t \in Tests : status[t] = s}

\* Which tests are of a status after one test has got another.
LEMMA OneTest ==
  ASSUME SuiteTypes, NEW t \in Tests, NEW o \in Statuses, NEW s \in Statuses,
         status' = [status EXCEPT ![t] = o]
  PROVE  /\ With(s)' = IF s = o THEN With(s) \union {t} ELSE With(s) \ {t}
         /\ IsFiniteSet(With(s)) /\ Cardinality(With(s)) \in Nat
         /\ Cardinality(With(s)') =
              Cardinality(With(s)) + (IF s = o THEN (IF t \in With(s) THEN 0 ELSE 1)
                                               ELSE (IF t \in With(s) THEN -1 ELSE 0))
  <1>1. With(s)' = IF s = o THEN With(s) \union {t} ELSE With(s) \ {t}
    BY DEF With, SuiteTypes
  <1>2. IsFiniteSet(With(s))
    BY TestsFinite, FS_Subset DEF With
  <1>3. Cardinality(With(s)) \in Nat
    BY <1>2, FS_CardinalityType
  <1>4. /\ Cardinality(With(s) \union {t}) = IF t \in With(s) THEN Cardinality(With(s)) ELSE Cardinality(With(s)) + 1
        /\ Cardinality(With(s) \ {t}) = IF t \in With(s) THEN Cardinality(With(s)) - 1 ELSE Cardinality(With(s))
    BY <1>2, FS_AddElement, FS_RemoveElement
  <1> QED BY <1>1, <1>2, <1>3, <1>4

Counted == notDone = Cardinality(With("not done")) /\ failures = Cardinality(With("failure"))

LEMMA CountedAgree == CountsAgree <=> Counted
  BY DEF CountsAgree, Counted, With

\* A test that is decided is counted, once.
LEMMA Decided ==
  ASSUME SuiteTypes, CountsAgree, NEW t \in Tests, NEW o \in {"success", "failure"}, Decide(t, o)
  PROVE  /\ SuiteTypes' /\ CountsAgree'
         /\ \A u \in Tests : u # t => status'[u] = status[u]
         /\ status'[t] = IF status[t] = "not done" THEN o ELSE status[t]
  <1>1. CASE status[t] # "not done" /\ UNCHANGED suite
    BY <1>1 DEF suite, SuiteTypes, CountsAgree
  <1>2. CASE status[t] = "not done" /\ status' = [status EXCEPT ![t] = o]
             /\ notDone' = notDone - 1 /\ failures' = failures + IF o = "failure" THEN 1 ELSE 0
    <2>1. SuiteTypes /\ o \in Statuses /\ "not done" \in Statuses /\ "failure" \in Statuses
      BY DEF Statuses
    <2>2. t \in With("not done") /\ t \notin With("failure")
      BY <1>2 DEF With
    <2>3. Counted
      BY CountedAgree
    <2>4. /\ Cardinality(With("not done")) \in Nat
          /\ Cardinality(With("not done")') = Cardinality(With("not done")) - 1
      BY <1>2, <2>1, <2>2, OneTest
    <2>5. /\ Cardinality(With("failure")) \in Nat
          /\ Cardinality(With("failure")') = Cardinality(With("failure")) + IF o = "failure" THEN 1 ELSE 0
      BY <1>2, <2>1, <2>2, OneTest
    <2>6. Cardinality(With("not done")') \in Nat
      <3>1. IsFiniteSet(With("not done")')
        BY TestsFinite, FS_Subset DEF With
      <3> QED BY <3>1, FS_CardinalityType
    <2>7. Counted'
      BY <1>2, <2>3, <2>4, <2>5 DEF Counted
    <2>8. notDone' \in Nat /\ failures' \in Nat
      <3>1. notDone' = Cardinality(With("not done")') /\ failures' = Cardinality(With("failure")')
        BY <2>7 DEF Counted
      <3>2. Cardinality(With("failure")') \in Nat
        BY <2>5
      <3> QED BY <2>6, <3>1, <3>2, Zenon
    <2>9. status' \in [Tests -> Statuses]
      BY <1>2, <2>1 DEF SuiteTypes
    <2>10. CountsAgree'
      BY <2>7, Zenon DEF CountsAgree, Counted, With
    <2> QED BY <1>2, <2>8, <2>9, <2>10 DEF SuiteTypes
  <1> QED BY <1>1, <1>2 DEF Decide

\* A test that is registered was unknown, and counts.
LEMMA Registered ==
  ASSUME SuiteTypes, CountsAgree, NEW t \in Tests, status[t] = "unknown", Register(t)
  PROVE  /\ SuiteTypes' /\ CountsAgree'
         /\ \A u \in Tests : u # t => status'[u] = status[u]
         /\ status'[t] = "not done"
  <1>1. SuiteTypes /\ "not done" \in Statuses /\ "failure" \in Statuses
    BY DEF Statuses
  <1>2. t \notin With("not done") /\ t \notin With("failure")
    BY DEF With
  <1>3. Counted
    BY CountedAgree
  <1>4. status' = [status EXCEPT ![t] = "not done"] /\ notDone' = notDone + 1 /\ failures' = failures
    BY DEF Register
  <1>5. Cardinality(With("not done")') = Cardinality(With("not done")) + 1
    BY <1>1, <1>2, <1>4, OneTest
  <1>6. Cardinality(With("failure")') = Cardinality(With("failure"))
    <2>1. With("failure")' = With("failure")
      BY <1>1, <1>2, <1>4 DEF With, SuiteTypes
    <2> QED BY <2>1
  <1>7. Counted'
    BY <1>3, <1>4, <1>5, <1>6 DEF Counted
  <1>8. CountsAgree'
    BY <1>7, Zenon DEF CountsAgree, Counted, With
  <1>9. notDone' \in Nat /\ failures' \in Nat /\ status' \in [Tests -> Statuses]
    <2>1. status \in [Tests -> Statuses] /\ "not done" \in Statuses /\ notDone \in Nat /\ failures \in Nat
      BY <1>1 DEF SuiteTypes
    <2>2. status' \in [Tests -> Statuses]
      BY <1>4, <2>1
    <2>3. notDone' \in Nat
      <3>1. notDone' = notDone + 1
        BY <1>4
      <3>2. notDone \in Nat
        BY <2>1
      <3> QED BY <3>1, <3>2
    <2>4. failures' \in Nat
      BY <1>4, <2>1, Zenon
    <2> QED BY <2>2, <2>3, <2>4
  <1>10. status'[t] = "not done" /\ \A u \in Tests : u # t => status'[u] = status[u]
    BY <1>1, <1>4 DEF SuiteTypes
  <1> QED BY <1>8, <1>9, <1>10 DEF SuiteTypes

\* The tests of all clients but c are as they were.
Others(c) == \A d \in Clients \ {c} : /\ status'[<<"send", d>>] = status[<<"send", d>>]
                                      /\ status'[<<"check", d>>] = status[<<"check", d>>]

LEMMA SuiteSame ==
  ASSUME SuiteTypes, CountsAgree, NEW c \in Clients, UNCHANGED suite
  PROVE  /\ SuiteTypes' /\ CountsAgree' /\ Others(c)
         /\ status'[<<"send", c>>] = status[<<"send", c>>]
         /\ status'[<<"check", c>>] = status[<<"check", c>>]
  BY DEF suite, SuiteTypes, CountsAgree, Others

LEMMA SendDecided ==
  ASSUME SuiteTypes, CountsAgree, NEW c \in Clients, Decide(<<"send", c>>, "success")
  PROVE  /\ SuiteTypes' /\ CountsAgree' /\ Others(c)
         /\ status'[<<"send", c>>] =
              IF status[<<"send", c>>] = "not done" THEN "success" ELSE status[<<"send", c>>]
         /\ status'[<<"check", c>>] = status[<<"check", c>>]
  BY Names, Decided DEF Others

LEMMA CheckDecided ==
  ASSUME SuiteTypes, CountsAgree, NEW c \in Clients, NEW o \in {"success", "failure"},
         Decide(<<"check", c>>, o)
  PROVE  /\ SuiteTypes' /\ CountsAgree' /\ Others(c)
         /\ status'[<<"send", c>>] = status[<<"send", c>>]
         /\ status'[<<"check", c>>] =
              IF status[<<"check", c>>] = "not done" THEN o ELSE status[<<"check", c>>]
  BY Names, Decided DEF Others

LEMMA CheckRegistered ==
  ASSUME SuiteTypes, CountsAgree, NEW c \in Clients, status[<<"check", c>>] = "unknown",
         Register(<<"check", c>>)
  PROVE  /\ SuiteTypes' /\ CountsAgree' /\ Others(c)
         /\ status'[<<"send", c>>] = status[<<"send", c>>]
         /\ status'[<<"check", c>>] = "not done"
  BY Names, Registered DEF Others

-----------------------------------------------------------------------------
(* The handlers, and what the tors do: each concerns one client.           *)

Good(c) == Kept(c) /\ Linked(c) /\ Told(c)

Only(c) ==
  /\ mode' = mode
  /\ \A d \in Clients \ {c} :
       /\ state'[d] = state[d] /\ stream'[d] = stream[d] /\ server'[d] = server[d]
       /\ todo'[d] = todo[d] /\ buf'[d] = buf[d] /\ arrived'[d] = arrived[d]
       /\ echo'[d] = echo[d] /\ back'[d] = back[d] /\ checked'[d] = checked[d]
       /\ closer'[d] = closer[d]
       /\ d \in bad' <=> d \in bad
       /\ d \in faulty' <=> d \in faulty

\* What a step that concerns client c comes to.
Keeps(c) == ClientTypes' /\ PieceTypes' /\ Good(c)' /\ Only(c)

LEMMA Sizes ==
  ASSUME NEW c \in Clients
  PROVE  Pieces \in Nat /\ Cap[c] \in Nat \ {0}
  BY TrafficAssumption DEF TrafficAssumption

LEMMA Numbers ==
  ASSUME PieceTypes, NEW c \in Clients
  PROVE  /\ todo[c] \in Nat /\ buf[c] \in Nat /\ arrived[c] \in Nat
         /\ echo[c] \in Nat /\ back[c] \in Nat /\ checked[c] \in Nat
  BY DEF PieceTypes

LEMMA TorKeeps ==
  ASSUME Types, NEW c \in Clients, Good(c),
         AcceptClient(c) \/ GrantStream(c) \/ Carry(c) \/ EndStream(c) \/ BreakStream(c) \/ Corrupt(c),
         UNCHANGED <<client, echo, back, suite>>
  PROVE  Keeps(c)
  <1> USE DEF Types, Set, client, suite
  <1>1. ClientTypes' /\ Only(c)
    BY DEF ClientTypes, PieceTypes, Only, AcceptClient, GrantStream, Carry, EndStream, BreakStream, Corrupt
  <1>2. PieceTypes' /\ Kept(c)'
    <2>1. CASE Carry(c)
      <3>1. PieceTypes
        OBVIOUS
      <3>2. /\ buf'[c] = buf[c] - 1 /\ arrived'[c] = arrived[c] + 1
            /\ todo' = todo /\ echo' = echo /\ back' = back /\ checked' = checked /\ state' = state
        BY <2>1, <3>1 DEF PieceTypes, Carry
      <3>3. buf[c] - 1 \in Nat /\ arrived[c] + 1 \in Nat
        BY <2>1, <3>1, Numbers DEF Carry
      <3>4. PieceTypes'
        BY <2>1, <3>1, <3>2, <3>3 DEF PieceTypes, Carry
      <3>5. Kept(c)
        BY DEF Good
      <3>6. Kept(c)'
        BY <3>1, <3>2, <3>3, <3>5, Numbers, Sizes DEF Kept
      <3> QED BY <3>4, <3>6
    <2>2. CASE UNCHANGED <<buf, arrived>>
      BY <2>2 DEF PieceTypes, Kept, Good
    <2> QED BY <2>1, <2>2 DEF AcceptClient, GrantStream, Carry, EndStream, BreakStream, Corrupt
  <1>3. Linked(c)'
    BY DEF ClientTypes, Good, Linked, AcceptClient, GrantStream, Carry, EndStream, BreakStream, Corrupt
  <1>4. Told(c)'
    <2>1. CASE Corrupt(c)
      BY <2>1 DEF ClientTypes, PieceTypes, Good, Kept, Told, Corrupt
    <2>2. CASE ~Corrupt(c)
      BY <2>2 DEF ClientTypes, Good, Linked, Told, AcceptClient, GrantStream, Carry, EndStream, BreakStream
    <2> QED BY <2>1, <2>2
  <1> QED BY <1>1, <1>2, <1>3, <1>4 DEF Keeps, Good

\* What a handler comes to, whatever it tells the test suite.
Handled(c) == SuiteTypes' /\ CountsAgree' /\ Others(c) /\ Keeps(c)

LEMMA AcceptKeeps ==
  ASSUME Types, CountsAgree, NEW c \in Clients, Good(c), server[c] = "waiting", Accept(c)
  PROVE  Handled(c)
  <1>1. /\ SuiteTypes' /\ CountsAgree' /\ Others(c)
        /\ status'[<<"send", c>>] = status[<<"send", c>>]
        /\ mode.echo => status'[<<"check", c>>] = status[<<"check", c>>]
        /\ ~mode.echo => status'[<<"check", c>>] = "not done"
    <2>1. CASE mode.echo /\ UNCHANGED suite
      BY <2>1, SuiteSame DEF Types
    <2>2. CASE ~mode.echo /\ Register(<<"check", c>>)
      <3>1. status[<<"check", c>>] = "unknown"
        BY <2>2 DEF Good, Told
      <3> QED BY <2>2, <3>1, CheckRegistered DEF Types
    <2> QED BY <2>1, <2>2 DEF Accept
  <1>2. ClientTypes' /\ Only(c)
    BY DEF Types, ClientTypes, Only, Accept, Set, client
  <1>3. PieceTypes' /\ Kept(c)'
    BY DEF Types, PieceTypes, Good, Kept, Accept, client
  <1>4. Linked(c)'
    BY <1>1 DEF Types, ClientTypes, Good, Linked, Accept, Set, client
  <1>5. Told(c)'
    BY <1>1 DEF Types, ClientTypes, Good, Linked, Told, Accept, Set, client
  <1> QED BY <1>1, <1>2, <1>3, <1>4, <1>5 DEF Handled, Keeps, Good

LEMMA CloseKeeps ==
  ASSUME Types, CountsAgree, NEW c \in Clients, Good(c),
         stream[c] \in {"refused", "eof"}, Close(c)
  PROVE  Handled(c)
  <1>1. /\ SuiteTypes' /\ CountsAgree' /\ Others(c)
        /\ status'[<<"send", c>>] = status[<<"send", c>>]
        /\ status'[<<"check", c>>] = status[<<"check", c>>]
    BY SuiteSame DEF Types, Close
  <1>2. ClientTypes' /\ Only(c)
    BY DEF Types, ClientTypes, Only, Close, Set, net
  <1>3. PieceTypes' /\ Kept(c)'
    BY DEF Types, ClientTypes, PieceTypes, Good, Kept, Close, Set, net
  <1>4. Linked(c)' /\ Told(c)'
    BY <1>1 DEF Types, ClientTypes, Good, Linked, Told, Close, Set, net
  <1> QED BY <1>1, <1>2, <1>3, <1>4 DEF Handled, Keeps, Good

LEMMA RejectedKeeps ==
  ASSUME Types, CountsAgree, NEW c \in Clients, Good(c), Rejected(c)
  PROVE  Handled(c)
  <1>1. /\ SuiteTypes' /\ CountsAgree' /\ Others(c)
        /\ status'[<<"send", c>>] = status[<<"send", c>>]
        /\ status'[<<"check", c>>] = IF mode.echo /\ status[<<"check", c>>] = "not done"
                                     THEN "failure" ELSE status[<<"check", c>>]
    <2>1. CASE mode.echo /\ Decide(<<"check", c>>, "failure")
      BY <2>1, CheckDecided DEF Types
    <2>2. CASE ~mode.echo /\ UNCHANGED suite
      BY <2>2, SuiteSame DEF Types
    <2> QED BY <2>1, <2>2 DEF Rejected
  <1>2. ClientTypes' /\ Only(c)
    BY DEF Types, ClientTypes, Only, Rejected, Set, net
  <1>3. PieceTypes' /\ Kept(c)'
    BY DEF Types, ClientTypes, PieceTypes, Good, Kept, Rejected, Set, net
  <1>4. Linked(c)' /\ Told(c)'
    BY <1>1 DEF Types, ClientTypes, Good, Linked, Told, Rejected, Set, net
  <1> QED BY <1>1, <1>2, <1>3, <1>4 DEF Handled, Keeps, Good

LEMMA RequestKeeps ==
  ASSUME Types, CountsAgree, NEW c \in Clients, Good(c), Request(c)
  PROVE  Handled(c)
  <1>1. /\ SuiteTypes' /\ CountsAgree' /\ Others(c)
        /\ status'[<<"send", c>>] = status[<<"send", c>>]
        /\ status'[<<"check", c>>] = status[<<"check", c>>]
    BY SuiteSame DEF Types, Request
  <1>2. ClientTypes' /\ Only(c)
    BY DEF Types, ClientTypes, Only, Request, Set
  <1>3. PieceTypes' /\ Kept(c)'
    BY DEF Types, ClientTypes, PieceTypes, Good, Kept, Request, Set
  <1>4. Linked(c)' /\ Told(c)'
    BY <1>1 DEF Types, ClientTypes, Good, Linked, Told, Request, Set
  <1> QED BY <1>1, <1>2, <1>3, <1>4 DEF Handled, Keeps, Good

LEMMA FlushKeeps ==
  ASSUME Types, CountsAgree, NEW c \in Clients, Good(c), Flush(c)
  PROVE  Handled(c)
  <1>1. /\ SuiteTypes' /\ CountsAgree' /\ Others(c)
        /\ status'[<<"send", c>>] = IF status[<<"send", c>>] = "not done" THEN "success"
                                    ELSE status[<<"send", c>>]
        /\ status'[<<"check", c>>] = status[<<"check", c>>]
    BY SendDecided DEF Types, Flush
  <1>2. ClientTypes' /\ Only(c)
    BY DEF Types, ClientTypes, Only, Flush, Set, net
  <1>3. PieceTypes' /\ Kept(c)'
    BY DEF Types, ClientTypes, PieceTypes, Good, Kept, Flush, Set, net
  <1>4. Linked(c)' /\ Told(c)'
    BY <1>1 DEF Types, ClientTypes, Good, Linked, Told, Flush, Set, net
  <1> QED BY <1>1, <1>2, <1>3, <1>4 DEF Handled, Keeps, Good

\* A client that hands pieces to the kernel, as many as it has and as fit.
LEMMA Pushed ==
  ASSUME PieceTypes, NEW c \in Clients, Kept(c), NEW n \in Nat,
         n <= todo[c], buf[c] + n <= Cap[c],
         Set(todo, c, todo[c] - n), Set(buf, c, buf[c] + n),
         UNCHANGED <<arrived, echo, back, checked>>, state'[c] # "connecting"
  PROVE  PieceTypes' /\ Kept(c)' /\ todo'[c] = todo[c] - n
  <1>1. /\ todo'[c] = todo[c] - n /\ buf'[c] = buf[c] + n
        /\ arrived' = arrived /\ echo' = echo /\ back' = back /\ checked' = checked
    BY DEF PieceTypes, Set
  <1>2. todo[c] - n \in Nat /\ buf[c] + n \in Nat
    BY Numbers
  <1>3. PieceTypes'
    BY <1>2 DEF PieceTypes, Set
  <1>4. Kept(c)'
    BY <1>1, <1>2, Numbers, Sizes DEF Kept
  <1> QED BY <1>1, <1>3, <1>4

LEMMA ConnectedKeeps ==
  ASSUME Types, CountsAgree, NEW c \in Clients, Good(c), Connected(c)
  PROVE  Handled(c)
  <1> DEFINE sent == Least(Least(2, todo[c]), Cap[c] - buf[c])
             first == Least(sent, 1)
             flushed == todo[c] = first
             pushed == IF flushed THEN first ELSE sent
  <1>1. /\ PieceTypes /\ Kept(c) /\ todo[c] \in Nat /\ buf[c] \in Nat /\ Cap[c] \in Nat
        /\ buf[c] <= Cap[c]
    BY Numbers, Sizes DEF Types, Good, Kept
  <1>2. /\ pushed \in Nat /\ pushed <= todo[c] /\ buf[c] + pushed <= Cap[c]
        /\ flushed => pushed = todo[c]
    BY <1>1 DEF Least
  <1>3. /\ state[c] = "proxy" /\ stream[c] = "granted"
        /\ Set(state, c, "connected")
        /\ Set(todo, c, todo[c] - pushed) /\ Set(buf, c, buf[c] + pushed)
        /\ Set(closer, c, ~flushed)
        /\ IF flushed THEN Decide(<<"send", c>>, "success") ELSE UNCHANGED suite
        /\ UNCHANGED <<mode, checked, stream, arrived, server, echo, back, faulty, bad>>
    BY Zenon DEF Connected
  <1> HIDE DEF pushed, flushed
  <1>4. /\ SuiteTypes' /\ CountsAgree' /\ Others(c)
        /\ status'[<<"send", c>>] = IF flushed /\ status[<<"send", c>>] = "not done" THEN "success"
                                    ELSE status[<<"send", c>>]
        /\ status'[<<"check", c>>] = status[<<"check", c>>]
    BY <1>3, SuiteSame, SendDecided DEF Types
  <1>5. ClientTypes' /\ Only(c)
    BY <1>3 DEF Types, ClientTypes, PieceTypes, Only, Set, flushed
  <1>6. PieceTypes' /\ Kept(c)' /\ todo'[c] = todo[c] - pushed
    <2>1. state'[c] # "connecting"
      BY <1>3 DEF Types, ClientTypes, Set
    <2> QED BY <1>1, <1>2, <1>3, <2>1, Pushed
  <1>7. Linked(c)'
    BY <1>3, <1>4 DEF Types, ClientTypes, Good, Linked, Set
  <1>8. Told(c)'
    <2>1. status'[<<"send", c>>] = "success" => todo'[c] = 0
      <3>1. flushed => todo'[c] = 0
        BY <1>1, <1>2, <1>6
      <3>2. status[<<"send", c>>] = "not done"
        BY <1>3 DEF Good, Linked
      <3> QED BY <1>4, <3>1, <3>2
    <2> QED BY <1>3, <1>4, <2>1 DEF Good, Told
  <1> QED BY <1>4, <1>5, <1>6, <1>7, <1>8 DEF Handled, Keeps, Good

LEMMA ConnectKeeps ==
  ASSUME Types, CountsAgree, NEW c \in Clients, Good(c), Connect(c)
  PROVE  Handled(c)
  <1> DEFINE sent == Least(1, todo[c])
  <1>1. /\ PieceTypes /\ Kept(c) /\ todo[c] \in Nat /\ buf[c] \in Nat /\ Cap[c] \in Nat \ {0}
        /\ state[c] = "connecting" => buf[c] = 0
    BY Numbers, Sizes DEF Types, Good, Kept
  <1>2. /\ ~mode.proxy /\ state[c] = "connecting"
        /\ stream[c] \in {"granted", "eof"}
        /\ Set(state, c, "connected")
        /\ Set(todo, c, todo[c] - sent) /\ Set(buf, c, buf[c] + sent)
        /\ Set(closer, c, sent = 1)
        /\ IF sent = 1 THEN UNCHANGED suite ELSE Decide(<<"send", c>>, "success")
        /\ UNCHANGED <<mode, checked, stream, arrived, server, echo, back, faulty, bad>>
    BY Zenon DEF Connect
  <1>3. /\ sent \in Nat /\ sent <= todo[c] /\ buf[c] + sent <= Cap[c]
        /\ sent # 1 => sent = todo[c]
    BY <1>1, <1>2 DEF Least
  <1> HIDE DEF sent
  <1>4. /\ SuiteTypes' /\ CountsAgree' /\ Others(c)
        /\ status'[<<"send", c>>] = IF sent # 1 /\ status[<<"send", c>>] = "not done" THEN "success"
                                    ELSE status[<<"send", c>>]
        /\ status'[<<"check", c>>] = status[<<"check", c>>]
    BY <1>2, SuiteSame, SendDecided DEF Types
  <1>5. ClientTypes' /\ Only(c)
    BY <1>2 DEF Types, ClientTypes, PieceTypes, Only, Set
  <1>6. PieceTypes' /\ Kept(c)' /\ todo'[c] = todo[c] - sent
    <2>1. state'[c] # "connecting"
      BY <1>2 DEF Types, ClientTypes, Set
    <2> QED BY <1>1, <1>2, <1>3, <2>1, Pushed
  <1>7. Linked(c)'
    BY <1>2, <1>4 DEF Types, ClientTypes, Good, Linked, Set
  <1>8. Told(c)'
    <2>1. status'[<<"send", c>>] = "success" => todo'[c] = 0
      <3>1. sent # 1 => todo'[c] = 0
        BY <1>1, <1>3, <1>6
      <3>2. status[<<"send", c>>] = "not done"
        BY <1>2 DEF Good, Linked
      <3> QED BY <1>4, <3>1, <3>2
    <2> QED BY <1>2, <1>4, <2>1 DEF Good, Told
  <1> QED BY <1>4, <1>5, <1>6, <1>7, <1>8 DEF Handled, Keeps, Good

LEMMA SendPieceKeeps ==
  ASSUME Types, CountsAgree, NEW c \in Clients, Good(c), buf[c] < Cap[c], SendPiece(c)
  PROVE  Handled(c)
  <1>1. /\ PieceTypes /\ Kept(c) /\ todo[c] \in Nat /\ buf[c] \in Nat /\ Cap[c] \in Nat
    BY Numbers, Sizes DEF Types, Good
  <1>2. /\ 1 \in Nat /\ 1 <= todo[c] /\ buf[c] + 1 <= Cap[c]
    BY <1>1 DEF SendPiece
  <1>3. /\ SuiteTypes' /\ CountsAgree' /\ Others(c)
        /\ status'[<<"send", c>>] = status[<<"send", c>>]
        /\ status'[<<"check", c>>] = status[<<"check", c>>]
    BY SuiteSame DEF Types, SendPiece
  <1>4. ClientTypes' /\ Only(c)
    BY DEF Types, ClientTypes, PieceTypes, Only, SendPiece, Set
  <1>5. PieceTypes' /\ Kept(c)' /\ todo'[c] = todo[c] - 1
    BY <1>1, <1>2, Pushed DEF SendPiece
  <1>6. Linked(c)'
    BY <1>3 DEF Types, ClientTypes, Good, Linked, SendPiece, Set
  <1>7. Told(c)'
    <2>1. status[<<"send", c>>] # "success"
      BY <1>1, <1>2 DEF Good, Told
    <2> QED BY <1>3, <2>1 DEF Good, Told, SendPiece
  <1> QED BY <1>3, <1>4, <1>5, <1>6, <1>7 DEF Handled, Keeps, Good

\* What the checker says is what the test suite is told, and what is true.
LEMMA Consumed ==
  ASSUME Types, CountsAgree, NEW c \in Clients, NEW n \in Nat, Good(c),
         \/ consume(c, n) = "succeeded" /\ Decide(<<"check", c>>, "success")
         \/ consume(c, n) = "failed" /\ Decide(<<"check", c>>, "failure")
         \/ consume(c, n) = "pending" /\ UNCHANGED suite
  PROVE  /\ SuiteTypes' /\ CountsAgree' /\ Others(c)
         /\ status'[<<"send", c>>] = status[<<"send", c>>]
         /\ status'[<<"check", c>>] = "unknown" <=> status[<<"check", c>>] = "unknown"
         /\ status'[<<"check", c>>] = "success" =>
              \/ status[<<"check", c>>] = "success"
              \/ checked[c] + n = Pieces /\ c \notin bad
  <1>1. CASE consume(c, n) = "succeeded" /\ Decide(<<"check", c>>, "success")
    <2>1. checked[c] + n = Pieces /\ c \notin bad
      BY <1>1 DEF consume
    <2> QED BY <1>1, <2>1, CheckDecided DEF Types
  <1>2. CASE consume(c, n) = "failed" /\ Decide(<<"check", c>>, "failure")
    BY <1>2, CheckDecided DEF Types
  <1>3. CASE consume(c, n) = "pending" /\ UNCHANGED suite
    BY <1>3, SuiteSame DEF Types
  <1> QED BY <1>1, <1>2, <1>3

LEMMA CheckKeeps ==
  ASSUME Types, CountsAgree, NEW c \in Clients, NEW n \in 1..back[c], Good(c), Check(c, n)
  PROVE  Handled(c) /\ state'[c] \in {"connected", "closed"} /\ buf' = buf
  <1>1. /\ PieceTypes /\ Kept(c) /\ back[c] \in Nat /\ checked[c] \in Nat
        /\ n \in Nat /\ 0 < n /\ n <= back[c]
    BY Numbers DEF Types, Good
  <1>2. /\ SuiteTypes' /\ CountsAgree' /\ Others(c)
        /\ status'[<<"send", c>>] = status[<<"send", c>>]
        /\ status'[<<"check", c>>] = "unknown" <=> status[<<"check", c>>] = "unknown"
        /\ status'[<<"check", c>>] = "success" =>
             \/ status[<<"check", c>>] = "success"
             \/ checked[c] + n = Pieces /\ c \notin bad
    <2>1. \/ consume(c, n) = "succeeded" /\ Decide(<<"check", c>>, "success")
          \/ consume(c, n) = "failed" /\ Decide(<<"check", c>>, "failure")
          \/ consume(c, n) = "pending" /\ UNCHANGED suite
      BY DEF Check
    <2> QED BY <1>1, <2>1, Consumed
  <1>3. /\ state[c] = "connected" /\ state'[c] \in {"connected", "closed"}
        /\ ClientTypes' /\ Only(c)
    BY <1>1 DEF Types, ClientTypes, PieceTypes, Only, Check, Set
  <1>4. /\ todo' = todo /\ buf' = buf /\ arrived' = arrived /\ echo' = echo
        /\ back'[c] = back[c] - n /\ checked'[c] = checked[c] + n
        /\ PieceTypes'
    <2>1. back[c] - n \in Nat /\ checked[c] + n \in Nat
      BY <1>1
    <2> QED BY <1>1, <2>1 DEF PieceTypes, Check, Set
  <1>5. Kept(c)'
    BY <1>1, <1>3, <1>4, Numbers, Sizes DEF Kept
  <1>6. Linked(c)'
    BY <1>2, <1>3 DEF Good, Linked, Check
  <1>7. Told(c)'
    <2>1. status[<<"check", c>>] # "success"
      BY <1>1, Numbers, Sizes DEF Good, Told, Kept
    <2> QED BY <1>2, <1>4, <2>1 DEF Good, Told, Check
  <1> QED BY <1>2, <1>3, <1>4, <1>5, <1>6, <1>7 DEF Handled, Keeps, Good

LEMMA SinkKeeps ==
  ASSUME Types, CountsAgree, NEW c \in Clients, NEW n \in 1..arrived[c], Good(c),
         server[c] = "open", Sink(c, n)
  PROVE  Handled(c)
  <1>1. /\ PieceTypes /\ Kept(c) /\ arrived[c] \in Nat /\ checked[c] \in Nat
        /\ n \in Nat /\ 0 < n /\ n <= arrived[c]
    BY Numbers DEF Types, Good
  <1>2. /\ SuiteTypes' /\ CountsAgree' /\ Others(c)
        /\ status'[<<"send", c>>] = status[<<"send", c>>]
        /\ status'[<<"check", c>>] = "unknown" <=> status[<<"check", c>>] = "unknown"
        /\ status'[<<"check", c>>] = "success" =>
             \/ status[<<"check", c>>] = "success"
             \/ checked[c] + n = Pieces /\ c \notin bad
    <2>1. \/ consume(c, n) = "succeeded" /\ Decide(<<"check", c>>, "success")
          \/ consume(c, n) = "failed" /\ Decide(<<"check", c>>, "failure")
          \/ consume(c, n) = "pending" /\ UNCHANGED suite
      BY DEF Sink
    <2> QED BY <1>1, <2>1, Consumed
  <1>3. server'[c] \in {"open", "closed"} /\ ClientTypes' /\ Only(c)
    BY <1>1 DEF Types, ClientTypes, PieceTypes, Only, Sink, Set
  <1>4. /\ todo' = todo /\ buf' = buf /\ back' = back /\ echo' = echo
        /\ arrived'[c] = arrived[c] - n /\ checked'[c] = checked[c] + n
        /\ PieceTypes'
    <2>1. arrived[c] - n \in Nat /\ checked[c] + n \in Nat
      BY <1>1
    <2> QED BY <1>1, <2>1 DEF PieceTypes, Sink, Set
  <1>5. Kept(c)'
    <2>1. state' = state
      BY DEF Sink
    <2> QED BY <1>1, <1>4, <2>1, Numbers, Sizes DEF Kept
  <1>6. Linked(c)'
    BY <1>2 DEF Good, Linked, Sink
  <1>7. Told(c)'
    <2>1. status[<<"check", c>>] # "success"
      BY <1>1, Numbers, Sizes DEF Good, Told, Kept
    <2> QED BY <1>2, <1>3, <1>4, <2>1 DEF Good, Told, Sink
  <1> QED BY <1>2, <1>3, <1>4, <1>5, <1>6, <1>7 DEF Handled, Keeps, Good

LEMMA EchoKeeps ==
  ASSUME Types, CountsAgree, NEW c \in Clients, NEW n \in 0..arrived[c], NEW sent \in Nat,
         Good(c), Echo(c, n, sent)
  PROVE  Handled(c)
  <1>1. /\ PieceTypes /\ Kept(c) /\ arrived[c] \in Nat /\ echo[c] \in Nat /\ back[c] \in Nat
        /\ n \in Nat /\ n <= arrived[c] /\ sent <= echo[c] + n
    BY Numbers DEF Types, Good, Echo
  <1>2. /\ SuiteTypes' /\ CountsAgree' /\ Others(c) /\ status' = status
    BY SuiteSame DEF Types, Echo, suite
  <1>3. ClientTypes' /\ Only(c)
    BY <1>1 DEF Types, ClientTypes, PieceTypes, Only, Echo, Set, client
  <1>4. /\ todo' = todo /\ buf' = buf /\ checked' = checked /\ state' = state
        /\ arrived'[c] = arrived[c] - n /\ echo'[c] = echo[c] + n - sent
        /\ back'[c] = back[c] + sent
        /\ PieceTypes'
    <2>1. arrived[c] - n \in Nat /\ echo[c] + n - sent \in Nat /\ back[c] + sent \in Nat
      BY <1>1
    <2> QED BY <1>1, <2>1 DEF PieceTypes, Echo, Set, client
  <1>5. Kept(c)'
    BY <1>1, <1>4, Numbers, Sizes DEF Kept
  <1>6. Linked(c)' /\ Told(c)'
    BY <1>2, <1>4 DEF Good, Linked, Told, Echo, client
  <1> QED BY <1>2, <1>3, <1>4, <1>5, <1>6 DEF Handled, Keeps, Good

LEMMA ServerKeeps ==
  ASSUME Types, CountsAgree, NEW c \in Clients, Good(c), server[c] = "open",
         Set(server, c, "closed"),
         UNCHANGED <<client, stream, buf, arrived, echo, back, faulty, bad, suite>>
  PROVE  Handled(c)
  <1>1. /\ SuiteTypes' /\ CountsAgree' /\ Others(c) /\ status' = status
    BY SuiteSame DEF Types, suite
  <1>2. ClientTypes' /\ Only(c)
    BY DEF Types, ClientTypes, Only, Set, client
  <1>3. PieceTypes' /\ Kept(c)'
    BY DEF Types, PieceTypes, Good, Kept, client
  <1>4. Linked(c)' /\ Told(c)'
    BY <1>1 DEF Types, ClientTypes, Good, Linked, Told, Set, client
  <1> QED BY <1>1, <1>2, <1>3, <1>4 DEF Handled, Keeps, Good

-----------------------------------------------------------------------------
(* The loop.                                                               *)

LEMMA OthersKeep ==
  ASSUME NEW c \in Clients, Only(c), Others(c), NEW d \in Clients, d # c
  PROVE  /\ Good(d) => Good(d)'
         /\ \A p \in Phases : Fresh(p, d) => Fresh(p, d)'
  <1>1. d \in Clients \ {c}
    OBVIOUS
  <1>2. Kept(d) => Kept(d)'
    BY <1>1 DEF Only, Kept
  <1>3. Linked(d) /\ Told(d) => Linked(d)' /\ Told(d)'
    BY <1>1 DEF Only, Others, Linked, Told
  <1>4. ASSUME NEW p \in Phases, Fresh(p, d)
        PROVE  Fresh(p, d)'
    BY <1>1, <1>4 DEF Only, Fresh
  <1> QED BY <1>2, <1>3, <1>4 DEF Good

\* One handler, on an event that is still what select() has seen.
Serve(p, c) ==
  \/ p = 1 /\ Accept(c)
  \/ p = 2 /\ ReadClient(c)
  \/ p = 3 /\ server[c] = "open" /\ ReadServer(c)
  \/ p = 4 /\ WriteClient(c)
  \/ p = 5 /\ server[c] = "open" /\ WriteServer(c)

LEMMA ServeKeeps ==
  ASSUME Types, CountsAgree, NEW c \in Clients, NEW p \in Phases, Good(c), Fresh(p, c), Serve(p, c)
  PROVE  Handled(c) /\ \A q \in Phases : q # p /\ Fresh(q, c) => Fresh(q, c)'
  <1>1. CASE p = 1 /\ Accept(c)
    <2>1. Handled(c)
      BY <1>1, AcceptKeeps DEF Fresh
    <2>2. state' = state /\ buf' = buf
      BY <1>1 DEF Accept, client
    <2> QED BY <1>1, <2>1, <2>2 DEF Fresh
  <1>2. CASE p = 2 /\ ReadClient(c)
    <2>1. CASE Connected(c)
      <3>1. Handled(c)
        BY <2>1, ConnectedKeeps
      <3>2. ~Fresh(4, c) /\ server' = server
        BY <2>1 DEF Connected, Fresh
      <3> QED BY <3>1, <3>2 DEF Fresh
    <2>2. CASE Rejected(c)
      <3>1. Handled(c)
        BY <2>2, RejectedKeeps
      <3>2. ~Fresh(4, c) /\ server' = server
        BY <2>2 DEF Rejected, Fresh, net
      <3> QED BY <3>1, <3>2 DEF Fresh
    <2>3. ASSUME NEW n \in 1..back[c], Check(c, n)
          PROVE  Handled(c) /\ \A q \in Phases : q # p /\ Fresh(q, c) => Fresh(q, c)'
      <3>1. Handled(c) /\ state'[c] \in {"connected", "closed"} /\ buf' = buf
        BY <2>3, CheckKeeps
      <3>2. state[c] = "connected" /\ server' = server
        BY <2>3 DEF Check
      <3> QED BY <3>1, <3>2 DEF Fresh
    <2>4. CASE stream[c] \in {"refused", "eof"} /\ Close(c)
      <3>1. Handled(c)
        BY <2>4, CloseKeeps
      <3>2. state'[c] = "closed" /\ server' = server
        BY <2>4 DEF Close, Set, net, Types, ClientTypes
      <3> QED BY <3>1, <3>2 DEF Fresh
    <2> QED BY <1>2, <2>1, <2>2, <2>3, <2>4 DEF ReadClient
  <1>3. CASE p = 3 /\ server[c] = "open" /\ ReadServer(c)
    <2>1. ASSUME NEW n \in 1..arrived[c], NEW sent \in 0..Pieces, Echo(c, n, sent)
          PROVE  Handled(c) /\ state' = state /\ buf' = buf
      <3>1. n \in 0..arrived[c] /\ sent \in Nat
        BY Numbers, Sizes DEF Types
      <3> QED BY <2>1, <3>1, EchoKeeps DEF Echo, client
    <2>2. ASSUME NEW n \in 1..arrived[c], Sink(c, n)
          PROVE  Handled(c) /\ state' = state /\ buf' = buf
      BY <1>3, <2>2, SinkKeeps DEF Sink
    <2>3. ASSUME Set(server, c, "closed"),
                 UNCHANGED <<client, stream, buf, arrived, echo, back, faulty, bad, suite>>
          PROVE  Handled(c) /\ state' = state /\ buf' = buf
      BY <1>3, <2>3, ServerKeeps DEF client
    <2>4. Handled(c) /\ state' = state /\ buf' = buf
      BY <1>3, <2>1, <2>2, <2>3 DEF ReadServer
    <2> QED BY <1>3, <2>4 DEF Fresh
  <1>4. CASE p = 4 /\ WriteClient(c)
    <2>1. Handled(c)
      <3>1. CASE SendPiece(c)
        BY <1>4, <3>1, SendPieceKeeps DEF SendPiece, Fresh
      <3>2. CASE stream[c] \in {"refused", "eof"} /\ Close(c)
        BY <3>2, CloseKeeps
      <3> QED BY <1>4, <3>1, <3>2, RequestKeeps, ConnectKeeps, FlushKeeps DEF WriteClient
    <2>2. server' = server
      BY <1>4 DEF WriteClient, Request, Connect, SendPiece, Flush, Close, net
    <2> QED BY <1>4, <2>1, <2>2 DEF Fresh
  <1>5. CASE p = 5 /\ server[c] = "open" /\ WriteServer(c)
    <2>1. PICK sent \in 0..Pieces : Echo(c, 0, sent)
      BY <1>5 DEF WriteServer
    <2>2. 0 \in 0..arrived[c] /\ sent \in Nat
      BY Numbers, Sizes DEF Types
    <2>3. Handled(c)
      BY <2>1, <2>2, EchoKeeps
    <2>4. state' = state /\ buf' = buf
      BY <2>1 DEF Echo, client
    <2> QED BY <1>5, <2>3, <2>4 DEF Fresh
  <1> QED BY <1>1, <1>2, <1>3, <1>4, <1>5 DEF Serve

\* What the loop needs of a client in the next state.
AllGood == \A c \in Clients : Good(c)
AllFresh == \A e \in ready : Fresh(e.phase, e.who)

LEMMA HandleKeeps ==
  ASSUME Types, LoopTypes, CountsAgree, AllGood, AllFresh, NEW e \in ready, Handle(e)
  PROVE  Types' /\ CountsAgree' /\ AllGood' /\ AllFresh'
  <1> DEFINE p == e.phase
             c == e.who
  <1>1. /\ p \in Phases /\ c \in Clients /\ Good(c) /\ Fresh(p, c)
        /\ ready' = ready \ {e}
        /\ \A d \in ready' : d.phase \in Phases /\ d.who \in Clients /\ (d.who = c => d.phase # p)
    BY DEF Handle, LoopTypes, AllGood, AllFresh
  <1>2. CASE UNCHANGED <<client, net, suite>>
    <2>1. Types' /\ CountsAgree' /\ AllGood'
      BY <1>2 DEF Types, SuiteTypes, ClientTypes, PieceTypes, CountsAgree, AllGood, Good, Kept, Linked, Told,
                  client, net, suite
    <2>2. AllFresh'
      BY <1>1, <1>2 DEF AllFresh, Fresh, client, net
    <2> QED BY <2>1, <2>2
  <1>3. CASE Serve(p, c)
    <2>1. Handled(c) /\ \A q \in Phases : q # p /\ Fresh(q, c) => Fresh(q, c)'
      BY <1>1, <1>3, ServeKeeps
    <2>2. Types' /\ CountsAgree' /\ Good(c)' /\ Only(c) /\ Others(c)
      BY <2>1 DEF Handled, Keeps, Types
    <2>3. AllGood'
      BY <1>1, <2>2, OthersKeep DEF AllGood
    <2>4. ASSUME NEW d \in ready'
          PROVE  Fresh(d.phase, d.who)'
      <3>1. d \in ready /\ d.phase \in Phases /\ d.who \in Clients /\ Fresh(d.phase, d.who)
        BY <1>1, <2>4 DEF AllFresh
      <3>2. CASE d.who = c
        BY <1>1, <2>1, <2>4, <3>1, <3>2
      <3>3. CASE d.who # c
        BY <1>1, <2>2, <3>1, <3>3, OthersKeep
      <3> QED BY <3>2, <3>3
    <2>5. AllFresh'
      BY <2>4 DEF AllFresh
    <2> QED BY <2>2, <2>3, <2>5
  <1>4. UNCHANGED <<client, net, suite>> \/ Serve(p, c)
    BY DEF Handle, Gone, Serve
  <1> QED BY <1>2, <1>3, <1>4

LEMMA TorStep ==
  ASSUME Types, LoopTypes, CountsAgree, AllGood, AllFresh, Tor
  PROVE  Types' /\ CountsAgree' /\ AllGood' /\ AllFresh'
  <1>1. PICK c \in Clients :
          AcceptClient(c) \/ GrantStream(c) \/ Carry(c) \/ EndStream(c) \/ BreakStream(c) \/ Corrupt(c)
    BY DEF Tor
  <1>2. UNCHANGED <<client, echo, back, suite, pc, ready, result>>
    BY DEF Tor
  <1>3. Good(c)
    BY DEF AllGood
  <1>4. Keeps(c)
    BY <1>1, <1>2, <1>3, TorKeeps
  <1>5. SuiteTypes' /\ CountsAgree' /\ Others(c)
    BY <1>2, SuiteSame DEF Types
  <1>6. Only(c)
    BY <1>4 DEF Keeps
  <1>7. AllGood'
    BY <1>4, <1>5, <1>6, OthersKeep DEF AllGood, Keeps
  <1>8. ASSUME NEW p \in Phases, Fresh(p, c)
        PROVE  Fresh(p, c)'
    <2>1. state' = state
      BY <1>2 DEF client
    <2>2. server[c] = "waiting" => server'[c] = "waiting"
      BY <1>1, <1>3 DEF Types, ClientTypes, Good, Linked, Set,
                        AcceptClient, GrantStream, Carry, EndStream, BreakStream, Corrupt
    <2>3. buf[c] < Cap[c] => buf'[c] < Cap[c]
      <3>1. buf' = buf \/ buf'[c] = buf[c] - 1
        BY <1>1 DEF Types, PieceTypes, Set, AcceptClient, GrantStream, Carry, EndStream, BreakStream, Corrupt
      <3>2. buf[c] \in Nat /\ Cap[c] \in Nat
        BY Numbers, Sizes DEF Types
      <3> QED BY <3>1, <3>2
    <2> QED BY <1>8, <2>1, <2>2, <2>3 DEF Fresh
  <1>9. AllFresh'
    <2>1. ASSUME NEW e \in ready
          PROVE  Fresh(e.phase, e.who)'
      <3>1. e.phase \in Phases /\ e.who \in Clients /\ Fresh(e.phase, e.who)
        BY DEF LoopTypes, AllFresh
      <3>2. CASE e.who = c
        BY <1>8, <3>1, <3>2
      <3>3. CASE e.who # c
        BY <1>5, <1>6, <3>1, <3>3, OthersKeep
      <3> QED BY <3>2, <3>3
    <2> QED BY <1>2, <2>1 DEF AllFresh
  <1> QED BY <1>4, <1>5, <1>7, <1>9 DEF Keeps, Types

\* Steps that leave all clients and tests alone.
LEMMA QuietStep ==
  ASSUME Types, CountsAgree, AllGood, UNCHANGED <<client, net, suite>>
  PROVE  Types' /\ CountsAgree' /\ AllGood'
  BY DEF Types, SuiteTypes, ClientTypes, PieceTypes, CountsAgree, AllGood, Good, Kept, Linked, Told,
         client, net, suite

LEMMA SelectStep ==
  ASSUME NEW accept \in SUBSET Clients, NEW readers \in SUBSET Clients, Select(accept, readers)
  PROVE  ready' \subseteq [phase : Phases, who : Clients] /\ AllFresh'
  <1>1. ASSUME NEW e \in ready'
        PROVE  /\ e \in [phase : Phases, who : Clients]
               /\ e.phase = 1 => server[e.who] = "waiting"
               /\ e.phase = 4 => ClientWritable(e.who)
    <2>1. ready' = UNION {Event(1, accept), Event(2, readers),
                          Event(3, {c \in Clients : ServerReadable(c)}),
                          Event(4, {c \in Clients : ClientWritable(c)}),
                          Event(5, {c \in Clients : ServerWritable(c)})}
      BY Zenon DEF Select
    <2>2. \/ e \in Event(1, accept) \/ e \in Event(2, readers)
          \/ e \in Event(3, {c \in Clients : ServerReadable(c)})
          \/ e \in Event(4, {c \in Clients : ClientWritable(c)})
          \/ e \in Event(5, {c \in Clients : ServerWritable(c)})
      BY <2>1
    <2>3. \A c \in accept : server[c] = "waiting"
      BY DEF Select
    <2> QED BY <2>2, <2>3 DEF Event, Phases
  <1>2. ASSUME NEW e \in ready'
        PROVE  Fresh(e.phase, e.who)'
    <2>1. state' = state /\ server' = server /\ buf' = buf
      BY DEF Select, client, net
    <2> QED BY <1>1, <2>1 DEF Fresh, ClientWritable
  <1> QED BY <1>1, <1>2 DEF AllFresh

\* When no test is left and none has failed, all clients are verified.
LEMMA DoneMeansVerified ==
  ASSUME Types, CountsAgree, NEW c \in Clients, Good(c), AllDone, failures = 0
  PROVE  /\ todo[c] = 0 /\ stream[c] # "rejected"
         /\ mode.echo \/ server[c] \in {"open", "closed"} => checked[c] = Pieces /\ c \notin bad
  <1>1. IsFiniteSet(With("not done")) /\ IsFiniteSet(With("failure"))
    BY TestsFinite, FS_Subset DEF With
  <1>2. Cardinality(With("not done")) = 0 /\ Cardinality(With("failure")) = 0
    BY CountedAgree DEF Counted, AllDone
  <1>3. With("not done") = {} /\ With("failure") = {}
    BY <1>1, <1>2, FS_EmptySet
  <1>4. \A t \in Tests : status[t] \in {"unknown", "success"}
    BY <1>3 DEF With, Types, SuiteTypes, Statuses
  <1>5. status[<<"send", c>>] = "success"
    BY <1>4, Names DEF Good, Told
  <1>6. mode.echo \/ server[c] \in {"open", "closed"} => status[<<"check", c>>] = "success"
    BY <1>4, Names DEF Good, Told
  <1> QED BY <1>5, <1>6 DEF Good, Told, Linked

-----------------------------------------------------------------------------
(* The invariant.                                                          *)

LEMMA InvStep == IInv /\ [Next]_vars => IInv'
  <1> SUFFICES ASSUME IInv, [Next]_vars
               PROVE  IInv'
    OBVIOUS
  <1>1. Types /\ LoopTypes /\ CountsAgree /\ ResultInv /\ AllGood /\ AllFresh
    BY DEF IInv, AllGood, Good, AllFresh
  <1>2. CASE Tor
    <2>1. Types' /\ CountsAgree' /\ AllGood' /\ AllFresh'
      BY <1>1, <1>2, TorStep
    <2>2. pc' = pc /\ ready' = ready /\ result' = result /\ result = "none"
      BY <1>1, <1>2 DEF Tor, ResultInv, LoopTypes
    <2>3. LoopTypes' /\ ResultInv'
      BY <1>1, <2>2 DEF LoopTypes, ResultInv, TrueMeansVerified
    <2> QED BY <2>1, <2>3 DEF IInv, AllGood, Good, AllFresh
  <1>3. ASSUME NEW accept \in SUBSET Clients, NEW readers \in SUBSET Clients, Select(accept, readers)
        PROVE  IInv'
    <2>1. Types' /\ CountsAgree' /\ AllGood'
      BY <1>1, <1>3, QuietStep DEF Select
    <2>2. ready' \subseteq [phase : Phases, who : Clients] /\ AllFresh'
      BY <1>3, SelectStep
    <2>3. pc' = "handle" /\ result' = result /\ result = "none"
      BY <1>1, <1>3 DEF Select, ResultInv
    <2>4. LoopTypes' /\ ResultInv'
      BY <1>1, <2>2, <2>3 DEF LoopTypes, ResultInv, TrueMeansVerified
    <2> QED BY <2>1, <2>2, <2>4 DEF IInv, AllGood, Good, AllFresh
  <1>4. CASE Return
    <2>1. Types' /\ CountsAgree' /\ AllGood'
      BY <1>1, <1>4, QuietStep DEF Return
    <2>2. AllFresh'
      BY <1>1, <1>4 DEF Return, AllFresh, Fresh, client, net
    <2>3. LoopTypes'
      BY <1>1, <1>4 DEF Return, LoopTypes
    <2>4. TrueMeansVerified
      BY <1>1 DEF ResultInv
    <2>5. result' = "true" => AllDone /\ failures = 0
      BY <1>4 DEF Return
    <2>6. TrueMeansVerified'
      <3>1. /\ todo' = todo /\ stream' = stream /\ server' = server /\ checked' = checked /\ bad' = bad
            /\ mode' = mode
        BY <1>4 DEF Return, client, net
      <3> QED BY <1>1, <2>5, <3>1, DoneMeansVerified DEF TrueMeansVerified, AllGood
    <2>7. ResultInv'
      BY <1>4, <2>6 DEF Return, ResultInv
    <2> QED BY <2>1, <2>2, <2>3, <2>7 DEF IInv, AllGood, Good, AllFresh
  <1>5. ASSUME NEW e \in ready, Handle(e)
        PROVE  IInv'
    <2>1. Types' /\ CountsAgree' /\ AllGood' /\ AllFresh'
      BY <1>1, <1>5, HandleKeeps
    <2>2. result' = result /\ result = "none" /\ ready' \subseteq ready /\ pc' \in {"select", "handle"}
      BY <1>1, <1>5 DEF Handle, ResultInv
    <2>3. LoopTypes' /\ ResultInv'
      BY <1>1, <2>2 DEF LoopTypes, ResultInv, TrueMeansVerified
    <2> QED BY <2>1, <2>3 DEF IInv, AllGood, Good, AllFresh
  <1>6. CASE UNCHANGED vars
    <2>1. Types' /\ CountsAgree' /\ AllGood'
      BY <1>1, <1>6, QuietStep DEF vars
    <2>2. AllFresh' /\ LoopTypes' /\ ResultInv'
      BY <1>1, <1>6 DEF vars, client, net, AllFresh, Fresh, LoopTypes, ResultInv, TrueMeansVerified
    <2> QED BY <2>1, <2>2 DEF IInv, AllGood, Good, AllFresh
  <1> QED BY <1>2, <1>3, <1>4, <1>5, <1>6 DEF Next

LEMMA InitInv == Init => IInv
  <1> SUFFICES ASSUME Init
               PROVE  IInv
    OBVIOUS
  <1>1. mode \in Modes /\ mode.echo \in BOOLEAN
    BY TrafficAssumption DEF Init, TrafficAssumption
  <1>2. status = [t \in Tests |-> IF mode.echo \/ t[1] = "send" THEN "not done" ELSE "unknown"]
    BY DEF Init
  <1>3. With("not done") = IF mode.echo THEN Tests ELSE {"send"} \X Clients
    BY <1>1, <1>2 DEF With, Tests
  <1>4. With("failure") = {}
    BY <1>2 DEF With
  <1>5. Counted
    BY <1>3, <1>4, FS_EmptySet, Zenon DEF Counted, Init
  <1>6. notDone \in Nat /\ failures \in Nat
    <2>1. IsFiniteSet(With("not done"))
      BY TestsFinite, FS_Subset DEF With
    <2>2. Cardinality(With("not done")) \in Nat
      BY <2>1, FS_CardinalityType
    <2>3. notDone \in Nat
      BY <1>5, <2>2, Zenon DEF Counted
    <2>4. failures = 0
      BY DEF Init
    <2> QED BY <2>3, <2>4
  <1>7. Types /\ CountsAgree
    <2>1. SuiteTypes
      BY <1>2, <1>6 DEF SuiteTypes, Statuses
    <2>2. ClientTypes
      BY <1>1 DEF Init, ClientTypes
    <2>3. PieceTypes
      BY TrafficAssumption DEF Init, PieceTypes, TrafficAssumption
    <2> QED BY <1>5, <2>1, <2>2, <2>3, CountedAgree DEF Types
  <1>8. LoopTypes /\ ResultInv /\ AllFresh
    BY DEF Init, LoopTypes, ResultInv, TrueMeansVerified, AllFresh
  <1>9. ASSUME NEW c \in Clients
        PROVE  Kept(c) /\ Linked(c) /\ Told(c)
    <2>1. /\ todo[c] = Pieces /\ buf[c] = 0 /\ arrived[c] = 0 /\ echo[c] = 0 /\ back[c] = 0
          /\ checked[c] = 0 /\ state[c] = "connecting" /\ stream[c] = "none" /\ server[c] = "none"
      BY DEF Init
    <2>2. status[<<"send", c>>] = "not done"
          /\ status[<<"check", c>>] = IF mode.echo THEN "not done" ELSE "unknown"
      BY <1>2, Names
    <2>3. Kept(c)
      BY <2>1, Sizes DEF Kept
    <2> QED BY <1>1, <2>1, <2>2, <2>3 DEF Linked, Told
  <1> QED BY <1>7, <1>8, <1>9 DEF IInv, AllFresh

LEMMA Invariance == Spec => []IInv
  BY InitInv, InvStep, PTL DEF Spec

-----------------------------------------------------------------------------
(* The theorems.                                                           *)

\* For every number of clients and pieces and all buffer sizes: no count leaves its
\* range, and no piece is sent that is not there.
THEOREM TypeCorrect == Spec => []TypeOK
  <1>1. IInv => TypeOK
    <2> SUFFICES ASSUME IInv
                 PROVE  TypeOK
      OBVIOUS
    <2>1. \A c \in Clients :
            /\ todo[c] \in 0..Pieces /\ arrived[c] \in 0..Pieces /\ echo[c] \in 0..Pieces
            /\ back[c] \in 0..Pieces /\ checked[c] \in 0..Pieces /\ buf[c] <= Cap[c]
      BY Numbers, Sizes DEF IInv, Types, Kept
    <2>2. \A f \in {todo, arrived, echo, back, checked} : f \in [Clients -> 0..Pieces]
      <3>1. /\ todo = [c \in Clients |-> todo[c]] /\ arrived = [c \in Clients |-> arrived[c]]
            /\ echo = [c \in Clients |-> echo[c]] /\ back = [c \in Clients |-> back[c]]
            /\ checked = [c \in Clients |-> checked[c]]
        BY DEF IInv, Types, PieceTypes
      <3> QED BY <2>1, <3>1
    <2>3. notDone \in 0..Cardinality(Tests) /\ failures \in 0..Cardinality(Tests)
      <3>1. \A s : With(s) \in SUBSET Tests
        BY DEF With
      <3>2. /\ Cardinality(With("not done")) <= Cardinality(Tests)
            /\ Cardinality(With("failure")) <= Cardinality(Tests)
            /\ Cardinality(Tests) \in Nat
        BY <3>1, TestsFinite, FS_Subset, FS_CardinalityType
      <3>3. Counted
        BY CountedAgree DEF IInv
      <3>4. notDone = Cardinality(With("not done")) /\ failures = Cardinality(With("failure"))
        BY <3>3 DEF Counted
      <3>5. notDone \in Nat /\ failures \in Nat
        BY DEF IInv, Types, SuiteTypes
      <3>6. notDone <= Cardinality(Tests) /\ failures <= Cardinality(Tests)
        BY <3>2, <3>4, Zenon
      <3>7. Cardinality(Tests) \in Nat
        BY <3>2
      <3> QED BY <3>5, <3>6, <3>7
    <2>4. SuiteTypes /\ ClientTypes /\ LoopTypes /\ buf \in [Clients -> Nat]
      BY DEF IInv, Types, PieceTypes
    <2> QED BY <2>1, <2>2, <2>3, <2>4 DEF TypeOK, SuiteTypes, ClientTypes, LoopTypes, Statuses
  <1> QED BY <1>1, Invariance, PTL

\* The counters of the test suite count the tests, whoever decides them.
THEOREM CountersRight == Spec => []CountsAgree
  <1>1. IInv => CountsAgree
    BY DEF IInv
  <1> QED BY <1>1, Invariance, PTL

\* No piece is lost or repeated, however sends and reads are cut.
THEOREM PiecesKept == Spec => []PiecesAreKept
  <1>1. IInv => PiecesAreKept
    BY DEF IInv, Kept, PiecesAreKept
  <1> QED BY <1>1, Invariance, PTL

\* The tester returns True only for data that is sent, and verified where it is
\* compared.
THEOREM TrueIsVerified == Spec => []TrueMeansVerified
  <1>1. IInv => TrueMeansVerified
    BY DEF IInv, ResultInv
  <1> QED BY <1>1, Invariance, PTL

-----------------------------------------------------------------------------
(* The client of a tor that does not interfere is served to the end: no    *)
(* test of it is left that nobody can decide, and it is never idle before  *)
(* its data is verified, whatever the tors of the other clients do.        *)

Sent(c) == status[<<"send", c>>]
Checked(c) == status[<<"check", c>>]

\* How far a client has got with its data.
Begun(c) ==
  /\ state[c] \in {"connecting", "proxy"} => todo[c] = Pieces
  /\ state[c] = "connected" /\ ~closer[c] => todo[c] = 0 /\ Sent(c) = "success"
  /\ Sent(c) \in {"not done", "success"}
  /\ Checked(c) = "success" => Pieces # 0
  /\ stream[c] = "granted" => server[c] # "none"

\* What the tor of a client that is not faulty has not done, and what follows when one
\* of the two ends is closed.
Sound(c) ==
  /\ c \notin bad
  /\ stream[c] \notin {"refused", "rejected"}
  /\ stream[c] = "eof" => server[c] = "closed"
  /\ server[c] = "closed" => Checked(c) = "success"
  /\ state[c] = "closed" => Checked(c) = "success"
  /\ Checked(c) # "failure"
  /\ checked[c] = Pieces /\ Pieces # 0 => Checked(c) = "success"

Served(c) == Begun(c) /\ (c \notin faulty => Sound(c))

-----------------------------------------------------------------------------
(* The handlers.                                                           *)

LEMMA TorServes ==
  ASSUME Types, NEW c \in Clients, Good(c), Served(c),
         AcceptClient(c) \/ GrantStream(c) \/ Carry(c) \/ EndStream(c) \/ BreakStream(c) \/ Corrupt(c),
         UNCHANGED <<client, echo, back, suite>>
  PROVE  Served(c)'
  <1>1. Begun(c)'
    BY DEF Types, ClientTypes, Served, Begun, Sent, Checked, Set, client, suite, Good, Linked,
           AcceptClient, GrantStream, Carry, EndStream, BreakStream, Corrupt
  <1>2. /\ state' = state /\ checked' = checked /\ Checked(c)' = Checked(c)
        /\ faulty \subseteq faulty' /\ bad \subseteq bad' /\ (c \in bad' => c \in bad \/ c \in faulty')
        /\ server'[c] = server[c] \/ server'[c] = "waiting"
    BY DEF Types, ClientTypes, Checked, Set, client, suite,
           AcceptClient, GrantStream, Carry, EndStream, BreakStream, Corrupt
  <1>3. ASSUME c \notin faulty'
        PROVE  /\ stream'[c] \notin {"refused", "rejected"}
               /\ stream'[c] = "eof" => server'[c] = "closed"
    BY <1>2, <1>3 DEF Types, ClientTypes, Served, Sound, Set, Good, Linked,
           AcceptClient, GrantStream, Carry, EndStream, BreakStream, Corrupt
  <1>4. ASSUME c \notin faulty'
        PROVE  Sound(c)'
    BY <1>2, <1>3, <1>4 DEF Served, Sound
  <1> QED BY <1>1, <1>4 DEF Served

LEMMA AcceptServes ==
  ASSUME Types, CountsAgree, NEW c \in Clients, Good(c), Served(c), server[c] = "waiting", Accept(c)
  PROVE  Served(c)'
  <1>1. /\ Sent(c)' = Sent(c)
        /\ Checked(c)' = Checked(c) \/ (Checked(c)' = "not done" /\ Checked(c) = "unknown")
    <2>1. CASE mode.echo /\ UNCHANGED suite
      BY <2>1, SuiteSame DEF Types, Sent, Checked
    <2>2. CASE ~mode.echo /\ Register(<<"check", c>>)
      <3>1. status[<<"check", c>>] = "unknown"
        BY <2>2 DEF Good, Told
      <3> QED BY <2>2, <3>1, CheckRegistered DEF Types, Sent, Checked
    <2> QED BY <2>1, <2>2 DEF Accept
  <1>2. /\ state' = state /\ todo' = todo /\ closer' = closer /\ checked' = checked
        /\ stream' = stream /\ faulty' = faulty /\ bad' = bad /\ server'[c] = "open"
    BY DEF Accept, Set, client, Types, ClientTypes
  <1>3. Begun(c)'
    BY <1>1, <1>2 DEF Served, Begun
  <1>4. ASSUME c \notin faulty
        PROVE  Sound(c)'
    BY <1>1, <1>2, <1>4 DEF Served, Sound
  <1> QED BY <1>2, <1>3, <1>4 DEF Served

LEMMA CloseServes ==
  ASSUME Types, CountsAgree, NEW c \in Clients, Good(c), Served(c),
         stream[c] \in {"refused", "eof"}, Close(c)
  PROVE  Served(c)'
  <1>1. Sent(c)' = Sent(c) /\ Checked(c)' = Checked(c)
    BY SuiteSame DEF Types, Close, Sent, Checked
  <1>2. /\ todo' = todo /\ closer' = closer /\ checked' = checked /\ stream' = stream
        /\ server' = server /\ faulty' = faulty /\ bad' = bad /\ state'[c] = "closed"
    BY DEF Close, Set, net, Types, ClientTypes
  <1>3. Begun(c)'
    BY <1>1, <1>2 DEF Served, Begun
  <1>4. ASSUME c \notin faulty
        PROVE  Sound(c)'
    BY <1>1, <1>2, <1>4 DEF Served, Sound
  <1> QED BY <1>2, <1>3, <1>4 DEF Served

LEMMA RejectedServes ==
  ASSUME Types, CountsAgree, NEW c \in Clients, Good(c), Served(c), Rejected(c)
  PROVE  Served(c)'
  <1>1. c \in faulty
    BY DEF Served, Sound, Rejected
  <1>2. Sent(c)' = Sent(c) /\ (Checked(c)' = "success" => Checked(c) = "success")
    <2>1. CASE mode.echo /\ Decide(<<"check", c>>, "failure")
      BY <2>1, CheckDecided DEF Types, Sent, Checked
    <2>2. CASE ~mode.echo /\ UNCHANGED suite
      BY <2>2, SuiteSame DEF Types, Sent, Checked
    <2> QED BY <2>1, <2>2 DEF Rejected
  <1>3. stream' = stream /\ server' = server /\ faulty' = faulty /\ state'[c] = "closed"
    BY DEF Rejected, Set, net, Types, ClientTypes
  <1>4. Begun(c)'
    BY <1>2, <1>3 DEF Served, Begun
  <1> QED BY <1>1, <1>3, <1>4 DEF Served

LEMMA RequestServes ==
  ASSUME Types, CountsAgree, NEW c \in Clients, Good(c), Served(c), Request(c)
  PROVE  Served(c)'
  <1>1. Sent(c)' = Sent(c) /\ Checked(c)' = Checked(c)
    BY SuiteSame DEF Types, Request, Sent, Checked
  <1>2. /\ todo' = todo /\ closer' = closer /\ checked' = checked /\ server' = server
        /\ faulty' = faulty /\ bad' = bad /\ state'[c] = "proxy" /\ state[c] = "connecting"
        /\ stream'[c] = IF stream[c] = "up" THEN "asked" ELSE "eof"
        /\ stream[c] \in {"up", "eof"}
    BY DEF Request, Set, Types, ClientTypes
  <1>3. Begun(c)'
    BY <1>1, <1>2 DEF Served, Begun
  <1>4. ASSUME c \notin faulty
        PROVE  Sound(c)'
    BY <1>1, <1>2, <1>4 DEF Served, Sound
  <1> QED BY <1>2, <1>3, <1>4 DEF Served

LEMMA FlushServes ==
  ASSUME Types, CountsAgree, NEW c \in Clients, Good(c), Served(c), Flush(c)
  PROVE  Served(c)'
  <1>1. Sent(c)' = "success" /\ Checked(c)' = Checked(c)
    BY SendDecided DEF Types, Flush, Sent, Checked, Served, Begun
  <1>2. /\ todo' = todo /\ checked' = checked /\ server' = server /\ state' = state /\ stream' = stream
        /\ faulty' = faulty /\ bad' = bad /\ todo[c] = 0 /\ state[c] = "connected"
    BY DEF Flush, Set, net
  <1>3. Begun(c)'
    BY <1>1, <1>2 DEF Served, Begun
  <1>4. ASSUME c \notin faulty
        PROVE  Sound(c)'
    BY <1>1, <1>2, <1>4 DEF Served, Sound
  <1> QED BY <1>2, <1>3, <1>4 DEF Served

\* A client whose handshake is over, and that may have sent all there is.
LEMMA PushServes ==
  ASSUME Types, NEW c \in Clients, Served(c), state'[c] = "connected",
         closer'[c] \/ (todo'[c] = 0 /\ Sent(c)' = "success"),
         Sent(c)' \in {"not done", "success"}, Checked(c)' = Checked(c),
         UNCHANGED <<stream, server, checked, faulty, bad>>
  PROVE  Served(c)'
  <1>1. Begun(c)'
    BY DEF Served, Begun
  <1>2. ASSUME c \notin faulty
        PROVE  Sound(c)'
    BY <1>2 DEF Served, Sound
  <1> QED BY <1>1, <1>2 DEF Served

LEMMA ConnectedServes ==
  ASSUME Types, CountsAgree, NEW c \in Clients, Good(c), Served(c), Connected(c)
  PROVE  Served(c)'
  <1> DEFINE sent == Least(Least(2, todo[c]), Cap[c] - buf[c])
             first == Least(sent, 1)
             flushed == todo[c] = first
             pushed == IF flushed THEN first ELSE sent
  <1>1. /\ state[c] = "proxy"
        /\ Set(state, c, "connected")
        /\ Set(todo, c, todo[c] - pushed)
        /\ Set(closer, c, ~flushed)
        /\ IF flushed THEN Decide(<<"send", c>>, "success") ELSE UNCHANGED suite
        /\ UNCHANGED <<checked, stream, server, faulty, bad>>
    BY Zenon DEF Connected
  <1>2. flushed => todo[c] - pushed = 0
    BY Numbers DEF Types
  <1> HIDE DEF pushed, flushed
  <1>3. /\ Checked(c)' = Checked(c)
        /\ flushed => Sent(c)' = "success"
        /\ Sent(c)' \in {"not done", "success"}
    BY <1>1, SuiteSame, SendDecided DEF Types, Sent, Checked, Served, Begun
  <1>4. state'[c] = "connected" /\ (flushed \/ closer'[c]) /\ todo'[c] = todo[c] - pushed
    BY <1>1 DEF Types, ClientTypes, PieceTypes, Set
  <1>5. closer'[c] \/ (todo'[c] = 0 /\ Sent(c)' = "success")
    BY <1>2, <1>3, <1>4
  <1> QED BY <1>1, <1>3, <1>4, <1>5, PushServes

LEMMA ConnectServes ==
  ASSUME Types, CountsAgree, NEW c \in Clients, Good(c), Served(c), Connect(c)
  PROVE  Served(c)'
  <1> DEFINE sent == Least(1, todo[c])
  <1>1. /\ Set(state, c, "connected")
        /\ Set(todo, c, todo[c] - sent)
        /\ Set(closer, c, sent = 1)
        /\ IF sent = 1 THEN UNCHANGED suite ELSE Decide(<<"send", c>>, "success")
        /\ UNCHANGED <<checked, stream, server, faulty, bad>>
    BY Zenon DEF Connect
  <1>2. sent # 1 => todo[c] - sent = 0
    BY Numbers DEF Types, Least
  <1> HIDE DEF sent
  <1>3. /\ Checked(c)' = Checked(c)
        /\ sent # 1 => Sent(c)' = "success"
        /\ Sent(c)' \in {"not done", "success"}
    BY <1>1, SuiteSame, SendDecided DEF Types, Sent, Checked, Served, Begun
  <1>4. state'[c] = "connected" /\ (sent # 1 \/ closer'[c]) /\ todo'[c] = todo[c] - sent
    BY <1>1 DEF Types, ClientTypes, PieceTypes, Set
  <1>5. closer'[c] \/ (todo'[c] = 0 /\ Sent(c)' = "success")
    BY <1>2, <1>3, <1>4
  <1> QED BY <1>1, <1>3, <1>4, <1>5, PushServes

LEMMA SendPieceServes ==
  ASSUME Types, CountsAgree, NEW c \in Clients, Good(c), Served(c), SendPiece(c)
  PROVE  Served(c)'
  <1>1. todo[c] # 0 /\ state[c] = "connected"
    BY Numbers DEF SendPiece, Types
  <1>2. closer[c]
    BY <1>1 DEF Served, Begun
  <1>3. Sent(c)' = Sent(c) /\ Checked(c)' = Checked(c)
    BY SuiteSame DEF Types, SendPiece, Sent, Checked
  <1>4. UNCHANGED <<state, closer, stream, server, checked, faulty, bad>>
    BY DEF SendPiece
  <1> QED BY <1>1, <1>2, <1>3, <1>4, PushServes DEF Served, Begun

\* What the checker of a client says when n more pieces have come. The data of a
\* client that is not faulty is never bad.
LEMMA Verdict ==
  ASSUME Types, CountsAgree, NEW c \in Clients, NEW n \in Nat \ {0}, Good(c), Served(c),
         Checked(c) # "unknown",
         \/ consume(c, n) = "succeeded" /\ Decide(<<"check", c>>, "success")
         \/ consume(c, n) = "failed" /\ Decide(<<"check", c>>, "failure")
         \/ consume(c, n) = "pending" /\ UNCHANGED suite
  PROVE  /\ Sent(c)' = Sent(c)
         /\ Checked(c)' = "success" => Pieces # 0
         /\ c \notin faulty => /\ consume(c, n) # "failed" /\ Checked(c)' # "failure"
                               /\ Checked(c) = "success" => Checked(c)' = "success"
                               /\ consume(c, n) = "succeeded" => Checked(c)' = "success"
                               /\ consume(c, n) = "pending" => checked[c] + n # Pieces
  <1>1. Sent(c)' = Sent(c) /\ (Checked(c)' = "success" =>
                                 Checked(c) = "success" \/ checked[c] + n = Pieces)
    BY Consumed DEF Sent, Checked
  <1>2. checked[c] + n # 0
    BY Numbers DEF Types
  <1>3. Checked(c)' = "success" => Pieces # 0
    BY <1>1, <1>2 DEF Served, Begun
  <1>4. ASSUME c \notin faulty
        PROVE  /\ consume(c, n) # "failed" /\ Checked(c)' # "failure"
               /\ Checked(c) = "success" => Checked(c)' = "success"
               /\ consume(c, n) = "succeeded" => Checked(c)' = "success"
               /\ consume(c, n) = "pending" => checked[c] + n # Pieces
    <2>1. c \notin bad /\ Checked(c) \in {"not done", "success"}
      BY <1>4, Names DEF Served, Sound, Types, SuiteTypes, Statuses, Checked
    <2>2. consume(c, n) = IF checked[c] + n = Pieces THEN "succeeded" ELSE "pending"
      BY <2>1 DEF consume
    <2>3. CASE consume(c, n) = "succeeded" /\ Decide(<<"check", c>>, "success")
      BY <2>1, <2>3, CheckDecided DEF Types, Checked
    <2>4. CASE consume(c, n) = "pending" /\ UNCHANGED suite
      <3>1. Checked(c)' = Checked(c)
        BY <2>4, SuiteSame DEF Types, Checked
      <3> QED BY <2>1, <2>2, <2>4, <3>1
    <2> QED BY <2>2, <2>3, <2>4
  <1> QED BY <1>1, <1>3, <1>4

LEMMA CheckServes ==
  ASSUME Types, CountsAgree, NEW c \in Clients, NEW n \in 1..back[c], Good(c), Served(c), mode.echo,
         Check(c, n)
  PROVE  Served(c)'
  <1>1. n \in Nat \ {0} /\ checked'[c] = checked[c] + n
    BY Numbers DEF Types, PieceTypes, Check, Set
  <1>2. Checked(c) # "unknown"
    BY DEF Good, Told, Checked
  <1>3. /\ state[c] = "connected"
        /\ UNCHANGED <<todo, closer, stream, server, faulty, bad>>
        /\ \/ consume(c, n) = "succeeded" /\ state'[c] = "closed" /\ Decide(<<"check", c>>, "success")
           \/ consume(c, n) = "failed" /\ state'[c] = "closed" /\ Decide(<<"check", c>>, "failure")
           \/ consume(c, n) = "pending" /\ state' = state /\ UNCHANGED suite
    BY DEF Types, ClientTypes, Check, Set
  <1>4. /\ Sent(c)' = Sent(c)
        /\ Checked(c)' = "success" => Pieces # 0
        /\ c \notin faulty => /\ consume(c, n) # "failed" /\ Checked(c)' # "failure"
                              /\ Checked(c) = "success" => Checked(c)' = "success"
                              /\ consume(c, n) = "succeeded" => Checked(c)' = "success"
                              /\ consume(c, n) = "pending" => checked[c] + n # Pieces
    BY <1>1, <1>2, <1>3, Verdict
  <1>5. Begun(c)'
    BY <1>3, <1>4 DEF Served, Begun
  <1>6. ASSUME c \notin faulty
        PROVE  Sound(c)'
    BY <1>1, <1>3, <1>4, <1>6 DEF Served, Sound
  <1> QED BY <1>3, <1>5, <1>6 DEF Served

LEMMA SinkServes ==
  ASSUME Types, CountsAgree, NEW c \in Clients, NEW n \in 1..arrived[c], Good(c), Served(c),
         server[c] = "open", Sink(c, n)
  PROVE  Served(c)'
  <1>1. n \in Nat \ {0} /\ checked'[c] = checked[c] + n
    BY Numbers DEF Types, PieceTypes, Sink, Set
  <1>2. Checked(c) # "unknown"
    BY DEF Good, Told, Checked
  <1>3. /\ UNCHANGED <<state, todo, closer, stream, faulty, bad>>
        /\ \/ consume(c, n) = "succeeded" /\ server'[c] = "closed" /\ Decide(<<"check", c>>, "success")
           \/ consume(c, n) = "failed" /\ server'[c] = "closed" /\ Decide(<<"check", c>>, "failure")
           \/ consume(c, n) = "pending" /\ server' = server /\ UNCHANGED suite
    BY DEF Types, ClientTypes, Sink, Set
  <1>4. /\ Sent(c)' = Sent(c)
        /\ Checked(c)' = "success" => Pieces # 0
        /\ c \notin faulty => /\ consume(c, n) # "failed" /\ Checked(c)' # "failure"
                              /\ Checked(c) = "success" => Checked(c)' = "success"
                              /\ consume(c, n) = "succeeded" => Checked(c)' = "success"
                              /\ consume(c, n) = "pending" => checked[c] + n # Pieces
    BY <1>1, <1>2, <1>3, Verdict
  <1>5. Begun(c)'
    BY <1>3, <1>4 DEF Served, Begun
  <1>6. ASSUME c \notin faulty
        PROVE  Sound(c)'
    BY <1>1, <1>3, <1>4, <1>6 DEF Served, Sound
  <1> QED BY <1>3, <1>5, <1>6 DEF Served

LEMMA EchoServes ==
  ASSUME Types, CountsAgree, NEW c \in Clients, Served(c), NEW n \in Nat, NEW sent \in Nat,
         Echo(c, n, sent)
  PROVE  Served(c)'
  <1>1. Sent(c)' = Sent(c) /\ Checked(c)' = Checked(c)
    BY SuiteSame DEF Types, Echo, Sent, Checked
  <1>2. UNCHANGED <<state, todo, closer, checked, stream, server, faulty, bad>>
    BY DEF Echo, client
  <1>3. Begun(c)'
    BY <1>1, <1>2 DEF Served, Begun
  <1>4. ASSUME c \notin faulty
        PROVE  Sound(c)'
    BY <1>1, <1>2, <1>4 DEF Served, Sound
  <1> QED BY <1>2, <1>3, <1>4 DEF Served

\* A server closes without a word only when its client is no longer there.
LEMMA ServerServes ==
  ASSUME Types, CountsAgree, NEW c \in Clients, Served(c), server[c] = "open", Broken(c),
         Set(server, c, "closed"),
         UNCHANGED <<client, stream, buf, arrived, echo, back, faulty, bad, suite>>
  PROVE  Served(c)'
  <1>1. Sent(c)' = Sent(c) /\ Checked(c)' = Checked(c)
    BY SuiteSame DEF Types, Sent, Checked
  <1>2. UNCHANGED <<state, todo, closer, checked, stream, faulty, bad>> /\ server'[c] = "closed"
    BY DEF Types, ClientTypes, Set, client
  <1>3. Begun(c)'
    BY <1>1, <1>2 DEF Served, Begun
  <1>4. ASSUME c \notin faulty
        PROVE  Sound(c)'
    <2>1. state[c] = "closed"
      BY <1>4 DEF Served, Sound, Broken, Open
    <2> QED BY <1>1, <1>2, <1>4, <2>1 DEF Served, Sound
  <1> QED BY <1>2, <1>3, <1>4 DEF Served

\* Without echo nothing comes back.
Direct(c) == ~mode.echo => echo[c] = 0 /\ back[c] = 0

LEMMA ServeDirect ==
  ASSUME Types, NEW c \in Clients, Direct(c), NEW p \in Phases, Serve(p, c)
  PROVE  Direct(c)'
  <1> SUFFICES ASSUME ~mode'.echo
               PROVE  echo'[c] = 0 /\ back'[c] = 0
    BY DEF Direct
  <1>1. mode' = mode
    BY DEF Serve, Accept, ReadClient, ReadServer, WriteClient, WriteServer, Connected, Rejected, Check,
           Close, Echo, Sink, Request, Connect, SendPiece, Flush, client
  <1>2. ~mode.echo /\ echo[c] = 0 /\ back[c] = 0
    BY <1>1 DEF Direct
  <1>3. CASE WriteServer(c)
    <2>1. PICK sent \in 0..Pieces : Echo(c, 0, sent)
      BY <1>3 DEF WriteServer
    <2>2. sent \in Nat /\ sent <= 0 + 0
      BY <1>2, <2>1, Sizes DEF Echo
    <2>3. sent = 0
      BY <2>2
    <2>4. echo'[c] = echo[c] + 0 - sent /\ back'[c] = back[c] + sent
      BY <2>1 DEF Echo, Set, Types, PieceTypes
    <2> QED BY <1>2, <2>3, <2>4
  <1>4. ASSUME NEW n \in 1..back[c]
        PROVE  FALSE
    BY <1>2
  <1>5. CASE echo' = echo /\ back' = back
    BY <1>2, <1>5
  <1>6. WriteServer(c) \/ (echo' = echo /\ back' = back)
    BY <1>2, <1>4 DEF Serve, Accept, ReadClient, ReadServer, WriteClient, Connected, Rejected,
           Close, Sink, Request, Connect, SendPiece, Flush, net
  <1> QED BY <1>3, <1>5, <1>6

-----------------------------------------------------------------------------
(* The events of a client, and the data it has not handed over yet.        *)

Ev(p, c) == [phase |-> p, who |-> c]

\* A server that is to be read still has something to read.
Late(c) == Ev(3, c) \in ready => arrived[c] > 0 \/ Broken(c)

Pending(c) == todo[c] + buf[c] + arrived[c] > 0

\* Before the last piece of a client is read by its server, or in the same select, the
\* client is called to write, and finds out that it has sent everything.
Flushing(c) ==
  /\ state[c] = "connected" /\ closer[c] =>
       /\ Pending(c) \/ (Ev(4, c) \in ready /\ \A e \in ready : e.phase \in {3, 4, 5})
       /\ Ev(4, c) \in ready \/ Ev(3, c) \notin ready
  /\ state[c] = "closed" => Sent(c) = "success"

\* What a handler finds and leaves of the events.
Called(p, c) ==
  /\ Ev(p, c) \in ready
  /\ \A d \in ready : d.phase \in Phases /\ p <= d.phase
  /\ ready' = ready \ {Ev(p, c)}

LEMMA ServeLate ==
  ASSUME Types, NEW c \in Clients, Late(c), NEW p \in Phases, Serve(p, c), ready' = ready \ {Ev(p, c)}
  PROVE  Late(c)'
  <1> SUFFICES ASSUME Ev(3, c) \in ready'
               PROVE  arrived'[c] > 0 \/ Broken(c)'
    BY DEF Late, Ev
  <1>1. p # 3 /\ (arrived[c] > 0 \/ Broken(c))
    BY DEF Late
  <1>2. arrived'[c] = arrived[c]
    <2>1. ASSUME NEW sent \in 0..Pieces, Echo(c, 0, sent)
          PROVE  arrived'[c] = arrived[c]
      <3>1. arrived'[c] = arrived[c] - 0
        BY <2>1 DEF Echo, Set, Types, PieceTypes
      <3> QED BY <3>1, Numbers DEF Types
    <2>2. CASE ~WriteServer(c)
      BY <1>1, <2>2 DEF Serve, Accept, ReadClient, WriteClient, Connected, Rejected, Check,
             Close, Request, Connect, SendPiece, Flush, net
    <2> QED BY <2>1, <2>2 DEF WriteServer
  <1>3. Broken(c) => Broken(c)'
    BY <1>1 DEF Broken, Open, Types, ClientTypes, Set, Serve, Accept, ReadClient, WriteClient, WriteServer,
             Connected, Rejected, Check, Close, Echo, Request, Connect, SendPiece, Flush, net, client
  <1> QED BY <1>1, <1>2, <1>3

\* A client with verified data has handed over all of it (in the next state).
LEMMA VerifiedIsSent ==
  ASSUME Types', NEW c \in Clients, Good(c)', Served(c)', Checked(c)' = "success"
  PROVE  ~Pending(c)' /\ todo'[c] = 0 /\ Pieces # 0
  <1>1. checked'[c] = Pieces /\ Pieces # 0
    BY DEF Good, Told, Served, Begun, Checked
  <1>2. /\ todo'[c] \in Nat /\ buf'[c] \in Nat /\ arrived'[c] \in Nat
        /\ echo'[c] \in Nat /\ back'[c] \in Nat /\ checked'[c] \in Nat
    BY DEF Types, PieceTypes
  <1>3. todo'[c] + buf'[c] + arrived'[c] + echo'[c] + back'[c] + checked'[c] = Pieces
    BY DEF Good, Kept
  <1>4. todo'[c] + buf'[c] + arrived'[c] = 0 /\ todo'[c] = 0
    <2>1. Pieces \in Nat
      BY Sizes
    <2> DEFINE a == todo'[c]
               b == buf'[c]
               d == arrived'[c]
               e == echo'[c]
               f == back'[c]
               g == checked'[c]
    <2>2. /\ a \in Nat /\ b \in Nat /\ d \in Nat /\ e \in Nat /\ f \in Nat
          /\ a + b + d + e + f + g = g /\ g \in Nat
      BY <1>1, <1>2, <1>3, Zenon
    <2> HIDE DEF a, b, d, e, f, g
    <2>3. a + b + d = 0 /\ a = 0
      BY <2>2
    <2> QED BY <2>3 DEF a, b, d
  <1> QED BY <1>1, <1>4 DEF Pending

\* What is not sent or flushed stays so in a handler that does not write.
LEMMA Steady ==
  ASSUME NEW c \in Clients, NEW p \in Phases \ {4}, Called(p, c), Flushing(c),
         state'[c] = state[c], closer'[c] = closer[c], Sent(c)' = Sent(c),
         p = 3 \/ (Pending(c) => Pending(c)')
  PROVE  Flushing(c)'
  <1>1. /\ Ev(4, c) \in ready => Ev(4, c) \in ready'
        /\ Ev(3, c) \notin ready => Ev(3, c) \notin ready'
        /\ \A d \in ready' : d \in ready /\ d.phase \in Phases /\ p <= d.phase
    BY DEF Called, Ev
  <1>2. CASE p = 3
    <2>1. Ev(3, c) \in ready /\ \A d \in ready' : d.phase \in {3, 4, 5}
      BY <1>1, <1>2 DEF Called, Phases
    <2> QED BY <1>1, <2>1 DEF Flushing
  <1>3. CASE p # 3 /\ (Pending(c) => Pending(c)')
    <2>1. (\A d \in ready : d.phase \in {3, 4, 5}) => \A d \in ready' : d.phase \in {3, 4, 5}
      BY <1>1
    <2> QED BY <1>1, <1>3, <2>1 DEF Flushing
  <1> QED BY <1>2, <1>3

\* An end of the client in the phase that reads clients comes after its last flush.
LEMMA ClosedFlushed ==
  ASSUME Types, Types', NEW c \in Clients, Good(c), Good(c)', Served(c), Served(c)', c \notin faulty',
         Called(2, c), Flushing(c), state'[c] = "closed", Sent(c)' = Sent(c),
         todo'[c] = todo[c], Pending(c)' = Pending(c)
  PROVE  Flushing(c)'
  <1>1. Checked(c)' = "success"
    BY DEF Served, Sound
  <1>2. ~Pending(c)' /\ todo'[c] = 0 /\ Pieces # 0
    BY <1>1, VerifiedIsSent
  <1>3. Ev(2, c).phase \notin {3, 4, 5}
    BY DEF Ev
  <1>4. Sent(c) = "success"
    <2>1. state[c] \in {"connected", "closed"}
      BY <1>2 DEF Served, Begun, Types, ClientTypes
    <2>2. CASE state[c] = "connected"
      BY <1>2, <1>3, <2>2 DEF Flushing, Called, Served, Begun, Types, ClientTypes
    <2>3. CASE state[c] = "closed"
      BY <2>3 DEF Flushing
    <2> QED BY <2>1, <2>2, <2>3
  <1> QED BY <1>4 DEF Flushing

\* A client that is called to write goes on to be called, or has sent everything.
LEMMA WriteFlushes ==
  ASSUME Types, CountsAgree, NEW c \in Clients, Good(c), Served(c), c \notin faulty,
         Types', Good(c)', Served(c)',
         Called(4, c), Flushing(c), WriteClient(c)
  PROVE  Flushing(c)'
  <1>1. Ev(3, c) \notin ready'
    <2>1. Ev(3, c).phase = 3
      BY DEF Ev
    <2> QED BY <2>1 DEF Called
  <1>2. CASE Request(c)
    <2>1. state'[c] = "proxy"
      BY <1>2 DEF Request, Set, Types, ClientTypes
    <2> QED BY <2>1 DEF Flushing
  <1>3. CASE Connect(c)
    <2>1. state'[c] = "connected" /\ (closer'[c] => buf'[c] = buf[c] + 1)
      BY <1>3 DEF Connect, Set, Types, ClientTypes, PieceTypes
    <2>2. closer'[c] => Pending(c)'
      <3>1. todo'[c] \in Nat /\ arrived'[c] \in Nat /\ buf[c] \in Nat
        BY DEF Types, PieceTypes
      <3> QED BY <2>1, <3>1 DEF Pending
    <2> QED BY <1>1, <2>1, <2>2 DEF Flushing
  <1>4. CASE SendPiece(c)
    <2>1. state'[c] = "connected" /\ buf'[c] = buf[c] + 1
      BY <1>4 DEF SendPiece, Set, Types, ClientTypes, PieceTypes
    <2>2. Pending(c)'
      <3>1. todo'[c] \in Nat /\ arrived'[c] \in Nat /\ buf[c] \in Nat
        BY DEF Types, PieceTypes
      <3> QED BY <2>1, <3>1 DEF Pending
    <2> QED BY <1>1, <2>1, <2>2 DEF Flushing
  <1>5. CASE Flush(c)
    <2>1. state'[c] = "connected" /\ ~closer'[c]
      BY <1>5 DEF Flush, Set, Types, ClientTypes
    <2> QED BY <2>1 DEF Flushing
  <1>6. ASSUME Close(c), stream[c] = "refused" \/ (state[c] = "connected" /\ todo[c] > 0 /\ stream[c] = "eof")
        PROVE  FALSE
    <2>1. todo[c] > 0 /\ server[c] = "closed"
      BY <1>6 DEF Served, Sound
    <2>2. todo'[c] = todo[c] /\ server'[c] = server[c] /\ faulty' = faulty
      BY <1>6 DEF Close, net
    <2>3. Checked(c)' = "success"
      BY <2>1, <2>2 DEF Served, Sound
    <2>4. todo'[c] = 0
      BY <2>3, VerifiedIsSent
    <2> QED BY <2>1, <2>2, <2>4
  <1> QED BY <1>2, <1>3, <1>4, <1>5, <1>6 DEF WriteClient

\* The answer of the proxy comes before anything is there for the server to read.
LEMMA ConnectedFlushes ==
  ASSUME Types, CountsAgree, NEW c \in Clients, Good(c), Served(c), Late(c), Types',
         Called(2, c), Connected(c)
  PROVE  Flushing(c)'
  <1> DEFINE sent == Least(Least(2, todo[c]), Cap[c] - buf[c])
             first == Least(sent, 1)
             flushed == todo[c] = first
             pushed == IF flushed THEN first ELSE sent
  <1>1. /\ state[c] = "proxy" /\ stream[c] = "granted"
        /\ Set(state, c, "connected")
        /\ Set(todo, c, todo[c] - pushed) /\ Set(buf, c, buf[c] + pushed)
        /\ Set(closer, c, ~flushed)
        /\ arrived' = arrived
    BY Zenon DEF Connected
  <1>2. /\ todo[c] \in Nat /\ buf[c] \in Nat /\ arrived[c] \in Nat /\ Cap[c] \in Nat
        /\ buf[c] <= Cap[c]
    BY Numbers, Sizes DEF Types, Good, Kept
  <1>3. /\ ~flushed => todo[c] > 0
        /\ pushed \in Nat
    BY <1>2 DEF Least
  <1> HIDE DEF pushed, flushed
  <1>4. /\ state'[c] = "connected" /\ (closer'[c] => ~flushed)
        /\ todo'[c] = todo[c] - pushed /\ buf'[c] = buf[c] + pushed /\ arrived'[c] = arrived[c]
    BY <1>1 DEF Set, Types, ClientTypes, PieceTypes
  <1>5. closer'[c] => Pending(c)'
    <2>1. todo[c] > 0 => todo[c] - pushed + (buf[c] + pushed) + arrived[c] > 0
      BY <1>2, <1>3
    <2> QED BY <1>3, <1>4, <2>1 DEF Pending
  <1>6. Ev(3, c) \notin ready'
    <2>1. todo[c] = Pieces
      BY <1>1 DEF Served, Begun
    <2>2. ~(arrived[c] > 0)
      BY <2>1, Numbers, Sizes DEF Types, Good, Kept
    <2>3. ~Broken(c)
      BY <1>1 DEF Broken, Open
    <2> QED BY <2>2, <2>3 DEF Late, Called
  <1> QED BY <1>4, <1>5, <1>6 DEF Flushing

LEMMA ServeFlushes ==
  ASSUME Types, CountsAgree, NEW c \in Clients, Good(c), Served(c), c \notin faulty, faulty' = faulty,
         Types', Good(c)', Served(c)', Late(c), NEW p \in Phases,
         Called(p, c), Flushing(c), Serve(p, c)
  PROVE  Flushing(c)'
  <1>1. CASE p = 1 /\ Accept(c)
    <2>1. Sent(c)' = Sent(c)
      <3>1. CASE mode.echo /\ UNCHANGED suite
        BY <3>1, SuiteSame DEF Types, Sent
      <3>2. CASE ~mode.echo /\ Register(<<"check", c>>)
        BY <3>2, Names DEF Register, Types, SuiteTypes, Sent
      <3> QED BY <1>1, <3>1, <3>2 DEF Accept
    <2>2. UNCHANGED <<state, closer, todo, buf, arrived>>
      BY <1>1 DEF Accept, client
    <2>3. Pending(c)' = Pending(c)
      BY <2>2 DEF Pending
    <2> QED BY <1>1, <2>1, <2>2, <2>3, Steady
  <1>2. CASE p = 2 /\ ReadClient(c)
    <2>1. CASE Connected(c)
      BY <1>2, <2>1, ConnectedFlushes
    <2>2. CASE Rejected(c)
      BY <2>2 DEF Rejected, Served, Sound
    <2>3. ASSUME NEW n \in 1..back[c], Check(c, n)
          PROVE  Flushing(c)'
      <3>1. Sent(c)' = Sent(c)
        <4>1. CASE UNCHANGED suite
          BY <4>1 DEF suite, Sent
        <4>2. ASSUME NEW o \in {"success", "failure"}, Decide(<<"check", c>>, o)
              PROVE  Sent(c)' = Sent(c)
          BY <4>2, CheckDecided DEF Types, Sent
        <4> QED BY <2>3, <4>1, <4>2 DEF Check
      <3>2. /\ UNCHANGED <<closer, todo, buf, arrived>>
            /\ state'[c] = state[c] \/ state'[c] = "closed"
        BY <2>3 DEF Check, Set, Types, ClientTypes
      <3>3. Pending(c)' = Pending(c)
        BY <3>2 DEF Pending
      <3>4. CASE state'[c] = state[c]
        BY <1>2, <3>1, <3>2, <3>3, <3>4, Steady
      <3>5. CASE state'[c] = "closed"
        BY <1>2, <3>1, <3>2, <3>3, <3>5, ClosedFlushed
      <3> QED BY <3>2, <3>4, <3>5
    <2>4. CASE Close(c)
      <3>1. Sent(c)' = Sent(c)
        BY <2>4, SuiteSame DEF Close, Types, Sent
      <3>2. UNCHANGED <<todo, buf, arrived>> /\ state'[c] = "closed"
        BY <2>4 DEF Close, net, Set, Types, ClientTypes
      <3>3. Pending(c)' = Pending(c)
        BY <3>2 DEF Pending
      <3> QED BY <1>2, <3>1, <3>2, <3>3, ClosedFlushed
    <2> QED BY <1>2, <2>1, <2>2, <2>3, <2>4 DEF ReadClient
  <1>3. CASE p = 3 /\ server[c] = "open" /\ ReadServer(c)
    <2>1. Sent(c)' = Sent(c)
      <3>1. CASE UNCHANGED suite
        BY <3>1 DEF suite, Sent
      <3>2. ASSUME NEW o \in {"success", "failure"}, Decide(<<"check", c>>, o)
            PROVE  Sent(c)' = Sent(c)
        BY <3>2, CheckDecided DEF Types, Sent
      <3> QED BY <1>3, <3>1, <3>2 DEF ReadServer, Echo, Sink
    <2>2. UNCHANGED <<state, closer>>
      BY <1>3 DEF ReadServer, Echo, Sink, client
    <2> QED BY <1>3, <2>1, <2>2, Steady
  <1>4. CASE p = 4 /\ WriteClient(c)
    BY <1>4, WriteFlushes
  <1>5. CASE p = 5 /\ server[c] = "open" /\ WriteServer(c)
    <2>1. PICK sent \in 0..Pieces : Echo(c, 0, sent)
      BY <1>5 DEF WriteServer
    <2>2. UNCHANGED <<state, closer, todo, buf, suite>> /\ arrived'[c] = arrived[c] - 0
      BY <2>1 DEF Echo, client, Set, Types, PieceTypes
    <2>3. arrived'[c] = arrived[c]
      BY <2>2, Numbers DEF Types
    <2>4. Pending(c)' = Pending(c)
      BY <2>2, <2>3 DEF Pending
    <2>5. Sent(c)' = Sent(c)
      BY <2>2 DEF suite, Sent
    <2> QED BY <1>5, <2>2, <2>4, <2>5, Steady
  <1> QED BY <1>1, <1>2, <1>3, <1>4, <1>5 DEF Serve

LEMMA ServeServes ==
  ASSUME Types, CountsAgree, NEW c \in Clients, NEW p \in Phases, Good(c), Fresh(p, c), Direct(c),
         Served(c), p = 3 => arrived[c] > 0 \/ Broken(c), Serve(p, c)
  PROVE  Served(c)'
  <1>1. CASE p = 1 /\ Accept(c)
    BY <1>1, AcceptServes DEF Fresh
  <1>2. CASE p = 2 /\ ReadClient(c)
    <2>1. ASSUME NEW n \in 1..back[c], Check(c, n)
          PROVE  Served(c)'
      <3>1. mode.echo
        BY DEF Direct
      <3> QED BY <2>1, <3>1, CheckServes
    <2> QED BY <1>2, <2>1, ConnectedServes, RejectedServes, CloseServes DEF ReadClient
  <1>3. CASE p = 3 /\ server[c] = "open" /\ ReadServer(c)
    <2>1. ASSUME NEW n \in 1..arrived[c], NEW sent \in 0..Pieces, Echo(c, n, sent)
          PROVE  Served(c)'
      <3>1. n \in Nat /\ sent \in Nat
        BY Numbers, Sizes DEF Types
      <3> QED BY <2>1, <3>1, EchoServes
    <2>2. ASSUME NEW n \in 1..arrived[c], Sink(c, n)
          PROVE  Served(c)'
      BY <1>3, <2>2, SinkServes
    <2>3. ASSUME arrived[c] = 0, Set(server, c, "closed"),
                 UNCHANGED <<client, stream, buf, arrived, echo, back, faulty, bad, suite>>
          PROVE  Served(c)'
      BY <1>3, <2>3, ServerServes
    <2> QED BY <1>3, <2>1, <2>2, <2>3 DEF ReadServer
  <1>4. CASE p = 4 /\ WriteClient(c)
    BY <1>4, RequestServes, ConnectServes, SendPieceServes, FlushServes, CloseServes DEF WriteClient
  <1>5. CASE p = 5 /\ server[c] = "open" /\ WriteServer(c)
    <2>1. PICK sent \in 0..Pieces : Echo(c, 0, sent)
      BY <1>5 DEF WriteServer
    <2>2. 0 \in Nat /\ sent \in Nat
      BY Sizes
    <2> QED BY <2>1, <2>2, EchoServes
  <1> QED BY <1>1, <1>2, <1>3, <1>4, <1>5 DEF Serve

LEMMA OthersServe ==
  ASSUME NEW c \in Clients, Only(c), Others(c), NEW d \in Clients, d # c
  PROVE  /\ Served(d) => Served(d)'
         /\ Direct(d) => Direct(d)'
  <1>1. d \in Clients \ {c}
    OBVIOUS
  <1>2. /\ state'[d] = state[d] /\ todo'[d] = todo[d] /\ closer'[d] = closer[d] /\ stream'[d] = stream[d]
        /\ server'[d] = server[d] /\ checked'[d] = checked[d] /\ echo'[d] = echo[d] /\ back'[d] = back[d]
        /\ mode' = mode /\ (d \in bad' <=> d \in bad) /\ (d \in faulty' <=> d \in faulty)
    BY <1>1 DEF Only
  <1>3. Sent(d)' = Sent(d) /\ Checked(d)' = Checked(d)
    BY <1>1 DEF Others, Sent, Checked
  <1>4. Begun(d) => Begun(d)'
    BY <1>2, <1>3 DEF Begun
  <1>5. Sound(d) => Sound(d)'
    BY <1>2, <1>3 DEF Sound
  <1> QED BY <1>2, <1>4, <1>5 DEF Served, Direct

\* The events of another client stay as they are; some that are before them are gone.
LEMMA OthersFlush ==
  ASSUME NEW c \in Clients, Only(c), Others(c), NEW d \in Clients, d # c,
         \/ ready' = ready
         \/ \E p \in Phases : ready' = ready \ {Ev(p, c)}
  PROVE  /\ Late(d) => Late(d)'
         /\ Flushing(d) => Flushing(d)'
  <1>1. d \in Clients \ {c}
    OBVIOUS
  <1>2. /\ state'[d] = state[d] /\ todo'[d] = todo[d] /\ closer'[d] = closer[d] /\ stream'[d] = stream[d]
        /\ buf'[d] = buf[d] /\ arrived'[d] = arrived[d] /\ Sent(d)' = Sent(d)
    BY <1>1 DEF Only, Others, Sent
  <1>3. /\ \A q \in Phases : Ev(q, d) \in ready' <=> Ev(q, d) \in ready
        /\ \A e \in ready' : e \in ready
    BY DEF Ev
  <1>4. Late(d) => Late(d)'
    <2>1. Broken(d) => Broken(d)'
      BY <1>2 DEF Broken, Open
    <2> QED BY <1>2, <1>3, <2>1 DEF Late, Phases
  <1>5. Flushing(d) => Flushing(d)'
    <2>1. Pending(d)' = Pending(d)
      BY <1>2 DEF Pending
    <2>2. /\ Ev(3, d) \in ready' <=> Ev(3, d) \in ready
          /\ Ev(4, d) \in ready' <=> Ev(4, d) \in ready
          /\ (\A e \in ready : e.phase \in {3, 4, 5}) => \A e \in ready' : e.phase \in {3, 4, 5}
      BY <1>3 DEF Phases
    <2> QED BY <1>2, <2>1, <2>2 DEF Flushing
  <1> QED BY <1>4, <1>5

-----------------------------------------------------------------------------
(* The invariant.                                                          *)

Attended(c) == c \notin faulty /\ Cap[c] > Pieces => Flushing(c)

AllServed == \A c \in Clients : Served(c) /\ Direct(c) /\ Late(c) /\ Attended(c)

SInv ==
  /\ IInv
  /\ pc = "select" => ready = {}
  /\ AllServed

LEMMA HandleServes ==
  ASSUME IInv, IInv', AllServed, NEW e \in ready, Handle(e)
  PROVE  AllServed'
  <1> DEFINE p == e.phase
             c == e.who
  <1>1. /\ Types /\ Types' /\ CountsAgree
        /\ p \in Phases /\ c \in Clients /\ e = Ev(p, c)
        /\ Good(c) /\ Good(c)' /\ Fresh(p, c)
        /\ Served(c) /\ Direct(c) /\ Late(c) /\ Attended(c)
    BY DEF IInv, LoopTypes, Good, AllServed, Ev
  <1>2. ready' = ready \ {Ev(p, c)} /\ Called(p, c)
    BY <1>1 DEF Handle, Called, IInv, LoopTypes
  <1>3. CASE Gone(e) /\ UNCHANGED <<client, net, suite>>
    <2>1. ASSUME NEW d \in Clients
          PROVE  Served(d)' /\ Direct(d)' /\ Late(d)' /\ Attended(d)'
      <3>1. Served(d) /\ Direct(d) /\ Late(d) /\ Attended(d)
        BY DEF AllServed
      <3>2. Sent(d)' = Sent(d) /\ Checked(d)' = Checked(d) /\ Pending(d)' = Pending(d)
        BY <1>3 DEF client, net, suite, Sent, Checked, Pending
      <3>3. Served(d)' /\ Direct(d)'
        BY <1>3, <3>1, <3>2 DEF client, net, Served, Begun, Sound, Direct
      <3>4. Late(d)'
        BY <1>2, <1>3, <3>1 DEF client, net, Late, Broken, Open
      <3>5. Flushing(d) => Flushing(d)'
        <4>1. CASE d # c
          <5>1. Only(c) /\ Others(c)
            BY <1>3 DEF client, net, suite, Only, Others
          <5> QED BY <1>1, <1>2, <4>1, <5>1, OthersFlush
        <4>2. CASE d = c /\ p # 4
          BY <1>1, <1>2, <1>3, <3>2, <4>2, Steady DEF client
        <4>3. CASE d = c /\ p = 4
          <5>1. state[d] = "closed"
            BY <1>3, <4>3 DEF Gone, Open
          <5> QED BY <1>3, <3>2, <5>1 DEF Flushing, client
        <4> QED BY <4>1, <4>2, <4>3
      <3> QED BY <1>3, <3>1, <3>3, <3>4, <3>5 DEF Attended, net
    <2> QED BY <2>1 DEF AllServed
  <1>4. CASE Serve(p, c)
    <2>1. Handled(c)
      BY <1>1, <1>4, ServeKeeps
    <2>2. Only(c) /\ Others(c)
      BY <2>1 DEF Handled, Keeps
    <2>3. faulty' = faulty
      BY <1>4 DEF Serve, Accept, ReadClient, ReadServer, WriteClient, WriteServer, Connected, Rejected, Check,
                  Close, Echo, Sink, Request, Connect, SendPiece, Flush, net
    <2>4. Served(c)'
      <3>1. p = 3 => arrived[c] > 0 \/ Broken(c)
        BY <1>1 DEF Late
      <3> QED BY <1>1, <1>4, <3>1, ServeServes
    <2>5. Direct(c)' /\ Late(c)'
      BY <1>1, <1>2, <1>4, ServeDirect, ServeLate
    <2>6. Attended(c)'
      BY <1>1, <1>2, <1>4, <2>3, <2>4, ServeFlushes DEF Attended
    <2>7. ASSUME NEW d \in Clients, d # c
          PROVE  Served(d)' /\ Direct(d)' /\ Late(d)' /\ Attended(d)'
      <3>1. Served(d) /\ Direct(d) /\ Late(d) /\ Attended(d)
        BY DEF AllServed
      <3> QED BY <1>1, <1>2, <2>2, <2>3, <2>7, <3>1, OthersServe, OthersFlush DEF Attended
    <2> QED BY <2>4, <2>5, <2>6, <2>7 DEF AllServed
  <1>5. (Gone(e) /\ UNCHANGED <<client, net, suite>>) \/ Serve(p, c)
    BY DEF Handle, Gone, Serve
  <1> QED BY <1>3, <1>4, <1>5

LEMMA TorAttends ==
  ASSUME IInv, IInv', AllServed, Tor
  PROVE  AllServed'
  <1>1. PICK c \in Clients :
          AcceptClient(c) \/ GrantStream(c) \/ Carry(c) \/ EndStream(c) \/ BreakStream(c) \/ Corrupt(c)
    BY DEF Tor
  <1>2. UNCHANGED <<client, echo, back, suite, pc, ready, result>>
    BY DEF Tor
  <1>3. Types /\ CountsAgree /\ Good(c) /\ Served(c) /\ Direct(c) /\ Late(c) /\ Attended(c)
    BY DEF IInv, Good, AllServed
  <1>4. Keeps(c)
    BY <1>1, <1>2, <1>3, TorKeeps
  <1>5. Only(c) /\ Others(c)
    BY <1>2, <1>3, <1>4, SuiteSame DEF Types, Keeps
  <1>6. Served(c)'
    BY <1>1, <1>2, <1>3, TorServes
  <1>7. Direct(c)'
    BY <1>2, <1>3 DEF Direct, client
  <1>8. /\ Pending(c)' = Pending(c)
        /\ arrived[c] > 0 => arrived'[c] > 0
    <2>1. CASE Carry(c)
      <3>1. /\ buf'[c] = buf[c] - 1 /\ arrived'[c] = arrived[c] + 1 /\ todo' = todo
        BY <1>2, <1>3, <2>1 DEF Carry, Set, Types, PieceTypes, client
      <3>2. todo[c] \in Nat /\ buf[c] \in Nat /\ arrived[c] \in Nat
        BY <1>3, Numbers DEF Types
      <3>3. todo[c] + (buf[c] - 1) + (arrived[c] + 1) = todo[c] + buf[c] + arrived[c]
        BY <3>2
      <3>4. Pending(c)' = Pending(c)
        BY <3>1, <3>3 DEF Pending
      <3> QED BY <3>1, <3>2, <3>4
    <2>2. CASE ~Carry(c)
      BY <1>1, <1>2, <2>2 DEF Pending, client, AcceptClient, GrantStream, EndStream, BreakStream, Corrupt
    <2> QED BY <2>1, <2>2
  <1>9. Late(c)'
    <2>1. Broken(c) => Broken(c)'
      BY <1>1, <1>2, <1>3 DEF Broken, Open, client, Set, Types, ClientTypes,
         AcceptClient, GrantStream, Carry, EndStream, BreakStream, Corrupt
    <2> QED BY <1>2, <1>3, <1>8, <2>1 DEF Late
  <1>10. Attended(c)'
    <2>1. faulty \subseteq faulty'
      BY <1>1 DEF AcceptClient, GrantStream, Carry, EndStream, BreakStream, Corrupt
    <2>2. Sent(c)' = Sent(c) /\ state' = state /\ closer' = closer /\ ready' = ready
      BY <1>2 DEF client, suite, Sent
    <2>3. Flushing(c) => Flushing(c)'
      BY <1>8, <2>2 DEF Flushing
    <2> QED BY <1>3, <2>1, <2>3 DEF Attended
  <1>11. ASSUME NEW d \in Clients, d # c
         PROVE  Served(d)' /\ Direct(d)' /\ Late(d)' /\ Attended(d)'
    <2>1. Served(d) /\ Direct(d) /\ Late(d) /\ Attended(d)
      BY DEF AllServed
    <2>2. d \in faulty' <=> d \in faulty
      BY <1>5, <1>11 DEF Only
    <2> QED BY <1>2, <1>5, <1>11, <2>1, <2>2, OthersServe, OthersFlush DEF Attended
  <1> QED BY <1>6, <1>7, <1>9, <1>10, <1>11 DEF AllServed

\* A select finds a client that has data, or has yet to find out that it has none.
LEMMA SelectAttends ==
  ASSUME IInv, AllServed, ready = {},
         NEW accept \in SUBSET Clients, NEW readers \in SUBSET Clients, Select(accept, readers)
  PROVE  AllServed'
  <1> SUFFICES ASSUME NEW c \in Clients
               PROVE  Served(c)' /\ Direct(c)' /\ Late(c)' /\ Attended(c)'
    BY DEF AllServed
  <1>1. /\ Types /\ Good(c) /\ Served(c) /\ Direct(c) /\ Attended(c)
    BY DEF IInv, Good, AllServed
  <1>2. UNCHANGED <<client, net, suite>>
    BY DEF Select
  <1>3. Sent(c)' = Sent(c) /\ Checked(c)' = Checked(c) /\ Pending(c)' = Pending(c)
    BY <1>2 DEF client, net, suite, Sent, Checked, Pending
  <1>4. Served(c)' /\ Direct(c)'
    BY <1>1, <1>2, <1>3 DEF client, net, Served, Begun, Sound, Direct
  <1>5. ready' = UNION {Event(1, accept), Event(2, readers),
                        Event(3, {d \in Clients : ServerReadable(d)}),
                        Event(4, {d \in Clients : ClientWritable(d)}),
                        Event(5, {d \in Clients : ServerWritable(d)})}
    BY Zenon DEF Select
  <1>6. ASSUME Ev(3, c) \in ready'
        PROVE  ServerReadable(c)
    <2>1. Ev(3, c).phase = 3 /\ Ev(3, c).who = c
      BY DEF Ev
    <2>2. \A k \in {1, 2, 4, 5}, S \in SUBSET Clients : Ev(3, c) \notin Event(k, S)
      BY <2>1 DEF Event
    <2>3. /\ {d \in Clients : ClientWritable(d)} \in SUBSET Clients
          /\ {d \in Clients : ServerWritable(d)} \in SUBSET Clients
      OBVIOUS
    <2>4. Ev(3, c) \in Event(3, {d \in Clients : ServerReadable(d)})
      BY <1>5, <1>6, <2>2, <2>3
    <2> QED BY <2>1, <2>4 DEF Event
  <1>7. ClientWritable(c) => Ev(4, c) \in ready'
    BY <1>5 DEF Event, Ev
  <1>8. Late(c)'
    BY <1>2, <1>6 DEF Late, ServerReadable, Broken, Open, client, net
  <1>9. ASSUME c \notin faulty, Cap[c] > Pieces
        PROVE  Flushing(c)'
    <2>1. Flushing(c)
      BY <1>1, <1>9 DEF Attended
    <2>2. buf[c] < Cap[c]
      <3>1. buf[c] <= Pieces
        BY <1>1, Numbers, Sizes DEF Types, Good, Kept
      <3> QED BY <1>1, <1>9, <3>1, Numbers, Sizes DEF Types
    <2>3. state[c] = "connected" /\ closer[c] => Pending(c) /\ Ev(4, c) \in ready'
      BY <1>7, <2>1, <2>2 DEF Flushing, ClientWritable, Open
    <2> QED BY <1>2, <1>3, <2>1, <2>3 DEF Flushing, client
  <1> QED BY <1>2, <1>4, <1>8, <1>9 DEF Attended, net

LEMMA Unattended ==
  ASSUME AllServed, UNCHANGED <<client, net, suite, ready>>
  PROVE  AllServed'
  BY DEF AllServed, Served, Begun, Sound, Direct, Late, Attended, Flushing, Pending, Broken, Open,
         Sent, Checked, client, net, suite

LEMMA SInvStep == SInv /\ [Next]_vars => SInv'
  <1> SUFFICES ASSUME SInv, [Next]_vars
               PROVE  SInv'
    OBVIOUS
  <1>1. IInv /\ IInv' /\ AllServed /\ (pc = "select" => ready = {})
    BY InvStep DEF SInv
  <1>2. CASE Tor
    <2>1. pc' = pc /\ ready' = ready
      BY <1>2 DEF Tor
    <2> QED BY <1>1, <1>2, <2>1, TorAttends DEF SInv
  <1>3. ASSUME NEW accept \in SUBSET Clients, NEW readers \in SUBSET Clients, Select(accept, readers)
        PROVE  SInv'
    <2>1. pc = "select" /\ pc' = "handle"
      BY <1>3 DEF Select
    <2> QED BY <1>1, <1>3, <2>1, SelectAttends DEF SInv
  <1>4. CASE Return
    <2>1. pc' = "returned" /\ UNCHANGED <<client, net, suite, ready>>
      BY <1>4 DEF Return
    <2> QED BY <1>1, <2>1, Unattended DEF SInv
  <1>5. ASSUME NEW e \in ready, Handle(e)
        PROVE  SInv'
    <2>1. pc' = "select" => ready' = {}
      BY <1>5 DEF Handle
    <2> QED BY <1>1, <1>5, <2>1, HandleServes DEF SInv
  <1>6. CASE UNCHANGED vars
    BY <1>1, <1>6, Unattended DEF SInv, vars
  <1> QED BY <1>2, <1>3, <1>4, <1>5, <1>6 DEF Next

LEMMA SInvInit == Init => SInv
  <1> SUFFICES ASSUME Init
               PROVE  SInv
    OBVIOUS
  <1>1. IInv /\ ready = {}
    BY InitInv DEF Init
  <1>2. ASSUME NEW c \in Clients
        PROVE  Served(c) /\ Direct(c) /\ Late(c) /\ Attended(c)
    <2>1. /\ state[c] = "connecting" /\ todo[c] = Pieces /\ checked[c] = 0 /\ stream[c] = "none"
          /\ server[c] = "none" /\ echo[c] = 0 /\ back[c] = 0 /\ bad = {}
      BY DEF Init
    <2>2. Sent(c) = "not done" /\ Checked(c) \in {"not done", "unknown"}
      BY Names DEF Init, Sent, Checked
    <2>3. Served(c)
      BY <2>1, <2>2 DEF Served, Begun, Sound
    <2> QED BY <1>1, <2>1, <2>3 DEF Direct, Late, Attended, Flushing
  <1> QED BY <1>1, <1>2 DEF SInv, AllServed

LEMMA SInvariance == Spec => []SInv
  BY SInvInit, SInvStep, PTL DEF Spec

-----------------------------------------------------------------------------
(* The theorems.                                                           *)

\* A client that is closed has both tests decided, and with success, if its tor did
\* not interfere and its send buffer is never full, for every number of clients.
THEOREM NobodyStranded == Spec => []NoTestIsStranded
  <1>1. SInv => NoTestIsStranded
    BY DEF SInv, AllServed, Served, Sound, Attended, Flushing, NoTestIsStranded, Sent, Checked
  <1> QED BY <1>1, SInvariance, PTL

\* A client with data whose tor did not interfere is verified when nobody can do anything
\* more for it, for every number of clients and all sizes of the send buffers.
THEOREM IdleIsVerified ==
  ASSUME Pieces # 0
  PROVE  Spec => []IdleMeansVerified
  <1>1. SInv => IdleMeansVerified
    <2> SUFFICES ASSUME SInv, NEW c \in Clients, c \notin faulty, Idle(c)
                 PROVE  Checked(c) = "success"
      BY DEF IdleMeansVerified, Checked
    <2>1. Types /\ Good(c) /\ Served(c) /\ Begun(c) /\ Sound(c)
      BY DEF SInv, IInv, Good, AllServed, Served
    <2>2. CASE state[c] = "closed" \/ server[c] = "closed"
      BY <2>1, <2>2 DEF Sound
    <2>3. CASE state[c] # "closed" /\ server[c] # "closed"
      <3>1. server[c] = "open" /\ stream[c] = "granted" /\ buf[c] = 0
        BY <2>1, <2>3 DEF Idle, Begun, Types, ClientTypes
      <3>2. arrived[c] = 0 /\ echo[c] = 0 /\ back[c] = 0
        BY <2>1, <2>3, <3>1, Numbers DEF Idle, ClientReadable, ServerReadable, ServerWritable, Types, Open
      <3>3. state[c] = "connected"
        BY <2>1, <2>3, <3>1 DEF Idle, ClientReadable, ClientWritable, Types, ClientTypes, Open
      <3>4. 0 < Cap[c]
        BY Sizes
      <3>5. ~closer[c]
        BY <2>3, <3>1, <3>3, <3>4 DEF Idle, ClientWritable, Open
      <3>6. todo[c] = 0
        BY <2>1, <3>3, <3>5 DEF Begun
      <3>7. checked[c] = Pieces
        BY <2>1, <3>1, <3>2, <3>6, Numbers, Sizes DEF Types, Good, Kept
      <3> QED BY <2>1, <3>7 DEF Sound
    <2> QED BY <2>2, <2>3
  <1> QED BY <1>1, SInvariance, PTL
=============================================================================
