------------------------------ MODULE Traffic ------------------------------
(***************************************************************************)
(* TrafficTester.run (lib/chutney/Traffic.py): every client connects to    *)
(* the SOCKS port of a tor, which builds a stream to the tester's own      *)
(* listener, or, in the self-test, to the listener itself. An EchoClient   *)
(* compares what comes back from an EchoServer; without echo a Source      *)
(* sends, and a Sink compares what arrives. One thread serves all sockets, *)
(* one select() after the other; the tors carry data between any two of    *)
(* its handlers.                                                           *)
(*                                                                         *)
(* Data is counted in pieces: what one send() hands to the kernel. The     *)
(* asyncore and asynchat library is part of the handlers that it calls.    *)
(***************************************************************************)
EXTENDS Integers, FiniteSets

CONSTANTS
  Clients,   \* connections, one for each add_client()
  Pieces,    \* what every client sends
  Cap,       \* pieces that fit into the send buffer of each client
  Modes,     \* chat types, with or without a proxy
  MayFail    \* TRUE: tors may refuse, reject, drop or corrupt a stream

ASSUME TrafficAssumption ==
  /\ IsFiniteSet(Clients)
  /\ Pieces \in Nat
  /\ Cap \in [Clients -> Nat \ {0}]
  /\ Modes \subseteq [echo : BOOLEAN, proxy : BOOLEAN]
  /\ MayFail \in BOOLEAN

VARIABLES
  mode,      \* chat_type, and whether the clients have a proxy
  state,     \* Source.state; "closed" when the client has left the socket map
  todo,      \* pieces the client has not handed to the kernel yet
  closer,    \* a CloseSourceProducer is in the client's producer_fifo
  checked,   \* pieces the DataChecker has seen
  stream,    \* the tor's side of the client's connection
  buf,       \* pieces in the client's send buffer
  arrived,   \* pieces that wait for the server
  server,    \* the EchoServer or Sink at the other end
  echo,      \* pieces in the server's producer_fifo
  back,      \* pieces on their way back
  faulty,    \* history: clients whose stream a tor has refused, dropped or corrupted
  bad,       \* clients whose next piece is not what was sent
  status,    \* TestSuite.tests
  notDone, failures,
  pc, ready, \* events of this select() that are not handled yet
  result     \* what run() returns

client == <<mode, state, todo, closer, checked>>
net == <<stream, buf, arrived, server, echo, back, faulty, bad>>
suite == <<status, notDone, failures>>
vars == <<client, net, suite, pc, ready, result>>

\* The names of a client's tests: for an EchoClient "send-data" and "check", for a
\* Source and its Sink "send-data" and "recv-data".
Tests == {"send", "check"} \X Clients

Open(c) == state[c] # "closed"

Least(a, b) == IF a < b THEN a ELSE b

-----------------------------------------------------------------------------
(* The tors, and the system between the sockets.                           *)

Set(f, c, v) == f' = [f EXCEPT ![c] = v]

AcceptClient(c) ==
  /\ mode.proxy /\ stream[c] = "none"
  /\ Set(stream, c, "up")
  /\ UNCHANGED <<server, buf, arrived, faulty, bad>>

\* The stream is up to the listener, where it waits in the backlog.
GrantStream(c) ==
  /\ stream[c] = IF mode.proxy THEN "asked" ELSE "none"
  /\ Set(stream, c, "granted")
  /\ Set(server, c, "waiting")
  /\ UNCHANGED <<buf, arrived, faulty, bad>>

Carry(c) ==
  /\ stream[c] = "granted"
  /\ buf[c] > 0
  /\ Set(buf, c, buf[c] - 1)
  /\ Set(arrived, c, arrived[c] + 1)
  /\ UNCHANGED <<stream, server, faulty, bad>>

\* The server has closed its end.
EndStream(c) ==
  /\ Open(c) /\ stream[c] = "granted" /\ server[c] = "closed"
  /\ Set(stream, c, "eof")
  /\ UNCHANGED <<server, buf, arrived, faulty, bad>>

\* The port is closed, the request is rejected, the stream breaks.
BreakStream(c) ==
  /\ MayFail
  /\ \/ stream[c] = "none" /\ Set(stream, c, "refused")
     \/ stream[c] = "asked" /\ Set(stream, c, "rejected")
     \/ stream[c] \in {"up", "asked", "granted"} /\ Set(stream, c, "eof")
  /\ faulty' = faulty \union {c}
  /\ UNCHANGED <<server, buf, arrived, bad>>

Corrupt(c) ==
  /\ MayFail
  /\ c \notin bad
  /\ IF mode.echo THEN back[c] > 0 ELSE arrived[c] > 0
  /\ bad' = bad \union {c}
  /\ faulty' = faulty \union {c}
  /\ UNCHANGED <<stream, server, buf, arrived>>

Tor ==
  /\ pc # "returned"
  /\ \E c \in Clients :
       \/ AcceptClient(c) \/ GrantStream(c) \/ Carry(c) \/ EndStream(c)
       \/ BreakStream(c) \/ Corrupt(c)
  /\ UNCHANGED <<client, echo, back, suite, pc, ready, result>>

-----------------------------------------------------------------------------
(* TestSuite.                                                              *)

\* Mutant: failure() forgets that the test is done now.
DecideForgets(test, outcome) ==
  /\ status' = [status EXCEPT ![test] = outcome]
  /\ notDone' = notDone - IF outcome = "failure" THEN 0 ELSE 1
  /\ failures' = failures + IF outcome = "failure" THEN 1 ELSE 0

\* add().
Register(test) ==
  /\ status' = [status EXCEPT ![test] = "not done"]
  /\ notDone' = notDone + 1
  /\ UNCHANGED failures

\* success() and failure(): only a test that is not done is decided, any other
\* gets a warning.
Decide(test, outcome) ==
  \/ status[test] # "not done" /\ UNCHANGED suite
  \/ /\ status[test] = "not done"
     /\ status' = [status EXCEPT ![test] = outcome]
     /\ notDone' = notDone - 1
     /\ failures' = failures + IF outcome = "failure" THEN 1 ELSE 0

AllDone == notDone = 0

-----------------------------------------------------------------------------
(* The loop: one select() and its handlers. The socket map holds the       *)
(* listener, the clients and the servers in this order, and select() keeps *)
(* it; all that can be read is read before anything is written.            *)

Phases == 1..5
Event(phase, S) == {[phase |-> phase, who |-> c] : c \in S}

Broken(c) == stream[c] = "eof" \/ ~Open(c)

ClientReadable(c) ==
  /\ Open(c)
  /\ \/ stream[c] \in {"refused", "rejected", "eof"}
     \/ stream[c] = "granted" /\ state[c] = "proxy"
     \/ back[c] > 0

ClientWritable(c) ==
  /\ Open(c)
  /\ \/ state[c] = "connecting" /\ stream[c] # "none"
     \/ state[c] = "connected" /\ closer[c] /\ buf[c] < Cap[c]

ServerReadable(c) == server[c] = "open" /\ (arrived[c] > 0 \/ Broken(c))
ServerWritable(c) == server[c] = "open" /\ echo[c] > 0

\* What has been sent to a socket may not have arrived yet. The listener takes one
\* connection of its backlog.
Select(accept, readers) ==
  /\ pc = "select"
  /\ ~AllDone
  /\ \A c \in accept : server[c] = "waiting"
  /\ \A c \in readers : ClientReadable(c)
  /\ ready' = UNION {Event(1, accept), Event(2, readers),
                     Event(3, {c \in Clients : ServerReadable(c)}),
                     Event(4, {c \in Clients : ClientWritable(c)}),
                     Event(5, {c \in Clients : ServerWritable(c)})}
  /\ ready' # {}
  /\ pc' = "handle"
  /\ UNCHANGED <<client, net, suite, result>>

\* The time is up, or nothing is left to wait for.
Return ==
  /\ pc = "select"
  /\ result' = IF AllDone /\ failures = 0 THEN "true" ELSE "false"
  /\ pc' = "returned"
  /\ UNCHANGED <<client, net, suite, ready>>

\* handle_accept, add_responder: an EchoServer has no test, a Sink registers its own.
Accept(c) ==
  /\ Set(server, c, "open")
  /\ \/ mode.echo /\ UNCHANGED suite
     \/ ~mode.echo /\ Register(<<"check", c>>)
  /\ UNCHANGED <<client, stream, buf, arrived, echo, back, faulty, bad>>

\* close() without a word to the test suite: a refused connection (the exception
\* ends in handle_error), or the end of the stream.
Close(c) ==
  /\ Set(state, c, "closed")
  /\ UNCHANGED <<mode, todo, closer, checked, net, suite>>

\* Mutant: the data is pushed without a CloseSourceProducer behind it.
ConnectedForgetsCloser(c) ==
  LET sent == Least(Least(2, todo[c]), Cap[c] - buf[c]) IN
  /\ state[c] = "proxy"
  /\ stream[c] = "granted"
  /\ Set(state, c, "connected")
  /\ Set(todo, c, todo[c] - sent)
  /\ Set(buf, c, buf[c] + sent)
  /\ Set(closer, c, sent < todo[c])
  /\ UNCHANGED <<mode, checked, stream, arrived, server, echo, back, faulty, bad, suite>>

\* Mutant: the handshake ends without a push.
ConnectedForgetsPush(c) ==
  /\ state[c] = "proxy"
  /\ stream[c] = "granted"
  /\ Set(state, c, "connected")
  /\ UNCHANGED <<mode, todo, buf, closer, checked, stream, arrived, server, echo, back, faulty, bad, suite>>

\* The proxy answers: push_output() tries to send twice, once for each producer;
\* when the second try finds the data source empty, everything is sent.
Connected(c) ==
  LET sent == Least(Least(2, todo[c]), Cap[c] - buf[c])
      first == Least(sent, 1)
      flushed == todo[c] = first
      pushed == IF flushed THEN first ELSE sent
  IN
  /\ state[c] = "proxy"
  /\ stream[c] = "granted"
  /\ Set(state, c, "connected")
  /\ Set(todo, c, todo[c] - pushed)
  /\ Set(buf, c, buf[c] + pushed)
  /\ Set(closer, c, ~flushed)
  /\ IF flushed THEN Decide(<<"send", c>>, "success") ELSE UNCHANGED suite
  /\ UNCHANGED <<mode, checked, stream, arrived, server, echo, back, faulty, bad>>

\* Both close. The checker of an EchoClient takes the rejection for data, and fails.
Rejected(c) ==
  /\ state[c] = "proxy"
  /\ stream[c] = "rejected"
  /\ Set(state, c, "closed")
  /\ \/ mode.echo /\ Decide(<<"check", c>>, "failure")
     \/ ~mode.echo /\ UNCHANGED suite
  /\ UNCHANGED <<mode, todo, closer, checked, net>>

\* Mutant: the checker succeeds before the last piece has come.
consumeTooFew(c, n) ==
  IF c \in bad THEN "failed" ELSE IF checked[c] + n + 1 >= Pieces THEN "succeeded" ELSE "pending"

\* DataChecker.consume: what it says after n more pieces.
consume(c, n) ==
  IF c \in bad THEN "failed" ELSE IF checked[c] + n = Pieces THEN "succeeded" ELSE "pending"

\* collect_incoming_data of a connected EchoClient, on n pieces.
Check(c, n) ==
  /\ state[c] = "connected"
  /\ Set(back, c, back[c] - n)
  /\ Set(checked, c, checked[c] + n)
  /\ \/ /\ consume(c, n) = "succeeded"
        /\ Set(state, c, "closed")
        /\ Decide(<<"check", c>>, "success")
     \/ /\ consume(c, n) = "failed"
        /\ Set(state, c, "closed")
        /\ Decide(<<"check", c>>, "failure")
     \/ /\ consume(c, n) = "pending"
        /\ UNCHANGED <<state, suite>>
  /\ UNCHANGED <<mode, todo, closer, stream, buf, arrived, server, echo, faulty, bad>>

ReadClient(c) ==
  \/ Connected(c) \/ Rejected(c) \/ \E n \in 1..back[c] : Check(c, n)
  \/ back[c] = 0 /\ stream[c] \in {"refused", "eof"} /\ Close(c)

\* Mutant: what could not be sent before is overwritten.
EchoOverwrites(c, n, sent) ==
  /\ sent <= n
  /\ Set(arrived, c, arrived[c] - n)
  /\ Set(echo, c, n - sent)
  /\ Set(back, c, back[c] + sent)
  /\ UNCHANGED <<client, stream, buf, server, faulty, bad, suite>>

\* An EchoServer pushes what it reads, and tries to send at once what its send
\* buffer takes.
Echo(c, n, sent) ==
  /\ sent <= echo[c] + n
  /\ Set(arrived, c, arrived[c] - n)
  /\ Set(echo, c, echo[c] + n - sent)
  /\ Set(back, c, back[c] + sent)
  /\ UNCHANGED <<client, stream, buf, server, faulty, bad, suite>>

\* collect_incoming_data of a Sink, on n pieces.
Sink(c, n) ==
  /\ Set(arrived, c, arrived[c] - n)
  /\ Set(checked, c, checked[c] + n)
  /\ \/ /\ consume(c, n) = "succeeded"
        /\ Set(server, c, "closed")
        /\ Decide(<<"check", c>>, "success")
     \/ /\ consume(c, n) = "failed"
        /\ Set(server, c, "closed")
        /\ Decide(<<"check", c>>, "failure")
     \/ /\ consume(c, n) = "pending"
        /\ UNCHANGED <<server, suite>>
  /\ UNCHANGED <<mode, state, todo, closer, stream, buf, echo, back, faulty, bad>>

ReadServer(c) ==
  \/ mode.echo /\ \E n \in 1..arrived[c], sent \in 0..Pieces : Echo(c, n, sent)
  \/ ~mode.echo /\ \E n \in 1..arrived[c] : Sink(c, n)
  \/ /\ arrived[c] = 0
     /\ Set(server, c, "closed")
     /\ UNCHANGED <<client, stream, buf, arrived, echo, back, faulty, bad, suite>>

\* handle_connect_event, then initiate_send: the SOCKS request.
Request(c) ==
  /\ mode.proxy /\ state[c] = "connecting"
  /\ stream[c] \in {"up", "eof"}
  /\ Set(state, c, "proxy")
  /\ Set(stream, c, IF stream[c] = "up" THEN "asked" ELSE "eof")
  /\ UNCHANGED <<mode, todo, closer, checked, buf, arrived, server, echo, back, faulty, bad, suite>>

\* handle_connect without a proxy: push_output() comes before the socket counts as
\* connected and sends nothing, the initiate_send after it sends once.
Connect(c) ==
  LET sent == Least(1, todo[c]) IN
  /\ ~mode.proxy /\ state[c] = "connecting"
  /\ stream[c] \in {"granted", "eof"}
  /\ Set(state, c, "connected")
  /\ Set(todo, c, todo[c] - sent)
  /\ Set(buf, c, buf[c] + sent)
  /\ Set(closer, c, sent = 1)
  /\ IF sent = 1 THEN UNCHANGED suite ELSE Decide(<<"send", c>>, "success")
  /\ UNCHANGED <<mode, checked, stream, arrived, server, echo, back, faulty, bad>>

\* Mutant: the data source does not stop after its repetitions.
SendPieceTooFar(c) ==
  /\ state[c] = "connected"
  /\ Set(todo, c, todo[c] - 1)
  /\ Set(buf, c, buf[c] + 1)
  /\ UNCHANGED <<mode, state, closer, checked, stream, arrived, server, echo, back, faulty, bad, suite>>

SendPiece(c) ==
  /\ state[c] = "connected"
  /\ todo[c] > 0
  /\ Set(todo, c, todo[c] - 1)
  /\ Set(buf, c, buf[c] + 1)
  /\ UNCHANGED <<mode, state, closer, checked, stream, arrived, server, echo, back, faulty, bad, suite>>

\* The data source returns None, and CloseSourceProducer.more() reports success.
Flush(c) ==
  /\ state[c] = "connected"
  /\ todo[c] = 0
  /\ Set(closer, c, FALSE)
  /\ Decide(<<"send", c>>, "success")
  /\ UNCHANGED <<mode, state, todo, checked, net>>

WriteClient(c) ==
  \/ Request(c) \/ Connect(c) \/ SendPiece(c) \/ Flush(c)
  \/ stream[c] = "refused" /\ Close(c)
  \/ state[c] = "connected" /\ todo[c] > 0 /\ stream[c] = "eof" /\ Close(c)

WriteServer(c) == \E sent \in 0..Pieces : Echo(c, 0, sent)

\* An object that has been closed since the select() is not called any more.
Gone(e) == IF e.phase \in {3, 5} THEN server[e.who] # "open" ELSE e.phase # 1 /\ ~Open(e.who)

Handle(e) ==
  /\ pc = "handle"
  /\ \A d \in ready : e.phase <= d.phase
  /\ ready' = ready \ {e}
  /\ pc' = IF ready = {e} THEN "select" ELSE "handle"
  /\ \/ Gone(e) /\ UNCHANGED <<client, net, suite>>
     \/ ~Gone(e) /\ e.phase = 1 /\ Accept(e.who)
     \/ ~Gone(e) /\ e.phase = 2 /\ ReadClient(e.who)
     \/ ~Gone(e) /\ e.phase = 3 /\ ReadServer(e.who)
     \/ ~Gone(e) /\ e.phase = 4 /\ WriteClient(e.who)
     \/ ~Gone(e) /\ e.phase = 5 /\ WriteServer(e.who)
  /\ UNCHANGED result

Init ==
  /\ mode \in Modes
  /\ state = [c \in Clients |-> "connecting"]
  /\ todo = [c \in Clients |-> Pieces]
  /\ closer = [c \in Clients |-> FALSE]
  /\ checked = [c \in Clients |-> 0]
  /\ stream = [c \in Clients |-> "none"]
  /\ buf = [c \in Clients |-> 0]
  /\ arrived = [c \in Clients |-> 0]
  /\ server = [c \in Clients |-> "none"]
  /\ echo = [c \in Clients |-> 0]
  /\ back = [c \in Clients |-> 0]
  /\ faulty = {} /\ bad = {}
  /\ status = [t \in Tests |-> IF mode.echo \/ t[1] = "send" THEN "not done" ELSE "unknown"]
  /\ notDone = Cardinality(IF mode.echo THEN Tests ELSE {"send"} \X Clients)
  /\ failures = 0
  /\ pc = "select" /\ ready = {}
  /\ result = "none"

Next ==
  \/ Tor
  \/ \E accept, readers \in SUBSET Clients :
       Cardinality(accept) <= 1 /\ Select(accept, readers)
  \/ Return
  \/ \E e \in ready : Handle(e)

Spec == Init /\ [][Next]_vars

-----------------------------------------------------------------------------
(* Properties                                                              *)

TypeOK ==
  /\ state \in [Clients -> {"connecting", "proxy", "connected", "closed"}]
  /\ closer \in [Clients -> BOOLEAN]
  /\ stream \in [Clients -> {"none", "up", "asked", "granted", "refused", "rejected", "eof"}]
  /\ server \in [Clients -> {"none", "waiting", "open", "closed"}]
  /\ \A f \in {todo, arrived, echo, back, checked} : f \in [Clients -> 0..Pieces]
  /\ buf \in [Clients -> Nat] /\ \A c \in Clients : buf[c] <= Cap[c]
  /\ faulty \subseteq Clients /\ bad \subseteq Clients
  /\ mode \in Modes
  /\ status \in [Tests -> {"unknown", "not done", "success", "failure"}]
  /\ notDone \in 0..Cardinality(Tests) /\ failures \in 0..Cardinality(Tests)
  /\ pc \in {"select", "handle", "returned"}
  /\ ready \subseteq [phase : Phases, who : Clients]
  /\ result \in {"none", "true", "false"}

\* True means that every client has sent all its data and that all of it has come
\* unchanged to where it is compared: back at the client, or, without echo, at the
\* Sink, except for a Sink that was not even accepted before the run was over.
TrueMeansVerified ==
  result = "true" => \A c \in Clients :
    /\ todo[c] = 0 /\ stream[c] # "rejected"
    /\ mode.echo \/ server[c] \in {"open", "closed"} => checked[c] = Pieces /\ c \notin bad

\* The counters that end the loop count the tests, although tests are decided by
\* two producers, a checker and a proxy's answer.
CountsAgree ==
  /\ notDone = Cardinality({t \in Tests : status[t] = "not done"})
  /\ failures = Cardinality({t \in Tests : status[t] = "failure"})

\* Nothing that is carried is lost or repeated on the way through the send buffers,
\* the server and the checker, however sends and reads are cut into pieces.
PiecesAreKept ==
  \A c \in Clients \ faulty :
    todo[c] + buf[c] + arrived[c] + echo[c] + back[c] + checked[c] = Pieces

\* A client is closed as soon as its data is verified. Its other test, for the
\* sending, is decided by then, so that no test is left that nobody can decide,
\* if the tor did not interfere and the send buffer is never full.
NoTestIsStranded ==
  \A c \in Clients \ faulty :
    Cap[c] > Pieces /\ state[c] = "closed" => \A t \in {"send", "check"} : status[<<t, c>>] = "success"

\* Nobody waits for somebody who waits for him: when neither the tester nor the tors
\* can do anything more for a client that they have left alone, its data is verified.
Idle(c) ==
  /\ ~(ClientReadable(c) \/ ClientWritable(c) \/ ServerReadable(c) \/ ServerWritable(c))
  /\ server[c] # "waiting"
  /\ stream[c] = "granted" /\ buf[c] = 0

IdleMeansVerified ==
  pc = "select" => \A c \in Clients \ faulty :
    Idle(c) => status[<<"check", c>>] = "success"
=============================================================================
