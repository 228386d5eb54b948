------------------------------- MODULE Verify -------------------------------
(***************************************************************************)
(* chutney verify (scripts/chutney_tests/verify.py): one command is one    *)
(* round, which builds a traffic tester and runs it, until a run succeeds  *)
(* or the time is over. What a run of the tester does inside is the module *)
(* Traffic; here it takes its time and says true or false.                 *)
(***************************************************************************)
EXTENDS Integers, Sequences

CONSTANTS
  Interval,      \* VERIFY_ATTEMPT_INTERVAL, in seconds
  Durations,     \* how long a run of the tester may take
  MaxRandomLen   \* MAX_RANDOMLEN

ASSUME VerifyAssumption ==
  /\ Interval \in Nat \ {0}
  /\ Durations \subseteq Nat /\ Durations # {}
  /\ MaxRandomLen \in Nat \ {0}

VARIABLES
  net,       \* the network file: phases of the nodes, client_list, exits, onion services
  args,      \* the options of the test
  elapsed,   \* now - start_time
  tries,     \* runs of the tester in this round
  port,      \* who holds LISTEN_PORT: nobody, or the listener of an earlier tester
  verdict,   \* of the round
  reached    \* history: streams verified since the network was configured

round == <<elapsed, tries, port, verdict, reached>>

Larger(a, b) == IF a < b THEN b ELSE a

-----------------------------------------------------------------------------
(* What is transmitted.                                                    *)

RandomLen(datalen) == IF datalen > MaxRandomLen THEN MaxRandomLen ELSE datalen

\* Mutant: the last block is dropped.
RepetitionsRoundDown(datalen, replen) ==
  IF datalen = 0 \/ replen = 0 THEN 0
  ELSE IF replen < datalen THEN datalen \div replen ELSE 1

\* Blocks of data that are sent. The quotient is a fraction, and DataSource counts
\* it down while it is above zero, which rounds up once more.
Repetitions(datalen, replen) ==
  IF datalen = 0 \/ replen = 0 THEN 0
  ELSE IF replen < datalen THEN (datalen + replen - 1 + replen - 1) \div replen ELSE 1

Blocks == Repetitions(args.data, RandomLen(args.data))

clients == {net.clients[i] : i \in 1..Len(net.clients)}

Testable == clients # {} /\ (net.exits # {} \/ net.hss # {})

HsStreams == (IF args.multi THEN clients ELSE {net.clients[1]}) \X net.hss

ExitStreams == IF net.exits # {} THEN clients \X {"exit"} ELSE {}

Streams == ExitStreams \union HsStreams

\* All ends of the streams are there.
CanCarry(running) ==
  \A s \in Streams :
    /\ s[1] \in running
    /\ s[2] \in running \/ (s[2] = "exit" /\ net.exits \intersect running # {})

-----------------------------------------------------------------------------
(* run_test. The pause between two tries belongs to the try before it.     *)

Again == verdict = "trying" /\ elapsed < args.time

BeginRound ==
  /\ elapsed' = 0 /\ tries' = 0
  /\ port' = "free"
  /\ verdict' = "trying"
  /\ UNCHANGED reached

\* The tester is built before the lists are looked at. Its listener is not closed,
\* and refers to the tester, which refers to it.
NothingToTest ==
  /\ Again /\ port = "free"
  /\ ~Testable
  /\ tries' = tries + 1
  /\ elapsed' = elapsed + Interval
  /\ port' = "taken"
  /\ UNCHANGED <<verdict, reached>>

CollectGarbage ==
  /\ port = "taken"
  /\ port' = "free"
  /\ UNCHANGED <<elapsed, tries, verdict, reached>>

\* bind() raises.
PortTaken ==
  /\ Again /\ port = "taken"
  /\ verdict' = "raised"
  /\ UNCHANGED <<elapsed, tries, port, reached>>

\* Mutant: run() does not close its listener.
TransmitFailsLeaks(d) ==
  /\ Again /\ port = "free"
  /\ Testable
  /\ tries' = tries + 1
  /\ elapsed' = elapsed + Larger(d, Interval)
  /\ port' = "taken"
  /\ UNCHANGED <<verdict, reached>>

\* Mutant: no pause after a try that fails at once.
TransmitFailsNoPause(d) ==
  /\ Again /\ port = "free"
  /\ Testable
  /\ tries' = tries + 1
  /\ elapsed' = elapsed + d
  /\ UNCHANGED <<port, verdict, reached>>

TransmitFails(d) ==
  /\ Again /\ port = "free"
  /\ Testable
  /\ tries' = tries + 1
  /\ elapsed' = elapsed + Larger(d, Interval)
  /\ UNCHANGED <<port, verdict, reached>>

\* Without a block of data no echo comes back, and no check succeeds.
TransmitSucceeds(d, running) ==
  /\ Again /\ port = "free"
  /\ Testable
  /\ Blocks > 0
  /\ CanCarry(running)
  /\ tries' = tries + 1
  /\ elapsed' = elapsed + d
  /\ verdict' = "true"
  /\ reached' = reached \union Streams
  /\ UNCHANGED port

GiveUp ==
  /\ verdict = "trying"
  /\ elapsed >= args.time
  /\ verdict' = "false"
  /\ UNCHANGED <<elapsed, tries, port, reached>>

RunTest(running) ==
  \/ NothingToTest \/ PortTaken \/ GiveUp
  \/ \E d \in Durations : TransmitFails(d) \/ TransmitSucceeds(d, running)

-----------------------------------------------------------------------------
(* Properties                                                              *)

\* A round is not given up early and does not spew attempts: one that fails has made
\* a try in every span that a slow run of the tester can take, and never more than
\* one per interval, however long each of its runs took.
RoundPace ==
  /\ verdict # "none" => (tries - 1) * Interval <= elapsed
  /\ verdict = "false" =>
       /\ args.time <= elapsed
       /\ \E d \in Durations : args.time <= tries * Larger(d, Interval)
       /\ tries > 0 => (tries - 1) * Interval < args.time

\* What an earlier run leaves behind (its listener holds the port) never ends a round
\* in which there is something to test.
PortComesBack == verdict = "raised" => ~Testable

\* A round that succeeds has carried all the data asked for over each stream, and
\* less than two blocks too much.
DataIsCarried ==
  verdict = "true" =>
    LET carried == Blocks * RandomLen(args.data) IN
    /\ args.data <= carried
    /\ carried < args.data + 2 * RandomLen(args.data)
=============================================================================
