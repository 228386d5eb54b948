---------------------------- MODULE MCConfigure ----------------------------
(* Networks and options for the run of Configure.                           *)
EXTENDS Configure

Files == [f \in {"relay.tmpl", "client.tmpl", "common.i", "loop.tmpl", "same.tmpl", "deep.tmpl",
                 "misspelt.tmpl"} |->
  CASE f = "relay.tmpl" -> <<File("common.i"), Literal("ORPort"), Variable("orport")>>
    [] f = "client.tmpl" -> <<File("common.i"), Program("obfs4proxy"), Variable("bridges")>>
    [] f = "common.i" -> <<Variable("dir"), Variable("nick"), Variable("authorities")>>
    [] f = "deep.tmpl" -> <<File("relay.tmpl")>>
    [] f = "loop.tmpl" -> <<Literal("x"), File("loop.tmpl")>>
    [] f = "same.tmpl" -> <<File("same.tmpl")>>
    [] f = "misspelt.tmpl" -> <<Variable("authority_lines")>>]

Torrcs(torrcs) == [n \in DOMAIN torrcs |-> [torrc |-> <<Literal(torrcs[n])>>, tag |-> <<Literal(n)>>]]

Dflts == [authorities |-> <<Literal("bleargh")>>, bridges |-> <<Literal("bleargh")>>,
          net_base_dir |-> <<Literal("net")>>, orport_base |-> <<Number(PortBase.orport)>>]

Nodes1 == [e |-> "relay.tmpl", c |-> "client.tmpl", h |-> "client.tmpl"]

\* A client of an exit and of an onion service, configured in two phases; the client
\* comes first, before the authority whose line it needs.
TwoPhases == [
  phase |-> [e |-> 1, c |-> 1, h |-> 2], clients |-> <<"c">>, exits |-> {"e"}, hss |-> {"h"},
  order |-> <<"c", "e", "h">>, config |-> [e |-> 1, c |-> 2, h |-> 1],
  authority |-> {"e"}, bridgeauth |-> {}, relay |-> {"e"}, bridge |-> {},
  own |-> Torrcs(Nodes1), dflts |-> Dflts, files |-> Files, modes |-> [obfs4proxy |-> {0, 6, 8}]]

\* Two clients of an onion service.
OnionOnly == [TwoPhases EXCEPT
  !.phase = [c |-> 1, b |-> 2, h |-> 2], !.clients = <<"c", "b">>, !.exits = {},
  !.order = <<"h", "b", "c">>, !.config = [c |-> 1, b |-> 1, h |-> 1],
  !.authority = {}, !.relay = {},
  !.own = Torrcs([c |-> "client.tmpl", b |-> "client.tmpl", h |-> "client.tmpl"])]

\* No clients; a bridge that comes before its authority, and is configured after it.
Bridges == [TwoPhases EXCEPT
  !.phase = [e |-> 1, b |-> 1], !.clients = <<>>, !.hss = {},
  !.order = <<"b", "e">>, !.config = [e |-> 1, b |-> 2],
  !.authority = {"e"}, !.bridgeauth = {"e"}, !.relay = {"b", "e"}, !.bridge = {"b"},
  !.own = Torrcs([b |-> "relay.tmpl", e |-> "client.tmpl"])]

\* Templates that loop, are one inclusion too deep, or ask for a key that nobody has;
\* one that gives itself, which is what it expands to; an authority that is no relay.
Odd(name) == [Bridges EXCEPT !.own = Torrcs([b |-> name, e |-> "client.tmpl"])]

SomeNetworks ==
  {TwoPhases, OnionOnly, Bridges, [Bridges EXCEPT !.relay = {"b"}]}
    \union {Odd(name) : name \in {"loop.tmpl", "deep.tmpl", "misspelt.tmpl", "same.tmpl"}}

Plain == [failures |-> 0, start |-> 60, time |-> 20, rounds |-> 1, stop |-> 0,
          data |-> 1, multi |-> FALSE]

SomeOptions == {
  Plain,
  [Plain EXCEPT !.failures = 1, !.multi = TRUE],
  [Plain EXCEPT !.rounds = 2, !.stop = -1],
  [Plain EXCEPT !.time = -1],
  [Plain EXCEPT !.time = 0],
  [Plain EXCEPT !.start = -1, !.data = 4],
  [Plain EXCEPT !.data = 0],
  [Plain EXCEPT !.data = 3, !.multi = TRUE],
  [Plain EXCEPT !.data = 7, !.multi = TRUE] }
=============================================================================
