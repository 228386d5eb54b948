----------------------------- MODULE Configure -----------------------------
(***************************************************************************)
(* chutney configure (Network.configure, LocalNodeBuilder) in its place in *)
(* TestNetwork: one command for each configuration phase. Each makes sure  *)
(* that all templates can be expanded, makes the keys of all nodes unless  *)
(* they have some, collects the lines that name them, and writes the torrc *)
(* files of its own phase. The commands share nothing but the nodes        *)
(* directory.                                                              *)
(*                                                                         *)
(* Each step may raise an exception, which ends the attempt. Filtering a   *)
(* torrc by the options that the tor binary knows is left out, and so are  *)
(* the directories that are made.                                          *)
(***************************************************************************)
EXTENDS TestNetwork, Templating

VARIABLES
  config_idx,   \* the configuration phase
  step,         \* what configure does next, "none" when it does not run
  nodenum,      \* the node that it does it for
  auths,        \* altauthlines
  bridges,      \* bridgelines
  cert,         \* how often each authority certificate was made in this directory
  id,           \* how often each router key was
  torrc         \* the text of each torrc file, if there is one

progress == <<config_idx, step, nodenum, auths, bridges>>
disk == <<cert, id, torrc>>
configuration == <<progress, disk>>

\* What dictionaries and files say are texts, and none of them defers an include: only
\* the pattern that configure expands does.
HoldsTemplates(texts) ==
  \A key \in DOMAIN texts :
    IsText(texts[key]) /\ \A i \in DOMAIN texts[key] : texts[key][i].kind # "deferred"

\* More fields of a network: the nodes in the order of their numbers, what they are,
\* the dictionaries of the nodes and of the defaults, and the templates.
ASSUME ConfigureAssumption ==
  \A n \in Networks :
    /\ {"order", "config", "authority", "bridgeauth", "relay", "bridge", "own", "dflts",
        "files", "modes"} \subseteq DOMAIN n
    /\ \A node \in DOMAIN n.phase : HoldsTemplates(n.own[node])
    /\ HoldsTemplates(n.dflts) /\ HoldsTemplates(n.files)
    /\ n.order \in Seq(DOMAIN n.phase)
    /\ \A node \in DOMAIN n.phase :
         /\ \E i \in DOMAIN n.order : n.order[i] = node
         /\ n.config[node] \in Nat \ {0}
    /\ \E last \in DOMAIN n.phase : \A node \in DOMAIN n.phase : n.config[node] <= n.config[last]

\* DEFAULTS: the port of node number 0, each other node adds its number.
PortBase == [orport |-> 5055, dirport |-> 7055, controlport |-> 8055, socksport |-> 9055,
             extorport |-> 9500, ptport |-> 9900]

LastConfig == CHOOSE p \in {net.config[n] : n \in Nodes} : \A n \in Nodes : net.config[n] <= p

Node == net.order[nodenum]

-----------------------------------------------------------------------------
(* The torrc of a node.                                                    *)

\* The lines of all nodes one after the other.
Joining(lines) == FlattenSeq([i \in DOMAIN net.order |-> lines[net.order[i]]])

\* What configure sets in the default environment, before and after it has the lines.
Nothing == [key \in {} |-> <<>>]
Assigned(authlines, bridgelines) ==
  [authorities |-> Joining(authlines), bridges |-> Joining(bridgelines)]

\* A node of getN() has only its number, the rest comes from the node that it is made of.
World(n, assigned) ==
  LET num == CHOOSE i \in DOMAIN net.order : net.order[i] = n IN
  [env |-> <<[nodenum |-> <<Number(num - 1)>>], net.own[n], assigned, net.dflts>>,
   files |-> net.files, modes |-> net.modes]

\* $${include:$torrc}
Pattern == <<Deferred("torrc")>>

Torrc(n, assigned) == Format(World(n, assigned), Pattern)

\* The line that tells the other nodes of authority n, from the keys on the disk.
AltAuthLines(n, certs, ids) ==
  IF n \notin net.authority THEN <<>>
  ELSE IF n \in net.bridgeauth
  THEN <<Line("AlternateBridgeAuthority", n, <<certs[n], ids[n]>>)>>
  ELSE <<Line(IF net.bridgeauth # {} THEN "AlternateDirAuthority" ELSE "DirAuthority",
              n, <<certs[n], ids[n]>>)>>

BridgeLines(n, ids) == IF n \in net.bridge THEN <<Line("Bridge", n, <<ids[n]>>)>> ELSE <<>>

-----------------------------------------------------------------------------
(* The steps of configure.                                                 *)

NoLines == [n \in Nodes |-> <<>>]

\* The beginning of a command for phase p; it starts with no lines.
Begin(p) ==
  /\ config_idx' = p /\ step' = "check" /\ nodenum' = 1
  /\ auths' = NoLines /\ bridges' = NoLines

\* The end of the last one.
Leave ==
  /\ config_idx' = 1 /\ step' = "none" /\ nodenum' = 1
  /\ auths' = NoLines /\ bridges' = NoLines

\* An exception: the command and the attempt end.
Raise == ConfigureFails /\ Leave

\* Mutant: the nodes directory of the last attempt is used again.
CreateNodesDirNot ==
  /\ at = "configure" /\ GoTo("configuring") /\ Begin(1)
  /\ UNCHANGED <<net, args, round, system, disk>>

\* create_new_nodes_dir, in phase 1 only.
CreateNodesDir ==
  /\ at = "configure"
  /\ \/ /\ NewNodesDir
        /\ Begin(1)
        /\ cert' = [n \in Nodes |-> 0] /\ id' = [n \in Nodes |-> 0]
        /\ torrc' = [n \in Nodes |-> {}]
     \/ Raise /\ UNCHANGED disk

\* Mutant: only the nodes of this phase are checked.
CheckConfigOfPhase ==
  /\ step = "check"
  /\ \/ Raise
     \/ /\ \A n \in Nodes : net.config[n] = config_idx => Torrc(n, Nothing) # {}
        /\ step' = "prepare"
        /\ UNCHANGED <<config_idx, nodenum, auths, bridges, vars>>
  /\ UNCHANGED disk

\* _checkConfig looks at all nodes, before there are any lines.
CheckConfig ==
  /\ step = "check"
  /\ \/ Raise
     \/ /\ \A n \in Nodes : Torrc(n, Nothing) # {}
        /\ step' = "prepare"
        /\ UNCHANGED <<config_idx, nodenum, auths, bridges, vars>>
  /\ UNCHANGED disk

\* The node after this one, or the next step.
NextNode(next) ==
  IF nodenum < Len(net.order)
  THEN nodenum' = nodenum + 1 /\ UNCHANGED step
  ELSE nodenum' = 1 /\ step' = next

\* Mutant: keys are made whether there are some or not.
GenAnew(keys, n) == [keys EXCEPT ![n] = keys[n] + 1]

\* _genAuthorityKey, _genRouterKey: keys that are there are kept.
Gen(keys, n) == [keys EXCEPT ![n] = IF keys[n] = 0 THEN 1 ELSE keys[n]]

\* preConfig, _getAltAuthLines and _getBridgeLines of one node. A line needs the
\* fingerprint that _genRouterKey has found.
PreConfig ==
  LET certs == IF Node \in net.authority THEN Gen(cert, Node) ELSE cert
      ids == IF Node \in net.relay THEN Gen(id, Node) ELSE id
  IN
  /\ step = "prepare"
  /\ \/ /\ \/ cert' = cert /\ id' = id
           \/ cert' = certs /\ id' \in {id, ids}
        /\ Raise
     \/ /\ Node \in net.authority \union net.bridge => Node \in net.relay
        /\ cert' = certs /\ id' = ids
        /\ auths' = [auths EXCEPT ![Node] = AltAuthLines(Node, certs, ids)]
        /\ bridges' = [bridges EXCEPT ![Node] = BridgeLines(Node, ids)]
        /\ NextNode("write")
        /\ UNCHANGED <<config_idx, vars>>
  /\ UNCHANGED torrc

\* config of one node, which writes its torrc over the one that is there.
Config ==
  /\ step = "write"
  /\ net.config[Node] = config_idx
  /\ \/ /\ torrc' \in {torrc, [torrc EXCEPT ![Node] = {<<>>}]}
        /\ Raise
     \/ /\ torrc' = [torrc EXCEPT ![Node] = Torrc(Node, Assigned(auths, bridges))]
        /\ torrc'[Node] # {}
        /\ NextNode("arti")
        /\ UNCHANGED <<config_idx, auths, bridges, vars>>
  /\ UNCHANGED <<cert, id>>

\* A node of another phase.
SkipConfig ==
  /\ step = "write"
  /\ net.config[Node] # config_idx
  /\ NextNode("arti")
  /\ UNCHANGED <<config_idx, auths, bridges, disk, vars>>

\* arti.toml, and the next phase.
WriteArti ==
  /\ step = "arti"
  /\ \/ Raise
     \/ config_idx < LastConfig /\ Begin(config_idx + 1) /\ UNCHANGED vars
     \/ config_idx = LastConfig /\ Configured /\ Leave
  /\ UNCHANGED disk

-----------------------------------------------------------------------------

Detail == CreateNodesDir \/ CheckConfig \/ PreConfig \/ Config \/ SkipConfig \/ WriteArti

ConfigureInit ==
  /\ Init
  /\ config_idx = 1 /\ step = "none" /\ nodenum = 1 /\ auths = NoLines /\ bridges = NoLines
  /\ cert = [n \in Nodes |-> 0] /\ id = [n \in Nodes |-> 0] /\ torrc = [n \in Nodes |-> {}]

ConfigureNext ==
  \/ Detail
  \/ Command /\ UNCHANGED configuration
  \/ Collect /\ UNCHANGED configuration
  \/ Crash /\ UNCHANGED configuration
  \/ FinishBootstrap /\ UNCHANGED configuration

allvars == <<vars, configuration>>

\* configure is one of the commands that end on their own.
ConfigureSpec ==
  /\ ConfigureInit /\ [][ConfigureNext]_allvars
  /\ WF_allvars(Detail \/ (Command /\ UNCHANGED configuration))

-----------------------------------------------------------------------------
(* Properties                                                              *)

ConfigureTypeOK ==
  /\ TypeOK
  /\ config_idx \in 1..LastConfig
  /\ step \in {"none", "check", "prepare", "write", "arti"}
  /\ step # "none" <=> at = "configuring"
  /\ nodenum \in DOMAIN net.order
  /\ DOMAIN auths = Nodes /\ DOMAIN bridges = Nodes
  /\ cert \in [Nodes -> Nat] /\ id \in [Nodes -> Nat]
  /\ DOMAIN torrc = Nodes

\* No tor is ever started from a directory whose files disagree: each torrc is what
\* its template gives for the authorities' certificates and the router keys that are
\* in the directory now, although the files of a later configuration phase are written
\* by another command, which goes through all the keys again.
TorrcsAgree ==
  at \in {"start", "start again"} =>
    \A n \in Nodes :
      /\ torrc[n] # {}
      /\ torrc[n] = Torrc(n, Assigned([m \in Nodes |-> AltAuthLines(m, cert, id)],
                                      [m \in Nodes |-> BridgeLines(m, id)]))

\* Nothing is written into the nodes directory, in any phase, unless the templates of
\* all nodes, those of later phases too, can be expanded.
CheckedFirst ==
  at = "configuring" /\ (\E n \in Nodes : cert[n] # 0 \/ id[n] # 0 \/ torrc[n] # {}) =>
    \A n \in Nodes : Torrc(n, Nothing) # {}

\* Substituting everywhere at once, again and again, with a limit on the iterations,
\* gives what the templates mean, and an exception for what means nothing (apart from
\* texts that substitution reproduces): when the templates are checked, and when they
\* are expanded with the lines of the moment. And the check is enough: what meant
\* something with the defaults is expanded with the lines in their place.
ExpansionIsExact ==
  LET assigned == Assigned(auths, bridges) IN
  /\ step = "check" => \A n \in Nodes : MeansWhatItSays(World(n, Nothing), Pattern)
  /\ step = "write" =>
       /\ MeansWhatItSays(World(Node, assigned), Pattern)
       /\ Meaning(World(Node, Nothing), Pattern) # {} => Torrc(Node, assigned) # {}

\* A network that is configured step by step, phase by phase, is one that TestNetwork
\* configures at once: what is shown there of attempts, orphans and exit codes holds.
ImplementsTestNetwork == Spec
=============================================================================
