---------------------------- MODULE MCBootstrap ----------------------------
(* Networks for the runs of Bootstrap.                                      *)
EXTENDS Bootstrap

CONSTANT Horizon   \* the last reading of the clock

ClockRange == 0..Horizon

\* A relay network with an onion service, which publishes no descriptor.
RelaysAndOnion == <<"authority", "relay", "onion">>
\* The bridge network of networks/bridges+hs-v3, with one node of each kind.
BridgeNetwork == <<"bridgeauth", "bridge", "bridgeclient">>

OnePhase == [n \in Nodes |-> 1]
\* Bridges are launched in phase 2, their clients in phase 3.
Phases == [n \in Nodes |-> n]
=============================================================================
