------------------------------- MODULE MCDhcp -------------------------------
(***************************************************************************)
(* Seven networks.  Three in which every message arrives: one server that  *)
(* says when to renew, two servers that do not, one server whose leases    *)
(* differ in length, the longer endless.  Two servers with lost, and with  *)
(* repeated replies.  One server whose replies are lost or refusals, amid  *)
(* packets of others.  One server that grants no time at all, for a client *)
(* whose sockets are sometimes taken.                                      *)
(***************************************************************************)
EXTENDS Dhcp

CONSTANTS s1, s2

Network(servers, leases, options, faults) ==
  [servers |-> servers, leases |-> leases, options |-> options, faults |-> faults]

MCNetworks ==
  { Network({s1}, {5}, TRUE, {}),
    Network({s1, s2}, {5}, FALSE, {}),
    Network({s1}, {4, 15}, FALSE, {}),
    Network({s1, s2}, {5}, FALSE, {"lose"}),
    Network({s1, s2}, {5}, FALSE, {"repeat"}),
    Network({s1}, {5}, FALSE, {"lose", "refuse", "stray"}),
    Network({s1}, {0}, FALSE, {"lose", "busy"}) }
=============================================================================
