-------------------------- MODULE MCDistribution --------------------------
(***************************************************************************)
(* An instance of Distribution: three peers of two providers, two countries *)
(* and two networks.  One entity has a segment, so the other is in Others.  *)
(***************************************************************************)
EXTENDS Distribution
CONSTANTS all, none
MCPeers == 1 .. 3
MCSnapshots == {{1, 2, 3}, {2, 3}}
MCProvider == [p \in MCPeers |-> IF p = 2 THEN "B" ELSE "A"]
MCCountry == [p \in MCPeers |-> IF p = 1 THEN "X" ELSE "Y"]
MCNetwork == [p \in MCPeers |-> IF p = 2 THEN "ipv6" ELSE "ipv4"]
MCDirection == [p \in MCPeers |-> IF p = 1 THEN "IN" ELSE "OUT"]
MCMeasured == {1, 2}
MCSite == {1, 3}
=============================================================================
