------------------------- MODULE MCPrivateNetworks -------------------------
(***************************************************************************)
(* An instance of PrivateNetworks: peers 0 and 1 of two private networks,   *)
(* drawn at one place, and peer 2 of a public network at another.           *)
(***************************************************************************)
EXTENDS PrivateNetworks
CONSTANTS all, none
MCPeers == 0 .. 2
MCSnapshots == {{0, 1}, {0, 2}}
MCPrivate == {"onion", "i2p"}
MCNetwork == [p \in MCPeers |-> CASE p = 0 -> "onion" [] p = 1 -> "i2p" [] OTHER -> "ipv4"]
MCSoftware == [p \in MCPeers |-> "core"]
MCSite == [p \in MCPeers |-> IF p = 2 THEN "city" ELSE "coast"]
MCRank == [t \in {"stable"} |-> [p \in MCPeers |-> p]]
=============================================================================
