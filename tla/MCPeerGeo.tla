----------------------------- MODULE MCPeerGeo -----------------------------
EXTENDS PeerGeo

CONSTANTS h1

MCHosts == {h1}
MCIds   == 1..3
MCKinds == {"absent", "public", "private"}
=============================================================================
