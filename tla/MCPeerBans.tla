----------------------------- MODULE MCPeerBans -----------------------------
(* An address only one peer gives, and one that both give. *)
EXTENDS PeerBans
CONSTANTS p1, p2, own, both
MCPeer      == {p1, p2}
MCAddr      == {own, both}
MCAddresses == [p \in MCPeer |-> IF p = p1 THEN {own, both} ELSE {both}]
=============================================================================
