---------------------------- MODULE MCPeerNetworks ----------------------------
(* Instances of PeerNetworks for TLC. *)
EXTENDS PeerNetworks, TLC

CONSTANTS alice, bob, a1, a2, b1

OwnerOf == (a1 :> alice) @@ (a2 :> alice) @@ (b1 :> bob)
Symmetry == Permutations(Workers) \cup Permutations(Nets)
=============================================================================
