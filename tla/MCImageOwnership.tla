-------------------------- MODULE MCImageOwnership --------------------------
(* Instances of ImageOwnership for TLC. *)
EXTENDS ImageOwnership, TLC

CONSTANTS root, alice, bob, i1, d1

Caller(u, m) == [uid |-> u, mode |-> m]
Regular == {Caller(u, "regular") : u \in {alice, bob}}
RegularAndRoot == Regular \cup {Caller(root, "regular")}
AliceAndSudo == {Caller(alice, "regular"), Caller(alice, "sudo")}

\* an image known by its id only, and one with a manifest digest
OneImage == i1 :> i1
DigestOfOne == i1 :> i1 @@ d1 :> i1

SymWorkers == Permutations(Workers)
=============================================================================
