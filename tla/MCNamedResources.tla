--------------------------- MODULE MCNamedResources ---------------------------
(* Instances of NamedResources for TLC. *)
EXTENDS NamedResources, TLC

CONSTANTS root, alice, bob

Caller(u, m) == [uid |-> u, mode |-> m]
OneSudo == {Caller(alice, "regular"), Caller(alice, "sudo"), Caller(bob, "regular")}
BobSudo == {Caller(alice, "regular"), Caller(bob, "sudo")}

SymWorkers == Permutations(Workers)
SymIds == Permutations(NetIds) \cup SymWorkers
=============================================================================
