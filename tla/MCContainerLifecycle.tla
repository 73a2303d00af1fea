------------------------ MODULE MCContainerLifecycle ------------------------
(* Instances of ContainerLifecycle for TLC. *)
EXTENDS ContainerLifecycle, TLC

CONSTANTS root, alice, bob

Caller(u, m) == [uid |-> u, mode |-> m]
Regular == {Caller(u, "regular") : u \in {alice, bob}}
RegularAndRoot == Regular \cup {Caller(root, "regular")}
AliceAndSudo == {Caller(alice, "regular"), Caller(bob, "sudo")}

SymContainers == Permutations(Containers)
SymAll == SymContainers \cup Permutations(Workers)
=============================================================================
