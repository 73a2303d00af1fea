-------------------------- MODULE MCVolumeOwnership --------------------------
(* Instances of VolumeOwnership for TLC. *)
EXTENDS VolumeOwnership, TLC

CONSTANTS root, alice, bob, b1, h1

Caller(u, m) == [uid |-> u, mode |-> m]
TwoUsers == {Caller(alice, "regular"), Caller(alice, "sudo"), Caller(bob, "regular")}
TwoNamespaces == {alice, bob, Bare}

\* bob's volume has a name that looks like an id, with and without his prefix,
\* and sudo uses both; alice gives her volume a plain name
Name(ns, base) == [ns |-> ns, base |-> base]
Used ==
    [id \in TwoUsers |->
        IF id = Caller(alice, "regular") THEN {Name(Bare, b1)}
        ELSE {Name(Bare, h1), Name(bob, h1)}]
=============================================================================
