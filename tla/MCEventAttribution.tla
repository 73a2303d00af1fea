-------------------------- MODULE MCEventAttribution --------------------------
(* Instances of EventAttribution for TLC. *)
EXTENDS EventAttribution, TLC

CONSTANTS root, alice, bob, app

Caller(u, m) == [uid |-> u, mode |-> m]
OneSudo == {Caller(alice, "regular"), Caller(alice, "sudo"), Caller(bob, "regular")}
BothRegular == {Caller(alice, "regular"), Caller(bob, "regular")}

TwoTags == {[repo |-> app, tag |-> "latest"], [repo |-> app, tag |-> "v1"]}
Latest == {[repo |-> app, tag |-> "latest"]}
===============================================================================
