----------------------------- MODULE MCAdmission -----------------------------
(* Instances of Admission for TLC. *)
EXTENDS Admission, TLC

CONSTANTS root, alice, bob, staff, c1, c2

Pair(r, e) == [r |-> r, e |-> e]
Unix(r, e, login, sudo, cmd) ==
    [r |-> r, e |-> e, login |-> login, sudo |-> sudo, token |-> NoUid, cmd |-> cmd]
Remote(uid) ==
    [r |-> NoUid, e |-> NoUid, login |-> NoUid, sudo |-> NoUid, token |-> uid,
     cmd |-> NoCommand]

\* on c1 a user, the user under sudo, a root shell and a set-uid program of the
\* user; on c2 remote clients
Clients ==
    (c1 :> {Unix(alice, alice, alice, NoUid, "run"),
            Unix(root, root, alice, alice, "run"),
            Unix(root, root, NoUid, NoUid, NoCommand),
            Unix(alice, root, NoUid, NoUid, "port")})
    @@ (c2 :> {Remote(alice), Remote(NoUid)})
Changes == (c1 :> {Pair(root, bob)}) @@ (c2 :> {})

Call(path) == [path |-> path, upgrade |-> FALSE]
Upgraded(path) == [path |-> path, upgrade |-> TRUE]

Requests ==
    (c1 :> {Call("containers/create"), Call("containers/inspect"), Call("exec/start")})
    @@ (c2 :> {Call("containers/wait"), Call("containers/stats"), Upgraded("grpc")})

Groups == (root :> {}) @@ (alice :> {staff}) @@ (bob :> {})

Rule(users, groups, actions) == [users |-> users, groups |-> groups, actions |-> actions]
Open == [priv |-> {}, rules |-> {}]
Trusted == [priv |-> {alice}, rules |-> {Rule({"nobody"}, {}, {"ps"})}]
Strict == [priv |-> {"nobody"},
           rules |-> {Rule({alice}, {}, {"run"}), Rule({}, {staff}, {"exec", "port", "logs"})}]
Files == {Open, Trusted, Strict}
==============================================================================
