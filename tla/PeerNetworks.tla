----------------------------- MODULE PeerNetworks -----------------------------
(***************************************************************************)
(* Peerings: an administrator lets the containers of two users reach each  *)
(* other through a shared network, and revokes it again                    *)
(* (internal/forward/proxy.go, AllowNetworkPeer, DenyNetworkPeer,          *)
(* connectContainerToPeerNetworks; internal/isolation/netbridge.go).       *)
(*                                                                         *)
(* A worker is a ctl process that runs "peer allow" or "peer deny", or a   *)
(* container create in the proxy together with the goroutine it leaves     *)
(* behind. Every daemon call and every SQL statement is a step. The two    *)
(* programs share the database and the daemon and no lock.                 *)
(*                                                                         *)
(* A peering is [users, conts]: conts = {} for a peering of all containers *)
(* of both users, a pair of containers otherwise. It determines the row    *)
(* and the name of the network.                                            *)
(***************************************************************************)
EXTENDS FiniteSets

CONSTANTS
    Users,
    Containers,     \* container ids, each used once
    Owner,          \* the user who creates the container with that id
    Nets,           \* network ids, each used once
    Pairs,          \* the pairs of users an administrator may name
    ContPairs,      \* the pairs of containers he may name
    Workers,
    NoNet, NoContainer, NoPeering

Peerings == [users : Pairs, conts : ContPairs \cup {{}}]

ASSUME PeerAssumption ==
    /\ Owner \in [Containers -> Users]
    /\ Pairs \subseteq SUBSET Users
    /\ ContPairs \subseteq SUBSET Containers
    /\ NoNet \notin Nets /\ NoContainer \notin Containers /\ NoPeering \notin Peerings

VARIABLES
    made,       \* the daemon: container ids that were given out
    live,       \* the daemon: the containers there are
    running,    \* the daemon: those of them that run
    joined,     \* the daemon: the peer networks in each container's configuration
    name,       \* the daemon: the name each network id was given
    up,         \* the daemon: the peer networks there are
    rows,       \* table network_peers
    proc,       \* the workers
    calm        \* history: no two workers overlapped and no call failed

vars == <<made, live, running, joined, name, up, rows, proc, calm>>

\* c: the container to connect; p, n: the peering and its network;
\* users, conts, nets: what is left of the loops
Procs ==
    [pc : {"idle", "create", "readPeers", "connect", "find", "createNetwork", "attach",
           "deleteRows", "inspect", "disconnect"},
     c : Containers \cup {NoContainer}, p : Peerings \cup {NoPeering}, n : Nets \cup {NoNet},
     users : SUBSET Users, conts : SUBSET Containers, nets : SUBSET Nets]
IdleProc ==
    [pc |-> "idle", c |-> NoContainer, p |-> NoPeering, n |-> NoNet,
     users |-> {}, conts |-> {}, nets |-> {}]

TypeOK ==
    /\ made \subseteq Containers /\ live \subseteq made /\ running \subseteq live
    /\ joined \in [Containers -> SUBSET Nets]
    /\ name \in [Nets -> Peerings \cup {NoPeering}]
    /\ up \subseteq {n \in Nets : name[n] # NoPeering}
    /\ rows \in [Peerings -> Nets \cup {NoNet}]
    /\ proc \in [Workers -> Procs]
    /\ calm \in BOOLEAN

Init ==
    /\ made = {} /\ live = {} /\ running = {} /\ up = {}
    /\ joined = [c \in Containers |-> {}]
    /\ name = [n \in Nets |-> NoPeering]
    /\ rows = [p \in Peerings |-> NoNet]
    /\ proc = [w \in Workers |-> IdleProc]
    /\ calm = TRUE

-----------------------------------------------------------------------------
At(w, pc) == proc[w].pc = pc
Begin(w, record) == At(w, "idle") /\ proc' = [proc EXCEPT ![w] = record]
Finish(w) == proc' = [proc EXCEPT ![w] = IdleProc]

\* a step of w; ok: the call it makes succeeds
Step(w, ok) == calm' = (calm /\ ok /\ \A v \in Workers \ {w} : At(v, "idle"))

\* mutant: peerings of two containers count too
IsUserLevel_any(p) == p \in Peerings

IsUserLevel(p) == p.conts = {}

\* GetNetworkPeersByUID, without the peerings of two containers
UserLevelNetworks(u) ==
    {rows[p] : p \in {q \in Peerings : IsUserLevel(q) /\ u \in q.users}} \ {NoNet}

-----------------------------------------------------------------------------
(* Calls to the daemon (external). A failed call changes nothing. *)

\* what ConnectContainerToPeerNetwork does to the configurations
Connected(c, n) ==
    IF c \in live /\ n \in up THEN [joined EXCEPT ![c] = @ \cup {n}] ELSE joined

\* inspecting or deleting a network looks at the containers that run
Endpoints(n) == {c \in running : n \in joined[c]}

\* a container starts, unless a network of its configuration is gone
StartContainer(w, c) ==
    /\ At(w, "idle") /\ c \in live \ running /\ joined[c] \subseteq up
    /\ running' = running \cup {c}
    /\ Step(w, TRUE)
    /\ UNCHANGED <<made, live, joined, name, up, rows, proc>>

\* a container ends, whatever the workers do
ContainerEnds(c) ==
    /\ c \in running
    /\ running' = running \ {c}
    /\ UNCHANGED <<made, live, joined, name, up, rows, proc, calm>>

RemoveContainer(w, c) ==
    /\ At(w, "idle") /\ c \in live \ running
    /\ live' = live \ {c}
    /\ joined' = [joined EXCEPT ![c] = {}]
    /\ Step(w, TRUE)
    /\ UNCHANGED <<made, running, name, up, rows, proc>>

-----------------------------------------------------------------------------
(* A container create of a regular user. *)

\* the networks of the user's peerings go into the create request
CreateContainer(w, c) ==
    /\ c \notin made /\ \A v \in Workers : proc[v].c # c
    /\ Begin(w, [IdleProc EXCEPT !.pc = "create", !.c = c, !.nets = UserLevelNetworks(Owner[c])])
    /\ Step(w, TRUE)
    /\ UNCHANGED <<made, live, running, joined, name, up, rows>>

\* InjectUserNetwork: a network that is gone by now stays in the configuration
\* or makes the create fail
InjectUserNetwork(w) ==
    /\ At(w, "create")
    /\ made' = made \cup {proc[w].c}
    /\ live' = live \cup {proc[w].c}
    /\ joined' = [joined EXCEPT ![proc[w].c] = proc[w].nets]
    /\ proc' = [proc EXCEPT ![w].pc = "readPeers"]
    /\ Step(w, TRUE)
    /\ UNCHANGED <<running, name, up, rows>>

CreateFails(w) ==
    /\ At(w, "create")
    /\ Finish(w)
    /\ Step(w, FALSE)
    /\ UNCHANGED <<made, live, running, joined, name, up, rows>>

\* the goroutine connectContainerToPeerNetworks
ReadPeers(w) ==
    /\ At(w, "readPeers")
    /\ proc' = [proc EXCEPT ![w].pc = "connect",
                            ![w].nets = UserLevelNetworks(Owner[proc[w].c])]
    /\ Step(w, TRUE)
    /\ UNCHANGED <<made, live, running, joined, name, up, rows>>

ConnectNext(w) ==
    /\ At(w, "connect")
    /\ \E n \in proc[w].nets :
        /\ proc' = [proc EXCEPT ![w].nets = @ \ {n}]
        /\ \/ joined' = Connected(proc[w].c, n) /\ Step(w, TRUE)
           \/ joined' = joined /\ Step(w, FALSE)
    /\ UNCHANGED <<made, live, running, name, up, rows>>

ConnectDone(w) ==
    /\ At(w, "connect") /\ proc[w].nets = {}
    /\ Finish(w)
    /\ Step(w, TRUE)
    /\ UNCHANGED <<made, live, running, joined, name, up, rows>>

-----------------------------------------------------------------------------
(* peer allow *)

\* ctl checks, for allow and for deny, that the two containers exist and belong
\* to the two users
peerMutate(p) ==
    IsUserLevel(p) \/ (p.conts \subseteq live /\ {Owner[c] : c \in p.conts} = p.users)

\* nothing to do when there is a row
AllowNetworkPeer(w, p) ==
    /\ peerMutate(p)
    /\ rows[p] = NoNet
    /\ Begin(w, [IdleProc EXCEPT !.pc = "find", !.p = p])
    /\ Step(w, TRUE)
    /\ UNCHANGED <<made, live, running, joined, name, up, rows>>

\* mutant: only one of the two users' containers are connected
ToConnect_one(p) == IF IsUserLevel(p) THEN {CHOOSE u \in p.users : TRUE} ELSE {}

\* the users whose containers are listed and connected
ToConnect(p) == IF IsUserLevel(p) THEN p.users ELSE {}

\* the loops over the containers once the network is known; the containers of
\* a peering of two are not listed
WithNetwork(w, n) ==
    proc' = [proc EXCEPT ![w].pc = "attach", ![w].n = n,
                         ![w].users = ToConnect(proc[w].p), ![w].conts = proc[w].p.conts]

findNetworkByName(w) ==
    /\ At(w, "find")
    /\ \/ \E n \in up : name[n] = proc[w].p /\ WithNetwork(w, n) /\ Step(w, TRUE)
       \/ /\ \A n \in up : name[n] # proc[w].p
          /\ proc' = [proc EXCEPT ![w].pc = "createNetwork"]
          /\ Step(w, TRUE)
       \/ \* a failed inspection counts as "no such network"
          /\ proc' = [proc EXCEPT ![w].pc = "createNetwork"]
          /\ Step(w, FALSE)
    /\ UNCHANGED <<made, live, running, joined, name, up, rows>>

\* the daemon may or may not refuse a name that is taken
createNetwork(w) ==
    /\ At(w, "createNetwork")
    /\ \/ \E n \in Nets :
            /\ name[n] = NoPeering
            /\ name' = [name EXCEPT ![n] = proc[w].p]
            /\ up' = up \cup {n}
            /\ WithNetwork(w, n)
            /\ Step(w, TRUE)
       \/ Finish(w) /\ Step(w, FALSE) /\ UNCHANGED <<name, up>>
    /\ UNCHANGED <<made, live, running, joined, rows>>

\* a list that fails is taken for an empty one
GetContainersByOwner(w) ==
    /\ At(w, "attach") /\ proc[w].conts = {}
    /\ \E u \in proc[w].users :
        \/ /\ proc' = [proc EXCEPT ![w].users = @ \ {u},
                                   ![w].conts = {c \in live : Owner[c] = u}]
           /\ Step(w, TRUE)
        \/ proc' = [proc EXCEPT ![w].users = @ \ {u}] /\ Step(w, FALSE)
    /\ UNCHANGED <<made, live, running, joined, name, up, rows>>

AttachNext(w) ==
    /\ At(w, "attach")
    /\ \E c \in proc[w].conts :
        /\ proc' = [proc EXCEPT ![w].conts = @ \ {c}]
        /\ \/ joined' = Connected(c, proc[w].n) /\ Step(w, TRUE)
           \/ joined' = joined /\ Step(w, FALSE)
    /\ UNCHANGED <<made, live, running, name, up, rows>>

\* the row comes last
AddNetworkPeer(w) ==
    /\ At(w, "attach") /\ proc[w].conts = {} /\ proc[w].users = {}
    /\ rows' = [rows EXCEPT ![proc[w].p] = proc[w].n]
    /\ Finish(w)
    /\ Step(w, TRUE)
    /\ UNCHANGED <<made, live, running, joined, name, up>>

-----------------------------------------------------------------------------
(* peer deny *)

\* what a deny of p is about: without containers, everything the pair has
Revoked(p) == IF IsUserLevel(p) THEN {q \in Peerings : q.users = p.users} ELSE {p}

\* RemoveNetworkPeer is a SELECT and a DELETE; without rows there is nothing to do
DenyNetworkPeer(w, p) ==
    /\ peerMutate(p)
    /\ \E q \in Revoked(p) : rows[q] # NoNet
    /\ Begin(w, [IdleProc EXCEPT !.pc = "deleteRows", !.p = p,
                                 !.nets = {rows[q] : q \in Revoked(p)} \ {NoNet}])
    /\ Step(w, TRUE)
    /\ UNCHANGED <<made, live, running, joined, name, up, rows>>

RemoveNetworkPeer(w) ==
    /\ At(w, "deleteRows")
    /\ rows' = [q \in Peerings |-> IF q \in Revoked(proc[w].p) THEN NoNet ELSE rows[q]]
    /\ proc' = [proc EXCEPT ![w].pc = "inspect", ![w].p = NoPeering]
    /\ Step(w, TRUE)
    /\ UNCHANGED <<made, live, running, joined, name, up>>

\* a failed inspection yields no containers
listNetworkContainers(w) ==
    /\ At(w, "inspect")
    /\ \E n \in proc[w].nets :
        \/ /\ proc' = [proc EXCEPT ![w].pc = "disconnect", ![w].n = n, ![w].nets = @ \ {n},
                                   ![w].conts = Endpoints(n)]
           /\ Step(w, TRUE)
        \/ /\ proc' = [proc EXCEPT ![w].pc = "disconnect", ![w].n = n, ![w].nets = @ \ {n}]
           /\ Step(w, FALSE)
    /\ UNCHANGED <<made, live, running, joined, name, up, rows>>

\* mutant: the containers are left for the daemon to disconnect
Disconnected_not(c, n) == joined

Disconnected(c, n) == [joined EXCEPT ![c] = @ \ {n}]

DisconnectNext(w) ==
    /\ At(w, "disconnect")
    /\ \E c \in proc[w].conts :
        /\ proc' = [proc EXCEPT ![w].conts = @ \ {c}]
        /\ \/ joined' = Disconnected(c, proc[w].n) /\ Step(w, TRUE)
           \/ joined' = joined /\ Step(w, FALSE)
    /\ UNCHANGED <<made, live, running, name, up, rows>>

\* the daemon refuses to delete a network that running containers use; the
\* failure is logged and that is all
DeletePeerNetwork(w) ==
    /\ At(w, "disconnect") /\ proc[w].conts = {}
    /\ \/ Endpoints(proc[w].n) = {} /\ up' = up \ {proc[w].n} /\ Step(w, TRUE)
       \/ UNCHANGED up /\ Step(w, Endpoints(proc[w].n) # {})
    /\ proc' = [proc EXCEPT ![w].pc = "inspect", ![w].n = NoNet]
    /\ UNCHANGED <<made, live, running, joined, name, rows>>

DenyDone(w) ==
    /\ At(w, "inspect") /\ proc[w].nets = {}
    /\ Finish(w)
    /\ Step(w, TRUE)
    /\ UNCHANGED <<made, live, running, joined, name, up, rows>>

-----------------------------------------------------------------------------
Create(w) ==
    \/ \E c \in Containers :
        CreateContainer(w, c) \/ StartContainer(w, c) \/ RemoveContainer(w, c)
    \/ InjectUserNetwork(w) \/ CreateFails(w)
    \/ ReadPeers(w) \/ ConnectNext(w) \/ ConnectDone(w)

Allow(w) ==
    \/ \E p \in Peerings : AllowNetworkPeer(w, p)
    \/ findNetworkByName(w) \/ createNetwork(w)
    \/ GetContainersByOwner(w) \/ AttachNext(w) \/ AddNetworkPeer(w)

Deny(w) ==
    \/ \E p \in Peerings : DenyNetworkPeer(w, p)
    \/ RemoveNetworkPeer(w) \/ listNetworkContainers(w)
    \/ DisconnectNext(w) \/ DeletePeerNetwork(w) \/ DenyDone(w)

Next ==
    \/ \E w \in Workers : Create(w) \/ Allow(w) \/ Deny(w)
    \/ \E c \in Containers : ContainerEnds(c)

Spec == Init /\ [][Next]_vars

-----------------------------------------------------------------------------
(* Properties. *)

Belongs(c, p) == Owner[c] \in p.users /\ (p.conts = {} \/ c \in p.conts)

\* However creates, allows and denies interleave and fail, a container is only
\* ever attached to the network of a peering it belongs to: one of its user's,
\* and if that peering is about two containers, it is one of them
\* (proxy.go, connectContainerToPeerNetworks and the comment on PeerOptions).
PeersOnly ==
    \A c \in Containers : \A n \in joined[c] : name[n] \in Peerings /\ Belongs(c, name[n])

Quiet == calm /\ \A w \in Workers : At(w, "idle")

\* If commands and creates did not overlap and no call failed, the networks
\* there are are those the table names: a deny restores isolation, and no row
\* names a network that is gone (proxy.go, the comment on DenyNetworkPeer).
NetworksMatchRows == Quiet => up = {rows[p] : p \in Peerings} \ {NoNet}

\* Likewise, all containers of two peered users are attached to their network,
\* those created before the allow and those created after it (proxy.go, the
\* comment on AllowNetworkPeer).
PeersConnected ==
    Quiet =>
        \A p \in Peerings, c \in live :
            p.conts = {} /\ rows[p] # NoNet /\ Owner[c] \in p.users => rows[p] \in joined[c]
=============================================================================
