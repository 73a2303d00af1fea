---------------------------- MODULE NamedResources ----------------------------
(***************************************************************************)
(* Networks, and the services, secrets and configs of a swarm: resources   *)
(* the daemon gives an id and that requests address by name or by id       *)
(* (internal/forward/proxy.go, internal/isolation/network.go,              *)
(* netbridge.go, internal/authz/ownership.go).                             *)
(*                                                                         *)
(* A worker is a request in flight, or the start of a user's listener.     *)
(* The reads of a check are one step; every daemon call and every write of *)
(* a table is a step. A refused request is a stuttering step.              *)
(*                                                                         *)
(* A name is [form, uid, base]: "user" for "<user>_u<uid>_<base>",         *)
(* "bridge" for "user-<uid>-bridge", "bare" for any other. The three swarm *)
(* tables have the same statements and the same checks: one kind of        *)
(* resource stands for the three. Nothing writes the table network_access. *)
(***************************************************************************)
EXTENDS CallerIdentity, Naturals

CONSTANTS
    NetIds,         \* network ids, each used once
    SwarmIds,       \* ids of swarm resources, each used once
    Users,          \* the uids whose prefix names carry
    Bases,          \* what follows a prefix
    NoBase,
    Callers,        \* the callers that send requests
    Workers,
    NoId, NoName,
    MaxRestarts,    \* bound on restarts of the proxy
    AnswersMayBeLost    \* whether a transport error may hide a daemon's answer

Ids == NetIds \cup SwarmIds
UserName(u, b) == [form |-> "user", uid |-> u, base |-> b]
BridgeName(u) == [form |-> "bridge", uid |-> u, base |-> NoBase]
BareName(b) == [form |-> "bare", uid |-> RootUid, base |-> b]
Names ==
    {UserName(u, b) : u \in Users, b \in Bases} \cup {BridgeName(u) : u \in Users}
        \cup {BareName(b) : b \in Bases}

ASSUME ResourceAssumption ==
    /\ NetIds \cap SwarmIds = {} /\ NoId \notin Ids /\ NoName \notin Names
    /\ Users \subseteq Uids /\ Callers \subseteq Identities
    /\ \A id \in Callers : IsPrivileged(id) \/ id.uid \in Users
    /\ MaxRestarts \in Nat /\ AnswersMayBeLost \in BOOLEAN

VARIABLES
    up,         \* the daemon: the resources there are
    name,       \* the daemon: the name each id was given; its row has the same one
    attached,   \* the daemon: the networks with a container's endpoint
    rows,       \* tables networks and swarm_*
    maker,      \* history: the caller each resource was made for
    req,        \* the request of each worker
    restarts,
    calm        \* history: no two requests overlapped, no answer was lost and no
                \* privileged request took a path that leaves rows behind

vars == <<up, name, attached, rows, maker, req, restarts, calm>>

Rows == [found : BOOLEAN, owner : Uids, sudo : BOOLEAN]
NoRow == [found |-> FALSE, owner |-> RootUid, sudo |-> FALSE]

\* how a request addresses a resource: by name, by its id or by the first
\* twelve digits of the id
ByName(n) == [by |-> "name", name |-> n, n |-> NoId]
ById(n) == [by |-> "id", name |-> NoName, n |-> n]
ByShortId(n) == [by |-> "short", name |-> NoName, n |-> n]
Refs(S) == {ByName(n) : n \in Names} \cup {ById(n) : n \in S} \cup {ByShortId(n) : n \in S}
NoRef == ByName(NoName)

\* n: the id the daemon answered with; todo: the loop of a prune
Requests ==
    [pc : {"idle", "forward", "register", "forget", "prune", "pruneForget", "prunedForget",
           "findBridge", "createBridge", "manage"},
     op : {"none", "create", "rm", "connect", "disconnect", "container", "listener", "prune"},
     kind : {"network", "swarm"}, id : Identities, ref : Refs(Ids) \cup {NoRef},
     n : Ids \cup {NoId}, todo : SUBSET Ids]
IdleRequest ==
    [pc |-> "idle", op |-> "none", kind |-> "network", id |-> Root, ref |-> NoRef,
     n |-> NoId, todo |-> {}]

TypeOK ==
    /\ up \subseteq Ids /\ attached \subseteq up \cap NetIds
    /\ name \in [Ids -> Names \cup {NoName}]
    /\ rows \in [Ids -> Rows]
    /\ maker \in [Ids -> Identities]
    /\ req \in [Workers -> Requests]
    /\ restarts \in 0 .. MaxRestarts
    /\ calm \in BOOLEAN

Init ==
    /\ up = {} /\ attached = {}
    /\ name = [n \in Ids |-> NoName]
    /\ rows = [n \in Ids |-> NoRow]
    /\ maker = [n \in Ids |-> Root]
    /\ req = [w \in Workers |-> IdleRequest]
    /\ restarts = 0 /\ calm = TRUE

-----------------------------------------------------------------------------
(* Statements and queries of the tables. *)

Of(kind) == IF kind = "network" THEN NetIds ELSE SwarmIds
IsRegistered(n) == n \in Ids /\ rows[n].found

\* GetNetworkIDByName: the column is not unique, any row may come first
IdsOfName(m) == {n \in NetIds : rows[n].found /\ name[n] = m}

\* mutant: an untracked resource is anybody's
OwnedBy_untracked(n, u) == n \in Ids /\ (rows[n].found => rows[n].owner = u)

\* CanUserAccessNetwork, GetServiceOwner and the like
OwnedBy(n, u) == IsRegistered(n) /\ rows[n].owner = u

GetNetworkIDsByOwner(u) == {n \in NetIds : OwnedBy(n, u) /\ ~rows[n].sudo}

SetOwner(n, u, sudo) ==
    rows' = [rows EXCEPT ![n] = [found |-> TRUE, owner |-> u, sudo |-> sudo]]
\* the swarm tables have no privileged context
SetSwarmOwner(n, u) == SetOwner(n, u, FALSE)
DeleteRow(n) == rows' = IF n \in Ids THEN [rows EXCEPT ![n] = NoRow] ELSE rows

\* the key a reference is as it stands: a name or a short id is none
Key(ref) == IF ref.by = "id" THEN ref.n ELSE NoId

-----------------------------------------------------------------------------
(* Names in requests and answers. *)

\* a regular caller's name goes under his prefix; a name with a foreign prefix,
\* too: its base stands for the whole of it
InjectNetworkNamePrefix(id, m) ==
    IF IsPrivileged(id) THEN m ELSE UserName(id.uid, m.base)

\* mutant: the bridge is no exception
RewriteNetworkURL_all(id, ref) ==
    IF ref.by # "name" \/ IsPrivileged(id) THEN ref
    ELSE ByName(InjectNetworkNamePrefix(id, ref.name))

\* ids and the caller's own bridge pass
RewriteNetworkURL(id, ref) ==
    IF ref.by # "name" \/ IsPrivileged(id) \/ ref.name = BridgeName(id.uid)
    THEN ref
    ELSE ByName(InjectNetworkNamePrefix(id, ref.name))

\* mutant: only what the table has
Listed_rows(u) == up \cap GetNetworkIDsByOwner(u)

\* FilterNetworkListResponse: the networks a regular u is shown, under their
\* names without his prefix
Listed(u) ==
    {n \in up \cap NetIds :
        n \in GetNetworkIDsByOwner(u) \/ (name[n].form = "user" /\ name[n].uid = u)}
\* FilterServiceListResponse and the like
ListedSwarm(u) == {n \in up \cap SwarmIds : OwnedBy(n, u)}
VisibleName(u, m) == IF m.form = "user" /\ m.uid = u THEN BareName(m.base) ELSE m

\* what inspect, connect, disconnect and rm of ref may be forwarded to: the
\* rewritten reference, if its row is the caller's; failing a row of that name,
\* the id of the row that has the name as the caller wrote it
Targets(id, ref) ==
    LET r == RewriteNetworkURL(id, ref)
    IN  CASE IsPrivileged(id) -> {r}
          [] ~IsPrivileged(id) /\ r.by # "name" ->
                {q \in {r} : q.by = "id" /\ OwnedBy(q.n, id.uid)}
          [] OTHER ->
                IF IdsOfName(r.name) # {}
                THEN {q \in {r} : \E n \in IdsOfName(r.name) : OwnedBy(n, id.uid)}
                ELSE {ById(n) : n \in {m \in IdsOfName(VisibleName(id.uid, r.name)) :
                                            OwnedBy(m, id.uid)}}

-----------------------------------------------------------------------------
(* Workers. *)

Idle(w) == req[w].pc = "idle"
Alone(w) == \A v \in Workers \ {w} : Idle(v)
Goto(w, pc) == req' = [req EXCEPT ![w].pc = pc]
Finish(w) == req' = [req EXCEPT ![w] = IdleRequest]

\* a step of w; ok: nothing went wrong and nothing is left behind
Step(w, ok) == calm' = (calm /\ ok /\ Alone(w))

Begin(w, request) ==
    /\ Idle(w)
    /\ req' = [req EXCEPT ![w] = request]
    /\ Step(w, TRUE)
    /\ UNCHANGED <<up, name, attached, rows, maker, restarts>>

Forward(op, kind, id, ref) ==
    [IdleRequest EXCEPT !.pc = "forward", !.op = op, !.kind = kind, !.id = id, !.ref = ref]

-----------------------------------------------------------------------------
(* Requests. *)

NetworkCreate(w, id, m) ==
    Begin(w, Forward("create", "network", id, ByName(InjectNetworkNamePrefix(id, m))))

\* connect and disconnect name a container too; it changes who is attached,
\* which the model keeps per network only
checkNetworkAccess(w, id, ref, op) ==
    \E target \in Targets(id, ref) : Begin(w, Forward(op, "network", id, target))

SwarmCreate(w, id, m) == Begin(w, Forward("create", "swarm", id, ByName(m)))

\* mutant: a reference without a row passes
SwarmAllowed_untracked(id, ref) ==
    IsPrivileged(id) \/ ~IsRegistered(Key(ref)) \/ OwnedBy(ref.n, id.uid)

\* inspect, update and rm: the row is looked up under the reference as written,
\* and the rows are keyed by id
SwarmAllowed(id, ref) == IsPrivileged(id) \/ OwnedBy(Key(ref), id.uid)

checkSwarmOwner(w, id, ref) ==
    /\ SwarmAllowed(id, ref)
    /\ Begin(w, Forward("rm", "swarm", id, ref))

\* docker swarm leave --force: the resources go with the swarm, their rows stay
SwarmLeave(w, id) ==
    /\ Idle(w) /\ IsPrivileged(id)
    /\ up' = up \cap NetIds
    /\ Step(w, up \cap SwarmIds = {})
    /\ UNCHANGED <<name, attached, rows, maker, req, restarts>>

\* a container create that names a network; NoRef if it names none. The check
\* looks for the caller's own network or for a row with that id; what is
\* injected afterwards is always a name under his prefix.
checkCreateContainerNetworks(w, id, ref) ==
    LET own == IF ref.by = "name" /\ ref # NoRef
               THEN ByName(InjectNetworkNamePrefix(id, ref.name)) ELSE NoRef
    IN  IF IsPrivileged(id) THEN Begin(w, Forward("container", "network", id, ref))
        ELSE /\ \/ ref = NoRef \/ ref = ByName(BridgeName(id.uid)) \/ ref = own
                \/ ref.by = "name" /\ \E n \in IdsOfName(own.name) : OwnedBy(n, id.uid)
                \/ ref.by = "id" /\ OwnedBy(ref.n, id.uid)
             /\ Begin(w, [Forward("container", "network", id,
                             IF ref = ByName(BridgeName(id.uid)) THEN NoRef ELSE own)
                          EXCEPT !.pc = "findBridge"])

\* the listener of a user is started: at the start of the proxy, or by
\* watchNewUsers
ensureUserBridge(w, id) ==
    /\ ~IsPrivileged(id)
    /\ Begin(w, [Forward("listener", "network", id, NoRef) EXCEPT !.pc = "findBridge"])

handleNetworkPrune(w, id) ==
    /\ ~IsPrivileged(id)
    /\ Begin(w, [Forward("prune", "network", id, NoRef)
                 EXCEPT !.pc = "prune", !.todo = GetNetworkIDsByOwner(id.uid)])

PrivilegedPrune(w, id) ==
    /\ IsPrivileged(id)
    /\ Begin(w, Forward("prune", "network", id, NoRef))

-----------------------------------------------------------------------------
(* The daemon (external). *)

Resolves(kind, ref, n) ==
    /\ n \in up \cap Of(kind)
    /\ IF ref.by = "name" THEN name[n] = ref.name ELSE n = ref.n

At(w, pc, op) == req[w].pc = pc /\ req[w].op = op

\* a new resource: its id is fresh, its name free
Makes(w, n, m) ==
    /\ n \in Of(req[w].kind) /\ name[n] = NoName
    /\ \A k \in up \cap Of(req[w].kind) : name[k] # m
    /\ up' = up \cup {n}
    /\ name' = [name EXCEPT ![n] = m]
    /\ maker' = [maker EXCEPT ![n] = req[w].id]

DaemonCreates(w) ==
    /\ At(w, "forward", "create")
    /\ \/ \E n \in Ids :
            /\ Makes(w, n, req[w].ref.name)
            /\ \/ req' = [req EXCEPT ![w].pc = "register", ![w].n = n] /\ Step(w, TRUE)
               \/ AnswersMayBeLost /\ Finish(w) /\ Step(w, FALSE)
       \/ Finish(w) /\ Step(w, TRUE) /\ UNCHANGED <<up, name, maker>>
    /\ UNCHANGED <<attached, rows, restarts>>

\* a network with endpoints stays; so does a resource that is not found
DaemonRemoves(w) ==
    /\ At(w, "forward", "rm")
    /\ \/ \E n \in Ids \ attached :
            /\ Resolves(req[w].kind, req[w].ref, n)
            /\ up' = up \ {n}
            /\ \/ Goto(w, "forget") /\ Step(w, TRUE)
               \/ AnswersMayBeLost /\ Finish(w) /\ Step(w, FALSE)
       \/ /\ ~ \E n \in Ids \ attached : Resolves(req[w].kind, req[w].ref, n)
          /\ Finish(w) /\ Step(w, TRUE) /\ UNCHANGED up
    /\ UNCHANGED <<name, attached, rows, maker, restarts>>

\* connect, and a container that starts on the networks it was created with
DaemonAttaches(w) ==
    /\ At(w, "forward", "connect") \/ At(w, "forward", "container")
    /\ LET id == req[w].id
           on == {n \in NetIds : \/ Resolves("network", req[w].ref, n)
                                 \/ /\ req[w].op = "container" /\ ~IsPrivileged(id)
                                    /\ Resolves("network", ByName(BridgeName(id.uid)), n)}
       IN  attached' = attached \cup on
    /\ Finish(w) /\ Step(w, TRUE)
    /\ UNCHANGED <<up, name, rows, maker, restarts>>

\* the last endpoint of a network goes
DaemonDetaches(w) ==
    /\ At(w, "forward", "disconnect")
    /\ attached' = {n \in attached : ~Resolves("network", req[w].ref, n)}
    /\ Finish(w) /\ Step(w, TRUE)
    /\ UNCHANGED <<up, name, rows, maker, restarts>>

\* the containers on n end
ContainersEnd(n) ==
    /\ n \in attached
    /\ attached' = attached \ {n}
    /\ UNCHANGED <<up, name, rows, maker, req, restarts, calm>>

\* a privileged prune takes every network without endpoints. After a system
\* prune the rows are deleted by name; after a network prune none is.
DaemonPrunes(w) ==
    /\ At(w, "forward", "prune")
    /\ LET gone == (up \cap NetIds) \ attached
       IN  /\ up' = up \ gone
           /\ \/ /\ req' = [req EXCEPT ![w].pc = "prunedForget", ![w].todo = gone]
                 /\ Step(w, TRUE)
              \/ Finish(w) /\ Step(w, gone = {})
    /\ UNCHANGED <<name, attached, rows, maker, restarts>>

-----------------------------------------------------------------------------
(* What the proxy does with the answers. *)

\* mutant: the row is written for root
RegisterNetwork_root(w) ==
    /\ req[w].pc = "register" /\ req[w].kind = "network"
    /\ SetOwner(req[w].n, RootUid, FALSE)
    /\ Finish(w) /\ Step(w, TRUE)
    /\ UNCHANGED <<up, name, attached, maker, restarts>>

RegisterNetwork(w) ==
    /\ req[w].pc = "register" /\ req[w].kind = "network"
    /\ SetOwner(req[w].n, req[w].id.uid, IsSudoCommand(req[w].id))
    /\ Finish(w) /\ Step(w, TRUE)
    /\ UNCHANGED <<up, name, attached, maker, restarts>>

RegisterSwarm(w) ==
    /\ req[w].pc = "register" /\ req[w].kind = "swarm"
    /\ SetSwarmOwner(req[w].n, req[w].id.uid)
    /\ Finish(w) /\ Step(w, TRUE)
    /\ UNCHANGED <<up, name, attached, maker, restarts>>

\* mutant: the name is taken for an id
ForgetNetwork_byName(w) ==
    /\ req[w].pc = "forget" /\ req[w].kind = "network"
    /\ DeleteRow(Key(req[w].ref))
    /\ Finish(w) /\ Step(w, req[w].ref.by # "short")
    /\ UNCHANGED <<up, name, attached, maker, restarts>>

\* the row is found by name or by id
ForgetNetwork(w) ==
    /\ req[w].pc = "forget" /\ req[w].kind = "network"
    /\ LET ref == req[w].ref
           found == IF ref.by = "name" THEN IdsOfName(ref.name) ELSE {}
       IN  /\ \/ \E n \in found : DeleteRow(n)
              \/ found = {} /\ DeleteRow(Key(ref))
           /\ Step(w, ref.by # "short")
    /\ Finish(w)
    /\ UNCHANGED <<up, name, attached, maker, restarts>>

\* mutant: the row is kept
ForgetSwarm_kept(w) ==
    /\ req[w].pc = "forget" /\ req[w].kind = "swarm"
    /\ Step(w, req[w].ref.by = "id")
    /\ Finish(w)
    /\ UNCHANGED <<up, name, attached, rows, maker, restarts>>

\* the row is found by id only
ForgetSwarm(w) ==
    /\ req[w].pc = "forget" /\ req[w].kind = "swarm"
    /\ DeleteRow(Key(req[w].ref))
    /\ Step(w, req[w].ref.by = "id")
    /\ Finish(w)
    /\ UNCHANGED <<up, name, attached, maker, restarts>>

\* one DELETE of a regular caller's prune; a network in use is skipped
PruneNext(w) ==
    /\ req[w].pc = "prune"
    /\ \E n \in req[w].todo :
        \/ /\ n \in up \ attached
           /\ up' = up \ {n}
           /\ \/ /\ req' = [req EXCEPT ![w].pc = "pruneForget", ![w].n = n, ![w].todo = @ \ {n}]
                 /\ Step(w, TRUE)
              \/ /\ AnswersMayBeLost /\ req' = [req EXCEPT ![w].todo = @ \ {n}]
                 /\ Step(w, FALSE)
        \/ /\ n \notin up \ attached
           /\ req' = [req EXCEPT ![w].todo = @ \ {n}]
           /\ Step(w, TRUE) /\ UNCHANGED up
    /\ UNCHANGED <<name, attached, rows, maker, restarts>>

PruneForget(w) ==
    /\ req[w].pc = "pruneForget"
    /\ DeleteRow(req[w].n)
    /\ req' = [req EXCEPT ![w].pc = "prune", ![w].n = NoId]
    /\ Step(w, TRUE)
    /\ UNCHANGED <<up, name, attached, maker, restarts>>

\* the answer of a system prune names the networks; todo has their ids
SystemPruneForget(w) ==
    /\ req[w].pc = "prunedForget"
    /\ \E n \in req[w].todo :
        /\ \/ \E k \in IdsOfName(name[n]) : DeleteRow(k)
           \/ IdsOfName(name[n]) = {} /\ UNCHANGED rows
        /\ req' = [req EXCEPT ![w].todo = @ \ {n}]
    /\ Step(w, TRUE)
    /\ UNCHANGED <<up, name, attached, maker, restarts>>

PruneDone(w) ==
    /\ req[w].pc \in {"prune", "prunedForget"} /\ req[w].todo = {}
    /\ Finish(w) /\ Step(w, TRUE)
    /\ UNCHANGED <<up, name, attached, rows, maker, restarts>>

-----------------------------------------------------------------------------
(* EnsureUserBridge. *)

FindBridge(w) ==
    /\ req[w].pc = "findBridge"
    /\ LET found == {n \in NetIds : Resolves("network", ByName(BridgeName(req[w].id.uid)), n)}
       IN  \/ \E n \in found : req' = [req EXCEPT ![w].pc = "manage", ![w].n = n]
           \/ found = {} /\ Goto(w, "createBridge")
    /\ Step(w, TRUE)
    /\ UNCHANGED <<up, name, attached, rows, maker, restarts>>

\* a create that fails ends the request
CreateBridge(w) ==
    /\ req[w].pc = "createBridge"
    /\ \/ \E n \in NetIds :
            /\ Makes(w, n, BridgeName(req[w].id.uid))
            /\ \/ req' = [req EXCEPT ![w].pc = "manage", ![w].n = n] /\ Step(w, TRUE)
               \/ AnswersMayBeLost /\ Finish(w) /\ Step(w, FALSE)
       \/ Finish(w) /\ Step(w, TRUE) /\ UNCHANGED <<up, name, maker>>
    /\ UNCHANGED <<attached, rows, restarts>>

SetManagedNetworkOwner(w) ==
    /\ req[w].pc = "manage"
    /\ SetOwner(req[w].n, req[w].id.uid, FALSE)
    /\ IF req[w].op = "listener" THEN Finish(w)
       ELSE req' = [req EXCEPT ![w].pc = "forward", ![w].n = NoId]
    /\ Step(w, TRUE)
    /\ UNCHANGED <<up, name, attached, maker, restarts>>

Restart ==
    /\ restarts < MaxRestarts
    /\ restarts' = restarts + 1
    /\ req' = [w \in Workers |-> IdleRequest]
    /\ calm' = (calm /\ \A w \in Workers : Idle(w))
    /\ UNCHANGED <<up, name, attached, rows, maker>>

-----------------------------------------------------------------------------
\* The references a caller writes. A regular caller's that reads like a bridge
\* of somebody else is one more bare name.
Written(id, S) ==
    {ref \in Refs(S) : IsPrivileged(id) \/ ref.by # "name"
                        \/ ref.name.form # "bridge" \/ ref.name.uid = id.uid}

Arrive(w) ==
    \E id \in Callers :
        \/ \E m \in Names :
            \/ (m.form # "bridge" \/ IsPrivileged(id)) /\ NetworkCreate(w, id, m)
            \/ m.form = "bare" /\ SwarmCreate(w, id, m)
        \/ \E ref \in Written(id, NetIds), op \in {"rm", "connect", "disconnect"} :
                checkNetworkAccess(w, id, ref, op)
        \/ \E ref \in Written(id, SwarmIds) : checkSwarmOwner(w, id, ref)
        \/ \E ref \in Written(id, NetIds) \cup {NoRef} : checkCreateContainerNetworks(w, id, ref)
        \/ SwarmLeave(w, id) \/ ensureUserBridge(w, id)
        \/ handleNetworkPrune(w, id) \/ PrivilegedPrune(w, id)

Serve(w) ==
    \/ DaemonCreates(w) \/ DaemonRemoves(w) \/ DaemonAttaches(w) \/ DaemonDetaches(w)
    \/ DaemonPrunes(w) \/ RegisterNetwork(w) \/ RegisterSwarm(w)
    \/ ForgetNetwork(w) \/ ForgetSwarm(w)
    \/ PruneNext(w) \/ PruneForget(w) \/ SystemPruneForget(w) \/ PruneDone(w)
    \/ FindBridge(w) \/ CreateBridge(w) \/ SetManagedNetworkOwner(w)

Next ==
    \/ \E w \in Workers : Arrive(w) \/ Serve(w)
    \/ \E n \in NetIds : ContainersEnd(n)
    \/ Restart

Spec == Init /\ [][Next]_vars

-----------------------------------------------------------------------------
(* Properties. *)

\* in a user's name space, whoever made it
InNamespace(n, u) == name[n] # NoName /\ name[n].form \in {"user", "bridge"} /\ name[n].uid = u

\* Whatever rows are stale and however requests interleave, a row names the user
\* the resource was made for, unless the resource carries a name of his.
RowsHonest ==
    \A n \in Ids : rows[n].found => rows[n].owner = maker[n].uid \/ InNamespace(n, rows[n].owner)

\* A regular caller's request removes, attaches to or detaches from a resource
\* only if it was made for him or carries a name of his: the check reads the
\* tables, the daemon resolves the name afterwards.
OwnOnly ==
    \A w \in Workers, n \in Ids :
        /\ ~IsPrivileged(req[w].id) /\ req'[w] # req[w]
        /\ n \in up \ up' \/ n \in attached \ attached' \/ n \in attached' \ attached
        => maker[n].uid = req[w].id.uid \/ InNamespace(n, req[w].id.uid)
RegularActsOnOwn == [][OwnOnly]_vars

Quiet == calm /\ \A w \in Workers : Idle(w)

\* As long as requests do not overlap and nothing fails, the tables list what
\* there is.
RowsMatchResources == Quiet => {n \in Ids : rows[n].found} = up

\* Then a network of his that a regular caller is shown can be addressed by the
\* name he is shown, and that leads to this network.
ListedIsUsable ==
    Quiet => \A id \in {i \in Callers : ~IsPrivileged(i)} :
        /\ \A n \in Listed(id.uid) :
            maker[n].uid = id.uid =>
                LET targets == Targets(id, ByName(VisibleName(id.uid, name[n])))
                IN  /\ targets # {}
                    /\ \A ref \in targets : Resolves("network", ref, n)
        /\ \A n \in ListedSwarm(id.uid) : SwarmAllowed(id, ById(n))

\* What a user made with neither sudo nor privileges is on his list as long as
\* it exists, even if its row was never written.
MadeIsListed ==
    \A n \in up \cap NetIds :
        maker[n].mode = "regular" /\ maker[n].uid # RootUid /\ name[n].form = "user"
            => n \in Listed(maker[n].uid)
=============================================================================
