------------------------- MODULE ContainerLifecycle -------------------------
(***************************************************************************)
(* Containers: the quota and port checks of a create, the rows written     *)
(* after it, the ownership check of every later request, the three ways a  *)
(* container goes away (rm, prune, on its own) and the listener that       *)
(* cleans up after Docker's destroy events (internal/forward/proxy.go,     *)
(* internal/authz/ownership.go, internal/isolation).                       *)
(*                                                                         *)
(* As in ImageOwnership a worker is a request in flight, every daemon call *)
(* and every SQL statement is a step, and a refused request is a           *)
(* stuttering step.  The reads of one check are one step.  A container id  *)
(* is drawn by the daemon and never reused.  A reference to a container is *)
(* its full id or something else that denotes it (its name, a short id):   *)
(* the tables are keyed by the full id and find nothing under the others.  *)
(***************************************************************************)
EXTENDS CallerIdentity, Naturals, FiniteSets

CONSTANTS
    Containers,         \* container ids
    NoContainer,
    Ports,              \* (host port, protocol) pairs
    Callers,            \* the callers that send requests
    Workers,            \* requests in flight at the same time
    Ops,                \* the requests a run explores
    MaxContainers,      \* max_containers of every user; 0 is unlimited
    MaxRestarts,        \* bound on restarts of the proxy
    MaxCuts,            \* bound on breaks of the event stream
    RepliesMayBeLost,   \* whether a transport error may hide a daemon's answer
    LabelFetchMayFail   \* whether fetchContainerLabels may fail on a container

AllOps == {"create", "start", "rm", "prune"}

\* const maxRetries of forward()
MaxRetries == 2

ASSUME ContainerAssumption ==
    /\ NoContainer \notin Containers
    /\ Callers \subseteq Identities
    /\ Ops \subseteq AllOps
    /\ MaxContainers \in Nat /\ MaxRestarts \in Nat /\ MaxCuts \in Nat
    /\ RepliesMayBeLost \in BOOLEAN /\ LabelFetchMayFail \in BOOLEAN

VARIABLES
    status,     \* the daemon: "unused", "stopped", "running" or "gone"
    label,      \* the daemon: the creator, from the injected system labels
    bindings,   \* the daemon: the host ports each container asks for
    rows,       \* table containers
    portOf,     \* table port_mappings, keyed by UNIQUE(host_port, protocol)
    req,        \* the request of each worker
    stream,     \* destroy events on their way to the listener
    connected,  \* whether the listener's event stream is open
    listener,   \* the event the listener is handling
    restarts,
    cuts

daemonVars == <<status, label, bindings>>
tableVars == <<rows, portOf>>
eventVars == <<stream, connected, listener, cuts>>
vars == <<daemonVars, tableVars, req, eventVars, restarts>>

Statuses == {"unused", "stopped", "running", "gone"}
PCs == {"idle", "forward", "register", "ports", "prune", "pruneDel", "delRow", "release"}

\* image: whether image_id names the container's image or is ''
Rows == [found : BOOLEAN, owner : Uids, sudo : BOOLEAN, image : BOOLEAN]
NoRow == [found |-> FALSE, owner |-> RootUid, sudo |-> FALSE, image |-> FALSE]

(***************************************************************************)
(* A request: byId, whether its reference is the full id; ports, what it   *)
(* still has to record; body, whether its body can still be read; attempt, *)
(* how often forward() repeated it; todo, what a prune has to visit.       *)
(***************************************************************************)
Requests ==
    [pc : PCs, op : AllOps \cup {"none", "sweep"}, id : Identities,
     c : Containers \cup {NoContainer}, byId : BOOLEAN, ports : SUBSET Ports,
     body : BOOLEAN, attempt : 0 .. MaxRetries, todo : SUBSET Containers]

IdleRequest ==
    [pc |-> "idle", op |-> "none", id |-> Root, c |-> NoContainer, byId |-> TRUE,
     ports |-> {}, body |-> FALSE, attempt |-> 0, todo |-> {}]

IdleListener == [pc |-> "idle", c |-> NoContainer]

TypeOK ==
    /\ status \in [Containers -> Statuses]
    /\ label \in [Containers -> Identities]
    /\ bindings \in [Containers -> SUBSET Ports]
    /\ rows \in [Containers -> Rows]
    /\ portOf \in [Ports -> Containers \cup {NoContainer}]
    /\ req \in [Workers -> Requests]
    /\ stream \subseteq Containers
    /\ connected \in BOOLEAN
    /\ listener \in [pc : {"idle", "release", "delete"}, c : Containers \cup {NoContainer}]
    /\ restarts \in 0 .. MaxRestarts
    /\ cuts \in 0 .. MaxCuts

Init ==
    /\ status = [c \in Containers |-> "unused"]
    /\ label = [c \in Containers |-> Root]
    /\ bindings = [c \in Containers |-> {}]
    /\ rows = [c \in Containers |-> NoRow]
    /\ portOf = [p \in Ports |-> NoContainer]
    /\ req = [w \in Workers |-> IdleRequest]
    /\ stream = {} /\ connected = TRUE /\ listener = IdleListener
    /\ restarts = 0 /\ cuts = 0

-----------------------------------------------------------------------------
(* Helpers and statements of the tables. *)

Exists(c) == status[c] \in {"stopped", "running"}

Idle(w) == req[w].pc = "idle"
Begin(w, request) == req' = [req EXCEPT ![w] = request]
Goto(w, pc) == req' = [req EXCEPT ![w].pc = pc]
Finish(w) == req' = [req EXCEPT ![w] = IdleRequest]
Forwarded(w, op) == req[w].pc = "forward" /\ req[w].op = op

CountContainersByOwner(u) ==
    Cardinality({c \in Containers : rows[c].found /\ rows[c].owner = u})

\* containers of the non-privileged context
GetContainerIDsByOwner(u) ==
    {c \in Containers : rows[c].found /\ rows[c].owner = u /\ ~rows[c].sudo}

\* mutant: the row names the effective user
SetContainerOwner_effective(c, id, image) ==
    rows' = [rows EXCEPT ![c] =
        [found |-> TRUE, owner |-> IF IsSudoCommand(id) THEN RootUid ELSE id.uid,
         sudo |-> IsSudoCommand(id), image |-> image]]

SetContainerOwner(c, id, image) ==
    rows' = [rows EXCEPT ![c] =
        [found |-> TRUE, owner |-> id.uid, sudo |-> IsSudoCommand(id), image |-> image]]

DeleteContainer(c) == rows' = [rows EXCEPT ![c] = NoRow]

\* mutant: nothing is released
ReleasePortMappings_kept(c) == portOf' = portOf

ReleasePortMappings(c) ==
    portOf' = [p \in Ports |-> IF portOf[p] = c THEN NoContainer ELSE portOf[p]]

-----------------------------------------------------------------------------
(* Checks before forwarding. *)

\* mutant: off by one
WithinQuota_inclusive(u) ==
    MaxContainers > 0 => CountContainersByOwner(u) <= MaxContainers

\* CheckAndInjectQuota, the number of containers; every caller is subject to it
WithinQuota(u) == MaxContainers > 0 => CountContainersByOwner(u) < MaxContainers

\* mutant: a stopped container's ports count as free
PortsFree_stopped(P) ==
    \A p \in P : portOf[p] # NoContainer => status[portOf[p]] # "running"

\* checkPortConflict
PortsFree(P) == \A p \in P : portOf[p] = NoContainer

checkCreateContainer(w, id, P) ==
    /\ Idle(w) /\ "create" \in Ops
    /\ WithinQuota(id.uid)
    /\ IsPrivileged(id) \/ PortsFree(P)
    /\ Begin(w, [IdleRequest EXCEPT !.pc = "forward", !.op = "create", !.id = id,
                                    !.ports = P, !.body = TRUE])
    /\ UNCHANGED <<daemonVars, tableVars, eventVars, restarts>>

\* mutant: without a row a start is left to the daemon
LabelAllows_starts(id, op, c) == op = "start" \/ (Exists(c) => label[c].uid = id.uid)

\* checkContainerOwnershipByLabel: a container whose labels cannot be fetched
\* counts as absent, and removing an absent one is left to the daemon
LabelAllows(id, op, c) ==
    \/ Exists(c) /\ label[c].uid = id.uid
    \/ op = "rm" /\ (Exists(c) => LabelFetchMayFail)

\* mutant: without a row only a privileged caller may act
Allowed_rowsOnly(id, op, c, byId) ==
    IsPrivileged(id) \/ (byId /\ rows[c].found /\ rows[c].owner = id.uid)

Allowed(id, op, c, byId) ==
    \/ IsPrivileged(id)
    \/ IF byId /\ rows[c].found THEN rows[c].owner = id.uid ELSE LabelAllows(id, op, c)

\* a request that names a container; the ones that neither start nor remove it
\* change nothing here
checkContainerOwnership(w, id, op, c, byId) ==
    /\ Idle(w) /\ op \in Ops /\ op \in {"start", "rm"}
    /\ status[c] # "unused"
    /\ Allowed(id, op, c, byId)
    /\ Begin(w, [IdleRequest EXCEPT !.pc = "forward", !.op = op, !.id = id,
                                    !.c = c, !.byId = byId])
    /\ UNCHANGED <<daemonVars, tableVars, eventVars, restarts>>

-----------------------------------------------------------------------------
(* Steps of the daemon (external). *)

\* destroy events of the containers in S reach an open stream only
Emit(S) ==
    /\ stream' = IF connected THEN stream \cup S ELSE stream
    /\ UNCHANGED <<connected, listener, cuts>>

Remove(S) ==
    /\ status' = [c \in Containers |-> IF c \in S THEN "gone" ELSE status[c]]
    /\ Emit(S)
    /\ UNCHANGED <<label, bindings>>

\* forward() has read the request's body to its end.  If the answer is lost it
\* sends the create again, up to MaxRetries times.
DaemonCreates(w) ==
    /\ Forwarded(w, "create")
    /\ \E c \in Containers :
        /\ status[c] = "unused"
        /\ status' = [status EXCEPT ![c] = "stopped"]
        /\ label' = [label EXCEPT ![c] = req[w].id]
        /\ bindings' = [bindings EXCEPT ![c] = req[w].ports]
        /\ \/ req' = [req EXCEPT ![w].pc = "register", ![w].c = c, ![w].body = FALSE]
           \/ /\ RepliesMayBeLost
              /\ IF req[w].attempt < MaxRetries
                 THEN req' = [req EXCEPT ![w].attempt = @ + 1]
                 ELSE Finish(w)
    /\ UNCHANGED <<tableVars, eventVars, restarts>>

DaemonStarts(w) ==
    /\ Forwarded(w, "start")
    /\ status[req[w].c] = "stopped"
    /\ status' = [status EXCEPT ![req[w].c] = "running"]
    /\ Finish(w)
    /\ UNCHANGED <<label, bindings, tableVars, eventVars, restarts>>

\* The statements that follow an rm use the reference of the URL: they find
\* nothing if that is a name.  A DELETE is not repeated.
DaemonRemoves(w) ==
    /\ Forwarded(w, "rm")
    /\ Exists(req[w].c)
    /\ Remove({req[w].c})
    /\ \/ IF req[w].byId THEN Goto(w, "delRow") ELSE Finish(w)
       \/ RepliesMayBeLost /\ Finish(w)
    /\ UNCHANGED <<tableVars, restarts>>

DaemonPrunes(w) ==
    /\ req[w].pc = "pruneDel"
    /\ status[req[w].c] = "stopped"
    /\ Remove({req[w].c})
    /\ Goto(w, "delRow") \/ (RepliesMayBeLost /\ Goto(w, "prune"))
    /\ UNCHANGED <<tableVars, restarts>>

\* refused (unknown, in use, running) or unreachable
DaemonFails(w) ==
    /\ \/ req[w].pc = "forward" /\ Finish(w)
       \/ req[w].pc = "pruneDel" /\ Goto(w, "prune")
    /\ UNCHANGED <<daemonVars, tableVars, eventVars, restarts>>

\* a running container stops, or was started with --rm and goes away
ContainerEnds(c) ==
    /\ status[c] = "running"
    /\ \/ /\ status' = [status EXCEPT ![c] = "stopped"]
          /\ UNCHANGED <<label, bindings, eventVars>>
       \/ Remove({c})
    /\ UNCHANGED <<tableVars, req, restarts>>

-----------------------------------------------------------------------------
(* What the proxy writes. *)

\* postprocessResponse reads the image from the request's body
RegisterContainer(w) ==
    /\ req[w].pc = "register"
    /\ SetContainerOwner(req[w].c, req[w].id, req[w].body)
    /\ IF IsPrivileged(req[w].id) \/ req[w].ports = {} THEN Finish(w) ELSE Goto(w, "ports")
    /\ UNCHANGED <<daemonVars, portOf, eventVars, restarts>>

\* AddPortMappings, one INSERT; a conflict ends it and is only logged
RecordPort(w) ==
    /\ req[w].pc = "ports"
    /\ \E p \in req[w].ports :
        IF portOf[p] = NoContainer
        THEN /\ portOf' = [portOf EXCEPT ![p] = req[w].c]
             /\ IF req[w].ports = {p} THEN Finish(w)
                ELSE req' = [req EXCEPT ![w].ports = @ \ {p}]
        ELSE UNCHANGED portOf /\ Finish(w)
    /\ UNCHANGED <<daemonVars, rows, eventVars, restarts>>

\* a regular user's prune is a loop in the proxy over his rows; a privileged
\* one is the daemon's, and its answer lists what it deleted
handleContainerPrune(w, id) ==
    /\ Idle(w) /\ "prune" \in Ops
    /\ \/ /\ ~IsPrivileged(id)
          /\ Begin(w, [IdleRequest EXCEPT !.pc = "prune", !.op = "prune", !.id = id,
                                          !.todo = GetContainerIDsByOwner(id.uid)])
          /\ UNCHANGED <<daemonVars, eventVars>>
       \/ LET stopped == {c \in Containers : status[c] = "stopped"}
          IN  /\ IsPrivileged(id)
              /\ Begin(w, [IdleRequest EXCEPT !.pc = "prune", !.op = "sweep", !.id = id,
                                              !.todo = stopped])
              /\ Remove(stopped)
    /\ UNCHANGED <<tableVars, restarts>>

PruneNext(w) ==
    /\ req[w].pc = "prune"
    /\ \E c \in req[w].todo :
        req' = [req EXCEPT ![w].todo = @ \ {c}, ![w].c = c,
                           ![w].pc = IF req[w].op = "sweep" THEN "delRow" ELSE "pruneDel"]
    /\ UNCHANGED <<daemonVars, tableVars, eventVars, restarts>>

PruneDone(w) ==
    /\ req[w].pc = "prune" /\ req[w].todo = {}
    /\ Finish(w)
    /\ UNCHANGED <<daemonVars, tableVars, eventVars, restarts>>

\* after a successful rm, and for each container of a prune
ForgetRow(w) ==
    /\ req[w].pc = "delRow"
    /\ DeleteContainer(req[w].c)
    /\ Goto(w, "release")
    /\ UNCHANGED <<daemonVars, portOf, eventVars, restarts>>

ForgetPorts(w) ==
    /\ req[w].pc = "release"
    /\ ReleasePortMappings(req[w].c)
    /\ IF req[w].op = "rm" THEN Finish(w) ELSE Goto(w, "prune")
    /\ UNCHANGED <<daemonVars, rows, eventVars, restarts>>

-----------------------------------------------------------------------------
(* StartDockerEventListener. *)

ReceiveDestroy ==
    /\ listener.pc = "idle"
    /\ \E c \in stream :
        /\ stream' = stream \ {c}
        /\ listener' = [pc |-> "release", c |-> c]
    /\ UNCHANGED <<daemonVars, tableVars, req, connected, cuts, restarts>>

ListenerReleases ==
    /\ listener.pc = "release"
    /\ ReleasePortMappings(listener.c)
    /\ listener' = [listener EXCEPT !.pc = "delete"]
    /\ UNCHANGED <<daemonVars, rows, req, stream, connected, cuts, restarts>>

\* mutant: a destroy event releases the ports only
ListenerDeletes_keepsRow ==
    /\ listener.pc = "delete"
    /\ listener' = IdleListener
    /\ UNCHANGED <<daemonVars, tableVars, req, stream, connected, cuts, restarts>>

ListenerDeletes ==
    /\ listener.pc = "delete"
    /\ DeleteContainer(listener.c)
    /\ listener' = IdleListener
    /\ UNCHANGED <<daemonVars, portOf, req, stream, connected, cuts, restarts>>

\* the daemon closes the connection; what was read before is still handled
StreamBreaks ==
    /\ connected /\ cuts < MaxCuts
    /\ connected' = FALSE
    /\ cuts' = cuts + 1
    /\ UNCHANGED <<daemonVars, tableVars, req, stream, listener, restarts>>

\* the listener connects again, without asking for the events it missed
StreamResumes ==
    /\ ~connected
    /\ connected' = TRUE
    /\ UNCHANGED <<daemonVars, tableVars, req, stream, listener, cuts, restarts>>

\* The proxy dies and starts again; nothing reconciles the tables with the
\* daemon when it starts.
Restart ==
    /\ restarts < MaxRestarts
    /\ restarts' = restarts + 1
    /\ req' = [w \in Workers |-> IdleRequest]
    /\ stream' = {} /\ connected' = FALSE /\ listener' = IdleListener
    /\ UNCHANGED <<daemonVars, tableVars, cuts>>

-----------------------------------------------------------------------------
Arrive(w) ==
    \E id \in Callers :
        \/ \E P \in SUBSET Ports : checkCreateContainer(w, id, P)
        \/ \E op \in {"start", "rm"}, c \in Containers, byId \in BOOLEAN :
              checkContainerOwnership(w, id, op, c, byId)
        \/ handleContainerPrune(w, id)

Daemon(w) ==
    DaemonCreates(w) \/ DaemonStarts(w) \/ DaemonRemoves(w) \/ DaemonPrunes(w) \/ DaemonFails(w)

Write(w) ==
    \/ RegisterContainer(w) \/ RecordPort(w) \/ PruneNext(w) \/ PruneDone(w)
    \/ ForgetRow(w) \/ ForgetPorts(w)

Listener == ReceiveDestroy \/ ListenerReleases \/ ListenerDeletes

Next ==
    \/ \E w \in Workers : Arrive(w) \/ Daemon(w) \/ Write(w)
    \/ \E c \in Containers : ContainerEnds(c)
    \/ Listener \/ StreamBreaks \/ StreamResumes
    \/ Restart

Spec == Init /\ [][Next]_vars

\* The goroutines of requests and of the listener are scheduled, the daemon
\* answers or a timeout makes the call fail, and the listener reconnects.
FairSpec ==
    /\ Spec
    /\ \A w \in Workers : WF_vars(Daemon(w) \/ Write(w))
    /\ WF_vars(Listener) /\ WF_vars(StreamResumes)

-----------------------------------------------------------------------------
(* Properties. *)

\* The two records of who made a container, the row and the labels, never
\* disagree, so falling back from one to the other changes nobody's rights.
RowsMatchLabels ==
    \A c \in Containers :
        rows[c].found => status[c] # "unused" /\ rows[c].owner = label[c].uid
                         /\ rows[c].sudo = IsSudoCommand(label[c])

\* Whatever was lost, rows by a crash or a create's answer by the transport,
\* the user who made a container may still start and remove it, by id or name.
OwnerKeepsContainer ==
    \A c \in Containers, op \in {"start", "rm"}, byId \in BOOLEAN :
        Exists(c) => Allowed([uid |-> label[c].uid, mode |-> "regular"], op, c, byId)

\* the caller for whom worker w takes a step
CallerOf(w) == IF Idle(w) THEN req'[w].id ELSE req[w].id

\* A regular user's request (rm, prune) removes only containers he made.
OnlyCreatorRemoves ==
    [][\A w \in Workers, c \in Containers :
          Exists(c) /\ status'[c] = "gone" /\ req'[w] # req[w] =>
              IsPrivileged(CallerOf(w)) \/ label[c].uid = CallerOf(w).uid]_vars

\* The promise of OwnedContainers.
Promise ==
    INSTANCE OwnedContainers WITH
        state <- status, creator <- label,
        busy <- {w \in Workers : ~Idle(w)}, who <- [w \in Workers |-> req[w].id]

\* Tables, labels and events, with requests that interleave, lost answers,
\* retries and crashes, implement a daemon that knows its users: containers are
\* created for the caller who asked, started and removed by those entitled to.
KeepsPromise == Promise!Spec

\* No user has more containers than max_containers.
QuotaHolds ==
    MaxContainers > 0 => \A u \in Uids :
        Cardinality({c \in Containers : Exists(c) /\ label[c].uid = u}) <= MaxContainers

\* No two containers of regular users ask for the same host port.
PortsExclusive ==
    \A c, d \in Containers :
        c # d /\ Exists(c) /\ Exists(d) /\ ~IsPrivileged(label[c]) /\ ~IsPrivileged(label[d])
            => bindings[c] \cap bindings[d] = {}

Quiet == (\A w \in Workers : Idle(w)) /\ stream = {} /\ listener.pc = "idle"
Forgotten(c) == ~rows[c].found /\ \A p \in Ports : portOf[p] # c

\* When nothing is in flight, a container that is gone has left no row and
\* holds no port, however it went.
NoRowsOfGone == Quiet => \A c \in Containers : status[c] = "gone" => Forgotten(c)

\* The rows of a container that goes away are eventually removed, for good.
RowsReleased == \A c \in Containers : status[c] = "gone" ~> [](Forgotten(c))
=============================================================================
