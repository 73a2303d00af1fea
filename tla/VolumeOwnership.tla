--------------------------- MODULE VolumeOwnership ---------------------------
(***************************************************************************)
(* Volumes: the requests that create, mount, remove and prune them, the    *)
(* table volumes, and the periodic clean-up of orphans                     *)
(* (internal/forward/proxy.go, internal/isolation/volume.go, storage.go).  *)
(*                                                                         *)
(* A worker is a request in flight, the cleaner is the goroutine of        *)
(* StartCleanup; every daemon call and every SQL statement is a step, and  *)
(* a refused request is a stuttering step.                                 *)
(*                                                                         *)
(* A volume's name is [ns, base]: ns = u for "user-<u>-volume-<base>", and *)
(* ns = Bare for a name without such a prefix.                             *)
(***************************************************************************)
EXTENDS CallerIdentity, Naturals

CONSTANTS
    Bare,           \* the namespace of names without a user prefix
    Namespaces,     \* the namespaces of the names that requests use
    Bases,          \* what follows the prefix
    HexBases,       \* the bases that look like an id to isHexID
    Callers,        \* the callers that send requests
    NamesOf,        \* [Callers -> the names of volumes they use]
    Workers,        \* requests in flight at the same time
    MaxRestarts,    \* bound on restarts of the proxy
    AnswersMayBeLost,   \* whether a transport error may hide a daemon's answer
    NoVolume

Volumes == [ns : Namespaces, base : Bases]

ASSUME VolumeAssumption ==
    /\ Bare \notin Uids
    /\ Namespaces \subseteq Uids \cup {Bare}
    /\ HexBases \subseteq Bases
    /\ Callers \subseteq Identities
    /\ NamesOf \in [Callers -> SUBSET Volumes]
    /\ \A id \in Callers : IsPrivileged(id) \/ id.uid \in Namespaces
    /\ MaxRestarts \in Nat
    /\ AnswersMayBeLost \in BOOLEAN
    /\ NoVolume \notin Volumes

VARIABLES
    present,    \* the daemon: the volumes there are
    used,       \* the daemon: the volumes some container mounts
    rows,       \* table volumes
    req,        \* the request of each worker
    cleaner,    \* the clean-up pass
    fresh,      \* history: the row of the volume the cleaner is about to remove was
                \* written after the cleaner looked for it
    restarts

vars == <<present, used, rows, req, cleaner, fresh, restarts>>


Rows == [found : BOOLEAN, owner : Uids, sudo : BOOLEAN]
NoRow == [found |-> FALSE, owner |-> RootUid, sudo |-> FALSE]

\* todo: what a prune has to visit; force: the query of an rm
Requests ==
    [pc : {"idle", "forward", "register", "forget", "prune", "pruneForget"},
     op : {"none", "create", "mount", "rm", "prune"}, id : Identities,
     v : Volumes \cup {NoVolume}, force : BOOLEAN, todo : SUBSET Volumes]
IdleRequest ==
    [pc |-> "idle", op |-> "none", id |-> Root, v |-> NoVolume, force |-> FALSE, todo |-> {}]

IdleCleaner == [pc |-> "idle", owned |-> {}, todo |-> {}, v |-> NoVolume]

TypeOK ==
    /\ present \subseteq Volumes
    /\ used \subseteq present
    /\ rows \in [Volumes -> Rows]
    /\ req \in [Workers -> Requests]
    /\ cleaner \in [pc : {"idle", "list", "check", "remove", "forget"},
                    owned : SUBSET Volumes, todo : SUBSET Volumes, v : Volumes \cup {NoVolume}]
    /\ fresh \in BOOLEAN
    /\ restarts \in 0 .. MaxRestarts

Init ==
    /\ present = {} /\ used = {} /\ fresh = FALSE
    /\ rows = [v \in Volumes |-> NoRow]
    /\ req = [w \in Workers |-> IdleRequest]
    /\ cleaner = IdleCleaner
    /\ restarts = 0

-----------------------------------------------------------------------------
(* Names. *)

isUserVolumePrefix(v) == v.ns # Bare

\* mutant: a name without a prefix is left alone
InjectVolumeNamePrefix_dropped(id, n) ==
    IF IsPrivileged(id) \/ ~isUserVolumePrefix(n) THEN n ELSE [ns |-> id.uid, base |-> n.base]

\* the name a create is forwarded under: a regular caller's is put under his
\* own prefix unless it is there already (a name with another user's prefix
\* becomes a name of his own; its base stands for the whole of it)
InjectVolumeNamePrefix(id, n) ==
    IF IsPrivileged(id) THEN n ELSE [ns |-> id.uid, base |-> n.base]

isHexID(n) == n.ns = Bare /\ n.base \in HexBases

\* the name in the URL of an rm after rewriting: as above, but a regular
\* caller's name that looks like an id is left alone
RewriteVolumeURL(id, n) == IF isHexID(n) THEN n ELSE InjectVolumeNamePrefix(id, n)

-----------------------------------------------------------------------------
(* Statements and queries of the table. *)

Registered == {v \in Volumes : rows[v].found}
GetVolumeOwnerIs(v, u) == rows[v].found /\ rows[v].owner = u
GetVolumeNamesByOwner(u) == {v \in Registered : rows[v].owner = u /\ ~rows[v].sudo}

SetVolumeOwner(v, id) ==
    rows' = [rows EXCEPT ![v] = [found |-> TRUE, owner |-> id.uid, sudo |-> IsSudoCommand(id)]]
DeleteVolume(v) == rows' = [rows EXCEPT ![v] = NoRow]

-----------------------------------------------------------------------------
(* Requests. *)

Idle(w) == req[w].pc = "idle"
Begin(w, request) == req' = [req EXCEPT ![w] = request]
Goto(w, pc) == req' = [req EXCEPT ![w].pc = pc]
Finish(w) == req' = [req EXCEPT ![w] = IdleRequest]
Forwarded(w, op) == req[w].pc = "forward" /\ req[w].op = op

VolumeCreate(w, id, n) ==
    /\ Idle(w)
    /\ Begin(w, [IdleRequest EXCEPT !.pc = "forward", !.op = "create", !.id = id,
                                    !.v = InjectVolumeNamePrefix(id, n)])
    /\ UNCHANGED <<present, used, rows, cleaner, fresh, restarts>>

\* a container create that mounts n; a name that already has the caller's
\* prefix is not looked up
ValidateAndRewriteNamedVolumes(w, id, n) ==
    /\ Idle(w)
    /\ LET v == InjectVolumeNamePrefix(id, n)
       IN  /\ IsPrivileged(id) \/ n.ns = id.uid \/ v \in GetVolumeNamesByOwner(id.uid)
           /\ Begin(w, [IdleRequest EXCEPT !.pc = "forward", !.op = "mount", !.id = id, !.v = v])
    /\ UNCHANGED <<present, used, rows, cleaner, fresh, restarts>>

\* mutant: the caller's prefix stands for the ownership check
RmAllowed_byPrefix(id, v) == IsPrivileged(id) \/ v.ns = id.uid

RmAllowed(id, v) == IsPrivileged(id) \/ GetVolumeOwnerIs(v, id.uid)

checkVolumeRemove(w, id, n, force) ==
    /\ Idle(w)
    /\ RmAllowed(id, InjectVolumeNamePrefix(id, n))
    /\ Begin(w, [IdleRequest EXCEPT !.pc = "forward", !.op = "rm", !.id = id,
                                    !.v = RewriteVolumeURL(id, n), !.force = force])
    /\ UNCHANGED <<present, used, rows, cleaner, fresh, restarts>>

\* docker volume prune is a loop in the proxy for every caller
handleVolumePrune(w, id) ==
    /\ Idle(w)
    /\ LET owned == IF IsPrivileged(id) THEN Registered ELSE GetVolumeNamesByOwner(id.uid)
       IN  Begin(w, [IdleRequest EXCEPT !.pc = "prune", !.op = "prune", !.id = id,
                                        !.todo = {v \in owned : isUserVolumePrefix(v)}])
    /\ UNCHANGED <<present, used, rows, cleaner, fresh, restarts>>

-----------------------------------------------------------------------------
(* Steps of the daemon (external). *)

CanRemove(v) == v \in present /\ v \notin used

\* creating a volume that exists is no error: the answer is the same
DaemonCreates(w) ==
    /\ Forwarded(w, "create")
    /\ present' = present \cup {req[w].v}
    /\ Goto(w, "register") \/ (AnswersMayBeLost /\ Finish(w))
    /\ UNCHANGED <<used, rows, cleaner, fresh, restarts>>

\* the named volume of a new container comes into being with it
DaemonMounts(w) ==
    /\ Forwarded(w, "mount")
    /\ present' = present \cup {req[w].v}
    /\ used' = used \cup {req[w].v}
    /\ Finish(w)
    /\ UNCHANGED <<rows, cleaner, fresh, restarts>>

\* with force a missing volume counts as removed
DaemonRemoves(w) ==
    /\ Forwarded(w, "rm")
    /\ \/ /\ CanRemove(req[w].v)
          /\ present' = present \ {req[w].v}
          /\ Goto(w, "forget") \/ (AnswersMayBeLost /\ Finish(w))
       \/ /\ req[w].v \notin present /\ req[w].force
          /\ Goto(w, "forget")
          /\ UNCHANGED present
       \/ /\ ~CanRemove(req[w].v)
          /\ Finish(w)
          /\ UNCHANGED present
    /\ UNCHANGED <<used, rows, cleaner, fresh, restarts>>

\* the last container that mounts v is removed
ContainersGone(v) ==
    /\ v \in used
    /\ used' = used \ {v}
    /\ UNCHANGED <<present, rows, req, cleaner, fresh, restarts>>

-----------------------------------------------------------------------------
(* What the proxy does with the answers. *)

RegisterVolume(w) ==
    /\ req[w].pc = "register"
    /\ SetVolumeOwner(req[w].v, req[w].id)
    /\ fresh' = (fresh \/ (cleaner.pc = "remove" /\ cleaner.v = req[w].v))
    /\ Finish(w)
    /\ UNCHANGED <<present, used, cleaner, restarts>>

\* ExtractVolumeName is given the URI with its query: with force it yields
\* "<name>?force=1", and the statement finds no row
ForgetVolume(w) ==
    /\ req[w].pc = "forget"
    /\ IF req[w].force THEN UNCHANGED rows ELSE DeleteVolume(req[w].v)
    /\ Finish(w)
    /\ UNCHANGED <<present, used, cleaner, fresh, restarts>>

\* one DELETE of a prune; a volume in use, a missing one and one the label
\* filter leaves out are skipped
PruneNext(w) ==
    /\ req[w].pc = "prune"
    /\ \E v \in req[w].todo :
        \/ /\ CanRemove(v)
           /\ present' = present \ {v}
           /\ \/ req' = [req EXCEPT ![w].pc = "pruneForget", ![w].v = v, ![w].todo = @ \ {v}]
              \/ AnswersMayBeLost /\ req' = [req EXCEPT ![w].todo = @ \ {v}]
        \/ /\ req' = [req EXCEPT ![w].todo = @ \ {v}]
           /\ UNCHANGED present
    /\ UNCHANGED <<used, rows, cleaner, fresh, restarts>>

PruneForget(w) ==
    /\ req[w].pc = "pruneForget"
    /\ DeleteVolume(req[w].v)
    /\ Goto(w, "prune")
    /\ UNCHANGED <<present, used, cleaner, fresh, restarts>>

PruneDone(w) ==
    /\ req[w].pc = "prune" /\ req[w].todo = {}
    /\ Finish(w)
    /\ UNCHANGED <<present, used, rows, cleaner, fresh, restarts>>

-----------------------------------------------------------------------------
(* runCleanup. *)

\* GetAllVolumeNames; a pass in which this or the list that follows fails does
\* nothing, as if it had not begun
CleanupSnapshot ==
    /\ cleaner.pc = "idle"
    /\ cleaner' = [IdleCleaner EXCEPT !.pc = "list", !.owned = Registered]
    /\ UNCHANGED <<present, used, rows, req, fresh, restarts>>

\* the dangling volumes with a user's prefix that the snapshot does not name
listDanglingVolumes ==
    /\ cleaner.pc = "list"
    /\ cleaner' = [IdleCleaner EXCEPT !.pc = "check",
            !.todo = {v \in present \ used : isUserVolumePrefix(v)} \ cleaner.owned]
    /\ UNCHANGED <<present, used, rows, req, fresh, restarts>>

\* mutant: no second look at the table
Orphan_snapshotOnly(v) == v \in cleaner.todo

\* mutant: the volumes in the snapshot are kept instead of left out
Orphan_inSnapshot(v) == v \in cleaner.owned

Orphan(v) == ~rows[v].found

CleanupCheck ==
    /\ cleaner.pc = "check"
    /\ \E v \in cleaner.todo :
        cleaner' = [cleaner EXCEPT !.pc = IF Orphan(v) THEN "remove" ELSE "check",
                                   !.todo = @ \ {v},
                                   !.v = IF Orphan(v) THEN v ELSE NoVolume]
    /\ UNCHANGED <<present, used, rows, req, fresh, restarts>>

NextVolume == cleaner' = [cleaner EXCEPT !.pc = "check", !.v = NoVolume]

removeVolume ==
    /\ cleaner.pc = "remove"
    /\ \/ /\ CanRemove(cleaner.v)
          /\ present' = present \ {cleaner.v}
          /\ \/ cleaner' = [cleaner EXCEPT !.pc = "forget"]
             \/ AnswersMayBeLost /\ NextVolume
       \/ /\ ~CanRemove(cleaner.v)
          /\ NextVolume
          /\ UNCHANGED present
    /\ fresh' = FALSE
    /\ UNCHANGED <<used, rows, req, restarts>>

CleanupForget ==
    /\ cleaner.pc = "forget"
    /\ DeleteVolume(cleaner.v)
    /\ NextVolume
    /\ UNCHANGED <<present, used, req, fresh, restarts>>

CleanupDone ==
    /\ cleaner.pc = "check" /\ cleaner.todo = {}
    /\ cleaner' = IdleCleaner
    /\ UNCHANGED <<present, used, rows, req, fresh, restarts>>

Restart ==
    /\ restarts < MaxRestarts
    /\ restarts' = restarts + 1
    /\ req' = [w \in Workers |-> IdleRequest]
    /\ cleaner' = IdleCleaner
    /\ fresh' = FALSE
    /\ UNCHANGED <<present, used, rows>>

-----------------------------------------------------------------------------
Arrive(w) ==
    \E id \in Callers :
        \/ handleVolumePrune(w, id)
        \/ \E n \in NamesOf[id] :
            \/ VolumeCreate(w, id, n)
            \/ ValidateAndRewriteNamedVolumes(w, id, n)
            \/ \E force \in BOOLEAN : checkVolumeRemove(w, id, n, force)

Serve(w) ==
    \/ DaemonCreates(w) \/ DaemonMounts(w) \/ DaemonRemoves(w)
    \/ RegisterVolume(w) \/ ForgetVolume(w) \/ PruneNext(w) \/ PruneForget(w) \/ PruneDone(w)

Cleanup ==
    \/ CleanupSnapshot \/ listDanglingVolumes \/ CleanupCheck
    \/ removeVolume \/ CleanupForget \/ CleanupDone

Next ==
    \/ \E w \in Workers : Arrive(w) \/ Serve(w)
    \/ \E v \in Volumes : ContainersGone(v)
    \/ Cleanup
    \/ Restart

Spec == Init /\ [][Next]_vars

\* The goroutine of a request and the cleaner's are scheduled; the ticker
\* fires again and again.
FairSpec == Spec /\ (\A w \in Workers : WF_vars(Serve(w))) /\ WF_vars(Cleanup)

-----------------------------------------------------------------------------
(* Properties. *)

\* Whatever a regular caller's request removes, registers or forgets, several
\* steps after its name was rewritten, lies under his own prefix (volume.go,
\* InjectVolumeNamePrefix and RewriteVolumeURL), as long as no user is regular
\* in one request and privileged by configuration in another.  Except what an
\* rm is given that looks like an id: such a name goes to the daemon as it is,
\* and no other request, least of all a prune or a create, leaves the prefix.
InNamespace ==
    \A w \in Workers, v \in Volumes :
        /\ ~IsPrivileged(req[w].id) /\ req'[w] # req[w]
        /\ v \in present \ present' \/ rows'[v] # rows[v]
        => v.ns = req[w].id.uid \/ (req[w].op = "rm" /\ isHexID(v))
RegularStaysInNamespace == [][InNamespace]_vars

\* One request at a time, and whatever the clean-up does meanwhile, a regular
\* caller removes no volume that the table gives to somebody else; except a name
\* that looks like an id, which the check and the daemon read differently.
OnlyOwnerRemovesVolume ==
    [][\A w \in Workers, v \in Volumes :
        /\ ~IsPrivileged(req[w].id) /\ req'[w] # req[w]
        /\ v \in present \ present' /\ rows[v].found
        => rows[v].owner = req[w].id.uid \/ (req[w].op = "rm" /\ isHexID(v))]_vars

\* The clean-up removes a registered volume only if its row was written after
\* the second look at the table (runCleanup, phase 2): what is registered
\* between the snapshot and that look is safe.
Spared ==
    \A v \in Volumes :
        cleaner' # cleaner /\ v \in present \ present' /\ rows[v].found => fresh
CleanupSparesRegistered == [][Spared]_vars

\* A volume with a user's prefix that no container mounts and no row names does
\* not stay like that for ever.
OrphansCleaned ==
    \A v \in Volumes :
        LET orphan == isUserVolumePrefix(v) /\ v \in present \ used /\ ~rows[v].found
        IN  orphan ~> ~orphan

\* Between requests every row names a volume that exists: a successful rm
\* deletes the row, as the comment on ActionVolumeRemove says.  An rm with force
\* leaves the row, and this does not hold.
NoStaleVolumeRows ==
    (\A w \in Workers : Idle(w)) /\ cleaner.pc = "idle" => Registered \subseteq present
=============================================================================
