--------------------------- MODULE EventAttribution ---------------------------
(***************************************************************************)
(* Whose is a line of `docker events`?  The daemon's events carry no       *)
(* caller, and they race with the handler that causes them: the table row  *)
(* that would tell is written after the event, or deleted before it.       *)
(* proxy.go bridges the gaps with five in-memory maps that handlers fill   *)
(* and empty (some entries by a 30 s timer), and eventBelongsToUser looks  *)
(* them up one after the other while handlers go on.                       *)
(*                                                                         *)
(*   maps      the entries of the five sync.Maps.  CompareAndDelete is by  *)
(*             value, so removing an entry is set difference.              *)
(*   timers    the armed time.AfterFunc calls                              *)
(*   ops       the requests so far; todo is what a handler has left to do  *)
(*   events    what the daemon has emitted and the stream has not read yet *)
(*   reader    an event stream in the middle of one line.  Streams change  *)
(*             nothing and the same lookups decide for every regular user, *)
(*             so one stream shows what all may see.                       *)
(*   present, tagOf, up   the daemon's images, tags, networks and volumes  *)
(*   rows      the table rows of networks and volumes with a bare name     *)
(*                                                                         *)
(* Names with a user's prefix, containers and images marked public are     *)
(* decided without the maps and are left out.  The daemon delivers an      *)
(* event before the 30 s timers of its operation fire.                     *)
(***************************************************************************)
EXTENDS ImageTables, Sequences

CONSTANTS
    Refs,       \* tagged references, records [repo, tag]
    Nets, Vols, \* bare names of networks and volumes
    Callers,    \* the identities that send requests
    Kinds,      \* the operations this instance has
    MaxOps,     \* bound on the number of requests
    NoImage, NoRef, NoReader

ASSUME CallersAssumption == Callers \subseteq Identities

VARIABLES maps, timers, ops, events, reader, present, tagOf, up, rows

daemonVars == <<present, tagOf, up>>
vars == <<images, access, maps, timers, ops, events, reader, daemonVars, rows>>

Viewers == Uids \ {RootUid}     \* privileged streams are not filtered

MapNames == {"pendingBuildTags", "pendingPullRefs", "completedPullOwner",
             "completedBuildOwner", "completedPruneOwner"}
MakingKinds == {"pull", "build", "commit", "load", "buildkit"}

-----------------------------------------------------------------------------
(* Keys and entries. *)

Bare(r) == [repo |-> r.repo, tag |-> "none"]        \* "app" for app:latest

\* the key of a pull
parseImageRefFromURI(r) == IF r.tag = "latest" THEN Bare(r) ELSE r

\* what -t may spell, as the handlers take it from the URL or the command line
Spellings(r) == IF r.tag = "latest" THEN {r, Bare(r)} ELSE {r}

RefKeys == Refs \cup {Bare(r) : r \in Refs}
Keys == RefKeys \cup Images \cup Nets \cup Vols

\* keys of different sorts differ: an id is no reference, and the keys of
\* completedPruneOwner begin with the type of what was removed
ASSUME KeysAssumption ==
    /\ NoRef \notin Keys /\ NoImage \notin Images
    /\ RefKeys \cap (Images \cup Nets \cup Vols) = {}
    /\ Images \cap (Nets \cup Vols) = {} /\ Nets \cap Vols = {}

pruneOwnerInfo(id) == [uid |-> id.uid, sudo |-> IsSudoCommand(id)]
Entry(m, k, info) == [map |-> m, key |-> k, uid |-> info.uid, sudo |-> info.sudo]
Entries == [map : MapNames, key : Keys, uid : Uids, sudo : BOOLEAN]

Store(S, E) == {x \in S : \A e \in E : <<x.map, x.key>> # <<e.map, e.key>>} \cup E
CompareAndDelete(S, E) == S \ E

-----------------------------------------------------------------------------
(* Requests.  Only the ones that the checks before forward() let through.  *)
(* The key is the name in the URL or on the command line; a network may be *)
(* removed by its id, which is no key.                                     *)

Requests ==
    LET Q(kind, id, ref, key, thing) ==
            [kind |-> kind, id |-> id, ref |-> ref, key |-> key, thing |-> thing]
        sudoers == {c \in Callers : IsPrivileged(c)}
    IN  {Q("pull", id, r, parseImageRefFromURI(r), i) : id \in Callers, r \in Refs, i \in Images}
        \cup (UNION {{Q(kind, id, r, k, i) : kind \in {"build", "buildkit"}, id \in Callers,
                      k \in Spellings(r), i \in Images} : r \in Refs})
        \cup {Q(kind, id, r, r, i) : kind \in {"commit", "load"}, id \in Callers,
              r \in Refs, i \in Images}
        \cup {Q(kind, id, NoRef, NoRef, i) : kind \in {"build", "buildkit", "commit"},
              id \in Callers, i \in Images}
        \cup {Q("rmi", id, NoRef, NoRef, i) : id \in Callers, i \in Images}
        \cup {Q("create", id, NoRef, NoRef, n) : id \in sudoers, n \in Nets \cup Vols}
        \cup {Q("remove", id, NoRef, n, n) : id \in sudoers, n \in Nets \cup Vols}
        \cup {Q("remove", id, NoRef, NoRef, n) : id \in sudoers, n \in Nets}    \* by its id

Permitted(q) ==
    CASE q.kind = "rmi"    -> /\ q.thing \in present
                              /\ \/ IsPrivileged(q.id)
                                 \/ Tracked(q.thing) /\ images[q.thing].owner = q.id.uid
      [] q.kind = "create" -> q.thing \notin up
      [] q.kind = "remove" -> q.thing \in up
      [] OTHER             -> TRUE

Row(n) == {w \in rows : w.key = n}

\* what is stored before the request goes to the daemon
Preregistered(q) ==
    LET info == pruneOwnerInfo(q.id)
    IN  CASE q.kind = "pull" -> {Entry("pendingPullRefs", q.key, info)}
          [] q.kind \in {"commit", "buildkit"} /\ q.ref # NoRef ->
                 {Entry("pendingBuildTags", q.key, info)}
          [] q.kind = "create" -> {Entry("completedPruneOwner", q.thing, info)}
          [] q.kind = "rmi" /\ IsPrivileged(q.id) /\ ~Tracked(q.thing) ->
                 {Entry("completedPruneOwner", q.thing, info)}
          [] OTHER -> {}

TagsOf(i) == {r \in Refs : tagOf[r] = i}

\* the names an operation's events and entries are about
Touches(q) ==
    {q.thing} \cup (IF q.ref = NoRef THEN {} ELSE {q.ref.repo})
              \cup (IF q.kind = "rmi" THEN {r.repo : r \in TagsOf(q.thing)} ELSE {})

Reading(n) == reader # NoReader /\ reader.event.op = n

\* a request that is not over, or whose traces in the maps are not
Lingers(n) ==
    \/ ops[n].todo # <<>>
    \/ \E t \in timers : t.op = n
    \/ \E e \in events : e.op = n
    \/ Reading(n)
    \/ /\ ops[n].kind = "buildkit"      \* its entry may stay for ever
       /\ Entry("pendingBuildTags", ops[n].key, pruneOwnerInfo(ops[n].id)) \in maps

\* Two operations that get into each other's way.  The last line: a BuildKit
\* build takes every new image without a tag for its own.
Overlaps(n, q) ==
    /\ Lingers(n)
    /\ \/ ops[n].touches \cap Touches(q) # {}
       \/ /\ {ops[n].kind, q.kind} \subseteq MakingKinds
          /\ \/ ops[n].kind = "buildkit" /\ q.ref = NoRef
             \/ q.kind = "buildkit" /\ ops[n].ref = NoRef

\* The classic builder answers with its headers and then builds; the handler
\* registers the tag when it has read them, before or after the event.
FirstSteps(q) ==
    IF q.kind = "build" THEN {<<"headers", "daemon">>, <<"daemon", "headers">>}
                        ELSE {<<"daemon">>}

\* snapshotImageState before a BuildKit connection
Snapshot(q) ==
    IF q.kind = "buildkit" THEN [ids |-> present, tags |-> tagOf]
                           ELSE [ids |-> {}, tags |-> [r \in Refs |-> NoImage]]

Begin(q) ==
    /\ Len(ops) < MaxOps
    /\ q.kind \in Kinds
    /\ Permitted(q)
    /\ maps' = Store(maps, Preregistered(q))
    /\ \E first \in FirstSteps(q) :
           ops' = Append([n \in DOMAIN ops |->
                              [ops[n] EXCEPT !.contended = @ \/ Overlaps(n, q)]],
                  [kind |-> q.kind, id |-> q.id, ref |-> q.ref, key |-> q.key,
                   thing |-> q.thing, todo |-> first, temporary |-> Preregistered(q),
                   pre |-> Snapshot(q), untagged |-> {},
                   touches |-> Touches(q),
                   contended |-> \E n \in DOMAIN ops : Overlaps(n, q)])
    /\ UNCHANGED <<tableVars, timers, events, reader, daemonVars, rows>>

AtStep(n, step) == ops[n].todo # <<>> /\ Head(ops[n].todo) = step
Advance(n) == ops' = [ops EXCEPT ![n].todo = Tail(@)]

-----------------------------------------------------------------------------
(* The daemon.  It emits its events before it answers. *)

Event(n, type, action, actor, name, info, covered) ==
    [op |-> n, type |-> type, action |-> action, actor |-> actor, name |-> name,
     uid |-> info.uid, sudo |-> info.sudo, covered |-> covered]

Emitted(n, got) ==
    LET o    == ops[n]
        info == pruneOwnerInfo(o.id)
        byRef(action, covered) ==
            IF o.ref = NoRef THEN {}
            ELSE {Event(n, "image", action, o.ref, Bare(o.ref), info, covered)}
        created == {Event(n, "image", "create", o.thing, NoRef, info, FALSE)}
        type == IF o.thing \in Nets THEN "network" ELSE "volume"
    IN  CASE o.kind = "pull"     -> byRef("pull", got # "none")
          [] o.kind = "build"    -> byRef("tag", "headers" \notin {o.todo[k] : k \in 1..Len(o.todo)})
          [] o.kind = "buildkit" -> byRef("tag", TRUE)
          [] o.kind = "commit"   -> byRef("tag", TRUE) \cup created
          [] o.kind = "load"     -> byRef("tag", FALSE) \cup created
          [] o.kind = "rmi"      ->
                 {Event(n, "image", "delete", o.thing, NoRef,
                        IF Tracked(o.thing) THEN [uid |-> images[o.thing].owner,
                                                  sudo |-> images[o.thing].sudo] ELSE info,
                        Tracked(o.thing) /\ o.temporary = {})}
          [] o.kind = "create"   ->
                 {Event(n, type, "create", o.thing, NoRef, info, type = "volume")}
          [] o.kind = "remove"   ->
                 {Event(n, type, "destroy", o.thing, NoRef, [uid |-> w.uid, sudo |-> w.sudo],
                        type = "network" /\ w.sudo /\ o.key = o.thing) : w \in Row(o.thing)}

\* What a handler learns of the image that the daemon made: its id, the digest
\* in the stream of a pull, or neither.
Learnt(kind) ==
    CASE kind = "pull"  -> {"id", "digest", "none"}
      [] kind = "build" -> {"id", "none"}
      [] OTHER          -> {"id"}

\* mutant: the pending entry goes before the completed one is there
Program_lifo(kind, got) ==
    CASE kind = "pull"     -> IF got = "id" THEN <<"owner", "access", "clear", "complete">>
                            ELSE IF got = "digest" THEN <<"clear", "complete">> ELSE <<"clear">>
      [] kind = "build"    -> IF got = "id" THEN <<"owner", "access", "clear", "complete">>
                                    ELSE <<"clear", "complete">>
      [] kind = "commit"   -> IF got = "id" THEN <<"owner", "access", "completeId", "clear", "complete">>
                                    ELSE <<"clear", "complete">>
      [] kind = "load"     -> IF got = "id" THEN <<"complete", "owner", "access", "completeId">> ELSE <<>>
      [] kind = "rmi"      -> IF got = "id" THEN <<"complete", "dropAccess", "dropRow", "clear">>
                                    ELSE <<"clear">>
      [] kind = "create"   -> IF got = "id" THEN <<"register", "clear">> ELSE <<"clear">>
      [] kind = "remove"   -> IF got = "id" THEN <<"complete", "forget">> ELSE <<>>
      [] kind = "buildkit" -> <<"track">>

\* What the handler does with the daemon's answer, deferred calls included.
\* Without an id of the image a pull leaves no completed entry; with a manifest
\* digest in its place it does, and its row has a key that no event carries.
Program(kind, got) ==
    CASE kind = "pull"     -> IF got = "id" THEN <<"owner", "access", "complete", "clear">>
                            ELSE IF got = "digest" THEN <<"complete", "clear">> ELSE <<"clear">>
      [] kind = "build"    -> IF got = "id" THEN <<"owner", "access", "complete", "clear">>
                                    ELSE <<"complete", "clear">>
      [] kind = "commit"   -> IF got = "id" THEN <<"owner", "access", "completeId", "complete", "clear">>
                                    ELSE <<"complete", "clear">>
      [] kind = "load"     -> IF got = "id" THEN <<"complete", "owner", "access", "completeId">> ELSE <<>>
      [] kind = "rmi"      -> IF got = "id" THEN <<"complete", "dropAccess", "dropRow", "clear">>
                                    ELSE <<"clear">>
      [] kind = "create"   -> IF got = "id" THEN <<"register", "clear">> ELSE <<"clear">>
      [] kind = "remove"   -> IF got = "id" THEN <<"complete", "forget">> ELSE <<>>
      [] kind = "buildkit" -> <<"track">>

DaemonSucceeds(n, got) ==
    LET o == ops[n]
    IN  /\ AtStep(n, "daemon")
        /\ o.kind = "rmi" => o.thing \in present
        /\ o.kind = "remove" => o.thing \in up
        /\ events' = events \cup Emitted(n, got)
        /\ present' = IF o.kind \in MakingKinds THEN present \cup {o.thing}
                      ELSE present \ (IF o.kind = "rmi" THEN {o.thing} ELSE {})
        /\ tagOf' = CASE o.kind \in MakingKinds /\ o.ref # NoRef -> [tagOf EXCEPT ![o.ref] = o.thing]
                      [] o.kind = "rmi" -> [r \in Refs |-> IF tagOf[r] = o.thing THEN NoImage
                                                          ELSE tagOf[r]]
                      [] OTHER -> tagOf
        /\ up' = CASE o.kind = "create" -> up \cup {o.thing}
                   [] o.kind = "remove" -> up \ {o.thing}
                   [] OTHER -> up
        /\ ops' = [ops EXCEPT ![n].todo = Tail(@) \o Program(o.kind, got),
                              ![n].untagged = IF o.kind = "rmi" THEN TagsOf(o.thing) ELSE {}]
        /\ UNCHANGED <<tableVars, maps, timers, reader, rows>>

DaemonActs(n) == \E got \in Learnt(ops[n].kind) : DaemonSucceeds(n, got)

DaemonFails(n) ==
    /\ AtStep(n, "daemon")
    /\ ops' = [ops EXCEPT ![n].todo = Tail(@) \o Program(ops[n].kind, "none")]
    /\ UNCHANGED <<tableVars, maps, timers, events, reader, daemonVars, rows>>

-----------------------------------------------------------------------------
(* The handlers' steps. *)

\* ActionBuild: the tag is registered when forward() has returned
BuildHeaders(n) ==
    LET E == IF ops[n].ref = NoRef THEN {}
             ELSE {Entry("pendingBuildTags", ops[n].key, pruneOwnerInfo(ops[n].id))}
    IN  /\ AtStep(n, "headers")
        /\ maps' = Store(maps, E)
        /\ ops' = [ops EXCEPT ![n].todo = Tail(@), ![n].temporary = E]
        /\ UNCHANGED <<tableVars, timers, events, reader, daemonVars, rows>>

OwnImage(n) ==
    /\ AtStep(n, "owner")
    /\ InsertOwner(ops[n].thing, ops[n].id, ops[n].kind)
    /\ Advance(n)
    /\ UNCHANGED <<maps, timers, events, reader, daemonVars, rows>>

AccessImage(n) ==
    /\ AtStep(n, "access")
    /\ UpsertAccess(ops[n].thing, ops[n].id)
    /\ Advance(n)
    /\ UNCHANGED <<maps, timers, events, reader, daemonVars, rows>>

\* Store, then time.AfterFunc
Arm(n, E) ==
    /\ maps' = Store(maps, E)
    /\ timers' = timers \cup {[op |-> n, entry |-> e] : e \in E}

\* ActionCommit and ActionLoad: the content id, for the create event
CompleteId(n) ==
    /\ AtStep(n, "completeId")
    /\ Arm(n, {Entry("completedBuildOwner", ops[n].thing, pruneOwnerInfo(ops[n].id))})
    /\ Advance(n)
    /\ UNCHANGED <<tableVars, events, reader, daemonVars, rows>>

\* mutant: the context of a sudo caller hides the image from its owner
RemovedImageEntries_caller(o) ==
    LET row == images[o.thing]
        info == IF Tracked(o.thing)
                THEN [uid |-> row.owner, sudo |-> row.sudo \/ IsSudoCommand(o.id)]
                ELSE pruneOwnerInfo(o.id)
    IN  {Entry("completedPruneOwner", k, info) : k \in {o.thing} \cup o.untagged}

\* ActionRemoveImage: the owner's row decides; without one a privileged caller
RemovedImageEntries(o) ==
    LET i == o.thing
        info == IF Tracked(i) THEN [uid |-> images[i].owner, sudo |-> images[i].sudo]
                              ELSE pruneOwnerInfo(o.id)
    IN  IF Tracked(i) \/ IsPrivileged(o.id)
        THEN {Entry("completedPruneOwner", k, info) : k \in {i} \cup o.untagged}
        ELSE {}

\* ActionNetworkRemove looks the URL's value up as a name; ActionVolumeRemove
RemovedNameEntries(o) ==
    IF o.thing \in Nets
    THEN {Entry("completedPruneOwner", o.key, [uid |-> o.id.uid, sudo |-> TRUE]) :
              w \in {w \in Row(o.key) : w.sudo}}
    ELSE {Entry("completedPruneOwner", o.thing, w) : w \in Row(o.thing)}

Completed(o) ==
    CASE o.kind = "pull"   -> {Entry("completedPullOwner", o.key, pruneOwnerInfo(o.id))}
      [] o.kind = "rmi"    -> RemovedImageEntries(o)
      [] o.kind = "remove" -> RemovedNameEntries(o)
      [] o.kind = "buildkit" -> {[e EXCEPT !.map = "completedBuildOwner"] : e \in o.temporary}
      [] OTHER -> IF o.ref = NoRef THEN {}
                  ELSE {Entry("completedBuildOwner", o.key, pruneOwnerInfo(o.id))}

Complete(n) ==
    /\ AtStep(n, "complete")
    /\ Arm(n, Completed(ops[n]))
    /\ Advance(n)
    /\ UNCHANGED <<tableVars, events, reader, daemonVars, rows>>

\* mutant: the entries stay
Cleared_kept(o) == {}

\* the deferred CompareAndDelete of what was registered for the request
Cleared(o) == o.temporary

Clear(n) ==
    /\ AtStep(n, "clear")
    /\ maps' = CompareAndDelete(maps, Cleared(ops[n]))
    /\ ops' = [ops EXCEPT ![n].todo = Tail(@)]
    /\ UNCHANGED <<tableVars, timers, events, reader, daemonVars, rows>>

DropImage(n) ==
    /\ \/ AtStep(n, "dropAccess") /\ DeleteAccessRows(ops[n].thing)
       \/ AtStep(n, "dropRow") /\ DeleteOwnerRow(ops[n].thing)
    /\ Advance(n)
    /\ UNCHANGED <<maps, timers, events, reader, daemonVars, rows>>

\* SetNetworkOwner, SetVolumeOwner: INSERT OR REPLACE
RegisterName(n) ==
    LET o == ops[n]
    IN  /\ AtStep(n, "register")
        /\ rows' = (rows \ Row(o.thing)) \cup
                   {[key |-> o.thing, uid |-> o.id.uid, sudo |-> IsSudoCommand(o.id)]}
        /\ Advance(n)
        /\ UNCHANGED <<tableVars, maps, timers, events, reader, daemonVars>>

ForgetName(n) ==
    /\ AtStep(n, "forget")
    /\ rows' = rows \ Row(ops[n].thing)
    /\ Advance(n)
    /\ UNCHANGED <<tableVars, maps, timers, events, reader, daemonVars>>

\* trackBuildKitImages, after the connection is closed: the images that the
\* two snapshots give to the caller.  Its statements run in one step.
TrackBuildKitImages(n) ==
    LET o       == ops[n]
        u       == o.id.uid
        tagged  == {r \in Refs : tagOf[r] # NoImage}
        same    == {r \in tagged : o.pre.tags[r] = tagOf[r]}
        newTags == (tagged \ same) \cap {o.key}
        shared  == {tagOf[r] : r \in {r \in same : Tracked(tagOf[r])
                                                   /\ images[tagOf[r]].owner # u}}
        mine    == {tagOf[r] : r \in newTags \cup
                                     {r \in same : r = o.key /\ ~Tracked(tagOf[r])}}
        other   == {i \in present \ o.pre.ids : TagsOf(i) = {} \/ o.key \in TagsOf(i)}
        claimed == mine \cup other
    IN  /\ AtStep(n, "track")
        /\ images' = [i \in Images |-> IF i \in claimed /\ ~Tracked(i)
                                       THEN UpsertedRow(NoRow, o.id, "build") ELSE images[i]]
        /\ access' = [i \in Images |->
               [access[i] EXCEPT ![u] =
                   CASE i \in claimed /\ ~Tracked(i) -> MinContext(@, o.id)
                     [] i \in claimed \cup shared /\ images[i].owner # u /\ @ = "none" -> "plain"
                     [] OTHER -> @]]
        /\ ops' = [ops EXCEPT ![n].todo = <<"complete", "clear">>,
                              ![n].temporary = {e \in @ : e.key \in newTags}]
        /\ UNCHANGED <<maps, timers, events, reader, daemonVars, rows>>

\* snapshotImageState failed: nothing is attributed, nothing is cleared
TrackFails(n) ==
    /\ AtStep(n, "track")
    /\ ops' = [ops EXCEPT ![n].todo = <<>>]
    /\ UNCHANGED <<tableVars, maps, timers, events, reader, daemonVars, rows>>

-----------------------------------------------------------------------------
(* Time. *)

TimerFires(t) ==
    /\ t \in timers
    /\ \A e \in events : e.op # t.op
    /\ ~Reading(t.op)
    /\ timers' = timers \ {t}
    /\ maps' = CompareAndDelete(maps, {t.entry})
    /\ UNCHANGED <<tableVars, ops, events, reader, daemonVars, rows>>

-----------------------------------------------------------------------------
(* eventBelongsToUser: the lookups in their order, one per step. *)

Look(m, k) == [map |-> m, key |-> k]

Lookups(e) ==
    LET If(c, s) == IF c THEN s ELSE <<>>
        byRef    == e.name # NoRef
    IN  CASE e.type = "network" -> <<Look("table", e.actor), Look("completedPruneOwner", e.actor)>>
          [] e.type = "volume"  -> <<Look("completedPruneOwner", e.actor), Look("table", e.actor)>>
          [] e.type = "image"   ->
                If(byRef, <<Look("pendingBuildTags", e.name), Look("completedBuildOwner", e.name),
                            Look("pendingPullRefs", e.name)>>)
                \o If(byRef /\ e.action # "pull",
                      <<Look("pendingBuildTags", e.actor), Look("completedBuildOwner", e.actor)>>)
                \o If(byRef, <<Look("pendingPullRefs", e.actor)>>)
                \o If(e.action = "create", <<Look("completedBuildOwner", e.actor)>>)
                \o If(byRef, <<Look("completedPullOwner", e.name), Look("completedPullOwner", e.actor)>>)
                \o If(~byRef, <<Look("table", e.actor)>>)   \* a reference is in no table
                \o <<Look("completedPruneOwner", e.actor)>>

\* Who sees the line once a lookup has found the row or the entry x: its owner,
\* but not what he did as sudo.
ShownTo(x) == IF x.sudo THEN {} ELSE {x.uid} \cap Viewers

\* A lookup decides for all users, or nothing was found.
Undecided == [found |-> FALSE, shown |-> {}, shared |-> {}]
Decided(shown, shared) == [found |-> TRUE, shown |-> shown, shared |-> shared]

ImageRowVerdict(i) ==
    LET x == [uid |-> images[i].owner, sudo |-> images[i].sudo]
    IN  IF Tracked(i)
        THEN Decided(ShownTo(x), {u \in Viewers \ {x.uid} : access[i][u] = "plain"})
        ELSE Undecided

\* A network is only hidden, when its row or entry is sudo's.
LookupVerdict(type, l) ==
    LET hits == IF l.map = "table" THEN Row(l.key)
                ELSE {x \in maps : x.map = l.map /\ x.key = l.key}
    IN  IF type = "image" /\ l.map = "table" THEN ImageRowVerdict(l.key)
        ELSE IF hits = {} \/ (type = "network" /\ \A x \in hits : ~x.sudo) THEN Undecided
        ELSE Decided(UNION {ShownTo(x) : x \in hits}, {})

EventLine(e) ==
    /\ reader = NoReader
    /\ events' = events \ {e}
    /\ reader' = [event |-> e, todo |-> Lookups(e), verdict |-> Undecided]
    /\ UNCHANGED <<tableVars, maps, timers, ops, daemonVars, rows>>

\* what no lookup decides is shown to everyone
LookUp ==
    /\ reader # NoReader
    /\ ~reader.verdict.found
    /\ LET v == LookupVerdict(reader.event.type, Head(reader.todo))
       IN  reader' = [reader EXCEPT !.todo = IF v.found THEN <<>> ELSE Tail(@),
                          !.verdict = IF ~v.found /\ Len(reader.todo) = 1
                                      THEN Decided(Viewers, {}) ELSE v]
    /\ UNCHANGED <<tableVars, maps, timers, ops, events, daemonVars, rows>>

LineDone ==
    /\ reader # NoReader
    /\ reader.verdict.found
    /\ reader' = NoReader
    /\ UNCHANGED <<tableVars, maps, timers, ops, events, daemonVars, rows>>

-----------------------------------------------------------------------------

Init ==
    /\ TablesInit
    /\ maps = {} /\ timers = {} /\ ops = <<>> /\ events = {}
    /\ reader = NoReader
    /\ present = {} /\ tagOf = [r \in Refs |-> NoImage]
    /\ up = {} /\ rows = {}

OpStep(n) ==
    \/ DaemonActs(n) \/ DaemonFails(n) \/ BuildHeaders(n) \/ OwnImage(n) \/ AccessImage(n)
    \/ CompleteId(n) \/ Complete(n) \/ Clear(n) \/ DropImage(n)
    \/ RegisterName(n) \/ ForgetName(n) \/ TrackBuildKitImages(n) \/ TrackFails(n)

Next ==
    \/ \E q \in Requests : Begin(q)
    \/ \E n \in DOMAIN ops : OpStep(n)
    \/ \E t \in timers : TimerFires(t)
    \/ \E e \in events : EventLine(e)
    \/ LookUp
    \/ LineDone

Spec == Init /\ [][Next]_vars

-----------------------------------------------------------------------------

\* Type invariant; and a sync.Map has one value per key.
TypeOK ==
    /\ TablesTypeOK
    /\ maps \subseteq Entries
    /\ \A x, y \in maps : x.map = y.map /\ x.key = y.key => x = y
    /\ \A n \in DOMAIN ops : ops[n].kind \in Kinds /\ ops[n].thing \in Images \cup Nets \cup Vols
    /\ \A t \in timers : t.op \in DOMAIN ops /\ t.entry \in Entries
    /\ present \subseteq Images /\ tagOf \in [Refs -> Images \cup {NoImage}]
    /\ up \subseteq Nets \cup Vols
    /\ rows \subseteq [key : Nets \cup Vols, uid : Uids, sudo : BOOLEAN]

\* An event of a pull whose image the handler can identify, a build, a commit's
\* tag, a removed image that was tracked when its rmi arrived, a bare volume's
\* creation or a bare network's removal by its name is shown only to the user it belongs to, and not to him either when he worked as
\* sudo: whichever of the handler's entry, table row and timer the lookups of
\* eventBelongsToUser come upon, no gap opens between them, as long as no other
\* operation is about the same repository, image or name.  Not covered, as their
\* handlers store no entry: a pull of which neither id nor digest is learnt, and a
\* network removed by its id.
EventsHidden ==
    reader # NoReader =>
        LET e == reader.event
        IN  e.covered /\ ~ops[e.op].contended => reader.verdict.shown \subseteq ShownTo(e)

\* Nobody misses an event of his own: no entry that another operation left in
\* the maps outlives it and hides it.
OwnEventsShown ==
    reader # NoReader /\ reader.verdict.found =>
        LET e == reader.event
        IN  e.covered /\ ~ops[e.op].contended => ShownTo(e) \subseteq reader.verdict.shown

\* Every entry has someone who will remove it, a handler that has not returned
\* or an armed timer, whatever other requests overwrote or removed under the
\* same key; except what a BuildKit build registered.
EntriesExpire ==
    \A x \in maps :
        \/ \E t \in timers : t.entry = x
        \/ \E n \in DOMAIN ops : ops[n].todo # <<>> /\ x \in ops[n].temporary
        \/ \E n \in DOMAIN ops : ops[n].kind = "buildkit" /\ x.map = "pendingBuildTags"

\* "Only the images of the tags that -t names are attributed": trackBuildKitImages
\* gives its caller no access to an image that his build did not make and that
\* has tags, none of them his.
TracksOwnTags ==
    [][\A n \in DOMAIN ops : TrackBuildKitImages(n) =>
          \A i \in Images \ {ops[n].thing} :
              access'[i][ops[n].id.uid] # access[i][ops[n].id.uid] /\ TagsOf(i) # {} =>
                  ops[n].key \in TagsOf(i)]_vars

===============================================================================
