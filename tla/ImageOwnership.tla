--------------------------- MODULE ImageOwnership ---------------------------
(***************************************************************************)
(* The image requests of internal/forward/proxy.go: each one is checked    *)
(* against the tables, forwarded to the Docker daemon, and its outcome is  *)
(* written back to the tables.  A worker is one request in flight          *)
(* (ServeHTTP runs a goroutine per request, and no lock is held between    *)
(* the check, the daemon call and the statements that follow), so every    *)
(* daemon call and every SQL statement is a step of its own.  The image    *)
(* that a reference denotes is looked up in the daemon (another HTTP call) *)
(* together with the reads of the check.                                   *)
(*                                                                         *)
(* A request that is refused (403, 404, 409), and a pull answered without  *)
(* writing anything, change no state: they are stuttering steps and have   *)
(* no action.  The daemon's own behaviour (tags, dangling images, untag    *)
(* versus delete) is external and modelled from how the proxy uses it.     *)
(*                                                                         *)
(* The daemon knows an image by its id, a member of Ids, and by manifest   *)
(* digests: ConfigOf[k] is the id of the image that k stands for.  As a    *)
(* reference, a digest is repo@digest.  Under the containerd image store   *)
(* the id is the digest, and ConfigOf is the identity.                     *)
(***************************************************************************)
EXTENDS ImageTables

CONSTANTS
    ConfigOf,       \* the id of the image that an id or a digest stands for
    Tags,           \* repository tags
    NoImage,        \* "" as an image id
    Callers,        \* the callers that send them
    Grantees,       \* the users an administrator grants images to
    Workers,        \* requests in flight at the same time
    Ops,            \* the requests a run explores
    MaxRestarts,    \* bound on restarts of the proxy
    LookupMayFail   \* whether resolveImageIDByRef may fail on a present image

AllOps == Sources \cup {"tag", "create", "rmi", "prune", "ctl"}

ASSUME ConfigAssumption ==
    /\ ConfigOf \in [Images -> Images]
    /\ \A k \in Images : ConfigOf[ConfigOf[k]] = ConfigOf[k]

ASSUME ImageAssumption ==
    /\ NoImage \notin Images
    /\ Tags \cap Images = {}
    /\ NoImage \notin Tags
    /\ Ops \subseteq AllOps
    /\ Callers \subseteq Identities
    /\ Grantees \subseteq Uids
    /\ MaxRestarts \in Nat
    /\ LookupMayFail \in BOOLEAN

\* the ids under which the daemon keeps images
Ids == {k \in Images : ConfigOf[k] = k}

VARIABLES
    store,      \* the daemon's images
    tags,       \* the daemon's tag -> image map
    req,        \* the request of each worker
    restarts,   \* restarts so far
    answered,   \* history: <<i, u>>, a non-sudo pull, build, ... of i by u
                \*   was registered, and u's reference was not dropped since
    takeovers   \* history: how often the tracked row of i changed its owner

daemonVars == <<store, tags>>
vars == <<images, access, store, tags, req, restarts, answered, takeovers>>

Refs == Tags \cup Images
ImageOrNone == Images \cup {NoImage}
IdOrNone == Ids \cup {NoImage}

PCs == {"idle", "forward", "resolve", "insert", "grant", "ensure", "publish",
        "unref", "prune", "pruneDel", "delAccess", "delRow"}

(***************************************************************************)
(* A request: the step it is at, its operation, caller, reference, second  *)
(* reference (docker tag), resolved image, its flag (authz.public of a     *)
(* pull, force of an rmi) and the images a prune still has to visit.       *)
(***************************************************************************)
Requests ==
    [pc : PCs, op : AllOps \cup {"none", "virtual", "bridge", "sweep"}, id : Identities,
     ref : Refs \cup {NoImage}, dst : Tags \cup {NoImage}, img : ImageOrNone,
     flag : BOOLEAN, todo : SUBSET Ids]

IdleRequest ==
    [pc |-> "idle", op |-> "none", id |-> Root, ref |-> NoImage, dst |-> NoImage,
     img |-> NoImage, flag |-> FALSE, todo |-> {}]

TypeOK ==
    /\ TablesTypeOK
    /\ store \subseteq Ids
    /\ tags \in [Tags -> IdOrNone]
    /\ req \in [Workers -> Requests]
    /\ restarts \in 0 .. MaxRestarts
    /\ answered \subseteq Images \X Uids
    /\ takeovers \in [Images -> Nat]

\* The daemon may hold images from before the proxy was deployed.
Init ==
    /\ TablesInit
    /\ store \in SUBSET Ids
    /\ tags \in [Tags -> store \cup {NoImage}]
    /\ req = [w \in Workers |-> IdleRequest]
    /\ restarts = 0
    /\ answered = {}
    /\ takeovers = [i \in Images |-> 0]

-----------------------------------------------------------------------------
(* Helpers. *)

TagsOf(i) == {t \in Tags : tags[t] = i}
Dangling == {i \in store : TagsOf(i) = {}}

Lookup(ref) ==
    IF ref \in Tags THEN tags[ref]
    ELSE IF ref \in Images /\ ConfigOf[ref] \in store THEN ConfigOf[ref]
    ELSE NoImage

\* GET /images/{ref}/json: a failed call gives "" like an absent image
resolveImageIDByRef(ref) ==
    {Lookup(ref)} \cup (IF LookupMayFail THEN {NoImage} ELSE {})

\* parseImageRefFromURI puts a pull by digest together as "repo:sha256:...",
\* which is no name of the image; fromImage=repo@digest stays what it is
PullLookup(ref) ==
    resolveImageIDByRef(ref) \cup (IF ref \in Images THEN {NoImage} ELSE {})

Known(i) == i # NoImage /\ Tracked(i)

Idle(w) == req[w].pc = "idle"
Begin(w, request) == req' = [req EXCEPT ![w] = request]
Goto(w, pc) == req' = [req EXCEPT ![w].pc = pc]
Finish(w) == req' = [req EXCEPT ![w] = IdleRequest]

\* where a request goes once DeleteImage has run: a prune has more to visit
AfterDelete(w) ==
    IF req[w].op \in {"prune", "sweep"} THEN Goto(w, "prune") ELSE Finish(w)

-----------------------------------------------------------------------------
(* Checks before forwarding (checkOwnershipPreRequest). *)

PullIsForwarded(id, i, public) ==
    \/ IsPrivileged(id)
    \/ ~public /\ (Known(i) => images[i].owner = id.uid)

\* answered by the proxy, with a reference for the caller
PullIsVirtual(id, i, public) ==
    /\ ~IsPrivileged(id) /\ ~public
    /\ Known(i) /\ images[i].owner # id.uid
    /\ images[i].public \/ images[i].source # "build"

checkImagePullPermission(w, id, ref, public) ==
    /\ Idle(w) /\ "pull" \in Ops
    /\ \E i \in PullLookup(ref) :
        \/ /\ PullIsForwarded(id, i, public)
           /\ Begin(w, [IdleRequest EXCEPT !.pc = "forward", !.op = "pull", !.id = id,
                                           !.ref = ref, !.flag = public])
        \/ /\ PullIsVirtual(id, i, public)
           /\ Begin(w, [IdleRequest EXCEPT !.pc = "ensure", !.op = "virtual", !.id = id,
                                           !.img = i])
    /\ UNCHANGED <<images, access, store, tags, restarts, answered, takeovers>>

\* build, load, commit and import are not checked against the image tables;
\* a build without -t has no reference
ProduceRequest(w, id, op, t) ==
    /\ Idle(w) /\ op \in Ops /\ op \in Sources \ {"pull"}
    /\ Begin(w, [IdleRequest EXCEPT !.pc = "forward", !.op = op, !.id = id,
                                    !.ref = t])
    /\ UNCHANGED <<images, access, store, tags, restarts, answered, takeovers>>

TagAllowed(id, i) ==
    IsPrivileged(id) \/ (Known(i) => images[i].owner = id.uid \/ CanUseImage(id.uid, i))

checkImageTagPermission(w, id, ref, t) ==
    /\ Idle(w) /\ "tag" \in Ops
    /\ \E found \in resolveImageIDByRef(ref) :
        TagAllowed(id, IF found = NoImage /\ ref \in Ids THEN ref ELSE found)
    /\ Begin(w, [IdleRequest EXCEPT !.pc = "forward", !.op = "tag", !.id = id,
                                    !.ref = ref, !.dst = t])
    /\ UNCHANGED <<images, access, store, tags, restarts, answered, takeovers>>

\* mutant: a row under the digest does not count
Bridges_none(id, ref) == FALSE

\* bridgeImageAccessByRefDigest: repo@digest, and the caller may use the digest
Bridges(id, ref) == ref \in Images /\ CanUseImage(id.uid, ref)

\* creating a container from ref, which denotes i, is not refused
CreatePasses(id, ref, i) ==
    IF Known(i) THEN CanUseImage(id.uid, i) \/ Bridges(id, ref)
    ELSE i = NoImage \/ IsPrivileged(id) \/ Bridges(id, ref)

\* creating a container takes a reference on a public image; a caller who has
\* only the digest of the image becomes owner of an untracked image, and gets
\* a reference on one that is somebody else's.  The other creates write nothing.
checkCreateImage(w, id, ref) ==
    /\ Idle(w) /\ "create" \in Ops
    /\ \E i \in resolveImageIDByRef(ref) :
        /\ i # NoImage
        /\ CreatePasses(id, ref, i)
        /\ \/ /\ Tracked(i) /\ (images[i].public \/ ~CanUseImage(id.uid, i))
              /\ Begin(w, [IdleRequest EXCEPT !.pc = "ensure", !.op = "create", !.id = id,
                                              !.img = i])
           \/ /\ ~Tracked(i) /\ ~IsPrivileged(id)
              /\ Begin(w, [IdleRequest EXCEPT !.pc = "insert", !.op = "bridge", !.id = id,
                                              !.img = i])
    /\ UNCHANGED <<images, access, store, tags, restarts, answered, takeovers>>

\* mutant: whoever references the image may delete it
RmiIsForwarded_anyReference(id, i, force) ==
    \/ i = NoImage
    \/ ~Known(i) /\ IsPrivileged(id)
    \/ /\ Known(i)
       /\ IsPrivileged(id) \/ HasUserImageAccess(i, id.uid)
       /\ \/ ~images[i].public
          \/ IsPrivileged(id) /\ force
          \/ ~ReferencedByOthers(i, id.uid)

\* mutant: force is everybody's
RmiIsForwarded_anyForce(id, i, force) ==
    \/ i = NoImage
    \/ ~Known(i) /\ IsPrivileged(id)
    \/ /\ Known(i)
       /\ IsPrivileged(id) \/ images[i].owner = id.uid
       /\ ~images[i].public \/ force \/ ~ReferencedByOthers(i, id.uid)

RmiIsForwarded(id, i, force) ==
    \/ i = NoImage
    \/ ~Known(i) /\ IsPrivileged(id)
    \/ /\ Known(i)
       /\ IsPrivileged(id) \/ images[i].owner = id.uid
       /\ \/ ~images[i].public
          \/ IsPrivileged(id) /\ force
          \/ ~ReferencedByOthers(i, id.uid)

\* mutant: an owner's delete is virtual too
RmiIsVirtual_owner(id, i) ==
    ~IsPrivileged(id) /\ Known(i) /\ HasUserImageAccess(i, id.uid)

RmiIsVirtual(id, i) ==
    /\ ~IsPrivileged(id)
    /\ Known(i) /\ images[i].owner # id.uid
    /\ HasUserImageAccess(i, id.uid)

\* HasContainerUsingImage never holds, because containers.image_id is
\* always written empty (see ContainerLifecycle), so it guards nothing here
checkImageRemovePermission(w, id, ref, force) ==
    /\ Idle(w) /\ "rmi" \in Ops
    /\ \E i \in resolveImageIDByRef(ref) :
        \/ /\ RmiIsForwarded(id, i, force)
           /\ Begin(w, [IdleRequest EXCEPT !.pc = "forward", !.op = "rmi", !.id = id,
                                           !.ref = ref, !.flag = force])
        \/ /\ RmiIsVirtual(id, i)
           /\ Begin(w, [IdleRequest EXCEPT !.pc = "unref", !.op = "rmi", !.id = id,
                                           !.img = i])
    /\ UNCHANGED <<images, access, store, tags, restarts, answered, takeovers>>

\* docker image prune: a regular user's is a loop in the proxy over the list
\* of dangling images, a privileged one is left to the daemon, whose answer
\* lists what it deleted
handleImagePrune(w, id) ==
    /\ Idle(w) /\ "prune" \in Ops
    /\ \/ /\ ~IsPrivileged(id)
          /\ Begin(w, [IdleRequest EXCEPT !.pc = "prune", !.op = "prune", !.id = id,
                                          !.todo = Dangling])
          /\ UNCHANGED store
       \/ /\ IsPrivileged(id)
          /\ Begin(w, [IdleRequest EXCEPT !.pc = "prune", !.op = "sweep", !.id = id,
                                          !.todo = Dangling])
          /\ store' = store \ Dangling
    /\ UNCHANGED <<images, access, tags, restarts, answered, takeovers>>

-----------------------------------------------------------------------------
(* Steps of the daemon (external). *)

Forwarded(w, op) == req[w].pc = "forward" /\ req[w].op = op

Retag(t, i) == IF t \in Tags THEN [tags EXCEPT ![t] = i] ELSE tags

\* pull, build, load, commit, import: an image is in the store, under the tag
\* asked for.  The answer names the image; the stream of a pull names it by a
\* digest or not at all, that of a build by its id or by a digest (the lookup
\* of what a build reports is part of that choice).  A load of a tagged
\* archive reports "Loaded image: <tag>", which registers nothing.
DaemonProduces(w) ==
    /\ \E op \in Sources : Forwarded(w, op)
    /\ \E i \in Ids, reported \in ImageOrNone :
        /\ \/ reported = i
           \/ reported \in Images /\ ConfigOf[reported] = i /\ req[w].op \in {"pull", "build"}
           \/ reported = NoImage /\ req[w].op = "pull"
        /\ req[w].ref \in Images => i = ConfigOf[req[w].ref]
        /\ req[w].op = "commit" => i \notin store
        /\ store' = store \cup {i}
        /\ tags' = Retag(req[w].ref, i)
        /\ IF req[w].op = "load" /\ req[w].ref \in Tags
             THEN Finish(w)
             ELSE req' = [req EXCEPT
                    ![w].pc = IF req[w].op \in {"pull", "build"} THEN "resolve" ELSE "insert",
                    ![w].img = reported]
    /\ UNCHANGED <<images, access, restarts, answered, takeovers>>

DaemonTags(w) ==
    /\ Forwarded(w, "tag")
    /\ Lookup(req[w].ref) # NoImage
    /\ tags' = Retag(req[w].dst, Lookup(req[w].ref))
    /\ IF IsPrivileged(req[w].id) THEN Finish(w) ELSE Goto(w, "resolve")
    /\ UNCHANGED <<images, access, store, restarts, answered, takeovers>>

Untag(i) == [t \in Tags |-> IF tags[t] = i THEN NoImage ELSE tags[t]]

\* removing by tag an image that has other tags only unties the tag, and so
\* does removing a tagged image by digest; removing by id an image with
\* several tags needs force
DaemonRemoves(w) ==
    /\ Forwarded(w, "rmi")
    /\ LET ref == req[w].ref
           i == Lookup(ref)
       IN  /\ i # NoImage
           /\ \/ /\ \/ ref \in Tags /\ TagsOf(i) # {ref}
                    \/ ref \notin Tags \cup Ids /\ TagsOf(i) # {}
                 /\ tags' = Retag(ref, NoImage)
                 /\ UNCHANGED store
                 /\ Finish(w)
              \/ /\ \/ ref \in Tags /\ TagsOf(i) = {ref}
                    \/ ref \notin Tags \cup Ids /\ TagsOf(i) = {}
                    \/ ref \in Ids /\ (Cardinality(TagsOf(i)) > 1 => req[w].flag)
                 /\ tags' = Untag(i)
                 /\ store' = store \ {i}
                 /\ req' = [req EXCEPT ![w].pc = "delAccess", ![w].img = i, ![w].ref = NoImage]
    /\ UNCHANGED <<images, access, restarts, answered, takeovers>>

\* DELETE /images/{id} of a prune, without force
DaemonPrunes(w) ==
    /\ req[w].pc = "pruneDel"
    /\ req[w].img \in store
    /\ Cardinality(TagsOf(req[w].img)) <= 1
    /\ store' = store \ {req[w].img}
    /\ tags' = Untag(req[w].img)
    /\ Goto(w, "delAccess")
    /\ UNCHANGED <<images, access, restarts, answered, takeovers>>

\* the daemon refuses (unknown, in use by a container, registry error) or the
\* transport fails: nothing is registered; a prune goes on with the next image
DaemonFails(w) ==
    /\ \/ req[w].pc = "forward" /\ Finish(w)
       \/ req[w].pc = "pruneDel" /\ Goto(w, "prune")
    /\ UNCHANGED <<images, access, store, tags, restarts, answered, takeovers>>

-----------------------------------------------------------------------------
(* What postprocessResponse writes. *)

\* mutant: an image that cannot be found any more is registered all the same
ResolveProduced_unchecked(w) ==
    /\ req[w].pc = "resolve"
    /\ LET r == req[w]
           new == IF r.op = "tag" THEN r.dst ELSE r.ref
       IN  \E found \in PullLookup(new) :
             req' = [req EXCEPT
                ![w].pc = IF r.op = "tag" THEN "ensure" ELSE "insert",
                ![w].img = found]
    /\ UNCHANGED <<images, access, store, tags, restarts, answered, takeovers>>

\* a pull or a build looks its reference up and falls back to the id or the
\* digest that the daemon reported; a tag looks up the new tag and falls back
\* to the old reference
ResolveProduced(w) ==
    /\ req[w].pc = "resolve"
    /\ LET r == req[w]
           new == IF r.op = "tag" THEN r.dst ELSE r.ref
           old == IF r.op = "tag" THEN Lookup(r.ref) ELSE r.img
       IN  \E found \in PullLookup(new) :
             LET i == IF found # NoImage THEN found ELSE old
             IN  IF i = NoImage
                 THEN Finish(w)
                 ELSE req' = [req EXCEPT
                        ![w].pc = IF r.op = "tag" THEN "ensure" ELSE "insert",
                        ![w].img = i, ![w].ref = NoImage, ![w].dst = NoImage]
    /\ UNCHANGED <<images, access, store, tags, restarts, answered, takeovers>>

\* SetImageOwner(img, id, false, source), first statement
RegisterOwner(w) ==
    /\ req[w].pc = "insert"
    /\ LET i == req[w].img
           source == IF req[w].op = "bridge" THEN "pull" ELSE req[w].op
       IN  /\ InsertOwner(i, req[w].id, source)
           /\ takeovers' = [takeovers EXCEPT ![i] =
                IF Tracked(i) /\ images'[i].owner # images[i].owner THEN @ + 1 ELSE @]
    /\ Goto(w, "grant")
    /\ UNCHANGED <<store, tags, restarts, answered>>

\* SetImageOwner, second statement
RegisterAccess(w) ==
    /\ req[w].pc = "grant"
    /\ UpsertAccess(req[w].img, req[w].id)
    /\ answered' = IF IsSudoCommand(req[w].id) THEN answered
                   ELSE answered \cup {<<req[w].img, req[w].id.uid>>}
    /\ IF req[w].op = "bridge" THEN Finish(w) ELSE Goto(w, "ensure")
    /\ UNCHANGED <<store, tags, restarts, takeovers>>

\* EnsureImageAccess(img, uid): of a virtual pull, a create, a tag, and after
\* the SetImageOwner of whatever the daemon produced
EnsureAccess(w) ==
    /\ req[w].pc = "ensure"
    /\ EnsureImageAccess(req[w].img, req[w].id.uid)
    /\ IF req[w].op = "pull" /\ IsPrivileged(req[w].id) /\ req[w].flag
       THEN Goto(w, "publish") ELSE Finish(w)
    /\ UNCHANGED <<store, tags, restarts, answered, takeovers>>

\* a privileged pull with authz.public=true
Publish(w) ==
    /\ req[w].pc = "publish"
    /\ SetImagePublic(req[w].img, TRUE)
    /\ Finish(w)
    /\ UNCHANGED <<store, tags, restarts, answered, takeovers>>

\* the virtual delete of a user who is not the owner
DropReference(w) ==
    /\ req[w].pc = "unref"
    /\ RemoveUserImageAccess(req[w].img, req[w].id.uid)
    /\ answered' = answered \ {<<req[w].img, req[w].id.uid>>}
    /\ Finish(w)
    /\ UNCHANGED <<store, tags, restarts, takeovers>>

\* one image of a prune: the proxy's own loop skips what belongs to others,
\* the clean-up after the daemon's prune takes every image it deleted
PruneNext(w) ==
    /\ req[w].pc = "prune"
    /\ \E i \in req[w].todo :
        req' = [req EXCEPT
            ![w].todo = @ \ {i},
            ![w].img = i,
            ![w].pc = IF req[w].op = "sweep" THEN "delAccess"
                      ELSE IF Tracked(i) /\ images[i].owner # req[w].id.uid THEN "prune"
                      ELSE "pruneDel"]
    /\ UNCHANGED <<images, access, store, tags, restarts, answered, takeovers>>

PruneDone(w) ==
    /\ req[w].pc = "prune" /\ req[w].todo = {}
    /\ Finish(w)
    /\ UNCHANGED <<images, access, store, tags, restarts, answered, takeovers>>

\* DeleteImage(img), first and second statement
ForgetAccess(w) ==
    /\ req[w].pc = "delAccess"
    /\ DeleteAccessRows(req[w].img)
    /\ answered' = {a \in answered : a[1] # req[w].img}
    /\ Goto(w, "delRow")
    /\ UNCHANGED <<store, tags, restarts, takeovers>>

ForgetOwner(w) ==
    /\ req[w].pc = "delRow"
    /\ DeleteOwnerRow(req[w].img)
    /\ takeovers' = [takeovers EXCEPT ![req[w].img] = 0]
    /\ AfterDelete(w)
    /\ UNCHANGED <<store, tags, restarts, answered>>

-----------------------------------------------------------------------------
(* docker-authz-proxy-ctl, run by root on the same database. *)

imageSetPublic(i, public, force) ==
    /\ "ctl" \in Ops
    /\ Tracked(i)
    /\ public \/ force \/ ~ReferencedByOthers(i, images[i].owner)
    /\ SetImagePublic(i, public)
    /\ UNCHANGED <<store, tags, req, restarts, answered, takeovers>>

imageGrant(i, u) ==
    /\ "ctl" \in Ops
    /\ Tracked(i)
    /\ EnsureImageAccess(i, u)
    /\ UNCHANGED <<store, tags, req, restarts, answered, takeovers>>

-----------------------------------------------------------------------------
\* The proxy dies and starts again: requests in flight are lost, the database
\* file and the daemon are not.
Restart ==
    /\ restarts < MaxRestarts
    /\ restarts' = restarts + 1
    /\ req' = [w \in Workers |-> IdleRequest]
    /\ UNCHANGED <<images, access, store, tags, answered, takeovers>>

Arrive(w) ==
    \E id \in Callers :
        \/ \E ref \in Refs, public \in BOOLEAN : checkImagePullPermission(w, id, ref, public)
        \/ \E op \in Sources, t \in Tags \cup {NoImage} : ProduceRequest(w, id, op, t)
        \/ \E ref \in Refs, t \in Tags : checkImageTagPermission(w, id, ref, t)
        \/ \E ref \in Refs : checkCreateImage(w, id, ref)
        \/ \E ref \in Refs, force \in BOOLEAN : checkImageRemovePermission(w, id, ref, force)
        \/ handleImagePrune(w, id)

Daemon(w) ==
    DaemonProduces(w) \/ DaemonTags(w) \/ DaemonRemoves(w) \/ DaemonPrunes(w) \/ DaemonFails(w)

Write(w) ==
    \/ ResolveProduced(w) \/ RegisterOwner(w) \/ RegisterAccess(w) \/ EnsureAccess(w)
    \/ Publish(w) \/ DropReference(w) \/ PruneNext(w) \/ PruneDone(w)
    \/ ForgetAccess(w) \/ ForgetOwner(w)

Ctl ==
    \E i \in Images :
        \/ \E public, force \in BOOLEAN : imageSetPublic(i, public, force)
        \/ \E u \in Grantees : imageGrant(i, u)

Next ==
    \/ \E w \in Workers : Arrive(w) \/ Daemon(w) \/ Write(w)
    \/ Ctl
    \/ Restart

Spec == Init /\ [][Next]_vars

-----------------------------------------------------------------------------
(* Properties. *)

KnowsImage(r) ==
    /\ r.pc \in {"insert", "grant", "ensure", "publish"} =>
          r.img \in Ids \/ (r.img \in Images /\ r.op \in {"pull", "build"})
    /\ r.pc \in {"unref", "pruneDel", "delAccess", "delRow"} => r.img \in Ids
    /\ r.pc = "insert" => r.op \in Sources \cup {"bridge"}
    /\ r.pc = "resolve" => r.op \in {"pull", "build", "tag"}

\* A request that is about to write to the tables knows what it writes about:
\* an empty image id never reaches SetImageOwner, EnsureImageAccess,
\* RemoveUserImageAccess or DeleteImage, whatever lookup failed and whatever
\* was deleted meanwhile.  What it writes about is the id of an image, except
\* for a pull or a build whose lookup gave nothing: it registers a row under
\* the manifest digest of the stream.
WritesKnowImage == \A w \in Workers : KnowsImage(req[w])

\* Whoever obtained an image without sudo, through the daemon, keeps it in
\* his non-privileged view, whatever sudo pulls of the same image come before
\* or after (the MIN rule of SetImageOwner), until he drops it or it is gone.
RegisteredPullVisible ==
    \A i \in Images, u \in Uids :
        <<i, u>> \in answered => access[i][u] = "plain"

\* Whoever pulled an image can create a container from it by the reference
\* under which the pull registered it, id or digest: the digest that a failed
\* lookup left in the tables is no dead end, because the create bridges it to
\* the id of the image.
PullerMayCreate ==
    \A k \in Images, id \in Callers :
        /\ <<k, id.uid>> \in answered
        /\ Tracked(k)
        /\ ConfigOf[k] \in store
        => CreatePasses(id, k, ConfigOf[k])

\* A tracked image changes its owner at most once, and only from the user who
\* built it to one who pulled it: no later build, load or pull takes it away
\* again.
OwnerChangesOnce ==
    \A i \in Images : takeovers[i] <= 1 /\ (takeovers[i] = 1 => images[i].source = "pull")

\* A step of the daemon deletes i for worker w
Deletes(w, i) == i \in store /\ i \notin store' /\ req'[w] # req[w]

\* A regular user's request never makes the daemon delete an image that the
\* tables give to somebody else (rmi by tag or id, and prune).
OnlyOwnerDeletes ==
    [][\A w \in Workers, i \in Images :
          Deletes(w, i) /\ Tracked(i) =>
              IsPrivileged(req'[w].id) \/ images[i].owner = req'[w].id.uid]_vars

\* somebody other than the caller of worker w has a row for i
OthersReference(w, i) == \E u \in Uids : u # req'[w].id.uid /\ access[i][u] # "none"

\* docker rmi deletes a public image that other users reference only for a
\* privileged caller who forces it.
RmiRespectsReferences ==
    [][\A w \in Workers, i \in Images :
          Deletes(w, i) /\ req'[w].op = "rmi" /\ images[i].public /\ OthersReference(w, i) =>
              IsPrivileged(req'[w].id) /\ req'[w].flag]_vars

\* No rmi of a regular user deletes an image, public or not, that other users
\* reference.  The count is only asked of public images, and this does not hold.
ReferencesProtect ==
    [][\A w \in Workers, i \in Images :
          Deletes(w, i) /\ req'[w].op = "rmi" /\ OthersReference(w, i) =>
              IsPrivileged(req'[w].id)]_vars

Quiet == \A w \in Workers : Idle(w)

\* When no request is in flight, the owner of a tracked image is among its
\* references (image_access holds the owner too), so a virtual delete by
\* others never leaves an owner without a reference.
OwnerHasReference ==
    Quiet => \A i \in Images : Tracked(i) => HasUserImageAccess(i, images[i].owner)

\* When no request is in flight, the tables know no image that the daemon does
\* not have: every way to delete one (rmi by tag, by id, by digest, prune by the
\* proxy or by the daemon) also removes its rows.  This is about the rows of
\* ids: a row under a manifest digest, which a failed lookup leaves behind, is
\* never removed, because every delete goes by the id.
NoStaleRows ==
    Quiet => \A i \in Ids : i \notin store =>
        ~Tracked(i) /\ \A u \in Uids : access[i][u] = "none"
==============================================================================
