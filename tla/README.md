# Verification of docker-authz-proxy

docker-authz-proxy sits between users and the Docker daemon. Every user talks
to a Unix socket of his own; the proxy finds out who he is, decides whether
the request is allowed, forwards it, and keeps an SQLite database that says who
owns which image, container, network, volume and host port. This directory
holds a TLA+ model of that system, the TLC instances that check it and the
TLAPS proofs about it. File names below are relative to `src/`; `proxy.go` is
`internal/forward/proxy.go` and `ownership.go` is `internal/authz/ownership.go`.

## 1. The system and its parts

| Part | State | Operations | Hard behaviour | What makes it correct |
|---|---|---|---|---|
| Identity (`internal/auth`) | per connection: real uid, effective uid, kind of user | resolve from SO_PEERCRED, /proc and SUDO_UID; verify again on each request | process changes uid or dies and its pid is reused between two reads | a request never runs with more rights than its sender had when he sent it |
| Policy (`internal/authz/policy.go`) | allow and deny lists per user and group, replaced by reload | classify a request, override by command line, deny | reload while requests run | deny wins, the mapping from requests to actions misses none |
| Admission (`ServeHTTP`) | two semaphores | authenticate, check, forward, postprocess, audit | many requests at once, long-lived streams | slots are given back, the order of the checks |
| Image tables and requests (`ownership.go`, `proxy.go`) | tables `images`, `image_access` | pull, build, load, commit, import, tag, create, rmi, prune, ctl | each request is several daemon calls and SQL statements with no lock or transaction around them | only owners delete, references protect, pulled images stay visible, no stale rows |
| BuildKit tracking (`handleHijack`, `trackBuildKitImages`) | `pendingBuilds`, `pendingBuildTags` | snapshot images before and after a build, attribute what is new | runs in the background after the connection closed; two builds overlap | builds are attributed to their builder |
| Containers and ports | tables `containers`, `port_mappings`; labels in the daemon | create, start, rm, prune, events | quota and port checks far from the writes, lost answers and events, crashes | quota, exclusive ports, creators and nobody else control containers, rows are released |
| Event listener | one event in hand, a stream that breaks | receive, clean up, reconnect | missed events, events that overtake answers | every removed container is forgotten |
| Event filter (`eventBelongsToUser`) | five maps with timers | decide for each event and subscriber | events arrive before, between and after the writes they depend on | no user sees another's events, and each sees his own |
| Networks, bridges, peers (`internal/isolation/netbridge.go`, `network.go`) | tables `networks`, `network_access`, `network_peers`; networks in the daemon | user bridge, create, connect, allow and deny peers | containers created while a peering is set up or torn down | containers of peered users, and only those, are connected |
| Volumes and storage (`storage.go`, `volume.go`) | table `volumes`; volumes in the daemon | create, rm, prune, periodic clean-up | clean-up decides from two snapshots | no registered volume is ever cleaned up |
| Quotas (`quota.go`) | limits per user, group and default | resolve, check, inject, reload | 0 means unlimited, several groups | limits are what the file says |
| Reload (`main.go`) | modification times; the policy and the quotas in force | a ticker and SIGHUP, each of which reads a file and then installs it | edits between reading and installing, broken files | the last file that parses comes into force |
| Swarm (`proxy.go`) | tables `swarm_services`, `swarm_secrets`, `swarm_configs` | create, rm, inspect, update, leave | references by name and by short id | nobody removes another's; rows follow the resources |
| Audit, response filters, ctl, scripts | log files | | log rotation with concurrent writers | |

A request runs in a goroutine of its own (`ServeHTTP`). It reads the tables
(`checkOwnershipPreRequest`), calls the daemon (`forward`), and writes the
tables (`postprocessResponse`). SQLite makes each statement atomic; nothing
makes two statements atomic, and nothing ties a check to the daemon call that
follows it. Two background activities share the tables: the listener for
Docker's destroy events and the `ctl` tool, which opens the same file.

PROJECT.json lists the hazards this design is exposed to, each at the line
where it bites and with the properties that watch it.

## 2. Modules

| Module | Models |
|---|---|
| `CallerIdentity` | who sends a request: real uid and mode (regular, sudo, config-privileged), `IsPrivileged`, `IsSudoCommand` |
| `Policy` | resolution of deny rules and privileges, classification of requests, the override by the command line |
| `Admission` | connections, identities, the slots and the stages of `ServeHTTP` and `handleHijack` up to the daemon |
| `ImageTables` | `images` and `image_access` and their statements, one operator per statement or query |
| `ImageOwnership` | the image requests over those tables and the daemon's images and tags |
| `EventAttribution` | whose is an event: the five in-memory maps, their timers, `eventBelongsToUser`, BuildKit tracking |
| `OwnedContainers` | what the proxy promises about containers, without tables, labels and events |
| `ContainerLifecycle` | containers, their rows, ports and labels, and the event listener; implements `OwnedContainers` |
| `VolumeOwnership` | volumes, the table `volumes` and the clean-up of orphaned volumes |
| `NamedResources` | networks, the users' bridges and swarm resources, addressed by name, id or short id |
| `PeerNetworks` | peerings, the table `network_peers`, the shared networks and who is attached to them |
| `QuotaRules` | resolution, checks and injection of limits, as functions of a quota file and a request |
| `ConfigReload` | how the policy and the quota file come into force |
| `Quotas` | `ConfigReload` together with the quota stages of create and update, and the containers' limits |
| `ImageOwnershipProofs`, `ContainerLifecycleProofs`, `VolumeOwnershipProofs`, `PeerNetworksProofs`, `NamedResourcesProofs`, `AdmissionProofs`, `QuotasProofs`, `EventAttributionProofs` | the theorems |
| `MC*` | callers, requests, files and symmetries for TLC |

The components keep tables of their own and are modelled one by one: a
request of one writes no row of another. Where they do interact the modules
are put together: `EventAttribution` runs over the statements of `ImageTables`,
`Admission` over `Policy`, `Quotas` over `ConfigReload` and `QuotaRules`. All
share the caller (`CallerIdentity`), and `Admission!TypeOK` says that what it
lets through is such a caller; what one assumes of another is said where it does
(`PeerNetworks` takes the owner of a container as fixed, which is what
`ContainerLifecycle` shows of rows and labels).

### ImageOwnership

State: `images[i]` (found, owner, public, source, sudo context) and
`access[i][u]` (no row, a row with privileged_context 0 or 1) are the two
tables; `store` and `tags` are the daemon; `req[w]` is the request of worker
`w` with its program counter. `answered` (which user has a registered pull of
which image) and `takeovers` are history variables. The tables are keyed by
`Images`: the ids of images (`Ids`) and manifest digests, of which `ConfigOf` gives
the image.

Each action is one daemon call or one SQL statement. The checks
(`checkImagePullPermission`, `checkImageTagPermission`,
`checkImageRemovePermission`, ...) read the tables and either start a request
or, when the proxy answers itself, go straight to the write (a virtual pull or
a virtual delete). `DaemonProduces`, `DaemonTags`, `DaemonRemoves`,
`DaemonPrunes` and `DaemonFails` are the daemon, modelled from how the proxy
uses it. `ResolveProduced` to `ForgetOwner` are the statements of
`postprocessResponse`; `SetImageOwner` and `DeleteImage` are two statements
each and therefore two actions each. When the lookup after a pull or a build
fails, the row is written under what the stream named, which may be a digest; the
name of a pull by digest is put together in a way the lookup may not understand
(`PullLookup`). A create from repo@digest brings such a row to the image itself
(`Bridges`, and the "bridge" request of `checkCreateImage`, which writes
`SetImageOwner` or a reference). `Restart` loses the requests and keeps
database and daemon. `imageSetPublic` and `imageGrant` are ctl's.

Left out: what a refused request answers, the JSON of lists, the audit log,
`push`, `save` and `inspect` (they change nothing), and BuildKit (see
`EventAttribution`). A load of an
archive with tags registers nothing: the handler looks for an image id in the
answer, and the answer names the tags. The check
that an image is in use by the caller's containers (`HasContainerUsingImage`)
is no guard in the model because it never holds: `forward()` reads the body of
a create to its end, so the image recorded for a container is always empty.
`ContainerLifecycle` models that (`body`, and the field `image` of a row).

### ContainerLifecycle

State: `status`, `label` and `bindings` are the daemon's containers; `rows` and
`portOf` the tables `containers` and `port_mappings`; `req[w]` the requests;
`stream`, `connected` and `listener` the event stream and the goroutine that
reads it. A container id is used once. A reference is the full id or something
else that denotes the container (`byId`): the statements after an rm use the
reference of the URL and find nothing under a name.

`checkCreateContainer` is the quota and port check, `checkContainerOwnership`
the check by row and, without one, by label. `DaemonCreates` includes the
retries of `forward()` when the answer is lost. `RegisterContainer` and
`RecordPort` write the rows, one INSERT at a time. `ReceiveDestroy`,
`ListenerReleases`, `ListenerDeletes`, `StreamBreaks` and `StreamResumes` are
the listener.

`Promise` instantiates `OwnedContainers`: the state of a container is its
`status`, its creator is what the label says, a worker is busy when it serves a
request, and serves the caller of that request. Rows, ports, the event stream
and the retries have no counterpart there, so every step that only touches them
has to be a stuttering step of the promise.

### VolumeOwnership

State: `present` and `used` are the daemon's volumes and the ones containers
mount; `rows` is the table; `req[w]` the requests; `cleaner` the goroutine of
`StartCleanup` with its snapshot and its list. A name is [ns, base]: the user
whose prefix it has, or none, and the rest. `InjectVolumeNamePrefix` and
`RewriteVolumeURL` are the two conversions of names; they differ for names that
look like an id (`HexBases`), which an rm forwards as they are. `NamesOf` says which
names each caller uses.

`VolumeCreate`, `ValidateAndRewriteNamedVolumes`, `checkVolumeRemove` and
`handleVolumePrune` are the checks; `DaemonCreates`, `DaemonMounts` and
`DaemonRemoves` the daemon; `RegisterVolume`, `ForgetVolume` and `PruneForget`
the statements. After an rm with force the statement finds no row, because the
name it uses still has the query of the URI. `CleanupSnapshot` to `CleanupDone`
are `runCleanup`, one call or statement each. `fresh` is a history variable.

Left out: the branch of `postprocessResponse` for a privileged volume prune,
which is never reached because `handleVolumePrune` answers every caller; the
owners it keeps for late events (in `EventAttribution`); the clean-up of
empty directories; failing SQL statements.

### PeerNetworks

State: `made`, `live`, `running` and `joined` are the daemon's containers and
the peer networks in their configurations; `name` and `up` its networks; `rows`
the table; `proc[w]` a ctl process or a create with the goroutine it starts.
`calm` is a history variable: it becomes false when two workers overlap or a
call fails.

`AllowNetworkPeer` to `AddNetworkPeer` are an allow: find or create the network,
list and attach containers, write the row. `DenyNetworkPeer` to `DenyDone` are a
deny: read and delete the rows, and for each network inspect, disconnect,
delete. `CreateContainer`, `InjectUserNetwork`, `ReadPeers` and `ConnectNext` are
the parts of a create that deal with peerings. Every call may fail the way the
code treats it: a failed list is an empty one, a failed connect is skipped.

Left out: containers of privileged callers, which are attached by an allow and
not on creation, and the order in which ctl is given the two users, which
becomes part of the name of a container-level network.

### NamedResources

State: `up`, `name` and `attached` are the daemon's networks and swarm resources,
`rows` the tables `networks` and `swarm_*`, `req[w]` the requests and the starts of
listeners. `maker` and `calm` are history variables: whom a resource was made
for; and whether no two requests overlapped, no answer was lost and no
privileged request took one of the paths that leave rows behind. A name is
[form, uid, base]: under a user's prefix, a user's bridge, or bare. A reference
is a name, an id or a short id, and the three are told apart everywhere, since
the code treats them differently in each handler.

`RewriteNetworkURL` and `Targets` are the rewriting and the check of a reference,
`checkCreateContainerNetworks` the networks a new container names, `FindBridge`
to `SetManagedNetworkOwner` `EnsureUserBridge`, `handleNetworkPrune` to
`PruneDone` the two prunes, `SwarmCreate`, `checkSwarmOwner`, `RegisterSwarm` and
`ForgetSwarm` the swarm. `Listed` and `ListedSwarm` are what the response filters
leave in a list. One swarm kind stands for services, secrets and configs, whose
statements and checks are alike.

Left out: iptables; which container is on a network (`attached` says whether any
is); `network_access`, which nothing writes.

### EventAttribution

State: `maps` holds the entries of `pendingBuildTags`, `pendingPullRefs`,
`completedPullOwner`, `completedBuildOwner` and `completedPruneOwner`; `timers`
the armed `AfterFunc` calls; `ops` the requests with what their handlers have left
to do; `events` what the daemon emitted; `reader` an event stream in the middle
of `eventBelongsToUser`. The image tables are those of `ImageTables`.

`Preregistered` is what a handler stores before it forwards, `Program` the order
of its statements and deferred calls afterwards, which depends on what it learnt of
the image: its id, a digest or neither (`Learnt`). A network is removed by name or by
id; the handler looks the word of the URL up as a name, so only the former leaves an
entry (`RemovedNameEntries`). `Lookups` is the lookups an event
goes through, one per step. `TrackBuildKitImages` compares the snapshots before
and after a BuildKit connection; its statements run in one step. Each event
carries, as history, whose it is and whether the handler means to cover it; a
request is `contended` when another one about the same repository, image or name
lingers. The maps are keyed by exactly these, so two such requests do overwrite
each other, and the properties speak of the others.

Left out: prefixed names and containers, decided from the event alone; public
images; the entries of the prune loops, which are like those of rmi.

### Policy and Admission

`Policy` is functions: `Resolve` turns a file into what is denied to whom,
`ClassifyAction`, `OverrideActionByCommand` and `isAuxiliaryCall` find the action of
a request, `isHijackRequest` and `isLongLivedRequest` its path through the proxy
(by endpoint, or by the Upgrade and Connection headers) and its pool. The endpoints
and commands are those the rules tell apart.

`Admission`'s state: `policy`; per connection the client, its process and the
identity found on accept; per connection one request and its stage; `short` and
`stream`, the slots in use. `seen` and `was` are history: the policies in force
and the uids the process had since the request arrived. `Connect` and `Accept`
are two steps because the kernel's credentials and /proc are read at two moments;
`Identify`, `Mark`, `CheckPolicy`, `CheckHijack` and `Dispatch` are the stages.
`Dispatch` stands for the ownership checks of the other modules.

### QuotaRules, ConfigReload and Quotas

`QuotaRules` has `GetQuota` over users, groups and default with 0 for unlimited,
`CheckQuota`, `CheckUpdateQuota`, `injectQuotaLimits` and what a file must satisfy at
start and at reload. A limit may be negative: the checks take such a CPU quota or
memory for "not given" and the daemon for "no limit". The order in which a user's groups are visited is a
constant (`GroupSeq`), since the result depends on it.

`ConfigReload` keeps the two files, what is in force, the modification times the
ticker has noted, and for the ticker and the signal handler where they are and
what they have read. Reading and installing are two steps. The policy file is good,
broken or missing, at start and after each edit. If it is missing when the proxy
begins to watch, there is no ticker at all (`phase` is "unwatched"), and a round
that does not find it does nothing (`Tick`); either way the quota file is not looked
at. `Quotas` adds one request at a time (`ReadUserQuota` and `ReadDefaultQuota` take
the lock twice) and each user's container with its limits. An update changes only
what it names. `cpuWhole` and `memWhole` say of a container whether the check could
read its last setting whole; they and `during` are history.

## 3. Runs

Each property has a mutant in PROJECT.json: a plausible bug in the code that
the run finds.

| Run | Instance | Shows |
|---|---|---|
| `ImageSequential` | one image id, two tags, one request at a time, two users and root, all requests (no ctl) | `OnlyOwnerDeletes`, `RmiRespectsReferences`, `OwnerHasReference`, `NoStaleRows`, `OwnerChangesOnce` |
| `ImageConcurrent` | one image and a digest of it, two requests (pull, create, rmi, prune) at once by a user with and without sudo, a restart at any point, failing lookups, ctl | `WritesKnowImage`, `RegisteredPullVisible`, `PullerMayCreate` in every interleaving of statements |
| `ContainerSequential` | two containers, two ports, one request at a time, quota 1 | `QuotaHolds`, `PortsExclusive`, `NoRowsOfGone`, `RowsReleased` while the event stream stays up |
| `ContainerFaults` | two containers, two requests at once, a regular user and one under sudo, lost answers, a restart, a broken stream | `RowsMatchLabels`, `OwnerKeepsContainer`, and the refinement `KeepsPromise` |
| `Volumes` | two users, one also under sudo, a plain base name and one that looks like an id, each with and without prefixes, one request at a time against the cleaner, lost answers, a restart | `RegularStaysInNamespace`, `OnlyOwnerRemovesVolume`, `CleanupSparesRegistered`; `OrphansCleaned` under fairness |
| `Peers` | three containers of two users, two networks, one user-level and one container-level peering, two workers, every call may fail | `PeersOnly` always; `NetworksMatchRows`, `PeersConnected` while nothing overlaps or fails |
| `Networks` | two networks, two requests at once, a regular user and one under sudo, lost answers | `RowsHonest`, `RegularActsOnOwn`, `MadeIsListed` always; `RowsMatchResources`, `ListedIsUsable` while `calm` |
| `Swarm` | one network and one swarm resource, two users, one also under sudo, lost answers, a restart | `RegularActsOnOwn` always; `RowsMatchResources` while `calm` |
| `Events` | two requests of every kind by three callers over one image, one network and one volume; a pull learns an id, a digest or neither, a network is removed by name or by id | `EventsHidden`, `OwnEventsShown`, `EntriesExpire` |
| `BuildGrants` | two builds over two images and two tags | `TracksOwnTags` is violated; see section 6 |
| `Admission` | two connections (a Unix socket whose client may be a user, sudo, root or a set-uid program; a TCP one), among their requests a `wait` and one with an upgrade header, one slot in each pool, three policy files, processes that change | `TypeOK`, `PolicyGoverns`, `ServedAsItself`; `ShortSlotsFreed` under fairness |
| `Quotas` | one user in two groups, three quota files of which one has a negative number, a policy file that may be good, broken or missing, two edits of it and one of the quota file; creates and two updates, partial and negative ones among them | `TypeOK`, `LimitsWithinQuota`; `PolicyTakesEffect`, `QuotaTakesEffect` under fairness |

Bounds. The properties speak about one image, container or network at a time, or
about two of them; two users and root cover owner, other and privileged caller.
One image with two tags reaches untag versus delete; one image with one digest
reaches every way a row can get under a digest. (A create that bridges a digest onto
an image of another owner needs two users; it is covered by the theorems alone.)
A base name in the namespaces of two users and without prefix gives every volume an owner, a
stranger and a form that has to be rewritten. Three containers are one more
than a container-level peering has, and two networks let both kinds of peering
exist at once or one of them twice. Two network ids let a name be given again
after its network is gone, which is when a stale row could mislead. Two
requests with events are a cause and one that is in its way. Two workers reach every
race between a check and a write, since a race has two parties; three or more
are covered by the proofs, which hold for every set of workers. One restart
and one cut of the stream suffice because a run may place them anywhere. One
slot per pool makes a pool full with one request. `MaxRetries` is the code's own
constant. `EditsApart` keeps the edits of the policy file and the containers apart in
`Quotas`: the two halves share the quota file only, which is edited at any time; the
theorems need no such bound.

Fairness. `FairSpec`, which containers, volumes, admission and quotas have, asks that
the goroutine of a request is scheduled until it
returns and that the daemon answers: each call to it has a timeout, after which
it has failed (`DaemonFails`), so weak fairness of the request's steps is what
Go's scheduler and the transport's timeouts give. For the listener it asks that
its goroutine is scheduled and that it reconnects, which its loop does after
every error; for the cleaner and for the ticker of a reload, that they fire again
and again, which they do until the process ends, and that a reload that has begun
goes on. In `Admission` the daemon is asked to end its answers except the
open-ended ones (`OpenEnded`: wait, logs, stats, attach, exec, grpc, events), which
last as long as a container or a subscription does. No fairness is asked of
callers, of containers that end, of administrators or of the faults.

## 4. Proofs

TLAPS proves, for every set of images, tags, containers, ports, users, callers,
connections, quota files and workers and every value of the bounds, except where a
hypothesis says otherwise:

| Theorem | Statement |
|---|---|
| `ImageOwnershipProofs!TypeCorrect` | `Spec => []TypeOK` |
| `ImageOwnershipProofs!WritesKnowImageAlways` | `Spec => []WritesKnowImage` |
| `ImageOwnershipProofs!RegisteredPullsStayVisible` | `Spec => []RegisteredPullVisible` |
| `ImageOwnershipProofs!PullersMayCreate` | `Spec => []PullerMayCreate` |
| `ImageOwnershipProofs!OwnersAreStable` | `Spec => []OwnerChangesOnce` |
| `ImageOwnershipProofs!OwnersAreReferenced` | one request at a time and no restart imply `Spec => []OwnerHasReference` |
| `ImageOwnershipProofs!RowsFollowImages` | one request at a time, no restart and no ctl grants imply `Spec => []NoStaleRows` |
| `ImageOwnershipProofs!OwnersAloneDelete` | one request at a time and `~LookupMayFail` imply `Spec => OnlyOwnerDeletes` |
| `ImageOwnershipProofs!ReferencesAreRespected` | the same and no ctl grants imply `Spec => RmiRespectsReferences` |
| `ContainerLifecycleProofs!TypeCorrect` | `Spec => []TypeOK` |
| `ContainerLifecycleProofs!RowsAgreeWithLabels` | `Spec => []RowsMatchLabels` |
| `ContainerLifecycleProofs!OwnersKeepTheirContainers` | `Spec => []OwnerKeepsContainer` |
| `ContainerLifecycleProofs!CreatorsAloneRemove` | `~LabelFetchMayFail` implies `Spec => OnlyCreatorRemoves` |
| `ContainerLifecycleProofs!PromiseKept` | `~LabelFetchMayFail` implies `Spec => KeepsPromise` |
| `ContainerLifecycleProofs!QuotasHold` | one request at a time, no restart and no lost answer imply `Spec => []QuotaHolds` |
| `ContainerLifecycleProofs!PortsNeverShared` | the same hypotheses imply `Spec => []PortsExclusive` |
| `ContainerLifecycleProofs!GoneIsForgotten` | one request at a time, no restart and no cut of the stream imply `Spec => []NoRowsOfGone` |
| `VolumeOwnershipProofs!TypeCorrect` | `Spec => []TypeOK` |
| `VolumeOwnershipProofs!RegisteredVolumesSpared` | `Spec => CleanupSparesRegistered` |
| `VolumeOwnershipProofs!RegularCallersStayInNamespace` | `FixedPolicy` implies `Spec => RegularStaysInNamespace` |
| `VolumeOwnershipProofs!OwnersAloneRemoveVolumes` | one request at a time implies `Spec => OnlyOwnerRemovesVolume` |
| `PeerNetworksProofs!TypeCorrect` | `Spec => []TypeOK` |
| `PeerNetworksProofs!OnlyPeersAttached` | `Spec => []PeersOnly` |
| `PeerNetworksProofs!CommandsKeepNetworksAndRows` | `Spec => []NetworksMatchRows` |
| `PeerNetworksProofs!CommandsConnectPeers` | `Spec => []PeersConnected` |
| `NamedResourcesProofs!TypeCorrect` | `Spec => []TypeOK` |
| `NamedResourcesProofs!RowsAreHonest` | `Spec => []RowsHonest` |
| `NamedResourcesProofs!MadeIsAlwaysListed` | `Spec => []MadeIsListed` |
| `NamedResourcesProofs!RegularCallersActOnTheirOwn` | `Spec => RegularActsOnOwn` |
| `NamedResourcesProofs!TablesMatchResources` | `Spec => []RowsMatchResources` |
| `NamedResourcesProofs!ListsAreUsable` | `FixedPolicy` implies `Spec => []ListedIsUsable` |
| `AdmissionProofs!TypeCorrect` | `Spec => []TypeOK` |
| `AdmissionProofs!PolicyAlwaysGoverns` | `Spec => []PolicyGoverns` |
| `AdmissionProofs!AlwaysServedAsItself` | `Spec => []ServedAsItself` |
| `QuotasProofs!TypeCorrect` | `Spec => []TypeOK` |
| `QuotasProofs!LimitsAlwaysWithinQuota` | `Spec => []LimitsWithinQuota` |
| `QuotasProofs!HighestGroupWins` | where no group entry is 0, `GetQuota` is the maximum of the default and the entries of the user's groups |
| `EventAttributionProofs!TypeCorrect` | `Spec => []TypeOK` |
| `EventAttributionProofs!EntriesAlwaysExpire` | `Spec => []EntriesExpire` |
| `EventAttributionProofs!EventsAlwaysHidden` | `Spec => []EventsHidden` |
| `EventAttributionProofs!OwnEventsAlwaysShown` | `Spec => []OwnEventsShown` |

The assumptions on constants (`UidsAssumption`, `ConfigAssumption`, `ImageAssumption`,
`ContainerAssumption`, `VolumeAssumption`, `PeerAssumption`, `ResourceAssumption`,
`SlotsAssumption`, `ClientsAssumption`, `GroupsAssumption`, `UnitsAssumption`,
`FilesAssumption`, `RequestsAssumption`, `CallersAssumption`, `KeysAssumption`) only say
that ids of different sorts differ from each other and from the placeholders, that
a digest stands for one image id, that
callers are identities, that files and requests have the form the code reads, and that
bounds are numbers. TLC evaluates them on every
run. The type invariants of `Admission` and `Quotas` are listed with their runs,
because they say more than types: the semaphores count the requests that hold a
slot, and no negative default is ever in force. The other type invariants are
proved and not listed with the runs.

Images. The inductive invariant `IInv` is `TypeOK /\ WritesKnowImage`: the type
of `takeovers` and of the rows depends on a request about to write knowing an
image and, for an insert, coming from an operation that is a legal `source`.
`RegisteredPullVisible` is inductive on top of it: only `RegisterAccess` adds to
`answered`, after an upsert whose MIN rule leaves a non-sudo caller at
"plain"; no other statement raises a row, and the two that remove rows remove
the history with them. `PullerMayCreate` follows from it: the row, under the id or
under a digest, is what the check of a create or its bridge looks for.
`OwnerChangesOnce` is inductive too: a row changes hands
only when its source changes from "build" to "pull", and a "pull" row never
does.

The other four need one request at a time (`OneAtATime`), and each has a layer of
its own on top of `IInv`. `OwnersKept` says at every step which request still has to
write the missing reference or to delete the row; a restart between the two
statements of `SetImageOwner` and `EnsureImageAccess` breaks it. `PresentInv` says
that tags and requests about to write stand for images that exist, and that the rows
under the id of an image that does not exist are about to be removed by the request at work; a ctl
grant between the two statements of `DeleteImage` leaves an access row for good,
which is why there is none. `DeletesEntitled` and `RmiChecked` carry the checks of
rmi and prune to the daemon's step: nothing moves the tag or changes the row in
between, and a lookup that fails would have been taken for an absent image.

Containers. `IInv` is `TypeOK`, `RowsMatchLabels` and `RequestsSound`. The
last one says what a request in flight knows: a request about to register a
container holds the container whose label it wrote; a forwarded rm or start of a
regular user names a container he made; a prune list holds only containers its
owner made. It is needed because rows are written and containers started and
removed several steps after the check, and it is preserved because labels never
change and container ids are never reused (`Stable` collects what every step
leaves alone). `OwnerKeepsContainer` follows from `RowsMatchLabels`, and
`OnlyCreatorRemoves` from `RequestsSound`.

The refinement shows step by step that `IInv /\ [Next]_vars` is a step of
`Promise!Next` or leaves its variables alone. `FinishReturns` and `GoesOn` say
what the ends and the continuations of a request are there; `ArrivePromised`,
`DaemonPromised` and `WritePromised` take the requests that arrive, the daemon's
steps (where `RequestsSound` gives `Entitled`) and the proxy's own statements;
the rest are ends of containers, a crash, and steps of the listener, which stutter.

For one request at a time, `RequestsOrderly` says what a request knows of its
container while nobody else is at work (about to register: it is stopped and has
his label and his ports; about to forget: it is gone), and `EventsTrue` that the
listener only hears of containers that are gone. The listener runs beside the
request in all of this. `Accounted` (every container has a row or its create is
about to write it) makes the count of rows that the quota check reads a bound on the
containers, and `QuotaInv` carries "fewer than the maximum" from the check to the
create; it also needs that only finitely many containers were ever made. `PortsKept`
does the same for the ports: each port of a container is recorded for it or about
to be, and those of a create under way are recorded for nobody. `Heard` says that
every row of a container that is gone has its event in the stream or in the
listener's hands. Restarts, lost answers and a cut stream break exactly these, and
are excluded where they do.

Volumes. `IInv` is `TypeOK` and `StepsKnowVolume` (a step that needs a volume has
one). The clean-up needs `SecondLook` on top: between its second look at the
table and the removal, the volume in hand has no row unless `fresh` says that one
was written since. The namespaces need `RowsInNamespace` (the rows of a user who
is not privileged are under his prefix) and `Contained` (so are the volumes his
requests hold). The hypothesis is really needed: a user who is privileged by the
configuration in one request and regular in the next has rows outside his prefix, and
his regular requests act on what they name. A name that looks like an id is excepted
in the property itself, and for an rm only. `OnlyOwnerRemovesVolume` rests on `RequestsOwn` (what an rm or a prune is about
to remove is the caller's or has no row): the cleaner only deletes rows
(`RowsOnlyGo`), so with one request at a time nobody gives such a volume a new owner.

Peerings. `IInv` is `TypeOK`, `RowsNamed` (the network of a row has the row's
name), `PeersOnly` and `WorkersSound` (a create holds networks its container
belongs to, an allow holds containers that belong to its network). It is
preserved because network ids are never reused and keep their names
(`WorkerStep`), however stale what a worker read has become. The two properties of
calm histories need `CalmInv`: while the only command so far at work is that of `w`,
the networks that the table does not name are the one his allow has made and those
his deny is about to delete (`Undisturbed`, step by step), and every container is
attached to the networks of its user's peerings (`Served`).

Networks and swarm resources. `IInv` is `TypeOK`, `RequestsSound`, `UpNamed` (what
exists has a name), `RowsSound` (the owner of a row made the resource or its name
is his) and `NamesOwn` (a network that a regular caller made has his prefix). The
tables and the daemon change between the check of a request and the step of the
daemon, so `RequestsSound` carries what the check established along: the id in
hand was made for the caller or has a name of his (`Touchable`), or it is a name
that only such a resource can have (`SafeRef`). It survives because an id gets
its name and its maker once (`Stable`). `TargetsSafe` is the check itself,
`ServedIsOwn` the daemon's steps. `TablesMatchResources` needs `CalmInv`: the
difference between the tables and what exists is the one that the request at work is
about to settle (`Settled`), and names of networks are unique (`Distinct`).
`ListsAreUsable` needs `OriginInv` besides (a row that is not marked sudo was made
without sudo by its owner, or is his bridge), and that nobody is privileged by the
configuration now and regular later: what he made then has a name without his prefix,
is on his list, and cannot be addressed by him.

Admission. `IInv` is the types, `Pools` (each semaphore counts the requests that hold
one of its slots, which needs the cardinality of a set with one element more or less)
and `RequestsSound`: each stage adds what it has checked to what the request knows
(the process matched the identity at some moment, one of the policies seen gave the
privilege, one of them did not deny the action), in terms of the sets of policies and
processes the request has lived through, so that a reload never takes it back.

Quotas. `GetQuota` is a recursive function over a user's groups. That it returns
numbers, and the maximum where no entry lifts the limit, is shown by an induction
over their number, stated with sets (`InductionOverNat`) since the library's rule has
an operator parameter. `CreateFits` and `CheckUpdateQuota` are then followed through
the arithmetic of CPU shares (`effectiveCPUNanos`); `Staged` says at each stage of a
request that its quota comes from a file in force since it began. `AllWithin` is
`LimitsWithinQuota` step by step: an update that names nothing of the CPU or of the
memory leaves that setting and the file it was judged by alone, and one that the check
and the daemon read differently (section 6) ends its claim until a whole one comes.

Events. `EntriesExpire` is inductive with `OpsSound`: what is left of a handler fits its
kind, and for the kinds that clear what they registered it waits for the daemon or
ends in the deferred "clear"; so an entry loses its handler only when that handler
has removed it or handed it to a timer, and an overwritten entry is no longer there
to be removed.

`EventsHidden` and `OwnEventsShown` are one statement in the proof: when the lookups
of a covered event have come to a verdict, it is exactly `ShownTo`. They need a second
invariant on top of the first. `ShapeInv` says what is left of a handler of each kind,
in which order (`OpsShaped`), that a timer and an event belong to an operation whose
daemon step is behind it and carry its names and its caller (`TimersOwn`, `EventsFit`).
`SafeInv` is the argument itself:

- `Apart`: an operation that is not contended has its repository, image or name to
  itself among those at work and the timers still armed;
- `Mine`: so an entry under one of its names was stored with its caller;
- `Ready`: what it registered before the daemon's step is still there when the daemon
  acts;
- `EventsSafe`: while its event is on its way or being read, an entry or a row tells
  whose it is, for each kind at each step (a pull has its pending entry until the
  completed one is stored, and is not covered if it learns neither id nor digest; an
  rmi has the image's row until the completed entry is
  stored; a create has its entry until its row is written; a removal
  by name has its row until its entry is stored);
- `Gone`: nothing tags a removed image again while its event is out;
- `ReaderSafe`: the lookups that a reader has left come upon that entry or row,
  although the handler may move it between two of them. This is where the order of the
  lookups matters: for images the pending maps are read before the completed ones and
  the handler stores before it clears; for a create the map is read before the table
  and the row is written before the entry is cleared.

`NextSafe` goes through the steps: arrivals (`BeginSafe`), the steps of a handler and
the daemon (`OpSafe`, split into the operation's own event and those of others), timers
(`TimerSafe`) and the reader (`LookupsSafe`, `ReaderSafeStep`).

Only model-checked: `TracksOwnTags`, which is violated, and the liveness properties
(`RowsReleased`, `OrphansCleaned`, `ShortSlotsFreed`,
`PolicyTakesEffect`, `QuotaTakesEffect`), which are outside the prover's reach. Every
invariant and every action property of a passing run is stated by a theorem, under the
hypotheses of the table above.

## 5. Plan

What is left, most useful first: the wait of rmi for a BuildKit build
(`pendingBuilds`), the rotation of the audit log under concurrent writers, and
abstract specifications for images and volumes like `OwnedContainers`.

## 6. Where the code and its documents disagree

`BuildGrants` ends in a violation: the comment at proxy.go:4481 says that only
images of the tags -t names are attributed, but `trackBuildKitImages` (proxy.go:4533)
gives its caller access to every tagged image of another owner.

The same modules show more disagreements when a constant of a passing run is
changed, or an exception that a property makes is dropped. These contradict a
document or a comment:

* `ReferencesProtect` (in `ImageOwnership`, with `ImageSequential`'s constants): README.md:383
  says reference counts protect images that others still use; the count is
  consulted for public images only (proxy.go:1617).
* A regular pull after a sudo pull makes the image visible again (ownership.go:412);
  it does not when the proxy answers the pull itself, because `EnsureImageAccess`
  (proxy.go:1706) leaves an existing row as it is. `RegisteredPullVisible` speaks of
  pulls that reached the daemon.
* `RowsReleased` with `MaxCuts = 1`: docs/design.md:550 says port records are cleared
  when the container is deleted; they stay for good if the destroy event was
  missed and the rm was by name.
* `OnlyCreatorRemoves` and `KeepsPromise` with `LabelFetchMayFail = TRUE`: "refuse when
  the container cannot be looked up" (proxy.go:5209) is not what happens for rm,
  stop, kill, pause and unpause (proxy.go:5204).
* `NoStaleVolumeRows` (in `VolumeOwnership`): the row of a volume is deleted after a
  successful rm (proxy.go:3527), but not after an rm with force, whose name still
  has the query of the URI.
* `ShortSlotsFreed` without `Waiting`: `docker wait` holds a slot of the short pool
  (proxy.go:4209) although proxy.go:499-500 keeps long connections out of it. The run
  has such requests and the property excepts them by name.
* `LimitsWithinQuota` without `cpuWhole` and `memWhole`: an update that names only a CPU
  period is let through unchecked (quota.go:627) and raises the share of the
  container above the quota proxy.go:1247 means to enforce; one that names only a
  CPU quota is judged by the default period and not by the container's; a negative
  CPU quota or memory is not checked (quota.go:182, 640) and means no limit to the
  daemon. The run has all of these, and the property excepts the container until the
  next whole update.
* `HighestGroupWins` without its hypothesis: quota.go:248 and 249 say that the highest of
  several groups wins and an entry 0 lifts the limit for good, but a group
  visited after such an entry sets the limit to its own, even below the default
  (`Raised`).

These are races the sequential runs exclude: `OnlyOwnerDeletes` with
`LookupMayFail = TRUE` (a failed lookup is taken for an absent image) and with two
workers and two images (the tag moves between the check and the delete);
`QuotaHolds` with two workers (two creates at once exceed `max_containers`);
`OwnerHasReference` with `MaxRestarts = 1` (a crash between the statements of
`SetImageOwner`); `PortsExclusive` with two workers (the port is recorded after the
create); `NoRowsOfGone` with two workers (a destroy event overtakes the
registration). A create whose answer is lost is sent again (`DaemonCreates` with
`attempt > 0`) although the comment at proxy.go:2042 speaks of 502 and 503 only.

Volumes: with two workers a volume that exists and has no row yet can be removed
by the clean-up, and the row that the clean-up deletes afterwards may be that of
a volume created anew (storage.go:303); the second look takes a failed query for
"no row". A container that mounts a name which already has the user's prefix
creates the volume without a row, and the clean-up removes it once the container
is gone. A name that looks like an id (`HexBases`) is checked with the prefix and
forwarded by an rm without it, so that a regular user's rm reaches the volume of
that bare name; both properties about removal except it.

Images: a row that a failed lookup put under a digest (proxy.go:3043) is not removed
with the image, because the delete goes by the image's id; `NoStaleRows` speaks of ids.
A later create from repo@digest finds it and takes an image without owner over.

Peerings: a container created between the listing of an allow and its row is
never attached; a container attached between the inspection and the deletion of
a deny keeps the network alive after its row is gone; an allow that dies before
its last statement leaves a network no deny knows; two allows at once can make
two networks and record one. All of these are behaviours of `PeerNetworks` with
`calm` false. A container that was stopped during a deny keeps the deleted
network in its configuration and cannot be started (`StartContainer`,
netbridge.go:178), which the comment at netbridge.go:174 means to prevent.

Networks and swarm: a privileged `network prune` leaves the rows of what it
removed (`DaemonPrunes`); a short id is refused to the owner and, from a
privileged caller, leaves the row (`ForgetNetwork`); a container create that names
a network by id is checked by id and forwarded with a prefix before the id
(`checkCreateContainerNetworks`); swarm resources cannot be addressed by name by
their owner, and a privileged rm by name leaves the row; a regular prune takes the
caller's own bridge too. `SetNetworkShared` has no caller, although design.md:344
says that a peer allow writes `network_access`.

Events: the deferred CompareAndDelete of an rmi (proxy.go:833) removes the entry
that was to stay for 30 seconds when the values are equal, contrary to
proxy.go:818, so the event of an image that was not tracked when its rmi arrived is
not `covered`; the entry of a BuildKit build whose tag did not change, or was
written without ":latest", stays for ever, which `EntriesExpire` excepts; a new image
without a tag is taken by whichever BuildKit build ends next (proxy.go:4556); the
creation of a bare network and the removal of a bare volume have a gap as wide as
one lookup (proxy.go:2248), which is why their events are not `covered`; nor is the
removal of a sudo network by id, since proxy.go:3425 looks the id up as a name, finds
no row and stores no entry, nor a pull that learns neither id nor digest, which
stores its completed entry only inside the condition at proxy.go:3046.

Admission: a set-uid root program without a login uid is taken for sudo on accept
(identity.go:393) and refused at every request, since the re-check expects another
real uid; a sudo process that has exited before the proxy reads /proc is resolved
as root (identity.go:411); privilege and denial are read at two moments
(proxy.go:603, 642), so a reload in between can yield a decision that neither
policy gives, which is why `PolicyGoverns` asks of each that one of them gives it;
a hijacked connection whose client left waits for a silent daemon (proxy.go:4455
against the comment at 4441); the entries of `cmdTargetActions` for service, secret,
config, swarm, node and stack are unreachable, because `compoundGroups` lacks them.

Reload and quotas: without a policy file at start the ticker never runs
(main.go:281, 330), so a policy or quota file saved later waits for SIGHUP; a round
whose Stat of the policy file fails skips the quota file too (main.go:287-291), so
does one whose policy does not load; `PolicyTakesEffect` and `QuotaTakesEffect` state
both conditions. SIGHUP may install an older read over a newer one, and an edit
between the first load and the first look at the modification time is never
noticed; `raced` excepts both (config/policy.yaml:55 promises that changes take
effect at once). The result of `GetQuota` depends on the order of a user's groups
(quota.go:265), whereas its comment says that a group set to 0 overrides all;
`LoadQuotaManager` accepts negative numbers for users that `Reload` refuses
(quota.go:213); a storage size in K is taken for 0 and not checked.

## 7. Not modelled

* The audit and operation logs: their contents and queries are text that no other
  part reads; the rotation of the files is in the plan.
* Deployment scripts: they install files and have no protocol.
* The formatting and rewriting of answers, beyond which resources a list shows and
  under which name; parsing of /proc, YAML, JSON and URLs, of which the modules
  keep the distinctions that matter (a name, an id, a short id; a size that is
  given or not; a file that parses or not).
* iptables, bind mounts, devices, tmpfs and volumes-from: checks that only refuse a
  request or rewrite it without leaving state.
* Flags, sockets and the start of goroutines; the reuse of a pid by another process.
