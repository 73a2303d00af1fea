------------------------ MODULE NamedResourcesProofs ------------------------
(***************************************************************************)
(* Proofs about NamedResources, for every set of networks, swarm           *)
(* resources, names, callers and workers, any number of restarts, lost     *)
(* answers and stale rows.                                                 *)
(*                                                                         *)
(* An id is given a name and a maker once.  What the check of a request    *)
(* found out about an id, or about the user a name belongs to, therefore   *)
(* still holds when the daemon acts on it, whatever the tables say then.   *)
(***************************************************************************)
EXTENDS NamedResources, TLAPS

USE UidsAssumption, ResourceAssumption

NameOf(m, u) == m \in Names /\ m.form \in {"user", "bridge"} /\ m.uid = u

\* n was made for u or has a name of his, under the names nm and the makers mk
Touchable(n, u, nm, mk) == n \in Ids /\ nm[n] # NoName /\ (mk[n].uid = u \/ NameOf(nm[n], u))

SafeRef(ref, u, nm, mk) ==
    \/ ref.by = "name" /\ (ref.name = NoName \/ NameOf(ref.name, u))
    \/ ref.by = "id" /\ Touchable(ref.n, u, nm, mk)

Addressed == {"rm", "connect", "disconnect", "container"}
Bridging == {"findBridge", "createBridge", "manage"}

\* What request r may rely on
Sound(r, nm, mk) ==
    /\ r.pc = "register" => r.n \in Ids /\ nm[r.n] # NoName /\ mk[r.n].uid = r.id.uid
    /\ r.pc \in Bridging =>
          r.op \in {"container", "listener"} /\ ~IsPrivileged(r.id) /\ r.id.uid \in Users
    /\ r.pc = "manage" => r.n \in NetIds /\ nm[r.n] = BridgeName(r.id.uid)
    /\ r.pc = "forward" /\ r.op = "create" =>
          /\ r.ref.name \in Names
          /\ r.kind = "network" /\ ~IsPrivileged(r.id) => NameOf(r.ref.name, r.id.uid)
    /\ r.pc = "forward" /\ r.op = "prune" => IsPrivileged(r.id)
    /\ ~IsPrivileged(r.id) /\ r.op \in Addressed => SafeRef(r.ref, r.id.uid, nm, mk)
    /\ ~IsPrivileged(r.id) => \A n \in r.todo : Touchable(n, r.id.uid, nm, mk)

RequestsSound == \A w \in Workers : Sound(req[w], name, maker)
UpNamed == \A n \in up : name[n] # NoName
RowsSound == \A n \in Ids : rows[n].found => Touchable(n, rows[n].owner, name, maker)
\* a network that a regular caller made is under his prefix
NamesOwn ==
    \A n \in NetIds : name[n] # NoName /\ ~IsPrivileged(maker[n]) => NameOf(name[n], maker[n].uid)

IInv == TypeOK /\ RequestsSound /\ UpNamed /\ RowsSound /\ NamesOwn

\* What no step undoes
Stable == \A n \in Ids : name[n] # NoName => name'[n] = name[n] /\ maker'[n] = maker[n]

-----------------------------------------------------------------------------
(* Types. *)

LEMMA IdleTypes ==
    /\ IdleRequest \in Requests
    /\ Root \in Identities /\ IsPrivileged(Root)
    /\ NoRow \in Rows
    /\ NoRef.by = "name" /\ NoRef.name = NoName
BY DEF IdleRequest, Requests, Root, Identities, Modes, IsPrivileged, NoRow, Rows, NoRef, ByName

LEMMA IdleSound == ASSUME NEW nm, NEW mk PROVE Sound(IdleRequest, nm, mk)
BY IdleTypes DEF Sound, IdleRequest, Bridging, Addressed

LEMMA NameCases ==
    ASSUME NEW m \in Names
    PROVE  \/ \E u \in Users, b \in Bases : m = UserName(u, b)
           \/ \E u \in Users : m = BridgeName(u)
           \/ \E b \in Bases : m = BareName(b)
BY DEF Names

LEMMA NamesMade ==
    /\ \A u \in Users, b \in Bases : UserName(u, b) \in Names /\ NameOf(UserName(u, b), u)
    /\ \A u \in Users : BridgeName(u) \in Names /\ NameOf(BridgeName(u), u)
<1>1. \A u \in Users, b \in Bases : UserName(u, b) \in Names
  BY DEF Names
<1>2. \A u \in Users : BridgeName(u) \in Names
  BY DEF Names
<1>3. \A u, b : UserName(u, b).form = "user" /\ UserName(u, b).uid = u
  BY DEF UserName
<1>4. \A u : BridgeName(u).form = "bridge" /\ BridgeName(u).uid = u
  BY DEF BridgeName
<1> QED  BY <1>1, <1>2, <1>3, <1>4 DEF NameOf

LEMMA RefCases ==
    ASSUME NEW S \in SUBSET Ids, NEW ref \in Refs(S)
    PROVE  /\ ref \in Refs(Ids)
           /\ \/ ref.by = "name" /\ ref.name \in Names /\ ref = ByName(ref.name)
              \/ ref.by = "id" /\ ref.n \in S
              \/ ref.by = "short" /\ ref.n \in S
BY DEF Refs, ByName, ById, ByShortId

LEMMA InitIInv == Init => IInv
<1> SUFFICES ASSUME Init PROVE IInv
  OBVIOUS
<1>1. TypeOK
  BY IdleTypes DEF Init, TypeOK
<1>2. RequestsSound
  BY IdleSound DEF Init, RequestsSound
<1>3. UpNamed /\ RowsSound /\ NamesOwn
  BY DEF Init, UpNamed, RowsSound, NoRow, NamesOwn, Ids
<1> QED  BY <1>1, <1>2, <1>3 DEF IInv

-----------------------------------------------------------------------------
(* Frames: what a step on one request leaves true of the others. *)

LEMMA TouchableStays ==
    ASSUME Stable, NEW n, NEW u, Touchable(n, u, name, maker)
    PROVE  Touchable(n, u, name', maker')
BY DEF Stable, Touchable

LEMMA SafeRefStays ==
    ASSUME Stable, NEW ref, NEW u, SafeRef(ref, u, name, maker)
    PROVE  SafeRef(ref, u, name', maker')
BY TouchableStays DEF SafeRef

LEMMA SoundStays ==
    ASSUME Stable, NEW r \in Requests, Sound(r, name, maker)
    PROVE  Sound(r, name', maker')
<1>1. r.pc = "register" => r.n \in Ids /\ name'[r.n] # NoName /\ maker'[r.n].uid = r.id.uid
  BY DEF Sound, Stable
<1>2. r.pc = "manage" => r.n \in NetIds /\ name'[r.n] = BridgeName(r.id.uid)
  <2> SUFFICES ASSUME r.pc = "manage"
               PROVE  r.n \in NetIds /\ name'[r.n] = BridgeName(r.id.uid)
    OBVIOUS
  <2>1. r.n \in NetIds /\ name[r.n] = BridgeName(r.id.uid) /\ r.id.uid \in Users
    BY DEF Sound, Bridging
  <2>2. name[r.n] # NoName
    BY <2>1, NamesMade
  <2> QED  BY <2>1, <2>2 DEF Stable, Ids
<1>3. ~IsPrivileged(r.id) /\ r.op \in Addressed => SafeRef(r.ref, r.id.uid, name', maker')
  BY SafeRefStays DEF Sound
<1>4. ~IsPrivileged(r.id) => \A n \in r.todo : Touchable(n, r.id.uid, name', maker')
  BY TouchableStays DEF Sound
<1> QED  BY <1>1, <1>2, <1>3, <1>4 DEF Sound

\* A step that replaces one request by a sound one keeps all requests sound.
LEMMA RequestStep ==
    ASSUME IInv, Stable, NEW w \in Workers, NEW r \in Requests,
           req' = [req EXCEPT ![w] = r], Sound(r, name', maker')
    PROVE  req' \in [Workers -> Requests] /\ RequestsSound'
<1>1. req \in [Workers -> Requests]
  BY DEF IInv, TypeOK
<1>2. ASSUME NEW v \in Workers PROVE Sound(req'[v], name', maker')
  <2>1. CASE v = w
    BY <1>1, <2>1
  <2>2. CASE v # w
    <3>1. req'[v] = req[v] /\ req[v] \in Requests
      BY <1>1, <2>2
    <3>2. Sound(req[v], name, maker)
      BY DEF IInv, RequestsSound
    <3> QED  BY <3>1, <3>2, SoundStays
  <2> QED  BY <2>1, <2>2
<1> QED  BY <1>1, <1>2 DEF RequestsSound

LEMMA FinishStep ==
    ASSUME IInv, Stable, NEW w \in Workers, Finish(w)
    PROVE  req' \in [Workers -> Requests] /\ RequestsSound'
BY IdleTypes, IdleSound, RequestStep DEF Finish

\* A request that goes on keeps its caller and its reference; its list shrinks.
LEMMA ContinueStep ==
    ASSUME IInv, Stable, NEW w \in Workers, NEW r \in Requests,
           req' = [req EXCEPT ![w] = r],
           r.id = req[w].id, r.op = req[w].op, r.ref = req[w].ref,
           IsPrivileged(r.id) \/ r.todo \subseteq req[w].todo,
           r.pc = "register" => r.n \in Ids /\ name'[r.n] # NoName /\ maker'[r.n].uid = r.id.uid,
           r.pc = "manage" => r.n \in NetIds /\ name'[r.n] = BridgeName(r.id.uid),
           r.pc \in Bridging \cup {"forward"} => req[w].pc \in Bridging
    PROVE  req' \in [Workers -> Requests] /\ RequestsSound'
<1>1. req[w] \in Requests /\ Sound(req[w], name, maker)
  BY DEF IInv, TypeOK, RequestsSound
<1>2. Sound(req[w], name', maker')
  BY <1>1, SoundStays
<1>3. Sound(r, name', maker')
  BY <1>2 DEF Sound, Bridging
<1> QED  BY <1>3, RequestStep

LEMMA SameNames == ASSUME UNCHANGED <<name, maker>> PROVE Stable
BY DEF Stable

LEMMA RowsKept == ASSUME IInv, Stable, UNCHANGED rows PROVE rows' \in [Ids -> Rows] /\ RowsSound'
BY TouchableStays DEF IInv, TypeOK, RowsSound

LEMMA RowDeleted ==
    ASSUME IInv, Stable, NEW n, DeleteRow(n)
    PROVE  rows' \in [Ids -> Rows] /\ RowsSound'
<1>1. CASE n \notin Ids
  BY <1>1, RowsKept DEF DeleteRow
<1>2. CASE n \in Ids
  <2>1. rows' = [rows EXCEPT ![n] = NoRow] /\ rows \in [Ids -> Rows]
    BY <1>2 DEF DeleteRow, IInv, TypeOK
  <2>2. ~NoRow.found
    BY DEF NoRow
  <2>3. \A k \in Ids : rows'[k].found => k # n /\ rows'[k] = rows[k]
    BY <2>1, <2>2
  <2>4. RowsSound'
    BY <2>3, TouchableStays DEF IInv, RowsSound
  <2> QED  BY <2>1, <2>4, IdleTypes
<1> QED  BY <1>1, <1>2

LEMMA RowWritten ==
    ASSUME IInv, Stable, NEW n \in Ids, NEW u \in Uids, NEW s \in BOOLEAN, SetOwner(n, u, s),
           Touchable(n, u, name', maker')
    PROVE  rows' \in [Ids -> Rows] /\ RowsSound'
<1> DEFINE row == [found |-> TRUE, owner |-> u, sudo |-> s]
<1>1. rows' = [rows EXCEPT ![n] = row] /\ rows \in [Ids -> Rows] /\ row \in Rows /\ row.owner = u
  BY DEF SetOwner, IInv, TypeOK, Rows
<1> HIDE DEF row
<1>2. ASSUME NEW k \in Ids, rows'[k].found PROVE Touchable(k, rows'[k].owner, name', maker')
  <2>1. CASE k = n
    BY <1>1, <2>1
  <2>2. CASE k # n
    <3>1. rows'[k] = rows[k]
      BY <1>1, <2>2
    <3>2. Touchable(k, rows[k].owner, name, maker)
      BY <1>2, <3>1 DEF IInv, RowsSound
    <3> QED  BY <3>1, <3>2, TouchableStays
  <2> QED  BY <2>1, <2>2
<1> QED  BY <1>1, <1>2 DEF RowsSound

LEMMA StepCalm == ASSUME NEW w, NEW ok, Step(w, ok) PROVE calm' \in BOOLEAN
BY DEF Step

LEMMA MakesStep ==
    ASSUME IInv, NEW w \in Workers, NEW n \in Ids, NEW m \in Names, Makes(w, n, m)
    PROVE  /\ Stable
           /\ n \in Of(req[w].kind)
           /\ up' \subseteq Ids /\ attached \subseteq up' \cap NetIds
           /\ name' \in [Ids -> Names \cup {NoName}] /\ name'[n] = m /\ m # NoName
           /\ maker' \in [Ids -> Identities] /\ maker'[n] = req[w].id
           /\ UpNamed'
           /\ (n \in NetIds /\ ~IsPrivileged(req[w].id) => NameOf(m, req[w].id.uid)) => NamesOwn'
<1>1. req[w].id \in Identities
  BY DEF IInv, TypeOK, Requests
<1>2. /\ n \in Of(req[w].kind)
      /\ up' \subseteq Ids /\ attached \subseteq up' \cap NetIds
      /\ name' \in [Ids -> Names \cup {NoName}] /\ name'[n] = m /\ m # NoName
      /\ maker' \in [Ids -> Identities] /\ maker'[n] = req[w].id
      /\ UpNamed'
  BY <1>1 DEF Makes, IInv, TypeOK, UpNamed
<1>3. \A k \in Ids : k # n => name'[k] = name[k] /\ maker'[k] = maker[k]
  BY DEF Makes, IInv, TypeOK
<1>4. Stable
  BY <1>3 DEF Makes, Stable
<1>5. ASSUME n \in NetIds /\ ~IsPrivileged(req[w].id) => NameOf(m, req[w].id.uid)
      PROVE  NamesOwn'
  <2>1. ASSUME NEW k \in NetIds, name'[k] # NoName, ~IsPrivileged(maker'[k])
        PROVE  NameOf(name'[k], maker'[k].uid)
    <3>1. CASE k = n
      BY <1>2, <1>5, <2>1, <3>1
    <3>2. CASE k # n
      BY <1>3, <2>1, <3>2 DEF IInv, NamesOwn, Ids
    <3> QED  BY <3>1, <3>2
  <2> QED  BY <2>1 DEF NamesOwn
<1> QED  BY <1>2, <1>4, <1>5

\* Putting the parts of the invariant together, for a step that makes nothing
LEMMA Assemble ==
    ASSUME IInv, UNCHANGED <<name, maker, restarts>>, calm' \in BOOLEAN,
           req' \in [Workers -> Requests] /\ RequestsSound',
           rows' \in [Ids -> Rows] /\ RowsSound',
           up' \subseteq up, attached' \subseteq up' \cap NetIds
    PROVE  IInv'
BY DEF IInv, TypeOK, UpNamed, NamesOwn

-----------------------------------------------------------------------------
(* Requests arrive. *)

AllOps == {"create", "rm", "connect", "disconnect", "container", "listener", "prune"}

LEMMA BeginStep ==
    ASSUME IInv, NEW w \in Workers, NEW r \in Requests, Begin(w, r), Sound(r, name, maker)
    PROVE  IInv' /\ Stable
<1>1. UNCHANGED <<up, name, attached, rows, maker, restarts>> /\ calm' \in BOOLEAN /\ Stable
  BY StepCalm, SameNames DEF Begin
<1>2. req' \in [Workers -> Requests] /\ RequestsSound'
  <2>1. Sound(r, name', maker')
    BY <1>1
  <2> QED  BY <1>1, <2>1, RequestStep DEF Begin
<1>3. rows' \in [Ids -> Rows] /\ RowsSound'
  BY <1>1, RowsKept
<1>4. up' \subseteq up /\ attached' \subseteq up' \cap NetIds
  BY <1>1 DEF IInv, TypeOK
<1> QED  BY <1>1, <1>2, <1>3, <1>4, Assemble

LEMMA ForwardIs ==
    ASSUME NEW op \in AllOps, NEW kind \in {"network", "swarm"}, NEW id \in Identities,
           NEW ref \in Refs(Ids) \cup {NoRef}
    PROVE  LET r == Forward(op, kind, id, ref)
           IN  /\ r \in Requests
               /\ r.pc = "forward" /\ r.op = op /\ r.id = id /\ r.ref = ref /\ r.todo = {}
               /\ r.kind = kind
BY IdleTypes DEF Forward, IdleRequest, Requests, AllOps

LEMMA ForwardSound ==
    ASSUME NEW op \in AllOps, NEW kind \in {"network", "swarm"}, NEW id \in Identities,
           NEW ref \in Refs(Ids) \cup {NoRef},
           op = "create" => ref.name \in Names,
           op = "create" /\ kind = "network" /\ ~IsPrivileged(id) => NameOf(ref.name, id.uid),
           op = "prune" => IsPrivileged(id),
           ~IsPrivileged(id) /\ op \in Addressed => SafeRef(ref, id.uid, name, maker)
    PROVE  Sound(Forward(op, kind, id, ref), name, maker)
BY ForwardIs DEF Sound, Bridging

LEMMA Injected ==
    ASSUME NEW id \in Callers, ~IsPrivileged(id), NEW m \in Names, m.form # "bridge"
    PROVE  LET p == InjectNetworkNamePrefix(id, m) IN p \in Names /\ NameOf(p, id.uid)
<1>1. id.uid \in Users
  OBVIOUS
<1>2. m.base \in Bases
  BY NameCases DEF UserName, BridgeName, BareName
<1> QED  BY <1>1, <1>2, NamesMade DEF InjectNetworkNamePrefix

LEMMA OwnedTouchable ==
    ASSUME IInv, NEW n, NEW u, OwnedBy(n, u)
    PROVE  n \in Ids /\ Touchable(n, u, name, maker)
BY DEF IInv, RowsSound, OwnedBy, IsRegistered

\* What a request of a regular caller is forwarded to is his.
LEMMA TargetsSafe ==
    ASSUME IInv, NEW id \in Callers, NEW ref \in Written(id, NetIds), NEW t \in Targets(id, ref)
    PROVE  t \in Refs(Ids) /\ (~IsPrivileged(id) => SafeRef(t, id.uid, name, maker))
<1> DEFINE r == RewriteNetworkURL(id, ref)
<1>0. ref \in Refs(NetIds) /\ NetIds \in SUBSET Ids
  BY DEF Written, Ids
<1>1. CASE IsPrivileged(id)
  <2>1. t = ref
    BY <1>1 DEF Targets, RewriteNetworkURL
  <2> QED  BY <1>0, <1>1, <2>1, RefCases
<1>2. CASE ~IsPrivileged(id) /\ ref.by # "name"
  <2>1. t = ref /\ ref.by = "id" /\ OwnedBy(ref.n, id.uid)
    BY <1>2 DEF Targets, RewriteNetworkURL
  <2> QED  BY <1>0, <2>1, RefCases, OwnedTouchable DEF SafeRef
<1>3. CASE ~IsPrivileged(id) /\ ref.by = "name"
  <2>1. ref.name \in Names /\ ref = ByName(ref.name)
    BY <1>0, <1>3, RefCases
  <2>2. r.by = "name" /\ r = ByName(r.name) /\ r.name \in Names /\ NameOf(r.name, id.uid)
    <3>1. CASE ref.name = BridgeName(id.uid)
      <4>1. r = ref
        BY <3>1 DEF RewriteNetworkURL
      <4> QED  BY <1>3, <2>1, <3>1, <4>1, NamesMade
    <3>2. CASE ref.name # BridgeName(id.uid)
      <4>1. ref.name.form # "bridge"
        <5>1. ref.name.form = "bridge" => \E u \in Users : ref.name = BridgeName(u)
          BY <2>1, NameCases DEF UserName, BareName
        <5>2. \A u : BridgeName(u).uid = u
          BY DEF BridgeName
        <5> QED  BY <1>3, <3>2, <5>1, <5>2 DEF Written
      <4>2. r = ByName(InjectNetworkNamePrefix(id, ref.name))
        BY <1>3, <3>2 DEF RewriteNetworkURL
      <4>3. InjectNetworkNamePrefix(id, ref.name) \in Names
            /\ NameOf(InjectNetworkNamePrefix(id, ref.name), id.uid)
        BY <1>3, <2>1, <4>1, Injected
      <4> QED  BY <4>2, <4>3 DEF ByName
    <3> QED  BY <3>1, <3>2
  <2>3. r \in Refs(Ids) /\ SafeRef(r, id.uid, name, maker)
    BY <2>2 DEF Refs, SafeRef
  <2>4. t = r \/ \E n \in NetIds : t = ById(n) /\ OwnedBy(n, id.uid)
    <3> HIDE DEF r
    <3> QED  BY <1>3, <2>2 DEF Targets, IdsOfName, r
  <2>5. ASSUME NEW n \in NetIds, t = ById(n), OwnedBy(n, id.uid)
        PROVE  t \in Refs(Ids) /\ SafeRef(t, id.uid, name, maker)
    <3>1. ById(n) \in Refs(Ids) /\ ById(n).by = "id" /\ ById(n).n = n
      BY DEF Refs, ById, Ids
    <3> QED  BY <2>5, <3>1, OwnedTouchable DEF SafeRef
  <2> QED  BY <2>3, <2>4, <2>5
<1> QED  BY <1>1, <1>2, <1>3

LEMMA ArriveIInv ==
    ASSUME IInv, NEW w \in Workers, Arrive(w)
    PROVE  IInv' /\ Stable
<1> PICK id \in Callers :
        \/ \E m \in Names :
            \/ (m.form # "bridge" \/ IsPrivileged(id)) /\ NetworkCreate(w, id, m)
            \/ m.form = "bare" /\ SwarmCreate(w, id, m)
        \/ \E ref \in Written(id, NetIds), op \in {"rm", "connect", "disconnect"} :
                checkNetworkAccess(w, id, ref, op)
        \/ \E ref \in Written(id, SwarmIds) : checkSwarmOwner(w, id, ref)
        \/ \E ref \in Written(id, NetIds) \cup {NoRef} : checkCreateContainerNetworks(w, id, ref)
        \/ SwarmLeave(w, id) \/ ensureUserBridge(w, id)
        \/ handleNetworkPrune(w, id) \/ PrivilegedPrune(w, id)
  BY DEF Arrive
<1> id \in Identities
  OBVIOUS
<1>a. NetIds \in SUBSET Ids /\ SwarmIds \in SUBSET Ids
  BY DEF Ids
<1>b. \A m \in Names : ByName(m) \in Refs(Ids) /\ ByName(m).name = m /\ ByName(m).by = "name"
  BY DEF Refs, ByName
<1>1. ASSUME NEW m \in Names, m.form # "bridge" \/ IsPrivileged(id), NetworkCreate(w, id, m)
      PROVE  IInv' /\ Stable
  <2> DEFINE p == InjectNetworkNamePrefix(id, m)
  <2>1. p \in Names /\ (~IsPrivileged(id) => NameOf(p, id.uid))
    BY <1>1, Injected DEF InjectNetworkNamePrefix
  <2> HIDE DEF p
  <2>2. Sound(Forward("create", "network", id, ByName(p)), name, maker)
        /\ Forward("create", "network", id, ByName(p)) \in Requests
    BY <1>b, <2>1, ForwardIs, ForwardSound DEF AllOps, Addressed
  <2> QED  BY <1>1, <2>2, BeginStep DEF NetworkCreate, p
<1>2. ASSUME NEW m \in Names, SwarmCreate(w, id, m)
      PROVE  IInv' /\ Stable
  <2>2. Sound(Forward("create", "swarm", id, ByName(m)), name, maker)
        /\ Forward("create", "swarm", id, ByName(m)) \in Requests
    BY <1>b, ForwardIs, ForwardSound DEF AllOps, Addressed
  <2> QED  BY <1>2, <2>2, BeginStep DEF SwarmCreate
<1>3. ASSUME NEW ref \in Written(id, NetIds), NEW op \in {"rm", "connect", "disconnect"},
             checkNetworkAccess(w, id, ref, op)
      PROVE  IInv' /\ Stable
  <2>1. PICK t \in Targets(id, ref) : Begin(w, Forward(op, "network", id, t))
    BY <1>3 DEF checkNetworkAccess
  <2>2. t \in Refs(Ids) /\ (~IsPrivileged(id) => SafeRef(t, id.uid, name, maker))
    BY TargetsSafe
  <2>3. Sound(Forward(op, "network", id, t), name, maker)
        /\ Forward(op, "network", id, t) \in Requests
    BY <2>2, ForwardIs, ForwardSound DEF AllOps
  <2> QED  BY <2>1, <2>3, BeginStep
<1>4. ASSUME NEW ref \in Written(id, SwarmIds), checkSwarmOwner(w, id, ref)
      PROVE  IInv' /\ Stable
  <2>1. ref \in Refs(Ids)
    BY <1>a, RefCases DEF Written
  <2>2. ~IsPrivileged(id) => SafeRef(ref, id.uid, name, maker)
    <3> SUFFICES ASSUME ~IsPrivileged(id) PROVE SafeRef(ref, id.uid, name, maker)
      OBVIOUS
    <3>1. OwnedBy(Key(ref), id.uid)
      BY <1>4 DEF checkSwarmOwner, SwarmAllowed
    <3>2. Key(ref) \in Ids /\ Touchable(Key(ref), id.uid, name, maker)
      BY <3>1, OwnedTouchable
    <3> QED  BY <3>2 DEF Key, SafeRef
  <2>3. Sound(Forward("rm", "swarm", id, ref), name, maker)
        /\ Forward("rm", "swarm", id, ref) \in Requests
    BY <2>1, <2>2, ForwardIs, ForwardSound DEF AllOps
  <2> QED  BY <1>4, <2>3, BeginStep DEF checkSwarmOwner
<1>5. ASSUME NEW ref \in Written(id, NetIds) \cup {NoRef}, checkCreateContainerNetworks(w, id, ref)
      PROVE  IInv' /\ Stable
  <2>1. ref \in Refs(Ids) \cup {NoRef}
    BY <1>a, RefCases DEF Written
  <2>2. CASE IsPrivileged(id)
    <3>1. Sound(Forward("container", "network", id, ref), name, maker)
          /\ Forward("container", "network", id, ref) \in Requests
      BY <2>1, <2>2, ForwardIs, ForwardSound DEF AllOps
    <3> QED  BY <1>5, <2>2, <3>1, BeginStep DEF checkCreateContainerNetworks
  <2>3. CASE ~IsPrivileged(id)
    <3> DEFINE own == IF ref.by = "name" /\ ref # NoRef
                      THEN ByName(InjectNetworkNamePrefix(id, ref.name)) ELSE NoRef
               to == IF ref = ByName(BridgeName(id.uid)) THEN NoRef ELSE own
               f == Forward("container", "network", id, to)
               r == [f EXCEPT !.pc = "findBridge"]
    <3>1. to \in Refs(Ids) \cup {NoRef} /\ SafeRef(to, id.uid, name, maker)
      <4>1. CASE to = NoRef
        BY <4>1, IdleTypes DEF SafeRef
      <4>2. CASE to # NoRef
        <5>1. ref.by = "name" /\ ref # NoRef /\ to = ByName(InjectNetworkNamePrefix(id, ref.name))
              /\ ref # ByName(BridgeName(id.uid))
          BY <4>2
        <5>2. ref \in Written(id, NetIds) /\ ref.name \in Names /\ ref = ByName(ref.name)
          BY <1>a, <5>1, RefCases DEF Written
        <5>3. ref.name.form # "bridge"
          <6>1. ref.name.form = "bridge" => \E u \in Users : ref.name = BridgeName(u)
            BY <5>2, NameCases DEF UserName, BareName
          <6>2. \A u : BridgeName(u).uid = u
            BY DEF BridgeName
          <6> QED  BY <2>3, <5>1, <5>2, <6>1, <6>2 DEF Written
        <5>4. InjectNetworkNamePrefix(id, ref.name) \in Names
              /\ NameOf(InjectNetworkNamePrefix(id, ref.name), id.uid)
          BY <2>3, <5>2, <5>3, Injected
        <5> QED  BY <1>b, <5>1, <5>4 DEF SafeRef
      <4> QED  BY <4>1, <4>2
    <3>2. Begin(w, r)
      BY <1>5, <2>3 DEF checkCreateContainerNetworks
    <3> HIDE DEF to, own
    <3>3. f \in Requests /\ f.op = "container" /\ f.id = id /\ f.ref = to /\ f.todo = {}
      BY <3>1, ForwardIs DEF AllOps
    <3> HIDE DEF f
    <3>4. r \in Requests /\ r.pc = "findBridge" /\ r.op = "container" /\ r.id = id
          /\ r.ref = to /\ r.todo = {}
      BY <3>3 DEF Requests
    <3> HIDE DEF r
    <3>5. Sound(r, name, maker)
      BY <2>3, <3>1, <3>4 DEF Sound, Bridging
    <3> QED  BY <3>2, <3>4, <3>5, BeginStep
  <2> QED  BY <2>2, <2>3
<1>6. CASE SwarmLeave(w, id)
  <2>1. Stable /\ calm' \in BOOLEAN /\ UNCHANGED <<name, attached, rows, maker, req, restarts>>
    BY <1>6, SameNames, StepCalm DEF SwarmLeave
  <2>2. req' \in [Workers -> Requests] /\ RequestsSound'
    BY <2>1 DEF IInv, TypeOK, RequestsSound
  <2>3. up' \subseteq up /\ attached' \subseteq up' \cap NetIds
    BY <1>6, <2>1 DEF SwarmLeave, IInv, TypeOK
  <2> QED  BY <2>1, <2>2, <2>3, RowsKept, Assemble
<1>7. CASE ensureUserBridge(w, id)
  <2> DEFINE f == Forward("listener", "network", id, NoRef)
             r == [f EXCEPT !.pc = "findBridge"]
  <2>1. f \in Requests /\ f.op = "listener" /\ f.id = id /\ f.todo = {}
    BY ForwardIs DEF AllOps
  <2>2. Begin(w, r) /\ ~IsPrivileged(id)
    BY <1>7 DEF ensureUserBridge
  <2> HIDE DEF f
  <2>3. r \in Requests /\ r.pc = "findBridge" /\ r.op = "listener" /\ r.id = id /\ r.todo = {}
    BY <2>1 DEF Requests
  <2> HIDE DEF r
  <2>4. Sound(r, name, maker)
    BY <2>2, <2>3 DEF Sound, Bridging, Addressed
  <2> QED  BY <2>2, <2>3, <2>4, BeginStep
<1>8. CASE handleNetworkPrune(w, id)
  <2> DEFINE T == GetNetworkIDsByOwner(id.uid)
             f == Forward("prune", "network", id, NoRef)
             r == [f EXCEPT !.pc = "prune", !.todo = T]
  <2>1. f \in Requests /\ f.op = "prune" /\ f.id = id
    BY ForwardIs DEF AllOps
  <2>2. Begin(w, r)
    BY <1>8 DEF handleNetworkPrune
  <2>3. T \subseteq Ids /\ \A n \in T : Touchable(n, id.uid, name, maker)
    BY OwnedTouchable DEF GetNetworkIDsByOwner, Ids
  <2> HIDE DEF f, T
  <2>4. r \in Requests /\ r.pc = "prune" /\ r.op = "prune" /\ r.id = id /\ r.todo = T
    BY <2>1, <2>3 DEF Requests
  <2> HIDE DEF r
  <2>5. Sound(r, name, maker)
    BY <2>3, <2>4 DEF Sound, Bridging, Addressed
  <2> QED  BY <2>2, <2>4, <2>5, BeginStep
<1>9. CASE PrivilegedPrune(w, id)
  <2>1. Sound(Forward("prune", "network", id, NoRef), name, maker)
        /\ Forward("prune", "network", id, NoRef) \in Requests
    BY <1>9, ForwardIs, ForwardSound DEF AllOps, Addressed, PrivilegedPrune
  <2> QED  BY <1>9, <2>1, BeginStep DEF PrivilegedPrune
<1> QED  BY <1>1, <1>2, <1>3, <1>4, <1>5, <1>6, <1>7, <1>8, <1>9

-----------------------------------------------------------------------------
(* The daemon and the proxy's statements. *)

PCs == {"forward", "register", "forget", "prune", "pruneForget", "prunedForget",
        "findBridge", "createBridge", "manage"}

\* A request with another program counter, id and list
With(q, pc, n, T) == [q EXCEPT !.pc = pc, !.n = n, !.todo = T]

LEMMA Fields ==
    ASSUME NEW q \in Requests, NEW pc \in PCs, NEW n \in Ids \cup {NoId}, NEW T \in SUBSET Ids
    PROVE  /\ With(q, pc, n, T) \in Requests
           /\ With(q, pc, n, T).pc = pc
           /\ With(q, pc, n, T).n = n
           /\ With(q, pc, n, T).todo = T
           /\ With(q, pc, n, T).id = q.id
           /\ With(q, pc, n, T).op = q.op
           /\ With(q, pc, n, T).ref = q.ref
BY DEF With, Requests, PCs

LEMMA DaemonIInv ==
    ASSUME IInv, NEW w \in Workers,
           DaemonCreates(w) \/ DaemonRemoves(w) \/ DaemonAttaches(w) \/ DaemonDetaches(w)
               \/ DaemonPrunes(w)
    PROVE  IInv' /\ Stable
<1>a. req[w] \in Requests /\ Sound(req[w], name, maker) /\ req \in [Workers -> Requests]
  BY DEF IInv, TypeOK, RequestsSound
<1>b. req[w].n \in Ids \cup {NoId} /\ req[w].todo \in SUBSET Ids
  BY <1>a DEF Requests
<1>1. CASE DaemonCreates(w)
  <2>1. req[w].pc = "forward" /\ req[w].ref.name \in Names /\ UNCHANGED <<attached, rows, restarts>>
    BY <1>1, <1>a DEF DaemonCreates, At, Sound
  <2>2. ASSUME NEW n \in Ids, Makes(w, n, req[w].ref.name), calm' \in BOOLEAN,
               \/ req' = [req EXCEPT ![w].pc = "register", ![w].n = n]
               \/ Finish(w)
        PROVE  IInv' /\ Stable
    <3>1. /\ Stable
          /\ up' \subseteq Ids /\ attached \subseteq up' \cap NetIds
          /\ name' \in [Ids -> Names \cup {NoName}] /\ name'[n] # NoName
          /\ maker' \in [Ids -> Identities] /\ maker'[n] = req[w].id
          /\ UpNamed' /\ NamesOwn'
      <4>1. n \in NetIds /\ ~IsPrivileged(req[w].id) => NameOf(req[w].ref.name, req[w].id.uid)
        <5>1. n \in Of(req[w].kind)
          BY <2>1, <2>2, MakesStep
        <5>2. req[w].kind \in {"network", "swarm"}
          BY <1>a DEF Requests
        <5> QED  BY <1>1, <1>a, <5>1, <5>2 DEF DaemonCreates, At, Of, Sound
      <4> QED  BY <2>1, <2>2, <4>1, MakesStep
    <3>2. req' \in [Workers -> Requests] /\ RequestsSound'
      <4>1. CASE Finish(w)
        BY <3>1, <4>1, FinishStep
      <4>2. CASE req' = [req EXCEPT ![w].pc = "register", ![w].n = n]
        <5> DEFINE r == With(req[w], "register", n, req[w].todo)
        <5>1. /\ r \in Requests /\ r.pc = "register" /\ r.n = n /\ r.todo = req[w].todo
              /\ r.id = req[w].id /\ r.op = req[w].op /\ r.ref = req[w].ref
          BY <1>a, <1>b, Fields DEF PCs
        <5>2. req' = [req EXCEPT ![w] = r]
          BY <1>a, <4>2 DEF Requests, With
        <5> HIDE DEF r
        <5> QED  BY <3>1, <5>1, <5>2, ContinueStep DEF Bridging
      <4> QED  BY <2>2, <4>1, <4>2
    <3>3. rows' \in [Ids -> Rows] /\ RowsSound'
      BY <2>1, <3>1, RowsKept
    <3> QED  BY <2>1, <2>2, <3>1, <3>2, <3>3 DEF IInv, TypeOK
  <2>3. ASSUME Finish(w), calm' \in BOOLEAN, UNCHANGED <<up, name, maker>>
        PROVE  IInv' /\ Stable
    <3>1. Stable
      BY <2>3, SameNames
    <3> QED  BY <2>1, <2>3, <3>1, FinishStep, RowsKept, Assemble DEF IInv, TypeOK
  <2> QED  BY <1>1, <2>2, <2>3, StepCalm DEF DaemonCreates
<1>2. CASE DaemonRemoves(w)
  <2>1. /\ Stable /\ UNCHANGED <<name, attached, rows, maker, restarts>>
        /\ req[w].pc = "forward"
    BY <1>2, SameNames DEF DaemonRemoves, At
  <2>2. calm' \in BOOLEAN
    BY <1>2, StepCalm DEF DaemonRemoves
  <2>3. up' \subseteq up /\ attached' \subseteq up' \cap NetIds
    BY <1>2, <2>1 DEF DaemonRemoves, IInv, TypeOK
  <2>4. req' \in [Workers -> Requests] /\ RequestsSound'
    <3>1. CASE Finish(w)
      BY <2>1, <3>1, FinishStep
    <3>2. CASE Goto(w, "forget")
      <4> DEFINE r == With(req[w], "forget", req[w].n, req[w].todo)
      <4>1. /\ r \in Requests /\ r.pc = "forget" /\ r.todo = req[w].todo
            /\ r.id = req[w].id /\ r.op = req[w].op /\ r.ref = req[w].ref
        BY <1>a, <1>b, Fields DEF PCs
      <4>2. req' = [req EXCEPT ![w] = r]
        BY <1>a, <3>2 DEF Requests, With, Goto
      <4> HIDE DEF r
      <4> QED  BY <2>1, <4>1, <4>2, ContinueStep DEF Bridging
    <3> QED  BY <1>2, <3>1, <3>2 DEF DaemonRemoves
  <2> QED  BY <2>1, <2>2, <2>3, <2>4, RowsKept, Assemble
<1>3. CASE DaemonAttaches(w) \/ DaemonDetaches(w)
  <2>1. Stable /\ UNCHANGED <<up, name, rows, maker, restarts>> /\ Finish(w)
    BY <1>3, SameNames DEF DaemonAttaches, DaemonDetaches
  <2>2. calm' \in BOOLEAN
    BY <1>3, StepCalm DEF DaemonAttaches, DaemonDetaches
  <2>3. attached' \subseteq up' \cap NetIds
    BY <1>3, <2>1 DEF DaemonAttaches, DaemonDetaches, Resolves, IInv, TypeOK
  <2> QED  BY <2>1, <2>2, <2>3, FinishStep, RowsKept, Assemble
<1>4. CASE DaemonPrunes(w)
  <2> DEFINE gone == (up \cap NetIds) \ attached
  <2>1. /\ Stable /\ UNCHANGED <<name, attached, rows, maker, restarts>>
        /\ req[w].pc = "forward" /\ req[w].op = "prune" /\ up' = up \ gone
    BY <1>4, SameNames DEF DaemonPrunes, At
  <2>2. calm' \in BOOLEAN
    BY <1>4, StepCalm DEF DaemonPrunes
  <2>3. up' \subseteq up /\ attached' \subseteq up' \cap NetIds /\ gone \in SUBSET Ids
    BY <2>1 DEF IInv, TypeOK
  <2>4. req' \in [Workers -> Requests] /\ RequestsSound'
    <3>1. CASE Finish(w)
      BY <2>1, <3>1, FinishStep
    <3>2. CASE req' = [req EXCEPT ![w].pc = "prunedForget", ![w].todo = gone]
      <4> HIDE DEF gone
      <4> DEFINE r == With(req[w], "prunedForget", req[w].n, gone)
      <4>1. /\ r \in Requests /\ r.pc = "prunedForget" /\ r.todo = gone
            /\ r.id = req[w].id /\ r.op = req[w].op /\ r.ref = req[w].ref
        BY <1>a, <1>b, <2>3, Fields DEF PCs
      <4>2. req' = [req EXCEPT ![w] = r]
        BY <1>a, <3>2 DEF Requests, With
      <4>3. IsPrivileged(r.id)
        BY <1>a, <2>1, <4>1 DEF Sound
      <4> HIDE DEF r
      <4> QED  BY <2>1, <4>1, <4>2, <4>3, ContinueStep DEF Bridging
    <3> QED  BY <1>4, <3>1, <3>2 DEF DaemonPrunes
  <2> QED  BY <2>1, <2>2, <2>3, <2>4, RowsKept, Assemble
<1> QED  BY <1>1, <1>2, <1>3, <1>4

LEMMA WriteIInv ==
    ASSUME IInv, NEW w \in Workers,
           RegisterNetwork(w) \/ RegisterSwarm(w) \/ ForgetNetwork(w) \/ ForgetSwarm(w)
    PROVE  IInv' /\ Stable
<1>a. req[w] \in Requests /\ Sound(req[w], name, maker) /\ req[w].id \in Identities
  BY DEF IInv, TypeOK, RequestsSound, Requests
<1>b. /\ Stable /\ UNCHANGED <<up, name, attached, maker, restarts>> /\ Finish(w)
      /\ calm' \in BOOLEAN
  BY SameNames, StepCalm DEF RegisterNetwork, RegisterSwarm, ForgetNetwork, ForgetSwarm
<1>1. CASE RegisterNetwork(w) \/ RegisterSwarm(w)
  <2>1. req[w].n \in Ids /\ Touchable(req[w].n, req[w].id.uid, name', maker')
    BY <1>1, <1>a, <1>b DEF RegisterNetwork, RegisterSwarm, Sound, Touchable
  <2>2. req[w].id.uid \in Uids /\ IsSudoCommand(req[w].id) \in BOOLEAN
    BY <1>a DEF Identities, IsSudoCommand
  <2>3. rows' \in [Ids -> Rows] /\ RowsSound'
    BY <1>1, <1>b, <2>1, <2>2, RowWritten DEF RegisterNetwork, RegisterSwarm, SetSwarmOwner
  <2> QED  BY <1>b, <2>3, FinishStep, Assemble DEF IInv, TypeOK
<1>2. CASE ForgetNetwork(w) \/ ForgetSwarm(w)
  <2>1. \E n : DeleteRow(n)
    BY <1>2 DEF ForgetNetwork, ForgetSwarm
  <2>2. rows' \in [Ids -> Rows] /\ RowsSound'
    BY <1>b, <2>1, RowDeleted
  <2> QED  BY <1>b, <2>2, FinishStep, Assemble DEF IInv, TypeOK
<1> QED  BY <1>1, <1>2

LEMMA PruneIInv ==
    ASSUME IInv, NEW w \in Workers,
           PruneNext(w) \/ PruneForget(w) \/ SystemPruneForget(w) \/ PruneDone(w)
    PROVE  IInv' /\ Stable
<1>a. req[w] \in Requests /\ req \in [Workers -> Requests]
  BY DEF IInv, TypeOK
<1>b. req[w].n \in Ids \cup {NoId} /\ req[w].todo \in SUBSET Ids
  BY <1>a DEF Requests
<1>c. /\ Stable /\ UNCHANGED <<name, attached, maker, restarts>>
      /\ calm' \in BOOLEAN
  BY SameNames, StepCalm DEF PruneNext, PruneForget, SystemPruneForget, PruneDone
<1>1. ASSUME NEW pc \in {"prune", "pruneForget", "prunedForget"}, NEW n \in Ids \cup {NoId},
             NEW T \in SUBSET req[w].todo,
             req' = [req EXCEPT ![w] = With(req[w], pc, n, T)]
      PROVE  req' \in [Workers -> Requests] /\ RequestsSound'
  <2> DEFINE r == With(req[w], pc, n, T)
  <2>1. /\ r \in Requests /\ r.pc = pc /\ r.todo = T
        /\ r.id = req[w].id /\ r.op = req[w].op /\ r.ref = req[w].ref
    BY <1>a, <1>b, Fields DEF PCs
  <2>2. req' = [req EXCEPT ![w] = r]
    BY <1>1
  <2> HIDE DEF r
  <2> QED  BY <1>c, <2>1, <2>2, ContinueStep DEF Bridging
<1>2. CASE PruneNext(w)
  <2>1. PICK n \in req[w].todo :
        \/ /\ n \in up \ attached
           /\ up' = up \ {n}
           /\ \/ req' = [req EXCEPT ![w].pc = "pruneForget", ![w].n = n, ![w].todo = @ \ {n}]
              \/ req' = [req EXCEPT ![w].todo = @ \ {n}]
        \/ up' = up /\ req' = [req EXCEPT ![w].todo = @ \ {n}]
    BY <1>2 DEF PruneNext
  <2>2. req[w].pc = "prune" /\ UNCHANGED rows
    BY <1>2 DEF PruneNext
  <2> DEFINE T == req[w].todo \ {n}
  <2>3. \/ req' = [req EXCEPT ![w] = With(req[w], "pruneForget", n, T)]
        \/ req' = [req EXCEPT ![w] = With(req[w], "prune", req[w].n, T)]
    BY ZenonT(40), <1>a, <2>1, <2>2 DEF Requests, With
  <2>4. req' \in [Workers -> Requests] /\ RequestsSound'
    BY <1>1, <1>b, <2>3
  <2>5. up' \subseteq up /\ attached' \subseteq up' \cap NetIds
    BY <1>c, <2>1 DEF IInv, TypeOK
  <2> QED  BY <1>c, <2>2, <2>4, <2>5, RowsKept, Assemble
<1>3. CASE PruneForget(w)
  <2>1. req' = [req EXCEPT ![w] = With(req[w], "prune", NoId, req[w].todo)]
    BY <1>3, <1>a DEF PruneForget, Requests, With
  <2>2. req' \in [Workers -> Requests] /\ RequestsSound'
    BY <1>1, <2>1
  <2>3. up' = up /\ DeleteRow(req[w].n)
    BY <1>3 DEF PruneForget
  <2> QED  BY <1>c, <2>2, <2>3, RowDeleted, Assemble DEF IInv, TypeOK
<1>4. CASE SystemPruneForget(w)
  <2>1. PICK n \in req[w].todo :
        /\ UNCHANGED rows \/ \E k : DeleteRow(k)
        /\ req' = [req EXCEPT ![w].todo = @ \ {n}]
    BY <1>4 DEF SystemPruneForget
  <2>2. req[w].pc = "prunedForget" /\ up' = up
    BY <1>4 DEF SystemPruneForget
  <2>3. req' = [req EXCEPT ![w] = With(req[w], "prunedForget", req[w].n, req[w].todo \ {n})]
    BY <1>a, <2>1, <2>2 DEF Requests, With
  <2>4. req' \in [Workers -> Requests] /\ RequestsSound'
    BY <1>1, <1>b, <2>3
  <2>5. rows' \in [Ids -> Rows] /\ RowsSound'
    BY <1>c, <2>1, RowsKept, RowDeleted
  <2> QED  BY <1>c, <2>2, <2>4, <2>5, Assemble DEF IInv, TypeOK
<1>5. CASE PruneDone(w)
  BY <1>c, <1>5, FinishStep, RowsKept, Assemble DEF PruneDone, IInv, TypeOK
<1> QED  BY <1>2, <1>3, <1>4, <1>5

LEMMA BridgeIInv ==
    ASSUME IInv, NEW w \in Workers,
           FindBridge(w) \/ CreateBridge(w) \/ SetManagedNetworkOwner(w)
    PROVE  IInv' /\ Stable
<1>a. /\ req[w] \in Requests /\ req \in [Workers -> Requests] /\ Sound(req[w], name, maker)
      /\ req[w].id \in Identities
  BY DEF IInv, TypeOK, RequestsSound, Requests
<1>b. req[w].n \in Ids \cup {NoId} /\ req[w].todo \in SUBSET Ids
  BY <1>a DEF Requests
<1>c. req[w].pc \in Bridging /\ req[w].id.uid \in Users
  BY <1>a DEF FindBridge, CreateBridge, SetManagedNetworkOwner, Sound, Bridging
<1>d. BridgeName(req[w].id.uid) \in Names /\ NameOf(BridgeName(req[w].id.uid), req[w].id.uid)
  BY <1>c, NamesMade
<1>1. ASSUME Stable, NEW pc \in {"createBridge", "manage", "forward"}, NEW n \in Ids \cup {NoId},
             pc = "manage" => n \in NetIds /\ name'[n] = BridgeName(req[w].id.uid),
             req' = [req EXCEPT ![w] = With(req[w], pc, n, req[w].todo)]
      PROVE  req' \in [Workers -> Requests] /\ RequestsSound'
  <2> DEFINE r == With(req[w], pc, n, req[w].todo)
  <2>1. /\ r \in Requests /\ r.pc = pc /\ r.todo = req[w].todo /\ r.n = n
        /\ r.id = req[w].id /\ r.op = req[w].op /\ r.ref = req[w].ref
    BY <1>a, <1>b, Fields DEF PCs
  <2>2. req' = [req EXCEPT ![w] = r]
    BY <1>1
  <2> HIDE DEF r
  <2> QED  BY <1>1, <1>c, <2>1, <2>2, ContinueStep
<1>2. CASE FindBridge(w)
  <2>1. Stable /\ UNCHANGED <<up, name, attached, rows, maker, restarts>> /\ calm' \in BOOLEAN
    BY <1>2, SameNames, StepCalm DEF FindBridge
  <2>2. \/ \E n \in NetIds :
              /\ Resolves("network", ByName(BridgeName(req[w].id.uid)), n)
              /\ req' = [req EXCEPT ![w].pc = "manage", ![w].n = n]
        \/ req' = [req EXCEPT ![w].pc = "createBridge"]
    BY <1>2 DEF FindBridge, Goto
  <2>3. ASSUME NEW n \in NetIds, Resolves("network", ByName(BridgeName(req[w].id.uid)), n),
               req' = [req EXCEPT ![w].pc = "manage", ![w].n = n]
        PROVE  req' \in [Workers -> Requests] /\ RequestsSound'
    <3>1. n \in Ids /\ name'[n] = BridgeName(req[w].id.uid)
      BY <2>1, <2>3 DEF Resolves, ByName, Ids
    <3>2. req' = [req EXCEPT ![w] = With(req[w], "manage", n, req[w].todo)]
      BY <1>a, <2>3 DEF Requests, With
    <3> QED  BY <1>1, <2>1, <3>1, <3>2
  <2>4. ASSUME req' = [req EXCEPT ![w].pc = "createBridge"]
        PROVE  req' \in [Workers -> Requests] /\ RequestsSound'
    <3>1. req' = [req EXCEPT ![w] = With(req[w], "createBridge", req[w].n, req[w].todo)]
      BY <1>a, <2>4 DEF Requests, With
    <3> QED  BY <1>1, <1>b, <2>1, <3>1
  <2> QED  BY <2>1, <2>2, <2>3, <2>4, RowsKept, Assemble DEF IInv, TypeOK
<1>3. CASE CreateBridge(w)
  <2>1. UNCHANGED <<attached, rows, restarts>>
    BY <1>3 DEF CreateBridge
  <2>2. ASSUME NEW n \in NetIds, Makes(w, n, BridgeName(req[w].id.uid)), calm' \in BOOLEAN,
               \/ req' = [req EXCEPT ![w].pc = "manage", ![w].n = n]
               \/ Finish(w)
        PROVE  IInv' /\ Stable
    <3>1. /\ Stable
          /\ up' \subseteq Ids /\ attached \subseteq up' \cap NetIds
          /\ name' \in [Ids -> Names \cup {NoName}] /\ name'[n] = BridgeName(req[w].id.uid)
          /\ maker' \in [Ids -> Identities]
          /\ UpNamed' /\ NamesOwn'
      BY <1>d, <2>2, MakesStep DEF Ids
    <3>2. req' \in [Workers -> Requests] /\ RequestsSound'
      <4>1. CASE Finish(w)
        BY <3>1, <4>1, FinishStep
      <4>2. CASE req' = [req EXCEPT ![w].pc = "manage", ![w].n = n]
        <5>1. req' = [req EXCEPT ![w] = With(req[w], "manage", n, req[w].todo)]
          BY <1>a, <4>2 DEF Requests, With
        <5> QED  BY <1>1, <3>1, <5>1 DEF Ids
      <4> QED  BY <2>2, <4>1, <4>2
    <3>3. rows' \in [Ids -> Rows] /\ RowsSound'
      BY <2>1, <3>1, RowsKept
    <3> QED  BY <2>1, <2>2, <3>1, <3>2, <3>3 DEF IInv, TypeOK
  <2>3. ASSUME Finish(w), calm' \in BOOLEAN, UNCHANGED <<up, name, maker>>
        PROVE  IInv' /\ Stable
    <3>1. Stable
      BY <2>3, SameNames
    <3> QED  BY <2>1, <2>3, <3>1, FinishStep, RowsKept, Assemble DEF IInv, TypeOK
  <2> QED  BY <1>3, <2>2, <2>3, StepCalm DEF CreateBridge
<1>4. CASE SetManagedNetworkOwner(w)
  <2>1. Stable /\ UNCHANGED <<up, name, attached, maker, restarts>> /\ calm' \in BOOLEAN
    BY <1>4, SameNames, StepCalm DEF SetManagedNetworkOwner
  <2>2. req[w].n \in Ids /\ name'[req[w].n] = BridgeName(req[w].id.uid)
    BY <1>4, <1>a, <2>1 DEF SetManagedNetworkOwner, Sound, Ids
  <2>3. Touchable(req[w].n, req[w].id.uid, name', maker') /\ req[w].id.uid \in Uids
    BY <1>a, <1>d, <2>2 DEF Touchable, Identities
  <2>4. rows' \in [Ids -> Rows] /\ RowsSound'
    BY <1>4, <2>1, <2>2, <2>3, RowWritten DEF SetManagedNetworkOwner
  <2>5. req' \in [Workers -> Requests] /\ RequestsSound'
    <3>1. CASE Finish(w)
      BY <2>1, <3>1, FinishStep
    <3>2. CASE req' = [req EXCEPT ![w].pc = "forward", ![w].n = NoId]
      <4>1. req' = [req EXCEPT ![w] = With(req[w], "forward", NoId, req[w].todo)]
        BY <1>a, <3>2 DEF Requests, With
      <4> QED  BY <1>1, <2>1, <4>1
    <3> QED  BY <1>4, <3>1, <3>2 DEF SetManagedNetworkOwner
  <2> QED  BY <2>1, <2>4, <2>5, Assemble DEF IInv, TypeOK
<1> QED  BY <1>2, <1>3, <1>4

LEMMA ServeIInv == ASSUME IInv, NEW w \in Workers, Serve(w) PROVE IInv' /\ Stable
BY DaemonIInv, WriteIInv, PruneIInv, BridgeIInv DEF Serve

LEMMA NextIInv == IInv /\ [Next]_vars => IInv'
<1> SUFFICES ASSUME IInv, [Next]_vars PROVE IInv'
  OBVIOUS
<1>1. CASE \E w \in Workers : Arrive(w) \/ Serve(w)
  BY <1>1, ArriveIInv, ServeIInv
<1>2. CASE \E n \in NetIds : ContainersEnd(n)
  <2>1. /\ UNCHANGED <<up, name, rows, maker, req, restarts, calm>> /\ attached' \subseteq attached
        /\ Stable
    BY <1>2, SameNames DEF ContainersEnd
  <2>2. req' \in [Workers -> Requests] /\ RequestsSound'
    BY <2>1 DEF IInv, TypeOK, RequestsSound
  <2> QED  BY <2>1, <2>2, RowsKept, Assemble DEF IInv, TypeOK
<1>3. CASE Restart
  <2>1. UNCHANGED <<up, name, attached, rows, maker>> /\ Stable
    BY <1>3, SameNames DEF Restart
  <2>2. req' \in [Workers -> Requests] /\ RequestsSound'
    BY <1>3, IdleTypes, IdleSound DEF Restart, RequestsSound
  <2>3. restarts' \in 0 .. MaxRestarts /\ calm' \in BOOLEAN
    BY <1>3 DEF Restart, IInv, TypeOK
  <2> QED  BY <2>1, <2>2, <2>3, RowsKept DEF IInv, TypeOK, UpNamed, NamesOwn
<1>4. CASE UNCHANGED vars
  BY <1>4 DEF vars, IInv, TypeOK, RequestsSound, UpNamed, RowsSound, NamesOwn
<1> QED  BY <1>1, <1>2, <1>3, <1>4 DEF Next

LEMMA Invariant == Spec => []IInv
BY InitIInv, NextIInv, PTL DEF Spec

-----------------------------------------------------------------------------
(* Theorems. *)

\* The variables keep their types; an endpoint is on a network that exists.
THEOREM TypeCorrect == Spec => []TypeOK
<1>1. IInv => TypeOK
  BY DEF IInv
<1> QED  BY <1>1, Invariant, PTL

\* A row of the tables names the user a resource was made for, or one whose name
\* it carries, in every interleaving of creates, removals, prunes, starts of
\* listeners and restarts: SetNetworkOwner and SetManagedNetworkOwner never give
\* a network away.
THEOREM RowsAreHonest == Spec => []RowsHonest
<1>1. IInv => RowsHonest
  BY DEF IInv, RowsSound, RowsHonest, Touchable, NameOf, InNamespace
<1> QED  BY <1>1, Invariant, PTL

\* What a user made without privileges is on his list as long as it exists, however
\* many answers were lost and rows never written (FilterNetworkListResponse).
THEOREM MadeIsAlwaysListed == Spec => []MadeIsListed
<1>1. IInv => MadeIsListed
  <2> SUFFICES ASSUME IInv, NEW n \in up \cap NetIds,
                      maker[n].mode = "regular", maker[n].uid # RootUid, name[n].form = "user"
               PROVE  n \in Listed(maker[n].uid)
    BY DEF MadeIsListed
  <2>1. name[n] # NoName /\ ~IsPrivileged(maker[n])
    BY DEF IInv, UpNamed, IsPrivileged
  <2>2. NameOf(name[n], maker[n].uid)
    BY <2>1 DEF IInv, NamesOwn
  <2> QED  BY <2>2 DEF Listed, NameOf
<1> QED  BY <1>1, Invariant, PTL

\* What a step of worker w removes, attaches to or detaches from is its caller's.
LEMMA ServedIsOwn ==
    ASSUME IInv, NEW w \in Workers, Serve(w), ~IsPrivileged(req[w].id), NEW n \in Ids,
           n \in up \ up' \/ n \in attached \ attached' \/ n \in attached' \ attached
    PROVE  Touchable(n, req[w].id.uid, name, maker)
<1>a. req[w] \in Requests /\ Sound(req[w], name, maker)
  BY DEF IInv, TypeOK, RequestsSound
<1>0. ASSUME NEW kind, req[w].op \in Addressed, Resolves(kind, req[w].ref, n)
      PROVE  Touchable(n, req[w].id.uid, name, maker)
  <2>1. SafeRef(req[w].ref, req[w].id.uid, name, maker)
    BY <1>0, <1>a DEF Sound
  <2>2. n \in up /\ name[n] # NoName
    BY <1>0 DEF Resolves, IInv, UpNamed
  <2> QED  BY <1>0, <2>1, <2>2 DEF SafeRef, Resolves, Touchable
<1>1. CASE DaemonRemoves(w)
  <2>1. req[w].op = "rm" /\ attached' = attached /\ Resolves(req[w].kind, req[w].ref, n)
    BY <1>1 DEF DaemonRemoves, At
  <2> QED  BY <1>0, <2>1 DEF Addressed
<1>2. CASE DaemonAttaches(w)
  <2>1. req[w].op \in Addressed /\ up' = up /\ n \in NetIds
        /\ \/ Resolves("network", req[w].ref, n)
           \/ Resolves("network", ByName(BridgeName(req[w].id.uid)), n)
    BY <1>2 DEF DaemonAttaches, At, Addressed
  <2>2. ASSUME Resolves("network", ByName(BridgeName(req[w].id.uid)), n)
        PROVE  Touchable(n, req[w].id.uid, name, maker)
    <3>1. name[n] = BridgeName(req[w].id.uid) /\ n \in up
      BY <2>2 DEF Resolves, ByName
    <3>2. name[n] \in Names /\ name[n] # NoName
      BY <3>1 DEF IInv, TypeOK, UpNamed
    <3>3. name[n].form = "bridge" /\ name[n].uid = req[w].id.uid
      BY <3>1 DEF BridgeName
    <3> QED  BY <3>2, <3>3 DEF Touchable, NameOf
  <2> QED  BY <1>0, <2>1, <2>2
<1>3. CASE DaemonDetaches(w)
  <2>1. req[w].op = "disconnect" /\ up' = up /\ Resolves("network", req[w].ref, n)
    BY <1>3 DEF DaemonDetaches, At
  <2> QED  BY <1>0, <2>1 DEF Addressed
<1>4. CASE PruneNext(w)
  <2>1. n \in req[w].todo
    BY <1>4 DEF PruneNext
  <2> QED  BY <1>a, <2>1 DEF Sound
<1>5. CASE DaemonPrunes(w)
  BY <1>5, <1>a DEF DaemonPrunes, At, Sound
<1>6. CASE DaemonCreates(w) \/ CreateBridge(w)
  BY <1>6 DEF DaemonCreates, CreateBridge, Makes
<1>7. CASE \/ RegisterNetwork(w) \/ RegisterSwarm(w) \/ ForgetNetwork(w) \/ ForgetSwarm(w)
           \/ PruneForget(w) \/ SystemPruneForget(w) \/ PruneDone(w)
           \/ FindBridge(w) \/ SetManagedNetworkOwner(w)
  BY <1>7 DEF RegisterNetwork, RegisterSwarm, ForgetNetwork, ForgetSwarm, PruneForget,
     SystemPruneForget, PruneDone, FindBridge, SetManagedNetworkOwner
<1> QED  BY <1>1, <1>2, <1>3, <1>4, <1>5, <1>6, <1>7 DEF Serve

\* Only w's request changes in a step of w.
LEMMA ServeIsLocal ==
    ASSUME IInv, NEW w \in Workers, Serve(w)
    PROVE  \A v \in Workers : v # w => req'[v] = req[v]
BY DEF IInv, TypeOK, Serve, DaemonCreates, DaemonRemoves, DaemonAttaches, DaemonDetaches,
   DaemonPrunes, RegisterNetwork, RegisterSwarm, ForgetNetwork, ForgetSwarm, PruneNext, PruneForget,
   SystemPruneForget, PruneDone, FindBridge, CreateBridge, SetManagedNetworkOwner, Finish, Goto

LEMMA StepOwnOnly == IInv /\ [Next]_vars => OwnOnly
<1> SUFFICES ASSUME IInv, [Next]_vars, NEW v \in Workers, NEW n \in Ids,
                    ~IsPrivileged(req[v].id), req'[v] # req[v],
                    n \in up \ up' \/ n \in attached \ attached' \/ n \in attached' \ attached
             PROVE  maker[n].uid = req[v].id.uid \/ InNamespace(n, req[v].id.uid)
  BY DEF OwnOnly
<1>1. ASSUME NEW w \in Workers, Arrive(w) PROVE FALSE
  <2>1. UNCHANGED <<up, attached>> \/ UNCHANGED req
    BY <1>1 DEF Arrive, NetworkCreate, SwarmCreate, checkNetworkAccess, checkSwarmOwner,
       checkCreateContainerNetworks, SwarmLeave, ensureUserBridge, handleNetworkPrune,
       PrivilegedPrune, Begin
  <2> QED  BY <2>1
<1>2. ASSUME NEW w \in Workers, Serve(w)
      PROVE  maker[n].uid = req[v].id.uid \/ InNamespace(n, req[v].id.uid)
  <2>1. v = w
    BY <1>2, ServeIsLocal
  <2>2. Touchable(n, req[v].id.uid, name, maker)
    BY <1>2, <2>1, ServedIsOwn
  <2> QED  BY <2>2 DEF Touchable, NameOf, InNamespace
<1>3. ASSUME NEW k \in NetIds, ContainersEnd(k) PROVE FALSE
  BY <1>3 DEF ContainersEnd
<1>4. CASE Restart
  BY <1>4 DEF Restart
<1>5. CASE UNCHANGED vars
  BY <1>5 DEF vars
<1> QED  BY <1>1, <1>2, <1>3, <1>4, <1>5 DEF Next

\* However long ago the check was and whatever happened to the tables and to the
\* names since, what a regular caller's rm, prune, connect, disconnect or
\* container create acts on was made for him or carries a name of his
\* (checkNetworkAccess, checkSwarmOwner, handleNetworkPrune).
THEOREM RegularCallersActOnTheirOwn == Spec => RegularActsOnOwn
BY Invariant, StepOwnOnly, PTL DEF Spec, RegularActsOnOwn

-----------------------------------------------------------------------------
(***************************************************************************)
(* The tables list what there is as long as requests do not overlap and    *)
(* nothing fails: the only difference is then the one that the request at  *)
(* work is about to settle.                                                *)
(***************************************************************************)
Found == {n \in Ids : rows[n].found}

Settled(w) ==
    LET r == req[w] IN
    /\ r.pc \in {"idle", "forward", "prune", "findBridge", "createBridge"} => up = Found
    /\ r.pc \in {"register", "manage"} => up = Found \cup {r.n}
    /\ r.pc = "forget" =>
        \E n \in Of(r.kind) :
            /\ n \notin up /\ Found = up \cup {n}
            /\ r.ref.by = "name" => name[n] = r.ref.name
            /\ r.ref.by = "id" => n = r.ref.n
    /\ r.pc = "pruneForget" => r.n \notin up /\ Found = up \cup {r.n}
    /\ r.pc = "prunedForget" =>
        r.todo \subseteq NetIds /\ r.todo \cap up = {} /\ Found = up \cup r.todo

\* no two networks, and no two rows of networks, have the same name
Distinct == \A k, l \in (up \cup Found) \cap NetIds : name[k] = name[l] => k = l

CalmInv ==
    calm =>
        /\ Distinct
        /\ \A w \in Workers : Alone(w) => Settled(w)
        /\ (\A w \in Workers : Idle(w)) => up = Found

LEMMA CalmBefore ==
    ASSUME CalmInv, NEW w \in Workers, NEW ok, Step(w, ok), calm'
    PROVE  calm /\ ok /\ Alone(w) /\ Settled(w) /\ Distinct
BY DEF CalmInv, Step

LEMMA CalmAfter ==
    ASSUME NEW w \in Workers, Alone(w), \A v \in Workers \ {w} : req'[v] = req[v],
           Settled(w)', Distinct'
    PROVE  CalmInv'
<1>1. ASSUME NEW v \in Workers, Alone(v)' PROVE Settled(v)'
  <2>1. CASE v = w
    BY <2>1
  <2>2. CASE v # w
    <3>1. req'[w].pc = "idle" /\ req'[v].pc = "idle"
      BY <1>1, <2>2 DEF Alone, Idle
    <3>2. up' = Found'
      BY <3>1 DEF Settled
    <3> QED  BY <3>1, <3>2 DEF Settled
  <2> QED  BY <2>1, <2>2
<1>2. ASSUME \A v \in Workers : Idle(v)' PROVE up' = Found'
  BY <1>2 DEF Settled, Idle
<1> QED  BY <1>1, <1>2 DEF CalmInv

LEMMA InitCalm == Init => CalmInv
<1> SUFFICES ASSUME Init PROVE CalmInv
  OBVIOUS
<1>1. up = {} /\ Found = {}
  BY DEF Init, Found, NoRow
<1>2. \A w \in Workers : req[w].pc = "idle"
  BY DEF Init, IdleRequest
<1> QED  BY <1>1, <1>2 DEF CalmInv, Distinct, Settled

LEMMA DeletedFound == ASSUME IInv, NEW n, DeleteRow(n) PROVE Found' = Found \ {n}
BY DEF DeleteRow, Found, NoRow, IInv, TypeOK

\* the only network of that name, if there is one, is found by it
LEMMA FoundByName ==
    ASSUME Distinct, NEW n \in Found \cap NetIds
    PROVE  n \in IdsOfName(name[n]) /\ \A k \in IdsOfName(name[n]) : k = n
<1>1. n \in IdsOfName(name[n])
  BY DEF IdsOfName, Found
<1>2. ASSUME NEW k \in IdsOfName(name[n]) PROVE k = n
  <2>1. k \in Found \cap NetIds /\ name[k] = name[n]
    BY DEF IdsOfName, Found, Ids
  <2> QED  BY <2>1 DEF Distinct
<1> QED  BY <1>1, <1>2

LEMMA WrittenFound ==
    ASSUME IInv, NEW n \in Ids, NEW u, NEW s, SetOwner(n, u, s)
    PROVE  Found' = Found \cup {n}
BY DEF SetOwner, Found, IInv, TypeOK

\* what disappears leaves the names distinct
LEMMA DistinctStays ==
    ASSUME Distinct, UNCHANGED name, up' \cup Found' \subseteq up \cup Found
    PROVE  Distinct'
BY DEF Distinct

\* only a name that is free is added
LEMMA DistinctMade ==
    ASSUME IInv, Distinct, up = Found, NEW w \in Workers, NEW n \in Ids, NEW m, Makes(w, n, m),
           UNCHANGED rows
    PROVE  Distinct' /\ Found' = Found /\ up' = up \cup {n}
<1>1. Found' = Found /\ up' = up \cup {n}
  BY DEF Found, Makes
<1>2. name'[n] = m /\ \A k \in Ids : k # n => name'[k] = name[k]
  BY DEF Makes, IInv, TypeOK
<1>3. n \in NetIds => \A k \in up \cap NetIds : name[k] # m
  BY DEF Makes, Of
<1>4. ASSUME NEW k \in (up' \cup Found') \cap NetIds, NEW l \in (up' \cup Found') \cap NetIds,
             name'[k] = name'[l]
      PROVE  k = l
  <2>1. k \in Ids /\ l \in Ids /\ (k = n \/ k \in up) /\ (l = n \/ l \in up)
    BY <1>1 DEF Ids
  <2>2. CASE k # n /\ l # n
    BY <1>2, <1>4, <2>1, <2>2 DEF Distinct
  <2>3. CASE k = n \/ l = n
    BY <1>2, <1>3, <1>4, <2>1, <2>3
  <2> QED  BY <2>2, <2>3
<1> QED  BY <1>1, <1>4 DEF Distinct

LEMMA BeginCalm ==
    ASSUME IInv, CalmInv, NEW w \in Workers, NEW r, Begin(w, r), calm',
           r.pc \in {"forward", "prune", "findBridge"}
    PROVE  CalmInv'
<1>1. Alone(w) /\ Settled(w) /\ Distinct /\ req[w].pc = "idle"
  BY CalmBefore DEF Begin, Idle
<1>2. req'[w] = r /\ \A v \in Workers \ {w} : req'[v] = req[v]
  BY DEF Begin, IInv, TypeOK
<1>3. UNCHANGED <<up, name, rows>> /\ Found' = Found
  BY DEF Begin, Found
<1>4. Settled(w)'
  BY <1>1, <1>2, <1>3 DEF Settled
<1>5. Distinct'
  BY <1>1, <1>3, DistinctStays
<1> QED  BY <1>1, <1>2, <1>4, <1>5, CalmAfter

LEMMA ArriveCalm ==
    ASSUME IInv, CalmInv, NEW w \in Workers, Arrive(w), calm'
    PROVE  CalmInv'
<1>1. PICK id \in Callers :
        \/ \E m \in Names :
            \/ (m.form # "bridge" \/ IsPrivileged(id)) /\ NetworkCreate(w, id, m)
            \/ m.form = "bare" /\ SwarmCreate(w, id, m)
        \/ \E ref \in Written(id, NetIds), op \in {"rm", "connect", "disconnect"} :
                checkNetworkAccess(w, id, ref, op)
        \/ \E ref \in Written(id, SwarmIds) : checkSwarmOwner(w, id, ref)
        \/ \E ref \in Written(id, NetIds) \cup {NoRef} : checkCreateContainerNetworks(w, id, ref)
        \/ SwarmLeave(w, id) \/ ensureUserBridge(w, id)
        \/ handleNetworkPrune(w, id) \/ PrivilegedPrune(w, id)
  BY DEF Arrive
<1>2. \A op, kind, ref : Forward(op, kind, id, ref).pc = "forward"
  BY DEF Forward, IdleRequest
<1>3. \A op, kind, ref : [Forward(op, kind, id, ref) EXCEPT !.pc = "findBridge"].pc = "findBridge"
  BY DEF Forward, IdleRequest
<1>4. ASSUME NEW op, NEW kind, NEW ref, NEW T
      PROVE  [Forward(op, kind, id, ref) EXCEPT !.pc = "prune", !.todo = T].pc = "prune"
  BY DEF Forward, IdleRequest
<1>5. CASE SwarmLeave(w, id)
  <2>1. Alone(w) /\ Settled(w) /\ Distinct /\ up \cap SwarmIds = {}
    BY <1>5, CalmBefore DEF SwarmLeave
  <2>2. up' = up
    BY <1>5, <2>1 DEF SwarmLeave, IInv, TypeOK, Ids
  <2>3. UNCHANGED <<name, rows, req>> /\ Found' = Found
    BY <1>5 DEF SwarmLeave, Found
  <2>4. Distinct'
    BY <2>1, <2>2, <2>3, DistinctStays
  <2>5. Settled(w)'
    BY <1>5, <2>1, <2>2, <2>3 DEF Settled, SwarmLeave, Idle
  <2> QED  BY <2>1, <2>3, <2>4, <2>5, CalmAfter
<1>6. CASE handleNetworkPrune(w, id)
  BY <1>4, <1>6, BeginCalm DEF handleNetworkPrune
<1>7. ASSUME NEW ref, checkCreateContainerNetworks(w, id, ref) PROVE CalmInv'
  <2>1. PICK r : Begin(w, r) /\ r.pc \in {"forward", "findBridge"}
    BY ZenonT(40), <1>2, <1>3, <1>7 DEF checkCreateContainerNetworks
  <2> QED  BY <2>1, BeginCalm
<1>8. ASSUME NEW ref, NEW op, checkNetworkAccess(w, id, ref, op) PROVE CalmInv'
  <2>1. PICK r : Begin(w, r) /\ r.pc = "forward"
    BY <1>2, <1>8 DEF checkNetworkAccess
  <2> QED  BY <2>1, BeginCalm
<1>9. ASSUME \/ \E m \in Names : NetworkCreate(w, id, m) \/ SwarmCreate(w, id, m)
             \/ \E ref : checkSwarmOwner(w, id, ref)
             \/ ensureUserBridge(w, id) \/ PrivilegedPrune(w, id)
      PROVE  CalmInv'
  <2>1. PICK r : Begin(w, r) /\ r.pc \in {"forward", "findBridge"}
    BY <1>2, <1>3, <1>9 DEF NetworkCreate, SwarmCreate, checkSwarmOwner, ensureUserBridge,
       PrivilegedPrune
  <2> QED  BY <2>1, BeginCalm
<1> QED  BY <1>1, <1>5, <1>6, <1>7, <1>8, <1>9

LEMMA FinishPc ==
    ASSUME IInv, NEW w \in Workers, Finish(w)
    PROVE  req'[w].pc = "idle"
BY DEF Finish, IdleRequest, IInv, TypeOK

LEMMA DaemonCalm ==
    ASSUME IInv, CalmInv, NEW w \in Workers, calm',
           DaemonCreates(w) \/ DaemonRemoves(w) \/ DaemonAttaches(w) \/ DaemonDetaches(w)
               \/ DaemonPrunes(w)
    PROVE  CalmInv'
<1>a. req[w] \in Requests /\ req \in [Workers -> Requests] /\ Sound(req[w], name, maker)
  BY DEF IInv, TypeOK, RequestsSound
<1>b. \A v \in Workers \ {w} : req'[v] = req[v]
  BY ServeIsLocal DEF Serve
<1>c. UNCHANGED rows /\ Found' = Found /\ req[w].pc = "forward"
  BY DEF DaemonCreates, DaemonRemoves, DaemonAttaches, DaemonDetaches, DaemonPrunes, At, Found
<1>d. Alone(w) /\ Settled(w) /\ Distinct
  BY CalmBefore DEF DaemonCreates, DaemonRemoves, DaemonAttaches, DaemonDetaches, DaemonPrunes
<1>e. up = Found
  BY <1>c, <1>d DEF Settled
<1>1. ASSUME Finish(w), UNCHANGED <<up, name>> PROVE CalmInv'
  <2>1. Settled(w)'
    BY <1>1, <1>c, <1>e, FinishPc DEF Settled
  <2>2. Distinct'
    BY <1>1, <1>c, <1>d, DistinctStays
  <2> QED  BY <1>b, <1>d, <2>1, <2>2, CalmAfter
<1>2. CASE DaemonCreates(w)
  <2>1. CASE UNCHANGED <<up, name>>
    <3>1. Finish(w) \/ \E n \in Ids : Makes(w, n, req[w].ref.name)
      BY <1>2 DEF DaemonCreates
    <3>2. ASSUME NEW n \in Ids, Makes(w, n, req[w].ref.name) PROVE FALSE
      <4>1. req[w].ref.name \in Names
        BY <1>2, <1>a DEF DaemonCreates, At, Sound
      <4> QED  BY <2>1, <3>2, <4>1 DEF Makes, IInv, TypeOK
    <3> QED  BY <1>1, <2>1, <3>1, <3>2
  <2>2. CASE ~UNCHANGED <<up, name>>
    <3>1. PICK n \in Ids :
            /\ Makes(w, n, req[w].ref.name)
            /\ req' = [req EXCEPT ![w].pc = "register", ![w].n = n]
      BY <1>2, <2>2, CalmBefore DEF DaemonCreates
    <3>2. Distinct' /\ Found' = Found /\ up' = up \cup {n}
      BY <1>c, <1>d, <1>e, <3>1, DistinctMade
    <3>3. req'[w].pc = "register" /\ req'[w].n = n
      BY <1>a, <3>1 DEF Requests
    <3>4. Settled(w)'
      BY <1>e, <3>2, <3>3 DEF Settled
    <3> QED  BY <1>b, <1>d, <3>2, <3>4, CalmAfter
  <2> QED  BY <2>1, <2>2
<1>3. CASE DaemonRemoves(w)
  <2>1. CASE UNCHANGED up
    <3>1. UNCHANGED name /\ Finish(w)
      BY <1>3, <2>1 DEF DaemonRemoves, Resolves
    <3> QED  BY <1>1, <2>1, <3>1
  <2>2. CASE ~UNCHANGED up
    <3>1. PICK n \in Ids \ attached :
            Resolves(req[w].kind, req[w].ref, n) /\ up' = up \ {n} /\ Goto(w, "forget")
      BY <1>3, <2>2, CalmBefore DEF DaemonRemoves
    <3>2. /\ req'[w].pc = "forget" /\ req'[w].kind = req[w].kind /\ req'[w].ref = req[w].ref
          /\ UNCHANGED name
      BY <1>3, <1>a, <3>1 DEF Goto, Requests, DaemonRemoves
    <3>3. n \in Of(req[w].kind) /\ n \notin up' /\ Found' = up' \cup {n}
      BY <1>c, <1>e, <3>1 DEF Resolves
    <3>4. /\ req[w].ref.by = "name" => name'[n] = req[w].ref.name
          /\ req[w].ref.by = "id" => n = req[w].ref.n
      BY <3>1, <3>2 DEF Resolves
    <3>5. Settled(w)'
      BY <3>2, <3>3, <3>4 DEF Settled
    <3>6. Distinct'
      BY <1>c, <1>d, <3>1, <3>2, DistinctStays
    <3> QED  BY <1>b, <1>d, <3>5, <3>6, CalmAfter
  <2> QED  BY <2>1, <2>2
<1>4. CASE DaemonAttaches(w) \/ DaemonDetaches(w)
  BY <1>1, <1>4 DEF DaemonAttaches, DaemonDetaches
<1>5. CASE DaemonPrunes(w)
  <2>1. UNCHANGED name
    BY <1>5 DEF DaemonPrunes
  <2>2. PICK gone \in SUBSET NetIds :
          /\ gone \subseteq up /\ up' = up \ gone
          /\ \/ req' = [req EXCEPT ![w].pc = "prunedForget", ![w].todo = gone]
             \/ Finish(w) /\ Step(w, gone = {})
    BY <1>5 DEF DaemonPrunes
  <2>3. CASE Finish(w) /\ Step(w, gone = {})
    <3>1. up' = up
      BY <2>2, <2>3, CalmBefore
    <3> QED  BY <1>1, <2>1, <2>3, <3>1
  <2>4. CASE req' = [req EXCEPT ![w].pc = "prunedForget", ![w].todo = gone]
    <3>1. req'[w].pc = "prunedForget" /\ req'[w].todo = gone
      BY <1>a, <2>4 DEF Requests
    <3>2. gone \cap up' = {} /\ Found' = up' \cup gone
      BY <1>c, <1>e, <2>2
    <3>3. Settled(w)'
      BY <3>1, <3>2 DEF Settled
    <3>4. Distinct'
      BY <1>c, <1>d, <2>1, <2>2, DistinctStays
    <3> QED  BY <1>b, <1>d, <3>3, <3>4, CalmAfter
  <2> QED  BY <2>2, <2>3, <2>4
<1> QED  BY <1>2, <1>3, <1>4, <1>5

LEMMA WriteCalm ==
    ASSUME IInv, CalmInv, NEW w \in Workers, calm',
           RegisterNetwork(w) \/ RegisterSwarm(w) \/ ForgetNetwork(w) \/ ForgetSwarm(w)
    PROVE  CalmInv'
<1>a. req[w] \in Requests /\ Sound(req[w], name, maker)
  BY DEF IInv, TypeOK, RequestsSound
<1>b. \A v \in Workers \ {w} : req'[v] = req[v]
  BY ServeIsLocal DEF Serve
<1>c. UNCHANGED <<up, name>> /\ Finish(w)
  BY DEF RegisterNetwork, RegisterSwarm, ForgetNetwork, ForgetSwarm
<1>d. Alone(w) /\ Settled(w) /\ Distinct
  BY CalmBefore DEF RegisterNetwork, RegisterSwarm, ForgetNetwork, ForgetSwarm
<1>1. ASSUME up' = Found', Found' \subseteq up \cup Found PROVE CalmInv'
  <2>1. Settled(w)'
    BY <1>1, <1>c, FinishPc DEF Settled
  <2>2. Distinct'
    BY <1>1, <1>c, <1>d, DistinctStays
  <2> QED  BY <1>b, <1>d, <2>1, <2>2, CalmAfter
<1>2. CASE RegisterNetwork(w) \/ RegisterSwarm(w)
  <2>1. req[w].pc = "register" /\ req[w].n \in Ids
    BY <1>2, <1>a DEF RegisterNetwork, RegisterSwarm, Sound
  <2>2. Found' = Found \cup {req[w].n}
    BY <1>2, <2>1, WrittenFound DEF RegisterNetwork, RegisterSwarm, SetSwarmOwner
  <2>3. up = Found \cup {req[w].n}
    BY <1>d, <2>1 DEF Settled
  <2> QED  BY <1>1, <1>c, <2>2, <2>3
<1>3. CASE ForgetNetwork(w) \/ ForgetSwarm(w)
  <2>1. req[w].pc = "forget"
    BY <1>3 DEF ForgetNetwork, ForgetSwarm
  <2>2. PICK n \in Of(req[w].kind) :
            /\ n \notin up /\ Found = up \cup {n}
            /\ req[w].ref.by = "name" => name[n] = req[w].ref.name
            /\ req[w].ref.by = "id" => n = req[w].ref.n
    BY <1>d, <2>1 DEF Settled
  <2>3. DeleteRow(n)
    <3>1. CASE ForgetSwarm(w)
      <4>1. req[w].ref.by = "id"
        BY <3>1, CalmBefore DEF ForgetSwarm
      <4> QED  BY <2>2, <3>1, <4>1 DEF ForgetSwarm, Key
    <3>2. CASE ForgetNetwork(w)
      <4>1. n \in NetIds /\ n \in Found
        BY <2>2, <3>2 DEF ForgetNetwork, Of
      <4>2. req[w].ref.by # "short"
        BY <3>2, CalmBefore DEF ForgetNetwork
      <4>3. CASE req[w].ref.by = "name"
        <5>1. /\ n \in IdsOfName(req[w].ref.name)
              /\ \A k \in IdsOfName(req[w].ref.name) : k = n
          BY <1>d, <2>2, <4>1, <4>3, FoundByName
        <5> QED  BY <3>2, <4>3, <5>1 DEF ForgetNetwork
      <4>4. CASE req[w].ref.by = "id"
        BY <2>2, <3>2, <4>4 DEF ForgetNetwork, Key
      <4>5. req[w].ref.by \in {"name", "id", "short"}
        BY <1>a DEF Requests, Refs, NoRef, ByName, ById, ByShortId
      <4> QED  BY <4>2, <4>3, <4>4, <4>5
    <3> QED  BY <1>3, <3>1, <3>2
  <2>4. Found' = Found \ {n}
    BY <2>3, DeletedFound
  <2> QED  BY <1>1, <1>c, <2>2, <2>4
<1> QED  BY <1>2, <1>3

LEMMA PruneCalm ==
    ASSUME IInv, CalmInv, NEW w \in Workers, calm',
           PruneNext(w) \/ PruneForget(w) \/ SystemPruneForget(w) \/ PruneDone(w)
    PROVE  CalmInv'
<1>a. req[w] \in Requests /\ req \in [Workers -> Requests] /\ Sound(req[w], name, maker)
  BY DEF IInv, TypeOK, RequestsSound
<1>b. \A v \in Workers \ {w} : req'[v] = req[v]
  BY ServeIsLocal DEF Serve
<1>c. UNCHANGED name
  BY DEF PruneNext, PruneForget, SystemPruneForget, PruneDone
<1>d. Alone(w) /\ Settled(w) /\ Distinct
  BY CalmBefore DEF PruneNext, PruneForget, SystemPruneForget, PruneDone
<1>1. ASSUME up' = Found', Found' \subseteq up \cup Found, req'[w].pc \in {"idle", "prune"}
      PROVE  CalmInv'
  <2>1. Settled(w)'
    BY <1>1 DEF Settled
  <2>2. Distinct'
    BY <1>1, <1>c, <1>d, DistinctStays
  <2> QED  BY <1>b, <1>d, <2>1, <2>2, CalmAfter
<1>2. CASE PruneNext(w)
  <2>1. up = Found /\ Found' = Found /\ req[w].pc = "prune"
    BY <1>2, <1>d DEF PruneNext, Settled, Found
  <2>2. PICK n \in req[w].todo :
        \/ /\ up' = up \ {n} /\ n \in up
           /\ req' = [req EXCEPT ![w].pc = "pruneForget", ![w].n = n, ![w].todo = @ \ {n}]
        \/ req' = [req EXCEPT ![w].todo = @ \ {n}] /\ up' = up
    BY <1>2, CalmBefore DEF PruneNext
  <2>3. CASE req' = [req EXCEPT ![w].todo = @ \ {n}] /\ up' = up
    <3>1. req'[w].pc = "prune"
      BY <1>a, <2>1, <2>3 DEF Requests
    <3> QED  BY <1>1, <2>1, <2>3, <3>1
  <2>4. CASE /\ up' = up \ {n} /\ n \in up
             /\ req' = [req EXCEPT ![w].pc = "pruneForget", ![w].n = n, ![w].todo = @ \ {n}]
    <3>1. req'[w].pc = "pruneForget" /\ req'[w].n = n
      BY <1>a, <2>4 DEF Requests
    <3>a. up' = up \ {n} /\ n \in up
      BY <2>4
    <3>b. n \notin up' /\ Found' = up' \cup {n}
      BY <2>1, <3>a
    <3>2. req'[w].n \notin up' /\ Found' = up' \cup {req'[w].n}
      BY <3>1, <3>b, Zenon
    <3>3. Settled(w)'
      BY <3>1, <3>2 DEF Settled
    <3>4. Distinct'
      BY <1>c, <1>d, <2>1, <2>4, DistinctStays
    <3> QED  BY <1>b, <1>d, <3>3, <3>4, CalmAfter
  <2> QED  BY <2>2, <2>3, <2>4
<1>3. CASE PruneForget(w)
  <2>1. req'[w].pc = "prune" /\ up' = up
    BY <1>3, <1>a DEF PruneForget, Requests
  <2>2. Found' = Found \ {req[w].n}
    BY <1>3, DeletedFound DEF PruneForget
  <2>3. req[w].n \notin up /\ Found = up \cup {req[w].n}
    BY <1>3, <1>d DEF PruneForget, Settled
  <2> QED  BY <1>1, <2>1, <2>2, <2>3
<1>4. CASE SystemPruneForget(w)
  <2>1. PICK n \in req[w].todo :
        /\ \/ \E k \in IdsOfName(name[n]) : DeleteRow(k)
           \/ IdsOfName(name[n]) = {} /\ UNCHANGED rows
        /\ req' = [req EXCEPT ![w].todo = @ \ {n}]
    BY <1>4 DEF SystemPruneForget
  <2>2. /\ req[w].pc = "prunedForget" /\ up' = up /\ req[w].todo \subseteq NetIds
        /\ req[w].todo \cap up = {} /\ Found = up \cup req[w].todo
    BY <1>4, <1>d DEF SystemPruneForget, Settled
  <2>3. n \in IdsOfName(name[n]) /\ \A k \in IdsOfName(name[n]) : k = n
    BY <1>d, <2>2, FoundByName
  <2>4. Found' = Found \ {n}
    BY <2>1, <2>3, DeletedFound
  <2>5. req'[w].pc = "prunedForget" /\ req'[w].todo = req[w].todo \ {n}
    BY <1>a, <2>1, <2>2 DEF Requests
  <2>6. Found' = up' \cup req'[w].todo /\ req'[w].todo \cap up' = {} /\ req'[w].todo \subseteq NetIds
    BY <2>2, <2>4, <2>5
  <2>7. Settled(w)'
    BY <2>5, <2>6 DEF Settled
  <2>8. Distinct'
    BY <1>c, <1>d, <2>2, <2>4, DistinctStays
  <2> QED  BY <1>b, <1>d, <2>7, <2>8, CalmAfter
<1>5. CASE PruneDone(w)
  <2>1. up = Found /\ up' = up /\ Found' = Found
    BY <1>5, <1>d DEF PruneDone, Settled, Found
  <2>2. req'[w].pc = "idle"
    BY <1>5, FinishPc DEF PruneDone
  <2> QED  BY <1>1, <2>1, <2>2
<1> QED  BY <1>2, <1>3, <1>4, <1>5

LEMMA BridgeCalm ==
    ASSUME IInv, CalmInv, NEW w \in Workers, calm',
           FindBridge(w) \/ CreateBridge(w) \/ SetManagedNetworkOwner(w)
    PROVE  CalmInv'
<1>a. req[w] \in Requests /\ req \in [Workers -> Requests] /\ Sound(req[w], name, maker)
  BY DEF IInv, TypeOK, RequestsSound
<1>b. \A v \in Workers \ {w} : req'[v] = req[v]
  BY ServeIsLocal DEF Serve
<1>d. Alone(w) /\ Settled(w) /\ Distinct
  BY CalmBefore DEF FindBridge, CreateBridge, SetManagedNetworkOwner
<1>1. ASSUME up' = Found', UNCHANGED name, Found' \subseteq up \cup Found,
             req'[w].pc \in {"idle", "forward", "createBridge"}
      PROVE  CalmInv'
  <2>1. Settled(w)'
    BY <1>1 DEF Settled
  <2>2. Distinct'
    BY <1>1, <1>d, DistinctStays
  <2> QED  BY <1>b, <1>d, <2>1, <2>2, CalmAfter
<1>2. CASE FindBridge(w)
  <2>1. up = Found /\ UNCHANGED <<up, name>> /\ Found' = Found
    BY <1>2, <1>d DEF FindBridge, Settled, Found
  <2>2. CASE req' = [req EXCEPT ![w].pc = "createBridge"]
    <3>1. req'[w].pc = "createBridge"
      BY <1>a, <2>2 DEF Requests
    <3> QED  BY <1>1, <2>1, <3>1
  <2>3. ASSUME NEW n \in up, req' = [req EXCEPT ![w].pc = "manage", ![w].n = n] PROVE CalmInv'
    <3>1. req'[w].pc = "manage" /\ req'[w].n = n
      BY <1>a, <2>3 DEF Requests
    <3>2. Settled(w)'
      BY <2>1, <2>3, <3>1 DEF Settled
    <3>3. Distinct'
      BY <1>d, <2>1, DistinctStays
    <3> QED  BY <1>b, <1>d, <3>2, <3>3, CalmAfter
  <2> QED  BY <1>2, <2>2, <2>3 DEF FindBridge, Goto, Resolves
<1>3. CASE CreateBridge(w)
  <2>1. up = Found /\ UNCHANGED rows /\ Found' = Found
    BY <1>3, <1>d DEF CreateBridge, Settled, Found
  <2>2. CASE Finish(w) /\ UNCHANGED <<up, name, maker>>
    BY <1>1, <2>1, <2>2, FinishPc
  <2>3. ASSUME NEW n \in NetIds, Makes(w, n, BridgeName(req[w].id.uid)),
               req' = [req EXCEPT ![w].pc = "manage", ![w].n = n]
        PROVE  CalmInv'
    <3>1. Distinct' /\ Found' = Found /\ up' = up \cup {n}
      BY <1>d, <2>1, <2>3, DistinctMade DEF Ids
    <3>2. req'[w].pc = "manage" /\ req'[w].n = n
      BY <1>a, <2>3 DEF Requests
    <3>3. Settled(w)'
      BY <2>1, <3>1, <3>2 DEF Settled
    <3> QED  BY <1>b, <1>d, <3>1, <3>3, CalmAfter
  <2> QED  BY <1>3, <2>2, <2>3, CalmBefore DEF CreateBridge
<1>4. CASE SetManagedNetworkOwner(w)
  <2>1. req[w].pc = "manage" /\ req[w].n \in Ids /\ UNCHANGED <<up, name>>
    BY <1>4, <1>a DEF SetManagedNetworkOwner, Sound, Ids
  <2>2. Found' = Found \cup {req[w].n}
    BY <1>4, <2>1, WrittenFound DEF SetManagedNetworkOwner
  <2>3. up = Found \cup {req[w].n}
    BY <1>d, <2>1 DEF Settled
  <2>4. req'[w].pc \in {"idle", "forward"}
    BY <1>4, <1>a, FinishPc DEF SetManagedNetworkOwner, Requests
  <2> QED  BY <1>1, <2>1, <2>2, <2>3, <2>4
<1> QED  BY <1>2, <1>3, <1>4

LEMMA NextCalm == IInv /\ CalmInv /\ [Next]_vars => CalmInv'
<1> SUFFICES ASSUME IInv, CalmInv, [Next]_vars, calm' PROVE CalmInv'
  BY DEF CalmInv
<1>1. ASSUME NEW w \in Workers, Arrive(w) \/ Serve(w) PROVE CalmInv'
  BY <1>1, ArriveCalm, DaemonCalm, WriteCalm, PruneCalm, BridgeCalm DEF Serve
<1>2. ASSUME UNCHANGED <<up, name, rows, req, calm>> PROVE CalmInv'
  <2>1. Found' = Found /\ calm
    BY <1>2 DEF Found
  <2>2. Distinct'
    BY <1>2, <2>1 DEF CalmInv, Distinct
  <2>3. \A w \in Workers : (Alone(w)' => Alone(w)) /\ (Settled(w) => Settled(w)')
    BY <1>2, <2>1 DEF Alone, Idle, Settled
  <2>4. (\A w \in Workers : Idle(w)') => up' = Found'
    BY <1>2, <2>1 DEF CalmInv, Idle
  <2> QED  BY <2>1, <2>2, <2>3, <2>4 DEF CalmInv
<1>3. CASE \E n \in NetIds : ContainersEnd(n)
  BY <1>2, <1>3 DEF ContainersEnd
<1>4. CASE Restart
  <2>1. calm /\ up = Found /\ Distinct
    BY <1>4 DEF Restart, CalmInv
  <2>2. UNCHANGED <<up, name, rows>> /\ Found' = Found
    BY <1>4 DEF Restart, Found
  <2>3. \A w \in Workers : req'[w].pc = "idle"
    BY <1>4 DEF Restart, IdleRequest
  <2>4. Distinct'
    BY <2>1, <2>2, DistinctStays
  <2>5. \A w \in Workers : Settled(w)'
    BY <2>1, <2>2, <2>3 DEF Settled
  <2> QED  BY <2>1, <2>2, <2>4, <2>5 DEF CalmInv
<1>5. CASE UNCHANGED vars
  BY <1>2, <1>5 DEF vars
<1> QED  BY <1>1, <1>3, <1>4, <1>5 DEF Next

LEMMA CalmInvariant == Spec => []CalmInv
BY Invariant, InitCalm, NextCalm, PTL DEF Spec

\* Requests that neither overlap nor lose an answer leave a row for every network
\* and swarm resource there is and for no other, whichever of create, rm, prune,
\* container create and restart they are (SetNetworkOwner, RemoveNetwork and the
\* deletions after a prune).
THEOREM TablesMatchResources == Spec => []RowsMatchResources
<1>1. CalmInv => RowsMatchResources
  BY DEF CalmInv, RowsMatchResources, Quiet, Found
<1> QED  BY <1>1, CalmInvariant, PTL

-----------------------------------------------------------------------------
(***************************************************************************)
(* Whoever is shown a network can address it. That takes one thing more:   *)
(* where rows that are not marked as made with sudo come from.             *)
(***************************************************************************)

\* a request serves a caller, and registers what was made for him
Traced(r, nm, mk) ==
    /\ r.pc # "idle" => r.id \in Callers
    /\ r.pc = "register" => r.n \in Of(r.kind) /\ nm[r.n] # NoName /\ mk[r.n] = r.id

Plain(row, n, nm, mk) ==
    row.found /\ ~row.sudo =>
        nm[n] = BridgeName(row.owner) \/ (mk[n].uid = row.owner /\ mk[n].mode # "sudo")

MadeByCallers == \A n \in Ids : name[n] # NoName => maker[n] \in Callers

OriginInv ==
    /\ \A w \in Workers : Traced(req[w], name, maker)
    /\ MadeByCallers
    /\ \A n \in NetIds : Plain(rows[n], n, name, maker)

LEMMA InitOrigin == Init => OriginInv
<1> SUFFICES ASSUME Init PROVE OriginInv
  OBVIOUS
<1>1. \A w \in Workers : req[w].pc = "idle"
  BY DEF Init, IdleRequest
<1>2. \A n \in NetIds : ~rows[n].found
  BY DEF Init, NoRow, Ids
<1>3. MadeByCallers
  BY DEF Init, MadeByCallers
<1> QED  BY <1>1, <1>2, <1>3 DEF OriginInv, Traced, Plain

\* What is known of the other requests and rows outlives a step.
LEMMA OriginStep ==
    ASSUME IInv, OriginInv, Stable, NEW w \in Workers,
           \A v \in Workers \ {w} : req'[v] = req[v],
           Traced(req'[w], name', maker'), MadeByCallers',
           \A n \in NetIds : rows'[n] = rows[n] \/ Plain(rows'[n], n, name', maker')
    PROVE  OriginInv'
<1>1. ASSUME NEW v \in Workers PROVE Traced(req'[v], name', maker')
  <2>1. CASE v = w
    BY <2>1
  <2>2. CASE v # w
    <3>1. req'[v] = req[v] /\ Traced(req[v], name, maker)
      BY <2>2 DEF OriginInv
    <3> QED  BY <3>1 DEF Traced, Stable, Of, Ids
  <2> QED  BY <2>1, <2>2
<1>2. ASSUME NEW n \in NetIds PROVE Plain(rows'[n], n, name', maker')
  <2>1. CASE rows'[n] = rows[n]
    <3>1. Plain(rows[n], n, name, maker)
      BY DEF OriginInv
    <3>2. rows[n].found => name'[n] = name[n] /\ maker'[n] = maker[n]
      BY DEF IInv, RowsSound, Touchable, Stable, Ids
    <3> QED  BY <2>1, <3>1, <3>2 DEF Plain
  <2> QED  BY <2>1
<1> QED  BY <1>1, <1>2 DEF OriginInv

LEMMA ArriveOrigin ==
    ASSUME IInv, OriginInv, NEW w \in Workers, Arrive(w)
    PROVE  OriginInv'
<1>1. Stable /\ UNCHANGED <<name, rows, maker>>
  BY ArriveIInv DEF Arrive, NetworkCreate, SwarmCreate, checkNetworkAccess, checkSwarmOwner,
     checkCreateContainerNetworks, SwarmLeave, ensureUserBridge, handleNetworkPrune,
     PrivilegedPrune, Begin
<1>2. MadeByCallers'
  BY <1>1 DEF OriginInv, MadeByCallers
<1>3. UNCHANGED req \/ \E id \in Callers : \E r :
        r.id = id /\ r.pc # "register" /\ req' = [req EXCEPT ![w] = r]
  <2>1. PICK id \in Callers :
          \/ \E m \in Names :
              \/ (m.form # "bridge" \/ IsPrivileged(id)) /\ NetworkCreate(w, id, m)
              \/ m.form = "bare" /\ SwarmCreate(w, id, m)
          \/ \E ref \in Written(id, NetIds), op \in {"rm", "connect", "disconnect"} :
                  checkNetworkAccess(w, id, ref, op)
          \/ \E ref \in Written(id, SwarmIds) : checkSwarmOwner(w, id, ref)
          \/ \E ref \in Written(id, NetIds) \cup {NoRef} : checkCreateContainerNetworks(w, id, ref)
          \/ SwarmLeave(w, id) \/ ensureUserBridge(w, id)
          \/ handleNetworkPrune(w, id) \/ PrivilegedPrune(w, id)
    BY DEF Arrive
  <2>2. ASSUME NEW op, NEW kind, NEW ref, NEW r, NEW T,
               \/ r = Forward(op, kind, id, ref)
               \/ r = [Forward(op, kind, id, ref) EXCEPT !.pc = "findBridge"]
               \/ r = [Forward(op, kind, id, ref) EXCEPT !.pc = "prune", !.todo = T]
        PROVE  r.id = id /\ r.pc # "register"
    BY <2>2 DEF Forward, IdleRequest
  <2>3. ASSUME NEW ref, checkCreateContainerNetworks(w, id, ref)
        PROVE  \E r : r.id = id /\ r.pc # "register" /\ req' = [req EXCEPT ![w] = r]
    <3>1. PICK op, kind, to, r :
              /\ \/ r = Forward(op, kind, id, to)
                 \/ r = [Forward(op, kind, id, to) EXCEPT !.pc = "findBridge"]
              /\ req' = [req EXCEPT ![w] = r]
      BY <2>3 DEF checkCreateContainerNetworks, Begin
    <3>2. r.id = id /\ r.pc # "register"
      BY <3>1 DEF Forward, IdleRequest
    <3> QED  BY <3>1, <3>2
  <2>4. ASSUME NEW ref, NEW op, checkNetworkAccess(w, id, ref, op)
        PROVE  \E r : r.id = id /\ r.pc # "register" /\ req' = [req EXCEPT ![w] = r]
    BY <2>2, <2>4 DEF checkNetworkAccess, Begin
  <2>5. ASSUME handleNetworkPrune(w, id)
        PROVE  \E r : r.id = id /\ r.pc # "register" /\ req' = [req EXCEPT ![w] = r]
    BY <2>2, <2>5 DEF handleNetworkPrune, Begin
  <2>6. ASSUME \/ \E m \in Names : NetworkCreate(w, id, m) \/ SwarmCreate(w, id, m)
               \/ \E ref : checkSwarmOwner(w, id, ref)
               \/ ensureUserBridge(w, id) \/ PrivilegedPrune(w, id)
        PROVE  \E r : r.id = id /\ r.pc # "register" /\ req' = [req EXCEPT ![w] = r]
    BY <2>2, <2>6 DEF NetworkCreate, SwarmCreate, checkSwarmOwner, ensureUserBridge,
       PrivilegedPrune, Begin
  <2>7. CASE SwarmLeave(w, id)
    BY <2>7 DEF SwarmLeave
  <2> QED  BY <2>1, <2>3, <2>4, <2>5, <2>6, <2>7
<1>4. Traced(req'[w], name', maker') /\ \A v \in Workers \ {w} : req'[v] = req[v]
  <2>1. CASE UNCHANGED req
    BY <1>1, <2>1 DEF OriginInv
  <2>2. ASSUME NEW id \in Callers, NEW r, r.id = id, r.pc # "register", req' = [req EXCEPT ![w] = r]
        PROVE  Traced(req'[w], name', maker') /\ \A v \in Workers \ {w} : req'[v] = req[v]
    BY <2>2 DEF Traced, IInv, TypeOK
  <2> QED  BY <1>3, <2>1, <2>2
<1> QED  BY <1>1, <1>2, <1>4, OriginStep

\* A request in flight keeps its caller and its kind until it is answered.
LEMMA ServeKeepsCaller ==
    ASSUME IInv, NEW w \in Workers, Serve(w)
    PROVE  /\ req[w].pc # "idle"
           /\ \/ req'[w].pc = "idle"
              \/ req'[w].id = req[w].id /\ req'[w].kind = req[w].kind
           /\ req'[w].pc = "register" => DaemonCreates(w)
<1>a. req[w] \in Requests /\ req \in [Workers -> Requests]
  BY DEF IInv, TypeOK
<1>b. Finish(w) => req'[w].pc = "idle"
  BY FinishPc
<1>c. ASSUME NEW pc, Goto(w, pc)
      PROVE  req'[w].pc = pc /\ req'[w].id = req[w].id /\ req'[w].kind = req[w].kind
  BY <1>a, <1>c DEF Goto, Requests
<1>d. ASSUME NEW T, req' = [req EXCEPT ![w].todo = T]
      PROVE  req'[w].pc = req[w].pc /\ req'[w].id = req[w].id /\ req'[w].kind = req[w].kind
  BY <1>a, <1>d DEF Requests
<1>e. ASSUME NEW pc, NEW n, req' = [req EXCEPT ![w].pc = pc, ![w].n = n]
      PROVE  req'[w].pc = pc /\ req'[w].id = req[w].id /\ req'[w].kind = req[w].kind
  BY <1>a, <1>e DEF Requests
<1>f. ASSUME NEW pc, NEW T, req' = [req EXCEPT ![w].pc = pc, ![w].todo = T]
      PROVE  req'[w].pc = pc /\ req'[w].id = req[w].id /\ req'[w].kind = req[w].kind
  BY <1>a, <1>f DEF Requests
<1>1. CASE DaemonCreates(w)
  BY <1>1, <1>b, <1>e DEF DaemonCreates, At
<1>2. CASE DaemonRemoves(w)
  <2>1. req[w].pc = "forward" /\ (Finish(w) \/ Goto(w, "forget"))
    BY <1>2 DEF DaemonRemoves, At
  <2> QED  BY <1>b, <1>c, <2>1
<1>3. CASE DaemonAttaches(w) \/ DaemonDetaches(w)
  BY <1>3, <1>b DEF DaemonAttaches, DaemonDetaches, At
<1>4. CASE DaemonPrunes(w)
  <2>1. /\ req[w].pc = "forward"
        /\ \/ Finish(w)
           \/ \E T : req' = [req EXCEPT ![w].pc = "prunedForget", ![w].todo = T]
    BY <1>4 DEF DaemonPrunes, At
  <2> QED  BY <1>b, <1>f, <2>1
<1>5. CASE RegisterNetwork(w) \/ RegisterSwarm(w) \/ ForgetNetwork(w) \/ ForgetSwarm(w)
  BY <1>5, <1>b DEF RegisterNetwork, RegisterSwarm, ForgetNetwork, ForgetSwarm
<1>6. CASE PruneNext(w)
  <2>1. /\ req[w].pc = "prune"
        /\ \/ \E T : req' = [req EXCEPT ![w].todo = T]
           \/ \E n, T : req' = [req EXCEPT ![w].pc = "pruneForget", ![w].n = n, ![w].todo = T]
    BY <1>6 DEF PruneNext
  <2>2. ASSUME NEW T, req' = [req EXCEPT ![w].todo = T]
        PROVE  req'[w].pc = "prune" /\ req'[w].id = req[w].id /\ req'[w].kind = req[w].kind
    BY <1>d, <2>1, <2>2
  <2>3. ASSUME NEW n, NEW T, req' = [req EXCEPT ![w].pc = "pruneForget", ![w].n = n, ![w].todo = T]
        PROVE  req'[w].pc = "pruneForget" /\ req'[w].id = req[w].id /\ req'[w].kind = req[w].kind
    BY <1>a, <2>3 DEF Requests
  <2> QED  BY <2>1, <2>2, <2>3
<1>7. CASE PruneForget(w)
  <2>1. req[w].pc = "pruneForget" /\ req' = [req EXCEPT ![w].pc = "prune", ![w].n = NoId]
    BY <1>7 DEF PruneForget
  <2>2. req'[w].pc = "prune" /\ req'[w].id = req[w].id /\ req'[w].kind = req[w].kind
    BY <1>a, <2>1 DEF Requests
  <2> QED  BY <2>1, <2>2
<1>8. CASE SystemPruneForget(w)
  BY <1>8, <1>d DEF SystemPruneForget
<1>9. CASE PruneDone(w)
  BY <1>9, <1>b DEF PruneDone
<1>10. CASE FindBridge(w)
  BY <1>10, <1>c, <1>e DEF FindBridge
<1>11. CASE CreateBridge(w)
  <2>1. /\ req[w].pc = "createBridge"
        /\ Finish(w) \/ \E n : req' = [req EXCEPT ![w].pc = "manage", ![w].n = n]
    BY <1>11 DEF CreateBridge
  <2> QED  BY <1>b, <1>e, <2>1
<1>12. CASE SetManagedNetworkOwner(w)
  BY <1>12, <1>b, <1>e DEF SetManagedNetworkOwner
<1> QED  BY <1>1, <1>2, <1>3, <1>4, <1>5, <1>6, <1>7, <1>8, <1>9, <1>10, <1>11, <1>12 DEF Serve

LEMMA DeletedPlain ==
    ASSUME IInv, NEW k, DeleteRow(k), NEW n \in NetIds, NEW nm, NEW mk
    PROVE  rows'[n] = rows[n] \/ Plain(rows'[n], n, nm, mk)
BY DEF DeleteRow, Plain, NoRow, IInv, TypeOK, Ids

LEMMA WrittenPlain ==
    ASSUME IInv, NEW k \in Ids, NEW u, NEW s \in BOOLEAN, SetOwner(k, u, s),
           NEW n \in NetIds, NEW nm, NEW mk,
           k = n => s \/ nm[n] = BridgeName(u) \/ (mk[n].uid = u /\ mk[n].mode # "sudo")
    PROVE  rows'[n] = rows[n] \/ Plain(rows'[n], n, nm, mk)
<1>1. CASE k # n
  BY <1>1 DEF SetOwner, IInv, TypeOK, Ids
<1>2. CASE k = n
  <2>1. rows'[n] = [found |-> TRUE, owner |-> u, sudo |-> s]
    BY <1>2 DEF SetOwner, IInv, TypeOK
  <2>2. rows'[n].owner = u /\ rows'[n].sudo = s
    BY <2>1
  <2> QED  BY <1>2, <2>2, Zenon DEF Plain
<1> QED  BY <1>1, <1>2

LEMMA ServeOrigin ==
    ASSUME IInv, OriginInv, NEW w \in Workers, Serve(w)
    PROVE  OriginInv'
<1>a. Stable /\ \A v \in Workers \ {w} : req'[v] = req[v]
  BY ServeIInv, ServeIsLocal
<1>b. req[w] \in Requests /\ req \in [Workers -> Requests]
      /\ Sound(req[w], name, maker) /\ Traced(req[w], name, maker)
  BY DEF IInv, TypeOK, RequestsSound, OriginInv
<1>c. req[w].id \in Callers
  BY <1>b, ServeKeepsCaller DEF Traced
<1>d. \/ UNCHANGED <<name, maker>>
      \/ \E n \in Ids : \E m : Makes(w, n, m)
  BY DEF Serve, DaemonCreates, DaemonRemoves, DaemonAttaches, DaemonDetaches, DaemonPrunes,
     RegisterNetwork, RegisterSwarm, ForgetNetwork, ForgetSwarm, PruneNext, PruneForget,
     SystemPruneForget, PruneDone, FindBridge, CreateBridge, SetManagedNetworkOwner, Ids
<1>1. MadeByCallers'
  <2>1. CASE UNCHANGED <<name, maker>>
    BY <2>1 DEF OriginInv, MadeByCallers
  <2>2. ASSUME NEW n \in Ids, NEW m, Makes(w, n, m) PROVE MadeByCallers'
    <3>1. \A k \in Ids : k # n => name'[k] = name[k] /\ maker'[k] = maker[k]
      BY <2>2 DEF Makes, IInv, TypeOK
    <3>2. maker'[n] = req[w].id
      BY <2>2 DEF Makes, IInv, TypeOK
    <3> QED  BY <1>c, <3>1, <3>2 DEF OriginInv, MadeByCallers
  <2> QED  BY <1>d, <2>1, <2>2
<1>2. Traced(req'[w], name', maker')
  <2>1. CASE req'[w].pc # "register"
    BY <1>c, <2>1, ServeKeepsCaller DEF Traced
  <2>2. CASE req'[w].pc = "register"
    <3>1. DaemonCreates(w) /\ ~Finish(w)
      BY <2>2, ServeKeepsCaller, FinishPc
    <3>2. PICK n \in Ids : Makes(w, n, req[w].ref.name)
                           /\ req' = [req EXCEPT ![w].pc = "register", ![w].n = n]
      BY <3>1 DEF DaemonCreates
    <3>3. req'[w].n = n /\ req'[w].kind = req[w].kind /\ req'[w].id = req[w].id
      BY <1>b, <3>2 DEF Requests
    <3>4. req[w].ref.name \in Names
      BY <1>b, <3>1 DEF DaemonCreates, At, Sound
    <3>5. n \in Of(req[w].kind) /\ name'[n] # NoName /\ maker'[n] = req[w].id
      BY <3>2, <3>4, MakesStep
    <3> QED  BY <1>c, <3>3, <3>5 DEF Traced
  <2> QED  BY <2>1, <2>2
<1>3. ASSUME NEW n \in NetIds PROVE rows'[n] = rows[n] \/ Plain(rows'[n], n, name', maker')
  <2>1. CASE RegisterNetwork(w)
    <3>1. /\ req[w].pc = "register" /\ req[w].kind = "network" /\ UNCHANGED <<name, maker>>
          /\ SetOwner(req[w].n, req[w].id.uid, IsSudoCommand(req[w].id))
      BY <2>1 DEF RegisterNetwork
    <3>2. req[w].n \in Ids /\ maker[req[w].n] = req[w].id
      BY <1>b, <3>1 DEF Traced, Of, Ids
    <3>3. IsSudoCommand(req[w].id) \in BOOLEAN
      BY DEF IsSudoCommand
    <3>4. req[w].n = n => \/ IsSudoCommand(req[w].id)
                          \/ maker'[n].uid = req[w].id.uid /\ maker'[n].mode # "sudo"
      BY <3>1, <3>2 DEF IsSudoCommand
    <3> QED  BY <3>1, <3>2, <3>3, <3>4, WrittenPlain
  <2>2. CASE RegisterSwarm(w)
    <3>1. req[w].n \in SwarmIds /\ SetOwner(req[w].n, req[w].id.uid, FALSE)
      BY <1>b, <2>2 DEF RegisterSwarm, SetSwarmOwner, Traced, Of
    <3>2. req[w].n \in Ids /\ req[w].n # n
      BY <3>1 DEF Ids
    <3> QED  BY <3>1, <3>2, WrittenPlain
  <2>3. CASE SetManagedNetworkOwner(w)
    <3>1. /\ UNCHANGED name /\ SetOwner(req[w].n, req[w].id.uid, FALSE)
          /\ req[w].n \in Ids /\ name[req[w].n] = BridgeName(req[w].id.uid)
      BY <1>b, <2>3 DEF SetManagedNetworkOwner, Sound, Ids
    <3> QED  BY <3>1, WrittenPlain
  <2>4. CASE UNCHANGED rows \/ \E k : DeleteRow(k)
    BY <2>4, DeletedPlain
  <2>5. \/ RegisterNetwork(w) \/ RegisterSwarm(w) \/ SetManagedNetworkOwner(w)
        \/ UNCHANGED rows \/ \E k : DeleteRow(k)
    BY DEF Serve, DaemonCreates, DaemonRemoves, DaemonAttaches, DaemonDetaches, DaemonPrunes,
       ForgetNetwork, ForgetSwarm, PruneNext, PruneForget, SystemPruneForget, PruneDone,
       FindBridge, CreateBridge
  <2> QED  BY <2>1, <2>2, <2>3, <2>4, <2>5
<1> QED  BY <1>a, <1>1, <1>2, <1>3, OriginStep

LEMMA NextOrigin == IInv /\ OriginInv /\ [Next]_vars => OriginInv'
<1> SUFFICES ASSUME IInv, OriginInv, [Next]_vars PROVE OriginInv'
  OBVIOUS
<1>1. ASSUME UNCHANGED <<name, rows, maker>>,
             \A w \in Workers : req'[w] = req[w] \/ req'[w] = IdleRequest
      PROVE  OriginInv'
  <2>1. MadeByCallers' /\ \A n \in NetIds : Plain(rows'[n], n, name', maker')
    BY <1>1 DEF OriginInv, MadeByCallers
  <2>2. \A w \in Workers : Traced(req'[w], name', maker')
    BY <1>1 DEF OriginInv, Traced, IdleRequest
  <2> QED  BY <2>1, <2>2 DEF OriginInv
<1>2. CASE \E n \in NetIds : ContainersEnd(n)
  BY <1>1, <1>2 DEF ContainersEnd
<1>3. CASE Restart
  BY <1>1, <1>3 DEF Restart
<1>4. CASE UNCHANGED vars
  BY <1>1, <1>4 DEF vars
<1> QED  BY <1>2, <1>3, <1>4, ArriveOrigin, ServeOrigin DEF Next

LEMMA OriginInvariant == Spec => []OriginInv
BY Invariant, InitOrigin, NextOrigin, PTL DEF Spec

\* Nobody is a configured privileged user now and a regular user later: the
\* policy file keeps its privileged_users.
FixedPolicy == \A i, j \in Callers : i.uid = j.uid /\ i.mode = "config" => IsPrivileged(j)

LEMMA ListedLeadsBack ==
    ASSUME IInv, CalmInv, OriginInv, FixedPolicy, Quiet,
           NEW id \in Callers, ~IsPrivileged(id), NEW n \in Listed(id.uid), maker[n].uid = id.uid
    PROVE  LET targets == Targets(id, ByName(VisibleName(id.uid, name[n])))
           IN  /\ targets # {}
               /\ \A ref \in targets : Resolves("network", ref, n)
<1>1. n \in up \cap NetIds /\ n \in Found /\ Distinct /\ n \in Ids
  BY DEF Listed, Quiet, CalmInv, Ids
<1>2. name[n] \in Names /\ name[n] # NoName /\ maker[n] \in Callers
  BY <1>1 DEF IInv, TypeOK, UpNamed, OriginInv, MadeByCallers
<1>3. maker[n].mode \in {"regular", "sudo"} /\ id.uid # RootUid
  BY <1>2 DEF FixedPolicy, IsPrivileged, Identities, Modes
<1>4. NameOf(name[n], id.uid)
  <2>1. CASE maker[n].mode = "regular"
    BY <1>1, <1>2, <1>3, <2>1 DEF IInv, NamesOwn, IsPrivileged
  <2>2. CASE maker[n].mode = "sudo"
    <3>1. CASE name[n].form = "user" /\ name[n].uid = id.uid
      BY <1>2, <3>1 DEF NameOf
    <3>2. CASE n \in GetNetworkIDsByOwner(id.uid)
      <4>1. rows[n].found /\ ~rows[n].sudo /\ rows[n].owner = id.uid
        BY <3>2 DEF GetNetworkIDsByOwner, OwnedBy, IsRegistered
      <4>2. Plain(rows[n], n, name, maker)
        BY <1>1 DEF OriginInv
      <4>3. name[n] = BridgeName(id.uid)
        BY <2>2, <4>1, <4>2 DEF Plain
      <4>4. id.uid \in Users
        OBVIOUS
      <4> QED  BY <4>3, <4>4, NamesMade
    <3> QED  BY <3>1, <3>2 DEF Listed
  <2> QED  BY <1>3, <2>1, <2>2
<1>5. OwnedBy(n, id.uid)
  BY <1>1, <1>4 DEF IInv, RowsSound, Touchable, NameOf, Found, OwnedBy, IsRegistered
<1>6. RewriteNetworkURL(id, ByName(VisibleName(id.uid, name[n]))) = ByName(name[n])
  <2>1. CASE name[n].form = "user"
    <3>1. PICK u \in Users, b \in Bases : name[n] = UserName(u, b)
      BY <1>2, <2>1, NameCases DEF BridgeName, BareName
    <3>2. u = id.uid /\ name[n].base = b
      BY <1>4, <3>1 DEF NameOf, UserName
    <3>3. VisibleName(id.uid, name[n]) = BareName(b)
      BY <1>4, <2>1, <3>2 DEF VisibleName, NameOf
    <3>4. BareName(b) # BridgeName(id.uid) /\ BareName(b).base = b
      BY DEF BareName, BridgeName
    <3>5. ByName(BareName(b)).by = "name" /\ ByName(BareName(b)).name = BareName(b)
      BY DEF ByName
    <3> QED  BY <3>1, <3>2, <3>3, <3>4, <3>5 DEF RewriteNetworkURL, InjectNetworkNamePrefix
  <2>2. CASE name[n].form = "bridge"
    <3>1. PICK u \in Users : name[n] = BridgeName(u)
      BY <1>2, <2>2, NameCases DEF UserName, BareName
    <3>2. u = id.uid
      BY <1>4, <3>1 DEF NameOf, BridgeName
    <3>3. VisibleName(id.uid, name[n]) = name[n]
      BY <2>2 DEF VisibleName
    <3>4. ByName(name[n]).name = name[n]
      BY DEF ByName
    <3> QED  BY <3>1, <3>2, <3>3, <3>4 DEF RewriteNetworkURL
  <2> QED  BY <1>4, <2>1, <2>2 DEF NameOf
<1>7. n \in IdsOfName(name[n]) /\ \A k \in IdsOfName(name[n]) : k = n
  BY <1>1, FoundByName
<1>8. ByName(name[n]).by = "name" /\ ByName(name[n]).name = name[n]
  BY DEF ByName
<1>9. Targets(id, ByName(VisibleName(id.uid, name[n]))) = {ByName(name[n])}
  BY <1>5, <1>6, <1>7, <1>8 DEF Targets
<1>10. Resolves("network", ByName(name[n]), n)
  BY <1>1, <1>8 DEF Resolves, Of
<1> QED  BY <1>9, <1>10

\* If the privileged users of the policy do not change, requests that neither
\* overlap nor lose an answer keep every user's list usable: the name he is shown
\* for a network of his leads to that network and to no other
\* (FilterNetworkListResponse, RewriteNetworkURL, checkNetworkAccess), and what he
\* is shown of the swarm he may inspect, update and remove by its id.
THEOREM ListsAreUsable ==
    ASSUME FixedPolicy
    PROVE  Spec => []ListedIsUsable
<1>1. IInv /\ CalmInv /\ OriginInv => ListedIsUsable
  <2> SUFFICES ASSUME IInv, CalmInv, OriginInv, Quiet, NEW id \in Callers, ~IsPrivileged(id)
               PROVE  /\ \A n \in Listed(id.uid) :
                           maker[n].uid = id.uid =>
                               LET targets == Targets(id, ByName(VisibleName(id.uid, name[n])))
                               IN  /\ targets # {}
                                   /\ \A ref \in targets : Resolves("network", ref, n)
                      /\ \A n \in ListedSwarm(id.uid) : SwarmAllowed(id, ById(n))
    BY DEF ListedIsUsable
  <2>1. \A n \in ListedSwarm(id.uid) : SwarmAllowed(id, ById(n))
    BY DEF ListedSwarm, SwarmAllowed, ById, Key
  <2> QED  BY <2>1, ListedLeadsBack
<1> QED  BY <1>1, Invariant, CalmInvariant, OriginInvariant, PTL
=============================================================================
