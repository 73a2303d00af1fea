--------------------------- MODULE AdmissionProofs ---------------------------
(***************************************************************************)
(* Proofs about Admission: whatever the processes, the policy and the      *)
(* other connections do between the stages of a request, what reaches the  *)
(* daemon was allowed and was sent by the user it is served as.            *)
(***************************************************************************)
EXTENDS Admission, FiniteSetTheorems, TLAPS

Clients == UNION {ClientsOf[c] : c \in Conns}
Procs ==
    {[r |-> k.r, e |-> k.e] : k \in Clients} \cup (UNION {ChangesOf[c] : c \in Conns})
    \cup {Exited}
Sent == UNION {CallsOf[c] : c \in Conns}
Ids == IdentitySet \cup {NoIdentity}

Stages == {"arrived", "verified", "marked", "hijack", "checked", "upstream"}
Link == [at : {"dialled", "open"}, client : Clients, proc : Procs, id : Ids]
Work == [at : Stages, call : Sent, id : Ids]

Typed ==
    /\ policy \in Policies
    /\ conn \in [Conns -> Link \cup {Closed}]
    /\ req \in [Conns -> Work \cup {Idle}]
    /\ seen \in [Conns -> SUBSET Policies]
    /\ was \in [Conns -> SUBSET Procs]

Pools ==
    /\ short \in 0..MaxShort /\ short = Cardinality(Holders("short"))
    /\ stream \in 0..MaxStreams /\ stream = Cardinality(Holders("stream"))

\* nobody is root by way of sudo
Proper(id) == id # NoIdentity => id \in IdentitySet /\ (id.type = "sudo" => id.uid # RootUid)

Matches(id, p) ==
    p = Exited \/ (p.e = id.euid /\ (id.type = "regular" => p.r = id.uid))

Allowed(r, s) ==
    LET action == OverrideActionByCommand(r.id.cmd, ClassifyAction(r.call.path))
    IN  \/ isAuxiliaryCall(r.id.cmd, action, r.call.path)
        \/ \E p \in s : ~IsDenied(p, r.id.uid, action)

\* What is known of a request r on a connection k, with the policies s and the
\* processes w it has seen: each stage adds what it has checked.
Sound(pol, k, r, s, w) ==
    /\ k # Closed => Proper(k.id)
    /\ r # Idle => k.at = "open" /\ Proper(r.id)
    /\ r.at \notin {"idle", "upstream"} => pol \in s /\ k.proc \in w
    /\ r.at \notin {"idle", "arrived"} =>
           r.id # NoIdentity /\ (r.id.hasPid => \E p \in w : Matches(r.id, p))
    /\ r.at \in {"marked", "hijack", "checked", "upstream"} =>
           (r.id.config => \E p \in s : IsConfigPrivileged(p, r.id.uid))
    /\ r.at \in {"checked", "upstream"} => Allowed(r, s)

RequestsSound == \A c \in Conns : Sound(policy, conn[c], req[c], seen[c], was[c])

IInv == Typed /\ Pools /\ RequestsSound

-----------------------------------------------------------------------------
(* Identities. *)

LEMMA NoIdentityIsNone == NoIdentity \notin IdentitySet
BY ClientsAssumption DEF NoIdentity, IdentitySet

LEMMA CallerIsProper ==
    ASSUME NEW type \in UserTypes, NEW u \in Uids, NEW e \in Uids,
           NEW cmd \in {NoCommand} \cup DOMAIN cmdTargetActions, type = "sudo" => u # RootUid
    PROVE  /\ CallerOf(type, u, e, cmd) \in IdentitySet
           /\ Proper(CallerOf(type, u, e, cmd))
BY DEF CallerOf, IdentitySet, Proper

LEMMA ResolvedIsProper ==
    ASSUME NEW k \in Clients, NEW p
    PROVE  /\ ResolveCallerIdentity(k, p) \in Ids
           /\ Proper(ResolveCallerIdentity(k, p))
<1> DEFINE gone == p = Exited
           login == IF gone THEN NoUid ELSE k.login
           sudoUid == IF gone THEN NoUid ELSE k.sudo
           cmd == IF gone THEN NoCommand ELSE k.cmd
<1>1. cmd \in {NoCommand} \cup DOMAIN cmdTargetActions
  BY ClientsAssumption DEF Clients
<1>2. ASSUME NEW u, u # RootUid
      PROVE  SudoFrom(u, cmd) \in Ids /\ Proper(SudoFrom(u, cmd))
  <2>1. CASE u \in Uids
    BY <1>1, <1>2, <2>1, CallerIsProper, UidsAssumption DEF SudoFrom, Ids, UserTypes
  <2>2. CASE u \notin Uids
    BY <2>2 DEF SudoFrom, Ids, Proper
  <2> QED  BY <2>1, <2>2
<1>3. /\ CallerOf("root", RootUid, RootUid, cmd) \in Ids
      /\ Proper(CallerOf("root", RootUid, RootUid, cmd))
  BY <1>1, CallerIsProper, UidsAssumption DEF Ids, UserTypes
<1>4. /\ ResolveRoot(login, sudoUid, p, cmd) \in Ids
      /\ Proper(ResolveRoot(login, sudoUid, p, cmd))
  <2> HIDE DEF login, sudoUid, cmd
  <2> QED  BY <1>2, <1>3 DEF ResolveRoot
<1>5. k.e \in Uids => /\ CallerOf("regular", k.e, k.e, cmd) \in Ids
                      /\ Proper(CallerOf("regular", k.e, k.e, cmd))
  BY <1>1, CallerIsProper DEF Ids, UserTypes
<1>6. NoIdentity \in Ids /\ Proper(NoIdentity)
  BY DEF Ids, Proper
<1>7. ResolveCallerIdentity(k, p) \in
          {NoIdentity, ResolveRoot(login, sudoUid, p, cmd)}
          \cup (IF k.e \in Uids THEN {CallerOf("regular", k.e, k.e, cmd)} ELSE {})
  BY DEF ResolveCallerIdentity
<1> HIDE DEF login, sudoUid, cmd
<1> QED  BY <1>4, <1>5, <1>6, <1>7

LEMMA AuthenticatedIsProper ==
    ASSUME NEW k
    PROVE  Authenticate(k) \in Ids /\ Proper(Authenticate(k))
<1>1. CASE k.token \in Uids
  <2>1. TrustToken(k) \in IdentitySet
    BY <1>1 DEF TrustToken, IdentitySet, UserTypes
  <2>2. TrustToken(k).type # "sudo"
    BY DEF TrustToken
  <2> QED  BY <1>1, <2>1, <2>2 DEF Authenticate, Ids, Proper
<1>2. CASE k.token \notin Uids
  BY <1>2 DEF Authenticate, Ids, Proper
<1> QED  BY <1>1, <1>2

\* The check at the request finds the process that is served.
LEMMA VerifiedMatches ==
    ASSUME NEW id \in IdentitySet, NEW p, VerifyIdentityAtRequest(id, p)
    PROVE  id.hasPid => Matches(id, p)
BY DEF VerifyIdentityAtRequest, Matches, IdentitySet

-----------------------------------------------------------------------------
(* Slots.  A request holds one slot from its arrival to its release. *)

LEMMA HoldersFinite ==
    ASSUME NEW b
    PROVE  IsFiniteSet(Holders(b)) /\ Cardinality(Holders(b)) \in Nat
<1>1. Holders(b) \in SUBSET Conns
  BY DEF Holders
<1>2. IsFiniteSet(Holders(b))
  BY <1>1, FS_Subset, ClientsAssumption
<1> QED  BY <1>2, FS_CardinalityType

LEMMA WorkIsNotIdle ==
    /\ \A r \in Work : r # Idle /\ r.at # "idle"
    /\ \A k \in Link : k # Closed /\ k.at # "closed"
    /\ Idle.at = "idle" /\ Closed.at = "closed"
BY DEF Work, Link, Idle, Closed, Stages

LEMMA SlotsKept ==
    ASSUME Typed, Pools, NEW c \in Conns, NEW r \in Work, req[c] \in Work,
           req' = [req EXCEPT ![c] = r], r.call = req[c].call,
           UNCHANGED <<short, stream>>
    PROVE  Pools'
<1>1. \A d \in Conns : (req'[d] # Idle <=> req[d] # Idle) /\
                       (req[d] # Idle => req'[d].call = req[d].call)
  BY WorkIsNotIdle DEF Typed
<1>2. Holders("stream")' = Holders("stream") /\ Holders("short")' = Holders("short")
  BY <1>1 DEF Holders
<1> QED  BY <1>2 DEF Pools

LEMMA SlotsUntouched ==
    ASSUME Pools, UNCHANGED <<req, short, stream>>
    PROVE  Pools'
<1>1. Holders("stream")' = Holders("stream") /\ Holders("short")' = Holders("short")
  BY DEF Holders
<1> QED  BY <1>1 DEF Pools

LEMMA SlotReleased ==
    ASSUME Typed, Pools, NEW c \in Conns, req[c] \in Work, Release(c)
    PROVE  Pools'
<1>1. \A d \in Conns : req'[d] = IF d = c THEN Idle ELSE req[d]
  BY DEF Release, Typed
<1>2. ASSUME NEW pool, pool = PoolOf(req[c].call)
      PROVE  /\ Cardinality(Holders(pool))' = Cardinality(Holders(pool)) - 1
             /\ Cardinality(Holders(pool)) - 1 \in Nat
  <2>1. Holders(pool)' = Holders(pool) \ {c} /\ c \in Holders(pool)
    BY <1>1, <1>2, WorkIsNotIdle DEF Holders
  <2>2. /\ Cardinality(Holders(pool) \ {c}) = Cardinality(Holders(pool)) - 1
        /\ Cardinality(Holders(pool) \ {c}) \in Nat
    BY <2>1, HoldersFinite, FS_RemoveElement, FS_CardinalityType
  <2> QED  BY <2>1, <2>2
<1>3. ASSUME NEW pool, pool # PoolOf(req[c].call)
      PROVE  Cardinality(Holders(pool))' = Cardinality(Holders(pool))
  <2>1. Holders(pool)' = Holders(pool)
    BY <1>1, <1>3, WorkIsNotIdle DEF Holders
  <2> QED  BY <2>1
<1>4. CASE TakesStream(req[c].call)
  <2>1. stream' = stream - 1 /\ short' = short /\ PoolOf(req[c].call) = "stream"
    BY <1>4 DEF Release, PoolOf
  <2> QED  BY <2>1, <1>2, <1>3, SlotsAssumption DEF Pools
<1>5. CASE ~TakesStream(req[c].call)
  <2>1. short' = short - 1 /\ stream' = stream /\ PoolOf(req[c].call) = "short"
    BY <1>5 DEF Release, PoolOf
  <2> QED  BY <2>1, <1>2, <1>3, SlotsAssumption DEF Pools
<1> QED  BY <1>4, <1>5

LEMMA SlotTaken ==
    ASSUME Typed, Pools, NEW c \in Conns, NEW call, req[c] = Idle,
           NEW r \in Work, r.call = call, req' = [req EXCEPT ![c] = r],
           \/ ~TakesStream(call) /\ short < MaxShort /\ short' = short + 1 /\ stream' = stream
           \/ TakesStream(call) /\ stream < MaxStreams /\ stream' = stream + 1 /\ short' = short
    PROVE  Pools'
<1>1. \A d \in Conns : req'[d] = IF d = c THEN r ELSE req[d]
  BY DEF Typed
<1>2. ASSUME NEW pool, pool = PoolOf(call)
      PROVE  Cardinality(Holders(pool))' = Cardinality(Holders(pool)) + 1
  <2>1. Holders(pool)' = Holders(pool) \cup {c} /\ c \notin Holders(pool)
    BY <1>1, <1>2, WorkIsNotIdle DEF Holders
  <2>2. Cardinality(Holders(pool) \cup {c}) = Cardinality(Holders(pool)) + 1
    BY <2>1, HoldersFinite, FS_AddElement
  <2> QED  BY <2>1, <2>2
<1>3. ASSUME NEW pool, pool # PoolOf(call)
      PROVE  Cardinality(Holders(pool))' = Cardinality(Holders(pool))
  <2>1. Holders(pool)' = Holders(pool)
    BY <1>1, <1>3, WorkIsNotIdle DEF Holders
  <2> QED  BY <2>1
<1>4. CASE TakesStream(call)
  <2>1. PoolOf(call) = "stream"
    BY <1>4 DEF PoolOf
  <2> QED  BY <1>4, <2>1, <1>2, <1>3, SlotsAssumption DEF Pools
<1>5. CASE ~TakesStream(call)
  <2>1. PoolOf(call) = "short"
    BY <1>5 DEF PoolOf
  <2> QED  BY <1>5, <2>1, <1>2, <1>3, SlotsAssumption DEF Pools
<1> QED  BY <1>4, <1>5

-----------------------------------------------------------------------------
(* Steps of one connection leave the others alone. *)

LEMMA OneConnection ==
    ASSUME RequestsSound, NEW c \in Conns, policy' = policy,
           \A d \in Conns \ {c} : /\ conn'[d] = conn[d] /\ req'[d] = req[d]
                                  /\ seen'[d] = seen[d] /\ was'[d] = was[d],
           Sound(policy, conn'[c], req'[c], seen'[c], was'[c])
    PROVE  RequestsSound'
<1> SUFFICES ASSUME NEW d \in Conns
             PROVE  Sound(policy', conn'[d], req'[d], seen'[d], was'[d])
  BY DEF RequestsSound
<1>1. CASE d = c
  BY <1>1
<1>2. CASE d # c
  <2>1. Sound(policy, conn[d], req[d], seen[d], was[d])
    BY DEF RequestsSound
  <2>2. /\ conn'[d] = conn[d] /\ req'[d] = req[d]
        /\ seen'[d] = seen[d] /\ was'[d] = was[d]
    BY <1>2
  <2> QED  BY <2>1, <2>2
<1> QED  BY <1>1, <1>2

\* A request that ends forgets everything.
LEMMA ReleaseSound ==
    ASSUME IInv, NEW c \in Conns, req[c] \in Work, Release(c), policy' = policy,
           conn' = conn \/ conn' = [conn EXCEPT ![c] = Closed]
    PROVE  IInv'
<1>1. Pools'
  BY SlotReleased DEF IInv
<1>2. Typed'
  BY DEF IInv, Typed, Release
<1>3. /\ req'[c] = Idle /\ (conn'[c] = conn[c] \/ conn'[c] = Closed)
      /\ \A d \in Conns \ {c} : /\ conn'[d] = conn[d] /\ req'[d] = req[d]
                                /\ seen'[d] = seen[d] /\ was'[d] = was[d]
  BY DEF IInv, Typed, Release
<1>4. Sound(policy, conn[c], req[c], seen[c], was[c])
  BY DEF IInv, RequestsSound
<1>5. Sound(policy, conn'[c], req'[c], seen'[c], was'[c])
  BY <1>3, <1>4, WorkIsNotIdle DEF Sound
<1>6. RequestsSound'
  BY <1>3, <1>5, OneConnection DEF IInv
<1> QED  BY <1>1, <1>2, <1>6 DEF IInv

\* A request that goes on keeps its slot.
LEMMA AdvanceSound ==
    ASSUME IInv, NEW c \in Conns, NEW r \in Work, req[c] \in Work,
           r.call = req[c].call, req' = [req EXCEPT ![c] = r],
           conn' \in [Conns -> Link \cup {Closed}],
           \A d \in Conns \ {c} : conn'[d] = conn[d],
           UNCHANGED <<policy, short, stream, seen, was>>,
           Sound(policy, conn'[c], r, seen[c], was[c])
    PROVE  IInv'
<1>1. Pools'
  BY SlotsKept DEF IInv
<1>2. Typed'
  BY DEF IInv, Typed
<1>3. /\ req'[c] = r
      /\ \A d \in Conns \ {c} : /\ conn'[d] = conn[d] /\ req'[d] = req[d]
                                /\ seen'[d] = seen[d] /\ was'[d] = was[d]
  BY DEF IInv, Typed
<1>4. RequestsSound'
  BY <1>3, OneConnection DEF IInv
<1> QED  BY <1>1, <1>2, <1>4 DEF IInv

\* A step of the connection itself, which touches no request.
LEMMA ConnectionSound ==
    ASSUME IInv, NEW c \in Conns, conn' \in [Conns -> Link \cup {Closed}],
           was' \in [Conns -> SUBSET Procs],
           \A d \in Conns \ {c} : conn'[d] = conn[d] /\ was'[d] = was[d],
           UNCHANGED <<policy, req, short, stream, seen>>,
           Sound(policy, conn'[c], req[c], seen[c], was'[c])
    PROVE  IInv'
<1>1. Pools'
  BY SlotsUntouched DEF IInv
<1>2. Typed'
  BY DEF IInv, Typed
<1>3. RequestsSound'
  BY OneConnection DEF IInv
<1> QED  BY <1>1, <1>2, <1>3 DEF IInv

LEMMA ConnectSound ==
    ASSUME IInv, NEW c \in Conns, Connect(c)
    PROVE  IInv'
<1>1. PICK k \in ClientsOf[c] :
          conn' = [conn EXCEPT ![c] =
              [at |-> "dialled", client |-> k, proc |-> [r |-> k.r, e |-> k.e],
               id |-> NoIdentity]]
  BY DEF Connect
<1> DEFINE l == [at |-> "dialled", client |-> k, proc |-> [r |-> k.r, e |-> k.e],
                 id |-> NoIdentity]
<1>2. k \in Clients
  BY DEF Clients
<1>3. l \in Link
  BY <1>2 DEF Link, Procs, Ids
<1>4. Sound(policy, conn[c], req[c], seen[c], was[c]) /\ conn[c] = Closed
  BY DEF IInv, RequestsSound, Connect
<1>5. req[c] = Idle
  BY <1>4, WorkIsNotIdle DEF Sound
<1>6. Sound(policy, l, req[c], seen[c], was[c])
  BY <1>5, WorkIsNotIdle DEF Sound, Proper
<1>7. conn' \in [Conns -> Link \cup {Closed}] /\ conn'[c] = l
      /\ \A d \in Conns \ {c} : conn'[d] = conn[d]
  BY <1>1, <1>3 DEF IInv, Typed
<1> HIDE DEF l
<1>8. UNCHANGED <<policy, req, short, stream, seen, was>> /\ was' \in [Conns -> SUBSET Procs]
  BY DEF Connect, IInv, Typed
<1> QED  BY <1>6, <1>7, <1>8, ConnectionSound

LEMMA AcceptSound ==
    ASSUME IInv, NEW c \in Conns, Accept(c)
    PROVE  IInv'
<1> DEFINE id == IF conn[c].proc = Tcp THEN NoIdentity
                 ELSE ResolveCallerIdentity(conn[c].client, conn[c].proc)
           l == [conn[c] EXCEPT !.at = "open", !.id = id]
<1>1. conn[c] \in Link
  BY WorkIsNotIdle DEF IInv, Typed, Accept
<1>2. id \in Ids /\ Proper(id)
  BY <1>1, ResolvedIsProper DEF Link, Ids, Proper
<1>3. Sound(policy, conn[c], req[c], seen[c], was[c]) /\ conn[c].at = "dialled"
  BY DEF IInv, RequestsSound, Accept
<1>4. req[c] = Idle
  BY <1>3 DEF Sound
<1>5. l \in Link /\ l.id = id
  BY <1>1, <1>2 DEF Link
<1>6. conn' = [conn EXCEPT ![c] = l]
  <2>1. conn' = [conn EXCEPT ![c].at = "open", ![c].id = id]
    BY DEF Accept
  <2> HIDE DEF id
  <2>2. conn' = [[conn EXCEPT ![c] = [conn[c] EXCEPT !.at = "open"]] EXCEPT ![c].id = id]
    BY <2>1
  <2> QED  BY <2>2 DEF IInv, Typed
<1> HIDE DEF l, id
<1>7. Sound(policy, l, req[c], seen[c], was[c])
  BY <1>2, <1>4, <1>5, WorkIsNotIdle DEF Sound
<1>8. conn' \in [Conns -> Link \cup {Closed}] /\ conn'[c] = l
      /\ \A d \in Conns \ {c} : conn'[d] = conn[d]
  BY <1>5, <1>6 DEF IInv, Typed
<1>9. UNCHANGED <<policy, req, short, stream, seen, was>> /\ was' \in [Conns -> SUBSET Procs]
  BY DEF Accept, IInv, Typed
<1> QED  BY <1>7, <1>8, <1>9, ConnectionSound

LEMMA DisconnectSound ==
    ASSUME IInv, NEW c \in Conns, Disconnect(c)
    PROVE  IInv'
<1>1. Sound(policy, Closed, req[c], seen[c], was[c])
  BY WorkIsNotIdle DEF Disconnect, Sound
<1>2. conn' \in [Conns -> Link \cup {Closed}] /\ conn'[c] = Closed
      /\ \A d \in Conns \ {c} : conn'[d] = conn[d]
  BY DEF Disconnect, IInv, Typed
<1>3. UNCHANGED <<policy, req, short, stream, seen, was>> /\ was' \in [Conns -> SUBSET Procs]
  BY DEF Disconnect, IInv, Typed
<1> QED  BY <1>1, <1>2, <1>3, ConnectionSound

LEMMA ProcessChangesSound ==
    ASSUME IInv, NEW c \in Conns, ProcessChanges(c)
    PROVE  IInv'
<1>1. PICK p \in ChangesOf[c] \cup {Exited} :
          /\ conn' = [conn EXCEPT ![c].proc = p]
          /\ was' = [was EXCEPT ![c] = IF Pending(c) THEN @ \cup {p} ELSE @]
  BY DEF ProcessChanges
<1> DEFINE l == [conn[c] EXCEPT !.proc = p]
<1>2. conn[c] \in Link
  BY WorkIsNotIdle DEF IInv, Typed, ProcessChanges
<1>3. p \in Procs
  BY DEF Procs
<1>4. l \in Link /\ l.proc = p /\ l.at = conn[c].at /\ l.id = conn[c].id
  BY <1>2, <1>3 DEF Link
<1>5. conn' = [conn EXCEPT ![c] = l]
  BY <1>1
<1> HIDE DEF l
<1>6. /\ was' \in [Conns -> SUBSET Procs]
      /\ was'[c] = IF Pending(c) THEN was[c] \cup {p} ELSE was[c]
      /\ conn' \in [Conns -> Link \cup {Closed}] /\ conn'[c] = l
      /\ \A d \in Conns \ {c} : conn'[d] = conn[d] /\ was'[d] = was[d]
  BY <1>1, <1>3, <1>4, <1>5 DEF IInv, Typed
<1>7. Sound(policy, conn[c], req[c], seen[c], was[c])
  BY DEF IInv, RequestsSound
<1>8. Sound(policy, l, req[c], seen[c], was'[c])
  BY <1>2, <1>4, <1>6, <1>7, WorkIsNotIdle DEF Sound, Pending
<1>9. UNCHANGED <<policy, req, short, stream, seen>>
  BY DEF ProcessChanges
<1> QED  BY <1>6, <1>8, <1>9, ConnectionSound

LEMMA UpdatePolicySound ==
    ASSUME IInv, UpdatePolicy
    PROVE  IInv'
<1>1. PICK p \in Policies :
          /\ policy' = p
          /\ seen' = [c \in Conns |-> IF Pending(c) THEN seen[c] \cup {p} ELSE seen[c]]
  BY DEF UpdatePolicy
<1>2. UNCHANGED <<conn, req, short, stream, was>>
  BY DEF UpdatePolicy
<1>3. Typed'
  BY <1>1, <1>2 DEF IInv, Typed
<1>4. Pools'
  BY <1>2, SlotsUntouched DEF IInv
<1>5. ASSUME NEW c \in Conns
      PROVE  Sound(p, conn[c], req[c], seen'[c], was[c])
  <2>1. Sound(policy, conn[c], req[c], seen[c], was[c])
    BY DEF IInv, RequestsSound
  <2>2. seen'[c] = IF Pending(c) THEN seen[c] \cup {p} ELSE seen[c]
    BY <1>1
  <2>3. Allowed(req[c], seen[c]) => Allowed(req[c], seen'[c])
    BY <2>2 DEF Allowed
  <2> QED  BY <2>1, <2>2, <2>3 DEF Sound, Pending
<1>6. RequestsSound'
  BY <1>1, <1>2, <1>5 DEF RequestsSound
<1> QED  BY <1>3, <1>4, <1>6 DEF IInv

-----------------------------------------------------------------------------
(* The stages of a request. *)

LEMMA EnterSound ==
    ASSUME IInv, NEW c \in Conns, NEW call \in CallsOf[c],
           conn[c].at = "open", req[c] = Idle,
           ShortRequest(c, call) \/ StreamRequest(c, call)
    PROVE  IInv'
<1> DEFINE r == [at |-> "arrived", call |-> call, id |-> conn[c].id]
<1>1. conn[c] \in Link
  BY WorkIsNotIdle DEF IInv, Typed
<1>2. call \in Sent
  BY DEF Sent
<1>3. r \in Work /\ r.call = call /\ r.at = "arrived" /\ r.id = conn[c].id
  BY <1>1, <1>2 DEF Work, Link, Stages
<1>4. /\ req' = [req EXCEPT ![c] = r]
      /\ seen' = [seen EXCEPT ![c] = {policy}]
      /\ was' = [was EXCEPT ![c] = {conn[c].proc}]
      /\ UNCHANGED <<policy, conn>>
  BY DEF ShortRequest, StreamRequest, Enter
<1> HIDE DEF r
<1>5. Pools'
  BY <1>3, <1>4, SlotTaken DEF IInv, ShortRequest, StreamRequest
<1>6. conn[c].proc \in Procs
  BY <1>1 DEF Link
<1>7. Typed'
  BY <1>3, <1>4, <1>6 DEF IInv, Typed
<1>8. /\ req'[c] = r /\ seen'[c] = {policy} /\ was'[c] = {conn[c].proc} /\ conn'[c] = conn[c]
      /\ \A d \in Conns \ {c} : /\ conn'[d] = conn[d] /\ req'[d] = req[d]
                                /\ seen'[d] = seen[d] /\ was'[d] = was[d]
  BY <1>4 DEF IInv, Typed
<1>9. Sound(policy, conn[c], req[c], seen[c], was[c])
  BY DEF IInv, RequestsSound
<1>10. Sound(policy, conn'[c], req'[c], seen'[c], was'[c])
  BY <1>1, <1>3, <1>8, <1>9, WorkIsNotIdle DEF Sound
<1>11. RequestsSound'
  BY <1>4, <1>8, <1>10, OneConnection DEF IInv
<1> QED  BY <1>5, <1>7, <1>11 DEF IInv

LEMMA Unmoved ==
    ASSUME IInv, UNCHANGED vars
    PROVE  IInv'
BY DEF IInv, Typed, Pools, Holders, RequestsSound, vars

LEMMA RequestSound ==
    ASSUME IInv, NEW c \in Conns, Request(c)
    PROVE  IInv'
BY EnterSound, Unmoved DEF Request, Busy

LEMMA InWork ==
    ASSUME IInv, NEW c \in Conns, req[c].at # "idle"
    PROVE  /\ req[c] \in Work /\ conn[c] \in Link
           /\ Sound(policy, conn[c], req[c], seen[c], was[c])
<1>1. req[c] \in Work
  BY WorkIsNotIdle DEF IInv, Typed
<1>2. Sound(policy, conn[c], req[c], seen[c], was[c])
  BY DEF IInv, RequestsSound
<1>3. conn[c].at = "open"
  BY <1>1, <1>2, WorkIsNotIdle DEF Sound
<1> QED  BY <1>1, <1>2, <1>3, WorkIsNotIdle DEF IInv, Typed

LEMMA IdentifySound ==
    ASSUME IInv, NEW c \in Conns, Identify(c)
    PROVE  IInv'
<1> DEFINE id == IF req[c].id # NoIdentity THEN req[c].id
                 ELSE Authenticate(conn[c].client)
           r == [req[c] EXCEPT !.at = "verified", !.id = id]
<1>1. /\ req[c].at = "arrived" /\ req[c] \in Work /\ conn[c] \in Link
      /\ Sound(policy, conn[c], req[c], seen[c], was[c])
  BY InWork DEF Identify
<1>2. id \in Ids /\ Proper(id)
  BY <1>1, AuthenticatedIsProper, WorkIsNotIdle DEF Work, Sound
<1>3. CASE id # NoIdentity /\ VerifyIdentityAtRequest(id, conn[c].proc)
  <2>1. r \in Work /\ r.at = "verified" /\ r.id = id /\ r.call = req[c].call
    BY <1>1, <1>2 DEF Work, Stages
  <2>2. req' = [req EXCEPT ![c].at = "verified", ![c].id = id]
        /\ UNCHANGED <<policy, conn, short, stream, seen, was>>
    BY <1>3 DEF Identify
  <2>3. req' = [req EXCEPT ![c] = r]
    <3> HIDE DEF id
    <3>1. req' = [[req EXCEPT ![c] = [req[c] EXCEPT !.at = "verified"]] EXCEPT ![c].id = id]
      BY <2>2
    <3> QED  BY <3>1 DEF IInv, Typed
  <2>4. id \in IdentitySet
    BY <1>2, <1>3 DEF Proper
  <2>5. id.hasPid => Matches(id, conn[c].proc)
    BY <1>3, <2>4, VerifiedMatches
  <2> HIDE DEF r, id
  <2>6. Sound(policy, conn[c], r, seen[c], was[c])
    BY <1>1, <1>2, <1>3, <2>1, <2>5, WorkIsNotIdle DEF Sound
  <2> QED  BY <1>1, <2>1, <2>2, <2>3, <2>6, AdvanceSound DEF IInv, Typed
<1>4. CASE ~(id # NoIdentity /\ VerifyIdentityAtRequest(id, conn[c].proc))
  <2>1. Release(c) /\ UNCHANGED <<policy, conn>>
    BY <1>4 DEF Identify
  <2> QED  BY <1>1, <2>1, ReleaseSound
<1> QED  BY <1>3, <1>4

LEMMA MarkSound ==
    ASSUME IInv, NEW c \in Conns, Mark(c)
    PROVE  IInv'
<1>1. PICK config \in BOOLEAN : config = IsConfigPrivileged(policy, req[c].id.uid)
  <2>1. IsConfigPrivileged(policy, req[c].id.uid) \in BOOLEAN
    BY DEF IsConfigPrivileged
  <2> QED  BY <2>1, Zenon
<1> DEFINE r == [req[c] EXCEPT !.at = "marked", !.id = [req[c].id EXCEPT !.config = config]]
           l == IF conn[c].id = NoIdentity THEN conn[c]
                ELSE [conn[c] EXCEPT !.id = [conn[c].id EXCEPT !.config = config]]
<1>2. /\ req[c].at = "verified" /\ req[c] \in Work /\ conn[c] \in Link
      /\ Sound(policy, conn[c], req[c], seen[c], was[c])
  BY InWork DEF Mark, Marked
<1>3. req[c].id \in IdentitySet /\ req[c].id # NoIdentity
  BY <1>2, WorkIsNotIdle DEF Sound, Proper
<1>4. ASSUME NEW i \in IdentitySet
      PROVE  LET j == [i EXCEPT !.config = config]
             IN  /\ j \in IdentitySet /\ j.config = config /\ j.uid = i.uid
                 /\ j.type = i.type /\ j.hasPid = i.hasPid /\ j.euid = i.euid
                 /\ j # NoIdentity
  BY <1>4, <1>1, NoIdentityIsNone DEF IdentitySet
<1>5. /\ r \in Work /\ r.at = "marked" /\ r.call = req[c].call
      /\ r.id = [req[c].id EXCEPT !.config = config]
  BY <1>2, <1>3, <1>4 DEF Work, Stages, Ids
<1>6. conn[c].id # NoIdentity => conn[c].id \in IdentitySet
  BY <1>2, WorkIsNotIdle DEF Sound, Proper
<1>7. /\ l \in Link /\ l.at = conn[c].at /\ l.proc = conn[c].proc /\ Proper(l.id)
  <2>1. CASE conn[c].id = NoIdentity
    BY <1>2, <2>1 DEF Proper
  <2>2. CASE conn[c].id # NoIdentity
    <3>1. [conn[c].id EXCEPT !.config = config] \in Ids
      BY <1>4, <1>6, <2>2 DEF Ids
    <3>2. Proper([conn[c].id EXCEPT !.config = config])
      BY <1>2, <1>4, <1>6, <2>2, WorkIsNotIdle DEF Sound, Proper
    <3> QED  BY <1>2, <2>2, <3>1, <3>2 DEF Link
  <2> QED  BY <2>1, <2>2
<1>8. req' = [req EXCEPT ![c].at = "marked", ![c].id.config = config]
  BY <1>1 DEF Mark, Marked
<1>9. req' = [req EXCEPT ![c] = r]
  <2>1. req' = [[req EXCEPT ![c] = [req[c] EXCEPT !.at = "marked"]] EXCEPT ![c].id.config = config]
    BY <1>8
  <2>2. [req[c] EXCEPT !.at = "marked"].id = req[c].id
    BY <1>2 DEF Work
  <2> QED  BY <2>1, <2>2 DEF IInv, Typed
<1>10. conn' = [conn EXCEPT ![c] = l]
  <2>1. conn' = IF conn[c].id = NoIdentity THEN conn
                ELSE [conn EXCEPT ![c].id.config = config]
    BY <1>1 DEF Mark, Marked
  <2>2. conn = [conn EXCEPT ![c] = conn[c]]
    BY DEF IInv, Typed
  <2> QED  BY <2>1, <2>2
<1>11. UNCHANGED <<policy, short, stream, seen, was>>
  BY DEF Mark, Marked
<1> HIDE DEF l, r
<1>12. Proper(r.id)
  BY <1>2, <1>3, <1>4, <1>5, WorkIsNotIdle DEF Sound, Proper
<1>13. r.id.hasPid => \E p \in was[c] : Matches(r.id, p)
  BY <1>2, <1>3, <1>4, <1>5 DEF Sound, Matches
<1>14. r.id.config => IsConfigPrivileged(policy, r.id.uid)
  BY <1>1, <1>3, <1>4, <1>5
<1>15. Sound(policy, l, r, seen[c], was[c])
  BY <1>2, <1>3, <1>4, <1>5, <1>7, <1>12, <1>13, <1>14, WorkIsNotIdle DEF Sound
<1>16. conn' \in [Conns -> Link \cup {Closed}] /\ conn'[c] = l
       /\ \A d \in Conns \ {c} : conn'[d] = conn[d]
  BY <1>7, <1>10 DEF IInv, Typed
<1> QED  BY <1>2, <1>5, <1>9, <1>11, <1>15, <1>16, AdvanceSound

\* What the policy in force does not refuse is allowed by a policy the request
\* has seen.
LEMMA NotRefused ==
    ASSUME NEW c \in Conns, policy \in seen[c],
           ~Refused(c, OverrideActionByCommand(req[c].id.cmd, ClassifyAction(req[c].call.path)))
    PROVE  Allowed(req[c], seen[c])
BY DEF Refused, Allowed

\* A stage that only moves the request on.
LEMMA MovedOn ==
    ASSUME IInv, NEW c \in Conns, NEW at \in Stages, req[c] \in Work,
           req' = [req EXCEPT ![c].at = at],
           UNCHANGED <<policy, conn, short, stream, seen, was>>,
           at # "verified", at # "arrived",
           req[c].at \in {"marked", "hijack", "checked"},
           at \in {"checked", "upstream"} => Allowed(req[c], seen[c])
    PROVE  IInv'
<1> DEFINE r == [req[c] EXCEPT !.at = at]
<1>1. Sound(policy, conn[c], req[c], seen[c], was[c])
  BY DEF IInv, RequestsSound
<1>2. r \in Work /\ r.at = at /\ r.id = req[c].id /\ r.call = req[c].call
  BY DEF Work
<1>3. req' = [req EXCEPT ![c] = r]
  OBVIOUS
<1> HIDE DEF r
<1>4. Allowed(r, seen[c]) <=> Allowed(req[c], seen[c])
  BY <1>2 DEF Allowed
<1>5. Sound(policy, conn[c], r, seen[c], was[c])
  BY <1>1, <1>2, <1>4, WorkIsNotIdle DEF Sound, Stages
<1> QED  BY <1>2, <1>3, <1>5, AdvanceSound DEF IInv, Typed

LEMMA CheckPolicySound ==
    ASSUME IInv, NEW c \in Conns, CheckPolicy(c)
    PROVE  IInv'
<1> DEFINE hijack == isHijackRequest(req[c].call)
           class == ClassifyAction(req[c].call.path)
           action == IF hijack THEN class ELSE OverrideActionByCommand(req[c].id.cmd, class)
           at == IF hijack THEN "hijack" ELSE "checked"
<1>1. /\ req[c].at = "marked" /\ req[c] \in Work
      /\ Sound(policy, conn[c], req[c], seen[c], was[c])
  BY InWork DEF CheckPolicy
<1>2. CASE Refused(c, action)
  BY <1>1, <1>2, ReleaseSound DEF CheckPolicy
<1>3. CASE ~Refused(c, action)
  <2>1. /\ req' = [req EXCEPT ![c].at = at]
        /\ UNCHANGED <<policy, conn, short, stream, seen, was>>
    BY <1>3 DEF CheckPolicy
  <2>2. at = "checked" => Allowed(req[c], seen[c])
    BY <1>1, <1>3, NotRefused DEF Sound
  <2>3. at \in {"hijack", "checked"}
    OBVIOUS
  <2> HIDE DEF at
  <2> QED  BY <1>1, <2>1, <2>2, <2>3, MovedOn DEF Stages
<1> QED  BY <1>2, <1>3

LEMMA CheckHijackSound ==
    ASSUME IInv, NEW c \in Conns, CheckHijack(c)
    PROVE  IInv'
<1> DEFINE action == OverrideActionByCommand(req[c].id.cmd, ClassifyAction(req[c].call.path))
<1>1. /\ req[c].at = "hijack" /\ req[c] \in Work
      /\ Sound(policy, conn[c], req[c], seen[c], was[c])
  BY InWork DEF CheckHijack
<1>2. CASE Refused(c, action)
  BY <1>1, <1>2, ReleaseSound DEF CheckHijack
<1>3. CASE ~Refused(c, action)
  <2>1. /\ req' = [req EXCEPT ![c].at = "checked"]
        /\ UNCHANGED <<policy, conn, short, stream, seen, was>>
    BY <1>3 DEF CheckHijack
  <2>2. Allowed(req[c], seen[c])
    BY <1>1, <1>3, NotRefused DEF Sound
  <2> QED  BY <1>1, <2>1, <2>2, MovedOn DEF Stages
<1> QED  BY <1>2, <1>3

LEMMA DispatchSound ==
    ASSUME IInv, NEW c \in Conns, Dispatch(c)
    PROVE  IInv'
<1>1. /\ req[c].at = "checked" /\ req[c] \in Work
      /\ Sound(policy, conn[c], req[c], seen[c], was[c])
  BY InWork DEF Dispatch
<1>2. CASE Release(c)
  BY <1>1, <1>2, ReleaseSound DEF Dispatch
<1>3. CASE /\ req' = [req EXCEPT ![c].at = "upstream"]
           /\ UNCHANGED <<policy, conn, short, stream, seen, was>>
  <2>1. Allowed(req[c], seen[c])
    BY <1>1 DEF Sound
  <2> QED  BY <1>1, <1>3, <2>1, MovedOn DEF Stages
<1> QED  BY <1>2, <1>3 DEF Dispatch

LEMMA EndSound ==
    ASSUME IInv, NEW c \in Conns, Finish(c) \/ ClientLeaves(c)
    PROVE  IInv'
<1>1. req[c] \in Work
  BY InWork DEF Finish, ClientLeaves
<1>2. /\ Release(c) /\ policy' = policy
      /\ conn' = conn \/ conn' = [conn EXCEPT ![c] = Closed]
  BY DEF Finish, ClientLeaves
<1> QED  BY <1>1, <1>2, ReleaseSound

-----------------------------------------------------------------------------
LEMMA InitIInv == Init => IInv
<1> SUFFICES ASSUME Init PROVE IInv
  OBVIOUS
<1>1. Typed
  BY DEF Init, Typed
<1>2. Holders("short") = {} /\ Holders("stream") = {}
  BY DEF Init, Holders
<1>3. Pools
  BY <1>2, FS_EmptySet, SlotsAssumption DEF Init, Pools
<1>4. RequestsSound
  BY WorkIsNotIdle DEF Init, RequestsSound, Sound
<1> QED  BY <1>1, <1>3, <1>4 DEF IInv

LEMMA NextIInv == IInv /\ [Next]_vars => IInv'
<1> SUFFICES ASSUME IInv, [Next]_vars PROVE IInv'
  OBVIOUS
<1>1. CASE UNCHANGED vars
  BY <1>1, Unmoved
<1>2. CASE UpdatePolicy
  BY <1>2, UpdatePolicySound
<1>3. ASSUME NEW c \in Conns,
             \/ Connect(c) \/ Accept(c) \/ Disconnect(c) \/ ProcessChanges(c)
             \/ Request(c) \/ Step(c) \/ Finish(c) \/ ClientLeaves(c)
      PROVE  IInv'
  BY <1>3, ConnectSound, AcceptSound, DisconnectSound, ProcessChangesSound, RequestSound,
     IdentifySound, MarkSound, CheckPolicySound, CheckHijackSound, DispatchSound, EndSound
     DEF Step
<1> QED  BY <1>1, <1>2, <1>3 DEF Next

LEMMA Invariant == Spec => []IInv
BY InitIInv, NextIInv, PTL DEF Spec

-----------------------------------------------------------------------------
(* Theorems. *)

\* The variables keep their types, whoever is admitted is a caller of the other
\* modules (an identity that came by sudo is never root's own), and each of the
\* two pools of slots counts exactly the requests of its kind under way: no
\* return from ServeHTTP keeps a slot or gives one back twice.
THEOREM TypeCorrect == Spec => []TypeOK
<1>1. IInv => TypeOK
  <2> SUFFICES ASSUME IInv PROVE TypeOK
    OBVIOUS
  <2>1. ASSUME NEW c \in Conns
        PROVE  /\ conn[c].at \in {"closed", "dialled", "open"}
               /\ req[c].at \in {"idle", "arrived", "verified", "marked", "hijack",
                                 "checked", "upstream"}
    BY WorkIsNotIdle DEF IInv, Typed, Link, Work, Stages
  <2>2. ASSUME NEW c \in Conns, req[c].at \notin {"idle", "arrived"}
        PROVE  req[c].id \in IdentitySet /\ AsCaller(req[c].id) \in Identities
    <3>1. Sound(policy, conn[c], req[c], seen[c], was[c]) /\ req[c] # Idle
      BY <2>2, WorkIsNotIdle DEF IInv, RequestsSound
    <3>2. req[c].id \in IdentitySet /\ (req[c].id.type = "sudo" => req[c].id.uid # RootUid)
      BY <2>2, <3>1 DEF Sound, Proper
    <3> QED  BY <3>2 DEF AsCaller, Identities, Modes, IdentitySet
  <2> QED  BY <2>1, <2>2 DEF TypeOK, IInv, Typed, Pools
<1> QED  BY <1>1, Invariant, PTL

\* A request reaches the daemon with a configured privilege, and past the deny
\* rules, only by a policy that was in force since it arrived, however often the
\* policy is replaced between the stages of ServeHTTP and handleHijack and
\* whatever the connection was once granted.
THEOREM PolicyAlwaysGoverns == Spec => []PolicyGoverns
<1>1. IInv => PolicyGoverns
  BY DEF IInv, RequestsSound, Sound, Allowed, PolicyGoverns
<1> QED  BY <1>1, Invariant, PTL

\* A request reaches the daemon only under uids that its process had at some
\* moment since the request arrived (VerifyIdentityAtRequest), whatever the
\* process was when it connected.
THEOREM AlwaysServedAsItself == Spec => []ServedAsItself
<1>1. IInv => ServedAsItself
  BY DEF IInv, RequestsSound, Sound, Matches, ServedAsItself
<1> QED  BY <1>1, Invariant, PTL
=============================================================================
