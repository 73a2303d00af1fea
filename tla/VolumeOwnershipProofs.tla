------------------------ MODULE VolumeOwnershipProofs ------------------------
(***************************************************************************)
(* What holds of volumes for every set of names, callers and workers.      *)
(***************************************************************************)
EXTENDS VolumeOwnership, TLAPS

\* A step that needs a volume has one.
StepsKnowVolume ==
    /\ \A w \in Workers : req[w].pc \notin {"idle", "prune"} => req[w].v \in Volumes
    /\ cleaner.pc \in {"remove", "forget"} => cleaner.v \in Volumes

IInv == TypeOK /\ StepsKnowVolume

LEMMA IdleTypes ==
    /\ IdleRequest \in Requests
    /\ IdleCleaner \in [pc : {"idle", "list", "check", "remove", "forget"},
                        owned : SUBSET Volumes, todo : SUBSET Volumes, v : Volumes \cup {NoVolume}]
BY UidsAssumption DEF IdleRequest, IdleCleaner, Requests, Root, Identities, Modes

LEMMA InitIInv == Init => IInv
<1> SUFFICES ASSUME Init PROVE IInv
  OBVIOUS
<1>1. NoRow \in Rows /\ 0 \in 0 .. MaxRestarts
  BY UidsAssumption, VolumeAssumption DEF Rows, NoRow
<1>2. TypeOK
  BY <1>1, IdleTypes DEF Init, TypeOK
<1>3. StepsKnowVolume
  BY DEF Init, StepsKnowVolume, IdleRequest, IdleCleaner
<1> QED  BY <1>2, <1>3 DEF IInv

\* One request becomes r and the cleaner does not move.
LEMMA RequestStep ==
    ASSUME IInv, NEW w \in Workers, NEW r \in Requests,
           r.pc \notin {"idle", "prune"} => r.v \in Volumes,
           req' = [req EXCEPT ![w] = r], UNCHANGED cleaner
    PROVE  req' \in [Workers -> Requests] /\ StepsKnowVolume'
BY DEF IInv, TypeOK, StepsKnowVolume

LEMMA FinishStep ==
    ASSUME IInv, NEW w \in Workers, Finish(w), UNCHANGED cleaner
    PROVE  req' \in [Workers -> Requests] /\ StepsKnowVolume'
BY IdleTypes, RequestStep DEF Finish, IdleRequest

LEMMA GotoStep ==
    ASSUME IInv, NEW w \in Workers, UNCHANGED cleaner, req[w].pc \notin {"idle", "prune"},
           NEW pc \in {"register", "forget", "prune"}, Goto(w, pc)
    PROVE  req' \in [Workers -> Requests] /\ StepsKnowVolume'
<1> DEFINE r == [req[w] EXCEPT !.pc = pc]
<1>1. r \in Requests /\ req' = [req EXCEPT ![w] = r] /\ r.v = req[w].v
  BY DEF IInv, TypeOK, Requests, Goto
<1> QED  BY <1>1, RequestStep DEF IInv, StepsKnowVolume

LEMMA InjectedName ==
    ASSUME NEW id \in Callers, NEW n \in Volumes
    PROVE  InjectVolumeNamePrefix(id, n) \in Volumes /\ RewriteVolumeURL(id, n) \in Volumes
BY VolumeAssumption DEF InjectVolumeNamePrefix, RewriteVolumeURL, Volumes

LEMMA ArriveIInv ==
    ASSUME IInv, NEW w \in Workers, Arrive(w)
    PROVE  IInv'
<1>1. PICK id \in Callers :
        \/ handleVolumePrune(w, id)
        \/ \E n \in Volumes :
            \/ VolumeCreate(w, id, n)
            \/ ValidateAndRewriteNamedVolumes(w, id, n)
            \/ \E force \in BOOLEAN : checkVolumeRemove(w, id, n, force)
  BY VolumeAssumption DEF Arrive
<1>2. id \in Identities
  BY VolumeAssumption
<1>3. UNCHANGED <<present, used, rows, cleaner, fresh, restarts>>
  BY <1>1 DEF handleVolumePrune, VolumeCreate, ValidateAndRewriteNamedVolumes, checkVolumeRemove
<1> DEFINE Begun == \E r \in Requests :
        req' = [req EXCEPT ![w] = r] /\ (r.pc \notin {"idle", "prune"} => r.v \in Volumes)
<1>4. Begun
  <2>1. CASE handleVolumePrune(w, id)
    <3> DEFINE owned == IF IsPrivileged(id) THEN Registered ELSE GetVolumeNamesByOwner(id.uid)
               r == [IdleRequest EXCEPT !.pc = "prune", !.op = "prune", !.id = id,
                                        !.todo = {v \in owned : isUserVolumePrefix(v)}]
    <3>1. owned \subseteq Volumes
      BY DEF Registered, GetVolumeNamesByOwner
    <3>2. r \in Requests /\ r.pc = "prune"
      BY <1>2, <3>1, IdleTypes DEF Requests, IdleRequest
    <3> QED  BY <2>1, <3>2 DEF handleVolumePrune, Begin
  <2>2. ASSUME NEW n \in Volumes, VolumeCreate(w, id, n) PROVE Begun
    <3> DEFINE r == [IdleRequest EXCEPT !.pc = "forward", !.op = "create", !.id = id,
                                        !.v = InjectVolumeNamePrefix(id, n)]
    <3>1. r \in Requests /\ r.v \in Volumes
      BY <1>2, IdleTypes, InjectedName DEF Requests, IdleRequest
    <3> QED  BY <2>2, <3>1 DEF VolumeCreate, Begin
  <2>3. ASSUME NEW n \in Volumes, ValidateAndRewriteNamedVolumes(w, id, n) PROVE Begun
    <3> DEFINE r == [IdleRequest EXCEPT !.pc = "forward", !.op = "mount", !.id = id,
                                        !.v = InjectVolumeNamePrefix(id, n)]
    <3>1. r \in Requests /\ r.v \in Volumes
      BY <1>2, IdleTypes, InjectedName DEF Requests, IdleRequest
    <3> QED  BY <2>3, <3>1 DEF ValidateAndRewriteNamedVolumes, Begin
  <2>4. ASSUME NEW n \in Volumes, NEW force \in BOOLEAN, checkVolumeRemove(w, id, n, force)
        PROVE  Begun
    <3> DEFINE r == [IdleRequest EXCEPT !.pc = "forward", !.op = "rm", !.id = id,
                                        !.v = RewriteVolumeURL(id, n), !.force = force]
    <3>1. r \in Requests /\ r.v \in Volumes
      BY <1>2, IdleTypes, InjectedName DEF Requests, IdleRequest
    <3> QED  BY <2>4, <3>1 DEF checkVolumeRemove, Begin
  <2> QED  BY <1>1, <2>1, <2>2, <2>3, <2>4
<1>5. req' \in [Workers -> Requests] /\ StepsKnowVolume'
  BY <1>3, <1>4, RequestStep
<1> QED  BY <1>3, <1>5 DEF IInv, TypeOK

LEMMA RowTypes ==
    ASSUME IInv, NEW v \in Volumes
    PROVE  /\ \A id \in Identities : SetVolumeOwner(v, id) => rows' \in [Volumes -> Rows]
           /\ DeleteVolume(v) => rows' \in [Volumes -> Rows]
<1>1. NoRow \in Rows
  BY UidsAssumption DEF NoRow, Rows
<1>2. ASSUME NEW id \in Identities
      PROVE  [found |-> TRUE, owner |-> id.uid, sudo |-> IsSudoCommand(id)] \in Rows
  BY DEF Rows, Identities, IsSudoCommand
<1> QED  BY <1>1, <1>2 DEF IInv, TypeOK, SetVolumeOwner, DeleteVolume

LEMMA ServeIInv ==
    ASSUME IInv, NEW w \in Workers, Serve(w)
    PROVE  IInv'
<1> USE DEF IInv
<1> req[w] \in Requests /\ req[w].id \in Identities
  BY DEF TypeOK, Requests
<1>1. CASE DaemonCreates(w)
  <2>1. req[w].v \in Volumes /\ UNCHANGED cleaner
    BY <1>1 DEF DaemonCreates, Forwarded, StepsKnowVolume
  <2>2. req' \in [Workers -> Requests] /\ StepsKnowVolume'
    BY <1>1, <2>1, FinishStep, GotoStep DEF DaemonCreates, Forwarded
  <2> QED  BY <1>1, <2>1, <2>2 DEF DaemonCreates, TypeOK
<1>2. CASE DaemonMounts(w)
  <2>1. req[w].v \in Volumes /\ UNCHANGED cleaner
    BY <1>2 DEF DaemonMounts, Forwarded, StepsKnowVolume
  <2> QED  BY <1>2, <2>1, FinishStep DEF DaemonMounts, TypeOK
<1>3. CASE DaemonRemoves(w)
  <2>1. UNCHANGED cleaner /\ req[w].pc = "forward"
    BY <1>3 DEF DaemonRemoves, Forwarded
  <2>2. req' \in [Workers -> Requests] /\ StepsKnowVolume'
    BY <1>3, <2>1, FinishStep, GotoStep DEF DaemonRemoves
  <2>3. present' \subseteq present /\ used' = used /\ used \subseteq present'
    BY <1>3 DEF DaemonRemoves, CanRemove, TypeOK
  <2> QED  BY <1>3, <2>2, <2>3 DEF DaemonRemoves, TypeOK
<1>4. CASE RegisterVolume(w)
  <2>1. req[w].v \in Volumes
    BY <1>4 DEF RegisterVolume, StepsKnowVolume
  <2>2. fresh' \in BOOLEAN
    BY <1>4, Zenon DEF RegisterVolume, TypeOK
  <2> QED  BY <1>4, <2>1, <2>2, FinishStep, RowTypes DEF RegisterVolume, TypeOK
<1>5. CASE ForgetVolume(w)
  <2>1. req[w].v \in Volumes
    BY <1>5 DEF ForgetVolume, StepsKnowVolume
  <2> QED  BY <1>5, <2>1, FinishStep, RowTypes DEF ForgetVolume, TypeOK
<1>6. CASE PruneNext(w)
  <2>1. PICK v \in req[w].todo :
          \/ /\ CanRemove(v)
             /\ present' = present \ {v}
             /\ \/ req' = [req EXCEPT ![w].pc = "pruneForget", ![w].v = v, ![w].todo = @ \ {v}]
                \/ req' = [req EXCEPT ![w].todo = @ \ {v}]
          \/ /\ req' = [req EXCEPT ![w].todo = @ \ {v}]
             /\ UNCHANGED present
    BY <1>6 DEF PruneNext
  <2>2. v \in Volumes
    BY DEF Requests
  <2>3. \E r \in Requests :
          req' = [req EXCEPT ![w] = r] /\ (r.pc \notin {"idle", "prune"} => r.v \in Volumes)
    <3> DEFINE r1 == [req[w] EXCEPT !.pc = "pruneForget", !.v = v, !.todo = @ \ {v}]
               r2 == [req[w] EXCEPT !.todo = @ \ {v}]
    <3>1. r1 \in Requests /\ r1.v = v
      BY <2>2 DEF Requests
    <3>2. r2 \in Requests /\ r2.pc = "prune"
      BY <1>6 DEF Requests, PruneNext
    <3>3. req' = [req EXCEPT ![w] = r1] \/ req' = [req EXCEPT ![w] = r2]
      BY <2>1 DEF TypeOK
    <3> QED  BY <2>2, <3>1, <3>2, <3>3
  <2>4. req' \in [Workers -> Requests] /\ StepsKnowVolume'
    BY <1>6, <2>3, RequestStep DEF PruneNext
  <2>5. present' \subseteq present /\ used \subseteq present'
    BY <2>1 DEF CanRemove, TypeOK
  <2> QED  BY <1>6, <2>4, <2>5 DEF PruneNext, TypeOK
<1>7. CASE PruneForget(w)
  <2>1. req[w].v \in Volumes
    BY <1>7 DEF PruneForget, StepsKnowVolume
  <2>2. req' \in [Workers -> Requests] /\ StepsKnowVolume'
    BY <1>7, GotoStep DEF PruneForget
  <2> QED  BY <1>7, <2>1, <2>2, RowTypes DEF PruneForget, TypeOK
<1>8. CASE PruneDone(w)
  BY <1>8, FinishStep DEF PruneDone, TypeOK
<1> QED  BY <1>1, <1>2, <1>3, <1>4, <1>5, <1>6, <1>7, <1>8 DEF Serve

LEMMA CleanupIInv ==
    ASSUME IInv, Cleanup
    PROVE  IInv'
<1> USE DEF IInv, TypeOK, StepsKnowVolume
<1>1. CASE CleanupSnapshot
  BY <1>1, IdleTypes DEF CleanupSnapshot, IdleCleaner, Registered
<1>2. CASE listDanglingVolumes
  <2>1. {v \in present \ used : isUserVolumePrefix(v)} \ cleaner.owned \subseteq Volumes
    OBVIOUS
  <2> QED  BY <1>2, <2>1, IdleTypes DEF listDanglingVolumes, IdleCleaner
<1>3. CASE CleanupCheck
  BY <1>3 DEF CleanupCheck
<1>4. CASE removeVolume
  BY <1>4 DEF removeVolume, NextVolume, CanRemove
<1>5. CASE CleanupForget
  <2>1. rows' \in [Volumes -> Rows]
    BY <1>5, RowTypes DEF CleanupForget
  <2> QED  BY <1>5, <2>1 DEF CleanupForget, NextVolume
<1>6. CASE CleanupDone
  BY <1>6, IdleTypes DEF CleanupDone, IdleCleaner
<1> QED  BY <1>1, <1>2, <1>3, <1>4, <1>5, <1>6 DEF Cleanup

LEMMA StepIInv == IInv /\ [Next]_vars => IInv'
<1> SUFFICES ASSUME IInv, [Next]_vars PROVE IInv'
  OBVIOUS
<1>1. ASSUME NEW v \in Volumes, ContainersGone(v) PROVE IInv'
  BY <1>1 DEF ContainersGone, IInv, TypeOK, StepsKnowVolume
<1>2. CASE Restart
  <2>1. req' \in [Workers -> Requests] /\ StepsKnowVolume'
    BY <1>2, IdleTypes DEF Restart, StepsKnowVolume, IdleRequest, IdleCleaner
  <2>2. restarts' \in 0 .. MaxRestarts
    BY <1>2, VolumeAssumption DEF Restart, IInv, TypeOK
  <2> QED  BY <1>2, <2>1, <2>2, IdleTypes DEF Restart, IInv, TypeOK
<1>3. CASE UNCHANGED vars
  BY <1>3 DEF vars, IInv, TypeOK, StepsKnowVolume
<1> QED  BY ArriveIInv, ServeIInv, CleanupIInv, <1>1, <1>2, <1>3 DEF Next

LEMMA IInvAlways == Spec => []IInv
BY InitIInv, StepIInv, PTL DEF Spec

\* The type invariant: a mounted volume exists, and what a request or the
\* clean-up is about to act on is a volume.
THEOREM TypeCorrect == Spec => []TypeOK
<1>1. IInv => TypeOK
  BY DEF IInv
<1> QED  BY IInvAlways, <1>1, PTL

-----------------------------------------------------------------------------
(* The clean-up: a row that exists when its volume is about to be removed  *)
(* was written after the look at the table.                                *)

SecondLook == cleaner.pc = "remove" /\ rows[cleaner.v].found => fresh

LEMMA StepSecondLook == IInv /\ SecondLook /\ [Next]_vars => SecondLook'
<1> SUFFICES ASSUME IInv, SecondLook, [Next]_vars PROVE SecondLook'
  OBVIOUS
<1> USE DEF SecondLook
<1>1. ASSUME UNCHANGED <<rows, cleaner, fresh>> PROVE SecondLook'
  BY <1>1
<1>2. ASSUME NEW w \in Workers, Arrive(w) PROVE SecondLook'
  BY <1>1, <1>2 DEF Arrive, handleVolumePrune, VolumeCreate, ValidateAndRewriteNamedVolumes,
     checkVolumeRemove
<1>3. ASSUME NEW w \in Workers, Serve(w) PROVE SecondLook'
  <2>1. CASE RegisterVolume(w)
    <3>1. cleaner' = cleaner /\ fresh' = (fresh \/ (cleaner.pc = "remove" /\ cleaner.v = req[w].v))
      BY <2>1 DEF RegisterVolume
    <3>2. ASSUME cleaner.pc = "remove", cleaner.v # req[w].v
          PROVE  rows'[cleaner.v] = rows[cleaner.v]
      BY <2>1, <3>2 DEF RegisterVolume, SetVolumeOwner, IInv, TypeOK, StepsKnowVolume
    <3> QED  BY <3>1, <3>2
  <2>2. ASSUME NEW v \in Volumes, DeleteVolume(v), UNCHANGED <<cleaner, fresh>> PROVE SecondLook'
    BY <2>2 DEF DeleteVolume, NoRow, IInv, TypeOK, StepsKnowVolume
  <2>3. CASE ForgetVolume(w)
    BY <1>1, <2>2, <2>3 DEF ForgetVolume, IInv, StepsKnowVolume
  <2>4. CASE PruneForget(w)
    BY <2>2, <2>4 DEF PruneForget, IInv, StepsKnowVolume
  <2>5. CASE DaemonCreates(w) \/ DaemonMounts(w) \/ DaemonRemoves(w) \/ PruneNext(w) \/ PruneDone(w)
    BY <1>1, <2>5 DEF DaemonCreates, DaemonMounts, DaemonRemoves, PruneNext, PruneDone
  <2> QED  BY <1>3, <2>1, <2>3, <2>4, <2>5 DEF Serve
<1>4. CASE Cleanup
  <2>1. CASE CleanupCheck
    BY <2>1 DEF CleanupCheck, Orphan, IInv, TypeOK
  <2>2. CASE CleanupSnapshot \/ listDanglingVolumes \/ removeVolume \/ CleanupForget \/ CleanupDone
    <3>1. cleaner'.pc # "remove"
      <4> USE DEF IInv, TypeOK, NextVolume, IdleCleaner
      <4>1. CASE CleanupDone
        BY <4>1 DEF CleanupDone
      <4>3. CASE listDanglingVolumes
        BY <4>3 DEF listDanglingVolumes
      <4>4. CASE CleanupSnapshot
        <5>1. cleaner' = [IdleCleaner EXCEPT !.pc = "list", !.owned = Registered]
          BY <4>4 DEF CleanupSnapshot
        <5> HIDE DEF TypeOK, IInv
        <5> QED  BY <5>1
      <4>2. CASE removeVolume \/ CleanupForget
        BY <4>2 DEF removeVolume, CleanupForget
      <4> QED  BY <2>2, <4>1, <4>2, <4>3, <4>4
    <3> QED  BY <3>1
  <2> QED  BY <1>4, <2>1, <2>2 DEF Cleanup
<1>5. ASSUME NEW v \in Volumes, ContainersGone(v) PROVE SecondLook'
  BY <1>1, <1>5 DEF ContainersGone
<1>6. CASE Restart
  BY <1>6 DEF Restart, IdleCleaner
<1>7. CASE UNCHANGED vars
  BY <1>1, <1>7 DEF vars
<1> QED  BY <1>2, <1>3, <1>4, <1>5, <1>6, <1>7 DEF Next

LEMMA StepSpared == IInv /\ SecondLook /\ [Next]_vars => [Spared]_vars
<1> SUFFICES ASSUME IInv, SecondLook, [Next]_vars, NEW v \in Volumes,
                    cleaner' # cleaner, v \in present \ present', rows[v].found
             PROVE  fresh
  BY DEF Spared
<1>1. ASSUME NEW w \in Workers, Arrive(w) \/ Serve(w) PROVE cleaner' = cleaner
  BY <1>1 DEF Arrive, handleVolumePrune, VolumeCreate, ValidateAndRewriteNamedVolumes,
     checkVolumeRemove, Serve, DaemonCreates, DaemonMounts, DaemonRemoves, RegisterVolume,
     ForgetVolume, PruneNext, PruneForget, PruneDone
<1>2. ASSUME NEW x \in Volumes, ContainersGone(x) PROVE cleaner' = cleaner
  BY <1>2 DEF ContainersGone
<1>3. CASE Restart
  BY <1>3 DEF Restart
<1>4. CASE Cleanup
  <2>1. removeVolume
    BY <1>4 DEF Cleanup, CleanupSnapshot, listDanglingVolumes, CleanupCheck, CleanupForget, CleanupDone
  <2> QED  BY <2>1 DEF removeVolume, SecondLook
<1> QED  BY <1>1, <1>2, <1>3, <1>4 DEF Next, vars

\* runCleanup removes no volume that was registered before its second look at
\* the table, whatever requests run at the same time.
THEOREM RegisteredVolumesSpared == Spec => CleanupSparesRegistered
<1>1. Init => SecondLook
  BY DEF Init, SecondLook, IdleCleaner
<1> QED  BY IInvAlways, <1>1, StepSecondLook, StepSpared, PTL DEF Spec, CleanupSparesRegistered

-----------------------------------------------------------------------------
(* Namespaces: while no user is config-privileged in one request and       *)
(* regular in another, a regular caller's request acts on nothing outside  *)
(* his namespace but the id-like name of an rm.  A prune goes by rows, so  *)
(* the rows of regular users have to lie in their namespaces as well.      *)

Regulars == {id.uid : id \in {x \in Callers : ~IsPrivileged(x)}}

FixedPolicy == \A id \in Callers : id.mode = "config" => id.uid \notin Regulars

RowsInNamespace ==
    \A v \in Volumes :
        rows[v].found /\ ~rows[v].sudo /\ rows[v].owner \in Regulars => v.ns = rows[v].owner

Contained(r) ==
    /\ r.pc # "idle" => r.id \in Callers
    /\ ~IsPrivileged(r.id) =>
        /\ r.pc \notin {"idle", "prune"} =>
               r.v.ns = r.id.uid \/ (r.op = "rm" /\ isHexID(r.v))
        /\ r.pc = "register" => r.op = "create"
        /\ \A v \in r.todo : v.ns = r.id.uid

NInv == IInv /\ RowsInNamespace /\ \A w \in Workers : Contained(req[w])

LEMMA IdleContained == Contained(IdleRequest)
BY DEF Contained, IdleRequest, Root, IsPrivileged

LEMMA InitNInv == Init => NInv
BY InitIInv, IdleContained DEF Init, NInv, RowsInNamespace, NoRow

LEMMA NamesInNamespace ==
    ASSUME NEW id \in Callers, NEW n \in Volumes, ~IsPrivileged(id)
    PROVE  /\ InjectVolumeNamePrefix(id, n).ns = id.uid
           /\ RewriteVolumeURL(id, n).ns = id.uid \/ isHexID(RewriteVolumeURL(id, n))
BY DEF InjectVolumeNamePrefix, RewriteVolumeURL

LEMMA ArriveNInv ==
    ASSUME NInv, NEW w \in Workers, Arrive(w)
    PROVE  NInv'
<1>1. PICK id \in Callers :
        \/ handleVolumePrune(w, id)
        \/ \E n \in Volumes :
            \/ VolumeCreate(w, id, n)
            \/ ValidateAndRewriteNamedVolumes(w, id, n)
            \/ \E force \in BOOLEAN : checkVolumeRemove(w, id, n, force)
  BY VolumeAssumption DEF Arrive
<1>2. UNCHANGED rows
  BY <1>1 DEF handleVolumePrune, VolumeCreate, ValidateAndRewriteNamedVolumes, checkVolumeRemove
<1> DEFINE Begun == \E r : req' = [req EXCEPT ![w] = r] /\ Contained(r)
<1>3. Begun
  <2>1. CASE handleVolumePrune(w, id)
    <3> DEFINE owned == IF IsPrivileged(id) THEN Registered ELSE GetVolumeNamesByOwner(id.uid)
               r == [IdleRequest EXCEPT !.pc = "prune", !.op = "prune", !.id = id,
                                        !.todo = {v \in owned : isUserVolumePrefix(v)}]
    <3>1. ASSUME ~IsPrivileged(id), NEW v \in owned PROVE v.ns = id.uid
      <4>1. id.uid \in Regulars
        BY <3>1 DEF Regulars
      <4>2. v \in Volumes /\ rows[v].found /\ ~rows[v].sudo /\ rows[v].owner = id.uid
        BY <3>1 DEF GetVolumeNamesByOwner, Registered
      <4> QED  BY <4>1, <4>2 DEF NInv, RowsInNamespace
    <3>2. /\ r.pc = "prune" /\ r.id = id
          /\ r.todo = {v \in owned : isUserVolumePrefix(v)}
      BY DEF IdleRequest
    <3>3. Contained(r)
      BY <3>1, <3>2 DEF Contained
    <3> QED  BY <2>1, <3>3 DEF handleVolumePrune, Begin
  <2>2. ASSUME NEW r, r.pc = "forward", r.id = id, r.todo = {},
               ~IsPrivileged(id) => r.v.ns = id.uid \/ (r.op = "rm" /\ isHexID(r.v))
        PROVE  Contained(r)
    BY <2>2 DEF Contained
  <2>3. ASSUME NEW n \in Volumes, VolumeCreate(w, id, n) PROVE Begun
    <3> DEFINE r == [IdleRequest EXCEPT !.pc = "forward", !.op = "create", !.id = id,
                                        !.v = InjectVolumeNamePrefix(id, n)]
    <3>1. r.pc = "forward" /\ r.id = id /\ r.todo = {} /\ r.v = InjectVolumeNamePrefix(id, n)
      BY DEF IdleRequest
    <3>2. Contained(r)
      BY <2>2, <3>1, NamesInNamespace
    <3> QED  BY <2>3, <3>2 DEF VolumeCreate, Begin
  <2>4. ASSUME NEW n \in Volumes, ValidateAndRewriteNamedVolumes(w, id, n) PROVE Begun
    <3> DEFINE r == [IdleRequest EXCEPT !.pc = "forward", !.op = "mount", !.id = id,
                                        !.v = InjectVolumeNamePrefix(id, n)]
    <3>1. r.pc = "forward" /\ r.id = id /\ r.todo = {} /\ r.v = InjectVolumeNamePrefix(id, n)
      BY DEF IdleRequest
    <3>2. Contained(r)
      BY <2>2, <3>1, NamesInNamespace
    <3> QED  BY <2>4, <3>2 DEF ValidateAndRewriteNamedVolumes, Begin
  <2>5. ASSUME NEW n \in Volumes, NEW force \in BOOLEAN, checkVolumeRemove(w, id, n, force)
        PROVE  Begun
    <3> DEFINE r == [IdleRequest EXCEPT !.pc = "forward", !.op = "rm", !.id = id,
                                        !.v = RewriteVolumeURL(id, n), !.force = force]
    <3>1. /\ r.pc = "forward" /\ r.op = "rm" /\ r.id = id /\ r.todo = {}
          /\ r.v = RewriteVolumeURL(id, n)
      BY DEF IdleRequest
    <3>2. Contained(r)
      BY <2>2, <3>1, NamesInNamespace
    <3> QED  BY <2>5, <3>2 DEF checkVolumeRemove, Begin
  <2> QED  BY <1>1, <2>1, <2>3, <2>4, <2>5
<1>4. \A x \in Workers : Contained(req'[x])
  BY <1>3 DEF NInv, IInv, TypeOK
<1>5. IInv'
  BY ArriveIInv DEF NInv
<1> QED  BY <1>2, <1>4, <1>5 DEF NInv, RowsInNamespace

\* A step of a request that continues or finishes it.
LEMMA ServeContained ==
    ASSUME NInv, NEW w \in Workers, Serve(w)
    PROVE  \A x \in Workers : Contained(req'[x])
<1> SUFFICES \E r : req' = [req EXCEPT ![w] = r] /\ Contained(r)
  BY DEF NInv, IInv, TypeOK
<1> req[w] \in Requests /\ Contained(req[w])
  BY DEF NInv, IInv, TypeOK
<1>1. CASE Finish(w)
  BY <1>1, IdleContained DEF Finish
<1>2. ASSUME NEW pc, Goto(w, pc), req[w].pc \notin {"idle", "prune"},
             pc = "register" => req[w].op = "create"
      PROVE  \E r : req' = [req EXCEPT ![w] = r] /\ Contained(r)
  <2> DEFINE r == [req[w] EXCEPT !.pc = pc]
  <2>1. /\ req' = [req EXCEPT ![w] = r] /\ r.pc = pc /\ r.op = req[w].op
        /\ r.id = req[w].id /\ r.v = req[w].v /\ r.todo = req[w].todo
    BY <1>2 DEF Goto, NInv, IInv, TypeOK, Requests
  <2>2. Contained(r)
    BY <1>2, <2>1 DEF Contained
  <2> QED  BY <2>1, <2>2
<1>3. CASE PruneNext(w)
  <2>1. PICK v \in req[w].todo :
          \/ req' = [req EXCEPT ![w].pc = "pruneForget", ![w].v = v, ![w].todo = @ \ {v}]
          \/ req' = [req EXCEPT ![w].todo = @ \ {v}]
    BY <1>3 DEF PruneNext
  <2> DEFINE r1 == [req[w] EXCEPT !.pc = "pruneForget", !.v = v, !.todo = @ \ {v}]
             r2 == [req[w] EXCEPT !.todo = @ \ {v}]
  <2>2. req[w].pc = "prune"
    BY <1>3 DEF PruneNext
  <2>3. r1.pc = "pruneForget" /\ r1.id = req[w].id /\ r1.v = v /\ r1.todo = req[w].todo \ {v}
    BY DEF Requests
  <2>4. r2.id = req[w].id /\ r2.pc = "prune" /\ r2.todo = req[w].todo \ {v}
    BY <2>2 DEF Requests
  <2>5. Contained(r1)
    BY <2>2, <2>3 DEF Contained
  <2>6. Contained(r2)
    BY <2>2, <2>4 DEF Contained
  <2>7. req' = [req EXCEPT ![w] = r1] \/ req' = [req EXCEPT ![w] = r2]
    BY <2>1 DEF NInv, IInv, TypeOK
  <2> QED  BY <2>5, <2>6, <2>7
<1>4. CASE DaemonCreates(w) \/ DaemonMounts(w) \/ DaemonRemoves(w) \/ RegisterVolume(w)
           \/ ForgetVolume(w) \/ PruneForget(w) \/ PruneDone(w)
  <2>1. \/ Finish(w)
        \/ /\ req[w].pc \notin {"idle", "prune"}
           /\ \E pc : Goto(w, pc) /\ (pc = "register" => req[w].op = "create")
    BY <1>4 DEF DaemonCreates, DaemonMounts, DaemonRemoves, RegisterVolume, ForgetVolume,
       PruneForget, PruneDone, Forwarded
  <2> QED  BY <2>1, <1>1, <1>2
<1> QED  BY <1>3, <1>4 DEF Serve

LEMMA DeleteInNamespace ==
    ASSUME NInv, NEW v \in Volumes, DeleteVolume(v)
    PROVE  RowsInNamespace'
BY DEF NInv, RowsInNamespace, DeleteVolume, NoRow, IInv, TypeOK

LEMMA ServeNInv ==
    ASSUME FixedPolicy, NInv, NEW w \in Workers, Serve(w)
    PROVE  NInv'
<1>1. IInv'
  BY ServeIInv DEF NInv
<1>2. RowsInNamespace'
  <2>1. CASE RegisterVolume(w)
    <3> DEFINE id == req[w].id
               v == req[w].v
    <3>1. /\ v \in Volumes /\ id \in Callers /\ id \in Identities
          /\ ~IsPrivileged(id) => v.ns = id.uid
      BY <2>1 DEF RegisterVolume, NInv, IInv, TypeOK, Requests, StepsKnowVolume, Contained
    <3>2. rows' = [rows EXCEPT ![v] = [found |-> TRUE, owner |-> id.uid, sudo |-> IsSudoCommand(id)]]
      BY <2>1 DEF RegisterVolume, SetVolumeOwner
    <3>3. id.uid \in Regulars /\ ~IsSudoCommand(id) => v.ns = id.uid
      <4>1. ASSUME id.uid \in Regulars PROVE id.uid # RootUid
        BY <4>1 DEF Regulars, IsPrivileged
      <4>2. id.uid \in Regulars => id.mode # "config"
        BY <3>1 DEF FixedPolicy
      <4> QED  BY <3>1, <4>1, <4>2 DEF IsSudoCommand, IsPrivileged
    <3> QED  BY <3>1, <3>2, <3>3 DEF NInv, RowsInNamespace, IInv, TypeOK
  <2>2. CASE ForgetVolume(w) \/ PruneForget(w)
    <3>1. req[w].v \in Volumes /\ (DeleteVolume(req[w].v) \/ UNCHANGED rows)
      BY <2>2 DEF ForgetVolume, PruneForget, NInv, IInv, StepsKnowVolume
    <3> QED  BY <3>1, DeleteInNamespace DEF NInv, RowsInNamespace
  <2>3. CASE DaemonCreates(w) \/ DaemonMounts(w) \/ DaemonRemoves(w) \/ PruneNext(w) \/ PruneDone(w)
    BY <2>3 DEF DaemonCreates, DaemonMounts, DaemonRemoves, PruneNext, PruneDone, NInv,
       RowsInNamespace
  <2> QED  BY <2>1, <2>2, <2>3 DEF Serve
<1> QED  BY <1>1, <1>2, ServeContained DEF NInv

LEMMA StepNInv == FixedPolicy /\ NInv /\ [Next]_vars => NInv'
<1> SUFFICES ASSUME FixedPolicy, NInv, [Next]_vars PROVE NInv'
  OBVIOUS
<1>1. IInv'
  BY StepIInv DEF NInv
<1>2. CASE Cleanup
  <2>1. UNCHANGED req
    BY <1>2 DEF Cleanup, CleanupSnapshot, listDanglingVolumes, CleanupCheck, removeVolume,
       CleanupForget, CleanupDone
  <2>2. UNCHANGED rows \/ (cleaner.v \in Volumes /\ DeleteVolume(cleaner.v))
    BY <1>2 DEF Cleanup, CleanupSnapshot, listDanglingVolumes, CleanupCheck, removeVolume,
       CleanupForget, CleanupDone, NInv, IInv, StepsKnowVolume
  <2> QED  BY <1>1, <2>1, <2>2, DeleteInNamespace DEF NInv, RowsInNamespace
<1>3. ASSUME NEW v \in Volumes, ContainersGone(v) PROVE NInv'
  BY <1>1, <1>3 DEF ContainersGone, NInv, RowsInNamespace
<1>4. CASE Restart
  BY <1>1, <1>4, IdleContained DEF Restart, NInv, RowsInNamespace
<1>5. CASE UNCHANGED vars
  BY <1>1, <1>5 DEF vars, NInv, RowsInNamespace
<1> QED  BY ArriveNInv, ServeNInv, <1>2, <1>3, <1>4, <1>5 DEF Next

LEMMA StepInNamespace == NInv /\ [Next]_vars => [InNamespace]_vars
<1> SUFFICES ASSUME NInv, [Next]_vars, NEW w \in Workers, NEW v \in Volumes,
                    ~IsPrivileged(req[w].id), req'[w] # req[w],
                    v \in present \ present' \/ rows'[v] # rows[v]
             PROVE  v.ns = req[w].id.uid \/ (req[w].op = "rm" /\ isHexID(v))
  BY DEF InNamespace
<1>1. Serve(w)
  <2>1. ASSUME NEW x \in Workers, Arrive(x) PROVE UNCHANGED <<present, rows>>
    BY <2>1 DEF Arrive, handleVolumePrune, VolumeCreate, ValidateAndRewriteNamedVolumes,
       checkVolumeRemove
  <2>2. ASSUME NEW x \in Workers, Serve(x) PROVE \E r : req' = [req EXCEPT ![x] = r]
    <3>1. CASE PruneNext(x)
      BY <3>1 DEF PruneNext, NInv, IInv, TypeOK
    <3>2. CASE ~PruneNext(x)
      BY <2>2, <3>2 DEF Serve, DaemonCreates, DaemonMounts, DaemonRemoves, RegisterVolume,
         ForgetVolume, PruneForget, PruneDone, Goto, Finish, NInv, IInv, TypeOK
    <3> QED  BY <3>1, <3>2
  <2>3. Cleanup => UNCHANGED req
    BY DEF Cleanup, CleanupSnapshot, listDanglingVolumes, CleanupCheck, removeVolume,
       CleanupForget, CleanupDone
  <2>4. Restart => UNCHANGED <<present, rows>>
    BY DEF Restart
  <2>5. \A x \in Volumes : ContainersGone(x) => UNCHANGED <<present, rows>>
    BY DEF ContainersGone
  <2>6. PICK x \in Workers : Serve(x)
    BY <2>1, <2>3, <2>4, <2>5 DEF Next, vars
  <2> QED  BY <2>2, <2>6 DEF NInv, IInv, TypeOK
<1>2. Contained(req[w]) /\ req[w] \in Requests
  BY DEF NInv, IInv, TypeOK
<1>3. CASE PruneNext(w)
  BY <1>2, <1>3 DEF PruneNext, Contained
<1>4. CASE ~PruneNext(w)
  <2>1. req[w].pc \notin {"idle", "prune"} /\ v = req[w].v
    BY <1>1, <1>4 DEF Serve, DaemonCreates, DaemonMounts, DaemonRemoves, RegisterVolume,
       SetVolumeOwner, ForgetVolume, PruneForget, PruneDone, DeleteVolume, Forwarded, NInv, IInv, TypeOK
  <2> QED  BY <1>2, <2>1 DEF Contained
<1> QED  BY <1>3, <1>4

\* While the policy does not change, no request of a regular caller removes,
\* registers or forgets a volume outside "user-<uid>-volume-", but for the
\* id-like name of an rm, however many requests run and wherever they are
\* interrupted.
THEOREM RegularCallersStayInNamespace ==
    ASSUME FixedPolicy
    PROVE  Spec => RegularStaysInNamespace
<1>1. NInv /\ [Next]_vars => NInv'
  BY StepNInv
<1> QED  BY InitNInv, <1>1, StepInNamespace, PTL DEF Spec, RegularStaysInNamespace


-----------------------------------------------------------------------------
(* One request at a time: what it may remove is its caller's, or has no row  *)
(* any more because the clean-up deleted it.                                 *)

OneAtATime == \A v, w \in Workers : v = w

Owned(v, id) == rows[v].found => rows[v].owner = id.uid

Owns(r) ==
    ~IsPrivileged(r.id) =>
        /\ r.pc = "forward" /\ r.op = "rm" => Owned(r.v, r.id) \/ isHexID(r.v)
        /\ r.pc \in {"prune", "pruneForget"} => \A v \in r.todo : Owned(v, r.id)

RequestsOwn == \A w \in Workers : Owns(req[w])

\* no step gives a row to somebody, except a registration
RowsOnlyGo == \A v \in Volumes : rows'[v].found => rows'[v] = rows[v]

LEMMA DeleteGoes ==
    ASSUME IInv, NEW v \in Volumes, DeleteVolume(v)
    PROVE  RowsOnlyGo
BY DEF DeleteVolume, RowsOnlyGo, NoRow, IInv, TypeOK

LEMMA ArriveOwns ==
    ASSUME IInv, NEW w \in Workers, Arrive(w)
    PROVE  Owns(req[w])'
<1>0. req \in [Workers -> Requests]
  BY DEF IInv, TypeOK
<1>1. PICK id \in Callers :
        \/ handleVolumePrune(w, id)
        \/ \E n \in Volumes :
            \/ VolumeCreate(w, id, n)
            \/ ValidateAndRewriteNamedVolumes(w, id, n)
            \/ \E force \in BOOLEAN : checkVolumeRemove(w, id, n, force)
  BY VolumeAssumption DEF Arrive
<1>2. CASE handleVolumePrune(w, id)
  <2>1. rows' = rows /\ req'[w].id = id /\ req'[w].pc = "prune"
        /\ (~IsPrivileged(id) => req'[w].todo \subseteq GetVolumeNamesByOwner(id.uid))
    BY <1>0, <1>2 DEF handleVolumePrune, Begin, IdleRequest
  <2> QED  BY <2>1 DEF Owns, Owned, GetVolumeNamesByOwner
<1>3. ASSUME NEW n \in Volumes, VolumeCreate(w, id, n) \/ ValidateAndRewriteNamedVolumes(w, id, n)
      PROVE  Owns(req[w])'
  <2>1. req'[w].pc = "forward" /\ req'[w].op # "rm"
    BY <1>0, <1>3 DEF VolumeCreate, ValidateAndRewriteNamedVolumes, Begin, IdleRequest
  <2> QED  BY <2>1 DEF Owns
<1>4. ASSUME NEW n \in Volumes, NEW force \in BOOLEAN, checkVolumeRemove(w, id, n, force)
      PROVE  Owns(req[w])'
  <2>1. PICK v : v = RewriteVolumeURL(id, n) /\ (isHexID(v) \/ v = InjectVolumeNamePrefix(id, n))
    BY DEF RewriteVolumeURL
  <2>2. rows' = rows /\ req'[w].id = id /\ req'[w].v = v /\ req'[w].pc = "forward"
    BY <1>0, <1>4, <2>1 DEF checkVolumeRemove, Begin, IdleRequest
  <2>3. IsPrivileged(id) \/ isHexID(v) \/ rows[v].owner = id.uid
    BY <1>4, <2>1 DEF checkVolumeRemove, RmAllowed, GetVolumeOwnerIs
  <2> QED  BY <2>2, <2>3 DEF Owns, Owned
<1> QED  BY <1>1, <1>2, <1>3, <1>4

LEMMA ServeOwns ==
    ASSUME IInv, NEW w \in Workers, Owns(req[w]), Serve(w)
    PROVE  Owns(req[w])'
<1>0. req \in [Workers -> Requests] /\ req[w].todo \subseteq Volumes
  BY DEF IInv, TypeOK, Requests
<1>1. CASE req'[w].pc \notin {"forward", "prune", "pruneForget"}
  BY <1>1 DEF Owns
<1>2. CASE Finish(w)
  BY <1>0, <1>1, <1>2 DEF Finish, IdleRequest
<1>3. CASE Goto(w, "register") \/ Goto(w, "forget")
  <2>1. req'[w].pc \in {"register", "forget"}
    BY <1>0, <1>3 DEF Goto, Requests
  <2> QED  BY <1>1, <2>1
<1>4. CASE PruneNext(w)
  <2>1. req[w].pc = "prune" /\ rows' = rows
    BY <1>4 DEF PruneNext
  <2>2. PICK v \in req[w].todo :
            \/ req' = [req EXCEPT ![w].pc = "pruneForget", ![w].v = v, ![w].todo = @ \ {v}]
            \/ req' = [req EXCEPT ![w].todo = @ \ {v}]
    BY <1>4 DEF PruneNext
  <2>3. req'[w].pc \in {"prune", "pruneForget"} /\ req'[w].id = req[w].id
        /\ req'[w].todo \subseteq req[w].todo
    BY <1>0, <2>1, <2>2 DEF Requests
  <2> QED  BY <2>1, <2>3 DEF Owns, Owned
<1>5. CASE PruneForget(w)
  <2>1. RowsOnlyGo /\ req[w].pc = "pruneForget"
    BY <1>5, DeleteGoes DEF PruneForget, IInv, StepsKnowVolume
  <2>2. req'[w].pc = "prune" /\ req'[w].id = req[w].id /\ req'[w].todo = req[w].todo
    BY <1>0, <1>5 DEF PruneForget, Goto, Requests
  <2> QED  BY <1>0, <2>1, <2>2 DEF Owns, Owned, RowsOnlyGo
<1> QED  BY <1>2, <1>3, <1>4, <1>5 DEF Serve, DaemonCreates, DaemonMounts, DaemonRemoves,
            RegisterVolume, ForgetVolume, PruneDone

LEMMA StepOwns ==
    ASSUME OneAtATime, IInv, RequestsOwn, [Next]_vars
    PROVE  RequestsOwn'
<1>1. ASSUME NEW w \in Workers, Arrive(w) \/ Serve(w) PROVE RequestsOwn'
  BY <1>1, ArriveOwns, ServeOwns DEF RequestsOwn, OneAtATime
<1>2. CASE RowsOnlyGo /\ req' = req
  <2>1. ASSUME NEW w \in Workers PROVE Owns(req[w])'
    <3>1. req[w].todo \subseteq Volumes /\ (req[w].pc = "forward" => req[w].v \in Volumes)
      BY DEF IInv, TypeOK, Requests, StepsKnowVolume
    <3> QED  BY <1>2, <3>1 DEF RequestsOwn, Owns, Owned, RowsOnlyGo
  <2> QED  BY <2>1 DEF RequestsOwn
<1>3. CASE Cleanup
  BY <1>2, <1>3, DeleteGoes DEF Cleanup, CleanupSnapshot, listDanglingVolumes, CleanupCheck,
     removeVolume, CleanupForget, CleanupDone, RowsOnlyGo, IInv, StepsKnowVolume
<1>4. CASE (\E v \in Volumes : ContainersGone(v)) \/ UNCHANGED vars
  BY <1>2, <1>4 DEF ContainersGone, vars, RowsOnlyGo
<1>5. CASE Restart
  BY <1>5 DEF Restart, RequestsOwn, Owns, IdleRequest
<1> QED  BY <1>1, <1>3, <1>4, <1>5 DEF Next

\* With one request at a time, and whatever the clean-up does meanwhile, a
\* regular caller removes no volume that the table gives to somebody else, but
\* for an id-like name; answers may be lost and the proxy restart.
THEOREM OwnersAloneRemoveVolumes ==
    ASSUME OneAtATime
    PROVE  Spec => OnlyOwnerRemovesVolume
<1>1. Init => RequestsOwn
  BY DEF Init, RequestsOwn, Owns, IdleRequest
<1>2. IInv /\ RequestsOwn /\ [Next]_vars => RequestsOwn'
  BY StepOwns
<1>3. IInv /\ RequestsOwn /\ [Next]_vars =>
          [\A w \in Workers, v \in Volumes :
              /\ ~IsPrivileged(req[w].id) /\ req'[w] # req[w]
              /\ v \in present \ present' /\ rows[v].found
              => rows[v].owner = req[w].id.uid \/ (req[w].op = "rm" /\ isHexID(v))]_vars
  <2> SUFFICES ASSUME IInv, RequestsOwn, [Next]_vars, NEW w \in Workers, NEW v \in Volumes,
                      ~IsPrivileged(req[w].id), req'[w] # req[w],
                      v \in present \ present', rows[v].found
               PROVE  rows[v].owner = req[w].id.uid \/ (req[w].op = "rm" /\ isHexID(v))
    OBVIOUS
  <2>1. \A x \in Workers : x = w /\ ~Arrive(x)
    BY DEF OneAtATime, Arrive, handleVolumePrune, VolumeCreate, ValidateAndRewriteNamedVolumes,
       checkVolumeRemove
  <2>2. ~(Cleanup \/ Restart \/ UNCHANGED vars \/ \E x \in Volumes : ContainersGone(x))
    BY DEF Cleanup, CleanupSnapshot, listDanglingVolumes, CleanupCheck, removeVolume,
       CleanupForget, CleanupDone, Restart, vars, ContainersGone
  <2>3. DaemonRemoves(w) \/ PruneNext(w)
    BY <2>1, <2>2 DEF Next, Serve, DaemonCreates, DaemonMounts, RegisterVolume, ForgetVolume,
       PruneForget, PruneDone
  <2>4. Owns(req[w])
    BY DEF RequestsOwn
  <2>5. CASE DaemonRemoves(w)
    BY <2>4, <2>5 DEF DaemonRemoves, Forwarded, Owns, Owned
  <2>6. CASE PruneNext(w)
    BY <2>4, <2>6 DEF PruneNext, Owns, Owned
  <2> QED  BY <2>3, <2>5, <2>6
<1> QED  BY IInvAlways, <1>1, <1>2, <1>3, PTL DEF Spec, OnlyOwnerRemovesVolume
=============================================================================
