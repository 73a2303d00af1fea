------------------------ MODULE ImageOwnershipProofs ------------------------
(***************************************************************************)
(* Proofs about ImageOwnership, for every set of images, uids, tags,       *)
(* workers and callers, any number of restarts, and with lookups that may  *)
(* fail or not.                                                            *)
(***************************************************************************)
EXTENDS ImageOwnership, TLAPS

IInv == TypeOK /\ WritesKnowImage

USE UidsAssumption, ImageAssumption

LEMMA IdsAreImages == Ids \subseteq Images /\ \A k \in Images : ConfigOf[k] \in Ids
BY ConfigAssumption DEF Ids

LEMMA IdleRequestType == IdleRequest \in Requests /\ Root \in Identities
BY DEF IdleRequest, Requests, Root, Identities, Modes, PCs, ImageOrNone, Refs

LEMMA InitIInv == Init => IInv
<1> SUFFICES ASSUME Init PROVE IInv
  OBVIOUS
<1> USE IdleRequestType
<1>1. TablesTypeOK
  BY DEF Init, TablesInit, TablesTypeOK, Rows, NoRow, Contexts
<1>2. TypeOK
  BY <1>1 DEF Init, TypeOK, IdOrNone
<1>3. WritesKnowImage
  BY DEF Init, WritesKnowImage, KnowsImage, IdleRequest
<1> QED  BY <1>2, <1>3 DEF IInv


-----------------------------------------------------------------------------
(* Every action keeps the types and the knowledge of the image. *)

\* An action that only replaces the request of worker w keeps IInv when the new
\* request is a request that knows its image.
LEMMA RequestStep ==
    ASSUME IInv, NEW w \in Workers, NEW r \in Requests, KnowsImage(r),
           req' = [req EXCEPT ![w] = r]
    PROVE  req' \in [Workers -> Requests] /\ WritesKnowImage'
BY DEF IInv, TypeOK, WritesKnowImage

LEMMA KnowsOwn == ASSUME IInv, NEW w \in Workers PROVE KnowsImage(req[w]) /\ req[w] \in Requests
BY DEF IInv, TypeOK, WritesKnowImage

\* what is written about is a key of the tables
LEMMA WrittenIsKey ==
    ASSUME IInv, NEW w \in Workers,
           req[w].pc \in {"insert", "grant", "ensure", "publish", "unref", "pruneDel",
                          "delAccess", "delRow"}
    PROVE  req[w].img \in Images
BY KnowsOwn, IdsAreImages DEF KnowsImage

LEMMA LookupIsId == ASSUME IInv, NEW ref PROVE Lookup(ref) \in IdOrNone
<1> USE DEF Lookup, IInv, TypeOK, IdOrNone
<1>1. CASE ref \in Tags
  BY <1>1
<1>2. CASE ref \notin Tags
  BY <1>2, IdsAreImages
<1> QED  BY <1>1, <1>2

LEMMA ResolvedIsId ==
    ASSUME IInv, NEW ref, NEW i \in resolveImageIDByRef(ref) \cup PullLookup(ref)
    PROVE  i \in IdOrNone /\ (i # NoImage => i = Lookup(ref) /\ i \in Ids)
<1>1. i = Lookup(ref) \/ i = NoImage
  BY DEF resolveImageIDByRef, PullLookup
<1> QED  BY <1>1, LookupIsId DEF IdOrNone

LEMMA GotoIsRequest ==
    ASSUME IInv, NEW w \in Workers, NEW pc \in PCs, Goto(w, pc)
    PROVE  /\ [req[w] EXCEPT !.pc = pc] \in Requests
           /\ req' = [req EXCEPT ![w] = [req[w] EXCEPT !.pc = pc]]
BY DEF IInv, TypeOK, Goto, Requests

LEMMA FinishStep ==
    ASSUME IInv, NEW w \in Workers, Finish(w)
    PROVE  req' \in [Workers -> Requests] /\ WritesKnowImage'
<1>1. KnowsImage(IdleRequest)
  BY DEF KnowsImage, IdleRequest
<1> QED  BY <1>1, IdleRequestType, RequestStep DEF Finish

LEMMA ArriveIInv ==
    ASSUME IInv, NEW w \in Workers, Arrive(w)
    PROVE  IInv'
<1> USE DEF IInv
<1> PICK id \in Callers :
        \/ \E ref \in Refs, public \in BOOLEAN : checkImagePullPermission(w, id, ref, public)
        \/ \E op \in Sources, t \in Tags \cup {NoImage} : ProduceRequest(w, id, op, t)
        \/ \E ref \in Refs, t \in Tags : checkImageTagPermission(w, id, ref, t)
        \/ \E ref \in Refs : checkCreateImage(w, id, ref)
        \/ \E ref \in Refs, force \in BOOLEAN : checkImageRemovePermission(w, id, ref, force)
        \/ handleImagePrune(w, id)
  BY DEF Arrive
<1> id \in Identities
  OBVIOUS
<1> HIDE DEF IInv
<1>1. ASSUME NEW r \in Requests, Begin(w, r), KnowsImage(r),
             UNCHANGED <<images, access, tags, restarts, answered, takeovers>>,
             store' \subseteq store
      PROVE  IInv'
  <2>1. req' \in [Workers -> Requests] /\ WritesKnowImage'
    BY <1>1, RequestStep DEF Begin
  <2> QED  BY <1>1, <2>1 DEF IInv, TypeOK, TablesTypeOK
<1>3. ASSUME NEW ref \in Refs, NEW public \in BOOLEAN,
             checkImagePullPermission(w, id, ref, public)
      PROVE  IInv'
  <2> DEFINE forwarded == [IdleRequest EXCEPT !.pc = "forward", !.op = "pull", !.id = id,
                                             !.ref = ref, !.flag = public]
             virtual(i) == [IdleRequest EXCEPT !.pc = "ensure", !.op = "virtual", !.id = id,
                                             !.img = i]
  <2>1. PICK i \in PullLookup(ref) :
        \/ Begin(w, forwarded)
        \/ PullIsVirtual(id, i, public) /\ Begin(w, virtual(i))
    BY <1>3 DEF checkImagePullPermission
  <2>4. UNCHANGED <<images, access, tags, restarts, answered, takeovers>> /\ store' = store
    BY <1>3 DEF checkImagePullPermission
  <2>5. CASE Begin(w, forwarded)
    <3>1. forwarded \in Requests /\ forwarded.pc = "forward"
      BY IdleRequestType DEF Requests, IdleRequest, PCs, ImageOrNone, Refs, AllOps, Sources
    <3>2. KnowsImage(forwarded)
      BY <3>1 DEF KnowsImage
    <3> QED  BY <1>1, <2>4, <2>5, <3>1, <3>2
  <2>6. CASE PullIsVirtual(id, i, public) /\ Begin(w, virtual(i))
    <3>1. i \in Ids
      BY <2>6, ResolvedIsId DEF PullIsVirtual, Known
    <3>2. virtual(i) \in Requests /\ virtual(i).pc = "ensure" /\ virtual(i).img = i
      BY <3>1, IdleRequestType, IdsAreImages
         DEF Requests, IdleRequest, PCs, ImageOrNone, Refs, AllOps, Sources
    <3>3. KnowsImage(virtual(i))
      BY <3>1, <3>2 DEF KnowsImage
    <3> QED  BY <1>1, <2>4, <2>6, <3>2, <3>3
  <2> QED  BY <2>1, <2>5, <2>6
<1>4. ASSUME NEW op \in Sources, NEW t \in Tags \cup {NoImage}, ProduceRequest(w, id, op, t)
      PROVE  IInv'
  <2> DEFINE r == [IdleRequest EXCEPT !.pc = "forward", !.op = op, !.id = id, !.ref = t]
  <2>1. r \in Requests /\ r.pc = "forward"
    BY IdleRequestType DEF Requests, IdleRequest, PCs, ImageOrNone, Refs, AllOps, Sources
  <2>2. KnowsImage(r)
    BY <2>1 DEF KnowsImage
  <2> QED  BY <1>1, <1>4, <2>1, <2>2 DEF ProduceRequest
<1>5. ASSUME NEW ref \in Refs, NEW t \in Tags, checkImageTagPermission(w, id, ref, t)
      PROVE  IInv'
  <2> DEFINE r == [IdleRequest EXCEPT !.pc = "forward", !.op = "tag", !.id = id,
                                     !.ref = ref, !.dst = t]
  <2>1. r \in Requests /\ r.pc = "forward"
    BY IdleRequestType DEF Requests, IdleRequest, PCs, ImageOrNone, Refs, AllOps, Sources
  <2>2. KnowsImage(r)
    BY <2>1 DEF KnowsImage
  <2> QED  BY <1>1, <1>5, <2>1, <2>2 DEF checkImageTagPermission
<1>6. ASSUME NEW ref \in Refs, checkCreateImage(w, id, ref)
      PROVE  IInv'
  <2> DEFINE r(pc, op, i) == [IdleRequest EXCEPT !.pc = pc, !.op = op, !.id = id, !.img = i]
  <2>1. PICK i \in resolveImageIDByRef(ref) :
          /\ i # NoImage
          /\ Begin(w, r("ensure", "create", i)) \/ Begin(w, r("insert", "bridge", i))
    BY <1>6 DEF checkCreateImage
  <2>2. i \in Ids
    BY <2>1, ResolvedIsId
  <2>3. UNCHANGED <<images, access, tags, restarts, answered, takeovers>> /\ store' = store
    BY <1>6 DEF checkCreateImage
  <2>4. /\ r("ensure", "create", i) \in Requests /\ r("insert", "bridge", i) \in Requests
        /\ r("ensure", "create", i).pc = "ensure" /\ r("ensure", "create", i).img = i
        /\ r("insert", "bridge", i).pc = "insert" /\ r("insert", "bridge", i).img = i
        /\ r("insert", "bridge", i).op = "bridge"
    BY <2>2, IdleRequestType, IdsAreImages
       DEF Requests, IdleRequest, PCs, ImageOrNone, Refs, AllOps, Sources
  <2>5. KnowsImage(r("ensure", "create", i)) /\ KnowsImage(r("insert", "bridge", i))
    BY <2>2, <2>4 DEF KnowsImage
  <2> QED  BY <1>1, <2>1, <2>3, <2>4, <2>5
<1>7. ASSUME NEW ref \in Refs, NEW force \in BOOLEAN,
             checkImageRemovePermission(w, id, ref, force)
      PROVE  IInv'
  <2> DEFINE forwarded == [IdleRequest EXCEPT !.pc = "forward", !.op = "rmi", !.id = id,
                                             !.ref = ref, !.flag = force]
             virtual(i) == [IdleRequest EXCEPT !.pc = "unref", !.op = "rmi", !.id = id,
                                             !.img = i]
  <2>1. PICK i \in resolveImageIDByRef(ref) :
          \/ Begin(w, forwarded)
          \/ RmiIsVirtual(id, i) /\ Begin(w, virtual(i))
    BY <1>7 DEF checkImageRemovePermission
  <2>2. UNCHANGED <<images, access, tags, restarts, answered, takeovers>> /\ store' = store
    BY <1>7 DEF checkImageRemovePermission
  <2>3. CASE Begin(w, forwarded)
    <3>1. forwarded \in Requests /\ forwarded.pc = "forward"
      BY IdleRequestType DEF Requests, IdleRequest, PCs, ImageOrNone, Refs, AllOps, Sources
    <3>2. KnowsImage(forwarded)
      BY <3>1 DEF KnowsImage
    <3> QED  BY <1>1, <2>2, <2>3, <3>1, <3>2
  <2>4. CASE RmiIsVirtual(id, i) /\ Begin(w, virtual(i))
    <3>1. i \in Ids
      BY <2>4, ResolvedIsId DEF RmiIsVirtual, Known
    <3>2. virtual(i) \in Requests /\ virtual(i).pc = "unref" /\ virtual(i).img = i
      BY <3>1, IdleRequestType, IdsAreImages
         DEF Requests, IdleRequest, PCs, ImageOrNone, Refs, AllOps, Sources
    <3>3. KnowsImage(virtual(i))
      BY <3>1, <3>2 DEF KnowsImage
    <3> QED  BY <1>1, <2>2, <2>4, <3>2, <3>3
  <2> QED  BY <2>1, <2>3, <2>4
<1>8. ASSUME handleImagePrune(w, id) PROVE IInv'
  <2> DEFINE r(op) == [IdleRequest EXCEPT !.pc = "prune", !.op = op, !.id = id,
                                         !.todo = Dangling]
  <2>1. \A op \in {"prune", "sweep"} : r(op) \in Requests /\ r(op).pc = "prune"
    BY IdleRequestType DEF Requests, IdleRequest, PCs, ImageOrNone, Refs, AllOps, Sources, IInv, TypeOK, Dangling
  <2>2. \A op \in {"prune", "sweep"} : KnowsImage(r(op))
    BY <2>1 DEF KnowsImage
  <2>3. \E op \in {"prune", "sweep"} : Begin(w, r(op))
    BY <1>8 DEF handleImagePrune
  <2>4. store' \subseteq store /\ UNCHANGED <<images, access, tags, restarts, answered, takeovers>>
    BY <1>8 DEF handleImagePrune
  <2> QED  BY <1>1, <2>1, <2>2, <2>3, <2>4
<1> QED  BY <1>3, <1>4, <1>5, <1>6, <1>7, <1>8

LEMMA DaemonIInv ==
    ASSUME IInv, NEW w \in Workers, Daemon(w)
    PROVE  IInv'
<1>0. req[w] \in Requests /\ KnowsImage(req[w])
  BY KnowsOwn
<1>1. CASE DaemonProduces(w)
  <2>1. PICK op \in Sources, i \in Ids, reported \in ImageOrNone :
          /\ Forwarded(w, op)
          /\ reported = i \/ op \in {"pull", "build"}
          /\ store' = store \cup {i}
          /\ tags' = Retag(req[w].ref, i)
          /\ \/ Finish(w)
             \/ req' = [req EXCEPT
                    ![w].pc = IF req[w].op \in {"pull", "build"} THEN "resolve" ELSE "insert",
                    ![w].img = reported]
    BY <1>1 DEF DaemonProduces, Forwarded
  <2>2. req' \in [Workers -> Requests] /\ WritesKnowImage'
    <3> DEFINE r == [req[w] EXCEPT
                    !.pc = IF req[w].op \in {"pull", "build"} THEN "resolve" ELSE "insert",
                    !.img = reported]
    <3>1. CASE Finish(w)
      BY <3>1, FinishStep
    <3>2. CASE ~Finish(w)
      <4>1. req' = [req EXCEPT ![w] = r] /\ r \in Requests
        BY <1>0, <2>1, <3>2 DEF IInv, TypeOK, Requests, PCs
      <4>2. /\ r.pc = "insert" => r.img \in Ids /\ r.op \in Sources
            /\ r.pc = "resolve" => r.op \in {"pull", "build"}
            /\ r.pc \in {"resolve", "insert"}
        BY <1>0, <2>1 DEF Forwarded, Requests
      <4>3. KnowsImage(r)
        BY <4>2 DEF KnowsImage
      <4> QED  BY <4>1, <4>3, RequestStep
    <3> QED  BY <3>1, <3>2
  <2>3. store' \subseteq Ids /\ tags' \in [Tags -> IdOrNone]
    BY <2>1 DEF IInv, TypeOK, Retag, IdOrNone
  <2> QED  BY <1>1, <2>2, <2>3 DEF DaemonProduces, IInv, TypeOK, TablesTypeOK
<1>2. CASE DaemonTags(w)
  <2>1. Lookup(req[w].ref) \in IdOrNone
    BY LookupIsId
  <2>2. tags' \in [Tags -> IdOrNone]
    BY <1>2, <2>1 DEF DaemonTags, Retag, IInv, TypeOK
  <2>3. req' \in [Workers -> Requests] /\ WritesKnowImage'
    <3>1. CASE Finish(w)
      BY <3>1, FinishStep
    <3>2. CASE Goto(w, "resolve")
      <4>1. "resolve" \in PCs
        BY DEF PCs
      <4> DEFINE r == [req[w] EXCEPT !.pc = "resolve"]
      <4>2. r \in Requests /\ req' = [req EXCEPT ![w] = r]
        BY <3>2, <4>1, GotoIsRequest
      <4>3. r.pc = "resolve" /\ r.op = "tag"
        BY <1>0, <1>2 DEF Requests, DaemonTags, Forwarded
      <4>4. KnowsImage(r)
        BY <4>3 DEF KnowsImage
      <4> QED  BY <4>2, <4>4, RequestStep
    <3> QED  BY <1>2, <3>1, <3>2 DEF DaemonTags
  <2> QED  BY <1>2, <2>2, <2>3 DEF DaemonTags, IInv, TypeOK, TablesTypeOK
<1>3. CASE DaemonRemoves(w)
  <2> DEFINE ref == req[w].ref
             i == Lookup(ref)
             r == [req[w] EXCEPT !.pc = "delAccess", !.img = i, !.ref = NoImage]
  <2>1. i \in Ids
    BY <1>3, LookupIsId DEF DaemonRemoves, IdOrNone
  <2>2. store' \subseteq store /\ tags' \in [Tags -> IdOrNone]
    BY <1>3 DEF DaemonRemoves, Retag, Untag, IInv, TypeOK, IdOrNone
  <2>3. Finish(w) \/ req' = [req EXCEPT ![w] = r]
    BY <1>3 DEF DaemonRemoves, IInv, TypeOK
  <2>4. r \in Requests /\ r.pc = "delAccess" /\ r.img = i
    BY <1>0, <2>1, IdsAreImages DEF Requests, PCs, ImageOrNone, Refs
  <2>5. KnowsImage(r)
    BY <2>1, <2>4 DEF KnowsImage
  <2>6. req' \in [Workers -> Requests] /\ WritesKnowImage'
    BY <2>3, <2>4, <2>5, FinishStep, RequestStep
  <2> QED  BY <1>3, <2>2, <2>6 DEF DaemonRemoves, IInv, TypeOK, TablesTypeOK
<1>4. CASE DaemonPrunes(w)
  <2> DEFINE r == [req[w] EXCEPT !.pc = "delAccess"]
  <2>1. store' \subseteq store /\ tags' \in [Tags -> IdOrNone]
    BY <1>4 DEF DaemonPrunes, Untag, IInv, TypeOK, IdOrNone
  <2>2. r \in Requests /\ req' = [req EXCEPT ![w] = r]
    BY <1>4, GotoIsRequest DEF DaemonPrunes, PCs
  <2>3. r.pc = "delAccess" /\ r.img = req[w].img /\ req[w].pc = "pruneDel"
    BY <1>0, <1>4 DEF DaemonPrunes, Requests
  <2>4. KnowsImage(r)
    BY <1>0, <2>3 DEF KnowsImage
  <2>5. req' \in [Workers -> Requests] /\ WritesKnowImage'
    BY <2>2, <2>4, RequestStep
  <2> QED  BY <1>4, <2>1, <2>5 DEF DaemonPrunes, IInv, TypeOK, TablesTypeOK
<1>5. CASE DaemonFails(w)
  <2> DEFINE r == [req[w] EXCEPT !.pc = "prune"]
  <2>1. Finish(w) \/ Goto(w, "prune")
    BY <1>5 DEF DaemonFails
  <2>2. Goto(w, "prune") => r \in Requests /\ req' = [req EXCEPT ![w] = r]
    BY GotoIsRequest DEF PCs
  <2>3. r.pc = "prune"
    BY <1>0 DEF Requests
  <2>4. KnowsImage(r)
    BY <2>3 DEF KnowsImage
  <2>5. req' \in [Workers -> Requests] /\ WritesKnowImage'
    BY <2>1, <2>2, <2>4, FinishStep, RequestStep
  <2> QED  BY <1>5, <2>5 DEF DaemonFails, IInv, TypeOK, TablesTypeOK
<1> QED  BY <1>1, <1>2, <1>3, <1>4, <1>5 DEF Daemon

\* A step of worker w that moves its request to pc and writes the tables.
LEMMA GotoStep ==
    ASSUME IInv, NEW w \in Workers, NEW pc \in PCs, Goto(w, pc),
           pc \in {"grant", "ensure", "publish"} =>
               req[w].pc \in {"insert", "grant", "ensure"},
           pc \in {"delAccess", "delRow"} => req[w].pc = "delAccess",
           pc \notin {"insert", "resolve", "unref", "pruneDel"}
    PROVE  req' \in [Workers -> Requests] /\ WritesKnowImage'
<1> DEFINE r == [req[w] EXCEPT !.pc = pc]
<1>1. r \in Requests /\ req' = [req EXCEPT ![w] = r]
  BY GotoIsRequest
<1>2. req[w] \in Requests /\ KnowsImage(req[w])
  BY KnowsOwn
<1>3. r.pc = pc /\ r.img = req[w].img /\ r.op = req[w].op
  BY <1>2 DEF Requests
<1>4. KnowsImage(r)
  BY <1>2, <1>3 DEF KnowsImage
<1> QED  BY <1>1, <1>4, RequestStep

LEMMA UpsertedRowType ==
    ASSUME NEW row \in Rows, NEW id \in Identities, NEW source \in Sources
    PROVE  UpsertedRow(row, id, source) \in Rows
BY DEF UpsertedRow, Rows, Identities, Sources, IsSudoCommand

LEMMA SetImagePublicType ==
    ASSUME TablesTypeOK, NEW i \in Images, NEW isPublic \in BOOLEAN, SetImagePublic(i, isPublic)
    PROVE  TablesTypeOK'
<1> DEFINE v == isPublic /\ Tracked(i)
<1>1. v \in BOOLEAN
  OBVIOUS
<1>2. images' = [images EXCEPT ![i].public = v] /\ access' = access
  BY DEF SetImagePublic
<1> HIDE DEF v
<1> QED  BY <1>1, <1>2 DEF TablesTypeOK, Rows

LEMMA WriteIInv ==
    ASSUME IInv, NEW w \in Workers, Write(w)
    PROVE  IInv'
<1>0. /\ req[w] \in Requests /\ req[w].id \in Identities /\ req[w].id.uid \in Uids
      /\ req[w].todo \subseteq Ids /\ req[w].img \in ImageOrNone /\ KnowsImage(req[w])
  BY KnowsOwn DEF Requests, Identities
<1>1. CASE ResolveProduced(w)
  <2> DEFINE new == IF req[w].op = "tag" THEN req[w].dst ELSE req[w].ref
             old == IF req[w].op = "tag" THEN Lookup(req[w].ref) ELSE req[w].img
             pc == IF req[w].op = "tag" THEN "ensure" ELSE "insert"
             r(i) == [req[w] EXCEPT !.pc = pc, !.img = i, !.ref = NoImage, !.dst = NoImage]
  <2>1. PICK found \in PullLookup(new) :
          LET i == IF found # NoImage THEN found ELSE old
          IN  IF i = NoImage THEN Finish(w)
              ELSE req' = [req EXCEPT ![w].pc = pc, ![w].img = i, ![w].ref = NoImage,
                                      ![w].dst = NoImage]
    BY <1>1 DEF ResolveProduced
  <2>2. PICK i : i = IF found # NoImage THEN found ELSE old
    OBVIOUS
  <2>3. i \in IdOrNone \/ (req[w].op # "tag" /\ i = req[w].img)
    BY <2>2, ResolvedIsId, LookupIsId
  <2>4. CASE i = NoImage
    BY <2>1, <2>2, <2>4, FinishStep, <1>1 DEF ResolveProduced, IInv, TypeOK, TablesTypeOK
  <2>5. CASE i # NoImage
    <3>1. i \in Images /\ (i \in Ids \/ req[w].op # "tag")
      BY <1>0, <2>3, <2>5, IdsAreImages DEF ImageOrNone, IdOrNone
    <3>2. req' = [req EXCEPT ![w] = r(i)]
      BY <1>0, <2>1, <2>2, <2>5 DEF IInv, TypeOK
    <3>3. pc \in PCs /\ pc \in {"ensure", "insert"}
      BY DEF PCs
    <3>4. r(i) \in Requests /\ r(i).pc = pc /\ r(i).img = i /\ r(i).op = req[w].op
      <4> HIDE DEF pc
      <4> QED  BY <1>0, <3>1, <3>3 DEF Requests, PCs, ImageOrNone
    <3>5. req[w].op \in {"pull", "build", "tag"}
      BY <1>0, <1>1 DEF ResolveProduced, KnowsImage
    <3>6. KnowsImage(r(i))
      BY <3>1, <3>4, <3>5 DEF KnowsImage, Sources
    <3>7. req' \in [Workers -> Requests] /\ WritesKnowImage'
      BY <3>2, <3>4, <3>6, RequestStep
    <3> QED  BY <1>1, <3>7 DEF ResolveProduced, IInv, TypeOK, TablesTypeOK
  <2> QED  BY <2>4, <2>5
<1>2. CASE RegisterOwner(w)
  <2> DEFINE source == IF req[w].op = "bridge" THEN "pull" ELSE req[w].op
  <2>1. req[w].img \in Images /\ source \in Sources /\ req[w].pc = "insert"
    BY <1>0, <1>2, WrittenIsKey DEF RegisterOwner, KnowsImage, Sources
  <2>2. UpsertedRow(images[req[w].img], req[w].id, source) \in Rows
    BY <1>0, <2>1, UpsertedRowType DEF IInv, TypeOK, TablesTypeOK
  <2>3. images' \in [Images -> Rows] /\ access' = access
    BY <1>2, <2>1, <2>2 DEF RegisterOwner, InsertOwner, IInv, TypeOK, TablesTypeOK
  <2>4. takeovers' \in [Images -> Nat]
    BY <1>2, <2>1 DEF RegisterOwner, IInv, TypeOK
  <2>5. req' \in [Workers -> Requests] /\ WritesKnowImage'
    BY <1>2, GotoStep DEF RegisterOwner, PCs
  <2> QED  BY <1>2, <2>3, <2>4, <2>5 DEF RegisterOwner, IInv, TypeOK, TablesTypeOK
<1>3. CASE RegisterAccess(w)
  <2>1. req[w].img \in Images
    BY <1>3, WrittenIsKey DEF RegisterAccess
  <2>2. access' \in [Images -> [Uids -> Contexts]] /\ images' = images
    BY <1>0, <1>3, <2>1
       DEF RegisterAccess, UpsertAccess, MinContext, Contexts, IInv, TypeOK, TablesTypeOK
  <2>3. answered' \subseteq Images \X Uids
    BY <1>0, <1>3, <2>1 DEF RegisterAccess, IInv, TypeOK
  <2>4. req' \in [Workers -> Requests] /\ WritesKnowImage'
    BY <1>3, GotoStep, FinishStep DEF RegisterAccess, PCs
  <2> QED  BY <1>3, <2>2, <2>3, <2>4 DEF RegisterAccess, IInv, TypeOK, TablesTypeOK
<1>4. CASE EnsureAccess(w)
  <2>1. req[w].img \in Images
    BY <1>4, WrittenIsKey DEF EnsureAccess
  <2>2. access' \in [Images -> [Uids -> Contexts]] /\ images' = images
    BY <1>0, <1>4, <2>1
       DEF EnsureAccess, EnsureImageAccess, Contexts, IInv, TypeOK, TablesTypeOK
  <2>3. answered' \subseteq Images \X Uids
    BY <1>0, <1>4, <2>1 DEF EnsureAccess, IInv, TypeOK
  <2>4. (Goto(w, "publish") \/ Finish(w)) /\ req[w].pc = "ensure"
    BY <1>4 DEF EnsureAccess
  <2>5. req' \in [Workers -> Requests] /\ WritesKnowImage'
    BY <2>4, GotoStep, FinishStep DEF PCs
  <2> QED  BY <1>4, <2>2, <2>3, <2>5 DEF EnsureAccess, IInv, TypeOK, TablesTypeOK
<1>5. CASE Publish(w)
  <2>1. req[w].img \in Images
    BY <1>5, WrittenIsKey DEF Publish
  <2>2. TablesTypeOK'
    BY <1>5, <2>1, SetImagePublicType DEF Publish, IInv, TypeOK
  <2>3. req' \in [Workers -> Requests] /\ WritesKnowImage'
    BY <1>5, FinishStep DEF Publish
  <2> QED  BY <1>5, <2>2, <2>3 DEF Publish, IInv, TypeOK
<1>6. CASE DropReference(w)
  <2>1. req[w].img \in Images
    BY <1>6, WrittenIsKey DEF DropReference
  <2>2. access' \in [Images -> [Uids -> Contexts]] /\ images' = images
    BY <1>0, <1>6, <2>1
       DEF DropReference, RemoveUserImageAccess, Contexts, IInv, TypeOK, TablesTypeOK
  <2>3. answered' \subseteq answered
    BY <1>6 DEF DropReference
  <2>4. req' \in [Workers -> Requests] /\ WritesKnowImage'
    BY <1>6, FinishStep DEF DropReference
  <2> QED  BY <1>6, <2>2, <2>3, <2>4 DEF DropReference, IInv, TypeOK, TablesTypeOK
<1>7. CASE PruneNext(w)
  <2> DEFINE r(i) == [req[w] EXCEPT
            !.todo = req[w].todo \ {i},
            !.img = i,
            !.pc = IF req[w].op = "sweep" THEN "delAccess"
                   ELSE IF Tracked(i) /\ images[i].owner # req[w].id.uid THEN "prune"
                   ELSE "pruneDel"]
  <2>1. PICK i \in req[w].todo : req' = [req EXCEPT ![w] = r(i)]
    BY <1>7 DEF PruneNext, IInv, TypeOK
  <2>2. i \in Ids /\ i \in Images
    BY <1>0, IdsAreImages
  <2>3. PICK pc \in {"delAccess", "prune", "pruneDel"} :
            r(i) = [req[w] EXCEPT !.todo = req[w].todo \ {i}, !.img = i, !.pc = pc]
    OBVIOUS
  <2> HIDE DEF r
  <2>4. r(i) \in Requests /\ r(i).img = i /\ r(i).pc = pc
    BY <1>0, <2>2, <2>3 DEF Requests, PCs, ImageOrNone
  <2>5. KnowsImage(r(i))
    BY <2>2, <2>4 DEF KnowsImage
  <2>6. req' \in [Workers -> Requests] /\ WritesKnowImage'
    BY <2>1, <2>4, <2>5, RequestStep
  <2> QED  BY <1>7, <2>6 DEF PruneNext, IInv, TypeOK, TablesTypeOK
<1>8. CASE PruneDone(w)
  BY <1>8, FinishStep DEF PruneDone, IInv, TypeOK, TablesTypeOK
<1>9. CASE ForgetAccess(w)
  <2>1. req[w].img \in Images
    BY <1>9, WrittenIsKey DEF ForgetAccess
  <2>2. access' \in [Images -> [Uids -> Contexts]] /\ images' = images
    BY <1>9, <2>1 DEF ForgetAccess, DeleteAccessRows, Contexts, IInv, TypeOK, TablesTypeOK
  <2>3. answered' \subseteq answered
    BY <1>9 DEF ForgetAccess
  <2>4. req' \in [Workers -> Requests] /\ WritesKnowImage'
    BY <1>9, GotoStep DEF ForgetAccess, PCs
  <2> QED  BY <1>9, <2>2, <2>3, <2>4 DEF ForgetAccess, IInv, TypeOK, TablesTypeOK
<1>10. CASE ForgetOwner(w)
  <2>1. req[w].img \in Images
    BY <1>10, WrittenIsKey DEF ForgetOwner
  <2>2. images' \in [Images -> Rows] /\ access' = access
    BY <1>10, <2>1 DEF ForgetOwner, DeleteOwnerRow, NoRow, Rows, IInv, TypeOK, TablesTypeOK
  <2>3. takeovers' \in [Images -> Nat]
    BY <1>10, <2>1 DEF ForgetOwner, IInv, TypeOK
  <2>4. req' \in [Workers -> Requests] /\ WritesKnowImage'
    BY <1>10, FinishStep, GotoStep DEF ForgetOwner, AfterDelete, PCs
  <2> QED  BY <1>10, <2>2, <2>3, <2>4 DEF ForgetOwner, IInv, TypeOK, TablesTypeOK
<1> QED
  BY <1>1, <1>2, <1>3, <1>4, <1>5, <1>6, <1>7, <1>8, <1>9, <1>10 DEF Write

LEMMA CtlIInv == ASSUME IInv, Ctl PROVE IInv'
<1> PICK i \in Images :
        \/ \E public, force \in BOOLEAN : imageSetPublic(i, public, force)
        \/ \E u \in Grantees : imageGrant(i, u)
  BY DEF Ctl
<1>1. ASSUME NEW public \in BOOLEAN, NEW force \in BOOLEAN, imageSetPublic(i, public, force)
      PROVE  IInv'
  <2>1. TablesTypeOK'
    BY <1>1, SetImagePublicType DEF imageSetPublic, IInv, TypeOK
  <2> QED  BY <1>1, <2>1 DEF imageSetPublic, IInv, TypeOK, WritesKnowImage, KnowsImage
<1>2. ASSUME NEW u \in Uids, imageGrant(i, u) PROVE IInv'
  BY <1>2 DEF imageGrant, EnsureImageAccess, Contexts, IInv, TypeOK, TablesTypeOK, WritesKnowImage, KnowsImage
<1> QED  BY <1>1, <1>2

LEMMA StepIInv == IInv /\ [Next]_vars => IInv'
<1> SUFFICES ASSUME IInv, [Next]_vars PROVE IInv'
  OBVIOUS
<1>1. CASE \E w \in Workers : Arrive(w) \/ Daemon(w) \/ Write(w)
  BY <1>1, ArriveIInv, DaemonIInv, WriteIInv
<1>2. CASE Ctl
  BY <1>2, CtlIInv
<1>3. CASE Restart
  BY <1>3, IdleRequestType
     DEF Restart, IdleRequest, IInv, TypeOK, TablesTypeOK, WritesKnowImage, KnowsImage
<1>4. CASE UNCHANGED vars
  BY <1>4 DEF vars, IInv, TypeOK, TablesTypeOK, WritesKnowImage, KnowsImage
<1> QED  BY <1>1, <1>2, <1>3, <1>4 DEF Next

\* Every variable keeps its type, in every interleaving of the requests' steps.
THEOREM TypeCorrect == Spec => []TypeOK
<1>1. IInv => TypeOK
  BY DEF IInv
<1> QED  BY InitIInv, StepIInv, <1>1, PTL DEF Spec

\* No request writes to the tables about an empty image id, only a pull or a
\* build whose lookup gave nothing writes about a manifest digest, and every
\* delete goes by the id of an image, whatever the daemon answers between the
\* steps of a request, whether lookups fail or not.
THEOREM WritesKnowImageAlways == Spec => []WritesKnowImage
<1>1. IInv => WritesKnowImage
  BY DEF IInv
<1> QED  BY InitIInv, StepIInv, <1>1, PTL DEF Spec

-----------------------------------------------------------------------------
(* Non-privileged visibility: only four steps touch what it speaks of. *)

LEMMA StepVisible == IInv /\ RegisteredPullVisible /\ [Next]_vars => RegisteredPullVisible'
<1> SUFFICES ASSUME IInv, RegisteredPullVisible, [Next]_vars PROVE RegisteredPullVisible'
  OBVIOUS
<1> USE DEF RegisteredPullVisible
<1>1. ASSUME UNCHANGED <<access, answered>> PROVE RegisteredPullVisible'
  BY <1>1
<1>2. ASSUME NEW w \in Workers, Arrive(w) PROVE UNCHANGED <<access, answered>>
  BY <1>2 DEF Arrive, checkImagePullPermission, ProduceRequest, checkImageTagPermission,
     checkCreateImage, checkImageRemovePermission, handleImagePrune
<1>3. ASSUME NEW w \in Workers, Daemon(w) PROVE UNCHANGED <<access, answered>>
  BY <1>3 DEF Daemon, DaemonProduces, DaemonTags, DaemonRemoves, DaemonPrunes, DaemonFails
<1>4. ASSUME NEW w \in Workers, Write(w) PROVE RegisteredPullVisible'
  <2>0. /\ req[w].id.uid \in Uids
        /\ access \in [Images -> [Uids -> Contexts]]
    BY DEF IInv, TypeOK, TablesTypeOK, Requests, Identities
  <2>1. CASE RegisterAccess(w)
    <3>1. req[w].img \in Images
      BY <2>1, WrittenIsKey DEF RegisterAccess
    <3>2. access' = [access EXCEPT ![req[w].img][req[w].id.uid] =
                        MinContext(access[req[w].img][req[w].id.uid], req[w].id)]
      BY <2>0, <2>1, <3>1 DEF RegisterAccess, UpsertAccess
    <3>3. SUFFICES ASSUME NEW i \in Images, NEW u \in Uids,
                          <<i, u>> \in answered'
                   PROVE  access'[i][u] = "plain"
      OBVIOUS
    <3>4. CASE i = req[w].img /\ u = req[w].id.uid
      BY <2>0, <2>1, <3>1, <3>2, <3>3, <3>4 DEF RegisterAccess, MinContext
    <3>5. CASE ~(i = req[w].img /\ u = req[w].id.uid)
      BY <2>0, <2>1, <3>1, <3>2, <3>3, <3>5 DEF RegisterAccess
    <3> QED  BY <3>4, <3>5
  <2>2. CASE EnsureAccess(w)
    BY <2>0, <2>2, WrittenIsKey DEF EnsureAccess, EnsureImageAccess
  <2>3. CASE DropReference(w)
    BY <2>0, <2>3, WrittenIsKey DEF DropReference, RemoveUserImageAccess
  <2>4. CASE ForgetAccess(w)
    BY <2>0, <2>4, WrittenIsKey DEF ForgetAccess, DeleteAccessRows
  <2>5. CASE ResolveProduced(w) \/ RegisterOwner(w) \/ Publish(w) \/ PruneNext(w)
             \/ PruneDone(w) \/ ForgetOwner(w)
    BY <1>1, <2>5 DEF ResolveProduced, RegisterOwner, InsertOwner, Publish, SetImagePublic,
       PruneNext, PruneDone, ForgetOwner, DeleteOwnerRow
  <2> QED  BY <1>4, <2>1, <2>2, <2>3, <2>4, <2>5 DEF Write
<1>5. CASE Ctl
  BY <1>1, <1>5 DEF Ctl, imageSetPublic, SetImagePublic, imageGrant, EnsureImageAccess,
     IInv, TypeOK, TablesTypeOK
<1>6. CASE Restart \/ UNCHANGED vars
  BY <1>1, <1>6 DEF Restart, vars
<1> QED  BY <1>1, <1>2, <1>3, <1>4, <1>5, <1>6 DEF Next

\* An image obtained without sudo stays in its user's non-privileged view until
\* that user drops it or it is deleted, whatever sudo commands run in between:
\* the MIN rule of SetImageOwner is enough.
THEOREM RegisteredPullsStayVisible == Spec => []RegisteredPullVisible
<1>1. Init => RegisteredPullVisible
  BY DEF Init, RegisteredPullVisible
<1> QED  BY InitIInv, StepIInv, <1>1, StepVisible, PTL DEF Spec

\* Whoever obtained an image without sudo passes the check of a create by the
\* reference under which he was registered, id or manifest digest, as long as
\* the row and the image are there: a digest is bridged to the id.
THEOREM PullersMayCreate == Spec => []PullerMayCreate
<1>1. RegisteredPullVisible => PullerMayCreate
  <2> SUFFICES ASSUME RegisteredPullVisible, NEW k \in Images, NEW id \in Callers,
                      <<k, id.uid>> \in answered, Tracked(k)
               PROVE  CreatePasses(id, k, ConfigOf[k])
    BY DEF PullerMayCreate
  <2>1. id.uid \in Uids
    BY DEF Identities
  <2>2. CanUseImage(id.uid, k)
    BY <2>1 DEF RegisteredPullVisible, CanUseImage, HasUserImageAccess
  <2> QED  BY <2>2 DEF CreatePasses, Bridges
<1> QED  BY <1>1, RegisteredPullsStayVisible, PTL

-----------------------------------------------------------------------------
(* Ownership: only the upsert and the delete of an images row matter. *)

LEMMA StepOwner == IInv /\ OwnerChangesOnce /\ [Next]_vars => OwnerChangesOnce'
<1> SUFFICES ASSUME IInv, OwnerChangesOnce, [Next]_vars PROVE OwnerChangesOnce'
  OBVIOUS
<1> USE DEF OwnerChangesOnce
<1>0. images \in [Images -> Rows] /\ takeovers \in [Images -> Nat]
  BY DEF IInv, TypeOK, TablesTypeOK
<1>1. ASSUME takeovers' = takeovers, \A i \in Images : images'[i].source = images[i].source
      PROVE  OwnerChangesOnce'
  BY <1>1
<1>2. ASSUME NEW w \in Workers, Arrive(w) \/ Daemon(w) PROVE UNCHANGED <<images, takeovers>>
  BY <1>2 DEF Arrive, checkImagePullPermission, ProduceRequest, checkImageTagPermission,
     checkCreateImage, checkImageRemovePermission, handleImagePrune,
     Daemon, DaemonProduces, DaemonTags, DaemonRemoves, DaemonPrunes, DaemonFails
<1>3. ASSUME NEW j \in Images, NEW isPublic, SetImagePublic(j, isPublic)
      PROVE  \A i \in Images : images'[i].source = images[i].source
  BY <1>0, <1>3 DEF SetImagePublic, Rows
<1>4. ASSUME NEW w \in Workers, Write(w) PROVE OwnerChangesOnce'
  <2>1. CASE RegisterOwner(w)
    <3> DEFINE j == req[w].img
               source == IF req[w].op = "bridge" THEN "pull" ELSE req[w].op
               row == UpsertedRow(images[j], req[w].id, source)
    <3>1. j \in Images
      BY <2>1, WrittenIsKey DEF RegisterOwner
    <3>2. images' = [images EXCEPT ![j] = row]
      BY <2>1, <3>1, <1>0 DEF RegisterOwner, InsertOwner
    <3>3. takeovers' = [takeovers EXCEPT ![j] =
              IF Tracked(j) /\ row.owner # images[j].owner THEN takeovers[j] + 1 ELSE takeovers[j]]
      BY <2>1, <3>1, <3>2, <1>0 DEF RegisterOwner
    <3>4. CASE Tracked(j) /\ row.owner # images[j].owner
      <4>1. images[j].source = "build" /\ row.source = "pull"
        BY <1>0, <3>1, <3>4 DEF UpsertedRow, Tracked, Rows
      <4>2. takeovers[j] = 0
        BY <1>0, <3>1, <4>1
      <4> QED  BY <1>0, <3>1, <3>2, <3>3, <3>4, <4>1, <4>2
    <3>5. CASE ~(Tracked(j) /\ row.owner # images[j].owner)
      <4>1. takeovers' = takeovers
        BY <1>0, <3>1, <3>3, <3>5
      <4>2. images[j].source = "pull" => row.source = "pull"
        BY <1>0, <3>1 DEF UpsertedRow, Rows
      <4> QED  BY <1>0, <3>1, <3>2, <4>1, <4>2
    <3> QED  BY <3>4, <3>5
  <2>2. CASE ForgetOwner(w)
    BY <1>0, <2>2, WrittenIsKey DEF ForgetOwner, DeleteOwnerRow
  <2>3. CASE Publish(w)
    BY <1>1, <1>3, <2>3, WrittenIsKey DEF Publish
  <2>4. CASE ResolveProduced(w) \/ RegisterAccess(w) \/ EnsureAccess(w) \/ DropReference(w)
             \/ PruneNext(w) \/ PruneDone(w) \/ ForgetAccess(w)
    BY <1>1, <2>4 DEF ResolveProduced, RegisterAccess, UpsertAccess, EnsureAccess,
       EnsureImageAccess, DropReference, RemoveUserImageAccess, PruneNext, PruneDone,
       ForgetAccess, DeleteAccessRows
  <2> QED  BY <1>4, <2>1, <2>2, <2>3, <2>4 DEF Write
<1>5. CASE Ctl
  <2>1. PICK i \in Images :
        \/ \E public, force \in BOOLEAN : imageSetPublic(i, public, force)
        \/ \E u \in Grantees : imageGrant(i, u)
    BY <1>5 DEF Ctl
  <2> QED  BY <1>1, <1>3, <2>1 DEF imageSetPublic, imageGrant, EnsureImageAccess
<1>6. CASE Restart \/ UNCHANGED vars
  BY <1>1, <1>6 DEF Restart, vars
<1> QED  BY <1>1, <1>2, <1>4, <1>5, <1>6 DEF Next

\* A tracked image changes hands at most once, from its builder to a puller,
\* in every interleaving of any number of requests.
THEOREM OwnersAreStable == Spec => []OwnerChangesOnce
<1>1. Init => OwnerChangesOnce
  BY DEF Init, OwnerChangesOnce
<1> QED  BY InitIInv, StepIInv, <1>1, StepOwner, PTL DEF Spec


-----------------------------------------------------------------------------
(***************************************************************************)
(* One request at a time.  With several, a tag may move, a row may be      *)
(* written or an image be deleted between a check and the step it was for, *)
(* and what follows does not hold.                                         *)
(***************************************************************************)
OneAtATime == \A v, w \in Workers : v = w

\* The owner of a row has a reference, or the request that is to write it, or
\* to delete the row, is at work.
OwnersKept ==
    \A i \in Images : Tracked(i) =>
        \/ HasUserImageAccess(i, images[i].owner)
        \/ \E w \in Workers :
              /\ req[w].img = i
              /\ req[w].pc = "delRow" \/ (req[w].pc = "grant" /\ req[w].id.uid = images[i].owner)

\* the owner's own delete is never a virtual one
DropsOthers ==
    \A w \in Workers : req[w].pc = "unref" => images[req[w].img].owner # req[w].id.uid

TagsPresent == \A t \in Tags : tags[t] # NoImage => tags[t] \in store

\* the image that is written about is in the store, if it is named by its id
Present(i) == i \in Ids => i \in store

Grounded(r) ==
    /\ r.pc \in {"insert", "grant", "ensure", "publish"} => Present(r.img)
    /\ r.pc = "resolve" /\ r.op # "tag" => Present(r.img)

Blank(i) == ~Tracked(i) /\ \A u \in Uids : access[i][u] = "none"

\* r is about to remove the rows of i
Forgetting(r, i) ==
    \/ r.pc = "delAccess" /\ r.img = i
    \/ r.pc = "delRow" /\ r.img = i /\ \A u \in Uids : access[i][u] = "none"
    \/ r.op = "sweep" /\ r.pc \in {"prune", "delAccess", "delRow"} /\ i \in r.todo

\* an image that the daemon does not have is unknown, or about to be
GoneBlank == \A i \in Ids \ store : Blank(i) \/ \E w \in Workers : Forgetting(req[w], i)

PresentInv == TagsPresent /\ GoneBlank /\ \A w \in Workers : Grounded(req[w])

\* what a request that is about to delete an image was allowed to
Entitled(r, i) == IsPrivileged(r.id) \/ images[i].owner = r.id.uid

DeletesEntitled ==
    \A w \in Workers :
        /\ Forwarded(w, "rmi") /\ Known(Lookup(req[w].ref)) =>
               Entitled(req[w], Lookup(req[w].ref))
        /\ req[w].pc = "pruneDel" /\ Tracked(req[w].img) => Entitled(req[w], req[w].img)

PruneOps ==
    \A w \in Workers : req[w].pc \in {"prune", "pruneDel"} => req[w].op \in {"prune", "sweep"}

RmiChecked ==
    /\ \A i \in Images : images[i].public => Tracked(i)
    /\ \A w \in Workers : Forwarded(w, "rmi") =>
           RmiIsForwarded(req[w].id, Lookup(req[w].ref), req[w].flag)


LEMMA SameRequest ==
    ASSUME IInv, NEW w \in Workers, NEW pc, Goto(w, pc)
    PROVE  /\ req'[w].pc = pc /\ req'[w].op = req[w].op /\ req'[w].id = req[w].id
           /\ req'[w].img = req[w].img /\ req'[w].flag = req[w].flag /\ req'[w].todo = req[w].todo
BY DEF IInv, TypeOK, Goto, Requests

LEMMA Finished ==
    ASSUME IInv, NEW w \in Workers, Finish(w)
    PROVE  req'[w].pc = "idle"
BY DEF IInv, TypeOK, Finish, IdleRequest

\* The kinds of request there are, with what was checked for each.
LEMMA ArriveKinds ==
    ASSUME IInv, NEW w \in Workers, Arrive(w)
    PROVE  /\ req[w].pc = "idle" /\ UNCHANGED <<images, access, tags>>
           /\ \/ /\ store' = store
                 /\ \/ req'[w].pc = "forward" /\ req'[w].op # "rmi"
                    \/ /\ req'[w].pc \in {"ensure", "insert"} /\ req'[w].img # NoImage
                       /\ \E ref \in Refs : req'[w].img = Lookup(ref)
                    \/ /\ req'[w].pc = "forward" /\ req'[w].op = "rmi"
                       /\ \E i \in resolveImageIDByRef(req'[w].ref) :
                              RmiIsForwarded(req'[w].id, i, req'[w].flag)
                    \/ req'[w].pc = "unref" /\ RmiIsVirtual(req'[w].id, req'[w].img)
                    \/ req'[w].pc = "prune" /\ req'[w].op = "prune"
              \/ /\ req'[w].pc = "prune" /\ req'[w].op = "sweep" /\ IsPrivileged(req'[w].id)
                 /\ req'[w].todo = Dangling /\ store' = store \ Dangling
<1>0. req \in [Workers -> Requests]
  BY DEF IInv, TypeOK
<1>1. PICK id \in Callers :
        \/ \E ref \in Refs, public \in BOOLEAN : checkImagePullPermission(w, id, ref, public)
        \/ \E op \in Sources, t \in Tags \cup {NoImage} : ProduceRequest(w, id, op, t)
        \/ \E ref \in Refs, t \in Tags : checkImageTagPermission(w, id, ref, t)
        \/ \E ref \in Refs : checkCreateImage(w, id, ref)
        \/ \E ref \in Refs, force \in BOOLEAN : checkImageRemovePermission(w, id, ref, force)
        \/ handleImagePrune(w, id)
  BY DEF Arrive
<1>2. req[w].pc = "idle" /\ UNCHANGED <<images, access, tags>>
  BY <1>1 DEF checkImagePullPermission, ProduceRequest, checkImageTagPermission,
     checkCreateImage, checkImageRemovePermission, handleImagePrune, Idle
<1>3. ASSUME NEW ref \in Refs, NEW public \in BOOLEAN,
             checkImagePullPermission(w, id, ref, public)
      PROVE  /\ store' = store
             /\ \/ req'[w].pc = "forward" /\ req'[w].op # "rmi"
                \/ req'[w].pc = "ensure" /\ req'[w].img # NoImage /\ req'[w].img = Lookup(ref)
  <2>1. PICK i \in PullLookup(ref) :
        \/ Begin(w, [IdleRequest EXCEPT !.pc = "forward", !.op = "pull", !.id = id,
                                        !.ref = ref, !.flag = public])
        \/ /\ i # NoImage
           /\ Begin(w, [IdleRequest EXCEPT !.pc = "ensure", !.op = "virtual", !.id = id,
                                           !.img = i])
    BY <1>3 DEF checkImagePullPermission, PullIsVirtual, Known
  <2>2. \/ req'[w].pc = "forward" /\ req'[w].op = "pull"
        \/ req'[w].pc = "ensure" /\ req'[w].img = i /\ i # NoImage
    BY <1>0, <2>1 DEF Begin, IdleRequest
  <2>3. store' = store
    BY <1>3 DEF checkImagePullPermission
  <2> QED  BY <2>2, <2>3, ResolvedIsId
<1>4. ASSUME NEW op \in Sources, NEW t \in Tags \cup {NoImage}, ProduceRequest(w, id, op, t)
      PROVE  store' = store /\ req'[w].pc = "forward" /\ req'[w].op # "rmi"
  BY <1>0, <1>4 DEF ProduceRequest, Begin, IdleRequest, Sources
<1>5. ASSUME NEW ref \in Refs, NEW t \in Tags, checkImageTagPermission(w, id, ref, t)
      PROVE  store' = store /\ req'[w].pc = "forward" /\ req'[w].op # "rmi"
  BY <1>0, <1>5 DEF checkImageTagPermission, Begin, IdleRequest
<1>6. ASSUME NEW ref \in Refs, checkCreateImage(w, id, ref)
      PROVE  /\ store' = store /\ req'[w].pc \in {"ensure", "insert"}
             /\ req'[w].img # NoImage /\ req'[w].img = Lookup(ref)
  <2>1. PICK i \in resolveImageIDByRef(ref) :
          /\ i # NoImage /\ store' = store
          /\ \/ Begin(w, [IdleRequest EXCEPT !.pc = "ensure", !.op = "create", !.id = id,
                                             !.img = i])
             \/ Begin(w, [IdleRequest EXCEPT !.pc = "insert", !.op = "bridge", !.id = id,
                                             !.img = i])
    BY <1>6 DEF checkCreateImage
  <2>2. req'[w].pc \in {"ensure", "insert"} /\ req'[w].img = i
    BY <1>0, <2>1 DEF Begin, IdleRequest
  <2> QED  BY <2>1, <2>2, ResolvedIsId
<1>7. ASSUME NEW ref \in Refs, NEW force \in BOOLEAN,
             checkImageRemovePermission(w, id, ref, force)
      PROVE  /\ store' = store
             /\ \/ /\ req'[w].pc = "forward" /\ req'[w].op = "rmi"
                   /\ \E i \in resolveImageIDByRef(req'[w].ref) :
                          RmiIsForwarded(req'[w].id, i, req'[w].flag)
                \/ req'[w].pc = "unref" /\ RmiIsVirtual(req'[w].id, req'[w].img)
  <2>1. PICK i \in resolveImageIDByRef(ref) :
          \/ /\ RmiIsForwarded(id, i, force)
             /\ Begin(w, [IdleRequest EXCEPT !.pc = "forward", !.op = "rmi", !.id = id,
                                             !.ref = ref, !.flag = force])
          \/ /\ RmiIsVirtual(id, i)
             /\ Begin(w, [IdleRequest EXCEPT !.pc = "unref", !.op = "rmi", !.id = id,
                                             !.img = i])
    BY <1>7 DEF checkImageRemovePermission
  <2>2. \/ /\ RmiIsForwarded(id, i, force)
           /\ req'[w].pc = "forward" /\ req'[w].op = "rmi" /\ req'[w].id = id
           /\ req'[w].ref = ref /\ req'[w].flag = force
        \/ /\ RmiIsVirtual(id, i)
           /\ req'[w].pc = "unref" /\ req'[w].id = id /\ req'[w].img = i
    BY ZenonT(40), <1>0, <2>1 DEF Begin, IdleRequest
  <2>3. store' = store
    BY <1>7 DEF checkImageRemovePermission
  <2> QED  BY <2>2, <2>3
<1>8. ASSUME handleImagePrune(w, id)
      PROVE  \/ store' = store /\ req'[w].pc = "prune" /\ req'[w].op = "prune"
             \/ /\ req'[w].pc = "prune" /\ req'[w].op = "sweep" /\ IsPrivileged(req'[w].id)
                /\ req'[w].todo = Dangling /\ store' = store \ Dangling
  BY ZenonT(40), <1>0, <1>8 DEF handleImagePrune, Begin, IdleRequest
<1> QED  BY <1>1, <1>2, <1>3, <1>4, <1>5, <1>6, <1>7, <1>8

\* Where a request goes from the daemon and from a statement.
LEMMA DaemonGoes ==
    ASSUME IInv, NEW w \in Workers, Daemon(w)
    PROVE  /\ req[w].pc \in {"forward", "pruneDel"} /\ UNCHANGED <<images, access>>
           /\ req'[w].pc \in {"idle", "resolve", "insert", "delAccess", "prune"}
<1>0. req \in [Workers -> Requests]
  BY DEF IInv, TypeOK
<1>1. req[w].pc \in {"forward", "pruneDel"} /\ UNCHANGED <<images, access>>
  BY DEF Daemon, DaemonProduces, DaemonTags, DaemonRemoves, DaemonPrunes, DaemonFails, Forwarded
<1>2. CASE DaemonProduces(w)
  <2>1. PICK i \in ImageOrNone :
          \/ Finish(w)
          \/ req' = [req EXCEPT
                ![w].pc = IF req[w].op \in {"pull", "build"} THEN "resolve" ELSE "insert",
                ![w].img = i]
    BY <1>2 DEF DaemonProduces
  <2>2. CASE ~Finish(w)
    <3>1. req'[w].pc = IF req[w].op \in {"pull", "build"} THEN "resolve" ELSE "insert"
      BY <1>0, <2>1, <2>2 DEF Requests
    <3> QED  BY <1>1, <3>1
  <2> QED  BY <1>1, <2>2, Finished
<1>3. CASE DaemonTags(w)
  BY <1>1, <1>3, SameRequest, Finished DEF DaemonTags
<1>4. CASE DaemonRemoves(w)
  <2>1. CASE ~Finish(w)
    <3>1. PICK i : req' = [req EXCEPT ![w].pc = "delAccess", ![w].img = i, ![w].ref = NoImage]
      BY <1>4, <2>1 DEF DaemonRemoves
    <3>2. req'[w].pc = "delAccess"
      BY <1>0, <3>1 DEF Requests
    <3> QED  BY <1>1, <3>2
  <2> QED  BY <1>1, <2>1, Finished
<1>5. CASE DaemonPrunes(w) \/ DaemonFails(w)
  BY <1>1, <1>5, SameRequest, Finished DEF DaemonPrunes, DaemonFails
<1> QED  BY <1>2, <1>3, <1>4, <1>5 DEF Daemon

\* a prune's next image
LEMMA Visits ==
    ASSUME IInv, NEW w \in Workers, PruneNext(w)
    PROVE  \E i \in req[w].todo :
              /\ req'[w].img = i /\ req'[w].todo = req[w].todo \ {i}
              /\ req'[w].op = req[w].op /\ req'[w].id = req[w].id
              /\ \/ req[w].op = "sweep" /\ req'[w].pc = "delAccess"
                 \/ req[w].op # "sweep" /\ req'[w].pc = "prune"
                 \/ /\ req[w].op # "sweep" /\ req'[w].pc = "pruneDel"
                    /\ Tracked(i) => images[i].owner = req[w].id.uid
<1>0. req \in [Workers -> Requests]
  BY DEF IInv, TypeOK
<1>1. PICK i \in req[w].todo :
        req' = [req EXCEPT
            ![w].todo = @ \ {i},
            ![w].img = i,
            ![w].pc = IF req[w].op = "sweep" THEN "delAccess"
                      ELSE IF Tracked(i) /\ images[i].owner # req[w].id.uid THEN "prune"
                      ELSE "pruneDel"]
  BY DEF PruneNext
<1>2. PICK pc : pc = IF req[w].op = "sweep" THEN "delAccess"
                     ELSE IF Tracked(i) /\ images[i].owner # req[w].id.uid THEN "prune"
                     ELSE "pruneDel"
  OBVIOUS
<1>3. /\ req'[w].img = i /\ req'[w].todo = req[w].todo \ {i}
      /\ req'[w].op = req[w].op /\ req'[w].id = req[w].id /\ req'[w].pc = pc
  BY <1>0, <1>1, <1>2 DEF Requests
<1> QED  BY <1>2, <1>3

\* what a lookup of the produced image or of the new tag gives
LEMMA Resolves ==
    ASSUME IInv, NEW w \in Workers, ResolveProduced(w)
    PROVE  \/ req'[w].pc = "idle"
           \/ /\ req'[w].pc \in {"ensure", "insert"}
              /\ \/ \E ref : req'[w].img = Lookup(ref)
                 \/ req[w].op # "tag" /\ req'[w].img = req[w].img
              /\ req'[w].img # NoImage
<1>0. req \in [Workers -> Requests]
  BY DEF IInv, TypeOK
<1> DEFINE new == IF req[w].op = "tag" THEN req[w].dst ELSE req[w].ref
           old == IF req[w].op = "tag" THEN Lookup(req[w].ref) ELSE req[w].img
<1>1. PICK found \in PullLookup(new) :
          LET i == IF found # NoImage THEN found ELSE old
          IN  IF i = NoImage
              THEN Finish(w)
              ELSE req' = [req EXCEPT
                        ![w].pc = IF req[w].op = "tag" THEN "ensure" ELSE "insert",
                        ![w].img = i, ![w].ref = NoImage, ![w].dst = NoImage]
  BY DEF ResolveProduced
<1>2. PICK i : i = IF found # NoImage THEN found ELSE old
  OBVIOUS
<1>3. found = Lookup(new) \/ found = NoImage
  BY DEF resolveImageIDByRef, PullLookup
<1>4. \/ \E ref : i = Lookup(ref)
      \/ req[w].op # "tag" /\ i = req[w].img
  BY <1>2, <1>3
<1> HIDE DEF new, old
<1>5. CASE i = NoImage
  BY <1>1, <1>2, <1>5, Finished
<1>6. CASE i # NoImage
  <2>1. req' = [req EXCEPT ![w].pc = IF req[w].op = "tag" THEN "ensure" ELSE "insert",
                           ![w].img = i, ![w].ref = NoImage, ![w].dst = NoImage]
    BY <1>1, <1>2, <1>6
  <2>2. req'[w].img = i /\ req'[w].pc = IF req[w].op = "tag" THEN "ensure" ELSE "insert"
    BY <1>0, <2>1 DEF Requests
  <2> QED  BY <1>4, <1>6, <2>2
<1> QED  BY <1>5, <1>6

LEMMA WriteGoes ==
    ASSUME IInv, NEW w \in Workers, Write(w)
    PROVE  /\ req[w].pc \notin {"idle", "forward", "pruneDel"} /\ UNCHANGED <<store, tags>>
           /\ req'[w].pc \notin {"forward", "unref"}
<1>1. req[w].pc \notin {"idle", "forward", "pruneDel"} /\ UNCHANGED <<store, tags>>
  BY DEF Write, ResolveProduced, RegisterOwner, RegisterAccess, EnsureAccess, Publish,
     DropReference, PruneNext, PruneDone, ForgetAccess, ForgetOwner
<1>2. CASE ResolveProduced(w)
  BY <1>1, <1>2, Resolves
<1>3. CASE PruneNext(w)
  BY <1>1, <1>3, Visits
<1>4. CASE Finish(w) \/ \E pc \in {"grant", "ensure", "publish", "delRow", "prune"} : Goto(w, pc)
  BY <1>1, <1>4, SameRequest, Finished
<1> QED  BY <1>2, <1>3, <1>4 DEF Write, RegisterOwner, RegisterAccess, EnsureAccess, Publish,
            DropReference, PruneDone, ForgetAccess, ForgetOwner, AfterDelete

\* ctl changes neither owners nor references that exist
LEMMA CtlKeeps ==
    ASSUME IInv, Ctl
    PROVE  /\ UNCHANGED <<store, tags, req>>
           /\ \A i \in Images : /\ images'[i].owner = images[i].owner
                                /\ images'[i].source = images[i].source
                                /\ \A u \in Uids : access[i][u] # "none" => access'[i][u] # "none"
<1>0. images \in [Images -> Rows] /\ access \in [Images -> [Uids -> Contexts]]
  BY DEF IInv, TypeOK, TablesTypeOK
<1>1. PICK i \in Images :
        \/ \E public, force \in BOOLEAN : imageSetPublic(i, public, force)
        \/ \E u \in Grantees : imageGrant(i, u)
  BY DEF Ctl
<1>2. ASSUME NEW public, SetImagePublic(i, public)
      PROVE  \A j \in Images : /\ images'[j].owner = images[j].owner
                               /\ images'[j].source = images[j].source
                               /\ access'[j] = access[j]
  BY <1>0, <1>2 DEF SetImagePublic, Rows
<1>3. ASSUME NEW u \in Uids, EnsureImageAccess(i, u)
      PROVE  /\ images' = images
             /\ \A j \in Images, v \in Uids : access[j][v] # "none" => access'[j][v] # "none"
  BY <1>0, <1>3 DEF EnsureImageAccess
<1>4. UNCHANGED <<store, tags, req>>
  BY <1>1 DEF imageSetPublic, imageGrant
<1>5. CASE \E public, force \in BOOLEAN : imageSetPublic(i, public, force)
  BY <1>2, <1>4, <1>5 DEF imageSetPublic
<1>6. CASE \E u \in Uids : imageGrant(i, u)
  BY <1>3, <1>4, <1>6 DEF imageGrant
<1> QED  BY <1>1, <1>5, <1>6


-----------------------------------------------------------------------------
(* Owners and their references. *)

LEMMA StepDropsOthers ==
    ASSUME OneAtATime, IInv, DropsOthers, [Next]_vars
    PROVE  DropsOthers'
<1>1. ASSUME NEW w \in Workers, Arrive(w) PROVE DropsOthers'
  <2>1. req'[w].pc = "unref" => images'[req'[w].img].owner # req'[w].id.uid
    BY <1>1, ArriveKinds DEF RmiIsVirtual
  <2> QED  BY <2>1 DEF DropsOthers, OneAtATime
<1>2. ASSUME NEW w \in Workers, Daemon(w) \/ Write(w) PROVE DropsOthers'
  <2>1. req'[w].pc # "unref"
    BY <1>2, DaemonGoes, WriteGoes
  <2> QED  BY <2>1 DEF DropsOthers, OneAtATime
<1>3. CASE Ctl
  BY <1>3, CtlKeeps, WrittenIsKey DEF DropsOthers
<1>4. CASE Restart
  BY <1>4 DEF Restart, DropsOthers, IdleRequest
<1>5. CASE UNCHANGED vars
  BY <1>5 DEF vars, DropsOthers
<1> QED  BY <1>1, <1>2, <1>3, <1>4, <1>5 DEF Next

LEMMA StepOwnersKept ==
    ASSUME OneAtATime, MaxRestarts = 0, IInv, DropsOthers, OwnersKept, [Next]_vars
    PROVE  OwnersKept'
<1>0. images \in [Images -> Rows] /\ access \in [Images -> [Uids -> Contexts]] /\ ~Restart
      /\ \A i \in Images : images[i].owner \in Uids
  BY DEF IInv, TypeOK, TablesTypeOK, Restart, Rows
<1>1. ASSUME NEW w \in Workers, req[w].pc \notin {"grant", "delRow"}
      PROVE  \A i \in Images : Tracked(i) => HasUserImageAccess(i, images[i].owner)
  BY <1>1 DEF OwnersKept, OneAtATime
<1>2. ASSUME NEW w \in Workers, req[w].pc \notin {"grant", "delRow"}, UNCHANGED <<images, access>>
      PROVE  OwnersKept'
  BY <1>1, <1>2 DEF OwnersKept, Tracked, HasUserImageAccess
<1>3. ASSUME NEW w \in Workers, Arrive(w) \/ Daemon(w) PROVE OwnersKept'
  <2>1. req[w].pc \notin {"grant", "delRow"} /\ UNCHANGED <<images, access>>
    BY <1>3, ArriveKinds, DaemonGoes
  <2> QED  BY <1>2, <2>1
<1>4. ASSUME NEW w \in Workers, Write(w) PROVE OwnersKept'
  <2>0. req[w].id.uid \in Uids
    BY DEF IInv, TypeOK, Requests, Identities
  <2>1. CASE RegisterOwner(w)
    <3>1. req[w].img \in Images /\ req[w].pc = "insert"
      BY <2>1, WrittenIsKey DEF RegisterOwner
    <3>2. PICK row, source : /\ row = UpsertedRow(images[req[w].img], req[w].id, source)
                             /\ images' = [images EXCEPT ![req[w].img] = row]
      BY <1>0, <2>1, <3>1 DEF RegisterOwner, InsertOwner
    <3>3. row.owner = req[w].id.uid \/ row = images[req[w].img]
      BY <1>0, <3>1, <3>2 DEF UpsertedRow, Rows
    <3>4. req'[w].pc = "grant" /\ req'[w].img = req[w].img /\ req'[w].id = req[w].id
      BY <2>1, SameRequest DEF RegisterOwner
    <3>5. access' = access
      BY <2>1 DEF RegisterOwner, InsertOwner
    <3>6. ASSUME NEW i \in Images, images'[i].source # "none",
                 ~(req[w].img = i /\ req[w].id.uid = images'[i].owner)
          PROVE  access'[i][images'[i].owner] # "none"
      <4>1. images'[i] = images[i]
        BY <1>0, <3>1, <3>2, <3>3, <3>6
      <4>2. Tracked(i)
        BY <3>6, <4>1 DEF Tracked
      <4> QED  BY <1>1, <3>1, <3>5, <4>1, <4>2 DEF HasUserImageAccess
    <3> QED  BY <3>4, <3>6 DEF OwnersKept, Tracked, HasUserImageAccess
  <2>2. CASE RegisterAccess(w)
    <3>1. req[w].img \in Images /\ req[w].pc = "grant" /\ images' = images
      BY <2>2, WrittenIsKey DEF RegisterAccess, UpsertAccess
    <3>2. PICK c : /\ c = MinContext(access[req[w].img][req[w].id.uid], req[w].id)
                   /\ access' = [access EXCEPT ![req[w].img][req[w].id.uid] = c]
      BY <1>0, <2>0, <2>2, <3>1 DEF RegisterAccess, UpsertAccess
    <3>3. c # "none"
      BY <3>2 DEF MinContext
    <3>4. ASSUME NEW i \in Images, Tracked(i) PROVE access'[i][images[i].owner] # "none"
      <4>1. \/ access[i][images[i].owner] # "none"
            \/ req[w].img = i /\ req[w].id.uid = images[i].owner
        BY <3>1, <3>4 DEF OwnersKept, OneAtATime, HasUserImageAccess
      <4> QED  BY <1>0, <2>0, <3>1, <3>2, <3>3, <4>1
    <3> QED  BY <3>1, <3>4 DEF OwnersKept, Tracked, HasUserImageAccess
  <2>3. CASE EnsureAccess(w)
    <3>1. req[w].img \in Images /\ req[w].pc = "ensure" /\ images' = images
      BY <2>3, WrittenIsKey DEF EnsureAccess, EnsureImageAccess
    <3>2. \A i \in Images, u \in Uids : access[i][u] # "none" => access'[i][u] # "none"
      BY <1>0, <2>0, <2>3, <3>1 DEF EnsureAccess, EnsureImageAccess
    <3> QED  BY <1>0, <1>1, <3>1, <3>2 DEF OwnersKept, Tracked, HasUserImageAccess
  <2>4. CASE Publish(w)
    <3>1. req[w].img \in Images /\ req[w].pc = "publish" /\ access' = access
      BY <2>4, WrittenIsKey DEF Publish, SetImagePublic
    <3>2. \A i \in Images : images'[i].owner = images[i].owner
                            /\ images'[i].source = images[i].source
      BY <1>0, <2>4, <3>1 DEF Publish, SetImagePublic, Rows
    <3> QED  BY <1>1, <3>1, <3>2 DEF OwnersKept, Tracked, HasUserImageAccess
  <2>5. CASE DropReference(w)
    <3>1. req[w].img \in Images /\ req[w].pc = "unref" /\ images' = images
      BY <2>5, WrittenIsKey DEF DropReference, RemoveUserImageAccess
    <3>2. images[req[w].img].owner # req[w].id.uid
      BY <3>1 DEF DropsOthers
    <3>3. \A i \in Images : access'[i][images[i].owner] = access[i][images[i].owner]
      BY <1>0, <2>0, <2>5, <3>1, <3>2 DEF DropReference, RemoveUserImageAccess
    <3> QED  BY <1>1, <3>1, <3>3 DEF OwnersKept, Tracked, HasUserImageAccess
  <2>6. CASE ForgetAccess(w)
    <3>1. req[w].img \in Images /\ req[w].pc = "delAccess" /\ images' = images
      BY <2>6, WrittenIsKey DEF ForgetAccess, DeleteAccessRows
    <3>2. \A i \in Images : i # req[w].img => access'[i] = access[i]
      BY <1>0, <2>6, <3>1 DEF ForgetAccess, DeleteAccessRows
    <3>3. req'[w].pc = "delRow" /\ req'[w].img = req[w].img
      BY <2>6, SameRequest DEF ForgetAccess
    <3> QED  BY <1>1, <3>1, <3>2, <3>3 DEF OwnersKept, Tracked, HasUserImageAccess
  <2>7. CASE ForgetOwner(w)
    <3>1. req[w].img \in Images /\ req[w].pc = "delRow" /\ access' = access
      BY <2>7, WrittenIsKey DEF ForgetOwner, DeleteOwnerRow
    <3>2. images' = [images EXCEPT ![req[w].img] = NoRow]
      BY <2>7 DEF ForgetOwner, DeleteOwnerRow
    <3>3. ASSUME NEW i \in Images, images'[i].source # "none"
          PROVE  access'[i][images'[i].owner] # "none"
      <4>1. i # req[w].img /\ images'[i] = images[i]
        BY <1>0, <3>1, <3>2, <3>3 DEF NoRow
      <4>2. access[i][images[i].owner] # "none"
        BY <3>1, <3>3, <4>1 DEF OwnersKept, OneAtATime, Tracked, HasUserImageAccess
      <4> QED  BY <3>1, <4>1, <4>2
    <3> QED  BY <3>3 DEF OwnersKept, Tracked, HasUserImageAccess
  <2>8. CASE ResolveProduced(w) \/ PruneNext(w) \/ PruneDone(w)
    BY <1>2, <2>8 DEF ResolveProduced, PruneNext, PruneDone
  <2> QED  BY <1>4, <2>1, <2>2, <2>3, <2>4, <2>5, <2>6, <2>7, <2>8 DEF Write
<1>5. CASE Ctl
  <2>1. /\ req' = req
        /\ \A i \in Images : /\ images'[i].owner = images[i].owner
                             /\ images'[i].source = images[i].source
                             /\ \A u \in Uids : access[i][u] # "none" => access'[i][u] # "none"
    BY <1>5, CtlKeeps
  <2> QED  BY <1>0, <2>1 DEF OwnersKept, Tracked, HasUserImageAccess
<1>6. CASE UNCHANGED vars
  BY <1>6 DEF vars, OwnersKept, Tracked, HasUserImageAccess
<1> QED  BY <1>0, <1>3, <1>4, <1>5, <1>6 DEF Next

\* With one request at a time and no restart in the middle of one, the owner of
\* a tracked image is among its references whenever nothing is in flight, ctl
\* run at any time and lookups that fail included.
THEOREM OwnersAreReferenced ==
    ASSUME OneAtATime, MaxRestarts = 0
    PROVE  Spec => []OwnerHasReference
<1> DEFINE J == IInv /\ DropsOthers /\ OwnersKept
<1>1. Init => J
  <2>1. Init => DropsOthers
    BY DEF Init, DropsOthers, IdleRequest
  <2>2. Init => OwnersKept
    BY DEF Init, TablesInit, OwnersKept, Tracked, NoRow
  <2> QED  BY <2>1, <2>2, InitIInv
<1>2. J /\ [Next]_vars => J'
  BY StepIInv, StepDropsOthers, StepOwnersKept
<1>3. J => OwnerHasReference
  BY DEF OwnersKept, OwnerHasReference, Quiet, Idle
<1> HIDE DEF J
<1> QED  BY <1>1, <1>2, <1>3, PTL DEF Spec


-----------------------------------------------------------------------------
(* Rows of images the daemon does not have. *)

LEMMA LookupPresent ==
    ASSUME TagsPresent, NEW ref, Lookup(ref) # NoImage
    PROVE  Lookup(ref) \in store
BY DEF TagsPresent, Lookup

\* this one holds with any number of requests
LEMMA StepTagsPresent ==
    ASSUME IInv, TagsPresent, [Next]_vars
    PROVE  TagsPresent'
<1>0. store \subseteq Images /\ tags \in [Tags -> IdOrNone]
  BY IdsAreImages DEF IInv, TypeOK
<1>1. ASSUME NEW w \in Workers, Arrive(w) PROVE TagsPresent'
  BY <1>1, ArriveKinds DEF TagsPresent, Dangling, TagsOf
<1>2. ASSUME NEW w \in Workers, DaemonProduces(w) PROVE TagsPresent'
  BY <1>0, <1>2 DEF DaemonProduces, Retag, TagsPresent
<1>3. ASSUME NEW w \in Workers, DaemonTags(w) PROVE TagsPresent'
  <2>1. Lookup(req[w].ref) \in store
    BY <1>3, LookupPresent DEF DaemonTags
  <2> QED  BY <1>0, <1>3, <2>1 DEF DaemonTags, Retag, TagsPresent
<1>4. ASSUME NEW w \in Workers, DaemonRemoves(w) \/ DaemonPrunes(w) PROVE TagsPresent'
  <2>1. PICK i : \/ tags' = Untag(i) /\ store' = store \ {i}
                 \/ \E t : tags' = Retag(t, NoImage) /\ store' = store
    BY <1>4 DEF DaemonRemoves, DaemonPrunes
  <2> QED  BY <1>0, <2>1 DEF Untag, Retag, TagsPresent
<1>5. CASE UNCHANGED <<store, tags>>
  BY <1>5 DEF TagsPresent
<1>6. ASSUME NEW w \in Workers, DaemonFails(w) \/ Write(w) PROVE TagsPresent'
  BY <1>5, <1>6, WriteGoes DEF DaemonFails
<1>7. CASE Ctl \/ Restart \/ UNCHANGED vars
  BY <1>5, <1>7, CtlKeeps DEF Restart, vars
<1> QED  BY <1>1, <1>2, <1>3, <1>4, <1>6, <1>7 DEF Next, Daemon

LEMMA StepGrounded ==
    ASSUME OneAtATime, IInv, PresentInv, [Next]_vars
    PROVE  \A w \in Workers : Grounded(req[w])'
<1>0. req \in [Workers -> Requests] /\ \A w \in Workers : Grounded(req[w])
  BY DEF IInv, TypeOK, PresentInv
<1>1. ASSUME NEW w \in Workers, Grounded(req[w])' PROVE \A v \in Workers : Grounded(req[v])'
  BY <1>1 DEF OneAtATime
<1>2. ASSUME NEW w \in Workers,
             req'[w].pc \notin {"insert", "grant", "ensure", "publish", "resolve"}
      PROVE  \A v \in Workers : Grounded(req[v])'
  <2>1. Grounded(req[w])'
    BY <1>2 DEF Grounded
  <2> QED  BY <1>1, <2>1
<1>3. ASSUME NEW w \in Workers, Arrive(w) PROVE \A v \in Workers : Grounded(req[v])'
  <2>1. CASE req'[w].pc \in {"ensure", "insert"}
    <3>1. PICK ref \in Refs : req'[w].img = Lookup(ref)
      BY <1>3, <2>1, ArriveKinds
    <3>2. store' = store /\ req'[w].img # NoImage
      BY <1>3, <2>1, ArriveKinds
    <3>3. req'[w].img \in store'
      BY <3>1, <3>2, LookupPresent DEF PresentInv
    <3>4. Grounded(req[w])'
      BY <2>1, <3>3 DEF Grounded, Present
    <3> QED  BY <1>1, <3>4
  <2>2. CASE req'[w].pc \notin {"ensure", "insert"}
    BY <1>2, <1>3, <2>2, ArriveKinds
  <2> QED  BY <2>1, <2>2
<1>4. ASSUME NEW w \in Workers, Daemon(w) PROVE \A v \in Workers : Grounded(req[v])'
  <2>1. CASE DaemonProduces(w)
    <3>1. PICK i \in Ids, reported \in ImageOrNone :
            /\ reported = i \/ (reported \in Images /\ ConfigOf[reported] = i) \/ reported = NoImage
            /\ store' = store \cup {i}
            /\ \/ Finish(w)
               \/ req' = [req EXCEPT
                    ![w].pc = IF req[w].op \in {"pull", "build"} THEN "resolve" ELSE "insert",
                    ![w].img = reported]
      BY <2>1 DEF DaemonProduces
    <3>0. reported \in Ids => reported \in store'
      BY <3>1 DEF Ids
    <3>2. CASE Finish(w)
      BY <1>2, <3>2, Finished
    <3>3. CASE ~Finish(w)
      <4>1. /\ req'[w].pc = IF req[w].op \in {"pull", "build"} THEN "resolve" ELSE "insert"
            /\ req'[w].img = reported /\ req'[w].op = req[w].op
        BY <1>0, <3>1, <3>3 DEF Requests
      <4>2. Grounded(req[w])'
        BY <3>0, <4>1 DEF Grounded, Present
      <4> QED  BY <1>1, <4>2
    <3> QED  BY <3>2, <3>3
  <2>2. CASE DaemonTags(w)
    <3>1. req'[w].pc = "idle" \/ (req'[w].pc = "resolve" /\ req'[w].op = "tag")
      BY <2>2, Finished, SameRequest DEF DaemonTags, Forwarded
    <3>2. Grounded(req[w])'
      BY <3>1 DEF Grounded
    <3> QED  BY <1>1, <3>2
  <2>3. CASE DaemonRemoves(w) /\ ~Finish(w)
    <3>1. PICK i : req' = [req EXCEPT ![w].pc = "delAccess", ![w].img = i, ![w].ref = NoImage]
      BY <2>3 DEF DaemonRemoves
    <3>2. req'[w].pc = "delAccess"
      BY <1>0, <3>1 DEF Requests
    <3> QED  BY <1>2, <3>2
  <2>4. CASE DaemonPrunes(w) \/ DaemonFails(w) \/ Finish(w)
    <3>1. req'[w].pc \in {"idle", "delAccess", "prune"}
      BY <2>4, Finished, SameRequest DEF DaemonPrunes, DaemonFails
    <3> QED  BY <1>2, <3>1
  <2> QED  BY <1>4, <2>1, <2>2, <2>3, <2>4 DEF Daemon
<1>5. ASSUME NEW w \in Workers, Write(w) PROVE \A v \in Workers : Grounded(req[v])'
  <2>0. store' = store
    BY <1>5, WriteGoes
  <2>1. CASE ResolveProduced(w)
    <3>1. req[w].op # "tag" => Present(req[w].img)
      BY <1>0, <2>1 DEF ResolveProduced, Grounded
    <3>2. TagsPresent
      BY DEF PresentInv
    <3>3. req'[w].pc = "idle" \/ (req'[w].pc \in {"ensure", "insert"} /\ Present(req'[w].img))
      BY <2>1, <3>1, <3>2, LookupPresent, Resolves DEF Present
    <3>4. Grounded(req[w])'
      BY <2>0, <3>3 DEF Grounded, Present
    <3> QED  BY <1>1, <3>4
  <2>2. CASE (RegisterOwner(w) \/ RegisterAccess(w) \/ EnsureAccess(w)) /\ ~Finish(w)
    <3>1. Present(req[w].img)
      BY <1>0, <2>2 DEF RegisterOwner, RegisterAccess, EnsureAccess, Grounded
    <3>2. req'[w].img = req[w].img /\ req'[w].pc \in {"grant", "ensure", "publish"}
      BY <2>2, SameRequest DEF RegisterOwner, RegisterAccess, EnsureAccess
    <3>3. Grounded(req[w])'
      BY <2>0, <3>1, <3>2 DEF Grounded, Present
    <3> QED  BY <1>1, <3>3
  <2>3. CASE PruneNext(w)
    <3>1. req'[w].pc \in {"delAccess", "prune", "pruneDel"}
      BY <2>3, Visits
    <3> QED  BY <1>2, <3>1
  <2>4. CASE Finish(w) \/ Goto(w, "delRow") \/ Goto(w, "prune")
    <3>1. req'[w].pc \in {"idle", "delRow", "prune"}
      BY <2>4, Finished, SameRequest
    <3> QED  BY <1>2, <3>1
  <2> QED  BY <1>5, <2>1, <2>2, <2>3, <2>4 DEF Write, Publish, DropReference,
              PruneDone, ForgetAccess, ForgetOwner, AfterDelete
<1>6. CASE Ctl \/ UNCHANGED vars
  <2>1. UNCHANGED <<req, store>>
    BY <1>6, CtlKeeps DEF vars
  <2> QED  BY <1>0, <2>1 DEF Grounded, Present
<1>7. CASE Restart
  BY <1>7 DEF Restart, Grounded, IdleRequest
<1> QED  BY <1>3, <1>4, <1>5, <1>6, <1>7 DEF Next


LEMMA StepGoneBlank ==
    ASSUME OneAtATime, MaxRestarts = 0, "ctl" \notin Ops, IInv, PresentInv, [Next]_vars
    PROVE  GoneBlank'
<1>0. /\ req \in [Workers -> Requests] /\ images \in [Images -> Rows]
      /\ access \in [Images -> [Uids -> Contexts]]
      /\ ~Restart /\ ~Ctl
  BY DEF IInv, TypeOK, TablesTypeOK, Restart, Ctl, imageSetPublic, imageGrant
<1>1. ASSUME NEW w \in Workers, NEW i \in Ids \ store PROVE Blank(i) \/ Forgetting(req[w], i)
  BY <1>1 DEF PresentInv, GoneBlank, OneAtATime
<1>2. ASSUME NEW w \in Workers, req[w].pc \notin {"prune", "delAccess", "delRow"}
      PROVE  \A i \in Ids \ store : Blank(i)
  BY <1>1, <1>2 DEF Forgetting
<1>3. ASSUME NEW w \in Workers, Arrive(w) PROVE GoneBlank'
  <2>1. req[w].pc = "idle" /\ UNCHANGED <<images, access>>
    BY <1>3, ArriveKinds
  <2>2. \A i \in Ids \ store : Blank(i)'
    BY <1>2, <2>1 DEF Blank, Tracked
  <2>3. CASE store' = store
    BY <2>2, <2>3 DEF GoneBlank
  <2>4. CASE store' # store
    <3>1. /\ req'[w].pc = "prune" /\ req'[w].op = "sweep"
          /\ req'[w].todo = Dangling /\ store' = store \ Dangling
      BY <1>3, <2>4, ArriveKinds
    <3>2. ASSUME NEW i \in Ids, i \notin store' PROVE Blank(i)' \/ Forgetting(req[w], i)'
      BY <2>2, <3>1, <3>2 DEF Forgetting
    <3> QED  BY <3>2 DEF GoneBlank
  <2> QED  BY <2>3, <2>4
<1>4. ASSUME NEW w \in Workers, Daemon(w) PROVE GoneBlank'
  <2>1. req[w].pc \in {"forward", "pruneDel"} /\ UNCHANGED <<images, access>>
    BY <1>4, DaemonGoes
  <2>2. \A i \in Ids \ store : Blank(i)'
    BY <1>2, <2>1 DEF Blank, Tracked
  <2>3. CASE store \subseteq store'
    BY <2>2, <2>3 DEF GoneBlank
  <2>4. ASSUME NEW i, store' = store \ {i}, req'[w].pc = "delAccess", req'[w].img = i
        PROVE  GoneBlank'
    <3>1. ASSUME NEW j \in Ids, j \notin store' PROVE Blank(j)' \/ Forgetting(req[w], j)'
      BY <2>2, <2>4, <3>1 DEF Forgetting
    <3> QED  BY <3>1 DEF GoneBlank
  <2>5. CASE DaemonRemoves(w)
    <3>1. \/ store' = store
          \/ /\ store' = store \ {Lookup(req[w].ref)}
             /\ req' = [req EXCEPT ![w].pc = "delAccess", ![w].img = Lookup(req[w].ref),
                                   ![w].ref = NoImage]
      BY <2>5 DEF DaemonRemoves
    <3>2. CASE store' = store
      BY <2>3, <3>2
    <3>3. CASE store' # store
      <4>1. req'[w].pc = "delAccess" /\ req'[w].img = Lookup(req[w].ref)
        BY <1>0, <3>1, <3>3 DEF Requests
      <4> QED  BY <2>4, <3>1, <3>3, <4>1
    <3> QED  BY <3>2, <3>3
  <2>6. CASE DaemonPrunes(w)
    BY <2>4, <2>6, SameRequest DEF DaemonPrunes
  <2>7. CASE DaemonProduces(w) \/ DaemonTags(w) \/ DaemonFails(w)
    BY <2>3, <2>7 DEF DaemonProduces, DaemonTags, DaemonFails
  <2> QED  BY <1>4, <2>5, <2>6, <2>7 DEF Daemon
<1>5. ASSUME NEW w \in Workers, Write(w) PROVE GoneBlank'
  <2>0. store' = store /\ Grounded(req[w])
    BY <1>5, WriteGoes DEF PresentInv
  <2>1. ASSUME NEW j \in Images, req[w].pc \notin {"prune", "delAccess", "delRow"},
               \A i \in Images : i # j => images'[i] = images[i] /\ access'[i] = access[i],
               Present(j)
        PROVE  GoneBlank'
    <3>1. \A i \in Ids \ store : Blank(i)'
      BY <1>2, <2>1, IdsAreImages DEF Blank, Tracked, Present
    <3> QED  BY <2>0, <3>1 DEF GoneBlank
  <2>2. CASE RegisterOwner(w) \/ RegisterAccess(w) \/ EnsureAccess(w) \/ Publish(w)
    <3>1. req[w].img \in Images /\ req[w].pc \in {"insert", "grant", "ensure", "publish"}
      BY <2>2, WrittenIsKey DEF RegisterOwner, RegisterAccess, EnsureAccess, Publish
    <3>2. Present(req[w].img)
      BY <2>0, <3>1 DEF Grounded
    <3>3. \A i \in Images : i # req[w].img => images'[i] = images[i] /\ access'[i] = access[i]
      BY <1>0, <2>2, <3>1 DEF RegisterOwner, InsertOwner, RegisterAccess, UpsertAccess,
         EnsureAccess, EnsureImageAccess, Publish, SetImagePublic
    <3> QED  BY <2>1, <3>1, <3>2, <3>3
  <2>3. CASE DropReference(w)
    <3>1. req[w].img \in Images /\ req[w].pc = "unref" /\ images' = images
      BY <2>3, WrittenIsKey DEF DropReference, RemoveUserImageAccess
    <3>2. \A i \in Images, u \in Uids : access[i][u] = "none" => access'[i][u] = "none"
      BY <1>0, <2>3 DEF DropReference, RemoveUserImageAccess
    <3>3. \A i \in Ids \ store : Blank(i)'
      BY <1>2, <3>1, <3>2, IdsAreImages DEF Blank, Tracked
    <3> QED  BY <2>0, <3>3 DEF GoneBlank
  <2>4. CASE ResolveProduced(w)
    <3>1. req[w].pc = "resolve" /\ UNCHANGED <<images, access>>
      BY <2>4 DEF ResolveProduced
    <3>2. \A i \in Ids \ store : Blank(i)'
      BY <1>2, <3>1 DEF Blank, Tracked
    <3> QED  BY <2>0, <3>2 DEF GoneBlank
  <2>5. CASE PruneNext(w) \/ PruneDone(w)
    <3>1. req[w].pc = "prune" /\ UNCHANGED <<images, access>>
      BY <2>5 DEF PruneNext, PruneDone
    <3>2. ASSUME NEW i \in Ids \ store PROVE Blank(i)' \/ Forgetting(req[w], i)'
      <4>1. CASE Blank(i)
        BY <3>1, <4>1 DEF Blank, Tracked
      <4>2. CASE ~Blank(i)
        <5>1. req[w].op = "sweep" /\ i \in req[w].todo
          BY <1>1, <3>1, <4>2 DEF Forgetting
        <5>2. PruneNext(w)
          BY <2>5, <5>1 DEF PruneDone
        <5>3. /\ req'[w].pc = "delAccess" /\ req'[w].op = "sweep"
              /\ req'[w].img = i \/ i \in req'[w].todo
          BY <5>1, <5>2, Visits
        <5> QED  BY <5>3 DEF Forgetting
      <4> QED  BY <4>1, <4>2
    <3> QED  BY <2>0, <3>2 DEF GoneBlank
  <2>6. CASE ForgetAccess(w)
    <3>1. req[w].img \in Images /\ req[w].pc = "delAccess" /\ images' = images
      BY <2>6, WrittenIsKey DEF ForgetAccess, DeleteAccessRows
    <3>2. /\ \A i \in Images : i # req[w].img => access'[i] = access[i]
          /\ \A u \in Uids : access'[req[w].img][u] = "none"
      BY <1>0, <2>6, <3>1 DEF ForgetAccess, DeleteAccessRows
    <3>3. /\ req'[w].pc = "delRow" /\ req'[w].img = req[w].img /\ req'[w].op = req[w].op
          /\ req'[w].todo = req[w].todo
      BY <2>6, SameRequest DEF ForgetAccess
    <3>4. ASSUME NEW i \in Ids \ store PROVE Blank(i)' \/ Forgetting(req[w], i)'
      <4>1. CASE i = req[w].img
        BY <3>2, <3>3, <4>1 DEF Forgetting
      <4>2. CASE i # req[w].img
        <5>1. Blank(i) \/ (req[w].op = "sweep" /\ i \in req[w].todo)
          BY <1>1, <3>1, <4>2 DEF Forgetting
        <5> QED  BY <3>1, <3>2, <3>3, <4>2, <5>1, IdsAreImages DEF Blank, Tracked, Forgetting
      <4> QED  BY <4>1, <4>2
    <3> QED  BY <2>0, <3>4 DEF GoneBlank
  <2>7. CASE ForgetOwner(w)
    <3>1. req[w].img \in Images /\ req[w].pc = "delRow" /\ access' = access
      BY <2>7, WrittenIsKey DEF ForgetOwner, DeleteOwnerRow
    <3>2. /\ \A i \in Images : i # req[w].img => images'[i] = images[i]
          /\ images'[req[w].img].source = "none"
      BY <1>0, <2>7, <3>1 DEF ForgetOwner, DeleteOwnerRow, NoRow
    <3>3. req[w].op = "sweep" => /\ req'[w].pc = "prune" /\ req'[w].op = "sweep"
                                 /\ req'[w].todo = req[w].todo
      BY <2>7, SameRequest DEF ForgetOwner, AfterDelete
    <3>4. ASSUME NEW i \in Ids \ store PROVE Blank(i)' \/ Forgetting(req[w], i)'
      <4>1. \/ Blank(i)
            \/ i = req[w].img /\ \A u \in Uids : access[i][u] = "none"
            \/ req[w].op = "sweep" /\ i \in req[w].todo
        BY <1>1, <3>1 DEF Forgetting
      <4>2. CASE req[w].op = "sweep" /\ i \in req[w].todo
        BY <3>3, <4>2 DEF Forgetting
      <4>3. CASE ~(req[w].op = "sweep" /\ i \in req[w].todo)
        BY <3>1, <3>2, <4>1, <4>3, IdsAreImages DEF Blank, Tracked
      <4> QED  BY <4>2, <4>3
    <3> QED  BY <2>0, <3>4 DEF GoneBlank
  <2> QED  BY <1>5, <2>2, <2>3, <2>4, <2>5, <2>6, <2>7 DEF Write
<1>6. CASE UNCHANGED vars
  BY <1>6 DEF vars, PresentInv, GoneBlank, Blank, Tracked, Forgetting
<1> QED  BY <1>0, <1>3, <1>4, <1>5, <1>6 DEF Next

\* With one request at a time, no restart in the middle of one and no ctl at
\* work meanwhile, the tables have no row under the id of an image that the
\* daemon does not have, whenever nothing is in flight: each way to delete an
\* image also removes its rows.  Lookups that fail do not matter to ids; the
\* rows they leave under a manifest digest are not spoken of, and stay.
THEOREM RowsFollowImages ==
    ASSUME OneAtATime, MaxRestarts = 0, "ctl" \notin Ops
    PROVE  Spec => []NoStaleRows
<1> DEFINE J == IInv /\ PresentInv
<1>1. Init => J
  <2> SUFFICES ASSUME Init PROVE PresentInv
    BY InitIInv
  <2>1. TagsPresent
    BY DEF Init, TagsPresent
  <2>2. GoneBlank
    BY IdsAreImages DEF Init, TablesInit, GoneBlank, Blank, Tracked, NoRow
  <2>3. \A w \in Workers : Grounded(req[w])
    BY DEF Init, Grounded, IdleRequest
  <2> QED  BY <2>1, <2>2, <2>3 DEF PresentInv
<1>2. J /\ [Next]_vars => J'
  <2> SUFFICES ASSUME IInv, PresentInv, [Next]_vars PROVE IInv' /\ PresentInv'
    OBVIOUS
  <2>1. TagsPresent'
    BY StepTagsPresent DEF PresentInv
  <2>2. GoneBlank' /\ \A w \in Workers : Grounded(req[w])'
    BY StepGoneBlank, StepGrounded
  <2> QED  BY <2>1, <2>2, StepIInv DEF PresentInv
<1>3. J => NoStaleRows
  BY DEF PresentInv, GoneBlank, Blank, Forgetting, NoStaleRows, Quiet, Idle
<1> HIDE DEF J
<1> QED  BY <1>1, <1>2, <1>3, PTL DEF Spec


-----------------------------------------------------------------------------
(* Who may make the daemon delete an image. *)

LEMMA PruneDelOrigin ==
    ASSUME IInv, NEW w \in Workers, Write(w), req'[w].pc = "pruneDel"
    PROVE  PruneNext(w)
<1>1. ~ResolveProduced(w)
  BY Resolves
<1>2. ~(Finish(w) \/ \E pc \in {"grant", "ensure", "publish", "delRow", "prune"} : Goto(w, pc))
  BY SameRequest, Finished
<1> QED  BY <1>1, <1>2 DEF Write, RegisterOwner, RegisterAccess, EnsureAccess, Publish,
            DropReference, PruneDone, ForgetAccess, ForgetOwner, AfterDelete

\* an rmi that arrives was checked against the image it will delete
LEMMA RmiArrives ==
    ASSUME IInv, ~LookupMayFail, NEW w \in Workers, Arrive(w), Forwarded(w, "rmi")'
    PROVE  /\ UNCHANGED <<images, access, store, tags>>
           /\ \E id, ref, flag : /\ req'[w].id = id /\ req'[w].ref = ref /\ req'[w].flag = flag
                                 /\ RmiIsForwarded(id, Lookup(ref), flag)
<1>1. req'[w].pc = "forward" /\ req'[w].op = "rmi"
  BY DEF Forwarded
<1>2. /\ UNCHANGED <<images, access, store, tags>>
      /\ \E i \in resolveImageIDByRef(req'[w].ref) :
             RmiIsForwarded(req'[w].id, i, req'[w].flag)
  BY <1>1, ArriveKinds
<1>3. RmiIsForwarded(req'[w].id, Lookup(req'[w].ref), req'[w].flag)
  BY <1>2 DEF resolveImageIDByRef
<1> QED  BY <1>2, <1>3

LEMMA StepEntitled ==
    ASSUME OneAtATime, ~LookupMayFail, IInv, DeletesEntitled, [Next]_vars
    PROVE  DeletesEntitled'
<1>1. ASSUME NEW w \in Workers, req'[w].pc \notin {"forward", "pruneDel"} PROVE DeletesEntitled'
  BY <1>1 DEF DeletesEntitled, Forwarded, OneAtATime
<1>2. ASSUME NEW w \in Workers, Arrive(w) PROVE DeletesEntitled'
  <2>1. req'[w].pc # "pruneDel"
    BY <1>2, ArriveKinds
  <2>2. CASE Forwarded(w, "rmi")'
    <3>1. PICK id, ref, flag : /\ req'[w].id = id /\ req'[w].ref = ref
                               /\ RmiIsForwarded(id, Lookup(ref), flag)
      BY <1>2, <2>2, RmiArrives
    <3>2. UNCHANGED <<images, access, store, tags>>
      BY <1>2, <2>2, RmiArrives
    <3>3. Lookup(ref)' = Lookup(ref)
      BY <3>2 DEF Lookup
    <3>4. PICK i : i = Lookup(ref)
      OBVIOUS
    <3>5. Known(i)' => IsPrivileged(id) \/ images'[i].owner = id.uid
      BY <3>1, <3>2, <3>4 DEF RmiIsForwarded, Known, Tracked
    <3>6. Lookup(req[w].ref)' = i
      BY <3>1, <3>3, <3>4 DEF Lookup
    <3>7. Known(Lookup(req[w].ref))' => Entitled(req[w], Lookup(req[w].ref))'
      BY <3>1, <3>5, <3>6 DEF Known, Tracked, Entitled
    <3> QED  BY <2>1, <3>7 DEF DeletesEntitled, OneAtATime
  <2>3. CASE ~Forwarded(w, "rmi")'
    BY <2>1, <2>3 DEF DeletesEntitled, OneAtATime
  <2> QED  BY <2>2, <2>3
<1>3. ASSUME NEW w \in Workers, Daemon(w) PROVE DeletesEntitled'
  BY <1>1, <1>3, DaemonGoes
<1>4. ASSUME NEW w \in Workers, Write(w) PROVE DeletesEntitled'
  <2>1. CASE req'[w].pc # "pruneDel"
    BY <1>1, <1>4, <2>1, WriteGoes
  <2>2. CASE req'[w].pc = "pruneDel"
    <3>1. PruneNext(w)
      BY <1>4, <2>2, PruneDelOrigin
    <3>2. images' = images
      BY <3>1 DEF PruneNext
    <3>3. PICK i : /\ req'[w].img = i /\ req'[w].id = req[w].id
                   /\ Tracked(i) => images[i].owner = req[w].id.uid
      BY <2>2, <3>1, Visits
    <3>4. Tracked(req[w].img)' => Entitled(req[w], req[w].img)'
      BY <3>2, <3>3 DEF Tracked, Entitled
    <3> QED  BY <2>2, <3>4 DEF DeletesEntitled, OneAtATime, Forwarded
  <2> QED  BY <2>1, <2>2
<1>5. CASE Ctl
  <2>1. /\ UNCHANGED <<store, tags, req>>
        /\ \A i \in Images : images'[i].owner = images[i].owner
                             /\ images'[i].source = images[i].source
    BY <1>5, CtlKeeps
  <2>2. ASSUME NEW w \in Workers
        PROVE  /\ Forwarded(w, "rmi")' /\ Known(Lookup(req[w].ref))' =>
                      Entitled(req[w], Lookup(req[w].ref))'
               /\ req'[w].pc = "pruneDel" /\ Tracked(req[w].img)' => Entitled(req[w], req[w].img)'
    <3>1. Lookup(req[w].ref)' = Lookup(req[w].ref)
      BY <2>1 DEF Lookup
    <3>2. PICK j : j = Lookup(req[w].ref)
      OBVIOUS
    <3>3. j \in Images \cup {NoImage}
      BY <3>2, LookupIsId, IdsAreImages DEF IdOrNone
    <3>4. Known(j)' => Known(j) /\ images'[j].owner = images[j].owner
      BY <2>1, <3>3 DEF Known, Tracked
    <3>5. Forwarded(w, "rmi")' /\ Known(Lookup(req[w].ref))' =>
                      Entitled(req[w], Lookup(req[w].ref))'
      BY <2>1, <3>1, <3>2, <3>4 DEF DeletesEntitled, Forwarded, Known, Tracked, Entitled
    <3>6. req[w].pc = "pruneDel" => req[w].img \in Images
      BY WrittenIsKey
    <3>7. req'[w].pc = "pruneDel" /\ Tracked(req[w].img)' => Entitled(req[w], req[w].img)'
      BY <2>1, <3>6 DEF DeletesEntitled, Tracked, Entitled
    <3> QED  BY <3>5, <3>7
  <2> QED  BY <2>2 DEF DeletesEntitled
<1>6. CASE Restart
  BY <1>6 DEF Restart, DeletesEntitled, Forwarded, IdleRequest
<1>7. CASE UNCHANGED vars
  BY <1>7 DEF vars, DeletesEntitled, Forwarded, Known, Tracked, Lookup, Entitled
<1> QED  BY <1>2, <1>3, <1>4, <1>5, <1>6, <1>7 DEF Next

\* The three ways an image is deleted.
LEMMA DeletedBy ==
    ASSUME OneAtATime, IInv, [Next]_vars, NEW w \in Workers, NEW i \in Images, Deletes(w, i)
    PROVE  \/ IsPrivileged(req'[w].id) /\ req'[w].op = "sweep"
           \/ /\ Forwarded(w, "rmi") /\ Lookup(req[w].ref) = i /\ req'[w].id = req[w].id
              /\ req'[w].flag = req[w].flag
           \/ req[w].pc = "pruneDel" /\ req[w].img = i /\ req'[w].id = req[w].id
              /\ req'[w].op = req[w].op
<1>0. req \in [Workers -> Requests] /\ i \in store /\ i \notin store'
  BY DEF IInv, TypeOK, Deletes
<1>1. CASE Arrive(w)
  BY <1>0, <1>1, ArriveKinds
<1>2. CASE DaemonRemoves(w)
  <2>1. /\ Forwarded(w, "rmi") /\ Lookup(req[w].ref) = i
        /\ req' = [req EXCEPT ![w].pc = "delAccess", ![w].img = i, ![w].ref = NoImage]
    BY <1>0, <1>2 DEF DaemonRemoves
  <2>2. req'[w].id = req[w].id /\ req'[w].flag = req[w].flag
    BY <1>0, <2>1 DEF Requests
  <2> QED  BY <2>1, <2>2
<1>3. CASE DaemonPrunes(w)
  BY <1>0, <1>3, SameRequest DEF DaemonPrunes
<1>4. ~(DaemonProduces(w) \/ DaemonTags(w) \/ DaemonFails(w) \/ Write(w))
  BY <1>0, WriteGoes DEF DaemonProduces, DaemonTags, DaemonFails
<1>5. ~(Ctl \/ Restart \/ UNCHANGED vars)
  BY <1>0, CtlKeeps DEF Restart, vars
<1>6. \A v \in Workers : v = w
  BY DEF OneAtATime
<1> QED  BY <1>1, <1>2, <1>3, <1>4, <1>5, <1>6 DEF Next, Daemon

\* With one request at a time and lookups that do not fail, a regular user's
\* request never makes the daemon delete an image that the tables give to
\* somebody else, whatever ctl does and wherever the proxy restarts.
THEOREM OwnersAloneDelete ==
    ASSUME OneAtATime, ~LookupMayFail
    PROVE  Spec => OnlyOwnerDeletes
<1> DEFINE J == IInv /\ DeletesEntitled
<1>1. Init => J
  <2>1. Init => DeletesEntitled
    BY DEF Init, DeletesEntitled, Forwarded, IdleRequest
  <2> QED  BY <2>1, InitIInv
<1>2. J /\ [Next]_vars => J'
  BY StepIInv, StepEntitled
<1>3. J /\ [Next]_vars =>
          [\A w \in Workers, i \in Images :
              Deletes(w, i) /\ Tracked(i) =>
                  IsPrivileged(req'[w].id) \/ images[i].owner = req'[w].id.uid]_vars
  <2> SUFFICES ASSUME IInv, DeletesEntitled, [Next]_vars, NEW w \in Workers, NEW i \in Images,
                      Deletes(w, i), Tracked(i)
               PROVE  IsPrivileged(req'[w].id) \/ images[i].owner = req'[w].id.uid
    OBVIOUS
  <2>1. i # NoImage
    OBVIOUS
  <2> QED  BY <2>1, DeletedBy DEF DeletesEntitled, Entitled, Known
<1> HIDE DEF J
<1> QED  BY <1>1, <1>2, <1>3, PTL DEF Spec, OnlyOwnerDeletes


LEMMA StepPublicTracked ==
    ASSUME IInv, \A i \in Images : images[i].public => Tracked(i), [Next]_vars
    PROVE  \A i \in Images : images'[i].public => Tracked(i)'
<1>0. images \in [Images -> Rows]
  BY DEF IInv, TypeOK, TablesTypeOK
<1>1. CASE UNCHANGED images
  BY <1>1 DEF Tracked
<1>2. ASSUME NEW j \in Images, NEW isPublic \in BOOLEAN, SetImagePublic(j, isPublic)
      PROVE  \A i \in Images : images'[i].public => Tracked(i)'
  BY <1>0, <1>2 DEF SetImagePublic, Tracked, Rows
<1>3. ASSUME NEW w \in Workers, Arrive(w) \/ Daemon(w) PROVE UNCHANGED images
  BY <1>3, ArriveKinds, DaemonGoes
<1>4. ASSUME NEW w \in Workers, RegisterOwner(w)
      PROVE  \A i \in Images : images'[i].public => Tracked(i)'
  <2>1. req[w].img \in Images /\ req[w].op \in Sources \cup {"bridge"}
    BY <1>4, WrittenIsKey, KnowsOwn DEF RegisterOwner, KnowsImage
  <2> DEFINE source == IF req[w].op = "bridge" THEN "pull" ELSE req[w].op
  <2>2. PICK row : /\ row = UpsertedRow(images[req[w].img], req[w].id, source)
                   /\ images' = [images EXCEPT ![req[w].img] = row]
    BY <1>0, <1>4, <2>1 DEF RegisterOwner, InsertOwner
  <2>3. row.source # "none"
    <3>1. source # "none"
      BY <2>1 DEF Sources
    <3> HIDE DEF source
    <3> QED  BY <1>0, <2>1, <2>2, <3>1 DEF UpsertedRow, Rows
  <2> QED  BY <1>0, <2>1, <2>2, <2>3 DEF Tracked
<1>5. ASSUME NEW w \in Workers, ForgetOwner(w)
      PROVE  \A i \in Images : images'[i].public => Tracked(i)'
  BY <1>0, <1>5 DEF ForgetOwner, DeleteOwnerRow, NoRow, Tracked
<1>6. ASSUME NEW w \in Workers, Write(w)
      PROVE  \A i \in Images : images'[i].public => Tracked(i)'
  <2>1. CASE Publish(w)
    BY <1>2, <2>1, WrittenIsKey DEF Publish
  <2> QED  BY <1>1, <1>4, <1>5, <1>6, <2>1 DEF Write, ResolveProduced, RegisterAccess,
              UpsertAccess, EnsureAccess, EnsureImageAccess, DropReference,
              RemoveUserImageAccess, PruneNext, PruneDone, ForgetAccess, DeleteAccessRows
<1>7. CASE Ctl
  BY <1>1, <1>2, <1>7 DEF Ctl, imageSetPublic, imageGrant, EnsureImageAccess
<1>8. CASE Restart \/ UNCHANGED vars
  BY <1>1, <1>8 DEF Restart, vars
<1> QED  BY <1>1, <1>3, <1>6, <1>7, <1>8 DEF Next

LEMMA StepPruneOps ==
    ASSUME OneAtATime, IInv, PruneOps, [Next]_vars
    PROVE  PruneOps'
<1>1. ASSUME NEW w \in Workers, req'[w].pc \notin {"prune", "pruneDel"} PROVE PruneOps'
  BY <1>1 DEF PruneOps, OneAtATime
<1>2. ASSUME NEW w \in Workers, req'[w].op \in {"prune", "sweep"} PROVE PruneOps'
  BY <1>2 DEF PruneOps, OneAtATime
<1>3. ASSUME NEW w \in Workers, Arrive(w) PROVE PruneOps'
  BY <1>1, <1>2, <1>3, ArriveKinds
<1>4. ASSUME NEW w \in Workers, Daemon(w) PROVE PruneOps'
  <2>1. CASE DaemonFails(w) \/ DaemonPrunes(w)
    <3>1. \/ req'[w].pc = "idle"
          \/ req[w].pc = "pruneDel" /\ req'[w].op = req[w].op
      BY <2>1, SameRequest, Finished DEF DaemonFails, DaemonPrunes
    <3> QED  BY <1>1, <1>2, <3>1 DEF PruneOps
  <2>2. CASE DaemonProduces(w) \/ DaemonTags(w) \/ DaemonRemoves(w)
    <3>1. req[w].pc = "forward" /\ req \in [Workers -> Requests]
      BY <2>2 DEF DaemonProduces, DaemonTags, DaemonRemoves, Forwarded, IInv, TypeOK
    <3>2. req'[w].pc \notin {"prune", "pruneDel"}
      <4>1. CASE Finish(w)
        BY <4>1, Finished
      <4>2. CASE DaemonTags(w) /\ ~Finish(w)
        BY <4>2, SameRequest DEF DaemonTags
      <4>3. CASE (DaemonProduces(w) \/ DaemonRemoves(w)) /\ ~Finish(w)
        <5>1. PICK pc \in {"resolve", "insert", "delAccess"} :
                  \E i : \/ req' = [req EXCEPT ![w].pc = pc, ![w].img = i]
                         \/ req' = [req EXCEPT ![w].pc = pc, ![w].img = i, ![w].ref = NoImage]
          BY <4>3 DEF DaemonProduces, DaemonRemoves
        <5>2. req'[w].pc = pc
          BY <3>1, <5>1 DEF Requests
        <5> QED  BY <5>2
      <4> QED  BY <2>2, <4>1, <4>2, <4>3
    <3> QED  BY <1>1, <3>2
  <2> QED  BY <1>4, <2>1, <2>2 DEF Daemon
<1>5. ASSUME NEW w \in Workers, Write(w) PROVE PruneOps'
  <2>1. CASE PruneNext(w)
    <3>1. req[w].pc = "prune" /\ req'[w].op = req[w].op
      BY <2>1, Visits DEF PruneNext
    <3> QED  BY <1>2, <3>1 DEF PruneOps
  <2>2. CASE ForgetOwner(w)
    BY <1>1, <1>2, <2>2, SameRequest, Finished DEF ForgetOwner, AfterDelete
  <2>3. CASE ResolveProduced(w)
    BY <1>1, <2>3, Resolves
  <2>4. CASE Finish(w) \/ \E pc \in {"grant", "ensure", "publish", "delRow"} : Goto(w, pc)
    BY <1>1, <2>4, SameRequest, Finished
  <2> QED  BY <1>5, <2>1, <2>2, <2>3, <2>4 DEF Write, RegisterOwner, RegisterAccess,
              EnsureAccess, Publish, DropReference, PruneDone, ForgetAccess
<1>6. CASE Ctl \/ UNCHANGED vars
  <2>1. req' = req
    BY <1>6, CtlKeeps DEF vars
  <2> QED  BY <2>1 DEF PruneOps
<1>7. CASE Restart
  BY <1>7 DEF Restart, PruneOps, IdleRequest
<1> QED  BY <1>3, <1>4, <1>5, <1>6, <1>7 DEF Next

LEMMA StepRmiChecked ==
    ASSUME OneAtATime, ~LookupMayFail, "ctl" \notin Ops, IInv, RmiChecked, [Next]_vars
    PROVE  RmiChecked'
<1>1. \A i \in Images : images'[i].public => Tracked(i)'
  BY StepPublicTracked DEF RmiChecked
<1>2. ASSUME NEW w \in Workers, ~Forwarded(w, "rmi")' PROVE RmiChecked'
  BY <1>1, <1>2 DEF RmiChecked, OneAtATime
<1>3. ASSUME NEW w \in Workers, Arrive(w) PROVE RmiChecked'
  <2>1. CASE Forwarded(w, "rmi")'
    <3>1. PICK id, ref, flag : /\ req'[w].id = id /\ req'[w].ref = ref /\ req'[w].flag = flag
                               /\ RmiIsForwarded(id, Lookup(ref), flag)
      BY <1>3, <2>1, RmiArrives
    <3>2. UNCHANGED <<images, access, store, tags>>
      BY <1>3, <2>1, RmiArrives
    <3>3. Lookup(ref)' = Lookup(ref)
      BY <3>2 DEF Lookup
    <3>4. PICK i : i = Lookup(ref)
      OBVIOUS
    <3>5. RmiIsForwarded(id, i, flag)'
      BY <3>1, <3>2, <3>4 DEF RmiIsForwarded, Known, Tracked, ReferencedByOthers
    <3>6. Lookup(req[w].ref)' = i
      BY <3>1, <3>3, <3>4 DEF Lookup
    <3>7. RmiIsForwarded(req[w].id, Lookup(req[w].ref), req[w].flag)'
      BY <3>1, <3>5, <3>6 DEF RmiIsForwarded, Known, Tracked, ReferencedByOthers
    <3> QED  BY <1>1, <3>7 DEF RmiChecked, OneAtATime
  <2> QED  BY <1>2, <2>1
<1>4. ASSUME NEW w \in Workers, Daemon(w) \/ Write(w) PROVE RmiChecked'
  <2>1. req'[w].pc # "forward"
    BY <1>4, DaemonGoes, WriteGoes
  <2> QED  BY <1>2, <2>1 DEF Forwarded
<1>5. ~Ctl
  BY DEF Ctl, imageSetPublic, imageGrant
<1>6. CASE Restart
  BY <1>1, <1>6 DEF Restart, RmiChecked, Forwarded, IdleRequest
<1>7. CASE UNCHANGED vars
  BY <1>7 DEF vars, RmiChecked, Forwarded, RmiIsForwarded, Known, Tracked, Lookup,
     ReferencedByOthers
<1> QED  BY <1>3, <1>4, <1>5, <1>6, <1>7 DEF Next

\* With one request at a time, lookups that do not fail and no ctl at work, rmi
\* deletes a public image that other users reference only for a privileged
\* caller who forces it.
THEOREM ReferencesAreRespected ==
    ASSUME OneAtATime, ~LookupMayFail, "ctl" \notin Ops
    PROVE  Spec => RmiRespectsReferences
<1> DEFINE J == IInv /\ PruneOps /\ RmiChecked
           P(w, i) == Deletes(w, i) /\ req'[w].op = "rmi" /\ images[i].public
                      /\ OthersReference(w, i)
<1>1. Init => J
  <2>1. Init => RmiChecked
    BY DEF Init, TablesInit, RmiChecked, Forwarded, IdleRequest, NoRow
  <2>2. Init => PruneOps
    BY DEF Init, PruneOps, IdleRequest
  <2> QED  BY <2>1, <2>2, InitIInv
<1>2. J /\ [Next]_vars => J'
  BY StepIInv, StepPruneOps, StepRmiChecked
<1>3. J /\ [Next]_vars =>
          [\A w \in Workers, i \in Images :
              P(w, i) => IsPrivileged(req'[w].id) /\ req'[w].flag]_vars
  <2> SUFFICES ASSUME IInv, PruneOps, RmiChecked, [Next]_vars, NEW w \in Workers,
                      NEW i \in Images, P(w, i)
               PROVE  IsPrivileged(req'[w].id) /\ req'[w].flag
    OBVIOUS
  <2>1. CASE /\ Forwarded(w, "rmi") /\ Lookup(req[w].ref) = i /\ req'[w].id = req[w].id
             /\ req'[w].flag = req[w].flag
    <3>1. RmiIsForwarded(req[w].id, i, req[w].flag) /\ Tracked(i)
      BY <2>1 DEF RmiChecked
    <3>2. ReferencedByOthers(i, req[w].id.uid)
      BY <2>1 DEF OthersReference, ReferencedByOthers
    <3> QED  BY <2>1, <3>1, <3>2 DEF RmiIsForwarded, Known
  <2>2. ~(req[w].pc = "pruneDel" /\ req'[w].op = req[w].op)
    BY DEF PruneOps
  <2> QED  BY <2>1, <2>2, DeletedBy
<1> HIDE DEF J
<1> QED  BY <1>1, <1>2, <1>3, PTL DEF Spec, RmiRespectsReferences
=============================================================================
