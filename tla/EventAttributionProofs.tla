------------------------ MODULE EventAttributionProofs ------------------------
(***************************************************************************)
(* Proofs about EventAttribution: its types, that every entry of the       *)
(* in-memory maps has someone left who removes it (EntriesExpire), and     *)
(* that a covered event of an operation that no other one gets in the way  *)
(* of is shown to the user it belongs to and to nobody else (EventsHidden, *)
(* OwnEventsShown).                                                        *)
(*                                                                         *)
(* Two inductive invariants.  IInv has the types and EntriesHeld.  The     *)
(* second one builds on it: ShapeInv says what an operation, its timers    *)
(* and its events look like, SafeInv that the names of an operation that   *)
(* is not contended are its own, that its entries carry its caller, that   *)
(* while its event is out an entry or a row tells whose it is, and that    *)
(* the lookups left will come upon it.                                     *)
(***************************************************************************)
EXTENDS EventAttribution, SequenceTheorems, TLAPS

-----------------------------------------------------------------------------
(* What an operation is, from the request it began with. *)

AllKinds == MakingKinds \cup {"rmi", "create", "remove"}
Things == Images \cup Nets \cup Vols
Repos == {r.repo : r \in Refs}

Steps == {"headers", "daemon", "owner", "access", "completeId", "complete", "clear",
          "dropAccess", "dropRow", "register", "forget", "track"}

\* the steps that the handler of an operation of this kind may have before it
StepsOf(kind) ==
    CASE kind = "pull"     -> {"daemon", "owner", "access", "complete", "clear"}
      [] kind = "build"    -> {"headers", "daemon", "owner", "access", "complete", "clear"}
      [] kind = "commit"   -> {"daemon", "owner", "access", "completeId", "complete", "clear"}
      [] kind = "load"     -> {"daemon", "owner", "access", "completeId", "complete"}
      [] kind = "buildkit" -> {"daemon", "track", "complete", "clear"}
      [] kind = "rmi"      -> {"daemon", "complete", "dropAccess", "dropRow", "clear"}
      [] kind = "create"   -> {"daemon", "register", "clear"}
      [] kind = "remove"   -> {"daemon", "complete", "forget"}
      [] OTHER             -> {}

Op == [kind : AllKinds, id : Callers, ref : Refs \cup {NoRef}, key : Keys \cup {NoRef},
       thing : Things, todo : Seq(Steps), temporary : SUBSET Entries,
       pre : [ids : SUBSET Images, tags : [Refs -> Images \cup {NoImage}]],
       untagged : SUBSET Refs, touches : SUBSET (Things \cup Repos), contended : BOOLEAN]

\* what a handler may learn of an image, and what it then does
Gots == {"id", "digest", "none"}
Answering(n, got) == DaemonSucceeds(n, got) \/ (got = "none" /\ DaemonFails(n))

\* the kinds whose handler clears what it registered
ClearingKinds == {"pull", "build", "commit", "rmi", "create"}

\* what BuildHeaders registers
Headed(o) ==
    IF o.ref = NoRef THEN {} ELSE {Entry("pendingBuildTags", o.key, pruneOwnerInfo(o.id))}

Closing(s) == s # <<>> => s[Len(s)] = "clear"
Waiting(s) == \E i \in 1..Len(s) : s[i] = "daemon"

\* An operation and the request it came from: a key is missing only where there
\* is no reference, an image is the thing of an image's operation.
Asked(o) ==
    /\ o.kind \in Kinds
    /\ o.ref # NoRef \/ o.kind = "pull" => o.key \in Keys
    /\ o.kind \in MakingKinds \cup {"rmi"} => o.thing \in Images
    /\ o.kind \in {"create", "remove"} => o.thing \in Nets \cup Vols
    /\ o.kind = "remove" => o.key \in {o.thing, NoRef}

\* What is left to do fits the kind, and for the kinds that clear what they
\* registered it ends in that step.
Planned(o) ==
    /\ o.todo \in Seq(StepsOf(o.kind))
    /\ o.kind \in ClearingKinds => Waiting(o.todo) \/ Closing(o.todo)

\* one value per key
SingleValued(S) == \A x, y \in S : x.map = y.map /\ x.key = y.key => x = y

\* What an operation has registered and not handed over to a timer.
Registered(o) ==
    /\ SingleValued(o.temporary)
    /\ o.kind \in {"load", "remove"} => o.temporary = {}
    /\ o.kind \in {"build", "buildkit"} => o.temporary \subseteq Headed(o)

OpSound(o) == o \in Op /\ Asked(o) /\ Planned(o) /\ Registered(o)

OpsSound == ops \in Seq(Op) /\ \A n \in DOMAIN ops : OpSound(ops[n])
TimersTyped == \A t \in timers : t.op \in DOMAIN ops /\ t.entry \in Entries
MapsTyped == maps \subseteq Entries /\ SingleValued(maps)
DaemonTyped ==
    /\ present \subseteq Images /\ tagOf \in [Refs -> Images \cup {NoImage}]
    /\ up \subseteq Nets \cup Vols
    /\ rows \subseteq [key : Nets \cup Vols, uid : Uids, sudo : BOOLEAN]
    /\ \A v, w \in rows : v.key = w.key => v = w

\* EntriesExpire, with the one entry that a BuildKit build may leave
EntriesHeld ==
    \A x \in maps :
        \/ \E t \in timers : t.entry = x
        \/ \E n \in DOMAIN ops : ops[n].todo # <<>> /\ x \in ops[n].temporary
        \/ \E n \in DOMAIN ops : ops[n].kind = "buildkit" /\ x \in Headed(ops[n])

IInv ==
    /\ TablesTypeOK
    /\ OpsSound
    /\ TimersTyped
    /\ MapsTyped
    /\ DaemonTyped
    /\ EntriesHeld

-----------------------------------------------------------------------------
(* Sequences of steps. *)

LEMMA TailFacts ==
    ASSUME NEW S, NEW s \in Seq(S), s # <<>>
    PROVE  /\ Tail(s) \in Seq(S)
           /\ Head(s) \in S
           /\ Len(Tail(s)) = Len(s) - 1
           /\ \A i \in 1..Len(s) - 1 : Tail(s)[i] = s[i + 1]
           /\ Head(s) = s[1]
  OBVIOUS

\* A step that is not the daemon's keeps the shape of what is left, and it is
\* not the last one unless it clears.
LEMMA TailPlanned ==
    ASSUME NEW s \in Seq(Steps), s # <<>>, Head(s) # "daemon", Waiting(s) \/ Closing(s)
    PROVE  /\ Waiting(Tail(s)) \/ Closing(Tail(s))
           /\ Head(s) # "clear" => Tail(s) # <<>>
<1>1. Len(s) \in Nat /\ Len(s) >= 1 /\ s[1] # "daemon" /\ s[1] = Head(s)
  OBVIOUS
<1>2. PICK t \in Seq(Steps) : t = Tail(s)
  BY TailFacts
<1>3. Len(t) = Len(s) - 1 /\ \A i \in 1..Len(s) - 1 : t[i] = s[i + 1]
  BY <1>2, TailFacts
<1>4. t = <<>> <=> Len(s) = 1
  BY <1>1, <1>3, EmptySeq
<1> SUFFICES /\ Waiting(t) \/ Closing(t)
             /\ Head(s) # "clear" => t # <<>>
  BY <1>2
<1>5. CASE Waiting(s)
  <2>1. PICK i \in 1..Len(s) : s[i] = "daemon"
    BY <1>5 DEF Waiting
  <2>2. i # 1 /\ i - 1 \in 1..Len(t) /\ t[i - 1] = "daemon" /\ Len(s) # 1
    BY <1>1, <1>3, <2>1
  <2>3. Waiting(t)
    BY <2>2 DEF Waiting
  <2> QED  BY <1>4, <2>2, <2>3
<1>6. CASE Closing(s)
  <2>1. s[Len(s)] = "clear"
    BY <1>6 DEF Closing
  <2>2. CASE Len(s) = 1
    BY <1>1, <1>4, <2>1, <2>2 DEF Closing
  <2>3. CASE Len(s) > 1
    <3>1. t[Len(t)] = "clear" /\ t # <<>>
      BY <1>1, <1>3, <1>4, <2>1, <2>3
    <3> QED  BY <3>1 DEF Closing
  <2> QED  BY <1>1, <2>2, <2>3
<1> QED  BY <1>5, <1>6

LEMMA LearntGots ==
    ASSUME NEW kind
    PROVE  Learnt(kind) \subseteq Gots
  BY DEF Learnt, Gots

LEMMA DaemonAnswers ==
    ASSUME NEW n, DaemonActs(n) \/ DaemonFails(n)
    PROVE  \E got \in Gots : Answering(n, got)
  BY LearntGots DEF DaemonActs, Answering, Gots

LEMMA ProgramFacts ==
    ASSUME NEW kind \in AllKinds, NEW got \in Gots
    PROVE  /\ Program(kind, got) \in Seq(StepsOf(kind))
           /\ kind \in ClearingKinds => Program(kind, got) # <<>> /\ Closing(Program(kind, got))
<1>1. CASE kind = "pull"
  <2>1. Program(kind, got) \in {<<"owner", "access", "complete", "clear">>,
                                <<"complete", "clear">>, <<"clear">>}
    BY <1>1 DEF Program
  <2>2. /\ <<"owner", "access", "complete", "clear">> \in Seq(StepsOf(kind))
        /\ <<"owner", "access", "complete", "clear">> # <<>> /\ Closing(<<"owner", "access", "complete", "clear">>)
    BY <1>1 DEF StepsOf, Closing
  <2>3. /\ <<"clear">> \in Seq(StepsOf(kind))
        /\ <<"clear">> # <<>> /\ Closing(<<"clear">>)
    BY <1>1 DEF StepsOf, Closing
  <2>4. /\ <<"complete", "clear">> \in Seq(StepsOf(kind))
        /\ <<"complete", "clear">> # <<>> /\ Closing(<<"complete", "clear">>)
    BY <1>1 DEF StepsOf, Closing
  <2> QED  BY <2>1, <2>2, <2>3, <2>4
<1>2. CASE kind = "build"
  <2>1. Program(kind, got) \in {<<"owner", "access", "complete", "clear">>, <<"complete", "clear">>}
    BY <1>2 DEF Program
  <2>2. /\ <<"owner", "access", "complete", "clear">> \in Seq(StepsOf(kind))
        /\ <<"owner", "access", "complete", "clear">> # <<>> /\ Closing(<<"owner", "access", "complete", "clear">>)
    BY <1>2 DEF StepsOf, Closing
  <2>3. /\ <<"complete", "clear">> \in Seq(StepsOf(kind))
        /\ <<"complete", "clear">> # <<>> /\ Closing(<<"complete", "clear">>)
    BY <1>2 DEF StepsOf, Closing
  <2> QED  BY <2>1, <2>2, <2>3
<1>3. CASE kind = "commit"
  <2>1. Program(kind, got) \in {<<"owner", "access", "completeId", "complete", "clear">>, <<"complete", "clear">>}
    BY <1>3 DEF Program
  <2>2. /\ <<"owner", "access", "completeId", "complete", "clear">> \in Seq(StepsOf(kind))
        /\ <<"owner", "access", "completeId", "complete", "clear">> # <<>> /\ Closing(<<"owner", "access", "completeId", "complete", "clear">>)
    BY <1>3 DEF StepsOf, Closing
  <2>3. /\ <<"complete", "clear">> \in Seq(StepsOf(kind))
        /\ <<"complete", "clear">> # <<>> /\ Closing(<<"complete", "clear">>)
    BY <1>3 DEF StepsOf, Closing
  <2> QED  BY <2>1, <2>2, <2>3
<1>4. CASE kind = "load"
  <2>1. Program(kind, got) \in {<<"complete", "owner", "access", "completeId">>, <<>>}
    BY <1>4 DEF Program
  <2>2. <<"complete", "owner", "access", "completeId">> \in Seq(StepsOf(kind)) /\ kind \notin ClearingKinds
    BY <1>4 DEF StepsOf, ClearingKinds
  <2>3. <<>> \in Seq(StepsOf(kind)) /\ kind \notin ClearingKinds
    BY <1>4 DEF StepsOf, ClearingKinds
  <2> QED  BY <2>1, <2>2, <2>3
<1>5. CASE kind = "rmi"
  <2>1. Program(kind, got) \in {<<"complete", "dropAccess", "dropRow", "clear">>, <<"clear">>}
    BY <1>5 DEF Program
  <2>2. /\ <<"complete", "dropAccess", "dropRow", "clear">> \in Seq(StepsOf(kind))
        /\ <<"complete", "dropAccess", "dropRow", "clear">> # <<>> /\ Closing(<<"complete", "dropAccess", "dropRow", "clear">>)
    BY <1>5 DEF StepsOf, Closing
  <2>3. /\ <<"clear">> \in Seq(StepsOf(kind))
        /\ <<"clear">> # <<>> /\ Closing(<<"clear">>)
    BY <1>5 DEF StepsOf, Closing
  <2> QED  BY <2>1, <2>2, <2>3
<1>6. CASE kind = "create"
  <2>1. Program(kind, got) \in {<<"register", "clear">>, <<"clear">>}
    BY <1>6 DEF Program
  <2>2. /\ <<"register", "clear">> \in Seq(StepsOf(kind))
        /\ <<"register", "clear">> # <<>> /\ Closing(<<"register", "clear">>)
    BY <1>6 DEF StepsOf, Closing
  <2>3. /\ <<"clear">> \in Seq(StepsOf(kind))
        /\ <<"clear">> # <<>> /\ Closing(<<"clear">>)
    BY <1>6 DEF StepsOf, Closing
  <2> QED  BY <2>1, <2>2, <2>3
<1>7. CASE kind = "remove"
  <2>1. Program(kind, got) \in {<<"complete", "forget">>, <<>>}
    BY <1>7 DEF Program
  <2>2. <<"complete", "forget">> \in Seq(StepsOf(kind)) /\ kind \notin ClearingKinds
    BY <1>7 DEF StepsOf, ClearingKinds
  <2>3. <<>> \in Seq(StepsOf(kind)) /\ kind \notin ClearingKinds
    BY <1>7 DEF StepsOf, ClearingKinds
  <2> QED  BY <2>1, <2>2, <2>3
<1>8. CASE kind = "buildkit"
  <2>1. Program(kind, got) \in {<<"track">>}
    BY <1>8 DEF Program
  <2>2. <<"track">> \in Seq(StepsOf(kind)) /\ kind \notin ClearingKinds
    BY <1>8 DEF StepsOf, ClearingKinds
  <2> QED  BY <2>1, <2>2
<1> QED  BY <1>1, <1>2, <1>3, <1>4, <1>5, <1>6, <1>7, <1>8 DEF AllKinds, MakingKinds

\* After the daemon's answer the plan ends in the handler's program.
LEMMA AnsweredPlanned ==
    ASSUME NEW kind \in AllKinds, NEW got \in Gots, NEW s \in Seq(StepsOf(kind))
    PROVE  /\ s \o Program(kind, got) \in Seq(StepsOf(kind))
           /\ kind \in ClearingKinds => /\ s \o Program(kind, got) # <<>>
                                         /\ Closing(s \o Program(kind, got))
<1> DEFINE p == Program(kind, got)
<1>1. p \in Seq(StepsOf(kind)) /\ (kind \in ClearingKinds => p # <<>> /\ Closing(p))
  BY ProgramFacts
<1> HIDE DEF p
<1>2. s \o p \in Seq(StepsOf(kind))
  BY <1>1
<1>3. ASSUME kind \in ClearingKinds PROVE s \o p # <<>> /\ Closing(s \o p)
  <2>1. Len(p) \in Nat /\ Len(p) >= 1 /\ p[Len(p)] = "clear"
    BY <1>1, <1>3 DEF Closing
  <2>2. Len(s \o p) = Len(s) + Len(p) /\ (s \o p)[Len(s) + Len(p)] = p[Len(p)]
    BY <1>1, <2>1
  <2> QED  BY <2>1, <2>2 DEF Closing
<1> QED  BY <1>2, <1>3 DEF p

LEMMA StepsOfKind ==
    ASSUME NEW kind \in AllKinds, NEW s \in Seq(StepsOf(kind))
    PROVE  s \in Seq(Steps)
<1>1. StepsOf(kind) \subseteq Steps
  BY DEF StepsOf, Steps, AllKinds, MakingKinds
<1> QED  BY <1>1, SeqMonotonic

-----------------------------------------------------------------------------
(* Requests and entries. *)

LEMMA RequestFacts ==
    ASSUME NEW q \in Requests
    PROVE  /\ q.kind \in AllKinds /\ q.id \in Callers
           /\ q.ref \in Refs \cup {NoRef} /\ q.key \in Keys \cup {NoRef}
           /\ q.thing \in Things
           /\ q.ref # NoRef \/ q.kind = "pull" => q.key \in Keys
           /\ q.kind \in MakingKinds \cup {"rmi"} => q.thing \in Images
           /\ q.kind \in {"create", "remove"} => q.thing \in Nets \cup Vols
           /\ q.kind = "remove" => q.key \in {q.thing, NoRef}
<1>1. \A r \in Refs : Spellings(r) \subseteq Keys /\ parseImageRefFromURI(r) \in Keys
                      /\ r \in Keys
  BY DEF Spellings, parseImageRefFromURI, Keys, RefKeys
<1>2. CASE \E id \in Callers, r \in Refs, i \in Images :
               q = [kind |-> "pull", id |-> id, ref |-> r,
                    key |-> parseImageRefFromURI(r), thing |-> i]
  BY <1>1, <1>2 DEF AllKinds, MakingKinds, Things
<1>3. CASE \E kind \in {"build", "buildkit"}, id \in Callers, r \in Refs, i \in Images :
               \E k \in Spellings(r) :
               q = [kind |-> kind, id |-> id, ref |-> r, key |-> k, thing |-> i]
  BY <1>1, <1>3 DEF AllKinds, MakingKinds, Things
<1>4. CASE \E kind \in {"commit", "load"}, id \in Callers, r \in Refs, i \in Images :
               q = [kind |-> kind, id |-> id, ref |-> r, key |-> r, thing |-> i]
  BY <1>1, <1>4 DEF AllKinds, MakingKinds, Things
<1>5. CASE \E kind \in {"build", "buildkit", "commit", "rmi"}, id \in Callers, i \in Images :
               q = [kind |-> kind, id |-> id, ref |-> NoRef, key |-> NoRef, thing |-> i]
  BY <1>5 DEF AllKinds, MakingKinds, Things
<1>6. CASE \E kind \in {"create", "remove"}, id \in Callers, n \in Nets \cup Vols :
               \E k \in {n, NoRef} :
               q = [kind |-> kind, id |-> id, ref |-> NoRef, key |-> k, thing |-> n]
  BY <1>6 DEF AllKinds, MakingKinds, Things, Keys
<1> DEFINE Q(kind, id, ref, key, thing) ==
               [kind |-> kind, id |-> id, ref |-> ref, key |-> key, thing |-> thing]
           P == {c \in Callers : IsPrivileged(c)}
<1>7. \/ q \in {Q("pull", id, r, parseImageRefFromURI(r), i) :
                    id \in Callers, r \in Refs, i \in Images}
      \/ q \in UNION {{Q(kind, id, r, k, i) : kind \in {"build", "buildkit"}, id \in Callers,
                       k \in Spellings(r), i \in Images} : r \in Refs}
      \/ q \in {Q(kind, id, r, r, i) : kind \in {"commit", "load"}, id \in Callers,
                r \in Refs, i \in Images}
      \/ q \in {Q(kind, id, NoRef, NoRef, i) : kind \in {"build", "buildkit", "commit"},
                id \in Callers, i \in Images}
      \/ q \in {Q("rmi", id, NoRef, NoRef, i) : id \in Callers, i \in Images}
      \/ q \in {Q("create", id, NoRef, NoRef, n) : id \in P, n \in Nets \cup Vols}
      \/ q \in {Q("remove", id, NoRef, n, n) : id \in P, n \in Nets \cup Vols}
      \/ q \in {Q("remove", id, NoRef, NoRef, n) : id \in P, n \in Nets}
  BY DEF Requests
<1> QED  BY <1>2, <1>3, <1>4, <1>5, <1>6, <1>7

LEMMA EntryTyped ==
    ASSUME NEW m \in MapNames, NEW k \in Keys, NEW id \in Callers
    PROVE  Entry(m, k, pruneOwnerInfo(id)) \in Entries
<1>1. id.uid \in Uids /\ IsSudoCommand(id) \in BOOLEAN
  BY CallersAssumption DEF Identities, IsSudoCommand
<1> QED  BY <1>1 DEF Entry, Entries, pruneOwnerInfo

LEMMA StoreTyped ==
    ASSUME NEW S, NEW E, S \subseteq Entries, SingleValued(S),
           E \subseteq Entries, SingleValued(E)
    PROVE  Store(S, E) \subseteq Entries /\ SingleValued(Store(S, E))
  BY DEF Store, SingleValued, Entries

LEMMA PreregisteredTyped ==
    ASSUME NEW q \in Requests
    PROVE  /\ Preregistered(q) \subseteq Entries
           /\ SingleValued(Preregistered(q))
           /\ q.kind \in {"load", "remove", "build"} => Preregistered(q) = {}
           /\ q.kind = "buildkit" => Preregistered(q) \subseteq Headed(q)
<1> DEFINE en(m, k) == Entry(m, k, pruneOwnerInfo(q.id))
<1>0. q.id \in Callers /\ (q.ref # NoRef \/ q.kind = "pull" => q.key \in Keys)
      /\ (q.kind \in {"rmi", "create"} => q.thing \in Keys)
  BY RequestFacts DEF Keys
<1>1. \/ Preregistered(q) = {}
      \/ q.kind = "pull" /\ Preregistered(q) = {en("pendingPullRefs", q.key)}
      \/ /\ q.kind \in {"commit", "buildkit"} /\ q.ref # NoRef
         /\ Preregistered(q) = {en("pendingBuildTags", q.key)}
      \/ q.kind \in {"create", "rmi"} /\ Preregistered(q) = {en("completedPruneOwner", q.thing)}
  BY DEF Preregistered
<1>2. \A k \in Keys : /\ en("pendingPullRefs", k) \in Entries
                      /\ en("pendingBuildTags", k) \in Entries
                      /\ en("completedPruneOwner", k) \in Entries
  BY <1>0, EntryTyped DEF MapNames, Entry
<1> HIDE DEF en
<1>3. Preregistered(q) \subseteq Entries
  BY <1>0, <1>1, <1>2
<1>4. SingleValued(Preregistered(q))
  BY <1>1 DEF SingleValued
<1>5. q.kind \in {"load", "remove", "build"} => Preregistered(q) = {}
  BY <1>1
<1>6. q.kind = "buildkit" => Preregistered(q) \subseteq Headed(q)
  BY <1>1 DEF Headed, en
<1> QED  BY <1>3, <1>4, <1>5, <1>6

LEMMA TouchesTyped ==
    ASSUME NEW q \in Requests
    PROVE  Touches(q) \subseteq Things \cup Repos
  BY RequestFacts DEF Touches, Things, Repos, TagsOf

-----------------------------------------------------------------------------
(* Steps of an operation that exists. *)

\* Operation n goes on with s before it and E registered.
Goes(n, s, E) ==
    /\ ops' \in Seq(Op) /\ Len(ops') = Len(ops)
    /\ \A k \in DOMAIN ops \ {n} : ops'[k] = ops[k]
    /\ ops'[n].todo = s /\ ops'[n].temporary = E
    /\ ops'[n].kind = ops[n].kind /\ ops'[n].id = ops[n].id /\ ops'[n].ref = ops[n].ref
    /\ ops'[n].key = ops[n].key /\ ops'[n].thing = ops[n].thing
    /\ ops'[n].pre = ops[n].pre /\ ops'[n].touches = ops[n].touches
    /\ ops'[n].contended = ops[n].contended

LEMMA GoesOn ==
    ASSUME OpsSound, NEW n \in DOMAIN ops, NEW s \in Seq(Steps), NEW E \in SUBSET Entries,
           NEW T \in SUBSET Refs,
           ops' = [ops EXCEPT ![n] = [@ EXCEPT !.todo = s, !.temporary = E, !.untagged = T]]
    PROVE  Goes(n, s, E)
<1>1. ops \in Seq(Op) /\ ops[n] \in Op /\ n \in 1..Len(ops) /\ Len(ops) \in Nat
  BY DEF OpsSound
<1>2. PICK o \in Op : o = [ops[n] EXCEPT !.todo = s, !.temporary = E, !.untagged = T]
  BY <1>1 DEF Op
<1>3. /\ o.todo = s /\ o.temporary = E /\ o.kind = ops[n].kind /\ o.id = ops[n].id
      /\ o.ref = ops[n].ref /\ o.key = ops[n].key /\ o.thing = ops[n].thing
      /\ o.pre = ops[n].pre /\ o.touches = ops[n].touches /\ o.contended = ops[n].contended
  BY <1>1, <1>2 DEF Op
<1>4. ops' = [ops EXCEPT ![n] = o]
  BY <1>2
<1>5. ops' \in Seq(Op) /\ Len(ops') = Len(ops) /\ ops'[n] = o
      /\ \A k \in DOMAIN ops \ {n} : ops'[k] = ops[k]
  BY <1>1, <1>4
<1> QED  BY <1>3, <1>5 DEF Goes

LEMMA OpsSoundKept ==
    ASSUME OpsSound, NEW n \in DOMAIN ops, NEW s, NEW E, Goes(n, s, E),
           s \in Seq(StepsOf(ops[n].kind)),
           ops[n].kind \in ClearingKinds => Waiting(s) \/ Closing(s),
           SingleValued(E),
           ops[n].kind \in {"load", "remove"} => E = {},
           ops[n].kind \in {"build", "buildkit"} => E \subseteq Headed(ops[n])
    PROVE  OpsSound'
<1>1. ops' \in Seq(Op) /\ DOMAIN ops' = DOMAIN ops
  BY DEF Goes, OpsSound
<1>2. ASSUME NEW k \in DOMAIN ops, k # n PROVE OpSound(ops'[k])
  BY <1>2 DEF Goes, OpsSound
<1>3. ops'[n] \in Op /\ OpSound(ops[n])
  BY <1>1 DEF OpsSound
<1>4. Asked(ops'[n])
  BY <1>3 DEF Goes, OpSound, Asked
<1>5. Planned(ops'[n])
  BY <1>3 DEF Goes, Planned
<1>6. Headed(ops'[n]) = Headed(ops[n])
  BY DEF Goes, Headed
<1>7. Registered(ops'[n])
  BY <1>3, <1>6 DEF Goes, Registered
<1>8. \A k \in DOMAIN ops : OpSound(ops'[k])
  BY <1>2, <1>3, <1>4, <1>5, <1>7 DEF OpSound
<1> QED  BY <1>1, <1>8 DEF OpsSound

\* An entry stays covered when operation n goes on: what is new has a timer, and
\* n still means to remove what it registered, or has removed it.
LEMMA ExpireKept ==
    ASSUME EntriesHeld, NEW n \in DOMAIN ops, NEW s, NEW E, Goes(n, s, E), OpsSound,
           \A x \in maps' : x \in maps \/ \E t \in timers' : t.entry = x,
           timers \subseteq timers',
           \A x \in maps' \cap ops[n].temporary :
               \/ s # <<>> /\ x \in E
               \/ \E t \in timers' : t.entry = x
               \/ ops[n].kind = "buildkit" /\ x \in Headed(ops[n])
    PROVE  EntriesHeld'
<1>0. DOMAIN ops' = DOMAIN ops /\ \A k \in DOMAIN ops \ {n} : ops'[k] = ops[k]
  BY DEF Goes, OpsSound
<1>1. DOMAIN ops' = DOMAIN ops /\ \A k \in DOMAIN ops : /\ ops'[k].kind = ops[k].kind
                                                       /\ Headed(ops'[k]) = Headed(ops[k])
  <2>1. ops'[n].kind = ops[n].kind /\ Headed(ops'[n]) = Headed(ops[n])
    BY DEF Goes, Headed
  <2> QED  BY <1>0, <2>1
<1> SUFFICES ASSUME NEW x \in maps',
                    ~ \E t \in timers' : t.entry = x,
                    ~ \E k \in DOMAIN ops : ops[k].kind = "buildkit" /\ x \in Headed(ops[k])
             PROVE  \E k \in DOMAIN ops' : ops'[k].todo # <<>> /\ x \in ops'[k].temporary
  BY <1>1 DEF EntriesHeld
<1>2. PICK k \in DOMAIN ops : ops[k].todo # <<>> /\ x \in ops[k].temporary
  BY DEF EntriesHeld
<1>3. CASE k = n
  <2>1. s # <<>> /\ x \in E
    BY <1>2, <1>3
  <2> QED  BY <1>1, <1>3, <2>1 DEF Goes
<1>4. CASE k # n
  BY <1>1, <1>2, <1>4 DEF Goes
<1> QED  BY <1>3, <1>4

\* A step of a handler, the daemon's and the tracking of a BuildKit build apart.
LEMMA Advanced ==
    ASSUME OpsSound, NEW n \in DOMAIN ops, NEW h, AtStep(n, h),
           h \notin {"daemon", "track", "headers"}, Advance(n)
    PROVE  /\ Goes(n, Tail(ops[n].todo), ops[n].temporary)
           /\ OpsSound'
           /\ h \in StepsOf(ops[n].kind)
           /\ h # "clear" /\ ops[n].kind \in ClearingKinds => Tail(ops[n].todo) # <<>>
<1>1. ops[n] \in Op /\ Asked(ops[n]) /\ Planned(ops[n]) /\ Registered(ops[n])
      /\ ops[n].kind \in AllKinds
  BY DEF OpsSound, OpSound, Op
<1>2. PICK s \in Seq(StepsOf(ops[n].kind)) : s = ops[n].todo
  BY <1>1 DEF Planned
<1>3. s # <<>> /\ Head(s) = h
  BY <1>2 DEF AtStep
<1>4. PICK t \in Seq(StepsOf(ops[n].kind)) : t = Tail(s)
  BY <1>3, TailFacts
<1>5. h \in StepsOf(ops[n].kind) /\ s \in Seq(Steps) /\ t \in Seq(Steps)
  BY <1>1, <1>3, TailFacts, StepsOfKind
<1>6. /\ ops[n].kind \in ClearingKinds => Waiting(t) \/ Closing(t)
      /\ h # "clear" /\ ops[n].kind \in ClearingKinds => t # <<>>
  BY <1>1, <1>2, <1>3, <1>4, <1>5, TailPlanned DEF Planned
<1>7. ops[n].temporary \in SUBSET Entries /\ ops[n].untagged \in SUBSET Refs
  BY <1>1 DEF Op
<1>8. ops' = [ops EXCEPT ![n] = [@ EXCEPT !.todo = t, !.temporary = ops[n].temporary,
                                          !.untagged = ops[n].untagged]]
  <2>1. [ops[n] EXCEPT !.todo = t, !.temporary = ops[n].temporary,
                       !.untagged = ops[n].untagged] = [ops[n] EXCEPT !.todo = t]
    BY <1>1 DEF Op
  <2>2. ops' = [ops EXCEPT ![n] = [@ EXCEPT !.todo = t]]
    BY <1>2, <1>4 DEF Advance
  <2> QED  BY <2>1, <2>2
<1>9. Goes(n, t, ops[n].temporary)
  BY <1>5, <1>7, <1>8, GoesOn
<1>10. OpsSound'
  BY <1>1, <1>6, <1>9, OpsSoundKept DEF Registered
<1> QED  BY <1>2, <1>4, <1>5, <1>6, <1>9, <1>10

LEMMA StepKind ==
    ASSUME OpsSound, NEW n \in DOMAIN ops, NEW h, AtStep(n, h)
    PROVE  h \in StepsOf(ops[n].kind) /\ ops[n].kind \in AllKinds /\ ops[n] \in Op
           /\ ops[n].id \in Identities /\ Asked(ops[n]) /\ Registered(ops[n])
<1>1. ops[n] \in Op /\ Planned(ops[n]) /\ ops[n].kind \in AllKinds /\ ops[n].id \in Identities
      /\ Asked(ops[n]) /\ Registered(ops[n])
  BY CallersAssumption DEF OpsSound, OpSound, Op
<1>2. PICK s \in Seq(StepsOf(ops[n].kind)) : s = ops[n].todo
  BY <1>1 DEF Planned
<1>3. h \in StepsOf(ops[n].kind)
  BY <1>2, TailFacts DEF AtStep
<1> QED  BY <1>1, <1>3

LEMMA AnswerGoes ==
    ASSUME OpsSound, NEW n \in DOMAIN ops, NEW got \in Gots, NEW T \in SUBSET Refs,
           AtStep(n, "daemon"),
           ops' = [ops EXCEPT ![n].todo = Tail(@) \o Program(ops[n].kind, got),
                              ![n].untagged = T]
    PROVE  Goes(n, Tail(ops[n].todo) \o Program(ops[n].kind, got), ops[n].temporary)
<1>1. ops[n] \in Op /\ Planned(ops[n]) /\ ops[n].kind \in AllKinds
  BY DEF OpsSound, OpSound, Op
<1>2. PICK s \in Seq(StepsOf(ops[n].kind)) : s = ops[n].todo
  BY <1>1 DEF Planned
<1>3. s # <<>>
  BY <1>2 DEF AtStep
<1>4. Tail(s) \in Seq(StepsOf(ops[n].kind))
  BY <1>3, TailFacts
<1>5. PICK t : t = Tail(s) \o Program(ops[n].kind, got)
  OBVIOUS
<1>6. t \in Seq(StepsOf(ops[n].kind))
  BY <1>1, <1>4, <1>5, AnsweredPlanned
<1>7. t \in Seq(Steps)
  BY <1>1, <1>6, StepsOfKind
<1>8. ops[n].temporary \in SUBSET Entries
  BY <1>1 DEF Op
<1>9. ops' = [ops EXCEPT ![n] = [@ EXCEPT !.todo = t, !.temporary = ops[n].temporary,
                                          !.untagged = T]]
  <2>1. [ops[n] EXCEPT !.todo = t, !.temporary = ops[n].temporary, !.untagged = T]
        = [ops[n] EXCEPT !.todo = t, !.untagged = T]
    BY <1>1 DEF Op
  <2>2. ops' = [ops EXCEPT ![n] = [@ EXCEPT !.todo = t, !.untagged = T]]
    BY <1>1, <1>2, <1>5 DEF OpsSound, Op
  <2> QED  BY <2>1, <2>2
<1>10. Goes(n, t, ops[n].temporary)
  BY <1>7, <1>8, <1>9, GoesOn
<1> QED  BY <1>2, <1>5, <1>10

LEMMA DaemonGoes ==
    ASSUME OpsSound, NEW n \in DOMAIN ops, NEW got \in Gots,
           Answering(n, got)
    PROVE  \E T \in SUBSET Refs :
               ops' = [ops EXCEPT ![n].todo = Tail(@) \o Program(ops[n].kind, got),
                                  ![n].untagged = T]
<1>1. CASE DaemonSucceeds(n, got)
  <2>1. PICK T \in SUBSET Refs : T = IF ops[n].kind = "rmi" THEN TagsOf(ops[n].thing) ELSE {}
    BY DEF TagsOf
  <2> QED  BY <1>1, <2>1 DEF DaemonSucceeds
<1>2. CASE got = "none" /\ DaemonFails(n)
  <2>1. ops[n] \in Op /\ ops \in Seq(Op) /\ ops[n].untagged \in SUBSET Refs
    BY DEF OpsSound, OpSound, Op
  <2>2. PICK t : t = Tail(ops[n].todo) \o Program(ops[n].kind, "none")
    OBVIOUS
  <2>3. [ops[n] EXCEPT !.todo = t, !.untagged = ops[n].untagged] = [ops[n] EXCEPT !.todo = t]
    BY <2>1 DEF Op
  <2>4. ops' = [ops EXCEPT ![n] = [@ EXCEPT !.todo = t]]
    BY <1>2, <2>2 DEF DaemonFails
  <2>5. [ops EXCEPT ![n].todo = t, ![n].untagged = ops[n].untagged]
        = [ops EXCEPT ![n] = [@ EXCEPT !.todo = t, !.untagged = ops[n].untagged]]
    BY <2>1 DEF Op
  <2>6. ops' = [ops EXCEPT ![n].todo = t, ![n].untagged = ops[n].untagged]
    BY <2>3, <2>4, <2>5
  <2> QED  BY <1>2, <2>1, <2>2, <2>6
<1> QED  BY <1>1, <1>2 DEF Answering

LEMMA HeadersGoes ==
    ASSUME OpsSound, NEW n \in DOMAIN ops, BuildHeaders(n)
    PROVE  /\ Goes(n, Tail(ops[n].todo), Headed(ops[n]))
           /\ ops[n].kind = "build"
           /\ maps' = Store(maps, Headed(ops[n])) /\ timers' = timers
           /\ Headed(ops[n]) \in SUBSET Entries /\ SingleValued(Headed(ops[n]))
<1>1. ops[n] \in Op /\ Asked(ops[n]) /\ Planned(ops[n])
      /\ ops[n].kind \in AllKinds /\ ops[n].id \in Callers /\ ops[n].untagged \in SUBSET Refs
  BY DEF OpsSound, OpSound, Op
<1>2. PICK s \in Seq(StepsOf(ops[n].kind)) : s = ops[n].todo
  BY <1>1 DEF Planned
<1>3. s # <<>> /\ Head(s) = "headers"
  BY <1>2 DEF BuildHeaders, AtStep
<1>4. PICK t \in Seq(StepsOf(ops[n].kind)) : t = Tail(s)
  BY <1>3, TailFacts
<1>5. "headers" \in StepsOf(ops[n].kind) /\ t \in Seq(Steps)
  BY <1>1, <1>3, TailFacts, StepsOfKind
<1>6. ops[n].kind = "build"
  BY <1>1, <1>5 DEF StepsOf, AllKinds, MakingKinds
<1>7. PICK E : E = Headed(ops[n])
  OBVIOUS
<1>8. E \in SUBSET Entries /\ SingleValued(E)
  BY <1>1, <1>7, EntryTyped DEF Headed, Asked, SingleValued, MapNames
<1>9. ops' = [ops EXCEPT ![n] = [@ EXCEPT !.todo = t, !.temporary = E,
                                          !.untagged = ops[n].untagged]]
  <2>1. [ops[n] EXCEPT !.todo = t, !.temporary = E, !.untagged = ops[n].untagged]
        = [ops[n] EXCEPT !.todo = t, !.temporary = E]
    BY <1>1 DEF Op
  <2>2. ops' = [ops EXCEPT ![n] = [@ EXCEPT !.todo = t, !.temporary = E]]
    BY <1>1, <1>2, <1>4, <1>7 DEF BuildHeaders, Headed, OpsSound, Op
  <2> QED  BY <2>1, <2>2
<1>10. Goes(n, t, E)
  BY <1>1, <1>5, <1>8, <1>9, GoesOn
<1>11. maps' = Store(maps, E) /\ timers' = timers
  BY <1>7 DEF BuildHeaders, Headed
<1> QED  BY <1>2, <1>4, <1>6, <1>7, <1>8, <1>10, <1>11

LEMMA TrackGoes ==
    ASSUME OpsSound, NEW n \in DOMAIN ops
    PROVE  /\ TrackFails(n) => Goes(n, <<>>, ops[n].temporary) /\ ops[n].kind = "buildkit"
           /\ TrackBuildKitImages(n) =>
                  /\ ops[n].kind = "buildkit"
                  /\ \E E \in SUBSET ops[n].temporary : Goes(n, <<"complete", "clear">>, E)
<1> SUFFICES ASSUME AtStep(n, "track")
             PROVE  /\ TrackFails(n) => Goes(n, <<>>, ops[n].temporary) /\ ops[n].kind = "buildkit"
                    /\ TrackBuildKitImages(n) =>
                          /\ ops[n].kind = "buildkit"
                          /\ \E E \in SUBSET ops[n].temporary : Goes(n, <<"complete", "clear">>, E)
  BY DEF TrackFails, TrackBuildKitImages
<1>1. ops[n] \in Op /\ ops[n].kind = "buildkit"
      /\ ops[n].temporary \in SUBSET Entries /\ ops[n].untagged \in SUBSET Refs
  BY StepKind DEF StepsOf, AllKinds, MakingKinds, Op
<1>2. <<>> \in Seq(Steps) /\ <<"complete", "clear">> \in Seq(Steps)
  BY DEF Steps
<1>3. ASSUME TrackFails(n) PROVE Goes(n, <<>>, ops[n].temporary)
  <2>1. ops' = [ops EXCEPT ![n] = [@ EXCEPT !.todo = <<>>]]
    BY <1>3 DEF TrackFails
  <2>2. [ops[n] EXCEPT !.todo = <<>>, !.temporary = ops[n].temporary,
                       !.untagged = ops[n].untagged] = [ops[n] EXCEPT !.todo = <<>>]
    BY <1>1 DEF Op
  <2>3. ops' = [ops EXCEPT ![n] = [@ EXCEPT !.todo = <<>>, !.temporary = ops[n].temporary,
                                            !.untagged = ops[n].untagged]]
    BY <2>1, <2>2
  <2> QED  BY <1>1, <1>2, <2>3, GoesOn
<1>4. ASSUME TrackBuildKitImages(n)
      PROVE  \E E \in SUBSET ops[n].temporary : Goes(n, <<"complete", "clear">>, E)
  <2>1. PICK E \in SUBSET ops[n].temporary :
            ops' = [ops EXCEPT ![n].todo = <<"complete", "clear">>, ![n].temporary = E]
    BY <1>4 DEF TrackBuildKitImages
  <2>2. ops' = [ops EXCEPT ![n] = [@ EXCEPT !.todo = <<"complete", "clear">>, !.temporary = E]]
    BY <1>1, <2>1 DEF OpsSound, Op
  <2>3. [ops[n] EXCEPT !.todo = <<"complete", "clear">>, !.temporary = E,
                       !.untagged = ops[n].untagged]
        = [ops[n] EXCEPT !.todo = <<"complete", "clear">>, !.temporary = E]
    BY <1>1 DEF Op
  <2>4. ops' = [ops EXCEPT ![n] = [@ EXCEPT !.todo = <<"complete", "clear">>, !.temporary = E,
                                            !.untagged = ops[n].untagged]]
    BY <2>2, <2>3
  <2>5. E \in SUBSET Entries
    BY <1>1
  <2>6. Goes(n, <<"complete", "clear">>, E)
    BY <1>1, <1>2, <2>4, <2>5, GoesOn
  <2> QED  BY <2>6
<1> QED  BY <1>1, <1>3, <1>4

-----------------------------------------------------------------------------
(* Each action keeps the invariant. *)

\* the parts of the invariant that a step of a handler does not concern
LEMMA TimersKept ==
    ASSUME TimersTyped, OpsSound, NEW n \in DOMAIN ops, NEW s, NEW E, Goes(n, s, E),
           timers' \subseteq timers
    PROVE  TimersTyped'
<1>1. DOMAIN ops' = DOMAIN ops
  BY DEF Goes, OpsSound
<1> QED  BY <1>1 DEF TimersTyped

LEMMA AnswerStep ==
    ASSUME IInv, NEW n \in DOMAIN ops, NEW got \in Gots,
           Answering(n, got)
    PROVE  OpsSound' /\ TimersTyped' /\ MapsTyped' /\ EntriesHeld'
<1>0. OpsSound /\ TimersTyped /\ MapsTyped /\ EntriesHeld
  BY DEF IInv
<1>1. Planned(ops[n]) /\ Registered(ops[n]) /\ ops[n].kind \in AllKinds
      /\ AtStep(n, "daemon") /\ UNCHANGED <<maps, timers>>
  BY <1>0 DEF OpsSound, OpSound, Op, Answering, DaemonSucceeds, DaemonFails
<1>2. PICK s \in Seq(StepsOf(ops[n].kind)) : s = ops[n].todo
  BY <1>1 DEF Planned
<1>3. Tail(s) \in Seq(StepsOf(ops[n].kind))
  BY <1>1, <1>2, TailFacts DEF AtStep
<1>4. PICK t : t = Tail(s) \o Program(ops[n].kind, got)
  OBVIOUS
<1>5. /\ t \in Seq(StepsOf(ops[n].kind))
      /\ ops[n].kind \in ClearingKinds => t # <<>> /\ Closing(t)
  BY <1>1, <1>3, <1>4, AnsweredPlanned
<1>6. Goes(n, t, ops[n].temporary)
  BY <1>0, <1>1, <1>2, <1>4, AnswerGoes, DaemonGoes
<1>7. OpsSound'
  BY <1>0, <1>1, <1>5, <1>6, OpsSoundKept DEF Registered
<1>8. \A x \in ops[n].temporary : \/ t # <<>>
                                  \/ ops[n].kind = "buildkit" /\ x \in Headed(ops[n])
  BY <1>1, <1>5 DEF Registered, AllKinds, MakingKinds, ClearingKinds
<1>9. EntriesHeld'
  BY <1>0, <1>1, <1>6, <1>8, ExpireKept
<1> QED  BY <1>0, <1>1, <1>6, <1>7, <1>9, TimersKept DEF MapsTyped

LEMMA DaemonActsStep ==
    ASSUME IInv, NEW n \in DOMAIN ops, DaemonActs(n)
    PROVE  IInv'
<1>1. ops[n] \in Op /\ Asked(ops[n]) /\ DaemonTyped
  BY DEF IInv, OpsSound, OpSound
<1>2. PICK got \in Gots : DaemonSucceeds(n, got)
  BY LearntGots DEF DaemonActs
<1>3. OpsSound' /\ TimersTyped' /\ MapsTyped' /\ EntriesHeld'
  BY <1>2, AnswerStep DEF Answering
<1>4. present' \subseteq Images /\ up' \subseteq Nets \cup Vols
  BY <1>1, <1>2 DEF DaemonSucceeds, Asked, DaemonTyped
<1>5. tagOf' \in [Refs -> Images \cup {NoImage}]
  <2>1. ops[n].ref \in Refs \cup {NoRef}
    BY <1>1 DEF Op
  <2> QED  BY <1>1, <1>2, <2>1 DEF DaemonSucceeds, Asked, DaemonTyped
<1>6. TablesTypeOK' /\ rows' = rows
  BY <1>2 DEF DaemonSucceeds, IInv, TablesTypeOK, tableVars
<1> QED  BY <1>1, <1>3, <1>4, <1>5, <1>6 DEF IInv, DaemonTyped

LEMMA DaemonFailsStep ==
    ASSUME IInv, NEW n \in DOMAIN ops, DaemonFails(n)
    PROVE  IInv'
<1>1. OpsSound' /\ TimersTyped' /\ MapsTyped' /\ EntriesHeld'
  BY AnswerStep DEF Answering, Gots
<1> QED  BY <1>1 DEF IInv, DaemonFails, DaemonTyped, daemonVars, TablesTypeOK, tableVars

LEMMA BuildHeadersStep ==
    ASSUME IInv, NEW n \in DOMAIN ops, BuildHeaders(n)
    PROVE  IInv'
<1>0. OpsSound /\ TimersTyped /\ MapsTyped /\ EntriesHeld
  BY DEF IInv
<1>1. Planned(ops[n]) /\ Registered(ops[n]) /\ ops[n].kind \in AllKinds
  BY <1>0 DEF OpsSound, OpSound, Op
<1>2. PICK s \in Seq(StepsOf(ops[n].kind)) : s = ops[n].todo
  BY <1>1 DEF Planned
<1>3. s # <<>> /\ Head(s) = "headers"
  BY <1>2 DEF BuildHeaders, AtStep
<1>4. PICK t \in Seq(StepsOf(ops[n].kind)) : t = Tail(s)
  BY <1>3, TailFacts
<1>5. PICK E : E = Headed(ops[n])
  OBVIOUS
<1>6. /\ Goes(n, t, E) /\ ops[n].kind = "build"
      /\ maps' = Store(maps, E) /\ timers' = timers
      /\ E \in SUBSET Entries /\ SingleValued(E)
  BY <1>0, <1>2, <1>4, <1>5, HeadersGoes
<1>7. (Waiting(t) \/ Closing(t)) /\ t # <<>>
  <2>1. s \in Seq(Steps)
    BY <1>1, StepsOfKind
  <2> QED  BY <1>1, <1>2, <1>3, <1>4, <1>6, <2>1, TailPlanned DEF Planned, ClearingKinds
<1>8. OpsSound'
  BY <1>0, <1>5, <1>6, <1>7, OpsSoundKept
<1>9. MapsTyped'
  BY <1>0, <1>6, StoreTyped DEF MapsTyped
<1>10. EntriesHeld'
  <2>1. DOMAIN ops' = DOMAIN ops /\ (\A k \in DOMAIN ops : ops'[k].kind = ops[k].kind)
        /\ ops'[n].todo # <<>> /\ ops'[n].temporary = E
        /\ (\A k \in DOMAIN ops \ {n} : ops'[k] = ops[k])
    BY <1>0, <1>6, <1>7 DEF Goes, OpsSound
  <2>2. ops[n].temporary \subseteq E
    BY <1>1, <1>5, <1>6 DEF Registered
  <2>3. \A x \in maps' : x \in maps \/ x \in E
    BY <1>6 DEF Store
  <2>4. Headed(ops'[n]) = E
    BY <1>5, <1>6 DEF Goes, Headed
  <2> QED  BY <1>0, <1>5, <1>6, <2>1, <2>2, <2>3, <2>4 DEF EntriesHeld
<1>11. TimersTyped'
  BY <1>0, <1>6, TimersKept
<1> QED  BY <1>8, <1>9, <1>10, <1>11
         DEF IInv, BuildHeaders, DaemonTyped, daemonVars, TablesTypeOK, tableVars

\* A handler's step that leaves the maps and the timers alone.
LEMMA QuietStep ==
    ASSUME IInv, NEW n \in DOMAIN ops, NEW h, AtStep(n, h),
           h \notin {"daemon", "track", "headers", "clear"}, Advance(n),
           UNCHANGED <<maps, timers>>
    PROVE  OpsSound' /\ TimersTyped' /\ MapsTyped' /\ EntriesHeld'
<1>0. OpsSound /\ TimersTyped /\ MapsTyped /\ EntriesHeld
  BY DEF IInv
<1>1. /\ Goes(n, Tail(ops[n].todo), ops[n].temporary)
      /\ OpsSound'
      /\ ops[n].kind \in ClearingKinds => Tail(ops[n].todo) # <<>>
  BY <1>0, Advanced
<1>2. ops[n].kind \in AllKinds /\ Registered(ops[n])
  BY <1>0 DEF OpsSound, OpSound, Op
<1>3. \A x \in ops[n].temporary : \/ Tail(ops[n].todo) # <<>>
                                  \/ ops[n].kind = "buildkit" /\ x \in Headed(ops[n])
  BY <1>1, <1>2 DEF Registered, AllKinds, MakingKinds, ClearingKinds
<1>4. EntriesHeld'
  BY <1>0, <1>1, <1>3, ExpireKept
<1> QED  BY <1>0, <1>1, <1>4, TimersKept DEF MapsTyped

LEMMA TableStep ==
    ASSUME IInv, NEW n \in DOMAIN ops, OwnImage(n) \/ AccessImage(n) \/ DropImage(n)
    PROVE  IInv'
<1>0. OpsSound /\ TablesTypeOK
  BY DEF IInv
<1>1. PICK h \in {"owner", "access", "dropAccess", "dropRow"} : AtStep(n, h)
  BY DEF OwnImage, AccessImage, DropImage
<1>2. Advance(n) /\ UNCHANGED <<maps, timers, events, reader, daemonVars, rows>>
  BY DEF OwnImage, AccessImage, DropImage
<1>3. OpsSound' /\ TimersTyped' /\ MapsTyped' /\ EntriesHeld'
  BY <1>1, <1>2, QuietStep
<1>4. ops[n].id.uid \in Uids /\ IsSudoCommand(ops[n].id) \in BOOLEAN
  BY <1>0, <1>1, StepKind DEF Identities, IsSudoCommand
<1>5. CASE OwnImage(n)
  <2>1. ops[n].kind \in Sources
    <3>1. "owner" \in StepsOf(ops[n].kind) /\ ops[n].kind \in AllKinds
      BY <1>0, <1>5, StepKind DEF OwnImage
    <3> QED  BY <3>1 DEF StepsOf, AllKinds, MakingKinds, Sources
  <2>2. \A row \in Rows : UpsertedRow(row, ops[n].id, ops[n].kind) \in Rows
    BY <1>4, <2>1 DEF UpsertedRow, Rows
  <2>3. images' \in [Images -> Rows] /\ access' = access
    BY <1>0, <1>5, <2>2 DEF OwnImage, InsertOwner, TablesTypeOK
  <2> QED  BY <1>0, <2>3, <1>2, <1>3 DEF IInv, DaemonTyped, daemonVars, TablesTypeOK
<1>6. CASE AccessImage(n)
  <2>1. \A c \in Contexts : MinContext(c, ops[n].id) \in Contexts
    BY DEF MinContext, Contexts
  <2>2. access' \in [Images -> [Uids -> Contexts]] /\ images' = images
    BY <1>0, <1>4, <1>6, <2>1 DEF AccessImage, UpsertAccess, TablesTypeOK
  <2> QED  BY <1>0, <2>2, <1>2, <1>3 DEF IInv, DaemonTyped, daemonVars, TablesTypeOK
<1>7. CASE DropImage(n)
  <2>1. NoRow \in Rows /\ "none" \in Contexts
    BY UidsAssumption DEF NoRow, Rows, Contexts, Sources
  <2>2. TablesTypeOK'
    BY <1>0, <1>7, <2>1 DEF DropImage, DeleteAccessRows, DeleteOwnerRow, TablesTypeOK
  <2> QED  BY <1>2, <1>3, <2>2 DEF IInv, DaemonTyped, daemonVars
<1> QED  BY <1>5, <1>6, <1>7

LEMMA NameStep ==
    ASSUME IInv, NEW n \in DOMAIN ops, RegisterName(n) \/ ForgetName(n)
    PROVE  IInv'
<1>0. OpsSound /\ DaemonTyped
  BY DEF IInv
<1>1. PICK h \in {"register", "forget"} : AtStep(n, h)
  BY DEF RegisterName, ForgetName
<1>2. Advance(n) /\ UNCHANGED <<tableVars, maps, timers, events, reader, daemonVars>>
  BY DEF RegisterName, ForgetName
<1>3. OpsSound' /\ TimersTyped' /\ MapsTyped' /\ EntriesHeld'
  BY <1>1, <1>2, QuietStep
<1>4. ops[n].id.uid \in Uids /\ IsSudoCommand(ops[n].id) \in BOOLEAN
      /\ ops[n].thing \in Nets \cup Vols
  <2>1. ops[n].kind \in {"create", "remove"}
    BY <1>0, <1>1, StepKind DEF StepsOf, AllKinds, MakingKinds
  <2> QED  BY <1>0, <1>1, <2>1, StepKind DEF Identities, IsSudoCommand, Asked
<1>5. CASE ForgetName(n)
  <2>1. rows' \subseteq rows
    BY <1>5 DEF ForgetName
  <2> QED  BY <1>0, <1>2, <1>3, <2>1 DEF IInv, DaemonTyped, daemonVars, TablesTypeOK, tableVars
<1>6. CASE RegisterName(n)
  <2>1. PICK w \in [key : Nets \cup Vols, uid : Uids, sudo : BOOLEAN] :
            w = [key |-> ops[n].thing, uid |-> ops[n].id.uid, sudo |-> IsSudoCommand(ops[n].id)]
    BY <1>4
  <2>2. w.key = ops[n].thing /\ rows' = {v \in rows : v.key # ops[n].thing} \cup {w}
    BY <1>6, <2>1 DEF RegisterName, Row
  <2>3. /\ rows' \subseteq [key : Nets \cup Vols, uid : Uids, sudo : BOOLEAN]
        /\ \A u, v \in rows' : u.key = v.key => u = v
    BY <1>0, <2>2 DEF DaemonTyped
  <2> QED  BY <1>0, <1>2, <1>3, <2>3 DEF IInv, DaemonTyped, daemonVars, TablesTypeOK, tableVars
<1> QED  BY <1>5, <1>6

\* what a handler hands over to timers
LEMMA CompletedTyped ==
    ASSUME IInv, NEW n \in DOMAIN ops, AtStep(n, "complete")
    PROVE  Completed(ops[n]) \subseteq Entries /\ SingleValued(Completed(ops[n]))
<1> DEFINE o == ops[n]
<1>0. OpsSound /\ TablesTypeOK /\ DaemonTyped
  BY DEF IInv
<1>1. o \in Op /\ o.kind \in AllKinds /\ Asked(o) /\ Registered(o) /\ o.id \in Callers
      /\ o.id \in Identities
  BY <1>0, StepKind DEF Op
<1>2. o.kind \notin {"create"}
  BY <1>0, StepKind DEF StepsOf
<1>3. o.temporary \subseteq Entries /\ o.untagged \subseteq Refs /\ Refs \subseteq Keys
      /\ Things \subseteq Keys
  BY <1>1 DEF Op, Keys, RefKeys, Things
<1>4. \A k \in Keys : /\ Entry("completedPullOwner", k, pruneOwnerInfo(o.id)) \in Entries
                      /\ Entry("completedBuildOwner", k, pruneOwnerInfo(o.id)) \in Entries
                      /\ Entry("completedPruneOwner", k, pruneOwnerInfo(o.id)) \in Entries
  BY <1>1, EntryTyped DEF MapNames
<1>5. CASE o.kind = "pull"
  <2>1. Completed(o) = {Entry("completedPullOwner", o.key, pruneOwnerInfo(o.id))}
    BY <1>5 DEF Completed
  <2> QED  BY <1>1, <1>4, <1>5, <2>1 DEF SingleValued, Asked
<1>6. CASE o.kind \in {"build", "commit", "load"}
  <2>1. Completed(o) \subseteq {Entry("completedBuildOwner", o.key, pruneOwnerInfo(o.id))}
        /\ (Completed(o) # {} => o.ref # NoRef)
    BY <1>6 DEF Completed
  <2> QED  BY <1>1, <1>4, <2>1 DEF SingleValued, Asked
<1>7. CASE o.kind = "buildkit"
  <2>1. Completed(o) = {[e EXCEPT !.map = "completedBuildOwner"] : e \in o.temporary}
    BY <1>7 DEF Completed
  <2>2. \A e \in o.temporary : /\ e \in Entries /\ e.map = "pendingBuildTags"
                               /\ [e EXCEPT !.map = "completedBuildOwner"] \in Entries
                               /\ [e EXCEPT !.map = "completedBuildOwner"].key = e.key
    BY <1>1, <1>3, <1>7 DEF Entries, MapNames, Registered, Headed, Entry
  <2>3. \A e, f \in o.temporary : e.key = f.key => e = f
    BY <1>1, <2>2 DEF Registered, SingleValued
  <2>4. Completed(o) \subseteq Entries
    BY <2>1, <2>2
  <2>5. SingleValued(Completed(o))
    <3> SUFFICES ASSUME NEW x \in Completed(o), NEW y \in Completed(o), x.key = y.key
                 PROVE  x = y
      BY DEF SingleValued
    <3>1. PICK e \in o.temporary : x = [e EXCEPT !.map = "completedBuildOwner"]
      BY <2>1
    <3>2. PICK f \in o.temporary : y = [f EXCEPT !.map = "completedBuildOwner"]
      BY <2>1
    <3>3. e = f
      BY <2>2, <2>3, <3>1, <3>2
    <3> QED  BY <3>1, <3>2, <3>3
  <2> QED  BY <2>4, <2>5
<1>8. CASE o.kind = "rmi"
  <2>1. o.thing \in Images /\ o.thing \in Keys
    BY <1>1, <1>8 DEF Asked, Keys
  <2>2. PICK info \in [uid : Uids, sudo : BOOLEAN] :
            info = IF Tracked(o.thing)
                   THEN [uid |-> images[o.thing].owner, sudo |-> images[o.thing].sudo]
                   ELSE pruneOwnerInfo(o.id)
    <3>1. images[o.thing] \in Rows /\ o.id.uid \in Uids /\ IsSudoCommand(o.id) \in BOOLEAN
      BY <1>0, <1>1, <2>1 DEF TablesTypeOK, Identities, IsSudoCommand
    <3>2. /\ [uid |-> images[o.thing].owner, sudo |-> images[o.thing].sudo]
             \in [uid : Uids, sudo : BOOLEAN]
          /\ pruneOwnerInfo(o.id) \in [uid : Uids, sudo : BOOLEAN]
      BY <3>1 DEF Rows, pruneOwnerInfo
    <3> QED  BY <3>2
  <2>3. Completed(o) \subseteq {Entry("completedPruneOwner", k, info) : k \in {o.thing} \cup o.untagged}
    BY <1>8, <2>2 DEF Completed, RemovedImageEntries
  <2>4. \A k \in Keys : /\ Entry("completedPruneOwner", k, info) \in Entries
                        /\ Entry("completedPruneOwner", k, info).key = k
    BY DEF Entry, Entries, MapNames
  <2> QED  BY <1>3, <2>1, <2>3, <2>4 DEF SingleValued
<1>9. CASE o.kind = "remove"
  <2>1. o.thing \in Keys /\ o.key \in {o.thing, NoRef}
    BY <1>1, <1>9 DEF Asked, Keys
  <2>2. \A v, w \in Row(o.thing) : v = w
    BY <1>0 DEF DaemonTyped, Row
  <2>3. \A w \in Row(o.thing) : Entry("completedPruneOwner", o.thing, w) \in Entries
    BY <1>0, <2>1 DEF DaemonTyped, Row, Entry, Entries, MapNames
  <2>4. Entry("completedPruneOwner", o.thing, [uid |-> o.id.uid, sudo |-> TRUE]) \in Entries
    BY <1>1, <2>1 DEF Entry, Entries, MapNames, Identities
  <2>5. Row(NoRef) = {}
    BY <1>0, KeysAssumption DEF DaemonTyped, Row, Keys
  <2>6. \/ Completed(o) \subseteq
              {Entry("completedPruneOwner", o.thing, [uid |-> o.id.uid, sudo |-> TRUE])}
        \/ Completed(o) = {Entry("completedPruneOwner", o.thing, w) : w \in Row(o.thing)}
    BY <1>9, <2>1, <2>5 DEF Completed, RemovedNameEntries
  <2> QED  BY <2>2, <2>3, <2>4, <2>6 DEF SingleValued
<1> QED  BY <1>1, <1>2, <1>5, <1>6, <1>7, <1>8, <1>9 DEF AllKinds, MakingKinds

LEMMA ArmStep ==
    ASSUME IInv, NEW n \in DOMAIN ops, NEW h \in {"complete", "completeId"}, AtStep(n, h),
           NEW E, E \subseteq Entries, SingleValued(E), Arm(n, E), Advance(n),
           UNCHANGED <<tableVars, events, reader, daemonVars, rows>>
    PROVE  IInv'
<1>0. OpsSound /\ TimersTyped /\ MapsTyped /\ EntriesHeld
  BY DEF IInv
<1>1. /\ Goes(n, Tail(ops[n].todo), ops[n].temporary)
      /\ OpsSound'
      /\ ops[n].kind \in ClearingKinds => Tail(ops[n].todo) # <<>>
  BY <1>0, Advanced
<1>2. ops[n].kind \in AllKinds /\ Registered(ops[n])
  BY <1>0, StepKind
<1>3. \A x \in ops[n].temporary : \/ Tail(ops[n].todo) # <<>>
                                  \/ ops[n].kind = "buildkit" /\ x \in Headed(ops[n])
  BY <1>1, <1>2 DEF Registered, AllKinds, MakingKinds, ClearingKinds
<1>4. maps' = Store(maps, E) /\ timers' = timers \cup {[op |-> n, entry |-> e] : e \in E}
  BY DEF Arm
<1>5. MapsTyped'
  BY <1>0, <1>4, StoreTyped DEF MapsTyped
<1>6. TimersTyped'
  <2>1. DOMAIN ops' = DOMAIN ops
    BY <1>0, <1>1 DEF Goes, OpsSound
  <2> QED  BY <1>0, <1>4, <2>1 DEF TimersTyped
<1>7. \A x \in maps' : x \in maps \/ \E t \in timers' : t.entry = x
  <2>1. \A x \in maps' : x \in maps \/ x \in E
    BY <1>4 DEF Store
  <2>2. ASSUME NEW x \in E PROVE \E t \in timers' : t.entry = x
    <3>1. [op |-> n, entry |-> x] \in timers' /\ [op |-> n, entry |-> x].entry = x
      BY <1>4
    <3> QED  BY <3>1
  <2> QED  BY <2>1, <2>2
<1>8. EntriesHeld'
  <2>1. timers \subseteq timers'
    BY <1>4
  <2> QED  BY <1>0, <1>1, <1>3, <1>7, <2>1, ExpireKept
<1> QED  BY <1>1, <1>5, <1>6, <1>8
         DEF IInv, DaemonTyped, daemonVars, TablesTypeOK, tableVars

LEMMA CompleteStep ==
    ASSUME IInv, NEW n \in DOMAIN ops, Complete(n) \/ CompleteId(n)
    PROVE  IInv'
<1>1. CASE Complete(n)
  BY <1>1, CompletedTyped, ArmStep DEF Complete
<1>2. CASE CompleteId(n)
  <2>1. ops[n].id \in Callers /\ ops[n].thing \in Keys
    <3>1. ops[n] \in Op
      BY DEF IInv, OpsSound
    <3> QED  BY <3>1 DEF Op, Things, Keys
  <2>2. PICK E : E = {Entry("completedBuildOwner", ops[n].thing, pruneOwnerInfo(ops[n].id))}
    OBVIOUS
  <2>3. E \subseteq Entries /\ SingleValued(E)
    BY <2>1, <2>2, EntryTyped DEF MapNames, SingleValued
  <2> QED  BY <1>2, <2>2, <2>3, ArmStep DEF CompleteId
<1> QED  BY <1>1, <1>2

LEMMA ClearStep ==
    ASSUME IInv, NEW n \in DOMAIN ops, Clear(n)
    PROVE  IInv'
<1>0. OpsSound /\ TimersTyped /\ MapsTyped /\ EntriesHeld
  BY DEF IInv
<1>1. Goes(n, Tail(ops[n].todo), ops[n].temporary) /\ OpsSound'
  BY <1>0, Advanced DEF Clear, Advance
<1>2. maps' = maps \ ops[n].temporary /\ timers' = timers
  BY DEF Clear, CompareAndDelete, Cleared
<1>3. MapsTyped'
  BY <1>0, <1>2 DEF MapsTyped, SingleValued
<1>4. EntriesHeld'
  BY <1>0, <1>1, <1>2, ExpireKept
<1>5. TimersTyped'
  BY <1>0, <1>1, <1>2, TimersKept
<1> QED  BY <1>1, <1>3, <1>4, <1>5
         DEF IInv, Clear, DaemonTyped, daemonVars, TablesTypeOK, tableVars

\* the tables after trackBuildKitImages
LEMMA TrackTables ==
    ASSUME IInv, NEW n \in DOMAIN ops, TrackBuildKitImages(n)
    PROVE  TablesTypeOK'
<1>0. OpsSound /\ TablesTypeOK
  BY DEF IInv
<1>1. ops[n].id.uid \in Uids /\ IsSudoCommand(ops[n].id) \in BOOLEAN
  BY <1>0, StepKind DEF TrackBuildKitImages, Identities, IsSudoCommand
<1>2. UpsertedRow(NoRow, ops[n].id, "build") \in Rows
  BY <1>1 DEF UpsertedRow, NoRow, Rows, Sources
<1>3. \A c \in Contexts : MinContext(c, ops[n].id) \in Contexts /\ "plain" \in Contexts
  BY DEF MinContext, Contexts
<1>4. images' \in [Images -> Rows]
  BY <1>0, <1>2 DEF TrackBuildKitImages, TablesTypeOK
<1>5. access' \in [Images -> [Uids -> Contexts]]
  BY ZenonT(40), <1>0, <1>3 DEF TrackBuildKitImages, TablesTypeOK
<1> QED  BY <1>4, <1>5 DEF TablesTypeOK

LEMMA TrackStep ==
    ASSUME IInv, NEW n \in DOMAIN ops, TrackBuildKitImages(n) \/ TrackFails(n)
    PROVE  IInv'
<1>0. OpsSound /\ TimersTyped /\ MapsTyped /\ EntriesHeld
  BY DEF IInv
<1>1. AtStep(n, "track") /\ UNCHANGED <<maps, timers, events, reader, daemonVars, rows>>
  BY DEF TrackBuildKitImages, TrackFails
<1>2. ops[n] \in Op /\ Registered(ops[n]) /\ ops[n].kind = "buildkit"
      /\ ops[n].temporary \in SUBSET Entries /\ ops[n].untagged \in SUBSET Refs
  BY <1>0, <1>1, StepKind DEF StepsOf, AllKinds, MakingKinds, Op
<1>3. PICK s \in {<<>>, <<"complete", "clear">>}, E \in SUBSET ops[n].temporary : Goes(n, s, E)
  BY <1>0, TrackGoes
<1>4. s \in Seq(StepsOf("buildkit"))
  <2>1. <<>> \in Seq(StepsOf("buildkit")) /\ <<"complete", "clear">> \in Seq(StepsOf("buildkit"))
    BY DEF StepsOf
  <2> QED  BY <2>1
<1>5. SingleValued(E) /\ E \subseteq Headed(ops[n])
  BY <1>2 DEF Registered, SingleValued
<1>7. OpsSound'
  BY <1>0, <1>2, <1>3, <1>4, <1>5, OpsSoundKept DEF ClearingKinds
<1>8. ops[n].temporary \subseteq Headed(ops[n])
  BY <1>2 DEF Registered
<1>9. EntriesHeld'
  BY <1>0, <1>1, <1>2, <1>3, <1>8, ExpireKept
<1>10. TimersTyped' /\ MapsTyped' /\ DaemonTyped'
  BY <1>0, <1>1, <1>3, TimersKept DEF MapsTyped, IInv, DaemonTyped, daemonVars
<1>11. TablesTypeOK'
  BY TrackTables DEF TrackFails, IInv, TablesTypeOK, tableVars
<1> QED  BY <1>7, <1>9, <1>10, <1>11 DEF IInv

\* the same operation, apart from what is left to do and whether it is contended
SameOp(o, p) ==
    /\ p.kind = o.kind /\ p.id = o.id /\ p.ref = o.ref /\ p.key = o.key
    /\ p.thing = o.thing /\ p.todo = o.todo /\ p.temporary = o.temporary
    /\ p.touches = o.touches

\* the operation that a request begins
NewOp(o, q, first) ==
    /\ o.kind = q.kind /\ o.id = q.id /\ o.ref = q.ref /\ o.key = q.key
    /\ o.thing = q.thing /\ o.todo = first

LEMMA BeginOps ==
    ASSUME OpsSound, DaemonTyped, NEW q \in Requests, Begin(q)
    PROVE  /\ ops' \in Seq(Op) /\ DOMAIN ops' = DOMAIN ops \cup {Len(ops) + 1}
           /\ Len(ops) + 1 \notin DOMAIN ops
           /\ \A k \in DOMAIN ops :
                  /\ SameOp(ops[k], ops'[k])
                  /\ ops'[k].contended <=> ops[k].contended \/ Overlaps(k, q)
           /\ \E first \in FirstSteps(q) :
                  /\ NewOp(ops'[Len(ops) + 1], q, first)
                  /\ first \in Seq(StepsOf(q.kind)) /\ first # <<>> /\ Waiting(first)
           /\ ops'[Len(ops) + 1].temporary = Preregistered(q)
           /\ ops'[Len(ops) + 1].touches = Touches(q)
           /\ ops'[Len(ops) + 1].contended <=> \E n \in DOMAIN ops : Overlaps(n, q)
<1>1. /\ q.kind \in AllKinds /\ q.id \in Callers
      /\ q.ref \in Refs \cup {NoRef} /\ q.key \in Keys \cup {NoRef}
      /\ q.thing \in Things
      /\ q.ref # NoRef \/ q.kind = "pull" => q.key \in Keys
      /\ q.kind \in MakingKinds \cup {"rmi"} => q.thing \in Images
      /\ q.kind \in {"create", "remove"} => q.thing \in Nets \cup Vols
  BY RequestFacts
<1>2. PICK P : P = Preregistered(q)
  OBVIOUS
<1>3. P \subseteq Entries
  BY <1>2, PreregisteredTyped
<1>4a. PICK first \in FirstSteps(q) :
           ops' = Append([n \in DOMAIN ops |->
                              [ops[n] EXCEPT !.contended = @ \/ Overlaps(n, q)]],
                  [kind |-> q.kind, id |-> q.id, ref |-> q.ref, key |-> q.key,
                   thing |-> q.thing, todo |-> first, temporary |-> Preregistered(q),
                   pre |-> Snapshot(q), untagged |-> {}, touches |-> Touches(q),
                   contended |-> \E n \in DOMAIN ops : Overlaps(n, q)])
  BY Zenon DEF Begin
<1>4b. PICK new :
           new = [kind |-> q.kind, id |-> q.id, ref |-> q.ref, key |-> q.key,
                  thing |-> q.thing, todo |-> first, temporary |-> P,
                  pre |-> Snapshot(q), untagged |-> {}, touches |-> Touches(q),
                  contended |-> \E n \in DOMAIN ops : Overlaps(n, q)]
  OBVIOUS
<1>4. ops' = Append([n \in DOMAIN ops |->
                         [ops[n] EXCEPT !.contended = @ \/ Overlaps(n, q)]], new)
  BY <1>2, <1>4a, <1>4b
<1>5. first \in Seq(StepsOf(q.kind)) /\ first \in Seq(Steps) /\ first # <<>> /\ Waiting(first)
  <2>1. first = <<"daemon">> \/ (q.kind = "build" /\ (first = <<"headers", "daemon">> \/
                                                      first = <<"daemon", "headers">>))
    BY DEF FirstSteps
  <2>2. "daemon" \in StepsOf(q.kind) /\ StepsOf(q.kind) \subseteq Steps
        /\ (q.kind = "build" => "headers" \in StepsOf(q.kind))
    BY <1>1 DEF StepsOf, Steps, AllKinds, MakingKinds
  <2>3. CASE first = <<"daemon">>
    <3>1. first \in Seq(StepsOf(q.kind)) /\ first # <<>> /\ first[1] = "daemon"
          /\ 1 \in 1..Len(first)
      BY <2>2, <2>3
    <3> QED  BY <2>2, <3>1, SeqMonotonic DEF Waiting
  <2>4. CASE q.kind = "build" /\ first = <<"headers", "daemon">>
    <3>1. first \in Seq(StepsOf(q.kind)) /\ first # <<>> /\ first[2] = "daemon"
          /\ 2 \in 1..Len(first)
      BY <2>2, <2>4
    <3> QED  BY <2>2, <3>1, SeqMonotonic DEF Waiting
  <2>5. CASE q.kind = "build" /\ first = <<"daemon", "headers">>
    <3>1. first \in Seq(StepsOf(q.kind)) /\ first # <<>> /\ first[1] = "daemon"
          /\ 1 \in 1..Len(first)
      BY <2>2, <2>5
    <3> QED  BY <2>2, <3>1, SeqMonotonic DEF Waiting
  <2> QED  BY <2>1, <2>3, <2>4, <2>5
<1>6. Snapshot(q) \in [ids : SUBSET Images, tags : [Refs -> Images \cup {NoImage}]]
  BY DEF Snapshot, DaemonTyped
<1>7. Touches(q) \in SUBSET (Things \cup Repos)
  BY TouchesTyped
<1>8. (\E n \in DOMAIN ops : Overlaps(n, q)) \in BOOLEAN
  OBVIOUS
<1>9. new \in Op
  BY <1>1, <1>3, <1>4b, <1>5, <1>6, <1>7, <1>8 DEF Op
<1>10. /\ NewOp(new, q, first) /\ new.temporary = P /\ new.touches = Touches(q)
       /\ new.contended <=> \E n \in DOMAIN ops : Overlaps(n, q)
  BY <1>4b DEF NewOp
<1>11. PICK old : old = [n \in DOMAIN ops |->
                            [ops[n] EXCEPT !.contended = @ \/ Overlaps(n, q)]]
  OBVIOUS
<1>12. ASSUME NEW k \in DOMAIN ops
       PROVE  /\ old[k] \in Op /\ SameOp(ops[k], old[k])
              /\ old[k].contended <=> ops[k].contended \/ Overlaps(k, q)
  <2>1. ops[k] \in Op
    BY DEF OpsSound
  <2>2. PICK c : c = (ops[k].contended \/ Overlaps(k, q))
    OBVIOUS
  <2>3. c \in BOOLEAN
    BY <2>2
  <2>4. old[k] = [ops[k] EXCEPT !.contended = c]
    BY <1>11, <2>2
  <2>5. old[k] \in Op /\ SameOp(ops[k], old[k]) /\ old[k].contended = c
    BY <2>1, <2>3, <2>4 DEF Op, SameOp
  <2> QED  BY <2>2, <2>5
<1>13. old \in Seq(Op) /\ Len(old) = Len(ops) /\ DOMAIN old = DOMAIN ops /\ Len(ops) \in Nat
       /\ DOMAIN ops = 1..Len(ops)
  <2>1. Len(ops) \in Nat /\ DOMAIN ops = 1..Len(ops)
    BY DEF OpsSound
  <2>2. old \in [1..Len(ops) -> Op]
    BY <1>11, <1>12, <2>1
  <2>3. old \in Seq(Op)
    BY <2>1, <2>2, SeqDef
  <2>4. DOMAIN old = 1..Len(ops)
    BY <2>2
  <2>5. Len(old) = Len(ops)
    BY <2>1, <2>3, <2>4
  <2> QED  BY <2>1, <2>3, <2>4, <2>5
<1>14. /\ ops' \in Seq(Op) /\ DOMAIN ops' = DOMAIN ops \cup {Len(ops) + 1}
       /\ ops'[Len(ops) + 1] = new
       /\ \A k \in DOMAIN ops : ops'[k] = old[k]
  BY <1>4, <1>9, <1>11, <1>13
<1> QED  BY <1>2, <1>5, <1>10, <1>12, <1>13, <1>14

LEMMA BeginStep ==
    ASSUME IInv, NEW q \in Requests, Begin(q)
    PROVE  IInv'
<1>0. OpsSound /\ TimersTyped /\ MapsTyped /\ EntriesHeld /\ DaemonTyped
  BY DEF IInv
<1>1. PICK m, P : m = Len(ops) + 1 /\ P = Preregistered(q)
  OBVIOUS
<1>2. PICK first \in FirstSteps(q) :
          /\ NewOp(ops'[m], q, first)
          /\ first \in Seq(StepsOf(q.kind)) /\ first # <<>> /\ Waiting(first)
  BY <1>0, <1>1, BeginOps
<1>3. /\ ops' \in Seq(Op) /\ DOMAIN ops' = DOMAIN ops \cup {m} /\ ops'[m].temporary = P
      /\ \A k \in DOMAIN ops : SameOp(ops[k], ops'[k])
  BY <1>0, <1>1, BeginOps
<1>4. /\ P \subseteq Entries /\ SingleValued(P)
      /\ q.kind \in {"load", "remove", "build"} => P = {}
      /\ q.kind = "buildkit" => P \subseteq Headed(q)
  BY <1>1, PreregisteredTyped
<1>5. OpSound(ops'[m])
  <2>1. ops'[m] \in Op
    <3>1. PICK t \in Seq(Op) : t = ops'
      BY <1>3
    <3>2. \A k \in DOMAIN t : t[k] \in Op
      OBVIOUS
    <3>3. m \in DOMAIN t
      BY <1>3, <3>1
    <3> QED  BY <3>1, <3>2, <3>3
  <2>2. Asked(ops'[m])
    <3>1. q.kind \in Kinds
      BY DEF Begin
    <3> QED  BY <1>2, <3>1, RequestFacts DEF Asked, NewOp
  <2>3. Planned(ops'[m])
    BY <1>2 DEF Planned, NewOp
  <2>4. Headed(ops'[m]) = Headed(q)
    BY <1>2 DEF Headed, NewOp
  <2>5. Registered(ops'[m])
    BY <1>2, <1>3, <1>4, <2>4 DEF Registered, NewOp
  <2> QED  BY <2>1, <2>2, <2>3, <2>5 DEF OpSound
<1>6. ASSUME NEW k \in DOMAIN ops PROVE OpSound(ops'[k]) /\ Headed(ops'[k]) = Headed(ops[k])
  <2>1. OpSound(ops[k]) /\ SameOp(ops[k], ops'[k]) /\ ops'[k] \in Op
    BY <1>0, <1>3 DEF OpsSound
  <2>2. Headed(ops'[k]) = Headed(ops[k])
    BY <2>1 DEF Headed, SameOp
  <2>3. Asked(ops'[k]) /\ Planned(ops'[k]) /\ Registered(ops'[k])
    BY <2>1, <2>2 DEF OpSound, SameOp, Asked, Planned, Registered
  <2> QED  BY <2>1, <2>2, <2>3 DEF OpSound
<1>7. OpsSound'
  BY <1>3, <1>5, <1>6 DEF OpsSound
<1>8. maps' = Store(maps, P) /\ timers' = timers
  BY <1>1 DEF Begin
<1>9. MapsTyped' /\ TimersTyped'
  BY <1>0, <1>3, <1>4, <1>8, StoreTyped DEF MapsTyped, TimersTyped
<1>10. EntriesHeld'
  <2>1. \A x \in maps' : x \in maps \/ x \in P
    BY <1>8 DEF Store
  <2>2. ops'[m].todo # <<>> /\ ops'[m].temporary = P
    BY <1>2, <1>3 DEF NewOp
  <2>3. \A k \in DOMAIN ops : /\ ops'[k].kind = ops[k].kind /\ ops'[k].todo = ops[k].todo
                              /\ ops'[k].temporary = ops[k].temporary
                              /\ Headed(ops'[k]) = Headed(ops[k])
    BY <1>3, <1>6 DEF SameOp
  <2> QED  BY <1>0, <1>3, <1>8, <2>1, <2>2, <2>3 DEF EntriesHeld
<1> QED  BY <1>7, <1>9, <1>10 DEF IInv, Begin, DaemonTyped, daemonVars, TablesTypeOK, tableVars

LEMMA TimerStep ==
    ASSUME IInv, NEW t \in timers, TimerFires(t)
    PROVE  IInv'
<1>1. timers' = timers \ {t} /\ maps' = maps \ {t.entry} /\ ops' = ops
  BY DEF TimerFires, CompareAndDelete
<1>2. EntriesHeld'
  <2> SUFFICES ASSUME NEW x \in maps', NEW r \in timers, r.entry = x
               PROVE  \E v \in timers' : v.entry = x
    BY <1>1 DEF IInv, EntriesHeld
  <2> QED  BY <1>1
<1>3. MapsTyped' /\ TimersTyped' /\ OpsSound'
  BY <1>1 DEF IInv, MapsTyped, SingleValued, TimersTyped, OpsSound
<1> QED  BY <1>2, <1>3 DEF IInv, TimerFires, DaemonTyped, daemonVars, TablesTypeOK, tableVars

LEMMA ReaderStep ==
    ASSUME IInv, UNCHANGED <<tableVars, maps, timers, ops, daemonVars, rows>>
    PROVE  IInv'
  BY DEF IInv, OpsSound, TimersTyped, MapsTyped, EntriesHeld, DaemonTyped, daemonVars,
         TablesTypeOK, tableVars

LEMMA InitIInv == Init => IInv
<1> SUFFICES ASSUME Init PROVE IInv
  OBVIOUS
<1>1. TablesTypeOK
  BY UidsAssumption DEF Init, TablesInit, TablesTypeOK, NoRow, Rows, Contexts, Sources
<1>2. OpsSound
  BY DEF Init, OpsSound
<1>3. TimersTyped /\ MapsTyped /\ EntriesHeld /\ DaemonTyped
  BY DEF Init, TimersTyped, MapsTyped, SingleValued, EntriesHeld, DaemonTyped
<1> QED  BY <1>1, <1>2, <1>3 DEF IInv

LEMMA NextIInv == IInv /\ [Next]_vars => IInv'
<1> SUFFICES ASSUME IInv, [Next]_vars PROVE IInv'
  OBVIOUS
<1>1. ASSUME NEW n \in DOMAIN ops, OpStep(n) PROVE IInv'
  BY <1>1, DaemonActsStep, DaemonFailsStep, BuildHeadersStep, TableStep, CompleteStep,
     ClearStep, NameStep, TrackStep DEF OpStep
<1>2. CASE (\E e \in events : EventLine(e)) \/ LookUp \/ LineDone
  BY <1>2, ReaderStep DEF EventLine, LookUp, LineDone
<1>3. CASE UNCHANGED vars
  BY <1>3, ReaderStep DEF vars, tableVars
<1> QED  BY <1>1, <1>2, <1>3, BeginStep, TimerStep DEF Next

LEMMA Inductive == Spec => []IInv
  BY InitIInv, NextIInv, PTL DEF Spec

-----------------------------------------------------------------------------
(* Why an event is attributed right: the second invariant. *)

\* The name that an entry is about.  The references of a removed image are not
\* looked up for anybody's covered event.
About(x) ==
    IF x.key \in Things THEN {x.key}
    ELSE IF x.map = "completedPruneOwner" THEN {} ELSE {x.key.repo}

RefKinds == {"pull", "build", "commit", "buildkit"}

Has(s, step) == \E i \in 1..Len(s) : s[i] = step

Info(o) == pruneOwnerInfo(o.id)
SudoInfo(o) == [uid |-> o.id.uid, sudo |-> TRUE]
Pending(o) ==
    Entry(IF o.kind = "pull" THEN "pendingPullRefs" ELSE "pendingBuildTags", o.key, Info(o))
Finished(o) ==
    Entry(IF o.kind = "pull" THEN "completedPullOwner" ELSE "completedBuildOwner", o.key, Info(o))
Pruned(o, info) == Entry("completedPruneOwner", o.thing, info)
RowFor(o) == [key |-> o.thing, uid |-> o.id.uid, sudo |-> IsSudoCommand(o.id)]

\* The daemon acts once and nothing but the headers is handled before; what was
\* registered is cleared last; a removal is recorded before rows are deleted.
Ordered(kind, s) ==
    /\ \A i, j \in 1..Len(s) : s[i] = "daemon" /\ s[j] = "daemon" => i = j
    /\ Waiting(s) => \A i \in 1..Len(s) : s[i] \in {"daemon", "headers"}
    /\ \A i \in 1..Len(s) : s[i] = "clear" => i = Len(s)
    /\ kind \in {"rmi", "remove"} => \A i \in 1..Len(s) : s[i] = "complete" => i = 1

Names(o) ==
    /\ o.thing \in o.touches
    /\ o.kind = "pull" => o.ref # NoRef
    /\ o.ref # NoRef => o.ref.repo \in o.touches /\ o.key \in {o.ref, Bare(o.ref)}

\* what is registered, with s left to do
Keeps(o, s, E) ==
    /\ o.kind \in RefKinds => E = {} \/ (o.ref # NoRef /\ E = {Pending(o)})
    /\ o.kind \in RefKinds /\ o.ref # NoRef =>
          \/ E = {Pending(o)}
          \/ o.kind = "build" /\ Has(s, "headers")
          \/ o.kind = "buildkit" /\ ~Waiting(s) /\ ~Has(s, "track")
    /\ o.kind = "create" => E = {Pruned(o, Info(o))}
    /\ o.kind = "rmi" => E \subseteq {Pruned(o, Info(o))}

Shaped(o) == Ordered(o.kind, o.todo) /\ Names(o) /\ Keeps(o, o.todo, o.temporary)
OpsShaped == \A n \in DOMAIN ops : Shaped(ops[n])

TimersOwn ==
    \A t \in timers : About(t.entry) \subseteq ops[t.op].touches /\ ~Waiting(ops[t.op].todo)

Busy(n) == ops[n].todo # <<>> \/ \E t \in timers : t.op = n
Watched(n) == (\E e \in events : e.op = n) \/ Reading(n)
Free(n) == (Busy(n) \/ Watched(n)) /\ ~ops[n].contended

\* operations that are not contended have their names for themselves
Apart ==
    \A n, m \in DOMAIN ops :
        Free(n) /\ n # m /\ Busy(m) => ops[m].touches \cap ops[n].touches = {}

Mine ==
    \A n \in DOMAIN ops : Free(n) /\ ops[n].kind \in RefKinds \cup {"create"} =>
        \A x \in maps : About(x) \cap ops[n].touches # {} =>
            x.uid = ops[n].id.uid /\ x.sudo = IsSudoCommand(ops[n].id)

Ready ==
    \A n \in DOMAIN ops : Free(n) /\ Waiting(ops[n].todo) => ops[n].temporary \subseteq maps

\* an event that is on its way or being read
Out(e) == e \in events \/ (reader # NoReader /\ e = reader.event)

\* a covered event and the operation it is of
Fits(o, e) ==
    \/ /\ o.kind \in RefKinds /\ o.ref # NoRef
       /\ e.type = "image" /\ e.action = (IF o.kind = "pull" THEN "pull" ELSE "tag")
       /\ e.actor = o.ref /\ e.name = Bare(o.ref)
       /\ e.uid = o.id.uid /\ e.sudo = IsSudoCommand(o.id)
    \/ /\ o.kind = "rmi" /\ e.type = "image" /\ e.action = "delete"
       /\ e.actor = o.thing /\ e.name = NoRef
    \/ /\ o.kind = "create" /\ e.type = "volume" /\ e.actor = o.thing
       /\ e.uid = o.id.uid /\ e.sudo = IsSudoCommand(o.id)
    \/ /\ o.kind = "remove" /\ e.type = "network" /\ e.actor = o.thing /\ e.sudo = TRUE
       /\ o.thing \in Nets /\ o.key = o.thing

EventsFit ==
    \A e : Out(e) => /\ e.op \in DOMAIN ops /\ ~Waiting(ops[e.op].todo)
                     /\ e.covered => Fits(ops[e.op], e)

Covered(e) == e.covered /\ ~ops[e.op].contended

\* The event of a removed image, of which nothing is left that a BuildKit build
\* would take for its own.
Gone ==
    \A e : Out(e) /\ Covered(e) /\ ops[e.op].kind = "rmi" =>
        /\ ops[e.op].temporary = {} /\ ops[e.op].thing \notin present
        /\ \A r \in Refs : tagOf[r] # ops[e.op].thing

\* While an event is out, there is an entry or a row that tells whose it is: in
\* the entries M, the names' rows R and the images' rows I.
RefSafe(M, o) ==
    \/ Finished(o) \in M
    \/ /\ Pending(o) \in M
       /\ \/ Has(o.todo, "clear") => Has(o.todo, "complete")
          \/ o.kind = "buildkit" /\ o.temporary = {}
RmiSafe(M, I, o, e) ==
    /\ I[o.thing].source # "none" => I[o.thing].owner = e.uid /\ I[o.thing].sudo = e.sudo
    /\ Has(o.todo, "complete") => I[o.thing].source # "none"
    /\ Has(o.todo, "complete") \/ Pruned(o, e) \in M
CreateSafe(M, R, o) ==
    RowFor(o) \in R \/ (Pruned(o, Info(o)) \in M /\ Has(o.todo, "register"))
RemoveSafe(M, R, o) ==
    \/ Has(o.todo, "complete") /\ \E w \in R : w.key = o.thing /\ w.sudo = TRUE
    \/ Pruned(o, SudoInfo(o)) \in M
Safe(M, R, I, o, e) ==
    /\ o.kind \in RefKinds => RefSafe(M, o)
    /\ o.kind = "rmi" => RmiSafe(M, I, o, e)
    /\ o.kind = "create" => CreateSafe(M, R, o)
    /\ o.kind = "remove" => RemoveSafe(M, R, o)
EventsSafe == \A e : Out(e) /\ Covered(e) => Safe(maps, rows, images, ops[e.op], e)

\* What is left of the lookups will find it.
LookOf(x) == Look(x.map, x.key)
RefReading(M, o, e, s) ==
    /\ s \in Seq([map : MapNames, key : {e.name, e.actor}])
    /\ \E j \in 1..Len(s) :
           /\ s[j] = LookOf(Finished(o))
           /\ \A k \in 1..j : s[k].map # "completedPruneOwner"
           /\ Finished(o) \in M \/ \E i \in 1..j - 1 : s[i] = LookOf(Pending(o))
RmiReading(M, o, e, s) ==
    \/ s = <<Look("table", o.thing), Look("completedPruneOwner", o.thing)>>
    \/ s = <<Look("completedPruneOwner", o.thing)>> /\ Pruned(o, e) \in M
CreateReading(R, o, s) ==
    \/ s = <<Look("completedPruneOwner", o.thing), Look("table", o.thing)>>
    \/ s = <<Look("table", o.thing)>> /\ RowFor(o) \in R
RemoveReading(M, o, s) ==
    \/ s = <<Look("table", o.thing), Look("completedPruneOwner", o.thing)>>
    \/ s = <<Look("completedPruneOwner", o.thing)>> /\ Pruned(o, SudoInfo(o)) \in M
SafeReading(M, R, o, e, s) ==
    /\ o.kind \in RefKinds => RefReading(M, o, e, s)
    /\ o.kind = "rmi" => RmiReading(M, o, e, s)
    /\ o.kind = "create" => CreateReading(R, o, s)
    /\ o.kind = "remove" => RemoveReading(M, o, s)

Line(e, s, v) == [event |-> e, todo |-> s, verdict |-> v]
Readable == reader # NoReader => \E e, s, v : reader = Line(e, s, v)
ReaderSafe ==
    \A e, s, v : reader # NoReader /\ reader = Line(e, s, v) /\ Covered(e) =>
        IF v.found THEN v.shown = ShownTo(e)
        ELSE v = Undecided /\ SafeReading(maps, rows, ops[e.op], e, s)

ShapeInv == OpsShaped /\ TimersOwn /\ EventsFit /\ Readable
SafeInv == Apart /\ Mine /\ Ready /\ Gone /\ EventsSafe /\ ReaderSafe

-----------------------------------------------------------------------------
(* Plans. *)

LEMMA HasTail ==
    ASSUME NEW s \in Seq(Steps), s # <<>>, NEW h
    PROVE  /\ Has(Tail(s), h) => Has(s, h)
           /\ Has(s, h) /\ Head(s) # h => Has(Tail(s), h)
<1>1. PICK t : t = Tail(s)
  OBVIOUS
<1>2. Len(s) \in Nat /\ Len(s) >= 1 /\ Len(t) = Len(s) - 1 /\ s[1] = Head(s)
      /\ \A i \in 1..Len(s) - 1 : t[i] = s[i + 1]
  BY <1>1, TailFacts
<1>3. ASSUME NEW i \in 1..Len(t), t[i] = h PROVE Has(s, h)
  BY <1>2, <1>3 DEF Has
<1>4. ASSUME NEW i \in 1..Len(s), s[i] = h, s[1] # h PROVE Has(t, h)
  <2>1. i - 1 \in 1..Len(t) /\ t[i - 1] = h
    BY <1>2, <1>4
  <2> QED  BY <2>1 DEF Has
<1> QED  BY <1>1, <1>2, <1>3, <1>4 DEF Has

LEMMA OrderedTail ==
    ASSUME NEW kind, NEW s \in Seq(Steps), s # <<>>, Ordered(kind, s)
    PROVE  /\ Ordered(kind, Tail(s))
           /\ Head(s) = "clear" => Tail(s) = <<>>
           /\ Head(s) = "daemon" => \A i \in 1..Len(Tail(s)) : Tail(s)[i] = "headers"
           /\ Head(s) \notin {"daemon", "headers"} => ~Waiting(s)
           /\ kind \in {"rmi", "remove"} /\ Head(s) # "complete" => ~Has(s, "complete")
<1>1. PICK t \in Seq(Steps) : t = Tail(s)
  BY TailFacts
<1>2. Len(s) \in Nat /\ Len(s) >= 1 /\ Len(t) = Len(s) - 1 /\ s[1] = Head(s)
      /\ \A i \in 1..Len(t) : i + 1 \in 1..Len(s) /\ t[i] = s[i + 1] /\ i + 1 # 1
  BY <1>1, TailFacts
<1>3. \A i, j \in 1..Len(t) : t[i] = "daemon" /\ t[j] = "daemon" => i = j
  BY <1>2 DEF Ordered
<1>4. Waiting(t) => Waiting(s)
  BY <1>2 DEF Waiting
<1>5. Waiting(t) => \A i \in 1..Len(t) : t[i] \in {"daemon", "headers"}
  BY <1>2, <1>4 DEF Ordered
<1>6. \A i \in 1..Len(t) : t[i] = "clear" => i = Len(t)
  BY <1>2 DEF Ordered
<1>7. kind \in {"rmi", "remove"} => \A i \in 1..Len(t) : t[i] # "complete"
  BY <1>2 DEF Ordered
<1>8. Ordered(kind, t)
  BY <1>3, <1>5, <1>6, <1>7 DEF Ordered
<1>9. Head(s) = "clear" => t = <<>>
  BY <1>2, EmptySeq DEF Ordered
<1>10. Head(s) = "daemon" => \A i \in 1..Len(t) : t[i] = "headers"
  <2> SUFFICES ASSUME Head(s) = "daemon", NEW i \in 1..Len(t) PROVE t[i] = "headers"
    OBVIOUS
  <2>1. 1 \in 1..Len(s) /\ s[1] = "daemon" /\ s[i + 1] # "daemon"
    BY <1>2 DEF Ordered
  <2>2. Waiting(s)
    BY <2>1 DEF Waiting
  <2> QED  BY <1>2, <2>1, <2>2 DEF Ordered
<1>11. Head(s) \notin {"daemon", "headers"} => ~Waiting(s)
  BY <1>2 DEF Ordered
<1>12. kind \in {"rmi", "remove"} /\ Head(s) # "complete" => ~Has(s, "complete")
  BY <1>2 DEF Ordered, Has
<1> QED  BY <1>1, <1>8, <1>9, <1>10, <1>11, <1>12

\* the order of the steps in a handler's program, and what it does when the
\* daemon has acted
Answers(kind, got, p) ==
    /\ \A i \in 1..Len(p) : p[i] \notin {"daemon", "headers"} /\ (p[i] = "clear" => i = Len(p))
    /\ kind \in {"rmi", "remove"} => \A i \in 1..Len(p) : p[i] = "complete" => i = 1
    /\ kind \in RefKinds /\ (kind = "pull" => got # "none") => (Has(p, "clear") => Has(p, "complete"))
    /\ kind = "buildkit" => Has(p, "track")
    /\ got = "id" /\ kind \in {"rmi", "remove"} => Has(p, "complete")
    /\ got = "id" /\ kind = "create" => Has(p, "register")

LEMMA ProgramOrder ==
    ASSUME NEW kind \in AllKinds, NEW got \in Gots
    PROVE  Answers(kind, got, Program(kind, got))
<1>1. CASE kind = "pull"
  <2>1. CASE got = "id"
    <3>1. PICK p : p = <<"owner", "access", "complete", "clear">>
      OBVIOUS
    <3>2. Len(p) = 4 /\ p[1] = "owner" /\ p[2] = "access" /\ p[3] = "complete" /\ p[4] = "clear"
      BY <3>1
    <3>3. Has(p, "complete") /\ Has(p, "clear")
      BY <3>2 DEF Has
    <3>4. Answers("pull", "id", p)
      BY <3>2, <3>3 DEF Answers, RefKinds
    <3> QED  BY <1>1, <2>1, <3>1, <3>4 DEF Program
  <2>2. CASE got = "digest"
    <3>1. PICK p : p = <<"complete", "clear">>
      OBVIOUS
    <3>2. Len(p) = 2 /\ p[1] = "complete" /\ p[2] = "clear"
      BY <3>1
    <3>3. Has(p, "complete") /\ Has(p, "clear")
      BY <3>2 DEF Has
    <3>4. Answers("pull", got, p)
      BY <2>2, <3>2, <3>3 DEF Answers, RefKinds
    <3> QED  BY <1>1, <2>2, <3>1, <3>4 DEF Program
  <2>3. CASE got = "none"
    <3>1. PICK p : p = <<"clear">>
      OBVIOUS
    <3>2. Len(p) = 1 /\ p[1] = "clear"
      BY <3>1
    <3>3. Has(p, "clear")
      BY <3>2 DEF Has
    <3>4. Answers("pull", got, p)
      BY <2>3, <3>2, <3>3 DEF Answers, RefKinds
    <3> QED  BY <1>1, <2>3, <3>1, <3>4 DEF Program
  <2> QED  BY <2>1, <2>2, <2>3 DEF Gots
<1>2. CASE kind = "build"
  <2>1. CASE got = "id"
    <3>1. PICK p : p = <<"owner", "access", "complete", "clear">>
      OBVIOUS
    <3>2. Len(p) = 4 /\ p[1] = "owner" /\ p[2] = "access" /\ p[3] = "complete" /\ p[4] = "clear"
      BY <3>1
    <3>3. Has(p, "complete") /\ Has(p, "clear")
      BY <3>2 DEF Has
    <3>4. Answers("build", "id", p)
      BY <3>2, <3>3 DEF Answers, RefKinds
    <3> QED  BY <1>2, <2>1, <3>1, <3>4 DEF Program
  <2>2. CASE got # "id"
    <3>1. PICK p : p = <<"complete", "clear">>
      OBVIOUS
    <3>2. Len(p) = 2 /\ p[1] = "complete" /\ p[2] = "clear"
      BY <3>1
    <3>3. Has(p, "complete") /\ Has(p, "clear")
      BY <3>2 DEF Has
    <3>4. Answers("build", got, p)
      BY <2>2, <3>2, <3>3 DEF Answers, RefKinds
    <3> QED  BY <1>2, <2>2, <3>1, <3>4 DEF Program
  <2> QED  BY <2>1, <2>2
<1>3. CASE kind = "commit"
  <2>1. CASE got = "id"
    <3>1. PICK p : p = <<"owner", "access", "completeId", "complete", "clear">>
      OBVIOUS
    <3>2. Len(p) = 5 /\ p[1] = "owner" /\ p[2] = "access" /\ p[3] = "completeId" /\ p[4] = "complete" /\ p[5] = "clear"
      BY <3>1
    <3>3. Has(p, "complete") /\ Has(p, "clear")
      BY <3>2 DEF Has
    <3>4. Answers("commit", "id", p)
      BY <3>2, <3>3 DEF Answers, RefKinds
    <3> QED  BY <1>3, <2>1, <3>1, <3>4 DEF Program
  <2>2. CASE got # "id"
    <3>1. PICK p : p = <<"complete", "clear">>
      OBVIOUS
    <3>2. Len(p) = 2 /\ p[1] = "complete" /\ p[2] = "clear"
      BY <3>1
    <3>3. Has(p, "complete") /\ Has(p, "clear")
      BY <3>2 DEF Has
    <3>4. Answers("commit", got, p)
      BY <2>2, <3>2, <3>3 DEF Answers, RefKinds
    <3> QED  BY <1>3, <2>2, <3>1, <3>4 DEF Program
  <2> QED  BY <2>1, <2>2
<1>4. CASE kind = "load"
  <2>1. CASE got = "id"
    <3>1. PICK p : p = <<"complete", "owner", "access", "completeId">>
      OBVIOUS
    <3>2. Len(p) = 4 /\ p[1] = "complete" /\ p[2] = "owner" /\ p[3] = "access" /\ p[4] = "completeId"
      BY <3>1
    <3>3. Has(p, "complete")
      BY <3>2 DEF Has
    <3>4. Answers("load", "id", p)
      BY <3>2, <3>3 DEF Answers, RefKinds
    <3> QED  BY <1>4, <2>1, <3>1, <3>4 DEF Program
  <2>2. CASE got # "id"
    <3>1. PICK p : p = <<>>
      OBVIOUS
    <3>2. Len(p) = 0
      BY <3>1
    <3>4. Answers("load", got, p)
      BY <2>2, <3>2 DEF Answers, RefKinds
    <3> QED  BY <1>4, <2>2, <3>1, <3>4 DEF Program
  <2> QED  BY <2>1, <2>2
<1>5. CASE kind = "rmi"
  <2>1. CASE got = "id"
    <3>1. PICK p : p = <<"complete", "dropAccess", "dropRow", "clear">>
      OBVIOUS
    <3>2. Len(p) = 4 /\ p[1] = "complete" /\ p[2] = "dropAccess" /\ p[3] = "dropRow" /\ p[4] = "clear"
      BY <3>1
    <3>3. Has(p, "complete") /\ Has(p, "clear")
      BY <3>2 DEF Has
    <3>4. Answers("rmi", "id", p)
      BY <3>2, <3>3 DEF Answers, RefKinds
    <3> QED  BY <1>5, <2>1, <3>1, <3>4 DEF Program
  <2>2. CASE got # "id"
    <3>1. PICK p : p = <<"clear">>
      OBVIOUS
    <3>2. Len(p) = 1 /\ p[1] = "clear"
      BY <3>1
    <3>3. Has(p, "clear")
      BY <3>2 DEF Has
    <3>4. Answers("rmi", got, p)
      BY <2>2, <3>2, <3>3 DEF Answers, RefKinds
    <3> QED  BY <1>5, <2>2, <3>1, <3>4 DEF Program
  <2> QED  BY <2>1, <2>2
<1>6. CASE kind = "create"
  <2>1. CASE got = "id"
    <3>1. PICK p : p = <<"register", "clear">>
      OBVIOUS
    <3>2. Len(p) = 2 /\ p[1] = "register" /\ p[2] = "clear"
      BY <3>1
    <3>3. Has(p, "register") /\ Has(p, "clear")
      BY <3>2 DEF Has
    <3>4. Answers("create", "id", p)
      BY <3>2, <3>3 DEF Answers, RefKinds
    <3> QED  BY <1>6, <2>1, <3>1, <3>4 DEF Program
  <2>2. CASE got # "id"
    <3>1. PICK p : p = <<"clear">>
      OBVIOUS
    <3>2. Len(p) = 1 /\ p[1] = "clear"
      BY <3>1
    <3>3. Has(p, "clear")
      BY <3>2 DEF Has
    <3>4. Answers("create", got, p)
      BY <2>2, <3>2, <3>3 DEF Answers, RefKinds
    <3> QED  BY <1>6, <2>2, <3>1, <3>4 DEF Program
  <2> QED  BY <2>1, <2>2
<1>7. CASE kind = "remove"
  <2>1. CASE got = "id"
    <3>1. PICK p : p = <<"complete", "forget">>
      OBVIOUS
    <3>2. Len(p) = 2 /\ p[1] = "complete" /\ p[2] = "forget"
      BY <3>1
    <3>3. Has(p, "complete")
      BY <3>2 DEF Has
    <3>4. Answers("remove", "id", p)
      BY <3>2, <3>3 DEF Answers, RefKinds
    <3> QED  BY <1>7, <2>1, <3>1, <3>4 DEF Program
  <2>2. CASE got # "id"
    <3>1. PICK p : p = <<>>
      OBVIOUS
    <3>2. Len(p) = 0
      BY <3>1
    <3>4. Answers("remove", got, p)
      BY <2>2, <3>2 DEF Answers, RefKinds
    <3> QED  BY <1>7, <2>2, <3>1, <3>4 DEF Program
  <2> QED  BY <2>1, <2>2
<1>8. CASE kind = "buildkit"
  <2>1. CASE got = "id"
    <3>1. PICK p : p = <<"track">>
      OBVIOUS
    <3>2. Len(p) = 1 /\ p[1] = "track"
      BY <3>1
    <3>3. Has(p, "track")
      BY <3>2 DEF Has
    <3>4. ~Has(p, "clear")
      BY <3>2 DEF Has
    <3>5. Answers("buildkit", "id", p)
      BY <3>2, <3>3, <3>4 DEF Answers
    <3> QED  BY <1>8, <2>1, <3>1, <3>5 DEF Program
  <2>2. CASE got # "id"
    <3>1. PICK p : p = <<"track">>
      OBVIOUS
    <3>2. Len(p) = 1 /\ p[1] = "track"
      BY <3>1
    <3>3. Has(p, "track")
      BY <3>2 DEF Has
    <3>4. ~Has(p, "clear")
      BY <3>2 DEF Has
    <3>5. Answers("buildkit", got, p)
      BY <2>2, <3>2, <3>3, <3>4 DEF Answers
    <3> QED  BY <1>8, <2>2, <3>1, <3>5 DEF Program
  <2> QED  BY <2>1, <2>2
<1> QED  BY <1>1, <1>2, <1>3, <1>4, <1>5, <1>6, <1>7, <1>8 DEF AllKinds, MakingKinds

\* After the daemon's answer.
LEMMA Answered ==
    ASSUME NEW kind \in AllKinds, NEW got \in Gots, NEW s \in Seq(StepsOf(kind)), s # <<>>,
           Head(s) = "daemon", Ordered(kind, s), NEW t, t = Tail(s) \o Program(kind, got)
    PROVE  /\ Ordered(kind, t) /\ ~Waiting(t)
           /\ Has(s, "headers") <=> Has(t, "headers")
           /\ kind \in RefKinds /\ (kind = "pull" => got # "none") => (Has(t, "clear") => Has(t, "complete"))
           /\ kind = "buildkit" => Has(t, "track")
           /\ got = "id" /\ kind \in {"rmi", "remove"} => Has(t, "complete")
           /\ got = "id" /\ kind = "create" => Has(t, "register")
<1>1. PICK p \in Seq(StepsOf(kind)) : p = Program(kind, got) /\ Answers(kind, got, p)
  BY ProgramFacts, ProgramOrder
<1>2. PICK r \in Seq(StepsOf(kind)) : r = Tail(s)
  BY TailFacts
<1>3. s \in Seq(Steps)
  BY StepsOfKind
<1>4. \A i \in 1..Len(r) : r[i] = "headers"
  BY <1>2, <1>3, OrderedTail
<1>5. Len(r) \in Nat /\ Len(p) \in Nat /\ t = r \o p /\ Len(t) = Len(r) + Len(p)
  BY <1>1, <1>2
<1>6. /\ \A i \in 1..Len(r) : t[i] = "headers"
      /\ \A i \in 1..Len(p) : t[Len(r) + i] = p[i]
  BY <1>1, <1>2, <1>4, <1>5
<1>7. \A i \in 1..Len(t) : i \in 1..Len(r) \/ (i - Len(r) \in 1..Len(p) /\ t[i] = p[i - Len(r)])
  BY <1>5, <1>6
<1>8. ASSUME NEW h, Has(p, h) PROVE Has(t, h)
  <2>1. PICK i \in 1..Len(p) : p[i] = h
    BY <1>8 DEF Has
  <2>2. Len(r) + i \in 1..Len(t) /\ t[Len(r) + i] = h
    BY <1>5, <1>6, <2>1
  <2> QED  BY <2>2 DEF Has
<1>9. ASSUME NEW h, Has(t, h), h # "headers" PROVE Has(p, h)
  BY <1>6, <1>7, <1>9 DEF Has
<1>10. ~Waiting(t)
  <2> SUFFICES ASSUME NEW i \in 1..Len(t), t[i] = "daemon" PROVE FALSE
    BY DEF Waiting
  <2>1. \A j \in 1..Len(p) : p[j] # "daemon"
    BY <1>1 DEF Answers
  <2>2. \A j \in 1..Len(r) : t[j] # "daemon"
    BY <1>6
  <2>3. i - Len(r) \in 1..Len(p) /\ t[i] = p[i - Len(r)]
    BY <1>7, <2>2
  <2> QED  BY <2>1, <2>3
<1>11. \A i \in 1..Len(t) : t[i] = "clear" => i = Len(t)
  <2> SUFFICES ASSUME NEW i \in 1..Len(t), t[i] = "clear" PROVE i = Len(t)
    OBVIOUS
  <2>1. i - Len(r) \in 1..Len(p) /\ p[i - Len(r)] = "clear"
    BY <1>6, <1>7
  <2>2. i - Len(r) = Len(p)
    BY <1>1, <2>1 DEF Answers
  <2> QED  BY <1>5, <2>2
<1>12. kind \in {"rmi", "remove"} => \A i \in 1..Len(t) : t[i] = "complete" => i = 1
  <2> SUFFICES ASSUME kind \in {"rmi", "remove"} PROVE \A i \in 1..Len(t) : t[i] = "complete" => i = 1
    OBVIOUS
  <2>1. "headers" \notin StepsOf(kind)
    BY DEF StepsOf
  <2>2. Len(r) = 0
    <3> SUFFICES ASSUME Len(r) # 0 PROVE FALSE
      OBVIOUS
    <3>1. 1 \in 1..Len(r) /\ r[1] \in StepsOf(kind)
      BY <1>5
    <3> QED  BY <1>4, <2>1, <3>1
  <2> QED  BY <1>1, <1>5, <1>7, <2>2 DEF Answers
<1>13. Ordered(kind, t)
  BY <1>10, <1>11, <1>12 DEF Ordered, Waiting
<1>14. Has(s, "headers") <=> Has(t, "headers")
  <2>1. Has(s, "headers") <=> Has(r, "headers")
    BY <1>2, <1>3, HasTail
  <2>2. Has(r, "headers") => Has(t, "headers")
    <3>1. ASSUME NEW i \in 1..Len(r) PROVE i \in 1..Len(t) /\ t[i] = "headers"
      BY <1>5, <1>6
    <3> QED  BY <3>1 DEF Has
  <2>3. Has(t, "headers") => Has(r, "headers")
    <3>1. \A i \in 1..Len(p) : p[i] # "headers"
      BY <1>1 DEF Answers
    <3> QED  BY <1>4, <1>7, <3>1 DEF Has
  <2> QED  BY <2>1, <2>2, <2>3
<1> QED  BY <1>1, <1>8, <1>9, <1>10, <1>13, <1>14 DEF Answers

\* the handlers' steps that only advance
Plain(n, h) == AtStep(n, h) /\ h \notin {"daemon", "track", "headers"} /\ Advance(n)

LEMMA OpCases ==
    ASSUME NEW n \in DOMAIN ops, OpStep(n)
    PROVE  \/ DaemonActs(n) \/ DaemonFails(n) \/ BuildHeaders(n)
           \/ TrackBuildKitImages(n) \/ TrackFails(n)
           \/ \E h \in Steps : Plain(n, h)
  BY DEF OpStep, Plain, OwnImage, AccessImage, CompleteId, Complete, Clear, DropImage,
         RegisterName, ForgetName, Advance, Steps

\* An operation's own entries stay the same while it goes on.
LEMMA GoesFixed ==
    ASSUME OpsSound, NEW n \in DOMAIN ops, NEW s, NEW E, Goes(n, s, E)
    PROVE  /\ DOMAIN ops' = DOMAIN ops /\ \A k \in DOMAIN ops \ {n} : ops'[k] = ops[k]
           /\ Names(ops[n]) => Names(ops'[n])
           /\ Keeps(ops[n], s, E) => Keeps(ops'[n], ops'[n].todo, ops'[n].temporary)
           /\ Pending(ops'[n]) = Pending(ops[n]) /\ Finished(ops'[n]) = Finished(ops[n])
           /\ \A i : Pruned(ops'[n], i) = Pruned(ops[n], i)
           /\ Info(ops'[n]) = Info(ops[n]) /\ SudoInfo(ops'[n]) = SudoInfo(ops[n])
           /\ RowFor(ops'[n]) = RowFor(ops[n])
           /\ \A e : Fits(ops[n], e) => Fits(ops'[n], e)
<1>1. DOMAIN ops' = DOMAIN ops /\ \A k \in DOMAIN ops \ {n} : ops'[k] = ops[k]
  BY DEF Goes, OpsSound
<1>2. Names(ops[n]) => Names(ops'[n])
  BY DEF Goes, Names
<1>3. Info(ops'[n]) = Info(ops[n]) /\ SudoInfo(ops'[n]) = SudoInfo(ops[n])
      /\ RowFor(ops'[n]) = RowFor(ops[n])
  BY DEF Goes, Info, SudoInfo, RowFor
<1>4. Pending(ops'[n]) = Pending(ops[n]) /\ Finished(ops'[n]) = Finished(ops[n])
      /\ \A i : Pruned(ops'[n], i) = Pruned(ops[n], i)
  BY <1>3 DEF Goes, Pending, Finished, Pruned
<1>5. Keeps(ops[n], s, E) => Keeps(ops'[n], s, E)
  BY <1>3, <1>4 DEF Goes, Keeps
<1>6. ops'[n].todo = s /\ ops'[n].temporary = E
  BY DEF Goes
<1>7. \A e : Fits(ops[n], e) => Fits(ops'[n], e)
  BY DEF Goes, Fits
<1> QED  BY <1>1, <1>2, <1>3, <1>4, <1>5, <1>6, <1>7

LEMMA OpsShapedKept ==
    ASSUME OpsSound, OpsShaped, NEW n \in DOMAIN ops, NEW s, NEW E, Goes(n, s, E),
           Ordered(ops[n].kind, s), Keeps(ops[n], s, E)
    PROVE  OpsShaped'
<1>1. Shaped(ops[n])
  BY DEF OpsShaped
<1>2. Shaped(ops'[n])
  BY <1>1, GoesFixed DEF Shaped, Goes
<1> QED  BY <1>2, GoesFixed DEF OpsShaped

\* A plan, typed.
LEMMA PlanOf ==
    ASSUME OpsSound, OpsShaped, NEW n \in DOMAIN ops
    PROVE  /\ ops[n].todo \in Seq(StepsOf(ops[n].kind)) /\ ops[n].todo \in Seq(Steps)
           /\ ops[n].kind \in AllKinds /\ ops[n] \in Op /\ Asked(ops[n])
           /\ Ordered(ops[n].kind, ops[n].todo) /\ Names(ops[n])
           /\ Keeps(ops[n], ops[n].todo, ops[n].temporary)
<1>1. ops[n] \in Op /\ Planned(ops[n]) /\ Asked(ops[n]) /\ Shaped(ops[n])
  BY DEF OpsSound, OpSound, OpsShaped
<1> QED  BY <1>1 DEF Op, Planned, Shaped

LEMMA AnswerShapes ==
    ASSUME OpsSound, OpsShaped, NEW n \in DOMAIN ops, NEW got \in Gots,
           Answering(n, got)
    PROVE  /\ OpsShaped'
           /\ \E t : /\ Goes(n, t, ops[n].temporary) /\ ~Waiting(t)
                     /\ ops[n].kind \in RefKinds /\ (ops[n].kind = "pull" => got # "none") => (Has(t, "clear") => Has(t, "complete"))
                     /\ got = "id" /\ ops[n].kind \in {"rmi", "remove"} => Has(t, "complete")
                     /\ got = "id" /\ ops[n].kind = "create" => Has(t, "register")
<1>1. AtStep(n, "daemon")
  BY DEF Answering, DaemonSucceeds, DaemonFails
<1>2. PICK t : t = Tail(ops[n].todo) \o Program(ops[n].kind, got)
  OBVIOUS
<1>3. Goes(n, t, ops[n].temporary)
  BY <1>1, <1>2, AnswerGoes, DaemonGoes
<1>4. PICK s : s = ops[n].todo
  OBVIOUS
<1>5. /\ Ordered(ops[n].kind, t) /\ ~Waiting(t)
      /\ Has(s, "headers") <=> Has(t, "headers")
      /\ ops[n].kind \in RefKinds /\ (ops[n].kind = "pull" => got # "none") => (Has(t, "clear") => Has(t, "complete"))
      /\ got = "id" /\ ops[n].kind \in {"rmi", "remove"} => Has(t, "complete")
      /\ got = "id" /\ ops[n].kind = "create" => Has(t, "register")
  <2>1. s # <<>> /\ Head(s) = "daemon" /\ t = Tail(s) \o Program(ops[n].kind, got)
    BY <1>1, <1>2, <1>4 DEF AtStep
  <2>2. /\ ops[n].kind \in AllKinds /\ s \in Seq(StepsOf(ops[n].kind))
        /\ Ordered(ops[n].kind, s)
    BY <1>4, PlanOf
  <2>3. PICK kind \in AllKinds : kind = ops[n].kind
    BY <2>2
  <2>4. s \in Seq(StepsOf(kind)) /\ Ordered(kind, s) /\ t = Tail(s) \o Program(kind, got)
    BY <2>1, <2>2, <2>3
  <2>5. /\ Ordered(kind, t) /\ ~Waiting(t)
        /\ Has(s, "headers") <=> Has(t, "headers")
        /\ kind \in RefKinds /\ (kind = "pull" => got # "none") => (Has(t, "clear") => Has(t, "complete"))
        /\ got = "id" /\ kind \in {"rmi", "remove"} => Has(t, "complete")
        /\ got = "id" /\ kind = "create" => Has(t, "register")
    BY <2>1, <2>4, Answered
  <2> QED  BY <2>3, <2>5
<1>6. Waiting(s) /\ Keeps(ops[n], s, ops[n].temporary)
  <2>1. s # <<>> /\ Head(s) = "daemon" /\ s \in Seq(Steps)
    BY <1>1, <1>4, PlanOf DEF AtStep
  <2>2. 1 \in 1..Len(s) /\ s[1] = "daemon"
    BY <2>1
  <2> QED  BY <1>4, <2>2, PlanOf DEF Waiting
<1>7. Keeps(ops[n], t, ops[n].temporary)
  BY <1>5, <1>6 DEF Keeps
<1>8. OpsShaped'
  BY <1>3, <1>5, <1>7, OpsShapedKept
<1> QED  BY <1>3, <1>5, <1>8

LEMMA PlainShapes ==
    ASSUME OpsSound, OpsShaped, NEW n \in DOMAIN ops, NEW h, Plain(n, h)
    PROVE  /\ OpsShaped' /\ Goes(n, Tail(ops[n].todo), ops[n].temporary)
           /\ ~Waiting(ops[n].todo) /\ h \in StepsOf(ops[n].kind)
<1>1. Goes(n, Tail(ops[n].todo), ops[n].temporary) /\ h \in StepsOf(ops[n].kind)
  BY Advanced DEF Plain
<1>2. PICK s \in Seq(Steps) : s = ops[n].todo
  BY PlanOf
<1>3. s # <<>> /\ Head(s) = h /\ h \notin {"daemon", "track", "headers"}
  BY <1>2 DEF Plain, AtStep
<1>4. Ordered(ops[n].kind, Tail(s)) /\ ~Waiting(s)
  BY <1>2, <1>3, PlanOf, OrderedTail
<1>5. /\ Has(s, "headers") => Has(Tail(s), "headers")
      /\ ~Waiting(Tail(s))
      /\ Has(Tail(s), "track") => Has(s, "track")
  BY <1>3, <1>4, HasTail DEF Waiting, Has
<1>6. Keeps(ops[n], s, ops[n].temporary)
  BY <1>2, PlanOf
<1>7. Keeps(ops[n], Tail(s), ops[n].temporary)
  BY <1>4, <1>5, <1>6 DEF Keeps
<1> QED  BY <1>1, <1>2, <1>4, <1>7, OpsShapedKept

LEMMA HeadersShapes ==
    ASSUME OpsSound, OpsShaped, NEW n \in DOMAIN ops, BuildHeaders(n)
    PROVE  OpsShaped'
<1>1. Goes(n, Tail(ops[n].todo), Headed(ops[n])) /\ ops[n].kind = "build"
  BY HeadersGoes
<1>2. Ordered(ops[n].kind, Tail(ops[n].todo))
  BY PlanOf, OrderedTail DEF BuildHeaders, AtStep
<1>3. Headed(ops[n]) = IF ops[n].ref = NoRef THEN {} ELSE {Pending(ops[n])}
  BY <1>1 DEF Headed, Pending, Info
<1>4. Keeps(ops[n], Tail(ops[n].todo), Headed(ops[n]))
  BY <1>1, <1>3 DEF Keeps, RefKinds
<1> QED  BY <1>1, <1>2, <1>4, OpsShapedKept

LEMMA TrackShapes ==
    ASSUME OpsSound, OpsShaped, NEW n \in DOMAIN ops, TrackBuildKitImages(n) \/ TrackFails(n)
    PROVE  OpsShaped' /\ ~Waiting(ops[n].todo)
<1>0. ops[n].kind = "buildkit" /\ AtStep(n, "track")
  BY TrackGoes DEF TrackBuildKitImages, TrackFails
<1>1. PICK s \in {<<>>, <<"complete", "clear">>}, E \in SUBSET ops[n].temporary : Goes(n, s, E)
  BY TrackGoes
<1>2. Ordered("buildkit", s) /\ ~Waiting(s) /\ ~Has(s, "track")
  <2>1. CASE s = <<>>
    <3>1. Len(s) = 0
      BY <2>1
    <3> QED  BY <3>1 DEF Ordered, Waiting, Has
  <2>2. CASE s = <<"complete", "clear">>
    <3>1. Len(s) = 2 /\ s[1] = "complete" /\ s[2] = "clear"
      BY <2>2
    <3> QED  BY <3>1 DEF Ordered, Waiting, Has
  <2> QED  BY <2>1, <2>2
<1>3. Keeps(ops[n], s, E)
  <2>1. Keeps(ops[n], ops[n].todo, ops[n].temporary)
    BY PlanOf
  <2>2. ops[n].temporary = {} \/ (ops[n].ref # NoRef /\ ops[n].temporary = {Pending(ops[n])})
    BY <1>0, <2>1 DEF Keeps, RefKinds
  <2>3. E = {} \/ (ops[n].ref # NoRef /\ E = {Pending(ops[n])})
    BY <2>2
  <2> QED  BY <1>0, <1>2, <2>3 DEF Keeps
<1>4. ~Waiting(ops[n].todo)
  BY <1>0, PlanOf, OrderedTail DEF AtStep
<1> QED  BY <1>0, <1>1, <1>2, <1>3, <1>4, OpsShapedKept

\* A step of an operation leaves the others alone, it is not over before the
\* step, and what waits for the daemon after it did so before.
LEMMA OpGoes ==
    ASSUME OpsSound, OpsShaped, NEW n \in DOMAIN ops, OpStep(n)
    PROVE  /\ OpsShaped'
           /\ ops[n].todo # <<>>
           /\ \E s, E : Goes(n, s, E) /\ (Waiting(s) => Waiting(ops[n].todo))
<1>1. CASE DaemonActs(n) \/ DaemonFails(n)
  <2>1. PICK got \in Gots : Answering(n, got)
    BY <1>1, DaemonAnswers
  <2>2. ops[n].todo # <<>>
    BY <2>1 DEF Answering, DaemonSucceeds, DaemonFails, AtStep
  <2> QED  BY <2>1, <2>2, AnswerShapes
<1>2. CASE BuildHeaders(n)
  <2>1. ops[n].todo # <<>> /\ ops[n].todo \in Seq(Steps)
    BY <1>2, PlanOf DEF BuildHeaders, AtStep
  <2>2. Waiting(Tail(ops[n].todo)) => Waiting(ops[n].todo)
    BY <2>1, HasTail DEF Waiting, Has
  <2> QED  BY <1>2, <2>1, <2>2, HeadersShapes, HeadersGoes
<1>3. CASE TrackBuildKitImages(n) \/ TrackFails(n)
  <2>1. PICK s \in {<<>>, <<"complete", "clear">>}, E \in SUBSET ops[n].temporary : Goes(n, s, E)
    BY <1>3, TrackGoes
  <2>2. ~Waiting(s)
    <3>1. CASE s = <<>>
      <4>1. Len(s) = 0
        BY <3>1
      <4> QED  BY <4>1 DEF Waiting
    <3>2. CASE s = <<"complete", "clear">>
      <4>1. Len(s) = 2 /\ s[1] = "complete" /\ s[2] = "clear"
        BY <3>2
      <4> QED  BY <4>1 DEF Waiting
    <3> QED  BY <3>1, <3>2
  <2> QED  BY <1>3, <2>1, <2>2, TrackShapes DEF TrackBuildKitImages, TrackFails, AtStep
<1>4. CASE \E h \in Steps : Plain(n, h)
  <2>1. PICK h \in Steps : Plain(n, h)
    BY <1>4
  <2>2. ops[n].todo # <<>> /\ ops[n].todo \in Seq(Steps)
    BY <2>1, PlanOf DEF Plain, AtStep
  <2>3. Waiting(Tail(ops[n].todo)) => Waiting(ops[n].todo)
    BY <2>2, HasTail DEF Waiting, Has
  <2> QED  BY <2>1, <2>2, <2>3, PlainShapes
<1> QED  BY <1>1, <1>2, <1>3, <1>4, OpCases

-----------------------------------------------------------------------------
(* What a step leaves alone. *)

\* the entries and the rows that are about other names than T
MapsKept(T, M, N) ==
    \A x : About(x) # {} /\ About(x) \cap T = {} => (x \in N <=> x \in M)
RowsKept(T, R, Q) == \A w : w.key \notin T => (w \in Q <=> w \in R)

\* a removed image stays removed, and its row as it is
ImagesKept(T) ==
    \A i \in Images \ T : i \notin present /\ (\A r \in Refs : tagOf[r] # i) =>
        /\ i \notin present' /\ \A r \in Refs : tagOf'[r] # i
        /\ images'[i] = images[i]

Elsewhere(T) == MapsKept(T, maps, maps') /\ RowsKept(T, rows, rows') /\ ImagesKept(T)

LEMMA StoreKept ==
    ASSUME NEW T, NEW M, NEW E, \A x \in E : About(x) \subseteq T
    PROVE  MapsKept(T, M, Store(M, E))
<1> SUFFICES ASSUME NEW x, About(x) # {}, About(x) \cap T = {}
             PROVE  x \in Store(M, E) <=> x \in M
  BY DEF MapsKept
<1>1. x \notin E
  OBVIOUS
<1>2. ASSUME NEW e \in E, x.map = e.map, x.key = e.key PROVE FALSE
  <2>1. About(x) = About(e)
    BY <1>2 DEF About
  <2> QED  BY <2>1
<1> QED  BY <1>1, <1>2 DEF Store

LEMMA DeleteKept ==
    ASSUME NEW T, NEW M, NEW E, \A x \in E : About(x) \subseteq T
    PROVE  MapsKept(T, M, CompareAndDelete(M, E))
  BY DEF MapsKept, CompareAndDelete

\* an operation's entries are about its names
LEMMA OwnEntries ==
    ASSUME OpsSound, OpsShaped, NEW n \in DOMAIN ops
    PROVE  /\ ops[n].ref # NoRef =>
                  /\ About(Pending(ops[n])) = {ops[n].ref.repo}
                  /\ About(Finished(ops[n])) = {ops[n].ref.repo}
                  /\ ops[n].ref.repo \in ops[n].touches
                  /\ ops[n].key \notin Things /\ ops[n].key.repo = ops[n].ref.repo
                  /\ ops[n].key \in Keys /\ ops[n].ref \in Refs
                  /\ Pending(ops[n]) \in Entries /\ Finished(ops[n]) \in Entries
           /\ \A info : About(Pruned(ops[n], info)) = {ops[n].thing}
           /\ Pruned(ops[n], Info(ops[n])) \in Entries
           /\ ops[n].thing \in ops[n].touches
           /\ \A x \in ops[n].temporary : About(x) # {} /\ About(x) \subseteq ops[n].touches
<1>1. /\ ops[n] \in Op /\ Asked(ops[n]) /\ Names(ops[n])
      /\ Keeps(ops[n], ops[n].todo, ops[n].temporary) /\ ops[n].kind \in AllKinds
  BY PlanOf
<1>2. ops[n].ref \in Refs \cup {NoRef} /\ ops[n].thing \in Things /\ ops[n].id \in Callers
      /\ Things \subseteq Keys
  BY <1>1 DEF Op, Things, Keys
<1>3. ASSUME ops[n].ref # NoRef
      PROVE  /\ ops[n].ref \in Refs /\ ops[n].key \in Keys
             /\ ops[n].key \notin Things /\ ops[n].key.repo = ops[n].ref.repo
             /\ ops[n].ref.repo \in ops[n].touches
  <2>1. ops[n].key \in {ops[n].ref, Bare(ops[n].ref)} /\ ops[n].ref \in Refs
    BY <1>1, <1>2, <1>3 DEF Names
  <2>2. ops[n].key \in RefKeys
    BY <2>1 DEF RefKeys
  <2>3. ops[n].key.repo = ops[n].ref.repo
    BY <2>1 DEF Bare
  <2> QED  BY <1>1, <1>3, <2>1, <2>2, <2>3, KeysAssumption DEF Things, Keys, Names
<1>4. ASSUME ops[n].ref # NoRef
      PROVE  /\ About(Pending(ops[n])) = {ops[n].ref.repo}
             /\ About(Finished(ops[n])) = {ops[n].ref.repo}
  BY <1>3, <1>4 DEF About, Pending, Finished, Entry
<1>5. ASSUME ops[n].ref # NoRef
      PROVE  Pending(ops[n]) \in Entries /\ Finished(ops[n]) \in Entries
  BY <1>2, <1>3, <1>5, EntryTyped DEF Pending, Finished, Info, MapNames
<1>6. \A info : About(Pruned(ops[n], info)) = {ops[n].thing}
  BY <1>2 DEF About, Pruned, Entry
<1>7. Pruned(ops[n], Info(ops[n])) \in Entries
  BY <1>2, EntryTyped DEF Pruned, Info, MapNames
<1>8. ASSUME NEW x \in ops[n].temporary PROVE About(x) # {} /\ About(x) \subseteq ops[n].touches
  <2>0. Registered(ops[n])
    BY DEF OpsSound, OpSound
  <2>1. CASE ops[n].kind \in RefKinds
    <3>1. ops[n].ref # NoRef /\ x = Pending(ops[n])
      BY <1>1, <2>1 DEF Keeps
    <3> QED  BY <1>3, <1>4, <3>1
  <2>2. CASE ops[n].kind \in {"create", "rmi"}
    <3>1. x = Pruned(ops[n], Info(ops[n]))
      BY <1>1, <2>2 DEF Keeps
    <3> QED  BY <1>1, <1>6, <3>1 DEF Names
  <2>3. CASE ops[n].kind \in {"load", "remove"}
    BY <2>0, <2>3 DEF Registered
  <2> QED  BY <1>1, <2>1, <2>2, <2>3 DEF AllKinds, MakingKinds, RefKinds
<1> QED  BY <1>1, <1>3, <1>4, <1>5, <1>6, <1>7, <1>8 DEF Names

LEMMA CompletedAbout ==
    ASSUME OpsSound, OpsShaped, NEW n \in DOMAIN ops, AtStep(n, "complete"),
           NEW x \in Completed(ops[n])
    PROVE  About(x) \subseteq ops[n].touches
<1> DEFINE o == ops[n]
<1>0. o \in Op /\ o.kind \in AllKinds /\ Asked(o) /\ Names(o) /\ Keeps(o, o.todo, o.temporary)
  BY PlanOf
<1>1. o.kind # "create"
  <2>1. "complete" \in StepsOf(o.kind)
    BY StepKind
  <2> QED  BY <2>1 DEF StepsOf
<1>2. /\ o.ref # NoRef => /\ o.key \notin Things /\ o.key.repo = o.ref.repo
                          /\ o.ref.repo \in o.touches
                          /\ About(Finished(o)) = {o.ref.repo}
      /\ o.thing \in o.touches /\ o.thing \in Things
  BY <1>0, OwnEntries DEF Op
<1>3. CASE o.kind = "rmi"
  <2>1. x \in RemovedImageEntries(o)
    BY <1>3 DEF Completed
  <2>2. PICK k \in {o.thing} \cup o.untagged : x.map = "completedPruneOwner" /\ x.key = k
    BY <2>1 DEF RemovedImageEntries, Entry
  <2>3. k \in Refs => k \notin Things
    BY KeysAssumption DEF RefKeys, Things
  <2>4. k = o.thing \/ k \in Refs
    BY <1>0 DEF Op
  <2> QED  BY <1>2, <2>2, <2>3, <2>4 DEF About
<1>4. CASE o.kind = "remove"
  <2>1. x \in RemovedNameEntries(o)
    BY <1>4 DEF Completed
  <2>2. x.key \in {o.thing, NoRef} /\ x.map = "completedPruneOwner"
    BY <1>0, <1>4, <2>1 DEF RemovedNameEntries, Entry, Asked
  <2>3. NoRef \notin Things
    BY KeysAssumption DEF Things, Keys
  <2> QED  BY <1>2, <2>2, <2>3 DEF About
<1>5. CASE o.kind = "buildkit"
  <2>1. PICK e \in o.temporary : x = [e EXCEPT !.map = "completedBuildOwner"]
    BY <1>5 DEF Completed
  <2>2. o.ref # NoRef /\ e = Pending(o)
    BY <1>0, <1>5, <2>1 DEF Keeps, RefKinds
  <2>3. x = Finished(o)
    BY <1>5, <2>1, <2>2 DEF Pending, Finished, Entry
  <2> QED  BY <1>2, <2>2, <2>3
<1>6. CASE o.kind \in {"pull", "build", "commit", "load"}
  <2>1. o.ref # NoRef /\ x.key = o.key /\ x.map # "completedPruneOwner"
    BY <1>0, <1>6 DEF Completed, Entry, Names
  <2> QED  BY <1>2, <2>1 DEF About
<1> QED  BY <1>0, <1>1, <1>3, <1>4, <1>5, <1>6 DEF AllKinds, MakingKinds

LEMMA OpMapsKept ==
    ASSUME OpsSound, OpsShaped, NEW n \in DOMAIN ops, OpStep(n)
    PROVE  MapsKept(ops[n].touches, maps, maps')
<1>1. CASE Complete(n)
  BY <1>1, CompletedAbout, StoreKept DEF Complete, Arm
<1>2. CASE CompleteId(n)
  <2>1. PICK E : E = {Entry("completedBuildOwner", ops[n].thing, pruneOwnerInfo(ops[n].id))}
    OBVIOUS
  <2>2. \A x \in E : About(x) \subseteq ops[n].touches
    <3>1. ops[n].thing \in Things /\ ops[n].thing \in ops[n].touches
      BY OwnEntries, PlanOf DEF Op
    <3> QED  BY <2>1, <3>1 DEF About, Entry
  <2> QED  BY <1>2, <2>1, <2>2, StoreKept DEF CompleteId, Arm
<1>3. CASE BuildHeaders(n)
  <2>1. ops[n].kind = "build" /\ maps' = Store(maps, Headed(ops[n]))
    BY <1>3, HeadersGoes
  <2>2. \A x \in Headed(ops[n]) : ops[n].ref # NoRef /\ x = Pending(ops[n])
    BY <2>1 DEF Headed, Pending, Info
  <2>3. \A x \in Headed(ops[n]) : About(x) \subseteq ops[n].touches
    BY <2>2, OwnEntries
  <2> QED  BY <2>1, <2>3, StoreKept
<1>4. CASE Clear(n)
  BY <1>4, OwnEntries, DeleteKept DEF Clear, Cleared
<1>5. CASE maps' = maps
  BY <1>5 DEF MapsKept
<1> QED  BY <1>1, <1>2, <1>3, <1>4, <1>5
         DEF OpStep, DaemonActs, DaemonSucceeds, DaemonFails, OwnImage, AccessImage, DropImage, RegisterName,
             ForgetName, TrackBuildKitImages, TrackFails

LEMMA OpRowsKept ==
    ASSUME OpsSound, OpsShaped, NEW n \in DOMAIN ops, OpStep(n)
    PROVE  RowsKept(ops[n].touches, rows, rows')
<1>1. ops[n].thing \in ops[n].touches
  BY OwnEntries
<1>2. CASE rows' = rows
  BY <1>2 DEF RowsKept
<1>3. CASE RegisterName(n)
  <2>1. PICK w : w = [key |-> ops[n].thing, uid |-> ops[n].id.uid, sudo |-> IsSudoCommand(ops[n].id)]
    OBVIOUS
  <2>2. w.key = ops[n].thing /\ rows' = {v \in rows : v.key # ops[n].thing} \cup {w}
    BY <1>3, <2>1 DEF RegisterName, Row
  <2> QED  BY <1>1, <2>2 DEF RowsKept
<1>4. CASE ForgetName(n)
  BY <1>1, <1>4 DEF ForgetName, Row, RowsKept
<1> QED  BY <1>2, <1>3, <1>4
         DEF OpStep, DaemonActs, DaemonSucceeds, DaemonFails, BuildHeaders, OwnImage, AccessImage, CompleteId,
             Complete, Clear, DropImage, TrackBuildKitImages, TrackFails

LEMMA OpImagesKept ==
    ASSUME IInv, OpsShaped, NEW n \in DOMAIN ops, OpStep(n)
    PROVE  ImagesKept(ops[n].touches)
<1>0. OpsSound /\ TablesTypeOK /\ DaemonTyped
  BY DEF IInv
<1> SUFFICES ASSUME NEW i \in Images, i # ops[n].thing,
                    i \notin present, \A r \in Refs : tagOf[r] # i
             PROVE  /\ i \notin present' /\ \A r \in Refs : tagOf'[r] # i
                    /\ images'[i] = images[i]
  BY <1>0, OwnEntries DEF ImagesKept
<1>1. CASE UNCHANGED <<images, daemonVars>>
  BY <1>1 DEF daemonVars
<1>2. CASE DaemonActs(n)
  <2>1. i \notin present' /\ images' = images
    BY <1>2 DEF DaemonActs, DaemonSucceeds, tableVars
  <2>2. ASSUME NEW r \in Refs PROVE tagOf'[r] # i
    <3>1. \/ tagOf' = tagOf
          \/ tagOf' = [tagOf EXCEPT ![ops[n].ref] = ops[n].thing]
          \/ tagOf' = [q \in Refs |-> IF tagOf[q] = ops[n].thing THEN NoImage ELSE tagOf[q]]
      BY <1>2 DEF DaemonActs, DaemonSucceeds
    <3>2. NoImage # i
      BY KeysAssumption
    <3> QED  BY <1>0, <3>1, <3>2 DEF DaemonTyped
  <2> QED  BY <2>1, <2>2
<1>3. CASE OwnImage(n) \/ DropImage(n)
  BY <1>0, <1>3 DEF OwnImage, DropImage, InsertOwner, DeleteAccessRows, DeleteOwnerRow, daemonVars,
                    TablesTypeOK
<1>4. CASE TrackBuildKitImages(n)
  <2>1. UNCHANGED daemonVars
    BY <1>4 DEF TrackBuildKitImages
  <2>2. images'[i] = images[i]
    BY <1>4 DEF TrackBuildKitImages
  <2> QED  BY <2>1, <2>2 DEF daemonVars
<1> QED  BY <1>1, <1>2, <1>3, <1>4
         DEF OpStep, DaemonFails, BuildHeaders, AccessImage, CompleteId, UpsertAccess,
             Complete, Clear, RegisterName, ForgetName, TrackFails, tableVars

LEMMA OpElsewhere ==
    ASSUME IInv, OpsShaped, NEW n \in DOMAIN ops, OpStep(n)
    PROVE  Elsewhere(ops[n].touches)
  BY OpMapsKept, OpRowsKept, OpImagesKept DEF Elsewhere, IInv

-----------------------------------------------------------------------------
(* Operations, timers and events keep their shape. *)

\* An entry belongs to an operation that is not forgotten.
LEMMA EntryHeld ==
    ASSUME IInv, OpsShaped, TimersOwn, NEW x \in maps
    PROVE  \E n \in DOMAIN ops : Lingers(n) /\ About(x) \subseteq ops[n].touches
<1>0. OpsSound /\ TimersTyped /\ EntriesHeld
  BY DEF IInv
<1>1. CASE \E t \in timers : t.entry = x
  <2>1. PICK t \in timers : t.entry = x
    BY <1>1
  <2>2. t.op \in DOMAIN ops /\ About(x) \subseteq ops[t.op].touches
    BY <1>0, <2>1 DEF TimersOwn, TimersTyped
  <2>3. Lingers(t.op)
    BY <2>1 DEF Lingers
  <2> QED  BY <2>2, <2>3
<1>2. CASE \E n \in DOMAIN ops : ops[n].todo # <<>> /\ x \in ops[n].temporary
  BY <1>0, <1>2, OwnEntries DEF Lingers
<1>3. CASE \E n \in DOMAIN ops : ops[n].kind = "buildkit" /\ x \in Headed(ops[n])
  <2>1. PICK n \in DOMAIN ops : ops[n].kind = "buildkit" /\ x \in Headed(ops[n])
    BY <1>3
  <2>2. ops[n].ref # NoRef /\ x = Entry("pendingBuildTags", ops[n].key, pruneOwnerInfo(ops[n].id))
    BY <2>1 DEF Headed
  <2>3. x = Pending(ops[n])
    BY <2>1, <2>2 DEF Pending, Info
  <2>4. Lingers(n)
    BY <2>1, <2>2 DEF Lingers
  <2>5. About(x) \subseteq ops[n].touches
    BY <1>0, <2>2, <2>3, OwnEntries
  <2> QED  BY <2>4, <2>5
<1> QED  BY <1>0, <1>1, <1>2, <1>3 DEF EntriesHeld

LEMMA EmittedFits ==
    ASSUME OpsSound, OpsShaped, NEW n \in DOMAIN ops, NEW got, NEW e \in Emitted(n, got)
    PROVE  e.op = n /\ (e.covered => Fits(ops[n], e))
<1> DEFINE o == ops[n]
<1>0. o.kind \in AllKinds /\ Asked(o)
  BY PlanOf
<1>1. CASE o.kind \in {"pull", "build", "buildkit", "commit"}
  <2>0. \/ /\ o.ref # NoRef
           /\ e.op = n /\ e.type = "image"
           /\ e.action = (IF o.kind = "pull" THEN "pull" ELSE "tag")
           /\ e.actor = o.ref /\ e.name = Bare(o.ref)
           /\ e.uid = o.id.uid /\ e.sudo = IsSudoCommand(o.id)
        \/ e.op = n /\ e.covered = FALSE
    <3>1. CASE o.kind = "pull"
      BY <3>1 DEF Emitted, Event, pruneOwnerInfo
    <3>2. CASE o.kind = "build"
      BY <3>2 DEF Emitted, Event, pruneOwnerInfo
    <3>3. CASE o.kind = "buildkit"
      BY <3>3 DEF Emitted, Event, pruneOwnerInfo
    <3>4. CASE o.kind = "commit"
      BY <3>4 DEF Emitted, Event, pruneOwnerInfo
    <3> QED  BY <1>1, <3>1, <3>2, <3>3, <3>4
  <2> QED  BY <1>1, <2>0 DEF Fits, RefKinds
<1>2. CASE o.kind = "load"
  <2>1. e.op = n /\ e.covered = FALSE
    BY <1>2 DEF Emitted, Event
  <2> QED  BY <2>1
<1>3. CASE o.kind = "rmi"
  <2>1. e.op = n /\ e.type = "image" /\ e.action = "delete" /\ e.actor = o.thing /\ e.name = NoRef
    BY <1>3 DEF Emitted, Event
  <2> QED  BY <1>3, <2>1 DEF Fits
<1>4. CASE o.kind = "create"
  <2>0. PICK type : /\ type = IF o.thing \in Nets THEN "network" ELSE "volume"
                    /\ e = Event(n, type, "create", o.thing, NoRef, pruneOwnerInfo(o.id),
                                 type = "volume")
    BY <1>4 DEF Emitted
  <2>1. /\ e.op = n /\ e.actor = o.thing /\ e.uid = o.id.uid /\ e.sudo = IsSudoCommand(o.id)
        /\ e.type = type /\ (e.covered <=> type = "volume")
    BY <2>0 DEF Event, pruneOwnerInfo
  <2> QED  BY <1>4, <2>1 DEF Fits
<1>5. CASE o.kind = "remove"
  <2>1. PICK w \in Row(o.thing) :
            e = Event(n, IF o.thing \in Nets THEN "network" ELSE "volume", "destroy", o.thing, NoRef,
                      [uid |-> w.uid, sudo |-> w.sudo],
                      /\ (IF o.thing \in Nets THEN "network" ELSE "volume") = "network"
                      /\ w.sudo /\ o.key = o.thing)
    BY <1>5 DEF Emitted
  <2>2. /\ e.op = n /\ e.actor = o.thing /\ e.sudo = w.sudo
        /\ e.type = IF o.thing \in Nets THEN "network" ELSE "volume"
        /\ e.covered <=> /\ (IF o.thing \in Nets THEN "network" ELSE "volume") = "network"
                         /\ w.sudo /\ o.key = o.thing
    BY <2>1 DEF Event
  <2> QED  BY <1>5, <2>2 DEF Fits
<1> QED  BY <1>0, <1>1, <1>2, <1>3, <1>4, <1>5 DEF AllKinds, MakingKinds

LEMMA OpTimersOwn ==
    ASSUME IInv, OpsShaped, TimersOwn, NEW n \in DOMAIN ops, OpStep(n)
    PROVE  TimersOwn'
<1>0. OpsSound /\ TimersTyped
  BY DEF IInv
<1>1. PICK s, E : Goes(n, s, E) /\ (Waiting(s) => Waiting(ops[n].todo))
  BY <1>0, OpGoes
<1>2. \A k \in DOMAIN ops : /\ ops'[k].touches = ops[k].touches
                            /\ Waiting(ops'[k].todo) => Waiting(ops[k].todo)
  <2>1. ops'[n].touches = ops[n].touches /\ ops'[n].todo = s
    BY <1>1 DEF Goes
  <2> QED  BY <1>0, <1>1, <2>1, GoesFixed
<1>3. \A t \in timers : /\ About(t.entry) \subseteq ops'[t.op].touches
                        /\ ~Waiting(ops'[t.op].todo)
  BY <1>0, <1>2 DEF TimersOwn, TimersTyped
<1>4. CASE timers' = timers
  BY <1>3, <1>4 DEF TimersOwn
<1>5. ASSUME NEW C, \A x \in C : About(x) \subseteq ops[n].touches, Arm(n, C), ~Waiting(ops[n].todo)
      PROVE  TimersOwn'
  <2>1. timers' = timers \cup {[op |-> n, entry |-> x] : x \in C}
    BY <1>5 DEF Arm
  <2>2. ASSUME NEW x \in C
        PROVE  /\ About(x) \subseteq ops'[n].touches /\ ~Waiting(ops'[n].todo)
    BY <1>2, <1>5
  <2> QED  BY <1>3, <2>1, <2>2 DEF TimersOwn
<1>6. CASE Complete(n)
  <2>1. Plain(n, "complete")
    BY <1>6 DEF Complete, Plain
  <2>2. ~Waiting(ops[n].todo)
    BY <1>0, <2>1, PlainShapes
  <2> QED  BY <1>0, <1>5, <1>6, <2>2, CompletedAbout DEF Complete
<1>7. CASE CompleteId(n)
  <2>1. Plain(n, "completeId")
    BY <1>7 DEF CompleteId, Plain
  <2>2. ~Waiting(ops[n].todo)
    BY <1>0, <2>1, PlainShapes
  <2>3. PICK C : C = {Entry("completedBuildOwner", ops[n].thing, pruneOwnerInfo(ops[n].id))}
    OBVIOUS
  <2>4. \A x \in C : About(x) \subseteq ops[n].touches
    <3>1. ops[n].thing \in Things /\ ops[n].thing \in ops[n].touches
      BY <1>0, OwnEntries, PlanOf DEF Op
    <3> QED  BY <2>3, <3>1 DEF About, Entry
  <2> QED  BY <1>5, <1>7, <2>2, <2>3, <2>4 DEF CompleteId
<1> QED  BY <1>4, <1>6, <1>7
         DEF OpStep, DaemonActs, DaemonSucceeds, DaemonFails, BuildHeaders, OwnImage, AccessImage, Clear,
             DropImage, RegisterName, ForgetName, TrackBuildKitImages, TrackFails

LEMMA OpEventsFit ==
    ASSUME IInv, OpsShaped, EventsFit, NEW n \in DOMAIN ops, OpStep(n)
    PROVE  /\ EventsFit'
           /\ reader' = reader
           /\ DaemonActs(n) \/ events' = events
<1>0. OpsSound
  BY DEF IInv
<1>1. PICK s, E : Goes(n, s, E) /\ (Waiting(s) => Waiting(ops[n].todo))
  BY <1>0, OpGoes
<1>2. DOMAIN ops' = DOMAIN ops
      /\ \A k \in DOMAIN ops : /\ Waiting(ops'[k].todo) => Waiting(ops[k].todo)
                               /\ \A e : Fits(ops[k], e) => Fits(ops'[k], e)
  <2>1. ops'[n].todo = s
    BY <1>1 DEF Goes
  <2> QED  BY <1>0, <1>1, <2>1, GoesFixed
<1>3. ASSUME NEW e, Out(e)
      PROVE  /\ e.op \in DOMAIN ops' /\ ~Waiting(ops'[e.op].todo)
             /\ e.covered => Fits(ops'[e.op], e)
  BY <1>2, <1>3 DEF EventsFit
<1>4. reader' = reader
  BY DEF OpStep, DaemonActs, DaemonSucceeds, DaemonFails, BuildHeaders, OwnImage, AccessImage, Clear, Complete,
         CompleteId, DropImage, RegisterName, ForgetName, TrackBuildKitImages, TrackFails
<1>5. DaemonActs(n) \/ events' = events
  BY DEF OpStep, DaemonFails, BuildHeaders, OwnImage, AccessImage, Clear, Complete,
         CompleteId, DropImage, RegisterName, ForgetName, TrackBuildKitImages, TrackFails
<1>6. CASE events' = events
  BY <1>3, <1>4, <1>6 DEF EventsFit, Out
<1>7. CASE DaemonActs(n)
  <2>0. PICK got \in Gots : DaemonSucceeds(n, got)
    BY <1>7, LearntGots DEF DaemonActs
  <2>1. events' = events \cup Emitted(n, got)
    BY <2>0 DEF DaemonSucceeds
  <2>2. \E t : Goes(n, t, ops[n].temporary) /\ ~Waiting(t)
    BY <1>0, <2>0, AnswerShapes DEF Answering
  <2>3. ~Waiting(ops'[n].todo)
    BY <2>2 DEF Goes
  <2>4. ASSUME NEW e \in Emitted(n, got)
        PROVE  /\ e.op \in DOMAIN ops' /\ ~Waiting(ops'[e.op].todo)
               /\ e.covered => Fits(ops'[e.op], e)
    BY <1>0, <1>2, <2>3, <2>4, EmittedFits
  <2>5. \A e : Out(e)' => Out(e) \/ e \in Emitted(n, got)
    BY <1>4, <2>1 DEF Out
  <2> QED  BY <1>3, <1>4, <1>5, <2>4, <2>5 DEF EventsFit
<1> QED  BY <1>4, <1>5, <1>6, <1>7

\* what a request brings along
LEMMA RequestNames ==
    ASSUME NEW q \in Requests
    PROVE  /\ q.kind = "pull" => q.ref # NoRef
           /\ q.ref # NoRef => q.key \in {q.ref, Bare(q.ref)}
<1>1. \A r \in Refs : /\ r # NoRef
                      /\ Spellings(r) \subseteq {r, Bare(r)}
                      /\ parseImageRefFromURI(r) \in {r, Bare(r)}
  BY KeysAssumption DEF Spellings, parseImageRefFromURI, Keys, RefKeys
<1>2. CASE \E id \in Callers, r \in Refs, i \in Images :
               q = [kind |-> "pull", id |-> id, ref |-> r,
                    key |-> parseImageRefFromURI(r), thing |-> i]
  BY <1>1, <1>2
<1>3. CASE \E kind \in {"build", "buildkit"}, id \in Callers, r \in Refs, i \in Images :
               \E k \in Spellings(r) :
               q = [kind |-> kind, id |-> id, ref |-> r, key |-> k, thing |-> i]
  BY <1>1, <1>3
<1>4. CASE \E kind \in {"commit", "load"}, id \in Callers, r \in Refs, i \in Images :
               q = [kind |-> kind, id |-> id, ref |-> r, key |-> r, thing |-> i]
  BY <1>1, <1>4
<1>5. CASE q.kind # "pull" /\ q.ref = NoRef
  BY <1>5
<1> DEFINE Q(kind, id, ref, key, thing) ==
               [kind |-> kind, id |-> id, ref |-> ref, key |-> key, thing |-> thing]
           P == {c \in Callers : IsPrivileged(c)}
<1>7. \/ q \in {Q("pull", id, r, parseImageRefFromURI(r), i) :
                    id \in Callers, r \in Refs, i \in Images}
      \/ q \in UNION {{Q(kind, id, r, k, i) : kind \in {"build", "buildkit"}, id \in Callers,
                       k \in Spellings(r), i \in Images} : r \in Refs}
      \/ q \in {Q(kind, id, r, r, i) : kind \in {"commit", "load"}, id \in Callers,
                r \in Refs, i \in Images}
      \/ q \in {Q(kind, id, NoRef, NoRef, i) : kind \in {"build", "buildkit", "commit"},
                id \in Callers, i \in Images}
      \/ q \in {Q("rmi", id, NoRef, NoRef, i) : id \in Callers, i \in Images}
      \/ q \in {Q("create", id, NoRef, NoRef, n) : id \in P, n \in Nets \cup Vols}
      \/ q \in {Q("remove", id, NoRef, n, n) : id \in P, n \in Nets \cup Vols}
      \/ q \in {Q("remove", id, NoRef, NoRef, n) : id \in P, n \in Nets}
  BY DEF Requests
<1> QED  BY <1>2, <1>3, <1>4, <1>5, <1>7

\* The first plan of an operation.
LEMMA FirstOrdered ==
    ASSUME NEW q, NEW first \in FirstSteps(q)
    PROVE  /\ Ordered(q.kind, first) /\ Waiting(first)
           /\ q.kind = "build" => Has(first, "headers")
<1>1. CASE first = <<"daemon">> /\ q.kind # "build"
  <2>1. Len(first) = 1 /\ first[1] = "daemon"
    BY <1>1
  <2> QED  BY <1>1, <2>1 DEF Ordered, Waiting
<1>2. CASE first = <<"headers", "daemon">>
  <2>1. Len(first) = 2 /\ first[1] = "headers" /\ first[2] = "daemon"
    BY <1>2
  <2> QED  BY <2>1 DEF Ordered, Waiting, Has
<1>3. CASE first = <<"daemon", "headers">>
  <2>1. Len(first) = 2 /\ first[1] = "daemon" /\ first[2] = "headers"
    BY <1>3
  <2> QED  BY <2>1 DEF Ordered, Waiting, Has
<1> QED  BY <1>1, <1>2, <1>3 DEF FirstSteps

\* an operation that is only marked as contended keeps all its entries
LEMMA SameFixed ==
    ASSUME NEW o, NEW p, SameOp(o, p)
    PROVE  /\ Shaped(o) => Shaped(p)
           /\ Pending(p) = Pending(o) /\ Finished(p) = Finished(o)
           /\ \A i : Pruned(p, i) = Pruned(o, i)
           /\ Info(p) = Info(o) /\ SudoInfo(p) = SudoInfo(o) /\ RowFor(p) = RowFor(o)
           /\ \A e : Fits(o, e) => Fits(p, e)
<1>1. Info(p) = Info(o) /\ SudoInfo(p) = SudoInfo(o) /\ RowFor(p) = RowFor(o)
  BY DEF SameOp, Info, SudoInfo, RowFor
<1>2. Pending(p) = Pending(o) /\ Finished(p) = Finished(o)
      /\ \A i : Pruned(p, i) = Pruned(o, i)
  BY <1>1 DEF SameOp, Pending, Finished, Pruned
<1>3. Keeps(o, o.todo, o.temporary) => Keeps(p, p.todo, p.temporary)
  BY <1>1, <1>2 DEF SameOp, Keeps
<1>4. \A e : Fits(o, e) => Fits(p, e)
  BY DEF SameOp, Fits
<1>5. Names(o) => Names(p)
  BY DEF SameOp, Names
<1> QED  BY <1>1, <1>2, <1>3, <1>4, <1>5 DEF SameOp, Shaped

LEMMA NewShaped ==
    ASSUME NEW q \in Requests, NEW first \in FirstSteps(q), NEW o, NewOp(o, q, first),
           o.temporary = Preregistered(q), o.touches = Touches(q)
    PROVE  Shaped(o)
<1>1. Ordered(o.kind, o.todo) /\ Waiting(o.todo) /\ (o.kind = "build" => Has(o.todo, "headers"))
  BY FirstOrdered DEF NewOp
<1>2. Names(o)
  BY RequestNames DEF NewOp, Names, Touches
<1>3. Keeps(o, o.todo, o.temporary)
  <2>1. Pending(o) = Entry(IF q.kind = "pull" THEN "pendingPullRefs" ELSE "pendingBuildTags",
                           q.key, pruneOwnerInfo(q.id))
        /\ Pruned(o, Info(o)) = Entry("completedPruneOwner", q.thing, pruneOwnerInfo(q.id))
    BY DEF NewOp, Pending, Pruned, Info
  <2>2. CASE q.kind = "pull"
    <3>1. Preregistered(q) = {Pending(o)} /\ q.ref # NoRef
      BY <2>1, <2>2, RequestNames DEF Preregistered
    <3> QED  BY <2>2, <3>1 DEF Keeps, NewOp
  <2>3. CASE q.kind = "build"
    <3>1. Preregistered(q) = {}
      BY <2>3 DEF Preregistered
    <3> QED  BY <1>1, <2>3, <3>1 DEF Keeps, NewOp
  <2>4. CASE q.kind \in {"commit", "buildkit"}
    <3>1. Preregistered(q) = IF q.ref # NoRef THEN {Pending(o)} ELSE {}
      BY <2>1, <2>4 DEF Preregistered
    <3> QED  BY <2>4, <3>1 DEF Keeps, NewOp
  <2>5. CASE q.kind = "create"
    <3>1. Preregistered(q) = {Pruned(o, Info(o))}
      BY <2>1, <2>5 DEF Preregistered
    <3> QED  BY <2>5, <3>1 DEF Keeps, NewOp, RefKinds
  <2>6. CASE q.kind = "rmi"
    <3>1. Preregistered(q) \subseteq {Pruned(o, Info(o))}
      BY <2>1, <2>6 DEF Preregistered
    <3> QED  BY <2>6, <3>1 DEF Keeps, NewOp, RefKinds
  <2>7. CASE q.kind \in {"load", "remove"}
    BY <2>7 DEF Keeps, NewOp, RefKinds
  <2> QED  BY <2>2, <2>3, <2>4, <2>5, <2>6, <2>7, RequestFacts DEF AllKinds, MakingKinds
<1> QED  BY <1>1, <1>2, <1>3 DEF Shaped

LEMMA BeginShape ==
    ASSUME IInv, ShapeInv, NEW q \in Requests, Begin(q)
    PROVE  ShapeInv'
<1>0. OpsSound /\ DaemonTyped /\ TimersTyped /\ OpsShaped /\ TimersOwn /\ EventsFit
  BY DEF IInv, ShapeInv
<1>1. PICK m : m = Len(ops) + 1
  OBVIOUS
<1>2. /\ DOMAIN ops' = DOMAIN ops \cup {m}
      /\ \A k \in DOMAIN ops : SameOp(ops[k], ops'[k])
      /\ \E first \in FirstSteps(q) : NewOp(ops'[m], q, first)
      /\ ops'[m].temporary = Preregistered(q) /\ ops'[m].touches = Touches(q)
  BY <1>0, <1>1, BeginOps
<1>3. Shaped(ops'[m])
  BY <1>2, NewShaped
<1>4. \A k \in DOMAIN ops : /\ Shaped(ops'[k]) /\ ops'[k].todo = ops[k].todo
                            /\ ops'[k].touches = ops[k].touches
                            /\ \A e : Fits(ops[k], e) => Fits(ops'[k], e)
  <2> SUFFICES ASSUME NEW k \in DOMAIN ops
               PROVE  /\ Shaped(ops'[k]) /\ ops'[k].todo = ops[k].todo
                      /\ ops'[k].touches = ops[k].touches
                      /\ \A e : Fits(ops[k], e) => Fits(ops'[k], e)
    OBVIOUS
  <2>1. SameOp(ops[k], ops'[k]) /\ Shaped(ops[k])
    BY <1>0, <1>2 DEF OpsShaped
  <2> QED  BY <2>1, SameFixed DEF SameOp
<1>5. OpsShaped'
  BY <1>2, <1>3, <1>4 DEF OpsShaped
<1>6. UNCHANGED <<timers, events, reader>>
  BY DEF Begin
<1>7. TimersOwn'
  BY <1>0, <1>4, <1>6 DEF TimersOwn, TimersTyped
<1>8. \A e : Out(e)' => Out(e)
  BY <1>6 DEF Out
<1>9. EventsFit'
  BY <1>0, <1>2, <1>4, <1>8 DEF EventsFit
<1> QED  BY <1>5, <1>6, <1>7, <1>9 DEF ShapeInv, Readable

LEMMA QuietShape ==
    ASSUME ShapeInv, ops' = ops, timers' \subseteq timers, \A e : Out(e)' => Out(e),
           Readable'
    PROVE  ShapeInv'
  BY DEF ShapeInv, OpsShaped, TimersOwn, EventsFit

LEMMA ReaderOut ==
    ASSUME Readable, (\E e \in events : EventLine(e)) \/ LookUp \/ LineDone
    PROVE  /\ \A e : Out(e)' => Out(e)
           /\ Readable'
           /\ ops' = ops /\ timers' = timers /\ maps' = maps /\ rows' = rows
           /\ images' = images /\ present' = present /\ tagOf' = tagOf
<1>1. UNCHANGED <<ops, timers, maps, rows, images, present, tagOf>>
  BY DEF EventLine, LookUp, LineDone, tableVars, daemonVars
<1>2. CASE \E e \in events : EventLine(e)
  <2>1. PICK e \in events : EventLine(e)
    BY <1>2
  <2>2. reader' = Line(e, Lookups(e), Undecided) /\ events' = events \ {e}
    BY <2>1 DEF EventLine, Line
  <2>3. reader'.event = e
    BY <2>2 DEF Line
  <2> QED  BY <1>1, <2>2, <2>3 DEF Out, Readable
<1>3. CASE LookUp
  <2>1. PICK e, s, v : reader = Line(e, s, v)
    BY <1>3 DEF Readable, LookUp
  <2>2. PICK t, u : reader' = [reader EXCEPT !.todo = t, !.verdict = u]
    BY <1>3 DEF LookUp
  <2>3. reader' = Line(e, t, u) /\ reader.event = e /\ events' = events /\ reader # NoReader
    BY <1>3, <2>1, <2>2 DEF Line, LookUp
  <2>4. reader'.event = e
    BY <2>3 DEF Line
  <2> QED  BY <1>1, <2>3, <2>4 DEF Out, Readable
<1>4. CASE LineDone
  BY <1>1, <1>4 DEF LineDone, Out, Readable
<1> QED  BY <1>2, <1>3, <1>4

-----------------------------------------------------------------------------
(* Steps that begin nothing. *)

\* nobody becomes active
Narrows ==
    /\ DOMAIN ops' = DOMAIN ops
    /\ \A k \in DOMAIN ops :
           /\ ops'[k].kind = ops[k].kind /\ ops'[k].id = ops[k].id
           /\ ops'[k].touches = ops[k].touches /\ ops'[k].contended = ops[k].contended
           /\ Busy(k)' => Busy(k)
           /\ Free(k)' => Free(k)
           /\ Waiting(ops'[k].todo) => Waiting(ops[k].todo)

LEMMA WatchedOut == \A n : Watched(n) <=> \E e : Out(e) /\ e.op = n
  BY DEF Watched, Out, Reading

LEMMA OpNarrows ==
    ASSUME IInv, ShapeInv, NEW n \in DOMAIN ops, OpStep(n)
    PROVE  Narrows /\ Busy(n)
<1>0. OpsSound /\ OpsShaped /\ EventsFit
  BY DEF IInv, ShapeInv
<1>1. PICK s, E : Goes(n, s, E) /\ (Waiting(s) => Waiting(ops[n].todo)) /\ ops[n].todo # <<>>
  BY <1>0, OpGoes
<1>2. Busy(n)
  BY <1>1 DEF Busy
<1>3. DOMAIN ops' = DOMAIN ops /\ \A k \in DOMAIN ops \ {n} : ops'[k] = ops[k]
  BY <1>0, <1>1, GoesFixed
<1>4. timers' = timers \/ \E C : timers' = timers \cup {[op |-> n, entry |-> e] : e \in C}
  BY DEF OpStep, DaemonActs, DaemonSucceeds, DaemonFails, BuildHeaders, OwnImage, AccessImage, Clear, Complete,
         CompleteId, Arm, DropImage, RegisterName, ForgetName, TrackBuildKitImages, TrackFails
<1>5. \A t \in timers' : t \in timers \/ t.op = n
  BY <1>4
<1>6. \A e : Out(e)' => Out(e) \/ e.op = n
  <2>1. reader' = reader /\ (DaemonActs(n) \/ events' = events)
    BY <1>0, OpEventsFit
  <2>2. \A e \in events' : e \in events \/ e.op = n
    BY <1>0, <2>1, EmittedFits DEF DaemonActs, DaemonSucceeds
  <2> QED  BY <2>1, <2>2 DEF Out
<1>7. ASSUME NEW k \in DOMAIN ops, k # n
      PROVE  (Busy(k)' => Busy(k)) /\ (Watched(k)' => Watched(k))
  <2>1. Busy(k)' => Busy(k)
    BY <1>3, <1>5, <1>7 DEF Busy
  <2>2. Watched(k)' => \E e : Out(e)' /\ e.op = k
    BY DEF Watched, Out, Reading
  <2> QED  BY <1>6, <1>7, <2>1, <2>2, WatchedOut
<1>8. /\ ops'[n].kind = ops[n].kind /\ ops'[n].id = ops[n].id
      /\ ops'[n].touches = ops[n].touches /\ ops'[n].contended = ops[n].contended
      /\ Waiting(ops'[n].todo) => Waiting(ops[n].todo)
  BY <1>1 DEF Goes
<1> QED  BY <1>2, <1>3, <1>7, <1>8 DEF Narrows, Free

LEMMA QuietNarrows ==
    ASSUME ops' = ops, timers' \subseteq timers, \A e : Out(e)' => Out(e)
    PROVE  Narrows
<1>1. ASSUME NEW k \in DOMAIN ops PROVE (Busy(k)' => Busy(k)) /\ (Watched(k)' => Watched(k))
  <2>1. Busy(k)' => Busy(k)
    BY DEF Busy
  <2>2. Watched(k)' => \E e : Out(e)' /\ e.op = k
    BY DEF Watched, Out, Reading
  <2> QED  BY <2>1, <2>2, WatchedOut
<1> QED  BY <1>1 DEF Narrows, Free

LEMMA ApartKept ==
    ASSUME Apart, Narrows
    PROVE  Apart'
  BY DEF Apart, Narrows

\* The operation of a covered event that is out is free.
LEMMA CoveredFree ==
    ASSUME NEW e, Out(e), Covered(e)
    PROVE  Free(e.op)
  BY WatchedOut DEF Covered, Free

\* What tells whose an event is, and what is being looked up, is not touched by
\* a step about other names.
LEMMA SafeElsewhere ==
    ASSUME OpsSound, OpsShaped, NEW k \in DOMAIN ops, NEW T, T \cap ops[k].touches = {},
           NEW M, NEW N, MapsKept(T, M, N), NEW R, NEW Q, RowsKept(T, R, Q),
           NEW I, NEW J, ops[k].kind = "rmi" => J[ops[k].thing] = I[ops[k].thing],
           NEW e, Fits(ops[k], e)
    PROVE  /\ Safe(M, R, I, ops[k], e) => Safe(N, Q, J, ops[k], e)
           /\ \A s : SafeReading(M, R, ops[k], e, s) => SafeReading(N, Q, ops[k], e, s)
<1>1. ops[k].kind \in RefKinds => /\ Finished(ops[k]) \in M <=> Finished(ops[k]) \in N
                                  /\ Pending(ops[k]) \in M <=> Pending(ops[k]) \in N
  <2> SUFFICES ASSUME ops[k].kind \in RefKinds
               PROVE  /\ Finished(ops[k]) \in M <=> Finished(ops[k]) \in N
                      /\ Pending(ops[k]) \in M <=> Pending(ops[k]) \in N
    OBVIOUS
  <2>1. ops[k].ref # NoRef
    BY DEF Fits, RefKinds
  <2>2. /\ About(Finished(ops[k])) # {} /\ About(Finished(ops[k])) \cap T = {}
        /\ About(Pending(ops[k])) # {} /\ About(Pending(ops[k])) \cap T = {}
    BY <2>1, OwnEntries
  <2> QED  BY <2>2 DEF MapsKept
<1>2. ASSUME NEW i PROVE Pruned(ops[k], i) \in M <=> Pruned(ops[k], i) \in N
  <2>1. About(Pruned(ops[k], i)) # {} /\ About(Pruned(ops[k], i)) \cap T = {}
    BY OwnEntries
  <2> QED  BY <2>1 DEF MapsKept
<1>3. ASSUME NEW w, w.key = ops[k].thing PROVE w \in R <=> w \in Q
  <2>1. w.key \notin T
    BY <1>3, OwnEntries
  <2> QED  BY <2>1 DEF RowsKept
<1>4. RowFor(ops[k]) \in R <=> RowFor(ops[k]) \in Q
  BY <1>3 DEF RowFor
<1>5. Safe(M, R, I, ops[k], e) => Safe(N, Q, J, ops[k], e)
  <2>1. ops[k].kind \in RefKinds /\ RefSafe(M, ops[k]) => RefSafe(N, ops[k])
    BY <1>1 DEF RefSafe
  <2>2. ops[k].kind = "rmi" /\ RmiSafe(M, I, ops[k], e) => RmiSafe(N, J, ops[k], e)
    BY <1>2 DEF RmiSafe
  <2>3. CreateSafe(M, R, ops[k]) => CreateSafe(N, Q, ops[k])
    BY <1>2, <1>4 DEF CreateSafe
  <2>4. RemoveSafe(M, R, ops[k]) => RemoveSafe(N, Q, ops[k])
    BY <1>2, <1>3 DEF RemoveSafe
  <2> QED  BY <2>1, <2>2, <2>3, <2>4 DEF Safe
<1>6. ASSUME NEW s, SafeReading(M, R, ops[k], e, s) PROVE SafeReading(N, Q, ops[k], e, s)
  <2>1. ops[k].kind \in RefKinds /\ RefReading(M, ops[k], e, s) => RefReading(N, ops[k], e, s)
    BY <1>1 DEF RefReading
  <2>2. RmiReading(M, ops[k], e, s) => RmiReading(N, ops[k], e, s)
    BY <1>2 DEF RmiReading
  <2>3. CreateReading(R, ops[k], s) => CreateReading(Q, ops[k], s)
    BY <1>4 DEF CreateReading
  <2>4. RemoveReading(M, ops[k], s) => RemoveReading(N, ops[k], s)
    BY <1>2 DEF RemoveReading
  <2> QED  BY <1>6, <2>1, <2>2, <2>3, <2>4 DEF SafeReading
<1> QED  BY <1>5, <1>6

-----------------------------------------------------------------------------
(* Steps of the operation whose event is out. *)

LEMMA StoreKeeps ==
    ASSUME NEW M, NEW E, NEW x, x \in E \/ (x \in M /\ \A y \in E : y.map # x.map \/ y.key # x.key)
    PROVE  x \in Store(M, E)
  BY DEF Store

\* what is left after a step that only advances
LEMMA PlainHas ==
    ASSUME OpsSound, OpsShaped, NEW n \in DOMAIN ops, NEW h, Plain(n, h)
    PROVE  /\ \A x : Has(ops'[n].todo, x) => Has(ops[n].todo, x)
           /\ \A x : x # h /\ Has(ops[n].todo, x) => Has(ops'[n].todo, x)
           /\ Has(ops[n].todo, h)
           /\ ops'[n].temporary = ops[n].temporary /\ ops'[n].kind = ops[n].kind
           /\ ops[n].todo # <<>> /\ Head(ops[n].todo) = h /\ ops[n].todo \in Seq(Steps)
           /\ ops'[n].todo = Tail(ops[n].todo)
<1>1. Goes(n, Tail(ops[n].todo), ops[n].temporary)
  BY PlainShapes
<1>2. PICK s \in Seq(Steps) : s = ops[n].todo
  BY PlanOf
<1>3. s # <<>> /\ Head(s) = h
  BY <1>2 DEF Plain, AtStep
<1>4. 1 \in 1..Len(s) /\ s[1] = h
  BY <1>3
<1>5. Has(s, h)
  BY <1>4 DEF Has
<1>6. ops'[n].todo = Tail(s) /\ ops'[n].temporary = ops[n].temporary /\ ops'[n].kind = ops[n].kind
  BY <1>1, <1>2 DEF Goes
<1> QED  BY <1>2, <1>3, <1>5, <1>6, HasTail

LEMMA NotDaemon ==
    ASSUME OpsSound, OpsShaped, NEW n \in DOMAIN ops, ~Waiting(ops[n].todo)
    PROVE  ~DaemonActs(n) /\ ~DaemonFails(n)
<1> SUFFICES ASSUME AtStep(n, "daemon") PROVE FALSE
  BY DEF DaemonActs, DaemonSucceeds, DaemonFails
<1>1. PICK s \in Seq(Steps) : s = ops[n].todo
  BY PlanOf
<1>2. s # <<>> /\ Head(s) = "daemon"
  BY <1>1 DEF AtStep
<1>3. 1 \in 1..Len(s) /\ s[1] = "daemon"
  BY <1>2
<1> QED  BY <1>1, <1>3 DEF Waiting

\* A pull, a build or a commit: the entry that is registered before is there
\* until the completed one is.
LEMMA RefOwn ==
    ASSUME OpsSound, OpsShaped, NEW n \in DOMAIN ops, OpStep(n), ~Waiting(ops[n].todo),
           ops[n].kind \in RefKinds, ops[n].ref # NoRef, RefSafe(maps, ops[n])
    PROVE  /\ RefSafe(maps', ops'[n])
           /\ Finished(ops[n]) \in maps => Finished(ops[n]) \in maps'
           /\ Finished(ops'[n]) = Finished(ops[n]) /\ Pending(ops'[n]) = Pending(ops[n])
<1> DEFINE o == ops[n]
           F == Finished(ops[n])
           P == Pending(ops[n])
<1>0. /\ F.map \in {"completedPullOwner", "completedBuildOwner"} /\ F.key = o.key
      /\ P.map \in {"pendingPullRefs", "pendingBuildTags"} /\ P.key = o.key
      /\ F.map = IF o.kind = "pull" THEN "completedPullOwner" ELSE "completedBuildOwner"
  BY DEF Finished, Pending, Entry
<1>1. Finished(ops'[n]) = F /\ Pending(ops'[n]) = P
  BY OpGoes, GoesFixed
<1>2. /\ Keeps(o, o.todo, o.temporary) /\ Ordered(o.kind, o.todo)
      /\ o.temporary = {} \/ o.temporary = {P}
  BY PlanOf DEF Keeps
<1>3. o.key \notin Things /\ o.thing \in Things
  BY OwnEntries, PlanOf DEF Op
<1>4. \/ F \in maps
      \/ /\ P \in maps
         /\ (Has(o.todo, "clear") => Has(o.todo, "complete")) \/ (o.kind = "buildkit" /\ o.temporary = {})
  BY DEF RefSafe
<1> SUFFICES RefSafe(maps', ops'[n]) /\ (F \in maps => F \in maps')
  BY <1>1
<1> HIDE DEF F, P, o
<1>5. ASSUME NEW h, Plain(n, h), h \notin {"clear", "complete"},
             F \in maps => F \in maps', P \in maps => P \in maps'
      PROVE  RefSafe(maps', ops'[n])
  <2>1. /\ Has(ops'[n].todo, "clear") => Has(ops[n].todo, "clear")
        /\ Has(ops[n].todo, "complete") => Has(ops'[n].todo, "complete")
        /\ ops'[n].temporary = ops[n].temporary /\ ops'[n].kind = ops[n].kind
    BY <1>5, PlainHas
  <2> QED  BY <1>1, <1>4, <1>5, <2>1 DEF RefSafe, o
<1>6. CASE Complete(n)
  <2>1. Plain(n, "complete")
    BY <1>6 DEF Complete, Plain
  <2>2. maps' = Store(maps, Completed(ops[n]))
    BY <1>6 DEF Complete, Arm
  <2>3. ops'[n].temporary = ops[n].temporary /\ ops'[n].kind = ops[n].kind
    BY <2>1, PlainHas
  <2>4. CASE o.kind = "buildkit" /\ o.temporary = {}
    <3>1. Completed(ops[n]) = {}
      BY <2>4 DEF Completed, o
    <3>2. maps' = maps
      BY <2>2, <3>1 DEF Store
    <3> QED  BY <1>1, <1>4, <2>3, <2>4, <3>2 DEF RefSafe, o
  <2>5. CASE ~(o.kind = "buildkit" /\ o.temporary = {})
    <3>1. Completed(ops[n]) = {F}
      <4>1. CASE o.kind = "buildkit"
        <5>1. o.temporary = {P}
          BY <1>2, <2>5, <4>1
        <5>2. Completed(ops[n]) = {[P EXCEPT !.map = "completedBuildOwner"]}
          BY <4>1, <5>1 DEF Completed, o
        <5>3. [P EXCEPT !.map = "completedBuildOwner"] = F
          BY <4>1 DEF P, F, Pending, Finished, Entry, o
        <5> QED  BY <5>2, <5>3
      <4>2. CASE o.kind = "pull"
        BY <4>2 DEF Completed, F, Finished, Info, o
      <4>3. CASE o.kind \in {"build", "commit"}
        BY <4>3 DEF Completed, F, Finished, Info, o
      <4> QED  BY <4>1, <4>2, <4>3 DEF RefKinds, o
    <3>2. F \in maps'
      BY <2>2, <3>1, StoreKeeps
    <3> QED  BY <1>1, <3>2 DEF RefSafe
  <2> QED  BY <2>4, <2>5
<1>7. CASE Clear(n)
  <2>1. Plain(n, "clear")
    BY <1>7 DEF Clear, Plain, Advance
  <2>2. maps' = maps \ o.temporary
    BY <1>7 DEF Clear, Cleared, CompareAndDelete, o
  <2>3. F # P
    BY <1>0
  <2>4. F \in maps => F \in maps'
    BY <1>2, <2>2, <2>3
  <2>5. F \in maps \/ (P \in maps /\ o.kind = "buildkit" /\ o.temporary = {})
    <3>1. Has(o.todo, "clear")
      BY <2>1, PlainHas DEF o
    <3>2. ~Has(o.todo, "complete")
      <4>1. PICK s \in Seq(Steps) : s = ops[n].todo /\ s # <<>> /\ Head(s) = "clear"
        BY <2>1, PlainHas
      <4>2. Tail(s) = <<>>
        BY <1>2, <4>1, OrderedTail DEF o
      <4>3. Len(s) = 1 /\ s[1] = "clear"
        <5>1. PICK t \in Seq(Steps) : t = Tail(s)
          BY <4>1, TailFacts
        <5>2. Len(t) = Len(s) - 1 /\ s[1] = Head(s) /\ Len(s) \in Nat
          BY <4>1, <5>1, TailFacts
        <5>3. Len(t) = 0
          BY <4>2, <5>1
        <5> QED  BY <4>1, <5>2, <5>3
      <4> QED  BY <4>1, <4>3 DEF Has, o
    <3> QED  BY <1>4, <3>1, <3>2
  <2>6. ops'[n].temporary = o.temporary /\ ops'[n].kind = o.kind
    BY <2>1, PlainHas DEF o
  <2> QED  BY <1>1, <2>2, <2>4, <2>5, <2>6 DEF RefSafe
<1>8. CASE CompleteId(n)
  <2>1. Plain(n, "completeId")
    BY <1>8 DEF CompleteId, Plain
  <2>2. PICK x : x = Entry("completedBuildOwner", ops[n].thing, pruneOwnerInfo(ops[n].id))
    OBVIOUS
  <2>3. maps' = Store(maps, {x}) /\ x.key = o.thing
    BY <1>8, <2>2 DEF CompleteId, Arm, Entry, o
  <2>4. (F \in maps => F \in maps') /\ (P \in maps => P \in maps')
    BY <1>0, <1>3, <2>3, StoreKeeps
  <2> QED  BY <1>5, <2>1, <2>4
<1>9. CASE BuildHeaders(n)
  <2>1. /\ Goes(n, Tail(ops[n].todo), Headed(ops[n])) /\ maps' = Store(maps, Headed(ops[n]))
        /\ ops[n].kind = "build"
    BY <1>9, HeadersGoes
  <2>2. Headed(ops[n]) = {P}
    BY <2>1 DEF Headed, P, Pending, Info
  <2>3. P \in maps' /\ (F \in maps => F \in maps')
    BY <1>0, <2>1, <2>2, StoreKeeps
  <2>4. PICK s \in Seq(Steps) : s = ops[n].todo /\ s # <<>> /\ Head(s) = "headers"
    BY <1>9, PlanOf DEF BuildHeaders, AtStep
  <2>5. /\ Has(Tail(s), "clear") => Has(s, "clear")
        /\ Has(s, "complete") => Has(Tail(s), "complete")
    BY <2>4, HasTail
  <2>6. ops'[n].todo = Tail(s)
    BY <2>1, <2>4 DEF Goes
  <2> QED  BY <1>1, <1>4, <2>1, <2>3, <2>4, <2>5, <2>6 DEF RefSafe, o
<1>10. CASE TrackBuildKitImages(n) \/ TrackFails(n)
  <2>1. PICK s \in {<<>>, <<"complete", "clear">>} : ops'[n].todo = s
    <3>1. PICK s \in {<<>>, <<"complete", "clear">>}, E \in SUBSET ops[n].temporary : Goes(n, s, E)
      BY <1>10, TrackGoes
    <3> QED  BY <3>1 DEF Goes
  <2>2. Has(s, "clear") => Has(s, "complete")
    <3>1. CASE s = <<>>
      <4>1. Len(s) = 0
        BY <3>1
      <4> QED  BY <4>1 DEF Has
    <3>2. CASE s = <<"complete", "clear">>
      <4>1. Len(s) = 2 /\ s[1] = "complete"
        BY <3>2
      <4> QED  BY <4>1 DEF Has
    <3> QED  BY <3>1, <3>2
  <2>3. maps' = maps
    BY <1>10 DEF TrackBuildKitImages, TrackFails
  <2> QED  BY <1>1, <1>4, <2>1, <2>2, <2>3 DEF RefSafe
<1>11. CASE OwnImage(n) \/ AccessImage(n) \/ DropImage(n) \/ RegisterName(n) \/ ForgetName(n)
  <2>1. maps' = maps
    BY <1>11 DEF OwnImage, AccessImage, DropImage, RegisterName, ForgetName
  <2>2. PICK h \in {"owner", "access", "dropAccess", "dropRow", "register", "forget"} : Plain(n, h)
    BY <1>11 DEF OwnImage, AccessImage, DropImage, RegisterName, ForgetName, Plain
  <2> QED  BY <1>5, <2>1, <2>2
<1> QED  BY <1>6, <1>7, <1>8, <1>9, <1>10, <1>11, NotDaemon DEF OpStep

\* A removed image: its row, and then the entry with what the row said.
LEMMA RmiOwn ==
    ASSUME IInv, OpsShaped, NEW n \in DOMAIN ops, OpStep(n), ~Waiting(ops[n].todo),
           ops[n].kind = "rmi", ops[n].temporary = {}, NEW e, RmiSafe(maps, images, ops[n], e)
    PROVE  /\ RmiSafe(maps', images', ops'[n], e)
           /\ Pruned(ops[n], e) \in maps => Pruned(ops[n], e) \in maps'
<1>0. OpsSound /\ TablesTypeOK
  BY DEF IInv
<1>1. PICK i \in Images : i = ops[n].thing
  BY <1>0, PlanOf DEF Asked
<1>2. PICK x : x = Pruned(ops[n], e)
  OBVIOUS
<1>3. ops'[n].thing = i /\ Pruned(ops'[n], e) = x
  <2>1. \E s, E : Goes(n, s, E)
    BY <1>0, OpGoes
  <2>2. Pruned(ops'[n], e) = x /\ ops'[n].thing = i
    BY <1>0, <1>1, <1>2, <2>1, GoesFixed DEF Goes
  <2> QED  BY <2>2
<1>4. /\ images[i].source # "none" => images[i].owner = e.uid /\ images[i].sudo = e.sudo
      /\ Has(ops[n].todo, "complete") => images[i].source # "none"
      /\ Has(ops[n].todo, "complete") \/ x \in maps
  BY <1>1, <1>2 DEF RmiSafe
<1> SUFFICES /\ images'[i].source # "none" => images'[i].owner = e.uid /\ images'[i].sudo = e.sudo
             /\ Has(ops'[n].todo, "complete") => images'[i].source # "none"
             /\ Has(ops'[n].todo, "complete") \/ x \in maps'
             /\ x \in maps => x \in maps'
  BY <1>2, <1>3 DEF RmiSafe
<1>5. ops[n].kind \notin {"pull", "build", "commit", "load", "buildkit", "create", "remove"}
  OBVIOUS
<1>6. CASE Complete(n)
  <2>1. Plain(n, "complete")
    BY <1>6 DEF Complete, Plain
  <2>2. maps' = Store(maps, Completed(ops[n])) /\ images' = images
    BY <1>6 DEF Complete, Arm, tableVars
  <2>3. Has(ops[n].todo, "complete") /\ images[i].source # "none"
    BY <1>0, <1>4, <2>1, PlainHas
  <2>4. Completed(ops[n]) = RemovedImageEntries(ops[n])
    BY DEF Completed
  <2>5. x = Entry("completedPruneOwner", i, [uid |-> images[i].owner, sudo |-> images[i].sudo])
    BY <1>1, <1>2, <1>4, <2>3 DEF Pruned, Entry
  <2>6. x \in RemovedImageEntries(ops[n])
    BY <1>1, <2>3, <2>5 DEF RemovedImageEntries, Tracked
  <2>7. x \in maps'
    BY <2>2, <2>4, <2>6, StoreKeeps
  <2> QED  BY <1>4, <2>2, <2>3, <2>7
<1>7. CASE Clear(n)
  <2>1. Plain(n, "clear")
    BY <1>7 DEF Clear, Plain, Advance
  <2>2. maps' = maps /\ images' = images
    BY <1>7 DEF Clear, Cleared, CompareAndDelete, tableVars
  <2>3. Has(ops'[n].todo, "complete") <=> Has(ops[n].todo, "complete")
    BY <1>0, <2>1, PlainHas
  <2> QED  BY <1>4, <2>2, <2>3
<1>8. CASE DropImage(n)
  <2>1. PICK h \in {"dropAccess", "dropRow"} : Plain(n, h)
    BY <1>8 DEF DropImage, Plain
  <2>2. ~Has(ops[n].todo, "complete") /\ ~Has(ops'[n].todo, "complete")
    <3>1. ~Has(ops[n].todo, "complete")
      BY <1>0, <2>1, PlainHas, PlanOf, OrderedTail
    <3> QED  BY <1>0, <2>1, <3>1, PlainHas
  <2>3. maps' = maps /\ (images' = images \/ images' = [images EXCEPT ![i] = NoRow])
    BY <1>1, <1>8 DEF DropImage, DeleteAccessRows, DeleteOwnerRow
  <2>4. images'[i] = images[i] \/ images'[i].source = "none"
    BY <1>0, <2>3 DEF TablesTypeOK, NoRow
  <2> QED  BY <1>4, <2>2, <2>3, <2>4
<1>9. ~(OwnImage(n) \/ AccessImage(n) \/ CompleteId(n) \/ RegisterName(n) \/ ForgetName(n)
        \/ BuildHeaders(n) \/ TrackBuildKitImages(n) \/ TrackFails(n))
  <2>1. StepsOf(ops[n].kind) = {"daemon", "complete", "dropAccess", "dropRow", "clear"}
    BY DEF StepsOf
  <2>2. \A h : AtStep(n, h) => h \in StepsOf(ops[n].kind)
    BY <1>0, StepKind
  <2> QED  BY <2>1, <2>2 DEF OwnImage, AccessImage, CompleteId, RegisterName, ForgetName,
                             BuildHeaders, TrackBuildKitImages, TrackFails
<1> QED  BY <1>0, <1>6, <1>7, <1>8, <1>9, NotDaemon DEF OpStep

\* A created volume: its entry until the row is there.
LEMMA CreateOwn ==
    ASSUME IInv, OpsShaped, NEW n \in DOMAIN ops, OpStep(n), ~Waiting(ops[n].todo),
           ops[n].kind = "create", CreateSafe(maps, rows, ops[n])
    PROVE  /\ CreateSafe(maps', rows', ops'[n])
           /\ RowFor(ops[n]) \in rows => RowFor(ops[n]) \in rows'
<1>0. OpsSound
  BY DEF IInv
<1>1. PICK w, x : w = RowFor(ops[n]) /\ x = Pruned(ops[n], Info(ops[n]))
  OBVIOUS
<1>2. RowFor(ops'[n]) = w /\ Pruned(ops'[n], Info(ops'[n])) = x
  BY <1>0, <1>1, OpGoes, GoesFixed
<1>3. w \in rows \/ (x \in maps /\ Has(ops[n].todo, "register"))
  BY <1>1 DEF CreateSafe
<1> SUFFICES w \in rows' \/ (x \in maps' /\ Has(ops'[n].todo, "register") /\ rows' = rows)
  BY <1>1, <1>2 DEF CreateSafe
<1>4. CASE RegisterName(n)
  BY <1>1, <1>4 DEF RegisterName, RowFor
<1>5. CASE Clear(n)
  <2>1. Plain(n, "clear") /\ rows' = rows
    BY <1>5 DEF Clear, Plain, Advance
  <2>2. PICK s \in Seq(Steps) : s = ops[n].todo /\ s # <<>> /\ Head(s) = "clear"
    BY <1>0, <2>1, PlainHas
  <2>3. ~Has(s, "register")
    <3>1. PICK t \in Seq(Steps) : t = Tail(s)
      BY <2>2, TailFacts
    <3>2. Len(t) = Len(s) - 1 /\ s[1] = Head(s) /\ Len(s) \in Nat
      BY <2>2, <3>1, TailFacts
    <3>3. t = <<>>
      BY <1>0, <2>2, <3>1, PlanOf, OrderedTail
    <3>4. Len(t) = 0
      BY <3>3
    <3> QED  BY <2>2, <3>2, <3>4 DEF Has
  <2> QED  BY <1>3, <2>1, <2>2, <2>3
<1>6. ~(OwnImage(n) \/ AccessImage(n) \/ CompleteId(n) \/ Complete(n) \/ DropImage(n)
        \/ ForgetName(n) \/ BuildHeaders(n) \/ TrackBuildKitImages(n) \/ TrackFails(n))
  <2>1. StepsOf(ops[n].kind) = {"daemon", "register", "clear"}
    BY DEF StepsOf
  <2>2. \A h : AtStep(n, h) => h \in StepsOf(ops[n].kind)
    BY <1>0, StepKind
  <2> QED  BY <2>1, <2>2 DEF OwnImage, AccessImage, CompleteId, Complete, DropImage, ForgetName,
                             BuildHeaders, TrackBuildKitImages, TrackFails
<1> QED  BY <1>0, <1>4, <1>5, <1>6, NotDaemon DEF OpStep

\* A removed network: its row, and then the entry.
LEMMA RemoveOwn ==
    ASSUME IInv, OpsShaped, NEW n \in DOMAIN ops, OpStep(n), ~Waiting(ops[n].todo),
           ops[n].kind = "remove", ops[n].thing \in Nets, ops[n].key = ops[n].thing,
           RemoveSafe(maps, rows, ops[n])
    PROVE  /\ RemoveSafe(maps', rows', ops'[n])
           /\ Pruned(ops[n], SudoInfo(ops[n])) \in maps => Pruned(ops[n], SudoInfo(ops[n])) \in maps'
<1>0. OpsSound /\ DaemonTyped
  BY DEF IInv
<1>1. PICK x : x = Pruned(ops[n], SudoInfo(ops[n]))
  OBVIOUS
<1>2. Pruned(ops'[n], SudoInfo(ops'[n])) = x
  BY <1>0, <1>1, OpGoes, GoesFixed
<1>3. \/ Has(ops[n].todo, "complete") /\ \E w \in rows : w.key = ops[n].thing /\ w.sudo = TRUE
      \/ x \in maps
  BY <1>1 DEF RemoveSafe
<1> SUFFICES x \in maps'
  BY <1>1, <1>2 DEF RemoveSafe
<1>4. CASE Complete(n)
  <2>1. maps' = Store(maps, Completed(ops[n]))
    BY <1>4 DEF Complete, Arm
  <2>2. \/ Completed(ops[n]) = {x}
        \/ Completed(ops[n]) = {} /\ ~\E w \in rows : w.key = ops[n].thing /\ w.sudo = TRUE
    <3>1. Completed(ops[n]) = {x : w \in {w \in Row(ops[n].thing) : w.sudo}}
      BY <1>1 DEF Completed, RemovedNameEntries, Pruned, SudoInfo
    <3>2. CASE \E w \in rows : w.key = ops[n].thing /\ w.sudo = TRUE
      <4>1. PICK w \in rows : w.key = ops[n].thing /\ w.sudo = TRUE
        BY <3>2
      <4>2. w \in {v \in Row(ops[n].thing) : v.sudo}
        BY <4>1 DEF Row
      <4> QED  BY <3>1, <4>2
    <3>3. CASE ~\E w \in rows : w.key = ops[n].thing /\ w.sudo = TRUE
      <4>1. {w \in Row(ops[n].thing) : w.sudo} = {}
        BY <1>0, <3>3 DEF Row, DaemonTyped
      <4> QED  BY <3>1, <3>3, <4>1
    <3> QED  BY <3>2, <3>3
  <2>3. maps \subseteq maps' \/ x \in maps'
    BY <2>1, <2>2, StoreKeeps DEF Store
  <2> QED  BY <1>3, <2>1, <2>2, <2>3, StoreKeeps
<1>5. CASE ForgetName(n)
  <2>1. Plain(n, "forget") /\ maps' = maps
    BY <1>5 DEF ForgetName, Plain
  <2>2. ~Has(ops[n].todo, "complete")
    BY <1>0, <2>1, PlainHas, PlanOf, OrderedTail
  <2> QED  BY <1>3, <2>1, <2>2
<1>6. ~(OwnImage(n) \/ AccessImage(n) \/ CompleteId(n) \/ Clear(n) \/ DropImage(n)
        \/ RegisterName(n) \/ BuildHeaders(n) \/ TrackBuildKitImages(n) \/ TrackFails(n))
  <2>1. StepsOf(ops[n].kind) = {"daemon", "complete", "forget"}
    BY DEF StepsOf
  <2>2. \A h : AtStep(n, h) => h \in StepsOf(ops[n].kind)
    BY <1>0, StepKind
  <2> QED  BY <2>1, <2>2 DEF OwnImage, AccessImage, CompleteId, Clear, DropImage, RegisterName,
                             BuildHeaders, TrackBuildKitImages, TrackFails
<1> QED  BY <1>0, <1>4, <1>5, <1>6, NotDaemon DEF OpStep

\* The operation whose covered event is out takes a step.
LEMMA OwnStep ==
    ASSUME IInv, OpsShaped, NEW n \in DOMAIN ops, OpStep(n), ~Waiting(ops[n].todo),
           NEW e, Fits(ops[n], e), ops[n].kind = "rmi" => ops[n].temporary = {},
           Safe(maps, rows, images, ops[n], e)
    PROVE  /\ Safe(maps', rows', images', ops'[n], e)
           /\ \A s : SafeReading(maps, rows, ops[n], e, s) => SafeReading(maps', rows', ops'[n], e, s)
<1>0. OpsSound
  BY DEF IInv
<1>1. /\ ops'[n].kind = ops[n].kind /\ ops'[n].thing = ops[n].thing
      /\ Finished(ops'[n]) = Finished(ops[n]) /\ Pending(ops'[n]) = Pending(ops[n])
      /\ \A i : Pruned(ops'[n], i) = Pruned(ops[n], i)
      /\ RowFor(ops'[n]) = RowFor(ops[n]) /\ SudoInfo(ops'[n]) = SudoInfo(ops[n])
  <2>1. PICK s, E : Goes(n, s, E)
    BY <1>0, OpGoes
  <2> QED  BY <1>0, <2>1, GoesFixed DEF Goes
<1>2. CASE ops[n].kind \in RefKinds
  <2>1. ops[n].ref # NoRef /\ RefSafe(maps, ops[n]) /\ ops[n].kind \notin {"rmi", "create", "remove"}
    BY <1>2 DEF Fits, Safe, RefKinds
  <2>2. RefSafe(maps', ops'[n]) /\ (Finished(ops[n]) \in maps => Finished(ops[n]) \in maps')
    BY <1>0, <1>2, <2>1, RefOwn
  <2>3. ASSUME NEW s, RefReading(maps, ops[n], e, s) PROVE RefReading(maps', ops'[n], e, s)
    BY <1>1, <2>2, <2>3 DEF RefReading
  <2> QED  BY <1>1, <1>2, <2>1, <2>2, <2>3 DEF Safe, SafeReading
<1>3. CASE ops[n].kind = "rmi"
  <2>1. RmiSafe(maps, images, ops[n], e)
    BY <1>3 DEF Safe
  <2>2. RmiSafe(maps', images', ops'[n], e) /\ (Pruned(ops[n], e) \in maps => Pruned(ops[n], e) \in maps')
    BY <1>3, <2>1, RmiOwn
  <2>3. ASSUME NEW s, RmiReading(maps, ops[n], e, s) PROVE RmiReading(maps', ops'[n], e, s)
    BY <1>1, <2>2, <2>3 DEF RmiReading
  <2> QED  BY <1>1, <1>3, <2>2, <2>3 DEF Safe, SafeReading, RefKinds
<1>4. CASE ops[n].kind = "create"
  <2>1. CreateSafe(maps, rows, ops[n])
    BY <1>4 DEF Safe
  <2>2. CreateSafe(maps', rows', ops'[n]) /\ (RowFor(ops[n]) \in rows => RowFor(ops[n]) \in rows')
    BY <1>4, <2>1, CreateOwn
  <2>3. ASSUME NEW s, CreateReading(rows, ops[n], s) PROVE CreateReading(rows', ops'[n], s)
    BY <1>1, <2>2, <2>3 DEF CreateReading
  <2> QED  BY <1>1, <1>4, <2>2, <2>3 DEF Safe, SafeReading, RefKinds
<1>5. CASE ops[n].kind = "remove"
  <2>1. RemoveSafe(maps, rows, ops[n]) /\ ops[n].thing \in Nets /\ ops[n].key = ops[n].thing
    BY <1>5 DEF Safe, Fits, RefKinds
  <2>2. /\ RemoveSafe(maps', rows', ops'[n])
        /\ Pruned(ops[n], SudoInfo(ops[n])) \in maps => Pruned(ops[n], SudoInfo(ops[n])) \in maps'
    BY <1>5, <2>1, RemoveOwn
  <2>3. ASSUME NEW s, RemoveReading(maps, ops[n], s) PROVE RemoveReading(maps', ops'[n], s)
    BY <1>1, <2>2, <2>3 DEF RemoveReading
  <2> QED  BY <1>1, <1>5, <2>2, <2>3 DEF Safe, SafeReading, RefKinds
<1>6. CASE ops[n].kind \notin RefKinds \cup {"rmi", "create", "remove"}
  BY <1>1, <1>6 DEF Safe, SafeReading
<1> QED  BY <1>2, <1>3, <1>4, <1>5, <1>6

\* When the daemon emits a covered event, it is known whose it is.
LEMMA EmittedSafe ==
    ASSUME IInv, OpsShaped, Ready, NEW n \in DOMAIN ops, ~ops[n].contended,
           NEW got \in Learnt(ops[n].kind), DaemonSucceeds(n, got),
           NEW e \in Emitted(n, got), e.covered
    PROVE  /\ Safe(maps', rows', images', ops'[n], e)
           /\ ops[n].kind = "rmi" => /\ ops'[n].temporary = {} /\ ops'[n].thing \notin present'
                                     /\ \A r \in Refs : tagOf'[r] # ops'[n].thing
<1>0. OpsSound /\ TablesTypeOK /\ DaemonTyped
  BY DEF IInv
<1>1. PICK t : /\ Goes(n, t, ops[n].temporary)
               /\ ops[n].kind \in RefKinds => (Has(t, "clear") => Has(t, "complete"))
               /\ ops[n].kind \in {"rmi", "remove"} => Has(t, "complete")
               /\ ops[n].kind = "create" => Has(t, "register")
  <2>1. got \in Gots /\ Answering(n, got)
    BY LearntGots DEF Answering
  <2>2. ops[n].kind = "pull" => got # "none"
    <3> SUFFICES ASSUME ops[n].kind = "pull" PROVE got # "none"
      OBVIOUS
    <3>1. e = Event(n, "image", "pull", ops[n].ref, Bare(ops[n].ref), pruneOwnerInfo(ops[n].id),
                    got # "none")
      BY DEF Emitted
    <3> QED  BY <3>1 DEF Event
  <2>3. ops[n].kind \in {"rmi", "remove", "create"} => got = "id"
    BY DEF Learnt
  <2> QED  BY <1>0, <2>1, <2>2, <2>3, AnswerShapes
<1>2. maps' = maps /\ rows' = rows /\ images' = images
  BY DEF DaemonSucceeds, tableVars
<1>3. /\ ops'[n].todo = t /\ ops'[n].temporary = ops[n].temporary
      /\ ops'[n].kind = ops[n].kind /\ ops'[n].thing = ops[n].thing
      /\ Finished(ops'[n]) = Finished(ops[n]) /\ Pending(ops'[n]) = Pending(ops[n])
      /\ \A i : Pruned(ops'[n], i) = Pruned(ops[n], i)
      /\ Info(ops'[n]) = Info(ops[n])
  BY <1>0, <1>1, GoesFixed DEF Goes
<1>4. Waiting(ops[n].todo) /\ ops[n].todo # <<>>
  BY <1>0, NotDaemon DEF DaemonActs, DaemonSucceeds, AtStep
<1>5. ops[n].temporary \subseteq maps
  BY <1>4 DEF Ready, Free, Busy
<1>6. Fits(ops[n], e)
  BY <1>0, EmittedFits
<1>7. Keeps(ops[n], ops[n].todo, ops[n].temporary) /\ ops[n].kind \in AllKinds
  BY <1>0, PlanOf
<1>8. CASE ops[n].kind \in RefKinds
  <2>1. ops[n].ref # NoRef
    BY <1>6, <1>8 DEF Fits, RefKinds
  <2>2. ops[n].kind = "build" => ~Has(ops[n].todo, "headers")
    <3> SUFFICES ASSUME ops[n].kind = "build" PROVE ~Has(ops[n].todo, "headers")
      OBVIOUS
    <3>1. e = Event(n, "image", "tag", ops[n].ref, Bare(ops[n].ref), pruneOwnerInfo(ops[n].id),
                    "headers" \notin {ops[n].todo[k] : k \in 1..Len(ops[n].todo)})
      BY <2>1 DEF Emitted
    <3>2. "headers" \notin {ops[n].todo[k] : k \in 1..Len(ops[n].todo)}
      BY <3>1 DEF Event
    <3> QED  BY <3>2 DEF Has
  <2>3. Pending(ops[n]) \in ops[n].temporary
    BY <1>4, <1>7, <1>8, <2>1, <2>2 DEF Keeps
  <2>4. RefSafe(maps', ops'[n])
    BY <1>1, <1>2, <1>3, <1>5, <1>8, <2>3 DEF RefSafe
  <2> QED  BY <1>3, <1>8, <2>4 DEF Safe, RefKinds
<1>9. CASE ops[n].kind = "rmi"
  <2>1. PICK i \in Images : i = ops[n].thing
    BY <1>0, <1>9, PlanOf DEF Asked
  <2>2. PICK info : /\ info = IF Tracked(i) THEN [uid |-> images[i].owner, sudo |-> images[i].sudo]
                              ELSE pruneOwnerInfo(ops[n].id)
                    /\ e = Event(n, "image", "delete", i, NoRef, info,
                                 Tracked(i) /\ ops[n].temporary = {})
    BY <1>9, <2>1 DEF Emitted
  <2>3. /\ Tracked(i) /\ ops[n].temporary = {} /\ e.uid = info.uid /\ e.sudo = info.sudo
    BY <2>2 DEF Event
  <2>4. e.uid = images[i].owner /\ e.sudo = images[i].sudo
    BY <2>2, <2>3
  <2>5. RmiSafe(maps', images', ops'[n], e)
    BY <1>1, <1>2, <1>3, <1>9, <2>1, <2>3, <2>4 DEF RmiSafe, Tracked
  <2>6. i \notin present'
    BY <1>9, <2>1 DEF DaemonSucceeds, MakingKinds
  <2>7. ASSUME NEW r \in Refs PROVE tagOf'[r] # i
    <3>1. tagOf' = [q \in Refs |-> IF tagOf[q] = i THEN NoImage ELSE tagOf[q]]
      BY <1>9, <2>1 DEF DaemonSucceeds, MakingKinds
    <3> QED  BY <3>1, KeysAssumption
  <2> QED  BY <1>3, <1>9, <2>1, <2>3, <2>5, <2>6, <2>7 DEF Safe, RefKinds
<1>10. CASE ops[n].kind = "create"
  <2>1. Pruned(ops[n], Info(ops[n])) \in maps
    BY <1>5, <1>7, <1>10 DEF Keeps
  <2>2. CreateSafe(maps', rows', ops'[n])
    BY <1>1, <1>2, <1>3, <1>10, <2>1 DEF CreateSafe
  <2> QED  BY <1>3, <1>10, <2>2 DEF Safe, RefKinds
<1>11. CASE ops[n].kind = "remove"
  <2>1. PICK w \in Row(ops[n].thing) :
            e = Event(n, IF ops[n].thing \in Nets THEN "network" ELSE "volume", "destroy",
                      ops[n].thing, NoRef, [uid |-> w.uid, sudo |-> w.sudo],
                      /\ (IF ops[n].thing \in Nets THEN "network" ELSE "volume") = "network"
                      /\ w.sudo /\ ops[n].key = ops[n].thing)
    BY <1>11 DEF Emitted
  <2>2. w.sudo
    BY <2>1 DEF Event
  <2>3. w \in rows /\ w.key = ops[n].thing /\ w.sudo = TRUE
    BY <1>0, <2>2 DEF Row, DaemonTyped
  <2>4. RemoveSafe(maps', rows', ops'[n])
    BY <1>1, <1>2, <1>3, <1>11, <2>3 DEF RemoveSafe
  <2> QED  BY <1>3, <1>11, <2>4 DEF Safe, RefKinds
<1>12. CASE ops[n].kind = "load"
  BY <1>3, <1>12 DEF Safe, RefKinds
<1> QED  BY <1>7, <1>8, <1>9, <1>10, <1>11, <1>12 DEF AllKinds, MakingKinds, RefKinds

\* An operation's new entries carry its own caller.
LEMMA OpMine ==
    ASSUME IInv, ShapeInv, Apart, Mine, NEW n \in DOMAIN ops, OpStep(n)
    PROVE  Mine'
<1>0. OpsSound /\ OpsShaped /\ Narrows /\ Busy(n) /\ Elsewhere(ops[n].touches)
  BY OpNarrows, OpElsewhere DEF IInv, ShapeInv
<1> SUFFICES ASSUME NEW k \in DOMAIN ops, Free(k)', ops[k].kind \in RefKinds \cup {"create"},
                    NEW x \in maps', About(x) \cap ops[k].touches # {}
             PROVE  x.uid = ops[k].id.uid /\ x.sudo = IsSudoCommand(ops[k].id)
  BY <1>0 DEF Mine, Narrows
<1>1. Free(k)
  BY <1>0 DEF Narrows
<1>2. CASE x \in maps
  BY <1>1, <1>2 DEF Mine
<1>3. CASE x \notin maps /\ k # n
  <2>1. ops[n].touches \cap ops[k].touches = {}
    BY <1>0, <1>1, <1>3 DEF Apart
  <2>2. About(x) \cap ops[n].touches # {}
    BY <1>0, <1>3 DEF Elsewhere, MapsKept
  <2>3. \E a : About(x) = {a}
    BY DEF About
  <2> QED  BY <2>1, <2>2, <2>3
<1>4. CASE x \notin maps /\ k = n
  <2> DEFINE own == x.uid = ops[n].id.uid /\ x.sudo = IsSudoCommand(ops[n].id)
  <2>1. \A m, key : /\ Entry(m, key, pruneOwnerInfo(ops[n].id)).uid = ops[n].id.uid
                    /\ Entry(m, key, pruneOwnerInfo(ops[n].id)).sudo = IsSudoCommand(ops[n].id)
    BY DEF Entry, pruneOwnerInfo
  <2>2. CASE Complete(n)
    <3>1. x \in Completed(ops[n])
      BY <1>4, <2>2 DEF Complete, Arm, Store
    <3>2. CASE ops[n].kind = "buildkit"
      <4>1. PICK y \in ops[n].temporary : x = [y EXCEPT !.map = "completedBuildOwner"]
        BY <3>1, <3>2 DEF Completed
      <4>2. y = Pending(ops[n])
        BY <1>0, <3>2, PlanOf DEF Keeps, RefKinds
      <4>3. x = Entry("completedBuildOwner", ops[n].key, pruneOwnerInfo(ops[n].id))
        BY <3>2, <4>1, <4>2 DEF Pending, Entry, Info
      <4> QED  BY <1>4, <2>1, <4>3
    <3>3. CASE ops[n].kind = "pull"
      BY <1>4, <2>1, <3>1, <3>3 DEF Completed
    <3>4. CASE ops[n].kind \in {"build", "commit", "create"}
      BY <1>4, <2>1, <3>1, <3>4 DEF Completed
    <3> QED  BY <1>4, <3>2, <3>3, <3>4 DEF RefKinds
  <2>3. CASE CompleteId(n)
    BY <1>4, <2>1, <2>3 DEF CompleteId, Arm, Store
  <2>4. CASE BuildHeaders(n)
    <3>1. maps' = Store(maps, Headed(ops[n]))
      BY <1>0, <2>4, HeadersGoes
    <3>2. x \in Headed(ops[n])
      BY <1>4, <3>1 DEF Store
    <3> QED  BY <1>4, <2>1, <3>2 DEF Headed
  <2>5. CASE Clear(n)
    BY <1>4, <2>5 DEF Clear, CompareAndDelete
  <2>6. CASE maps' = maps
    BY <1>4, <2>6
  <2> QED  BY <2>2, <2>3, <2>4, <2>5, <2>6
           DEF OpStep, DaemonActs, DaemonSucceeds, DaemonFails, OwnImage, AccessImage, DropImage, RegisterName,
               ForgetName, TrackBuildKitImages, TrackFails
<1> QED  BY <1>2, <1>3, <1>4

LEMMA OpReady ==
    ASSUME IInv, ShapeInv, Apart, Ready, NEW n \in DOMAIN ops, OpStep(n)
    PROVE  Ready'
<1>0. OpsSound /\ OpsShaped /\ Narrows /\ Busy(n) /\ Elsewhere(ops[n].touches)
  BY OpNarrows, OpElsewhere DEF IInv, ShapeInv
<1> SUFFICES ASSUME NEW k \in DOMAIN ops, Free(k)', Waiting(ops'[k].todo)
             PROVE  ops'[k].temporary \subseteq maps'
  BY <1>0 DEF Ready, Narrows
<1>1. Free(k) /\ Waiting(ops[k].todo) /\ ops[k].temporary \subseteq maps
  BY <1>0 DEF Narrows, Ready
<1>2. CASE k # n
  <2>1. ops'[k] = ops[k]
    <3>1. PICK s, E : Goes(n, s, E)
      BY <1>0, OpGoes
    <3> QED  BY <1>0, <1>2, <3>1, GoesFixed
  <2>2. ops[n].touches \cap ops[k].touches = {}
    BY <1>0, <1>1, <1>2 DEF Apart
  <2>3. \A x \in ops[k].temporary : About(x) # {} /\ About(x) \cap ops[n].touches = {}
    BY <1>0, <2>2, OwnEntries
  <2> QED  BY <1>0, <1>1, <2>1, <2>3 DEF Elsewhere, MapsKept
<1>3. CASE k = n
  <2>1. CASE DaemonActs(n) \/ DaemonFails(n)
    <3>0. PICK got \in Gots : Answering(n, got)
      BY <2>1, DaemonAnswers
    <3>1. PICK t : Goes(n, t, ops[n].temporary) /\ ~Waiting(t)
      BY <1>0, <3>0, AnswerShapes
    <3> QED  BY <1>3, <3>1 DEF Goes
  <2>2. CASE BuildHeaders(n)
    <3>1. Goes(n, Tail(ops[n].todo), Headed(ops[n])) /\ maps' = Store(maps, Headed(ops[n]))
      BY <1>0, <2>2, HeadersGoes
    <3>2. ops'[n].temporary = Headed(ops[n])
      BY <3>1 DEF Goes
    <3> QED  BY <1>3, <3>1, <3>2 DEF Store
  <2>3. CASE TrackBuildKitImages(n) \/ TrackFails(n)
    BY <1>0, <1>1, <1>3, <2>3, TrackShapes
  <2>4. CASE \E h \in Steps : Plain(n, h)
    BY <1>0, <1>1, <1>3, <2>4, PlainShapes
  <2> QED  BY <2>1, <2>2, <2>3, <2>4, OpCases
<1> QED  BY <1>2, <1>3

-----------------------------------------------------------------------------
(* Every step keeps the second invariant. *)

LEMMA LineOut ==
    ASSUME NEW e, NEW s, NEW v, reader # NoReader, reader = Line(e, s, v)
    PROVE  Out(e)
  BY DEF Out, Line

\* A step of another operation.
LEMMA OtherStep ==
    ASSUME IInv, ShapeInv, SafeInv, NEW e, Out(e), Covered(e),
           NEW T, T \cap ops[e.op].touches = {}, Elsewhere(T)
    PROVE  /\ Safe(maps', rows', images', ops[e.op], e)
           /\ \A s : SafeReading(maps, rows, ops[e.op], e, s)
                        => SafeReading(maps', rows', ops[e.op], e, s)
           /\ ops[e.op].kind = "rmi" => /\ ops[e.op].temporary = {} /\ ops[e.op].thing \notin present'
                                        /\ \A r \in Refs : tagOf'[r] # ops[e.op].thing
<1>0. OpsSound /\ OpsShaped /\ EventsFit /\ Gone /\ EventsSafe
  BY DEF IInv, ShapeInv, SafeInv
<1>1. PICK k \in DOMAIN ops : k = e.op /\ Fits(ops[k], e)
  BY <1>0 DEF EventsFit, Covered
<1>2. Safe(maps, rows, images, ops[k], e)
  BY <1>0, <1>1 DEF EventsSafe
<1>3. ASSUME ops[k].kind = "rmi"
      PROVE  /\ images'[ops[k].thing] = images[ops[k].thing]
             /\ ops[k].temporary = {} /\ ops[k].thing \notin present'
             /\ \A r \in Refs : tagOf'[r] # ops[k].thing
  <2>1. /\ ops[k].temporary = {} /\ ops[k].thing \notin present
        /\ \A r \in Refs : tagOf[r] # ops[k].thing
    BY <1>0, <1>1, <1>3 DEF Gone
  <2>2. ops[k].thing \in Images /\ ops[k].thing \notin T
    BY <1>0, <1>1, <1>3, OwnEntries, PlanOf DEF Asked
  <2> QED  BY <2>1, <2>2 DEF Elsewhere, ImagesKept
<1>4. MapsKept(T, maps, maps') /\ RowsKept(T, rows, rows') /\ T \cap ops[k].touches = {}
  BY <1>1 DEF Elsewhere
<1>5. /\ Safe(maps', rows', images', ops[k], e)
      /\ \A s : SafeReading(maps, rows, ops[k], e, s) => SafeReading(maps', rows', ops[k], e, s)
  BY <1>0, <1>1, <1>2, <1>3, <1>4, SafeElsewhere
<1> QED  BY <1>1, <1>3, <1>5

LEMMA OpSafe ==
    ASSUME IInv, ShapeInv, SafeInv, NEW n \in DOMAIN ops, OpStep(n)
    PROVE  SafeInv'
<1>0. /\ OpsSound /\ OpsShaped /\ EventsFit
      /\ Apart /\ Mine /\ Ready /\ Gone /\ EventsSafe /\ ReaderSafe
  BY DEF IInv, ShapeInv, SafeInv
<1>1. Narrows /\ Busy(n) /\ Elsewhere(ops[n].touches)
  BY <1>0, OpNarrows, OpElsewhere
<1>2. Apart' /\ Mine' /\ Ready'
  BY <1>0, <1>1, ApartKept, OpMine, OpReady
<1>3. reader' = reader /\ (DaemonActs(n) \/ events' = events)
  BY <1>0, OpEventsFit
<1>4. PICK t, E : Goes(n, t, E)
  BY <1>0, OpGoes
<1>5. \A k \in DOMAIN ops \ {n} : ops'[k] = ops[k]
  BY <1>0, <1>4, GoesFixed
<1>6. \A e : Out(e)' => \/ Out(e)
                         \/ \E got \in Learnt(ops[n].kind) :
                               DaemonSucceeds(n, got) /\ e \in Emitted(n, got)
  <2>1. CASE events' = events
    BY <1>3, <2>1 DEF Out
  <2>2. CASE DaemonActs(n)
    <3>1. PICK got \in Learnt(ops[n].kind) : DaemonSucceeds(n, got)
      BY <2>2 DEF DaemonActs
    <3>2. events' = events \cup Emitted(n, got)
      BY <3>1 DEF DaemonSucceeds
    <3> QED  BY <1>3, <3>1, <3>2 DEF Out
  <2> QED  BY <1>3, <2>1, <2>2
<1>7. ASSUME NEW e, Out(e)', Covered(e)'
      PROVE  /\ Safe(maps', rows', images', ops'[e.op], e)
             /\ ops'[e.op].kind = "rmi" => /\ ops'[e.op].temporary = {}
                                           /\ ops'[e.op].thing \notin present'
                                           /\ \A r \in Refs : tagOf'[r] # ops'[e.op].thing
             /\ Out(e) => \A s : SafeReading(maps, rows, ops[e.op], e, s)
                                    => SafeReading(maps', rows', ops'[e.op], e, s)
             /\ Out(e) => Covered(e)
  <2>1. e.op \in DOMAIN ops /\ Covered(e)
    <3>1. e.op \in DOMAIN ops
      BY <1>0, <1>6, <1>7, EmittedFits DEF EventsFit
    <3> QED  BY <1>1, <1>7, <3>1 DEF Covered, Narrows
  <2>2. CASE ~Out(e)
    <3>0. PICK got \in Learnt(ops[n].kind) : DaemonSucceeds(n, got) /\ e \in Emitted(n, got)
      BY <1>6, <1>7, <2>2
    <3>1. e.op = n
      BY <1>0, <3>0, EmittedFits
    <3>2. e.covered /\ ~ops[n].contended
      BY <2>1, <3>1 DEF Covered
    <3>3. ops'[n].kind = ops[n].kind
      BY <1>4 DEF Goes
    <3> QED  BY <1>0, <2>2, <3>0, <3>1, <3>2, <3>3, EmittedSafe
  <2>3. CASE Out(e) /\ e.op # n
    <3>1. Free(e.op)
      BY <2>1, <2>3, CoveredFree
    <3>2. ops[n].touches \cap ops[e.op].touches = {}
      BY <1>0, <1>1, <2>1, <2>3, <3>1 DEF Apart
    <3>3. ops'[e.op] = ops[e.op]
      BY <1>5, <2>1, <2>3
    <3> QED  BY <1>1, <2>1, <2>3, <3>2, <3>3, OtherStep
  <2>4. CASE Out(e) /\ e.op = n
    <3>1. ~Waiting(ops[n].todo) /\ Fits(ops[n], e)
      BY <1>0, <2>1, <2>4 DEF EventsFit, Covered
    <3>2. Safe(maps, rows, images, ops[n], e)
      BY <1>0, <2>1, <2>4 DEF EventsSafe
    <3>3. ops[n].kind = "rmi" => /\ ops[n].temporary = {} /\ ops[n].thing \notin present
                                 /\ \A r \in Refs : tagOf[r] # ops[n].thing
      BY <1>0, <2>1, <2>4 DEF Gone
    <3>4. ops'[n].kind = ops[n].kind /\ ops'[n].thing = ops[n].thing
      BY <1>4 DEF Goes
    <3>5. present' = present /\ tagOf' = tagOf
      <4>1. ~DaemonActs(n)
        BY <1>0, <3>1, NotDaemon
      <4> QED  BY <4>1 DEF OpStep, DaemonFails, BuildHeaders, OwnImage, AccessImage, Clear, Complete,
                      CompleteId, DropImage, RegisterName, ForgetName, TrackBuildKitImages,
                      TrackFails, daemonVars
    <3>6. ops[n].kind = "rmi" => ops'[n].temporary = ops[n].temporary
      <4>1. CASE \E h \in Steps : Plain(n, h)
        BY <1>0, <4>1, PlainHas
      <4>2. CASE BuildHeaders(n)
        BY <1>0, <4>2, HeadersGoes
      <4>3. CASE TrackBuildKitImages(n) \/ TrackFails(n)
        BY <1>0, <4>3, TrackGoes
      <4> QED  BY <1>0, <3>1, <4>1, <4>2, <4>3, OpCases, NotDaemon
    <3>7. /\ Safe(maps', rows', images', ops'[n], e)
          /\ \A s : SafeReading(maps, rows, ops[n], e, s)
                       => SafeReading(maps', rows', ops'[n], e, s)
      BY <1>0, <3>1, <3>2, <3>3, OwnStep
    <3> QED  BY <2>1, <2>4, <3>3, <3>4, <3>5, <3>6, <3>7
  <2> QED  BY <2>2, <2>3, <2>4
<1>8. EventsSafe' /\ Gone'
  BY <1>7 DEF EventsSafe, Gone
<1>9. ASSUME NEW e, NEW s, NEW v, reader' # NoReader, reader' = Line(e, s, v), Covered(e)'
      PROVE  IF v.found THEN v.shown = ShownTo(e)
             ELSE v = Undecided /\ SafeReading(maps', rows', ops'[e.op], e, s)
  <2>1. reader # NoReader /\ reader = Line(e, s, v)
    BY <1>3, <1>9
  <2>2. Out(e)
    BY <2>1, LineOut
  <2>3. Out(e)'
    BY <1>3, <1>9 DEF Out, Line
  <2>4. /\ \A q : SafeReading(maps, rows, ops[e.op], e, q) => SafeReading(maps', rows', ops'[e.op], e, q)
        /\ Covered(e)
    BY <1>7, <1>9, <2>2, <2>3
  <2> QED  BY <1>0, <2>1, <2>4 DEF ReaderSafe
<1>10. ReaderSafe'
  BY <1>9 DEF ReaderSafe
<1> QED  BY <1>2, <1>8, <1>10 DEF SafeInv

\* A timer of m: m is not waiting for the daemon, and no event of m is out.
LEMMA TimerSafe ==
    ASSUME IInv, ShapeInv, SafeInv, NEW t \in timers, TimerFires(t)
    PROVE  SafeInv'
<1>0. /\ OpsSound /\ TimersTyped /\ OpsShaped /\ EventsFit /\ TimersOwn
      /\ Apart /\ Mine /\ Ready /\ Gone /\ EventsSafe /\ ReaderSafe
  BY DEF IInv, ShapeInv, SafeInv
<1>1. PICK m \in DOMAIN ops : m = t.op
  BY <1>0 DEF TimersTyped
<1>2. /\ ops' = ops /\ timers' \subseteq timers /\ events' = events /\ reader' = reader
      /\ rows' = rows /\ images' = images /\ present' = present /\ tagOf' = tagOf
      /\ maps' = CompareAndDelete(maps, {t.entry})
  BY DEF TimerFires, tableVars, daemonVars
<1>3. Busy(m) /\ ~Watched(m)
  BY <1>1 DEF Busy, Watched, TimerFires
<1>4. \A e : Out(e)' <=> Out(e)
  BY <1>2 DEF Out
<1>5. Narrows /\ Apart'
  BY <1>0, <1>2, <1>4, QuietNarrows, ApartKept
<1>6. Elsewhere(ops[m].touches)
  <2>1. \A x \in {t.entry} : About(x) \subseteq ops[m].touches
    BY <1>0, <1>1 DEF TimersOwn
  <2>2. MapsKept(ops[m].touches, maps, maps')
    BY <1>2, <2>1, DeleteKept
  <2> QED  BY <1>2, <2>2 DEF Elsewhere, RowsKept, ImagesKept
<1>7. ASSUME NEW k \in DOMAIN ops, Free(k), k # m PROVE ops[m].touches \cap ops[k].touches = {}
  BY <1>0, <1>3, <1>7 DEF Apart
<1>8. Mine'
  BY <1>0, <1>2, <1>5 DEF Mine, Narrows, CompareAndDelete
<1>9. Ready'
  <2> SUFFICES ASSUME NEW k \in DOMAIN ops, Free(k)', Waiting(ops[k].todo), NEW x \in ops[k].temporary
               PROVE  x \in maps'
    BY <1>2 DEF Ready
  <2>1. Free(k) /\ x \in maps
    BY <1>0, <1>5 DEF Narrows, Ready
  <2>2. k # m
    BY <1>0, <1>1 DEF TimersOwn
  <2>3. About(x) # {} /\ About(x) \cap ops[m].touches = {}
    BY <1>0, <1>7, <2>1, <2>2, OwnEntries
  <2> QED  BY <1>6, <2>1, <2>3 DEF Elsewhere, MapsKept
<1>10. ASSUME NEW e, Out(e), Covered(e)
       PROVE  /\ Safe(maps', rows', images', ops[e.op], e)
              /\ \A s : SafeReading(maps, rows, ops[e.op], e, s)
                           => SafeReading(maps', rows', ops[e.op], e, s)
  <2>1. Free(e.op) /\ e.op \in DOMAIN ops /\ e.op # m
    BY <1>0, <1>3, <1>10, CoveredFree, WatchedOut DEF EventsFit
  <2> QED  BY <1>6, <1>7, <1>10, <2>1, OtherStep
<1>11. EventsSafe' /\ Gone'
  BY <1>0, <1>2, <1>4, <1>10 DEF EventsSafe, Gone, Covered
<1>12. ReaderSafe'
  <2> SUFFICES ASSUME NEW e, NEW s, NEW v, reader # NoReader, reader = Line(e, s, v), Covered(e)
               PROVE  IF v.found THEN v.shown = ShownTo(e)
                      ELSE v = Undecided /\ SafeReading(maps', rows', ops[e.op], e, s)
    BY <1>2 DEF ReaderSafe, Covered
  <2>1. Out(e)
    BY LineOut
  <2> QED  BY <1>0, <1>10, <2>1 DEF ReaderSafe
<1> QED  BY <1>5, <1>8, <1>9, <1>11, <1>12 DEF SafeInv

LEMMA SameSafe ==
    ASSUME NEW o, NEW p, SameOp(o, p), NEW M, NEW R, NEW I, NEW e
    PROVE  /\ Safe(M, R, I, o, e) => Safe(M, R, I, p, e)
           /\ \A s : SafeReading(M, R, o, e, s) => SafeReading(M, R, p, e, s)
<1>1. /\ Pending(p) = Pending(o) /\ Finished(p) = Finished(o)
      /\ \A i : Pruned(p, i) = Pruned(o, i)
      /\ Info(p) = Info(o) /\ SudoInfo(p) = SudoInfo(o) /\ RowFor(p) = RowFor(o)
  BY SameFixed
<1>2. p.kind = o.kind /\ p.thing = o.thing /\ p.todo = o.todo /\ p.temporary = o.temporary
  BY DEF SameOp
<1>3. Safe(M, R, I, o, e) => Safe(M, R, I, p, e)
  BY <1>1, <1>2 DEF Safe, RefSafe, RmiSafe, CreateSafe, RemoveSafe
<1>4. ASSUME NEW s, SafeReading(M, R, o, e, s) PROVE SafeReading(M, R, p, e, s)
  BY <1>1, <1>2, <1>4 DEF SafeReading, RefReading, RmiReading, CreateReading, RemoveReading
<1> QED  BY <1>3, <1>4

\* What a request registers is about its names and carries its caller.
LEMMA PreregisteredAbout ==
    ASSUME NEW q \in Requests, NEW x \in Preregistered(q)
    PROVE  /\ About(x) \subseteq Touches(q)
           /\ x.uid = q.id.uid /\ x.sudo = IsSudoCommand(q.id)
<1>1. \/ /\ q.ref # NoRef
         /\ \E map \in {"pendingPullRefs", "pendingBuildTags"} :
                x = Entry(map, q.key, pruneOwnerInfo(q.id))
      \/ x = Entry("completedPruneOwner", q.thing, pruneOwnerInfo(q.id))
  BY RequestNames DEF Preregistered
<1>2. x.uid = q.id.uid /\ x.sudo = IsSudoCommand(q.id)
  BY <1>1 DEF Entry, pruneOwnerInfo
<1>3. q.thing \in Things /\ q.thing \in Touches(q)
  BY RequestFacts DEF Touches
<1>4. CASE x = Entry("completedPruneOwner", q.thing, pruneOwnerInfo(q.id))
  BY <1>2, <1>3, <1>4 DEF About, Entry
<1>5. CASE /\ q.ref # NoRef
           /\ \E map \in {"pendingPullRefs", "pendingBuildTags"} :
                  x = Entry(map, q.key, pruneOwnerInfo(q.id))
  <2>1. q.ref \in Refs /\ q.key \in {q.ref, Bare(q.ref)} /\ q.ref.repo \in Touches(q)
    BY <1>5, RequestFacts, RequestNames DEF Touches
  <2>2. q.key \in RefKeys /\ q.key.repo = q.ref.repo
    BY <2>1 DEF RefKeys, Bare
  <2>3. q.key \notin Things
    BY <2>2, KeysAssumption DEF Things
  <2>4. x.key = q.key /\ x.map # "completedPruneOwner"
    BY <1>5 DEF Entry
  <2> QED  BY <1>2, <2>1, <2>2, <2>3, <2>4 DEF About
<1> QED  BY <1>1, <1>2, <1>4, <1>5

LEMMA BeginSafe ==
    ASSUME IInv, ShapeInv, SafeInv, NEW q \in Requests, Begin(q)
    PROVE  SafeInv'
<1>0. /\ OpsSound /\ DaemonTyped /\ OpsShaped /\ EventsFit /\ TimersOwn
      /\ Apart /\ Mine /\ Ready /\ Gone /\ EventsSafe /\ ReaderSafe
  BY DEF IInv, ShapeInv, SafeInv
<1>1. PICK m : m = Len(ops) + 1
  OBVIOUS
<1>2. /\ DOMAIN ops' = DOMAIN ops \cup {m} /\ m \notin DOMAIN ops
      /\ \A k \in DOMAIN ops : /\ SameOp(ops[k], ops'[k])
                               /\ ops'[k].contended <=> ops[k].contended \/ Overlaps(k, q)
      /\ ops'[m].temporary = Preregistered(q) /\ ops'[m].touches = Touches(q)
      /\ ops'[m].contended <=> \E n \in DOMAIN ops : Overlaps(n, q)
      /\ \E first \in FirstSteps(q) : NewOp(ops'[m], q, first)
  BY <1>0, <1>1, BeginOps
<1>3. /\ maps' = Store(maps, Preregistered(q))
      /\ timers' = timers /\ events' = events /\ reader' = reader
      /\ rows' = rows /\ images' = images /\ present' = present /\ tagOf' = tagOf
  BY DEF Begin, tableVars, daemonVars
<1>4. \A k \in DOMAIN ops :
          /\ ops'[k].kind = ops[k].kind /\ ops'[k].id = ops[k].id /\ ops'[k].todo = ops[k].todo
          /\ ops'[k].touches = ops[k].touches /\ ops'[k].temporary = ops[k].temporary
          /\ ops'[k].thing = ops[k].thing
  BY <1>2 DEF SameOp
<1>5. \A e : Out(e)' <=> Out(e)
  BY <1>3 DEF Out
<1>6. ASSUME NEW k \in DOMAIN ops, Lingers(k), ~Overlaps(k, q)
      PROVE  Touches(q) \cap ops[k].touches = {}
  BY <1>6 DEF Overlaps
<1>7. \A k \in DOMAIN ops : Busy(k)' <=> Busy(k)
  BY <1>3, <1>4 DEF Busy
<1>8. ASSUME NEW k \in DOMAIN ops PROVE Busy(k) \/ Watched(k) => Lingers(k)
  BY DEF Busy, Watched, Lingers
<1>9. ASSUME NEW k \in DOMAIN ops, Free(k)'
      PROVE  Free(k) /\ Touches(q) \cap ops[k].touches = {}
  <2>1. Watched(k)' => Watched(k)
    BY <1>3 DEF Watched, Reading
  <2>2. Free(k) /\ ~Overlaps(k, q)
    BY <1>2, <1>7, <1>9, <2>1 DEF Free
  <2>3. Lingers(k)
    BY <1>8, <2>2 DEF Free
  <2> QED  BY <1>6, <2>2, <2>3
<1>10. Free(m)' => \A k \in DOMAIN ops : Lingers(k) => Touches(q) \cap ops[k].touches = {}
  BY <1>2, <1>6 DEF Free
<1>11. Apart'
  <2> SUFFICES ASSUME NEW n \in DOMAIN ops', NEW k \in DOMAIN ops', Free(n)', n # k, Busy(k)'
               PROVE  ops'[k].touches \cap ops'[n].touches = {}
    BY DEF Apart
  <2>1. CASE n \in DOMAIN ops /\ k \in DOMAIN ops
    BY <1>0, <1>4, <1>7, <1>9, <2>1 DEF Apart
  <2>2. CASE n \in DOMAIN ops /\ k = m
    BY <1>2, <1>4, <1>9, <2>2
  <2>3. CASE n = m /\ k \in DOMAIN ops
    BY <1>2, <1>4, <1>7, <1>8, <1>10, <2>3
  <2> QED  BY <1>2, <2>1, <2>2, <2>3
<1>12. \A x \in Preregistered(q) : About(x) \subseteq Touches(q)
  BY PreregisteredAbout
<1>13. Mine'
  <2> SUFFICES ASSUME NEW k \in DOMAIN ops', Free(k)', ops'[k].kind \in RefKinds \cup {"create"},
                      NEW x \in maps', About(x) \cap ops'[k].touches # {}
               PROVE  x.uid = ops'[k].id.uid /\ x.sudo = IsSudoCommand(ops'[k].id)
    BY DEF Mine
  <2>1. x \in maps \/ x \in Preregistered(q)
    BY <1>3 DEF Store
  <2>2. CASE k \in DOMAIN ops /\ x \in maps
    BY <1>0, <1>4, <1>9, <2>2 DEF Mine
  <2>3. CASE k \in DOMAIN ops /\ x \in Preregistered(q)
    BY <1>4, <1>9, <1>12, <2>3
  <2>4. CASE k = m /\ x \in maps
    <3>1. PICK j \in DOMAIN ops : Lingers(j) /\ About(x) \subseteq ops[j].touches
      BY <1>0, <2>4, EntryHeld
    <3> QED  BY <1>2, <1>10, <2>4, <3>1
  <2>5. CASE k = m /\ x \in Preregistered(q)
    <3>1. ops'[m].id = q.id
      BY <1>2 DEF NewOp
    <3> QED  BY <2>5, <3>1, PreregisteredAbout
  <2> QED  BY <1>2, <2>1, <2>2, <2>3, <2>4, <2>5
<1>14. MapsKept(Touches(q), maps, maps') /\ Elsewhere(Touches(q))
  <2>1. MapsKept(Touches(q), maps, maps')
    BY <1>3, <1>12, StoreKept
  <2> QED  BY <1>3, <2>1 DEF Elsewhere, RowsKept, ImagesKept
<1>15. Ready'
  <2> SUFFICES ASSUME NEW k \in DOMAIN ops', Free(k)', Waiting(ops'[k].todo),
                      NEW x \in ops'[k].temporary
               PROVE  x \in maps'
    BY DEF Ready
  <2>1. CASE k = m
    BY <1>2, <1>3, <2>1 DEF Store
  <2>2. CASE k \in DOMAIN ops
    <3>1. x \in maps /\ x \in ops[k].temporary
      BY <1>0, <1>4, <1>9, <2>2 DEF Ready
    <3>2. About(x) # {} /\ About(x) \cap Touches(q) = {}
      BY <1>0, <1>9, <2>2, <3>1, OwnEntries
    <3> QED  BY <1>14, <3>1, <3>2 DEF MapsKept
  <2> QED  BY <1>2, <2>1, <2>2
<1>16. ASSUME NEW e, Out(e), Covered(e)'
       PROVE  /\ Covered(e) /\ e.op \in DOMAIN ops
              /\ Safe(maps', rows', images', ops'[e.op], e)
              /\ \A s : SafeReading(maps, rows, ops[e.op], e, s)
                           => SafeReading(maps', rows', ops'[e.op], e, s)
  <2>1. e.op \in DOMAIN ops
    BY <1>0, <1>16 DEF EventsFit
  <2>2. Covered(e) /\ ~Overlaps(e.op, q)
    BY <1>2, <1>16, <2>1 DEF Covered
  <2>3. Free(e.op)
    BY <1>16, <2>2, CoveredFree
  <2>4. Touches(q) \cap ops[e.op].touches = {}
    BY <1>6, <1>8, <2>1, <2>2, <2>3 DEF Free
  <2>5. /\ Safe(maps', rows', images', ops[e.op], e)
        /\ \A s : SafeReading(maps, rows, ops[e.op], e, s)
                     => SafeReading(maps', rows', ops[e.op], e, s)
    BY <1>14, <1>16, <2>2, <2>4, OtherStep
  <2>6. SameOp(ops[e.op], ops'[e.op])
    BY <1>2, <2>1
  <2>7. /\ Safe(maps', rows', images', ops'[e.op], e)
        /\ \A s : SafeReading(maps', rows', ops[e.op], e, s)
                     => SafeReading(maps', rows', ops'[e.op], e, s)
    BY <2>5, <2>6, SameSafe
  <2> QED  BY <2>1, <2>2, <2>5, <2>7
<1>17. EventsSafe'
  BY <1>5, <1>16 DEF EventsSafe
<1>18. Gone'
  BY <1>0, <1>3, <1>4, <1>5, <1>16 DEF Gone
<1>19. ReaderSafe'
  <2> SUFFICES ASSUME NEW e, NEW s, NEW v, reader # NoReader, reader = Line(e, s, v), Covered(e)'
               PROVE  IF v.found THEN v.shown = ShownTo(e)
                      ELSE v = Undecided /\ SafeReading(maps', rows', ops'[e.op], e, s)
    BY <1>3 DEF ReaderSafe
  <2>1. Out(e)
    BY LineOut
  <2> QED  BY <1>0, <1>16, <2>1 DEF ReaderSafe
<1> QED  BY <1>11, <1>13, <1>15, <1>17, <1>18, <1>19 DEF SafeInv

-----------------------------------------------------------------------------
(* The lookups of a line. *)

LEMMA Joined ==
    ASSUME NEW S, NEW s, NEW t, NEW u, s \in Seq(S), t \in Seq(S), u = s \o t
    PROVE  /\ u \in Seq(S) /\ Len(u) = Len(s) + Len(t) /\ u \o <<>> = u
           /\ \A i \in 1..Len(s) + Len(t) : u[i] = IF i <= Len(s) THEN s[i] ELSE t[i - Len(s)]
  BY ConcatProperties, ConcatEmptySeq

LEMMA PairFacts ==
    ASSUME NEW a, NEW b, NEW s, s = <<a, b>>
    PROVE  Head(s) = a /\ Len(s) # 1 /\ Tail(s) = <<b>> /\ <<a>> \o <<b>> = s
<1>1. <<a>> \in Seq({a, b}) /\ <<b>> \in Seq({a, b}) /\ <<a, b>> \in Seq({a, b})
  OBVIOUS
<1>2. PICK p, q : p = <<a>> /\ q = <<b>>
  OBVIOUS
<1>3. Len(p) = 1 /\ p[1] = a /\ Len(q) = 1 /\ q[1] = b /\ Len(s) = 2 /\ s[1] = a /\ s[2] = b
  BY <1>2
<1>4. p \in Seq({a, b}) /\ q \in Seq({a, b}) /\ s \in Seq({a, b}) /\ s # <<>>
  BY <1>1, <1>2
<1>5. PICK t, u : t = Tail(s) /\ u = p \o q
  OBVIOUS
<1>6. t \in Seq({a, b}) /\ Len(t) = 1 /\ t[1] = b /\ Head(s) = a
  BY <1>3, <1>4, <1>5, TailFacts
<1>7. t = q
  BY <1>3, <1>4, <1>6, SeqEqual
<1>8. /\ u \in Seq({a, b}) /\ Len(u) = 2
      /\ \A i \in 1..2 : u[i] = IF i <= 1 THEN p[i] ELSE q[i - 1]
  <2>1. /\ u \in Seq({a, b}) /\ Len(u) = Len(p) + Len(q)
        /\ \A i \in 1..Len(p) + Len(q) : u[i] = IF i <= Len(p) THEN p[i] ELSE q[i - Len(p)]
    BY <1>4, <1>5, Joined
  <2> QED  BY <1>3, <2>1
<1>9. u = s
  BY <1>3, <1>4, <1>8, SeqEqual
<1>10. Tail(s) = <<b>> /\ <<a>> \o <<b>> = s
  BY <1>2, <1>5, <1>7, <1>9
<1> QED  BY <1>3, <1>6, <1>10

\* the lookups for a pulled or tagged reference
LEMMA RefLookups ==
    ASSUME NEW e, e.type = "image", e.name # NoRef, e.action \in {"pull", "tag"},
           NEW s, s = Lookups(e)
    PROVE  /\ s \in Seq([map : MapNames, key : {e.name, e.actor}])
           /\ e.action = "pull" =>
                  /\ Len(s) = 7
                  /\ s[1] = Look("pendingBuildTags", e.name) /\ s[2] = Look("completedBuildOwner", e.name)
                  /\ s[3] = Look("pendingPullRefs", e.name) /\ s[4] = Look("pendingPullRefs", e.actor)
                  /\ s[5] = Look("completedPullOwner", e.name) /\ s[6] = Look("completedPullOwner", e.actor)
           /\ e.action = "tag" =>
                  /\ Len(s) = 9
                  /\ s[1] = Look("pendingBuildTags", e.name) /\ s[2] = Look("completedBuildOwner", e.name)
                  /\ s[3] = Look("pendingPullRefs", e.name) /\ s[4] = Look("pendingBuildTags", e.actor)
                  /\ s[5] = Look("completedBuildOwner", e.actor)
<1> DEFINE S == [map : MapNames, key : {e.name, e.actor}]
<1>0. \A m \in MapNames : Look(m, e.name) \in S /\ Look(m, e.actor) \in S
  BY DEF Look
<1>1. PICK a, b, c, f, g, d, h, i, p :
          /\ a = Look("pendingBuildTags", e.name) /\ b = Look("completedBuildOwner", e.name)
          /\ c = Look("pendingPullRefs", e.name) /\ f = Look("pendingBuildTags", e.actor)
          /\ g = Look("completedBuildOwner", e.actor) /\ d = Look("pendingPullRefs", e.actor)
          /\ h = Look("completedPullOwner", e.name) /\ i = Look("completedPullOwner", e.actor)
          /\ p = Look("completedPruneOwner", e.actor)
  OBVIOUS
<1>2. /\ a \in S /\ b \in S /\ c \in S /\ f \in S /\ g \in S /\ d \in S /\ h \in S /\ i \in S
      /\ p \in S
  BY <1>0, <1>1 DEF MapNames
<1> HIDE DEF S
<1>3. PICK A, B, C, D, P : /\ A = <<a, b, c>> /\ B = <<f, g>> /\ C = <<d>> /\ D = <<h, i>> /\ P = <<p>>
  OBVIOUS
<1>4. A \in Seq(S) /\ B \in Seq(S) /\ C \in Seq(S) /\ D \in Seq(S) /\ P \in Seq(S)
  BY <1>2, <1>3
<1>5. Len(A) = 3 /\ A[1] = a /\ A[2] = b /\ A[3] = c
  BY <1>3
<1>6. Len(B) = 2 /\ B[1] = f /\ B[2] = g
  BY <1>3
<1>7. Len(C) = 1 /\ C[1] = d /\ Len(P) = 1
  BY <1>3
<1>8. Len(D) = 2 /\ D[1] = h /\ D[2] = i
  BY <1>3
<1>9. CASE e.action = "pull"
  <2>1. s = A \o <<>> \o C \o <<>> \o D \o <<>> \o P
    BY <1>1, <1>3, <1>9 DEF Lookups
  <2>2. PICK t, u, v : t = A \o C /\ u = t \o D /\ v = u \o P
    OBVIOUS
  <2>3. t \in Seq(S) /\ u \in Seq(S) /\ v \in Seq(S)
    BY <1>4, <2>2, ConcatProperties
  <2>4. A \o <<>> = A /\ t \o <<>> = t /\ u \o <<>> = u /\ v \o <<>> = v
    BY <1>4, <2>3, ConcatEmptySeq
  <2>5. /\ Len(t) = Len(A) + Len(C)
        /\ \A k \in 1..Len(A) + Len(C) : t[k] = IF k <= Len(A) THEN A[k] ELSE C[k - Len(A)]
    BY <1>4, <2>2, <2>3, Joined
  <2>6. Len(t) = 4 /\ \A k \in 1..4 : t[k] = IF k <= 3 THEN A[k] ELSE C[k - 3]
    BY <1>5, <1>7, <2>5
  <2>7. Len(t) = 4 /\ t[1] = a /\ t[2] = b /\ t[3] = c /\ t[4] = d
    BY <1>5, <1>7, <2>6
  <2>8. /\ Len(u) = Len(t) + Len(D)
        /\ \A k \in 1..Len(t) + Len(D) : u[k] = IF k <= Len(t) THEN t[k] ELSE D[k - Len(t)]
    BY <1>4, <2>2, <2>3, Joined
  <2>9. Len(u) = 6 /\ \A k \in 1..6 : u[k] = IF k <= 4 THEN t[k] ELSE D[k - 4]
    BY <2>7, <1>8, <2>8
  <2>10. Len(u) = 6 /\ u[1] = a /\ u[2] = b /\ u[3] = c /\ u[4] = d /\ u[5] = h /\ u[6] = i
    BY <2>7, <1>8, <2>9
  <2>11. /\ Len(v) = Len(u) + Len(P)
        /\ \A k \in 1..Len(u) + Len(P) : v[k] = IF k <= Len(u) THEN u[k] ELSE P[k - Len(u)]
    BY <1>4, <2>2, <2>3, Joined
  <2>12. Len(v) = 7 /\ \A k \in 1..7 : v[k] = IF k <= 6 THEN u[k] ELSE P[k - 6]
    BY <2>10, <1>7, <2>11
  <2>13. Len(v) = 7 /\ v[1] = a /\ v[2] = b /\ v[3] = c /\ v[4] = d /\ v[5] = h /\ v[6] = i
    BY <2>10, <1>7, <2>12
  <2>14. s = v
    BY <2>1, <2>2, <2>4
  <2> QED  BY <1>1, <1>9, <2>3, <2>13, <2>14 DEF S
<1>10. CASE e.action = "tag"
  <2>1. s = A \o B \o C \o <<>> \o D \o <<>> \o P
    BY <1>1, <1>3, <1>10 DEF Lookups
  <2>2. PICK r, t, u, v : r = A \o B /\ t = r \o C /\ u = t \o D /\ v = u \o P
    OBVIOUS
  <2>3. r \in Seq(S) /\ t \in Seq(S) /\ u \in Seq(S) /\ v \in Seq(S)
    BY <1>4, <2>2, ConcatProperties
  <2>4. A \o <<>> = A /\ r \o <<>> = r /\ t \o <<>> = t /\ u \o <<>> = u /\ v \o <<>> = v
    BY <1>4, <2>3, ConcatEmptySeq
  <2>5. /\ Len(r) = Len(A) + Len(B)
        /\ \A k \in 1..Len(A) + Len(B) : r[k] = IF k <= Len(A) THEN A[k] ELSE B[k - Len(A)]
    BY <1>4, <2>2, <2>3, Joined
  <2>6. Len(r) = 5 /\ \A k \in 1..5 : r[k] = IF k <= 3 THEN A[k] ELSE B[k - 3]
    BY <1>5, <1>6, <2>5
  <2>7. Len(r) = 5 /\ r[1] = a /\ r[2] = b /\ r[3] = c /\ r[4] = f /\ r[5] = g
    BY <1>5, <1>6, <2>6
  <2>8. /\ Len(t) = Len(r) + Len(C)
        /\ \A k \in 1..Len(r) + Len(C) : t[k] = IF k <= Len(r) THEN r[k] ELSE C[k - Len(r)]
    BY <1>4, <2>2, <2>3, Joined
  <2>9. Len(t) = 6 /\ \A k \in 1..6 : t[k] = IF k <= 5 THEN r[k] ELSE C[k - 5]
    BY <2>7, <1>7, <2>8
  <2>10. Len(t) = 6 /\ t[1] = a /\ t[2] = b /\ t[3] = c /\ t[4] = f /\ t[5] = g
    BY <2>7, <1>7, <2>9
  <2>11. /\ Len(u) = Len(t) + Len(D)
        /\ \A k \in 1..Len(t) + Len(D) : u[k] = IF k <= Len(t) THEN t[k] ELSE D[k - Len(t)]
    BY <1>4, <2>2, <2>3, Joined
  <2>12. Len(u) = 8 /\ \A k \in 1..8 : u[k] = IF k <= 6 THEN t[k] ELSE D[k - 6]
    BY <2>10, <1>8, <2>11
  <2>13. Len(u) = 8 /\ u[1] = a /\ u[2] = b /\ u[3] = c /\ u[4] = f /\ u[5] = g
    BY <2>10, <1>8, <2>12
  <2>14. /\ Len(v) = Len(u) + Len(P)
        /\ \A k \in 1..Len(u) + Len(P) : v[k] = IF k <= Len(u) THEN u[k] ELSE P[k - Len(u)]
    BY <1>4, <2>2, <2>3, Joined
  <2>15. Len(v) = 9 /\ \A k \in 1..9 : v[k] = IF k <= 8 THEN u[k] ELSE P[k - 8]
    BY <2>13, <1>7, <2>14
  <2>16. Len(v) = 9 /\ v[1] = a /\ v[2] = b /\ v[3] = c /\ v[4] = f /\ v[5] = g
    BY <2>13, <1>7, <2>15
  <2>17. s = v
    BY <2>1, <2>2, <2>4
  <2> QED  BY <1>1, <1>10, <2>3, <2>16, <2>17 DEF S
<1> QED  BY <1>9, <1>10

\* Before the first lookup all that may tell is still ahead.
LEMMA LookupsSafe ==
    ASSUME OpsSound, OpsShaped, NEW k \in DOMAIN ops, NEW e, Fits(ops[k], e), NEW M, NEW R
    PROVE  SafeReading(M, R, ops[k], e, Lookups(e))
<1>1. PICK s : s = Lookups(e)
  OBVIOUS
<1>2. CASE ops[k].kind \in RefKinds
  <2>1. /\ ops[k].ref # NoRef /\ e.type = "image" /\ e.actor = ops[k].ref /\ e.name = Bare(ops[k].ref)
        /\ e.action = (IF ops[k].kind = "pull" THEN "pull" ELSE "tag")
    BY <1>2 DEF Fits, RefKinds
  <2>2. ops[k].key \in {e.name, e.actor} /\ e.name # NoRef
    <3>1. ops[k].ref \in Refs /\ ops[k].key \in {ops[k].ref, Bare(ops[k].ref)}
      BY <2>1, OwnEntries, PlanOf DEF Names
    <3> QED  BY <2>1, <3>1, KeysAssumption DEF Keys, RefKeys
  <2>3. s \in Seq([map : MapNames, key : {e.name, e.actor}])
    BY <1>1, <2>1, <2>2, RefLookups
  <2>4. /\ LookOf(Finished(ops[k])) = Look(IF ops[k].kind = "pull" THEN "completedPullOwner"
                                           ELSE "completedBuildOwner", ops[k].key)
        /\ LookOf(Pending(ops[k])) = Look(IF ops[k].kind = "pull" THEN "pendingPullRefs"
                                          ELSE "pendingBuildTags", ops[k].key)
    BY DEF LookOf, Finished, Pending, Entry, Look
  <2>5. \E i, j \in 1..Len(s) :
            /\ i \in 1..j - 1 /\ s[j] = LookOf(Finished(ops[k])) /\ s[i] = LookOf(Pending(ops[k]))
            /\ \A h \in 1..j : s[h].map # "completedPruneOwner"
    <3>0. \A m, key : Look(m, key).map = m
      BY DEF Look
    <3>1. CASE ops[k].kind = "pull"
      <4>1. /\ Len(s) = 7
            /\ s[1] = Look("pendingBuildTags", e.name) /\ s[2] = Look("completedBuildOwner", e.name)
            /\ s[3] = Look("pendingPullRefs", e.name) /\ s[4] = Look("pendingPullRefs", e.actor)
            /\ s[5] = Look("completedPullOwner", e.name) /\ s[6] = Look("completedPullOwner", e.actor)
        BY <1>1, <2>1, <2>2, <3>1, RefLookups
      <4>2. \A h \in 1..6 : s[h].map # "completedPruneOwner"
        BY <3>0, <4>1
      <4>3. CASE ops[k].key = e.name
        BY <2>4, <3>1, <4>1, <4>2, <4>3
      <4>4. CASE ops[k].key = e.actor
        BY <2>4, <3>1, <4>1, <4>2, <4>4
      <4> QED  BY <2>2, <4>3, <4>4
    <3>2. CASE ops[k].kind # "pull"
      <4>1. /\ Len(s) = 9
            /\ s[1] = Look("pendingBuildTags", e.name) /\ s[2] = Look("completedBuildOwner", e.name)
            /\ s[3] = Look("pendingPullRefs", e.name) /\ s[4] = Look("pendingBuildTags", e.actor)
            /\ s[5] = Look("completedBuildOwner", e.actor)
        BY <1>1, <2>1, <2>2, <3>2, RefLookups
      <4>2. \A h \in 1..5 : s[h].map # "completedPruneOwner"
        BY <3>0, <4>1
      <4>3. CASE ops[k].key = e.name
        BY <2>4, <3>2, <4>1, <4>2, <4>3
      <4>4. CASE ops[k].key = e.actor
        BY <2>4, <3>2, <4>1, <4>2, <4>4
      <4> QED  BY <2>2, <4>3, <4>4
    <3> QED  BY <3>1, <3>2
  <2>6. RefReading(M, ops[k], e, s)
    BY <2>3, <2>5 DEF RefReading
  <2> QED  BY <1>1, <1>2, <2>6 DEF SafeReading, RefKinds
<1>3. CASE ops[k].kind = "rmi"
  <2>1. e.type = "image" /\ e.action = "delete" /\ e.actor = ops[k].thing /\ e.name = NoRef
    BY <1>3 DEF Fits, RefKinds
  <2>2. PICK a, b : a = Look("table", ops[k].thing) /\ b = Look("completedPruneOwner", ops[k].thing)
    OBVIOUS
  <2>3. s = <<>> \o <<>> \o <<>> \o <<>> \o <<>> \o <<a>> \o <<b>>
    BY <1>1, <2>1, <2>2 DEF Lookups
  <2>4. <<>> \o <<>> = <<>>
    BY ConcatEmptySeq, EmptySeq
  <2>5. <<a>> \in Seq({a})
    OBVIOUS
  <2>6. <<>> \o <<a>> = <<a>>
    BY <2>5, ConcatEmptySeq
  <2>7. <<a>> \o <<b>> = <<a, b>>
    BY PairFacts
  <2>8. s = <<a, b>>
    BY <2>3, <2>4, <2>6, <2>7
  <2> QED  BY <1>1, <1>3, <2>2, <2>8 DEF SafeReading, RmiReading, RefKinds
<1>4. CASE ops[k].kind = "create"
  <2>1. e.type = "volume" /\ e.actor = ops[k].thing
    BY <1>4 DEF Fits, RefKinds
  <2> QED  BY <1>4, <2>1 DEF SafeReading, CreateReading, RefKinds, Lookups
<1>5. CASE ops[k].kind = "remove"
  <2>1. e.type = "network" /\ e.actor = ops[k].thing
    BY <1>5 DEF Fits, RefKinds
  <2> QED  BY <1>5, <2>1 DEF SafeReading, RemoveReading, RefKinds, Lookups
<1>6. CASE ops[k].kind \notin RefKinds \cup {"rmi", "create", "remove"}
  BY <1>6 DEF SafeReading
<1> QED  BY <1>2, <1>3, <1>4, <1>5, <1>6

\* what a lookup for the event e, the first one of s, may come to
Good(o, e, s, w) ==
    IF w.found THEN w.shown = ShownTo(e)
    ELSE w = Undecided /\ Len(s) # 1 /\ SafeReading(maps, rows, o, e, Tail(s))

LEMMA ShownSame ==
    ASSUME NEW H, NEW e, H # {}, \A x \in H : x.uid = e.uid /\ x.sudo = e.sudo
    PROVE  UNION {ShownTo(x) : x \in H} = ShownTo(e)
<1>1. \A x \in H : ShownTo(x) = ShownTo(e)
  BY DEF ShownTo
<1> QED  BY <1>1

LEMMA VerdictFields ==
    /\ Undecided.found = FALSE /\ Undecided.shown = {}
    /\ \A a, b : Decided(a, b).found = TRUE /\ Decided(a, b).shown = a
  BY DEF Undecided, Decided

LEMMA LookRef ==
    ASSUME IInv, ShapeInv, SafeInv, NEW e, Out(e), Covered(e), ops[e.op].kind \in RefKinds,
           NEW s, SafeReading(maps, rows, ops[e.op], e, s),
           NEW w, w = LookupVerdict(e.type, Head(s))
    PROVE  Good(ops[e.op], e, s, w)
<1>0. OpsSound /\ OpsShaped /\ EventsFit /\ Mine /\ EventsSafe
  BY DEF IInv, ShapeInv, SafeInv
<1>1. PICK k \in DOMAIN ops : k = e.op /\ Fits(ops[k], e) /\ Free(k)
  BY <1>0, CoveredFree DEF EventsFit, Covered
<1>2. /\ ops[k].ref # NoRef /\ e.type = "image" /\ e.actor = ops[k].ref /\ e.name = Bare(ops[k].ref)
      /\ e.uid = ops[k].id.uid /\ e.sudo = IsSudoCommand(ops[k].id)
  BY <1>1 DEF Fits, RefKinds
<1>3. ops[k].ref \in Refs /\ ops[k].ref.repo \in ops[k].touches
  BY <1>0, <1>2, OwnEntries
<1>4. RefSafe(maps, ops[k]) /\ RefReading(maps, ops[k], e, s)
  BY <1>0, <1>1 DEF EventsSafe, Safe, SafeReading
<1>5. PICK F, P : F = Finished(ops[k]) /\ P = Pending(ops[k])
  OBVIOUS
<1>6. PICK S : S = [map : MapNames, key : {e.name, e.actor}]
  OBVIOUS
<1>7. s \in Seq(S)
  BY <1>4, <1>6 DEF RefReading
<1>8. PICK j \in 1..Len(s) :
          /\ s[j] = LookOf(F)
          /\ \A h \in 1..j : s[h].map # "completedPruneOwner"
          /\ F \in maps \/ \E i \in 1..j - 1 : s[i] = LookOf(P)
  BY <1>4, <1>5 DEF RefReading
<1>9. PICK l : l = s[1]
  OBVIOUS
<1>10. /\ Len(s) \in Nat /\ Len(s) >= 1 /\ s # <<>> /\ Head(s) = l /\ l \in S
       /\ l.map # "completedPruneOwner"
  <2>1. Len(s) \in Nat /\ Len(s) >= 1 /\ 1 \in 1..j /\ 1 \in 1..Len(s)
    BY <1>7, <1>8
  <2>2. s # <<>> /\ s[1] \in S
    BY <1>7, <2>1
  <2> QED  BY <1>7, <1>8, <1>9, <2>1, <2>2, TailFacts
<1>11. l.map \in MapNames /\ l.key \in {e.name, e.actor} /\ l.map # "table"
  BY <1>6, <1>10 DEF MapNames
<1>12. PICK H : H = {x \in maps : x.map = l.map /\ x.key = l.key}
  OBVIOUS
<1>13. \A x \in H : x.uid = e.uid /\ x.sudo = e.sudo
  <2> SUFFICES ASSUME NEW x \in H PROVE x.uid = e.uid /\ x.sudo = e.sudo
    OBVIOUS
  <2>1. x.key \in RefKeys /\ x.key.repo = ops[k].ref.repo
    BY <1>2, <1>3, <1>11, <1>12 DEF RefKeys, Bare
  <2>2. x.key \notin Things
    BY <2>1, KeysAssumption DEF Things
  <2>3. About(x) = {ops[k].ref.repo}
    BY <1>10, <1>12, <2>1, <2>2 DEF About
  <2>4. About(x) \cap ops[k].touches # {} /\ x \in maps
    BY <1>3, <1>12, <2>3
  <2> QED  BY <1>0, <1>1, <1>2, <2>4 DEF Mine
<1>14. w = IF H = {} THEN Undecided ELSE Decided(UNION {ShownTo(x) : x \in H}, {})
  BY <1>2, <1>10, <1>11, <1>12 DEF LookupVerdict
<1>15. CASE H # {}
  <2>1. UNION {ShownTo(x) : x \in H} = ShownTo(e)
    BY <1>13, <1>15, ShownSame
  <2>2. w = Decided(ShownTo(e), {})
    BY <1>14, <1>15, <2>1
  <2> QED  BY <2>2, VerdictFields DEF Good
<1>16. CASE H = {}
  <2>1. \A x \in maps : l # LookOf(x)
    BY <1>12, <1>16 DEF LookOf, Look
  <2>2. j # 1
    BY <1>8, <1>9, <2>1
  <2>3. PICK t : t = Tail(s)
    OBVIOUS
  <2>4. t \in Seq(S) /\ Len(t) = Len(s) - 1 /\ \A i \in 1..Len(s) - 1 : t[i] = s[i + 1]
    BY <1>7, <1>10, <2>3, TailFacts
  <2>5. j - 1 \in 1..Len(t) /\ t[j - 1] = LookOf(F)
    BY <1>8, <1>10, <2>2, <2>4
  <2>6. \A h \in 1..j - 1 : t[h].map # "completedPruneOwner"
    BY <1>8, <1>10, <2>2, <2>4
  <2>7. F \in maps \/ \E i \in 1..(j - 1) - 1 : t[i] = LookOf(P)
    <3>1. CASE F \in maps
      BY <3>1
    <3>2. CASE F \notin maps
      <4>1. PICK i \in 1..j - 1 : s[i] = LookOf(P)
        BY <1>8, <3>2
      <4>2. P \in maps
        BY <1>4, <1>5, <3>2 DEF RefSafe
      <4>3. i # 1
        BY <1>9, <2>1, <4>1, <4>2
      <4>4. i - 1 \in 1..(j - 1) - 1 /\ t[i - 1] = LookOf(P)
        BY <1>8, <1>10, <2>4, <4>1, <4>3
      <4> QED  BY <4>4
    <3> QED  BY <3>1, <3>2
  <2>8. RefReading(maps, ops[k], e, t)
    BY <1>5, <1>6, <2>4, <2>5, <2>6, <2>7 DEF RefReading
  <2>9. SafeReading(maps, rows, ops[k], e, t)
    BY <1>1, <2>8 DEF SafeReading, RefKinds
  <2>10. w = Undecided /\ Len(s) # 1
    BY <1>8, <1>10, <1>14, <1>16, <2>2
  <2> QED  BY <1>1, <2>3, <2>9, <2>10, VerdictFields DEF Good
<1> QED  BY <1>15, <1>16

LEMMA LookRmi ==
    ASSUME IInv, ShapeInv, SafeInv, NEW e, Out(e), Covered(e), ops[e.op].kind = "rmi",
           NEW s, SafeReading(maps, rows, ops[e.op], e, s),
           NEW w, w = LookupVerdict(e.type, Head(s))
    PROVE  Good(ops[e.op], e, s, w)
<1>0. OpsSound /\ MapsTyped /\ OpsShaped /\ EventsFit /\ EventsSafe
  BY DEF IInv, ShapeInv, SafeInv
<1>1. PICK k \in DOMAIN ops : k = e.op /\ Fits(ops[k], e)
  BY <1>0 DEF EventsFit, Covered
<1>2. e.type = "image"
  BY <1>1 DEF Fits, RefKinds
<1>3. PICK i : i = ops[k].thing
  OBVIOUS
<1>4. /\ images[i].source # "none" => images[i].owner = e.uid /\ images[i].sudo = e.sudo
      /\ images[i].source # "none" \/ Pruned(ops[k], e) \in maps
  BY <1>0, <1>1, <1>3 DEF EventsSafe, Safe, RmiSafe
<1>5. PICK a, b : a = Look("table", i) /\ b = Look("completedPruneOwner", i)
  OBVIOUS
<1>6. a.map = "table" /\ a.key = i /\ b.map = "completedPruneOwner" /\ b.key = i
  BY <1>5 DEF Look
<1>7. CASE s = <<a, b>>
  <2>1. Head(s) = a /\ Len(s) # 1 /\ Tail(s) = <<b>>
    BY <1>7, PairFacts
  <2>2. w = ImageRowVerdict(i)
    BY <1>2, <1>6, <2>1 DEF LookupVerdict
  <2>3. CASE Tracked(i)
    <3>1. PICK x, c : /\ x = [uid |-> images[i].owner, sudo |-> images[i].sudo]
                      /\ w = Decided(ShownTo(x), c)
      BY <2>2, <2>3 DEF ImageRowVerdict
    <3>2. x.uid = e.uid /\ x.sudo = e.sudo
      BY <1>4, <2>3, <3>1 DEF Tracked
    <3>3. ShownTo(x) = ShownTo(e)
      BY <3>2 DEF ShownTo
    <3>4. w.found = TRUE /\ w.shown = ShownTo(e)
      BY <3>1, <3>3, VerdictFields
    <3> QED  BY <3>4 DEF Good
  <2>4. CASE ~Tracked(i)
    <3>1. w = Undecided
      BY <2>2, <2>4 DEF ImageRowVerdict
    <3>2. Pruned(ops[k], e) \in maps
      BY <1>4, <2>4 DEF Tracked
    <3>3. SafeReading(maps, rows, ops[k], e, Tail(s))
      BY <1>1, <1>3, <1>5, <2>1, <3>2 DEF SafeReading, RmiReading, RefKinds
    <3> QED  BY <1>1, <2>1, <3>1, <3>3, VerdictFields DEF Good
  <2> QED  BY <2>3, <2>4
<1>8. CASE s = <<b>> /\ Pruned(ops[k], e) \in maps
  <2>1. Head(s) = b
    BY <1>8
  <2>2. PICK x \in maps : x = Pruned(ops[k], e)
    BY <1>8
  <2>3. x.map = "completedPruneOwner" /\ x.key = i /\ x.uid = e.uid /\ x.sudo = e.sudo
    BY <1>3, <2>2 DEF Pruned, Entry
  <2>4. {y \in maps : y.map = b.map /\ y.key = b.key} = {x}
    BY <1>0, <1>6, <2>3 DEF MapsTyped, SingleValued
  <2>5. PICK H : H = {y \in maps : y.map = b.map /\ y.key = b.key}
    OBVIOUS
  <2>6. UNION {ShownTo(y) : y \in H} = ShownTo(e)
    <3>1. H # {} /\ \A y \in H : y.uid = e.uid /\ y.sudo = e.sudo
      BY <2>3, <2>4, <2>5
    <3> QED  BY <3>1, ShownSame
  <2>7. w = IF H = {} THEN Undecided ELSE Decided(UNION {ShownTo(y) : y \in H}, {})
    BY <1>2, <1>6, <2>1, <2>5 DEF LookupVerdict
  <2>8. w = Decided(ShownTo(e), {})
    BY <2>4, <2>5, <2>6, <2>7
  <2> QED  BY <2>8, VerdictFields DEF Good
<1>9. s = <<a, b>> \/ (s = <<b>> /\ Pruned(ops[k], e) \in maps)
  BY <1>1, <1>3, <1>5 DEF SafeReading, RmiReading
<1> QED  BY <1>7, <1>8, <1>9

LEMMA LookCreate ==
    ASSUME IInv, ShapeInv, SafeInv, NEW e, Out(e), Covered(e), ops[e.op].kind = "create",
           NEW s, SafeReading(maps, rows, ops[e.op], e, s),
           NEW w, w = LookupVerdict(e.type, Head(s))
    PROVE  Good(ops[e.op], e, s, w)
<1>0. OpsSound /\ DaemonTyped /\ OpsShaped /\ EventsFit /\ Mine /\ EventsSafe
  BY DEF IInv, ShapeInv, SafeInv
<1>1. PICK k \in DOMAIN ops : k = e.op /\ Fits(ops[k], e) /\ Free(k)
  BY <1>0, CoveredFree DEF EventsFit, Covered
<1>2. e.type = "volume" /\ e.uid = ops[k].id.uid /\ e.sudo = IsSudoCommand(ops[k].id)
  BY <1>1 DEF Fits, RefKinds
<1>3. PICK i : i = ops[k].thing /\ i \in Things /\ i \in ops[k].touches
  BY <1>0, OwnEntries, PlanOf DEF Op
<1>4. RowFor(ops[k]) \in rows \/ Pruned(ops[k], Info(ops[k])) \in maps
  BY <1>0, <1>1 DEF EventsSafe, Safe, CreateSafe
<1>5. PICK a, b : a = Look("completedPruneOwner", i) /\ b = Look("table", i)
  OBVIOUS
<1>6. a.map = "completedPruneOwner" /\ a.key = i /\ b.map = "table" /\ b.key = i
  BY <1>5 DEF Look
<1>7. CASE s = <<a, b>>
  <2>1. Head(s) = a /\ Len(s) # 1 /\ Tail(s) = <<b>>
    BY <1>7, PairFacts
  <2>2. PICK H : H = {x \in maps : x.map = a.map /\ x.key = a.key}
    OBVIOUS
  <2>3. w = IF H = {} THEN Undecided ELSE Decided(UNION {ShownTo(x) : x \in H}, {})
    BY <1>2, <1>6, <2>1, <2>2 DEF LookupVerdict
  <2>4. \A x \in H : x.uid = e.uid /\ x.sudo = e.sudo
    <3> SUFFICES ASSUME NEW x \in H PROVE x.uid = e.uid /\ x.sudo = e.sudo
      OBVIOUS
    <3>1. About(x) = {i} /\ x \in maps
      BY <1>3, <1>6, <2>2 DEF About
    <3>2. About(x) \cap ops[k].touches # {}
      BY <1>3, <3>1
    <3> QED  BY <1>0, <1>1, <1>2, <3>1, <3>2 DEF Mine
  <2>5. CASE H # {}
    <3>1. UNION {ShownTo(x) : x \in H} = ShownTo(e)
      BY <2>4, <2>5, ShownSame
    <3>2. w = Decided(ShownTo(e), {})
      BY <2>3, <2>5, <3>1
    <3> QED  BY <3>2, VerdictFields DEF Good
  <2>6. CASE H = {}
    <3>1. Pruned(ops[k], Info(ops[k])) \notin maps
      BY <1>3, <1>6, <2>2, <2>6 DEF Pruned, Entry
    <3>2. SafeReading(maps, rows, ops[k], e, Tail(s))
      BY <1>1, <1>3, <1>4, <1>5, <2>1, <3>1 DEF SafeReading, CreateReading, RefKinds
    <3>3. w = Undecided
      BY <2>3, <2>6
    <3> QED  BY <1>1, <2>1, <3>2, <3>3, VerdictFields DEF Good
  <2> QED  BY <2>5, <2>6
<1>8. CASE s = <<b>> /\ RowFor(ops[k]) \in rows
  <2>1. Head(s) = b
    BY <1>8
  <2>2. PICK x \in rows : x = RowFor(ops[k])
    BY <1>8
  <2>3. x.key = i /\ x.uid = e.uid /\ x.sudo = e.sudo
    BY <1>2, <1>3, <2>2 DEF RowFor
  <2>4. PICK H : H = Row(b.key)
    OBVIOUS
  <2>5. H = {x}
    BY <1>0, <1>6, <2>3, <2>4 DEF Row, DaemonTyped
  <2>6. UNION {ShownTo(y) : y \in H} = ShownTo(e)
    <3>1. H # {} /\ \A y \in H : y.uid = e.uid /\ y.sudo = e.sudo
      BY <2>3, <2>5
    <3> QED  BY <3>1, ShownSame
  <2>7. w = IF H = {} THEN Undecided ELSE Decided(UNION {ShownTo(y) : y \in H}, {})
    BY <1>2, <1>6, <2>1, <2>4 DEF LookupVerdict
  <2>8. w = Decided(ShownTo(e), {})
    BY <2>5, <2>6, <2>7
  <2> QED  BY <2>8, VerdictFields DEF Good
<1>9. s = <<a, b>> \/ (s = <<b>> /\ RowFor(ops[k]) \in rows)
  BY <1>1, <1>3, <1>5 DEF SafeReading, CreateReading
<1> QED  BY <1>7, <1>8, <1>9

LEMMA LookRemove ==
    ASSUME IInv, ShapeInv, SafeInv, NEW e, Out(e), Covered(e), ops[e.op].kind = "remove",
           NEW s, SafeReading(maps, rows, ops[e.op], e, s),
           NEW w, w = LookupVerdict(e.type, Head(s))
    PROVE  Good(ops[e.op], e, s, w)
<1>0. OpsSound /\ MapsTyped /\ DaemonTyped /\ OpsShaped /\ EventsFit /\ EventsSafe
  BY DEF IInv, ShapeInv, SafeInv
<1>1. PICK k \in DOMAIN ops : k = e.op /\ Fits(ops[k], e)
  BY <1>0 DEF EventsFit, Covered
<1>2. e.type = "network" /\ e.sudo = TRUE
  BY <1>1 DEF Fits, RefKinds
<1>3. PICK i, p : i = ops[k].thing /\ p = Pruned(ops[k], SudoInfo(ops[k]))
  OBVIOUS
<1>4. (\E x \in rows : x.key = i /\ x.sudo = TRUE) \/ p \in maps
  BY <1>0, <1>1, <1>3 DEF EventsSafe, Safe, RemoveSafe
<1>5. PICK a, b : a = Look("table", i) /\ b = Look("completedPruneOwner", i)
  OBVIOUS
<1>6. a.map = "table" /\ a.key = i /\ b.map = "completedPruneOwner" /\ b.key = i
  BY <1>5 DEF Look
<1>7. ShownTo(e) = {}
  BY <1>2 DEF ShownTo
<1>8. ASSUME NEW H, NEW x, H = {x}, x.sudo = TRUE,
             w = IF H = {} \/ \A y \in H : ~y.sudo THEN Undecided
                 ELSE Decided(UNION {ShownTo(y) : y \in H}, {})
      PROVE  Good(ops[k], e, s, w)
  <2>1. ~(H = {} \/ \A y \in H : ~y.sudo)
    BY <1>8
  <2>2. UNION {ShownTo(y) : y \in H} = {}
    BY <1>8 DEF ShownTo
  <2>3. w = Decided(ShownTo(e), {})
    BY <1>7, <1>8, <2>1, <2>2
  <2> QED  BY <2>3, VerdictFields DEF Good
<1>9. CASE s = <<a, b>>
  <2>1. Head(s) = a /\ Len(s) # 1 /\ Tail(s) = <<b>>
    BY <1>9, PairFacts
  <2>2. PICK H : H = Row(i)
    OBVIOUS
  <2>3. w = IF H = {} \/ \A y \in H : ~y.sudo THEN Undecided
            ELSE Decided(UNION {ShownTo(y) : y \in H}, {})
    BY <1>2, <1>6, <2>1, <2>2 DEF LookupVerdict
  <2>4. CASE \E x \in rows : x.key = i /\ x.sudo = TRUE
    <3>1. PICK x \in rows : x.key = i /\ x.sudo = TRUE
      BY <2>4
    <3>2. H = {x}
      BY <1>0, <2>2, <3>1 DEF Row, DaemonTyped
    <3> QED  BY <1>1, <1>8, <2>3, <3>1, <3>2
  <2>5. CASE ~\E x \in rows : x.key = i /\ x.sudo = TRUE
    <3>1. \A y \in H : ~y.sudo
      BY <1>0, <2>2, <2>5 DEF Row, DaemonTyped
    <3>2. w = Undecided
      BY <2>3, <3>1
    <3>3. SafeReading(maps, rows, ops[k], e, Tail(s))
      BY <1>1, <1>3, <1>4, <1>5, <2>1, <2>5 DEF SafeReading, RemoveReading, RefKinds
    <3> QED  BY <1>1, <2>1, <3>2, <3>3, VerdictFields DEF Good
  <2> QED  BY <2>4, <2>5
<1>10. CASE s = <<b>> /\ p \in maps
  <2>1. Head(s) = b
    BY <1>10
  <2>2. p.map = "completedPruneOwner" /\ p.key = i /\ p.sudo = TRUE
    BY <1>3 DEF Pruned, Entry, SudoInfo
  <2>3. PICK H : H = {x \in maps : x.map = b.map /\ x.key = b.key}
    OBVIOUS
  <2>4. H = {p}
    BY <1>0, <1>6, <1>10, <2>2, <2>3 DEF MapsTyped, SingleValued
  <2>5. w = IF H = {} \/ \A y \in H : ~y.sudo THEN Undecided
            ELSE Decided(UNION {ShownTo(y) : y \in H}, {})
    BY <1>2, <1>6, <2>1, <2>3 DEF LookupVerdict
  <2> QED  BY <1>1, <1>8, <2>2, <2>4, <2>5
<1>11. s = <<a, b>> \/ (s = <<b>> /\ p \in maps)
  BY <1>1, <1>3, <1>5 DEF SafeReading, RemoveReading
<1> QED  BY <1>9, <1>10, <1>11

LEMMA ReaderSafeStep ==
    ASSUME IInv, ShapeInv, SafeInv, (\E e \in events : EventLine(e)) \/ LookUp \/ LineDone
    PROVE  ShapeInv' /\ SafeInv'
<1>0. /\ OpsSound /\ OpsShaped /\ EventsFit /\ Readable
      /\ Apart /\ Mine /\ Ready /\ Gone /\ EventsSafe /\ ReaderSafe
  BY DEF IInv, ShapeInv, SafeInv
<1>1. /\ \A e : Out(e)' => Out(e)
      /\ Readable'
      /\ ops' = ops /\ timers' = timers /\ maps' = maps /\ rows' = rows
      /\ images' = images /\ present' = present /\ tagOf' = tagOf
  BY <1>0, ReaderOut
<1>2. ShapeInv'
  BY <1>1, QuietShape
<1>3. Narrows /\ Apart'
  BY <1>0, <1>1, QuietNarrows, ApartKept
<1>4. Mine' /\ Ready'
  BY <1>0, <1>1, <1>3 DEF Mine, Ready, Narrows
<1>5. Gone' /\ EventsSafe'
  BY <1>0, <1>1 DEF Gone, EventsSafe, Covered
<1>6. CASE \E d \in events : EventLine(d)
  <2>1. PICK d \in events : EventLine(d)
    BY <1>6
  <2>2. reader' = Line(d, Lookups(d), Undecided) /\ Out(d)
    BY <2>1 DEF EventLine, Line, Out
  <2>3. ASSUME NEW e, NEW s, NEW v, reader' = Line(e, s, v), Covered(e)
        PROVE  IF v.found THEN v.shown = ShownTo(e)
               ELSE v = Undecided /\ SafeReading(maps, rows, ops[e.op], e, s)
    <3>1. e = d /\ s = Lookups(d) /\ v = Undecided
      BY <2>2, <2>3 DEF Line
    <3>2. e.op \in DOMAIN ops /\ Fits(ops[e.op], e)
      BY <1>0, <2>2, <2>3, <3>1 DEF EventsFit, Covered
    <3>3. SafeReading(maps, rows, ops[e.op], e, Lookups(e))
      BY <1>0, <3>2, LookupsSafe
    <3> QED  BY <3>1, <3>3, VerdictFields
  <2>4. ReaderSafe'
    BY <1>1, <2>3 DEF ReaderSafe, Covered
  <2> QED  BY <1>2, <1>3, <1>4, <1>5, <2>4 DEF SafeInv
<1>7. CASE LookUp
  <2>1. PICK d, t, u : reader # NoReader /\ reader = Line(d, t, u)
    BY <1>0, <1>7 DEF Readable, LookUp
  <2>2. reader.event = d /\ reader.todo = t /\ reader.verdict = u
    BY <2>1 DEF Line
  <2>3. PICK w : w = LookupVerdict(d.type, Head(t))
    OBVIOUS
  <2>4. PICK p, x : /\ p = (IF w.found THEN <<>> ELSE Tail(t))
                    /\ x = (IF ~w.found /\ Len(t) = 1 THEN Decided(Viewers, {}) ELSE w)
    OBVIOUS
  <2>5. reader' = [reader EXCEPT !.todo = p, !.verdict = x] /\ ~u.found
    BY <1>7, <2>2, <2>3, <2>4 DEF LookUp
  <2>6. reader' = Line(d, p, x)
    BY <2>1, <2>5 DEF Line
  <2>7. ASSUME NEW e, NEW s, NEW v, reader' = Line(e, s, v), Covered(e)
        PROVE  IF v.found THEN v.shown = ShownTo(e)
               ELSE v = Undecided /\ SafeReading(maps, rows, ops[e.op], e, s)
    <3>1. e = d /\ s = p /\ v = x
      BY <2>6, <2>7 DEF Line
    <3>2. Out(e) /\ SafeReading(maps, rows, ops[e.op], e, t)
      BY <1>0, <2>1, <2>5, <2>7, <3>1, LineOut DEF ReaderSafe
    <3>3. ops[e.op].kind \in RefKinds \cup {"rmi", "create", "remove"}
      BY <1>0, <2>7, <3>2 DEF EventsFit, Fits, Covered
    <3>4. Good(ops[e.op], e, t, w)
      BY <2>3, <2>7, <3>1, <3>2, <3>3, LookRef, LookRmi, LookCreate, LookRemove
    <3>5. CASE w.found
      BY <2>4, <3>1, <3>4, <3>5 DEF Good
    <3>6. CASE ~w.found
      <4>1. w = Undecided /\ Len(t) # 1 /\ SafeReading(maps, rows, ops[e.op], e, Tail(t))
        BY <3>4, <3>6 DEF Good
      <4>2. v = Undecided /\ s = Tail(t)
        BY <2>4, <3>1, <3>6, <4>1
      <4> QED  BY <4>1, <4>2, VerdictFields
    <3> QED  BY <3>5, <3>6
  <2>8. ReaderSafe'
    BY <1>1, <2>7 DEF ReaderSafe, Covered
  <2> QED  BY <1>2, <1>3, <1>4, <1>5, <2>8 DEF SafeInv
<1>8. CASE LineDone
  <2>1. ReaderSafe'
    BY <1>8 DEF LineDone, ReaderSafe
  <2> QED  BY <1>2, <1>3, <1>4, <1>5, <2>1 DEF SafeInv
<1> QED  BY <1>6, <1>7, <1>8

LEMMA InitSafe == Init => ShapeInv /\ SafeInv
<1> SUFFICES ASSUME Init PROVE ShapeInv /\ SafeInv
  OBVIOUS
<1>1. DOMAIN ops = {} /\ timers = {} /\ events = {} /\ reader = NoReader
  BY DEF Init
<1>2. \A e : ~Out(e)
  BY <1>1 DEF Out
<1>3. ShapeInv
  BY <1>1, <1>2 DEF ShapeInv, OpsShaped, TimersOwn, EventsFit, Readable
<1>4. SafeInv
  BY <1>1, <1>2 DEF SafeInv, Apart, Mine, Ready, Gone, EventsSafe, ReaderSafe
<1> QED  BY <1>3, <1>4

LEMMA NextSafe == IInv /\ ShapeInv /\ SafeInv /\ [Next]_vars => ShapeInv' /\ SafeInv'
<1> SUFFICES ASSUME IInv, ShapeInv, SafeInv, [Next]_vars PROVE ShapeInv' /\ SafeInv'
  OBVIOUS
<1>1. ASSUME NEW q \in Requests, Begin(q) PROVE ShapeInv' /\ SafeInv'
  BY <1>1, BeginShape, BeginSafe
<1>2. ASSUME NEW n \in DOMAIN ops, OpStep(n) PROVE ShapeInv' /\ SafeInv'
  <2>1. OpsShaped'
    BY <1>2, OpGoes DEF IInv, ShapeInv
  <2>2. TimersOwn'
    BY <1>2, OpTimersOwn DEF ShapeInv
  <2>3. EventsFit' /\ reader' = reader
    BY <1>2, OpEventsFit DEF ShapeInv
  <2>4. Readable'
    BY <2>3 DEF ShapeInv, Readable
  <2> QED  BY <1>2, <2>1, <2>2, <2>3, <2>4, OpSafe DEF ShapeInv
<1>3. ASSUME NEW t \in timers, TimerFires(t) PROVE ShapeInv' /\ SafeInv'
  <2>1. /\ ops' = ops /\ timers' \subseteq timers /\ events' = events /\ reader' = reader
    BY <1>3 DEF TimerFires
  <2>2. (\A e : Out(e)' => Out(e)) /\ Readable'
    BY <2>1 DEF Out, ShapeInv, Readable
  <2> QED  BY <1>3, <2>1, <2>2, QuietShape, TimerSafe
<1>4. CASE (\E e \in events : EventLine(e)) \/ LookUp \/ LineDone
  BY <1>4, ReaderSafeStep
<1>5. CASE UNCHANGED vars
  BY <1>5 DEF vars, daemonVars, ShapeInv, OpsShaped, TimersOwn, EventsFit, Readable, Out, SafeInv,
              Apart, Mine, Ready, Gone, EventsSafe, ReaderSafe, Covered, Free, Busy, Watched, Reading
<1> QED  BY <1>1, <1>2, <1>3, <1>4, <1>5 DEF Next

LEMMA SafeInductive == Spec => [](ShapeInv /\ SafeInv)
  BY InitIInv, NextIInv, InitSafe, NextSafe, PTL DEF Spec

-----------------------------------------------------------------------------
(* Theorems. *)

\* The variables of the event model keep their types and each sync.Map has one
\* value per key, for every number of requests and whatever the order of their
\* steps.
THEOREM TypeCorrect == Spec => []TypeOK
<1>1. IInv => TypeOK
  BY DEF IInv, OpsSound, OpSound, Asked, Op, Things, TimersTyped, MapsTyped, SingleValued,
         DaemonTyped, TypeOK
<1> QED  BY <1>1, Inductive, PTL

\* No entry is left behind: whatever requests overlap, fail or overwrite each
\* other's keys, an entry of the five maps has an armed timer or a handler that
\* will still remove it (deferred CompareAndDelete, time.AfterFunc), except for
\* the tags of a BuildKit build whose images could not be listed.
THEOREM EntriesAlwaysExpire == Spec => []EntriesExpire
<1>1. IInv => EntriesExpire
  BY DEF IInv, EntriesHeld, EntriesExpire, Headed, Entry
<1> QED  BY <1>1, Inductive, PTL

\* Whichever of the handler's entry, the table's row and the timer the lookups of
\* eventBelongsToUser come upon, a covered event of an operation whose names no
\* other operation is about is shown to nobody but the user it belongs to, and
\* not to him either when he worked as sudo: for any number of requests and any
\* interleaving of handlers, timers and the stream.  Covered are the events of
\* which some entry or row tells at all (see EventsHidden): not a pull without an
\* id or a digest, and not a network removed by its id.
THEOREM EventsAlwaysHidden == Spec => []EventsHidden
<1>1. ShapeInv /\ SafeInv => EventsHidden
  <2> SUFFICES ASSUME ShapeInv, SafeInv, reader # NoReader, reader.event.covered,
                      ~ops[reader.event.op].contended
               PROVE  reader.verdict.shown \subseteq ShownTo(reader.event)
    BY DEF EventsHidden
  <2>1. PICK e, s, v : reader = Line(e, s, v)
    BY DEF ShapeInv, Readable
  <2>2. reader.event = e /\ reader.verdict = v
    BY <2>1 DEF Line
  <2>3. IF v.found THEN v.shown = ShownTo(e) ELSE v = Undecided
    BY <2>1, <2>2 DEF SafeInv, ReaderSafe, Covered
  <2> QED  BY <2>2, <2>3, VerdictFields
<1> QED  BY <1>1, SafeInductive, PTL

\* And the user it belongs to does see it: no entry that another operation left
\* in the maps decides about the line in its place.
THEOREM OwnEventsAlwaysShown == Spec => []OwnEventsShown
<1>1. ShapeInv /\ SafeInv => OwnEventsShown
  <2> SUFFICES ASSUME ShapeInv, SafeInv, reader # NoReader, reader.verdict.found,
                      reader.event.covered, ~ops[reader.event.op].contended
               PROVE  ShownTo(reader.event) \subseteq reader.verdict.shown
    BY DEF OwnEventsShown
  <2>1. PICK e, s, v : reader = Line(e, s, v)
    BY DEF ShapeInv, Readable
  <2>2. reader.event = e /\ reader.verdict = v
    BY <2>1 DEF Line
  <2>3. v.shown = ShownTo(e)
    BY <2>1, <2>2 DEF SafeInv, ReaderSafe, Covered
  <2> QED  BY <2>2, <2>3
<1> QED  BY <1>1, SafeInductive, PTL
=============================================================================
