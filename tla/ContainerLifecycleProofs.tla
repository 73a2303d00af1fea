---------------------- MODULE ContainerLifecycleProofs ----------------------
(***************************************************************************)
(* Proofs about ContainerLifecycle, for every set of containers, ports,    *)
(* uids, callers and workers, every quota, and any number of restarts,     *)
(* breaks of the event stream and lost answers.                            *)
(*                                                                         *)
(* The inductive invariant says of a request in flight what its check      *)
(* established and nobody can take back: a container that was made stays   *)
(* made, keeps its labels, and is gone for good once it is gone.           *)
(***************************************************************************)
EXTENDS ContainerLifecycle, FiniteSetTheorems, TLAPS

USE UidsAssumption, ContainerAssumption

\* What request r may rely on when the containers are in states st with labels lb
Sound(r, st, lb) ==
    /\ r.pc \in {"register", "ports", "delRow", "release", "pruneDel"} => r.c \in Containers
    /\ r.pc = "forward" => r.op \in {"create", "start", "rm"}
    /\ r.pc = "forward" /\ r.op \in {"start", "rm"} => r.c \in Containers /\ st[r.c] # "unused"
    /\ r.pc = "register" => st[r.c] # "unused" /\ lb[r.c] = r.id
    /\ r.pc = "forward" /\ r.op = "rm" =>
          IsPrivileged(r.id) \/ LabelFetchMayFail \/ st[r.c] = "gone" \/ lb[r.c].uid = r.id.uid
    /\ r.pc = "forward" /\ r.op = "start" => IsPrivileged(r.id) \/ lb[r.c].uid = r.id.uid
    /\ r.pc \in {"prune", "pruneDel", "delRow", "release"} /\ r.op = "prune" =>
          \A c \in r.todo : st[c] # "unused" /\ lb[c].uid = r.id.uid
    /\ r.pc = "prune" => r.op \in {"prune", "sweep"}
    /\ r.pc \in {"delRow", "release"} => r.op \in {"rm", "prune", "sweep"}
    /\ r.pc = "pruneDel" => r.op = "prune" /\ st[r.c] # "unused" /\ lb[r.c].uid = r.id.uid

RequestsSound == \A w \in Workers : Sound(req[w], status, label)

ListenerSound == listener.pc # "idle" => listener.c \in Containers

IInv == TypeOK /\ RequestsSound /\ ListenerSound /\ RowsMatchLabels

\* What no step undoes
Stable ==
    \A c \in Containers :
        /\ status[c] # "unused" => status'[c] # "unused" /\ label'[c] = label[c]
        /\ status[c] = "gone" => status'[c] = "gone"

LEMMA IdleRequestType ==
    /\ IdleRequest \in Requests
    /\ Root \in Identities
    /\ NoRow \in Rows
    /\ IdleListener \in [pc : {"idle", "release", "delete"}, c : Containers \cup {NoContainer}]
BY DEF IdleRequest, Requests, Root, Identities, Modes, PCs, MaxRetries, NoRow, Rows, IdleListener

LEMMA InitIInv == Init => IInv
<1> SUFFICES ASSUME Init PROVE IInv
  OBVIOUS
<1>1. TypeOK
  BY IdleRequestType DEF Init, TypeOK, Statuses
<1>2. RequestsSound
  BY DEF Init, RequestsSound, Sound, IdleRequest
<1>3. ListenerSound /\ RowsMatchLabels
  BY DEF Init, ListenerSound, IdleListener, RowsMatchLabels, NoRow
<1> QED  BY <1>1, <1>2, <1>3 DEF IInv

-----------------------------------------------------------------------------
(* Frames: what a step on one request leaves true of the others. *)

\* A request that was sound stays sound in a stable step.
LEMMA SoundStays ==
    ASSUME IInv, Stable, NEW w \in Workers, req'[w] = req[w]
    PROVE  Sound(req'[w], status', label')
<1>1. req[w] \in Requests /\ Sound(req[w], status, label)
  BY DEF IInv, TypeOK, RequestsSound
<1>2. req[w].todo \subseteq Containers
  BY <1>1 DEF Requests
<1> QED  BY <1>1, <1>2 DEF Sound, Stable

\* A step that replaces one request by a sound one keeps all requests sound.
LEMMA RequestStep ==
    ASSUME IInv, Stable, NEW w \in Workers, NEW r \in Requests,
           req' = [req EXCEPT ![w] = r], Sound(r, status', label')
    PROVE  req' \in [Workers -> Requests] /\ RequestsSound'
<1>1. req \in [Workers -> Requests]
  BY DEF IInv, TypeOK
<1>2. ASSUME NEW v \in Workers PROVE Sound(req'[v], status', label')
  <2>1. CASE v = w
    BY <1>1, <2>1
  <2>2. CASE v # w
    BY <1>1, <2>2, SoundStays
  <2> QED  BY <2>1, <2>2
<1> QED  BY <1>1, <1>2 DEF RequestsSound

LEMMA FinishStep ==
    ASSUME IInv, Stable, NEW w \in Workers, Finish(w)
    PROVE  req' \in [Workers -> Requests] /\ RequestsSound'
<1>1. Sound(IdleRequest, status', label')
  BY DEF Sound, IdleRequest
<1> QED  BY <1>1, IdleRequestType, RequestStep DEF Finish

LEMMA GotoIsRequest ==
    ASSUME IInv, NEW w \in Workers, NEW pc \in PCs, Goto(w, pc)
    PROVE  /\ [req[w] EXCEPT !.pc = pc] \in Requests
           /\ req' = [req EXCEPT ![w] = [req[w] EXCEPT !.pc = pc]]
BY DEF IInv, TypeOK, Goto, Requests

LEMMA SameDaemon == ASSUME UNCHANGED daemonVars PROVE Stable
BY DEF Stable, daemonVars

\* A step that leaves requests and daemon alone keeps every request sound.
LEMMA RequestsKept ==
    ASSUME IInv, Stable, UNCHANGED req
    PROVE  req' \in [Workers -> Requests] /\ RequestsSound'
BY SoundStays DEF IInv, TypeOK, RequestsSound

\* The rows keep matching the labels if none of them changes.
LEMMA RowsKept ==
    ASSUME IInv, Stable, UNCHANGED rows
    PROVE  RowsMatchLabels'
BY DEF IInv, Stable, RowsMatchLabels

\* Deleting a row keeps the others matching.
LEMMA RowDeleted ==
    ASSUME IInv, Stable, NEW c \in Containers, DeleteContainer(c)
    PROVE  rows' \in [Containers -> Rows] /\ RowsMatchLabels'
BY IdleRequestType DEF IInv, TypeOK, Stable, RowsMatchLabels, DeleteContainer, NoRow

LEMMA PortsReleased ==
    ASSUME IInv, NEW c \in Containers, ReleasePortMappings(c)
    PROVE  portOf' \in [Ports -> Containers \cup {NoContainer}]
BY DEF IInv, TypeOK, ReleasePortMappings

\* Removing containers is a stable step of the right type.
LEMMA RemoveStep ==
    ASSUME IInv, NEW S \in SUBSET Containers, Remove(S),
           \A c \in S : Exists(c)
    PROVE  /\ Stable
           /\ status' \in [Containers -> Statuses] /\ label' = label /\ bindings' = bindings
           /\ stream' \subseteq Containers
           /\ connected' = connected /\ listener' = listener /\ cuts' = cuts
BY DEF IInv, TypeOK, Remove, Emit, Stable, Statuses, Exists

\* Putting the parts of the invariant together
LEMMA Assemble ==
    ASSUME IInv, req' \in [Workers -> Requests] /\ RequestsSound', RowsMatchLabels',
           UNCHANGED <<label, bindings, rows, portOf, restarts, connected, listener, cuts>>,
           status' \in [Containers -> Statuses], stream' \subseteq Containers
    PROVE  IInv'
BY DEF IInv, TypeOK, ListenerSound

-----------------------------------------------------------------------------
(* Every action keeps the invariant. *)

LEMMA ArriveIInv ==
    ASSUME IInv, NEW w \in Workers, Arrive(w)
    PROVE  IInv' /\ Stable
<1> PICK id \in Callers :
        \/ \E P \in SUBSET Ports : checkCreateContainer(w, id, P)
        \/ \E op \in {"start", "rm"}, c \in Containers, byId \in BOOLEAN :
              checkContainerOwnership(w, id, op, c, byId)
        \/ handleContainerPrune(w, id)
  BY DEF Arrive
<1> id \in Identities
  OBVIOUS
<1>1. ASSUME NEW r \in Requests, Begin(w, r), Sound(r, status, label),
             UNCHANGED <<daemonVars, tableVars, eventVars, restarts>>
      PROVE  IInv' /\ Stable
  <2>1. Stable
    BY <1>1, SameDaemon
  <2>2. req' \in [Workers -> Requests] /\ RequestsSound'
    BY <1>1, <2>1, RequestStep DEF Begin, daemonVars
  <2>3. RowsMatchLabels'
    BY <1>1, <2>1, RowsKept DEF tableVars
  <2>4. status' \in [Containers -> Statuses] /\ stream' \subseteq Containers
    BY <1>1 DEF IInv, TypeOK, daemonVars, eventVars
  <2> QED  BY <1>1, <2>1, <2>2, <2>3, <2>4, Assemble DEF daemonVars, tableVars, eventVars
<1>2. ASSUME NEW P \in SUBSET Ports, checkCreateContainer(w, id, P)
      PROVE  IInv' /\ Stable
  <2> DEFINE r == [IdleRequest EXCEPT !.pc = "forward", !.op = "create", !.id = id,
                                      !.ports = P, !.body = TRUE]
  <2>1. r \in Requests
    BY IdleRequestType DEF Requests, IdleRequest, PCs, AllOps, MaxRetries
  <2>2. Sound(r, status, label)
    BY DEF Sound, IdleRequest
  <2> QED  BY <1>1, <1>2, <2>1, <2>2 DEF checkCreateContainer
<1>3. ASSUME NEW op \in {"start", "rm"}, NEW c \in Containers, NEW byId \in BOOLEAN,
             checkContainerOwnership(w, id, op, c, byId)
      PROVE  IInv' /\ Stable
  <2> DEFINE r == [IdleRequest EXCEPT !.pc = "forward", !.op = op, !.id = id,
                                      !.c = c, !.byId = byId]
  <2>1. r \in Requests
    BY IdleRequestType DEF Requests, IdleRequest, PCs, AllOps, MaxRetries
  <2>2. status[c] # "unused" /\ Allowed(id, op, c, byId)
    BY <1>3 DEF checkContainerOwnership
  <2>3. IsPrivileged(id) \/ LabelFetchMayFail \/ status[c] = "gone" \/ label[c].uid = id.uid
        \/ op = "start"
    BY <2>2 DEF Allowed, LabelAllows, Exists, IInv, TypeOK, Statuses, RowsMatchLabels
  <2>4. op = "start" => IsPrivileged(id) \/ label[c].uid = id.uid
    BY <2>2 DEF Allowed, LabelAllows, IInv, RowsMatchLabels
  <2>5. Sound(r, status, label)
    BY <2>2, <2>3, <2>4 DEF Sound, IdleRequest
  <2> QED  BY <1>1, <1>3, <2>1, <2>5 DEF checkContainerOwnership
<1>4. CASE handleContainerPrune(w, id)
  <2> DEFINE own == GetContainerIDsByOwner(id.uid)
             stopped == {c \in Containers : status[c] = "stopped"}
             mine == [IdleRequest EXCEPT !.pc = "prune", !.op = "prune", !.id = id, !.todo = own]
             all == [IdleRequest EXCEPT !.pc = "prune", !.op = "sweep", !.id = id,
                                        !.todo = stopped]
  <2>1. mine \in Requests /\ all \in Requests
    BY IdleRequestType DEF Requests, IdleRequest, PCs, AllOps, MaxRetries, GetContainerIDsByOwner
  <2>2. CASE Begin(w, mine) /\ UNCHANGED <<daemonVars, eventVars>>
    <3>1. \A c \in own : status[c] # "unused" /\ label[c].uid = id.uid
      BY DEF GetContainerIDsByOwner, IInv, RowsMatchLabels
    <3>2. Sound(mine, status, label)
      BY <3>1 DEF Sound, IdleRequest
    <3> QED  BY <1>1, <1>4, <2>1, <2>2, <3>2 DEF handleContainerPrune
  <2>3. CASE Begin(w, all) /\ Remove(stopped)
    <3>1. Sound(all, status', label')
      BY DEF Sound, IdleRequest
    <3>2. /\ Stable
          /\ status' \in [Containers -> Statuses] /\ label' = label /\ bindings' = bindings
          /\ stream' \subseteq Containers
          /\ connected' = connected /\ listener' = listener /\ cuts' = cuts
      BY <2>3, RemoveStep DEF Exists
    <3>3. req' \in [Workers -> Requests] /\ RequestsSound'
      BY <2>1, <2>3, <3>1, <3>2, RequestStep DEF Begin
    <3>4. UNCHANGED <<rows, portOf, restarts>>
      BY <1>4 DEF handleContainerPrune, tableVars
    <3> QED  BY <3>2, <3>3, <3>4, RowsKept, Assemble
  <2> QED  BY <1>4, <2>2, <2>3 DEF handleContainerPrune
<1> QED  BY <1>2, <1>3, <1>4

LEMMA DaemonIInv ==
    ASSUME IInv, NEW w \in Workers, Daemon(w)
    PROVE  IInv' /\ Stable
<1> req \in [Workers -> Requests] /\ req[w] \in Requests /\ Sound(req[w], status, label)
  BY DEF IInv, TypeOK, RequestsSound
<1>1. CASE DaemonCreates(w)
  <2>0. PICK c \in Containers :
        /\ status[c] = "unused"
        /\ status' = [status EXCEPT ![c] = "stopped"]
        /\ label' = [label EXCEPT ![c] = req[w].id]
        /\ bindings' = [bindings EXCEPT ![c] = req[w].ports]
        /\ \/ req' = [req EXCEPT ![w].pc = "register", ![w].c = c, ![w].body = FALSE]
           \/ IF req[w].attempt < MaxRetries
              THEN req' = [req EXCEPT ![w].attempt = @ + 1]
              ELSE Finish(w)
    BY <1>1 DEF DaemonCreates
  <2>1. Stable
    BY <2>0 DEF Stable, IInv, TypeOK
  <2>2. Forwarded(w, "create") /\ UNCHANGED <<tableVars, eventVars, restarts>>
    BY <1>1 DEF DaemonCreates
  <2>3. status' \in [Containers -> Statuses] /\ label' \in [Containers -> Identities]
        /\ bindings' \in [Containers -> SUBSET Ports]
        /\ status'[c] = "stopped" /\ label'[c] = req[w].id
    BY <2>0 DEF IInv, TypeOK, Statuses, Requests
  <2>4. req' \in [Workers -> Requests] /\ RequestsSound'
    <3>1. CASE req' = [req EXCEPT ![w].pc = "register", ![w].c = c, ![w].body = FALSE]
      <4> DEFINE r == [req[w] EXCEPT !.pc = "register", !.c = c, !.body = FALSE]
      <4>1. r \in Requests /\ req' = [req EXCEPT ![w] = r]
        BY <3>1 DEF Requests, PCs
      <4>2. r.pc = "register" /\ r.c = c /\ r.id = req[w].id
        BY DEF Requests
      <4>3. Sound(r, status', label')
        BY <2>3, <4>2 DEF Sound
      <4> QED  BY <2>1, <4>1, <4>3, RequestStep
    <3>2. CASE req[w].attempt < MaxRetries /\ req' = [req EXCEPT ![w].attempt = @ + 1]
      <4> DEFINE r == [req[w] EXCEPT !.attempt = req[w].attempt + 1]
      <4>1. r \in Requests /\ req' = [req EXCEPT ![w] = r]
        BY <3>2 DEF Requests, MaxRetries
      <4>2. r.pc = "forward" /\ r.op = "create"
        BY <2>2 DEF Requests, Forwarded
      <4>3. Sound(r, status', label')
        BY <4>2 DEF Sound
      <4> QED  BY <2>1, <4>1, <4>3, RequestStep
    <3>3. CASE Finish(w)
      BY <2>1, <3>3, FinishStep
    <3> QED  BY <2>0, <3>1, <3>2, <3>3
  <2>5. RowsMatchLabels'
    BY <2>1, <2>2, RowsKept DEF tableVars
  <2> QED  BY <2>1, <2>2, <2>3, <2>4, <2>5 DEF IInv, TypeOK, ListenerSound, tableVars, eventVars
<1>2. CASE DaemonStarts(w)
  <2>1. req[w].c \in Containers /\ status[req[w].c] = "stopped"
    BY <1>2 DEF DaemonStarts, Forwarded, Sound
  <2>2. status' \in [Containers -> Statuses] /\ Stable
    BY <1>2, <2>1 DEF DaemonStarts, Stable, IInv, TypeOK, Statuses
  <2>3. req' \in [Workers -> Requests] /\ RequestsSound'
    BY <1>2, <2>2, FinishStep DEF DaemonStarts
  <2>4. UNCHANGED <<label, bindings, rows, portOf, restarts, connected, listener, cuts, stream>>
    BY <1>2 DEF DaemonStarts, tableVars, eventVars
  <2> QED  BY <2>2, <2>3, <2>4, RowsKept, Assemble DEF IInv, TypeOK
<1>3. CASE DaemonRemoves(w)
  <2>1. req[w].c \in Containers /\ Exists(req[w].c) /\ Remove({req[w].c})
    BY <1>3 DEF DaemonRemoves, Forwarded, Sound
  <2>2. /\ Stable
        /\ status' \in [Containers -> Statuses] /\ label' = label /\ bindings' = bindings
        /\ stream' \subseteq Containers
        /\ connected' = connected /\ listener' = listener /\ cuts' = cuts
    BY <2>1, RemoveStep
  <2>3. req' \in [Workers -> Requests] /\ RequestsSound'
    <3>1. CASE Finish(w)
      BY <2>2, <3>1, FinishStep
    <3>2. CASE Goto(w, "delRow")
      <4> DEFINE r == [req[w] EXCEPT !.pc = "delRow"]
      <4>1. r \in Requests /\ req' = [req EXCEPT ![w] = r]
        BY <3>2, GotoIsRequest DEF PCs
      <4>2. r.pc = "delRow" /\ r.c = req[w].c /\ r.op = "rm"
        BY <1>3 DEF Requests, DaemonRemoves, Forwarded
      <4>3. Sound(r, status', label')
        BY <2>1, <4>2 DEF Sound
      <4> QED  BY <2>2, <4>1, <4>3, RequestStep
    <3> QED  BY <1>3, <3>1, <3>2 DEF DaemonRemoves
  <2>4. UNCHANGED <<rows, portOf, restarts>>
    BY <1>3 DEF DaemonRemoves, tableVars
  <2> QED  BY <2>2, <2>3, <2>4, RowsKept, Assemble
<1>4. CASE DaemonPrunes(w)
  <2>1. req[w].c \in Containers /\ Exists(req[w].c) /\ Remove({req[w].c})
    BY <1>4 DEF DaemonPrunes, Sound, Exists
  <2>2. /\ Stable
        /\ status' \in [Containers -> Statuses] /\ label' = label /\ bindings' = bindings
        /\ stream' \subseteq Containers
        /\ connected' = connected /\ listener' = listener /\ cuts' = cuts
    BY <2>1, RemoveStep
  <2>3. req' \in [Workers -> Requests] /\ RequestsSound'
    <3>0. PICK pc \in {"delRow", "prune"} : Goto(w, pc)
      BY <1>4 DEF DaemonPrunes
    <3> DEFINE r == [req[w] EXCEPT !.pc = pc]
    <3>1. r \in Requests /\ req' = [req EXCEPT ![w] = r]
      BY <3>0, GotoIsRequest DEF PCs
    <3>2. r.pc = pc /\ r.c = req[w].c /\ r.op = req[w].op /\ r.id = req[w].id
          /\ r.todo = req[w].todo /\ r.todo \subseteq Containers /\ req[w].pc = "pruneDel"
      BY <1>4 DEF Requests, DaemonPrunes
    <3>3. Sound(r, status', label')
      BY <2>1, <2>2, <3>2 DEF Sound, Stable
    <3> QED  BY <2>2, <3>1, <3>3, RequestStep
  <2>4. UNCHANGED <<rows, portOf, restarts>>
    BY <1>4 DEF DaemonPrunes, tableVars
  <2> QED  BY <2>2, <2>3, <2>4, RowsKept, Assemble
<1>5. CASE DaemonFails(w)
  <2>1. Stable /\ UNCHANGED <<status, label, bindings, rows, portOf, restarts, connected,
                              listener, cuts, stream>>
    BY <1>5, SameDaemon DEF DaemonFails, daemonVars, tableVars, eventVars
  <2>2. req' \in [Workers -> Requests] /\ RequestsSound'
    <3>1. CASE Finish(w)
      BY <2>1, <3>1, FinishStep
    <3>2. CASE req[w].pc = "pruneDel" /\ Goto(w, "prune")
      <4> DEFINE r == [req[w] EXCEPT !.pc = "prune"]
      <4>1. r \in Requests /\ req' = [req EXCEPT ![w] = r]
        BY <3>2, GotoIsRequest DEF PCs
      <4>2. r.pc = "prune" /\ r.op = req[w].op /\ r.id = req[w].id /\ r.todo = req[w].todo
        BY DEF Requests
      <4>3. Sound(r, status', label')
        BY <2>1, <3>2, <4>2 DEF Sound
      <4> QED  BY <2>1, <4>1, <4>3, RequestStep
    <3> QED  BY <1>5, <3>1, <3>2 DEF DaemonFails
  <2> QED  BY <2>1, <2>2, RowsKept, Assemble DEF IInv, TypeOK
<1> QED  BY <1>1, <1>2, <1>3, <1>4, <1>5 DEF Daemon

LEMMA WriteIInv ==
    ASSUME IInv, NEW w \in Workers, Write(w)
    PROVE  IInv' /\ Stable
<1> req \in [Workers -> Requests] /\ req[w] \in Requests /\ Sound(req[w], status, label)
  BY DEF IInv, TypeOK, RequestsSound
<1>0. Stable /\ UNCHANGED <<daemonVars, eventVars, restarts>>
  BY SameDaemon DEF Write, RegisterContainer, RecordPort, PruneNext, PruneDone, ForgetRow,
     ForgetPorts
\* a step to pc keeps the request sound if pc needs no more than it has
<1>1. ASSUME NEW pc \in {"ports", "release", "prune"}, Goto(w, pc),
             pc # "prune" => req[w].c \in Containers,
             req[w].pc \in {"register", "pruneDel", "delRow", "release"},
             pc = "prune" => req[w].op # "rm",
             req[w].pc = "register" => pc = "ports",
             pc = "ports" => req[w].pc = "register"
      PROVE  req' \in [Workers -> Requests] /\ RequestsSound'
  <2> DEFINE r == [req[w] EXCEPT !.pc = pc]
  <2>1. r \in Requests /\ req' = [req EXCEPT ![w] = r]
    BY <1>1, GotoIsRequest DEF PCs
  <2>2. r.pc = pc /\ r.c = req[w].c /\ r.op = req[w].op /\ r.id = req[w].id
        /\ r.todo = req[w].todo
    BY <1>1 DEF Requests
  <2>3. Sound(r, status', label')
    BY <1>0, <1>1, <2>2 DEF Sound, daemonVars
  <2> QED  BY <1>0, <2>1, <2>3, RequestStep
<1>2. ASSUME req' \in [Workers -> Requests] /\ RequestsSound', RowsMatchLabels',
             rows' \in [Containers -> Rows],
             portOf' \in [Ports -> Containers \cup {NoContainer}]
      PROVE  IInv' /\ Stable
  BY <1>0, <1>2 DEF IInv, TypeOK, ListenerSound, daemonVars, eventVars
<1>3. CASE RegisterContainer(w)
  <2>1. req[w].c \in Containers /\ status[req[w].c] # "unused" /\ label[req[w].c] = req[w].id
        /\ req[w].id \in Identities /\ req[w].body \in BOOLEAN
    BY <1>3 DEF RegisterContainer, Sound, Requests
  <2>2. rows' \in [Containers -> Rows]
    BY <1>3, <2>1 DEF RegisterContainer, SetContainerOwner, IInv, TypeOK, Rows, Identities,
       IsSudoCommand
  <2>3. RowsMatchLabels'
    BY <1>0, <1>3, <2>1 DEF RegisterContainer, SetContainerOwner, IInv, TypeOK, RowsMatchLabels,
       daemonVars
  <2>4. req' \in [Workers -> Requests] /\ RequestsSound'
    BY <1>0, <1>1, <1>3, <2>1, FinishStep DEF RegisterContainer
  <2> QED  BY <1>2, <1>3, <2>2, <2>3, <2>4 DEF RegisterContainer, IInv, TypeOK
<1>4. CASE RecordPort(w)
  <2>1. PICK p \in req[w].ports :
        IF portOf[p] = NoContainer
        THEN /\ portOf' = [portOf EXCEPT ![p] = req[w].c]
             /\ IF req[w].ports = {p} THEN Finish(w)
                ELSE req' = [req EXCEPT ![w].ports = @ \ {p}]
        ELSE UNCHANGED portOf /\ Finish(w)
    BY <1>4 DEF RecordPort
  <2>2. req[w].c \in Containers /\ req[w].pc = "ports"
    BY <1>4 DEF RecordPort, Sound
  <2>3. portOf' \in [Ports -> Containers \cup {NoContainer}]
    BY <2>1, <2>2 DEF IInv, TypeOK, Requests
  <2>4. req' \in [Workers -> Requests] /\ RequestsSound'
    <3>1. CASE Finish(w)
      BY <1>0, <3>1, FinishStep
    <3>2. CASE req' = [req EXCEPT ![w].ports = @ \ {p}]
      <4> DEFINE r == [req[w] EXCEPT !.ports = req[w].ports \ {p}]
      <4>1. r \in Requests /\ req' = [req EXCEPT ![w] = r]
        BY <3>2 DEF Requests
      <4>2. r.pc = "ports" /\ r.c = req[w].c
        BY <2>2 DEF Requests
      <4>3. Sound(r, status', label')
        BY <2>2, <4>2 DEF Sound
      <4> QED  BY <1>0, <4>1, <4>3, RequestStep
    <3> QED  BY <2>1, <3>1, <3>2
  <2>5. UNCHANGED rows
    BY <1>4 DEF RecordPort
  <2> QED  BY <1>0, <1>2, <2>3, <2>4, <2>5, RowsKept DEF IInv, TypeOK
<1>5. CASE PruneNext(w)
  <2>1. PICK c \in req[w].todo :
        req' = [req EXCEPT ![w].todo = @ \ {c}, ![w].c = c,
                           ![w].pc = IF req[w].op = "sweep" THEN "delRow" ELSE "pruneDel"]
    BY <1>5 DEF PruneNext
  <2> DEFINE r == [req[w] EXCEPT !.todo = req[w].todo \ {c}, !.c = c,
                                 !.pc = IF req[w].op = "sweep" THEN "delRow" ELSE "pruneDel"]
  <2>2. c \in Containers
    BY DEF Requests
  <2>3. r \in Requests /\ req' = [req EXCEPT ![w] = r]
    BY <2>1, <2>2 DEF Requests, PCs
  <2>4. r.c = c /\ r.op = req[w].op /\ r.id = req[w].id /\ r.todo = req[w].todo \ {c}
        /\ r.pc = IF req[w].op = "sweep" THEN "delRow" ELSE "pruneDel"
    BY DEF Requests
  <2>5. req[w].op \in {"prune", "sweep"}
    BY <1>5 DEF PruneNext, Sound
  <2>6. Sound(r, status', label')
    BY <1>0, <1>5, <2>2, <2>4, <2>5 DEF PruneNext, Sound, daemonVars
  <2>7. UNCHANGED tableVars
    BY <1>5 DEF PruneNext
  <2> QED  BY <1>0, <1>2, <2>3, <2>6, <2>7, RequestStep, RowsKept DEF IInv, TypeOK, tableVars
<1>6. CASE PruneDone(w)
  <2>1. UNCHANGED tableVars
    BY <1>6 DEF PruneDone
  <2> QED  BY <1>0, <1>2, <1>6, <2>1, FinishStep, RowsKept DEF PruneDone, IInv, TypeOK, tableVars
<1>7. CASE ForgetRow(w)
  <2>1. req[w].c \in Containers /\ req[w].pc = "delRow"
    BY <1>7 DEF ForgetRow, Sound
  <2>2. req' \in [Workers -> Requests] /\ RequestsSound'
    BY <1>1, <1>7, <2>1 DEF ForgetRow
  <2>3. rows' \in [Containers -> Rows] /\ RowsMatchLabels'
    BY <1>0, <1>7, <2>1, RowDeleted DEF ForgetRow
  <2> QED  BY <1>2, <1>7, <2>2, <2>3 DEF ForgetRow, IInv, TypeOK
<1>8. CASE ForgetPorts(w)
  <2>1. req[w].c \in Containers /\ req[w].pc = "release"
    BY <1>8 DEF ForgetPorts, Sound
  <2>2. req' \in [Workers -> Requests] /\ RequestsSound'
    BY <1>0, <1>1, <1>8, <2>1, FinishStep DEF ForgetPorts
  <2>3. portOf' \in [Ports -> Containers \cup {NoContainer}]
    BY <1>8, <2>1, PortsReleased DEF ForgetPorts
  <2>4. UNCHANGED rows
    BY <1>8 DEF ForgetPorts
  <2> QED  BY <1>0, <1>2, <2>2, <2>3, <2>4, RowsKept DEF IInv, TypeOK
<1> QED  BY <1>3, <1>4, <1>5, <1>6, <1>7, <1>8 DEF Write

LEMMA OtherIInv ==
    ASSUME IInv,
           \/ \E c \in Containers : ContainerEnds(c)
           \/ Listener \/ StreamBreaks \/ StreamResumes \/ Restart \/ UNCHANGED vars
    PROVE  IInv' /\ Stable
<1>1. ASSUME NEW c \in Containers, ContainerEnds(c) PROVE IInv' /\ Stable
  <2>1. UNCHANGED <<rows, portOf, req, restarts>>
    BY <1>1 DEF ContainerEnds, tableVars
  <2>2. CASE Remove({c})
    <3>1. /\ Stable
          /\ status' \in [Containers -> Statuses] /\ label' = label /\ bindings' = bindings
          /\ stream' \subseteq Containers
          /\ connected' = connected /\ listener' = listener /\ cuts' = cuts
      BY <1>1, <2>2, RemoveStep DEF ContainerEnds, Exists
    <3> QED  BY <2>1, <3>1, RequestsKept, RowsKept, Assemble
  <2>3. CASE /\ status' = [status EXCEPT ![c] = "stopped"]
             /\ UNCHANGED <<label, bindings, eventVars>>
    <3>1. Stable /\ status' \in [Containers -> Statuses]
      BY <1>1, <2>3 DEF ContainerEnds, Stable, IInv, TypeOK, Statuses
    <3> QED  BY <2>1, <2>3, <3>1, RequestsKept, RowsKept, Assemble DEF eventVars, IInv, TypeOK
  <2> QED  BY <1>1, <2>2, <2>3 DEF ContainerEnds
<1>2. CASE ReceiveDestroy \/ StreamBreaks \/ StreamResumes
  <2>1. Stable /\ UNCHANGED <<status, label, bindings, rows, portOf, req, restarts>>
    BY <1>2, SameDaemon DEF ReceiveDestroy, StreamBreaks, StreamResumes, daemonVars, tableVars
  <2>2. RowsMatchLabels' /\ req' \in [Workers -> Requests] /\ RequestsSound'
    BY <2>1, RowsKept, RequestsKept
  <2>3. /\ stream' \subseteq Containers /\ connected' \in BOOLEAN /\ cuts' \in 0 .. MaxCuts
        /\ listener' \in [pc : {"idle", "release", "delete"}, c : Containers \cup {NoContainer}]
        /\ ListenerSound'
    <3>1. CASE ReceiveDestroy
      BY <3>1 DEF ReceiveDestroy, IInv, TypeOK, ListenerSound
    <3>2. CASE StreamBreaks \/ StreamResumes
      <4>1. connected' \in BOOLEAN
        BY <3>2 DEF StreamBreaks, StreamResumes
      <4>2. cuts' \in 0 .. MaxCuts
        BY <3>2 DEF StreamBreaks, StreamResumes, IInv, TypeOK
      <4>3. UNCHANGED <<stream, listener>>
        BY <3>2 DEF StreamBreaks, StreamResumes
      <4> QED  BY <4>1, <4>2, <4>3 DEF IInv, TypeOK, ListenerSound
    <3> QED  BY <1>2, <3>1, <3>2
  <2> QED  BY <2>1, <2>2, <2>3 DEF IInv, TypeOK
<1>3. CASE ListenerReleases
  <2>1. Stable /\ UNCHANGED <<status, label, bindings, rows, req, restarts, stream, connected, cuts>>
    BY <1>3, SameDaemon DEF ListenerReleases, daemonVars
  <2>2. RowsMatchLabels' /\ req' \in [Workers -> Requests] /\ RequestsSound'
    BY <2>1, RowsKept, RequestsKept
  <2>3. portOf' \in [Ports -> Containers \cup {NoContainer}]
    BY <1>3, PortsReleased DEF ListenerReleases, IInv, ListenerSound
  <2>4. /\ listener' \in [pc : {"idle", "release", "delete"}, c : Containers \cup {NoContainer}]
        /\ ListenerSound'
    BY <1>3 DEF ListenerReleases, IInv, TypeOK, ListenerSound
  <2> QED  BY <2>1, <2>2, <2>3, <2>4 DEF IInv, TypeOK
<1>4. CASE ListenerDeletes
  <2>1. Stable /\ UNCHANGED <<status, label, bindings, portOf, req, restarts, stream, connected, cuts>>
    BY <1>4, SameDaemon DEF ListenerDeletes, daemonVars
  <2>2. rows' \in [Containers -> Rows] /\ RowsMatchLabels'
    BY <1>4, <2>1, RowDeleted DEF ListenerDeletes, IInv, ListenerSound
  <2>3. /\ listener' \in [pc : {"idle", "release", "delete"}, c : Containers \cup {NoContainer}]
        /\ ListenerSound'
    BY <1>4, IdleRequestType DEF ListenerDeletes, ListenerSound, IdleListener
  <2> QED  BY <2>1, <2>2, <2>3, RequestsKept DEF IInv, TypeOK
<1>5. CASE Restart
  <2>1. Stable /\ UNCHANGED <<status, label, bindings, rows, portOf, cuts>>
    BY <1>5, SameDaemon DEF Restart, daemonVars, tableVars
  <2>2. req' \in [Workers -> Requests] /\ RequestsSound'
    BY <1>5, IdleRequestType DEF Restart, RequestsSound, Sound, IdleRequest
  <2>3. ListenerSound' /\ restarts' \in 0 .. MaxRestarts
    BY <1>5 DEF Restart, ListenerSound, IdleListener, IInv, TypeOK
  <2> QED  BY <1>5, <2>1, <2>2, <2>3, RowsKept, IdleRequestType DEF Restart, IInv, TypeOK
<1>6. CASE UNCHANGED vars
  <2>1. Stable
    BY <1>6, SameDaemon DEF vars
  <2> QED  BY <1>6, <2>1, RequestsKept, RowsKept
           DEF vars, daemonVars, tableVars, eventVars, IInv, TypeOK, ListenerSound
<1> QED  BY <1>1, <1>2, <1>3, <1>4, <1>5, <1>6 DEF Listener

LEMMA StepIInv == IInv /\ [Next]_vars => IInv' /\ Stable
BY ArriveIInv, DaemonIInv, WriteIInv, OtherIInv DEF Next

-----------------------------------------------------------------------------
(* Theorems. *)

\* Every variable keeps its type in every behaviour, crashes included.
THEOREM TypeCorrect == Spec => []TypeOK
<1>1. IInv => TypeOK
  BY DEF IInv
<1> QED  BY InitIInv, StepIInv, <1>1, PTL DEF Spec

\* A container's row never names anybody but the user its labels name, with
\* any number of requests in flight and whatever the listener deletes meanwhile.
THEOREM RowsAgreeWithLabels == Spec => []RowsMatchLabels
<1>1. IInv => RowsMatchLabels
  BY DEF IInv
<1> QED  BY InitIInv, StepIInv, <1>1, PTL DEF Spec

\* Nobody is locked out of a container he made: with its row or without it,
\* by id or by name, the check lets him start and remove it.
THEOREM OwnersKeepTheirContainers == Spec => []OwnerKeepsContainer
<1>1. IInv => OwnerKeepsContainer
  BY DEF IInv, OwnerKeepsContainer, Allowed, LabelAllows, RowsMatchLabels
<1> QED  BY InitIInv, StepIInv, <1>1, PTL DEF Spec

\* If the labels of a container can always be fetched, no request of a regular
\* user removes a container that somebody else made.
THEOREM CreatorsAloneRemove ==
    ASSUME ~LabelFetchMayFail
    PROVE  Spec => OnlyCreatorRemoves
<1>1. ASSUME IInv, [Next]_vars, NEW w \in Workers, NEW c \in Containers,
             Exists(c), status'[c] = "gone", req'[w] # req[w]
      PROVE  IsPrivileged(CallerOf(w)) \/ label[c].uid = CallerOf(w).uid
  <2> req \in [Workers -> Requests] /\ Sound(req[w], status, label)
      /\ status \in [Containers -> Statuses]
    BY <1>1 DEF IInv, TypeOK, RequestsSound
  <2>1. ASSUME NEW v \in Workers, Daemon(v) \/ Arrive(v) PROVE v = w
    BY <1>1, <2>1 DEF Daemon, DaemonCreates, DaemonStarts, DaemonRemoves, DaemonPrunes,
       DaemonFails, Arrive, checkCreateContainer, checkContainerOwnership,
       handleContainerPrune, Goto, Finish, Begin
  <2>2. CASE Arrive(w)
    <3>1. PICK id \in Callers : handleContainerPrune(w, id)
      BY <1>1, <2>2 DEF Arrive, checkCreateContainer, checkContainerOwnership, daemonVars, Exists
    <3>2. IsPrivileged(id) /\ Idle(w) /\ req'[w].id = id
      BY <1>1, <3>1 DEF handleContainerPrune, daemonVars, Exists, Begin, IdleRequest
    <3> QED  BY <3>2 DEF CallerOf
  <2>3. CASE Daemon(w)
    <3>1. CASE DaemonRemoves(w)
      <4>1. c = req[w].c /\ ~Idle(w) /\ req[w].pc = "forward" /\ req[w].op = "rm"
        BY <1>1, <3>1 DEF DaemonRemoves, Remove, Exists, Forwarded, Idle
      <4> QED  BY <1>1, <4>1 DEF Sound, CallerOf, Exists
    <3>2. CASE DaemonPrunes(w)
      <4>1. c = req[w].c /\ ~Idle(w) /\ req[w].pc = "pruneDel"
        BY <1>1, <3>2 DEF DaemonPrunes, Remove, Exists, Idle
      <4> QED  BY <1>1, <4>1 DEF Sound, CallerOf
    <3>3. CASE DaemonCreates(w) \/ DaemonStarts(w) \/ DaemonFails(w)
      BY <1>1, <3>3 DEF DaemonCreates, DaemonStarts, DaemonFails, Exists, daemonVars
    <3> QED  BY <2>3, <3>1, <3>2, <3>3 DEF Daemon
  <2>4. ASSUME NEW v \in Workers, Write(v) PROVE FALSE
    BY <1>1, <2>4 DEF Write, RegisterContainer, RecordPort, PruneNext, PruneDone, ForgetRow,
       ForgetPorts, daemonVars, Exists
  <2>5. ASSUME NEW d \in Containers, ContainerEnds(d) PROVE FALSE
    BY <1>1, <2>5 DEF ContainerEnds
  <2>6. CASE Listener \/ StreamBreaks \/ StreamResumes \/ Restart \/ UNCHANGED vars
    BY <1>1, <2>6 DEF Listener, ReceiveDestroy, ListenerReleases, ListenerDeletes, StreamBreaks,
       StreamResumes, Restart, vars, daemonVars, Exists
  <2> QED  BY <1>1, <2>1, <2>2, <2>3, <2>4, <2>5, <2>6 DEF Next
<1>2. IInv /\ [Next]_vars =>
        [\A w \in Workers, c \in Containers :
          Exists(c) /\ status'[c] = "gone" /\ req'[w] # req[w] =>
              IsPrivileged(CallerOf(w)) \/ label[c].uid = CallerOf(w).uid]_vars
  BY <1>1
<1> QED  BY InitIInv, StepIInv, <1>2, PTL DEF Spec, OnlyCreatorRemoves

-----------------------------------------------------------------------------
(* The detailed specification implements OwnedContainers. *)

\* the abstract state of the requests
Busy == {w \in Workers : ~Idle(w)}
Who == [w \in Workers |-> req[w].id]

LEMMA SameRights ==
    /\ Promise!Identities = Identities /\ Promise!Root = Root
    /\ \A id : Promise!IsPrivileged(id) <=> IsPrivileged(id)
BY DEF Promise!Identities, Identities, Promise!Modes, Modes, Promise!Root, Root,
   Promise!IsPrivileged, IsPrivileged

\* A request that ends frees its worker,
LEMMA FinishReturns ==
    ASSUME IInv, NEW w \in Workers, Finish(w)
    PROVE  Promise!Returns(w)
<1>1. req \in [Workers -> Requests] /\ req' = [req EXCEPT ![w] = IdleRequest]
  BY DEF IInv, TypeOK, Finish
<1>2. Busy' = Busy \ {w} /\ Who' = [Who EXCEPT ![w] = Root]
  BY <1>1 DEF Busy, Who, Idle, IdleRequest
<1> QED  BY <1>2, SameRights DEF Promise!Returns, Busy, Who

\* and one that goes on keeps it and its caller.
LEMMA GoesOn ==
    ASSUME IInv, NEW w \in Workers, NEW r, req' = [req EXCEPT ![w] = r],
           r.id = req[w].id, r.pc # "idle", ~Idle(w)
    PROVE  Promise!Goes(w)
<1>1. Busy' = Busy /\ Who' = Who
  BY DEF Busy, Who, Idle, IInv, TypeOK
<1> QED  BY <1>1 DEF Promise!Goes, Busy, Who

LEMMA GotoGoes ==
    ASSUME IInv, NEW w \in Workers, NEW pc, pc # "idle", Goto(w, pc), ~Idle(w)
    PROVE  Promise!Goes(w)
<1>1. req' = [req EXCEPT ![w] = [req[w] EXCEPT !.pc = pc]] /\ req[w] \in Requests
  BY DEF Goto, IInv, TypeOK
<1>2. [req[w] EXCEPT !.pc = pc].id = req[w].id /\ [req[w] EXCEPT !.pc = pc].pc = pc
  BY <1>1 DEF Requests
<1> QED  BY <1>1, <1>2, GoesOn

\* A request arrives; a privileged prune removes at once.
LEMMA ArrivePromised ==
    ASSUME IInv, NEW w \in Workers, Arrive(w)
    PROVE  \E id \in Identities : Promise!Accept(w, id)
<1>1. PICK id \in Callers :
        \/ \E P \in SUBSET Ports : checkCreateContainer(w, id, P)
        \/ \E op \in {"start", "rm"}, c \in Containers, byId \in BOOLEAN :
              checkContainerOwnership(w, id, op, c, byId)
        \/ handleContainerPrune(w, id)
  BY DEF Arrive
<1>2. Idle(w) /\ id \in Identities /\ req \in [Workers -> Requests]
      /\ status \in [Containers -> Statuses]
  BY <1>1 DEF checkCreateContainer, checkContainerOwnership, handleContainerPrune, IInv, TypeOK
<1>3. req' = [req EXCEPT ![w] = req'[w]] /\ req'[w].id = id /\ req'[w].pc # "idle"
  <2>1. ASSUME NEW P \in SUBSET Ports, checkCreateContainer(w, id, P) PROVE <1>3!:
    BY <1>2, <2>1 DEF checkCreateContainer, IdleRequest, Begin
  <2>2. ASSUME NEW op \in {"start", "rm"}, NEW c \in Containers, NEW byId \in BOOLEAN,
               checkContainerOwnership(w, id, op, c, byId)
        PROVE  <1>3!:
    BY <1>2, <2>2 DEF checkContainerOwnership, IdleRequest, Begin
  <2>3. CASE handleContainerPrune(w, id)
    BY <1>2, <2>3 DEF handleContainerPrune, IdleRequest, Begin
  <2> QED  BY <1>1, <2>1, <2>2, <2>3
<1>4. Busy' = Busy \cup {w} /\ Who' = [Who EXCEPT ![w] = id] /\ w \notin Busy
  BY <1>2, <1>3 DEF Busy, Who, Idle
<1>5. PICK S \in SUBSET {c \in Containers : Exists(c) /\ IsPrivileged(id)} :
        /\ status' = [c \in Containers |-> IF c \in S THEN "gone" ELSE status[c]]
        /\ label' = label
  <2>1. CASE UNCHANGED daemonVars
    <3> WITNESS {} \in SUBSET {c \in Containers : Exists(c) /\ IsPrivileged(id)}
    <3> QED  BY <1>2, <2>1 DEF daemonVars
  <2>2. CASE IsPrivileged(id) /\ Remove({c \in Containers : status[c] = "stopped"})
    <3>1. {c \in Containers : status[c] = "stopped"}
            \in SUBSET {c \in Containers : Exists(c) /\ IsPrivileged(id)}
      BY <2>2 DEF Exists
    <3> QED  BY <2>2, <3>1 DEF Remove
  <2> QED
    BY <1>1, <2>1, <2>2 DEF checkCreateContainer, checkContainerOwnership, handleContainerPrune
<1>6. S \in SUBSET {c \in Containers : Promise!Live(c) /\ Promise!Entitled(id, c)}
  BY <1>5, SameRights DEF Exists, Promise!Live, Promise!Entitled
<1> QED  BY <1>2, <1>4, <1>5, <1>6 DEF Promise!Accept, Promise!Gone, Busy, Who

Effect(w) ==
    \/ Promise!Create(w) \/ Promise!Start(w) \/ Promise!Remove(w) \/ Promise!Return(w)
    \/ UNCHANGED Promise!vars

\* A daemon's step is the effect its request is entitled to.
LEMMA DaemonPromised ==
    ASSUME IInv, ~LabelFetchMayFail, NEW w \in Workers, Daemon(w)
    PROVE  Effect(w)
<1> req \in [Workers -> Requests] /\ req[w] \in Requests /\ Sound(req[w], status, label)
    /\ status \in [Containers -> Statuses]
  BY DEF IInv, TypeOK, RequestsSound
<1>0. ~Idle(w) /\ w \in Busy /\ Who[w] = req[w].id
  BY DEF Daemon, DaemonCreates, DaemonStarts, DaemonRemoves, DaemonPrunes, DaemonFails,
     Forwarded, Idle, Busy, Who
<1>1. CASE DaemonCreates(w)
  <2>1. PICK c \in Containers :
          /\ status[c] = "unused"
          /\ status' = [status EXCEPT ![c] = "stopped"]
          /\ label' = [label EXCEPT ![c] = req[w].id]
          /\ \/ req' = [req EXCEPT ![w].pc = "register", ![w].c = c, ![w].body = FALSE]
             \/ req' = [req EXCEPT ![w].attempt = @ + 1]
             \/ Finish(w)
    BY <1>1 DEF DaemonCreates
  <2>2. Promise!Goes(w) \/ Promise!Returns(w)
    <3>1. CASE req' = [req EXCEPT ![w].pc = "register", ![w].c = c, ![w].body = FALSE]
      <4> DEFINE r == [req[w] EXCEPT !.pc = "register", !.c = c, !.body = FALSE]
      <4>1. r.id = req[w].id /\ r.pc = "register"
        BY DEF Requests
      <4>2. req' = [req EXCEPT ![w] = r]
        BY <3>1
      <4> QED  BY <1>0, <4>1, <4>2, GoesOn
    <3>2. CASE req' = [req EXCEPT ![w].attempt = @ + 1]
      <4> DEFINE r == [req[w] EXCEPT !.attempt = @ + 1]
      <4>1. r.id = req[w].id /\ r.pc = req[w].pc
        BY DEF Requests
      <4>2. req' = [req EXCEPT ![w] = r]
        BY <3>2
      <4> QED  BY <1>0, <4>1, <4>2, GoesOn DEF Idle
    <3> QED  BY <2>1, <3>1, <3>2, FinishReturns
  <2>3. Promise!Create(w)
    BY <1>0, <2>1, <2>2 DEF Promise!Create, Busy, Who
  <2> QED  BY <2>3 DEF Effect
<1>2. CASE DaemonStarts(w)
  <2>1. /\ req[w].c \in Containers /\ status[req[w].c] = "stopped"
        /\ IsPrivileged(req[w].id) \/ label[req[w].c].uid = req[w].id.uid
        /\ status' = [status EXCEPT ![req[w].c] = "running"] /\ label' = label
    BY <1>2 DEF DaemonStarts, Forwarded, Sound
  <2>2. Promise!Returns(w)
    BY <1>2, FinishReturns DEF DaemonStarts
  <2>3. Promise!Start(w)
    BY <1>0, <2>1, <2>2, SameRights DEF Promise!Start, Promise!Entitled, Busy, Who
  <2> QED  BY <2>3 DEF Effect
<1>3. CASE DaemonRemoves(w)
  <2>1. /\ req[w].c \in Containers /\ Exists(req[w].c) /\ Remove({req[w].c})
        /\ IsPrivileged(req[w].id) \/ label[req[w].c].uid = req[w].id.uid
    BY <1>3 DEF DaemonRemoves, Forwarded, Sound, Exists
  <2>2. Promise!Goes(w) \/ Promise!Returns(w)
    BY <1>0, <1>3, FinishReturns, GotoGoes DEF DaemonRemoves
  <2>3. Promise!Remove(w)
    BY <1>0, <2>1, <2>2, SameRights
       DEF Promise!Remove, Promise!Entitled, Promise!Live, Promise!Gone, Exists, Remove, Busy, Who
  <2> QED  BY <2>3 DEF Effect
<1>4. CASE DaemonPrunes(w)
  <2>1. /\ req[w].c \in Containers /\ Exists(req[w].c) /\ Remove({req[w].c})
        /\ label[req[w].c].uid = req[w].id.uid
    BY <1>4 DEF DaemonPrunes, Sound, Exists
  <2>2. Promise!Goes(w)
    BY <1>0, <1>4, GotoGoes DEF DaemonPrunes
  <2>3. Promise!Remove(w)
    BY <1>0, <2>1, <2>2, SameRights
       DEF Promise!Remove, Promise!Entitled, Promise!Live, Promise!Gone, Exists, Remove, Busy, Who
  <2> QED  BY <2>3 DEF Effect
<1>5. CASE DaemonFails(w)
  <2>1. UNCHANGED <<status, label>>
    BY <1>5 DEF DaemonFails, daemonVars
  <2>2. CASE Finish(w)
    BY <1>0, <2>1, <2>2, FinishReturns DEF Effect, Promise!Return, Busy
  <2>3. CASE Goto(w, "prune")
    BY <1>0, <2>1, <2>3, GotoGoes DEF Effect, Promise!Goes, Promise!vars
  <2> QED  BY <1>5, <2>2, <2>3 DEF DaemonFails
<1> QED  BY <1>1, <1>2, <1>3, <1>4, <1>5 DEF Daemon

\* What the proxy writes is not seen, but for the end of the request.
LEMMA WritePromised ==
    ASSUME IInv, NEW w \in Workers, Write(w)
    PROVE  Effect(w)
<1> req \in [Workers -> Requests] /\ req[w] \in Requests
  BY DEF IInv, TypeOK
<1>0. ~Idle(w) /\ w \in Busy /\ UNCHANGED <<status, label>>
  BY DEF Write, RegisterContainer, RecordPort, PruneNext, PruneDone, ForgetRow, ForgetPorts,
     Idle, Busy, daemonVars
<1>1. CASE Finish(w)
  BY <1>0, <1>1, FinishReturns DEF Effect, Promise!Return, Busy
<1>2. CASE Goto(w, "ports") \/ Goto(w, "release") \/ Goto(w, "prune")
  BY <1>0, <1>2, GotoGoes DEF Effect, Promise!Goes, Promise!vars
<1>3. ASSUME NEW p, req' = [req EXCEPT ![w].ports = @ \ {p}]
      PROVE  Effect(w)
  <2> DEFINE r == [req[w] EXCEPT !.ports = @ \ {p}]
  <2>1. r.id = req[w].id /\ r.pc = req[w].pc /\ req' = [req EXCEPT ![w] = r]
    BY <1>3 DEF Requests
  <2>2. Promise!Goes(w)
    BY <1>0, <2>1, GoesOn DEF Idle
  <2> QED  BY <1>0, <2>2 DEF Effect, Promise!Goes, Promise!vars
<1>4. CASE PruneNext(w)
  <2>1. PICK c \in req[w].todo :
          req' = [req EXCEPT ![w].todo = @ \ {c}, ![w].c = c,
                    ![w].pc = IF req[w].op = "sweep" THEN "delRow" ELSE "pruneDel"]
    BY <1>4 DEF PruneNext
  <2> DEFINE r == [req[w] EXCEPT !.todo = @ \ {c}, !.c = c,
                     !.pc = IF req[w].op = "sweep" THEN "delRow" ELSE "pruneDel"]
  <2>2. r.id = req[w].id /\ r.pc # "idle"
    BY DEF Requests
  <2>3. req' = [req EXCEPT ![w] = r]
    BY <2>1
  <2>4. Promise!Goes(w)
    BY <1>0, <2>2, <2>3, GoesOn
  <2> QED  BY <1>0, <2>4 DEF Effect, Promise!Goes, Promise!vars
<1> QED
  BY <1>1, <1>2, <1>3, <1>4 DEF Write, RegisterContainer, RecordPort, PruneDone, ForgetRow,
     ForgetPorts

\* If the labels of a container can always be fetched, tables, labels and events
\* together behave like a daemon that knows its users: every container has the
\* creator it was asked for by, is started and removed only for those entitled
\* to it, and stays gone, with any number of requests, lost answers and crashes.
THEOREM PromiseKept ==
    ASSUME ~LabelFetchMayFail
    PROVE  Spec => KeepsPromise
<1>1. Init => Promise!Init
  BY SameRights DEF Init, Promise!Init, Idle, IdleRequest
<1>2. ASSUME IInv, [Next]_vars PROVE [Promise!Next]_(Promise!vars)
  <2>1. ASSUME NEW w \in Workers, Arrive(w) PROVE Promise!Next
    BY <1>2, <2>1, ArrivePromised, SameRights DEF Promise!Next
  <2>2. ASSUME NEW w \in Workers, Daemon(w) \/ Write(w)
        PROVE  [Promise!Next]_(Promise!vars)
    BY <1>2, <2>2, DaemonPromised, WritePromised DEF Effect, Promise!Next
  <2>3. ASSUME NEW c \in Containers, ContainerEnds(c) PROVE Promise!Next
    <3>1. /\ status[c] = "running" /\ UNCHANGED <<label, req>>
          /\ \/ status' = [status EXCEPT ![c] = "stopped"]
             \/ status' = [d \in Containers |-> IF d \in {c} THEN "gone" ELSE status[d]]
      BY <2>3 DEF ContainerEnds, Remove
    <3>2. Promise!End(c)
      BY <3>1 DEF Promise!End, Promise!Gone, Idle
    <3> QED  BY <3>2 DEF Promise!Next
  <2>4. CASE Restart
    <3>1. req' = [w \in Workers |-> IdleRequest] /\ UNCHANGED <<status, label>>
      BY <2>4 DEF Restart, daemonVars
    <3>2. Promise!Crash
      BY <3>1, SameRights DEF Promise!Crash, Idle, IdleRequest
    <3> QED  BY <3>2 DEF Promise!Next
  <2>5. CASE Listener \/ StreamBreaks \/ StreamResumes \/ UNCHANGED vars
    <3>1. UNCHANGED <<status, label, req>>
      BY <2>5 DEF Listener, ReceiveDestroy, ListenerReleases, ListenerDeletes, StreamBreaks,
         StreamResumes, vars, daemonVars
    <3> QED  BY <3>1 DEF Promise!vars, Idle
  <2> QED  BY <1>2, <2>1, <2>2, <2>3, <2>4, <2>5 DEF Next
<1> QED  BY <1>1, <1>2, InitIInv, StepIInv, PTL DEF Spec, KeepsPromise, Promise!Spec

-----------------------------------------------------------------------------
(***************************************************************************)
(* One request at a time.  Then nothing starts or removes a container      *)
(* while its create is being registered, and the tables keep up with the   *)
(* daemon.                                                                 *)
(***************************************************************************)

OneAtATime == \A v, w \in Workers : v = w

\* What a request in flight knows of its container when nobody else is at work
Orderly(r) ==
    /\ r.pc \in {"register", "ports"} => status[r.c] = "stopped" /\ label[r.c] = r.id
    /\ r.pc = "register" => r.ports = bindings[r.c]
    /\ r.pc = "ports" => ~IsPrivileged(r.id) /\ r.ports \subseteq bindings[r.c]
    /\ r.pc \in {"delRow", "release"} => status[r.c] = "gone"
    /\ r.pc \in {"prune", "delRow", "release"} /\ r.op = "sweep" =>
           \A c \in r.todo : status[c] = "gone"

RequestsOrderly == \A w \in Workers : Orderly(req[w])

\* what the listener hears of is gone
EventsTrue ==
    /\ \A c \in stream : status[c] = "gone"
    /\ listener.pc # "idle" => status[listener.c] = "gone"

LEMMA OnlyWorker ==
    ASSUME OneAtATime, NEW w \in Workers, Orderly(req[w])'
    PROVE  RequestsOrderly'
  BY DEF OneAtATime, RequestsOrderly

LEMMA ArriveOrderly ==
    ASSUME OneAtATime, IInv, NEW w \in Workers, Arrive(w)
    PROVE  RequestsOrderly'
<1>0. req \in [Workers -> Requests] /\ status \in [Containers -> Statuses]
  BY DEF IInv, TypeOK
<1>1. PICK id \in Callers :
        \/ \E P \in SUBSET Ports : checkCreateContainer(w, id, P)
        \/ \E op \in {"start", "rm"}, c \in Containers, byId \in BOOLEAN :
              checkContainerOwnership(w, id, op, c, byId)
        \/ handleContainerPrune(w, id)
  BY DEF Arrive
<1>2. CASE req'[w].pc = "forward"
  BY <1>2, OnlyWorker DEF Orderly
<1>3. CASE handleContainerPrune(w, id)
  <2>1. req'[w].pc = "prune" /\ (req'[w].op = "sweep" =>
            Remove({c \in Containers : status[c] = "stopped"})
            /\ req'[w].todo = {c \in Containers : status[c] = "stopped"})
    BY ZenonT(40), <1>0, <1>3 DEF handleContainerPrune, Begin, IdleRequest
  <2>2. req'[w].op = "sweep" => \A c \in req'[w].todo : status'[c] = "gone"
    BY <2>1 DEF Remove
  <2> QED  BY <2>1, <2>2, OnlyWorker DEF Orderly
<1>4. ASSUME NEW P \in SUBSET Ports, checkCreateContainer(w, id, P) PROVE req'[w].pc = "forward"
  BY <1>0, <1>4 DEF checkCreateContainer, Begin, IdleRequest
<1>5. ASSUME NEW op \in {"start", "rm"}, NEW c \in Containers, NEW byId \in BOOLEAN,
             checkContainerOwnership(w, id, op, c, byId)
      PROVE  req'[w].pc = "forward"
  BY <1>0, <1>5 DEF checkContainerOwnership, Begin, IdleRequest
<1> QED  BY <1>1, <1>2, <1>3, <1>4, <1>5

LEMMA FinishOrderly ==
    ASSUME OneAtATime, IInv, NEW w \in Workers, Finish(w)
    PROVE  RequestsOrderly'
<1>1. req'[w].pc = "idle"
  BY DEF Finish, IInv, TypeOK, IdleRequest
<1> QED  BY <1>1, OnlyWorker DEF Orderly

LEMMA DaemonOrderly ==
    ASSUME OneAtATime, IInv, RequestsOrderly, NEW w \in Workers, Daemon(w)
    PROVE  RequestsOrderly'
<1>0. /\ req \in [Workers -> Requests] /\ status \in [Containers -> Statuses]
      /\ label \in [Containers -> Identities] /\ bindings \in [Containers -> SUBSET Ports]
      /\ req[w] \in Requests /\ Sound(req[w], status, label) /\ Orderly(req[w])
  BY DEF IInv, TypeOK, RequestsSound, RequestsOrderly
<1>1. CASE Finish(w)
  BY <1>1, FinishOrderly
<1>2. CASE DaemonCreates(w) /\ ~Finish(w)
  <2>1. PICK c \in Containers :
        /\ status' = [status EXCEPT ![c] = "stopped"]
        /\ label' = [label EXCEPT ![c] = req[w].id]
        /\ bindings' = [bindings EXCEPT ![c] = req[w].ports]
        /\ \/ req' = [req EXCEPT ![w].pc = "register", ![w].c = c, ![w].body = FALSE]
           \/ req' = [req EXCEPT ![w].attempt = @ + 1]
    BY <1>2 DEF DaemonCreates
  <2>2. CASE req' = [req EXCEPT ![w].attempt = @ + 1]
    <3>1. req'[w].pc = "forward"
      BY <1>0, <1>2, <2>2 DEF DaemonCreates, Forwarded, Requests
    <3> QED  BY <3>1, OnlyWorker DEF Orderly
  <2>3. CASE req' = [req EXCEPT ![w].pc = "register", ![w].c = c, ![w].body = FALSE]
    <3>1. req'[w].pc = "register" /\ req'[w].c = c /\ req'[w].id = req[w].id
          /\ req'[w].ports = req[w].ports
      BY <1>0, <2>3 DEF Requests
    <3>2. status'[c] = "stopped" /\ label'[c] = req[w].id /\ bindings'[c] = req[w].ports
      BY <1>0, <2>1
    <3> QED  BY <3>1, <3>2, OnlyWorker DEF Orderly
  <2> QED  BY <2>1, <2>2, <2>3
<1>3. CASE DaemonRemoves(w) /\ ~Finish(w)
  <2>1. req[w].c \in Containers /\ Remove({req[w].c}) /\ Goto(w, "delRow") /\ req[w].op = "rm"
    BY <1>0, <1>3 DEF DaemonRemoves, Forwarded, Sound
  <2>2. req'[w].pc = "delRow" /\ req'[w].c = req[w].c /\ req'[w].op = "rm"
    BY <1>0, <2>1 DEF Goto, Requests
  <2>3. status'[req[w].c] = "gone"
    BY <2>1 DEF Remove
  <2> QED  BY <2>2, <2>3, OnlyWorker DEF Orderly
<1>4. CASE DaemonPrunes(w)
  <2>1. req[w].c \in Containers /\ Remove({req[w].c}) /\ req[w].op = "prune"
    BY <1>0, <1>4 DEF DaemonPrunes, Sound
  <2>2. PICK pc \in {"delRow", "prune"} : Goto(w, pc)
    BY <1>4 DEF DaemonPrunes
  <2>3. req'[w].pc = pc /\ req'[w].c = req[w].c /\ req'[w].op = "prune"
    BY <1>0, <2>1, <2>2 DEF Goto, Requests
  <2>4. status'[req[w].c] = "gone"
    BY <2>1 DEF Remove
  <2> QED  BY <2>3, <2>4, OnlyWorker DEF Orderly
<1>5. CASE DaemonFails(w) /\ ~Finish(w)
  <2>1. req[w].op = "prune" /\ Goto(w, "prune")
    BY <1>0, <1>5 DEF DaemonFails, Sound
  <2>2. req'[w].pc = "prune" /\ req'[w].op = "prune"
    BY <1>0, <2>1 DEF Goto, Requests
  <2> QED  BY <2>2, OnlyWorker DEF Orderly
<1> QED  BY <1>1, <1>2, <1>3, <1>4, <1>5 DEF Daemon, DaemonStarts

LEMMA WriteOrderly ==
    ASSUME OneAtATime, IInv, RequestsOrderly, NEW w \in Workers, Write(w)
    PROVE  RequestsOrderly'
<1>0. /\ req \in [Workers -> Requests] /\ req[w] \in Requests
      /\ Sound(req[w], status, label) /\ Orderly(req[w])
  BY DEF IInv, TypeOK, RequestsSound, RequestsOrderly
<1>1. UNCHANGED <<status, label, bindings>>
  BY DEF Write, RegisterContainer, RecordPort, PruneNext, PruneDone, ForgetRow, ForgetPorts,
     daemonVars
<1>2. CASE Finish(w)
  BY <1>2, FinishOrderly
<1>3. CASE RegisterContainer(w) /\ ~Finish(w)
  <2>1. req[w].pc = "register" /\ Goto(w, "ports") /\ ~IsPrivileged(req[w].id)
    BY <1>3 DEF RegisterContainer
  <2>2. req'[w].pc = "ports" /\ req'[w].c = req[w].c /\ req'[w].id = req[w].id
        /\ req'[w].ports = req[w].ports
    BY <1>0, <2>1 DEF Goto, Requests
  <2> QED  BY <1>0, <1>1, <2>1, <2>2, OnlyWorker DEF Orderly
<1>4. CASE RecordPort(w) /\ ~Finish(w)
  <2>1. PICK p : req' = [req EXCEPT ![w].ports = @ \ {p}]
    BY <1>4 DEF RecordPort
  <2>2. req[w].pc = "ports" /\ req'[w].pc = "ports" /\ req'[w].c = req[w].c
        /\ req'[w].id = req[w].id /\ req'[w].ports = req[w].ports \ {p}
    BY <1>0, <1>4, <2>1 DEF RecordPort, Requests
  <2> QED  BY <1>0, <1>1, <2>2, OnlyWorker DEF Orderly
<1>5. CASE PruneNext(w)
  <2>1. PICK c \in req[w].todo :
        req' = [req EXCEPT ![w].todo = @ \ {c}, ![w].c = c,
                           ![w].pc = IF req[w].op = "sweep" THEN "delRow" ELSE "pruneDel"]
    BY <1>5 DEF PruneNext
  <2>2. req[w].pc = "prune" /\ req'[w].c = c /\ req'[w].op = req[w].op
        /\ req'[w].todo = req[w].todo \ {c}
        /\ req'[w].pc = IF req[w].op = "sweep" THEN "delRow" ELSE "pruneDel"
    BY <1>0, <1>5, <2>1 DEF PruneNext, Requests
  <2> QED  BY <1>0, <1>1, <2>2, OnlyWorker DEF Orderly
<1>6. CASE ForgetRow(w) \/ (ForgetPorts(w) /\ ~Finish(w))
  <2>1. PICK pc \in {"release", "prune"} : Goto(w, pc)
    BY <1>6 DEF ForgetRow, ForgetPorts
  <2>2. req[w].pc \in {"delRow", "release"}
    BY <1>6 DEF ForgetRow, ForgetPorts
  <2>3. req'[w].pc = pc /\ req'[w].c = req[w].c /\ req'[w].op = req[w].op
        /\ req'[w].todo = req[w].todo
    BY <1>0, <2>1 DEF Goto, Requests
  <2> QED  BY <1>0, <1>1, <2>2, <2>3, OnlyWorker DEF Orderly
<1> QED  BY <1>2, <1>3, <1>4, <1>5, <1>6 DEF Write, PruneDone

LEMMA OtherOrderly ==
    ASSUME IInv, RequestsOrderly,
           \/ \E c \in Containers : ContainerEnds(c)
           \/ Listener \/ StreamBreaks \/ StreamResumes \/ Restart \/ UNCHANGED vars
    PROVE  RequestsOrderly'
<1>0. Stable
  BY OtherIInv
<1>1. CASE UNCHANGED <<status, label, bindings, req>>
  BY <1>1 DEF RequestsOrderly, Orderly
<1>2. CASE Restart
  BY <1>2 DEF Restart, RequestsOrderly, Orderly, IdleRequest
<1>3. ASSUME NEW c \in Containers, ContainerEnds(c) PROVE RequestsOrderly'
  <2>1. /\ UNCHANGED <<label, bindings, req>> /\ status[c] = "running"
        /\ \A d \in Containers : d # c => status'[d] = status[d]
    BY <1>3 DEF ContainerEnds, Remove, IInv, TypeOK
  <2>2. ASSUME NEW w \in Workers PROVE Orderly(req[w])'
    <3>1. req[w] \in Requests /\ Sound(req[w], status, label) /\ Orderly(req[w])
      BY DEF IInv, TypeOK, RequestsSound, RequestsOrderly
    <3>2. \A d \in Containers : /\ status[d] = "stopped" => status'[d] = "stopped"
                                /\ status[d] = "gone" => status'[d] = "gone"
      BY <2>1
    <3>3. req[w].todo \subseteq Containers
      BY <3>1 DEF Requests
    <3> QED  BY <2>1, <3>1, <3>2, <3>3 DEF Orderly, Sound
  <2> QED  BY <2>2 DEF RequestsOrderly
<1> QED  BY <1>1, <1>2, <1>3 DEF Listener, ReceiveDestroy, ListenerReleases, ListenerDeletes,
            StreamBreaks, StreamResumes, vars, daemonVars

LEMMA StepOrderly ==
    ASSUME OneAtATime, IInv, RequestsOrderly, [Next]_vars
    PROVE  RequestsOrderly'
  BY ArriveOrderly, DaemonOrderly, WriteOrderly, OtherOrderly DEF Next

-----------------------------------------------------------------------------
(* What a step may do to the tables and to the daemon. *)

LEMMA StepEventsTrue ==
    ASSUME IInv, EventsTrue, [Next]_vars
    PROVE  EventsTrue'
<1>0. Stable /\ stream \subseteq Containers /\ (listener.pc # "idle" => listener.c \in Containers)
      /\ listener \in [pc : {"idle", "release", "delete"}, c : Containers \cup {NoContainer}]
  BY StepIInv DEF IInv, TypeOK, ListenerSound
<1>1. CASE UNCHANGED <<stream, listener>>
  BY <1>0, <1>1 DEF EventsTrue, Stable
<1>2. ASSUME NEW S \in SUBSET Containers, Remove(S) PROVE EventsTrue'
  <2>1. stream' \subseteq stream \cup S /\ listener' = listener /\ \A c \in S : status'[c] = "gone"
    BY <1>2 DEF Remove, Emit
  <2> QED  BY <1>0, <2>1 DEF EventsTrue, Stable
<1>3. CASE ReceiveDestroy
  <2>1. PICK c \in stream : stream' = stream \ {c} /\ listener' = [pc |-> "release", c |-> c]
    BY <1>3 DEF ReceiveDestroy
  <2> QED  BY <1>0, <2>1 DEF EventsTrue, Stable
<1>4. CASE ListenerReleases
  <2>1. stream' = stream /\ listener.pc = "release" /\ listener'.c = listener.c
    BY <1>0, <1>4 DEF ListenerReleases
  <2> QED  BY <1>0, <2>1 DEF EventsTrue, Stable
<1>5. CASE ListenerDeletes
  BY <1>0, <1>5 DEF ListenerDeletes, EventsTrue, Stable, IdleListener
<1>6. CASE Restart
  BY <1>6 DEF Restart, EventsTrue, IdleListener
<1>7. ASSUME NEW w \in Workers, Arrive(w) PROVE EventsTrue'
  BY <1>1, <1>2, <1>7 DEF Arrive, checkCreateContainer, checkContainerOwnership,
     handleContainerPrune, eventVars
<1>8. ASSUME NEW w \in Workers, Daemon(w) PROVE EventsTrue'
  <2>1. req[w].pc \in {"forward", "pruneDel"} /\ (req[w].op = "rm" \/ req[w].pc = "pruneDel") =>
            req[w].c \in Containers
    BY DEF IInv, RequestsSound, Sound
  <2> QED  BY <1>1, <1>2, <1>8, <2>1 DEF Daemon, DaemonCreates, DaemonStarts, DaemonRemoves,
              DaemonPrunes, DaemonFails, eventVars, Forwarded
<1>9. ASSUME NEW w \in Workers, Write(w) PROVE EventsTrue'
  BY <1>1, <1>9 DEF Write, RegisterContainer, RecordPort, PruneNext, PruneDone, ForgetRow,
     ForgetPorts, eventVars
<1>10. ASSUME NEW c \in Containers, ContainerEnds(c) PROVE EventsTrue'
  BY <1>1, <1>2, <1>10 DEF ContainerEnds, eventVars
<1>11. CASE StreamBreaks \/ StreamResumes \/ UNCHANGED vars
  BY <1>1, <1>11 DEF StreamBreaks, StreamResumes, vars, eventVars
<1> QED  BY <1>3, <1>4, <1>5, <1>6, <1>7, <1>8, <1>9, <1>10, <1>11 DEF Next, Listener

\* A row changes when its container is registered, or goes when that is gone.
LEMMA RowChange ==
    ASSUME IInv, RequestsOrderly, EventsTrue, [Next]_vars, NEW c \in Containers,
           rows'[c] # rows[c]
    PROVE  \/ \E w \in Workers : RegisterContainer(w) /\ req[w].c = c /\ rows'[c].found
           \/ status[c] = "gone" /\ ~rows'[c].found
<1>0. rows \in [Containers -> Rows]
  BY DEF IInv, TypeOK
<1>1. ASSUME NEW w \in Workers, RegisterContainer(w)
      PROVE  req[w].c = c /\ rows'[c].found
  BY <1>0, <1>1 DEF RegisterContainer, SetContainerOwner
<1>2. ASSUME NEW w \in Workers, ForgetRow(w)
      PROVE  status[c] = "gone" /\ ~rows'[c].found
  <2>1. req[w].c = c /\ rows'[c] = NoRow
    BY <1>0, <1>2 DEF ForgetRow, DeleteContainer
  <2>2. status[req[w].c] = "gone"
    BY <1>2 DEF ForgetRow, RequestsOrderly, Orderly
  <2> QED  BY <2>1, <2>2 DEF NoRow
<1>3. CASE ListenerDeletes
  <2>1. listener.c = c /\ rows'[c] = NoRow
    BY <1>0, <1>3 DEF ListenerDeletes, DeleteContainer
  <2>2. status[listener.c] = "gone"
    BY <1>3 DEF ListenerDeletes, EventsTrue
  <2> QED  BY <2>1, <2>2 DEF NoRow
<1>4. (\E w \in Workers : RegisterContainer(w) \/ ForgetRow(w)) \/ ListenerDeletes
  BY ZenonT(40) DEF Next, Arrive, checkCreateContainer, checkContainerOwnership, handleContainerPrune,
     Daemon, DaemonCreates, DaemonStarts, DaemonRemoves, DaemonPrunes, DaemonFails,
     Write, RecordPort, PruneNext, PruneDone, ForgetPorts, ContainerEnds, Listener,
     ReceiveDestroy, ListenerReleases, StreamBreaks, StreamResumes, Restart, vars, tableVars
<1> QED  BY <1>1, <1>2, <1>3, <1>4

\* A port is recorded for the container of its request, or released for one
\* that is gone.
LEMMA PortChange ==
    ASSUME IInv, RequestsOrderly, EventsTrue, [Next]_vars, NEW p \in Ports,
           portOf'[p] # portOf[p]
    PROVE  \/ /\ portOf[p] = NoContainer
              /\ \E w \in Workers : /\ RecordPort(w) /\ p \in req[w].ports
                                    /\ portOf'[p] = req[w].c
           \/ /\ portOf'[p] = NoContainer
              /\ portOf[p] \in Containers /\ status[portOf[p]] = "gone"
<1>0. portOf \in [Ports -> Containers \cup {NoContainer}] /\ req \in [Workers -> Requests]
  BY DEF IInv, TypeOK
<1>1. ASSUME NEW w \in Workers, RecordPort(w)
      PROVE  portOf[p] = NoContainer /\ p \in req[w].ports /\ portOf'[p] = req[w].c
  <2>1. PICK q \in req[w].ports : portOf[q] = NoContainer
                                  /\ portOf' = [portOf EXCEPT ![q] = req[w].c]
    BY <1>1 DEF RecordPort
  <2> QED  BY <1>0, <2>1
<1>2. ASSUME NEW c \in Containers, status[c] = "gone", ReleasePortMappings(c)
      PROVE  portOf'[p] = NoContainer /\ portOf[p] \in Containers /\ status[portOf[p]] = "gone"
  BY <1>0, <1>2 DEF ReleasePortMappings
<1>3. ASSUME NEW w \in Workers, ForgetPorts(w)
      PROVE  portOf'[p] = NoContainer /\ portOf[p] \in Containers /\ status[portOf[p]] = "gone"
  BY <1>2, <1>3 DEF ForgetPorts, RequestsOrderly, Orderly, IInv, RequestsSound, Sound
<1>4. CASE ListenerReleases
  BY <1>2, <1>4 DEF ListenerReleases, EventsTrue, IInv, ListenerSound
<1>5. (\E w \in Workers : RecordPort(w) \/ ForgetPorts(w)) \/ ListenerReleases
  BY ZenonT(40) DEF Next, Arrive, checkCreateContainer, checkContainerOwnership, handleContainerPrune,
     Daemon, DaemonCreates, DaemonStarts, DaemonRemoves, DaemonPrunes, DaemonFails,
     Write, RegisterContainer, PruneNext, PruneDone, ForgetRow, ContainerEnds, Listener,
     ReceiveDestroy, ListenerDeletes, StreamBreaks, StreamResumes, Restart, vars, tableVars
<1> QED  BY <1>1, <1>3, <1>4, <1>5

\* A container comes into being only by a create.
LEMMA StatusChange ==
    ASSUME IInv, [Next]_vars
    PROVE  \/ \E w \in Workers : DaemonCreates(w)
           \/ /\ \A c \in Containers : Exists(c)' => Exists(c)
              /\ \A c \in Containers : status[c] = "unused" => status'[c] = "unused"
              /\ label' = label /\ bindings' = bindings
<1>0. status \in [Containers -> Statuses]
  BY DEF IInv, TypeOK
<1> SUFFICES ASSUME ~ \E w \in Workers : DaemonCreates(w)
             PROVE  /\ \A c \in Containers : Exists(c)' => Exists(c)
                    /\ \A c \in Containers : status[c] = "unused" => status'[c] = "unused"
                    /\ label' = label /\ bindings' = bindings
  OBVIOUS
<1>1. CASE UNCHANGED daemonVars
  BY <1>1 DEF daemonVars, Exists
<1>2. ASSUME NEW S \in SUBSET Containers, \A c \in S : Exists(c), Remove(S)
      PROVE  /\ \A c \in Containers : Exists(c)' => Exists(c)
             /\ \A c \in Containers : status[c] = "unused" => status'[c] = "unused"
             /\ label' = label /\ bindings' = bindings
  BY <1>2 DEF Remove, Exists
<1>3. ASSUME NEW w \in Workers, Daemon(w)
      PROVE  /\ \A c \in Containers : Exists(c)' => Exists(c)
             /\ \A c \in Containers : status[c] = "unused" => status'[c] = "unused"
             /\ label' = label /\ bindings' = bindings
  <2>1. (req[w].pc = "forward" /\ req[w].op \in {"start", "rm"}) \/ req[w].pc = "pruneDel" =>
            req[w].c \in Containers
    BY DEF IInv, RequestsSound, Sound
  <2>2. CASE DaemonStarts(w)
    BY <1>0, <2>1, <2>2 DEF DaemonStarts, Exists
  <2>3. CASE DaemonRemoves(w) \/ DaemonPrunes(w)
    <3>1. req[w].c \in Containers /\ Exists(req[w].c) /\ Remove({req[w].c})
      BY <2>1, <2>3 DEF DaemonRemoves, DaemonPrunes, Forwarded, Exists
    <3> QED  BY <1>2, <3>1
  <2>4. CASE DaemonFails(w)
    BY <1>1, <2>4 DEF DaemonFails
  <2> QED  BY <1>3, <2>2, <2>3, <2>4 DEF Daemon
<1>4. ASSUME NEW w \in Workers, Arrive(w)
      PROVE  /\ \A c \in Containers : Exists(c)' => Exists(c)
             /\ \A c \in Containers : status[c] = "unused" => status'[c] = "unused"
             /\ label' = label /\ bindings' = bindings
  <2>1. UNCHANGED daemonVars \/ Remove({c \in Containers : status[c] = "stopped"})
    BY <1>4 DEF Arrive, checkCreateContainer, checkContainerOwnership, handleContainerPrune
  <2>2. \A c \in {c \in Containers : status[c] = "stopped"} : Exists(c)
    BY DEF Exists
  <2> QED  BY <1>1, <1>2, <2>1, <2>2
<1>5. ASSUME NEW c \in Containers, ContainerEnds(c)
      PROVE  /\ \A d \in Containers : Exists(d)' => Exists(d)
             /\ \A d \in Containers : status[d] = "unused" => status'[d] = "unused"
             /\ label' = label /\ bindings' = bindings
  <2>1. Exists(c)
    BY <1>5 DEF ContainerEnds, Exists
  <2> QED  BY <1>0, <1>2, <1>5, <2>1 DEF ContainerEnds, Exists
<1>6. \/ UNCHANGED daemonVars
      \/ \E w \in Workers : Arrive(w) \/ Daemon(w)
      \/ \E c \in Containers : ContainerEnds(c)
  BY DEF Next, Write, RegisterContainer, RecordPort, PruneNext, PruneDone, ForgetRow, ForgetPorts,
     Listener, ReceiveDestroy, ListenerReleases, ListenerDeletes, StreamBreaks, StreamResumes,
     Restart, vars
<1> QED  BY <1>1, <1>3, <1>4, <1>5, <1>6

\* A create that has been answered is registered next, and nothing else happens
\* to its request.
LEMMA RegisterNext ==
    ASSUME IInv, MaxRestarts = 0, [Next]_vars, NEW w \in Workers,
           req[w].pc \in {"register", "ports"}
    PROVE  req'[w] = req[w] \/ RegisterContainer(w) \/ RecordPort(w)
<1>0. req \in [Workers -> Requests] /\ ~Restart
  BY DEF IInv, TypeOK, Restart
<1>1. ASSUME NEW v \in Workers, Arrive(v) PROVE req'[w] = req[w]
  BY <1>0, <1>1 DEF Arrive, checkCreateContainer, checkContainerOwnership, handleContainerPrune,
     Idle, Begin
<1>2. ASSUME NEW v \in Workers, Daemon(v) PROVE req'[w] = req[w]
  <2>1. v # w
    BY <1>2 DEF Daemon, DaemonCreates, DaemonStarts, DaemonRemoves, DaemonPrunes, DaemonFails,
       Forwarded
  <2> QED  BY <1>0, <1>2, <2>1 DEF Daemon, DaemonCreates, DaemonStarts, DaemonRemoves,
              DaemonPrunes, DaemonFails, Finish, Goto
<1>3. ASSUME NEW v \in Workers, Write(v)
      PROVE  req'[w] = req[w] \/ RegisterContainer(w) \/ RecordPort(w)
  <2>1. CASE v = w
    BY <1>3, <2>1 DEF Write, PruneNext, PruneDone, ForgetRow, ForgetPorts
  <2>2. CASE v # w
    BY <1>0, <1>3, <2>2 DEF Write, RegisterContainer, RecordPort, PruneNext, PruneDone, ForgetRow,
       ForgetPorts, Finish, Goto
  <2> QED  BY <2>1, <2>2
<1>4. CASE \/ \E c \in Containers : ContainerEnds(c)
           \/ Listener \/ StreamBreaks \/ StreamResumes \/ UNCHANGED vars
  BY <1>4 DEF ContainerEnds, Listener, ReceiveDestroy, ListenerReleases, ListenerDeletes,
     StreamBreaks, StreamResumes, vars
<1> QED  BY <1>0, <1>1, <1>2, <1>3, <1>4 DEF Next

\* Every container has a row, or its create is about to write it.
Accounted ==
    \A c \in Containers :
        Exists(c) => rows[c].found \/ \E w \in Workers : req[w].pc = "register" /\ req[w].c = c

LEMMA StepAccounted ==
    ASSUME IInv, RequestsOrderly, EventsTrue, Accounted, [Next]_vars,
           MaxRestarts = 0, ~RepliesMayBeLost
    PROVE  Accounted'
<1> SUFFICES ASSUME NEW c \in Containers, Exists(c)', ~rows'[c].found
             PROVE  \E w \in Workers : req'[w].pc = "register" /\ req'[w].c = c
  BY DEF Accounted
<1>0. req \in [Workers -> Requests] /\ rows \in [Containers -> Rows]
      /\ status \in [Containers -> Statuses]
  BY DEF IInv, TypeOK
<1>1. CASE ~Exists(c)
  <2>1. PICK w \in Workers : DaemonCreates(w)
    BY <1>1, StatusChange
  <2>2. PICK d \in Containers :
            /\ status' = [status EXCEPT ![d] = "stopped"]
            /\ req' = [req EXCEPT ![w].pc = "register", ![w].c = d, ![w].body = FALSE]
    BY <2>1 DEF DaemonCreates
  <2>3. c = d
    BY <1>0, <1>1, <2>2 DEF Exists
  <2>4. req'[w].pc = "register" /\ req'[w].c = c
    BY <1>0, <2>2, <2>3 DEF Requests
  <2> QED  BY <2>4
<1>2. CASE Exists(c)
  <2>1. status[c] # "gone"
    BY <1>2 DEF Exists
  <2>2. ~rows[c].found
    BY <2>1, RowChange
  <2>3. PICK w \in Workers : req[w].pc = "register" /\ req[w].c = c
    BY <1>2, <2>2 DEF Accounted
  <2>4. ~RegisterContainer(w)
    BY <1>0, <2>3 DEF RegisterContainer, SetContainerOwner
  <2>5. ~RecordPort(w)
    BY <2>3 DEF RecordPort
  <2>6. req'[w] = req[w]
    BY <2>3, <2>4, <2>5, RegisterNext
  <2> QED  BY <2>3, <2>6
<1> QED  BY <1>1, <1>2

-----------------------------------------------------------------------------
(* The number of containers. *)

Made == {c \in Containers : status[c] # "unused"}
Of(u) == {c \in Containers : Exists(c) /\ label[c].uid = u}

\* A create under way was checked, and nobody has created anything since.
QuotaInv ==
    /\ IsFiniteSet(Made)
    /\ MaxContainers > 0 =>
           /\ \A u \in Uids : Cardinality(Of(u)) <= MaxContainers
           /\ \A w \in Workers : Forwarded(w, "create") =>
                  Cardinality(Of(req[w].id.uid)) < MaxContainers

LEMMA OfIsFinite ==
    ASSUME IsFiniteSet(Made), NEW u
    PROVE  IsFiniteSet(Of(u)) /\ Cardinality(Of(u)) \in Nat
<1>1. Of(u) \subseteq Made
  BY DEF Of, Made, Exists
<1> QED  BY <1>1, FS_Subset, FS_CardinalityType

\* a create that is forwarded was forwarded before, or has just been checked
LEMMA ForwardedCreate ==
    ASSUME IInv, [Next]_vars, NEW w \in Workers, Forwarded(w, "create")',
           ~ \E v \in Workers : DaemonCreates(v)
    PROVE  \/ Forwarded(w, "create") /\ req'[w] = req[w]
           \/ \E id \in Callers, P \in SUBSET Ports :
                  checkCreateContainer(w, id, P) /\ req'[w].id = id /\ req'[w].ports = P
<1>0. req \in [Workers -> Requests] /\ req'[w].pc = "forward" /\ req'[w].op = "create"
  BY DEF IInv, TypeOK, Forwarded
<1>1. CASE req'[w] = req[w]
  BY <1>0, <1>1 DEF Forwarded
<1>2. CASE req'[w] # req[w]
  <2>1. CASE Arrive(w)
    <3>1. PICK id \in Callers :
            \/ \E P \in SUBSET Ports : checkCreateContainer(w, id, P)
            \/ \E op \in {"start", "rm"}, c \in Containers, byId \in BOOLEAN :
                  checkContainerOwnership(w, id, op, c, byId)
            \/ handleContainerPrune(w, id)
      BY <2>1 DEF Arrive
    <3>2. ASSUME NEW op \in {"start", "rm"}, NEW c \in Containers, NEW byId \in BOOLEAN,
                 checkContainerOwnership(w, id, op, c, byId)
          PROVE  FALSE
      BY <1>0, <3>2 DEF checkContainerOwnership, Begin, IdleRequest
    <3>3. ~handleContainerPrune(w, id)
      BY <1>0 DEF handleContainerPrune, Begin, IdleRequest
    <3>4. PICK P \in SUBSET Ports : checkCreateContainer(w, id, P)
      BY <3>1, <3>2, <3>3
    <3>5. req'[w].id = id /\ req'[w].ports = P
      BY <1>0, <3>4 DEF checkCreateContainer, Begin, IdleRequest
    <3> QED  BY <3>4, <3>5
  <2>2. ~Daemon(w)
    BY <1>0 DEF Daemon, DaemonStarts, DaemonRemoves, DaemonPrunes, DaemonFails, Finish, Goto,
       IdleRequest, Requests
  <2>3. ~Write(w)
    <3>1. ~(RegisterContainer(w) \/ PruneDone(w) \/ ForgetRow(w) \/ ForgetPorts(w))
      BY <1>0 DEF RegisterContainer, PruneDone, ForgetRow, ForgetPorts, Finish, Goto,
         IdleRequest, Requests
    <3>2. ~RecordPort(w)
      BY <1>0 DEF RecordPort, Finish, IdleRequest, Requests
    <3>3. ASSUME PruneNext(w) PROVE FALSE
      <4>1. PICK c \in req[w].todo :
        req' = [req EXCEPT ![w].todo = @ \ {c}, ![w].c = c,
                           ![w].pc = IF req[w].op = "sweep" THEN "delRow" ELSE "pruneDel"]
        BY <3>3 DEF PruneNext
      <4>2. req'[w].pc = IF req[w].op = "sweep" THEN "delRow" ELSE "pruneDel"
        BY <1>0, <4>1 DEF Requests
      <4> QED  BY <1>0, <4>2
    <3> QED  BY <3>1, <3>2, <3>3 DEF Write
  <2>4. ASSUME NEW v \in Workers, Arrive(v) \/ Daemon(v) \/ Write(v) PROVE v = w
    BY <1>0, <1>2, <2>4 DEF Arrive, checkCreateContainer, checkContainerOwnership,
       handleContainerPrune, Begin, Daemon, DaemonCreates, DaemonStarts, DaemonRemoves,
       DaemonPrunes, DaemonFails, Finish, Goto, Write, RegisterContainer, RecordPort, PruneNext,
       PruneDone, ForgetRow, ForgetPorts
  <2>5. ~(\/ \E c \in Containers : ContainerEnds(c)
          \/ Listener \/ StreamBreaks \/ StreamResumes \/ UNCHANGED vars)
    BY <1>2 DEF ContainerEnds, Listener, ReceiveDestroy, ListenerReleases, ListenerDeletes,
       StreamBreaks, StreamResumes, vars
  <2>6. ~Restart
    BY <1>0 DEF Restart, IdleRequest
  <2> QED  BY <2>1, <2>2, <2>3, <2>4, <2>5, <2>6 DEF Next
<1> QED  BY <1>1, <1>2

LEMMA StepQuota ==
    ASSUME OneAtATime, IInv, Accounted, QuotaInv, [Next]_vars, ~RepliesMayBeLost
    PROVE  QuotaInv'
<1>0. /\ req \in [Workers -> Requests] /\ status \in [Containers -> Statuses]
      /\ label \in [Containers -> Identities] /\ IsFiniteSet(Made) /\ MaxContainers \in Nat
  BY DEF IInv, TypeOK, QuotaInv
<1>1. \A u : IsFiniteSet(Of(u)) /\ Cardinality(Of(u)) \in Nat
  BY <1>0, OfIsFinite
<1>2. ASSUME NEW w \in Workers, DaemonCreates(w) PROVE QuotaInv'
  <2>1. PICK c \in Containers :
            /\ status[c] = "unused"
            /\ status' = [status EXCEPT ![c] = "stopped"]
            /\ label' = [label EXCEPT ![c] = req[w].id]
            /\ req' = [req EXCEPT ![w].pc = "register", ![w].c = c, ![w].body = FALSE]
    BY <1>2 DEF DaemonCreates
  <2>2. Made' = Made \cup {c}
    BY <1>0, <2>1 DEF Made
  <2>3. IsFiniteSet(Made')
    BY <1>0, <2>2, FS_AddElement
  <2>4. ASSUME NEW u \in Uids PROVE Of(u)' = IF u = req[w].id.uid THEN Of(u) \cup {c} ELSE Of(u)
    BY <1>0, <2>1 DEF Of, Exists
  <2>5. \A u : c \notin Of(u)
    BY <2>1 DEF Of, Exists
  <2>6. ASSUME MaxContainers > 0, NEW u \in Uids PROVE Cardinality(Of(u)') <= MaxContainers
    <3>1. CASE u = req[w].id.uid
      <4>1. Cardinality(Of(u)) < MaxContainers
        BY <1>2, <2>6, <3>1 DEF QuotaInv, DaemonCreates
      <4>2. Cardinality(Of(u) \cup {c}) = Cardinality(Of(u)) + 1
        BY <1>1, <2>5, FS_AddElement
      <4>3. Of(u)' = Of(u) \cup {c}
        BY <2>4, <3>1
      <4> QED  BY <1>0, <1>1, <4>1, <4>2, <4>3
    <3>2. CASE u # req[w].id.uid
      <4>1. Of(u)' = Of(u)
        BY <2>4, <3>2
      <4> QED  BY <2>6, <4>1 DEF QuotaInv
    <3> QED  BY <3>1, <3>2
  <2>7. ASSUME NEW v \in Workers PROVE ~Forwarded(v, "create")'
    <3>1. v = w /\ req'[w].pc = "register"
      BY <1>0, <2>1 DEF OneAtATime, Requests
    <3> QED  BY <3>1 DEF Forwarded
  <2> QED  BY <2>3, <2>6, <2>7 DEF QuotaInv
<1>3. CASE ~ \E w \in Workers : DaemonCreates(w)
  <2>1. /\ \A c \in Containers : Exists(c)' => Exists(c)
        /\ \A c \in Containers : status[c] = "unused" => status'[c] = "unused"
        /\ label' = label
    BY <1>3, StatusChange
  <2>2. Made' \subseteq Made
    BY <2>1 DEF Made
  <2>3. IsFiniteSet(Made')
    BY <1>0, <2>2, FS_Subset
  <2>4. ASSUME NEW u
        PROVE  Cardinality(Of(u)') \in Nat /\ Cardinality(Of(u)') <= Cardinality(Of(u))
    <3>1. Of(u)' \subseteq Of(u)
      BY <2>1 DEF Of
    <3> QED  BY <1>1, <3>1, FS_Subset, FS_CardinalityType
  <2>5. ASSUME MaxContainers > 0, NEW u \in Uids PROVE Cardinality(Of(u)') <= MaxContainers
    <3>1. Cardinality(Of(u)) <= MaxContainers
      BY <2>5 DEF QuotaInv
    <3> QED  BY <1>0, <1>1, <2>4, <3>1
  <2>6. ASSUME MaxContainers > 0, NEW w \in Workers, Forwarded(w, "create")'
        PROVE  Cardinality(Of(req[w].id.uid)') < MaxContainers
    <3>1. CASE Forwarded(w, "create") /\ req'[w] = req[w]
      <4>1. Cardinality(Of(req[w].id.uid)) < MaxContainers
        BY <2>6, <3>1 DEF QuotaInv
      <4>2. PICK u : u = req[w].id.uid /\ u = req'[w].id.uid
        BY <3>1
      <4>3. Cardinality(Of(u)') < MaxContainers
        BY <1>0, <1>1, <2>4, <4>1, <4>2
      <4> QED  BY <4>2, <4>3 DEF Of
    <3>2. ASSUME NEW id \in Callers, NEW P \in SUBSET Ports,
                 checkCreateContainer(w, id, P), req'[w].id = id
          PROVE  Cardinality(Of(req[w].id.uid)') < MaxContainers
      <4>1. WithinQuota(id.uid) /\ Idle(w)
        BY <3>2 DEF checkCreateContainer
      <4> DEFINE R == {c \in Containers : rows[c].found /\ rows[c].owner = id.uid}
      <4>2. Of(id.uid) \subseteq R
        <5>1. \A v \in Workers : req[v].pc # "register"
          BY <4>1 DEF OneAtATime, Idle
        <5>2. \A c \in Containers : Exists(c) => rows[c].found
          BY <5>1 DEF Accounted
        <5> QED  BY <5>2 DEF Of, IInv, RowsMatchLabels
      <4>3. R \subseteq Made
        BY DEF Made, IInv, RowsMatchLabels
      <4>4. IsFiniteSet(R) /\ Cardinality(R) \in Nat
        BY <1>0, <4>3, FS_Subset, FS_CardinalityType
      <4>5. Cardinality(Of(id.uid)) <= Cardinality(R)
        BY <4>2, <4>4, FS_Subset
      <4>6. Cardinality(R) < MaxContainers
        BY <2>6, <4>1 DEF WithinQuota, CountContainersByOwner
      <4>7. PICK u : u = id.uid /\ u = req'[w].id.uid
        BY <3>2
      <4> HIDE DEF R
      <4>8. Cardinality(Of(u)') < MaxContainers
        BY <1>0, <1>1, <2>4, <4>4, <4>5, <4>6, <4>7
      <4> QED  BY <4>7, <4>8 DEF Of
    <3> QED  BY <1>3, <2>6, <3>1, <3>2, ForwardedCreate
  <2> QED  BY <2>3, <2>5, <2>6 DEF QuotaInv
<1> QED  BY <1>2, <1>3


-----------------------------------------------------------------------------
(* The host ports. *)

Claiming(r) == r.pc \in {"register", "ports"}

\* A container's ports are recorded for it, or its create is about to do so,
\* and nothing is recorded for the ports of a create under way.
PortsKept ==
    /\ \A c \in Containers, p \in Ports :
           Exists(c) /\ ~IsPrivileged(label[c]) /\ p \in bindings[c] =>
               \/ portOf[p] = c
               \/ \E w \in Workers : Claiming(req[w]) /\ req[w].c = c /\ p \in req[w].ports
    /\ \A w \in Workers :
           ~IsPrivileged(req[w].id) /\ (Forwarded(w, "create") \/ Claiming(req[w])) =>
               PortsFree(req[w].ports)

\* The listener knows of every container that is gone and not yet forgotten.
Heard ==
    /\ connected
    /\ \A c \in Containers : status[c] = "gone" =>
           /\ rows[c].found => c \in stream \/ (listener.pc # "idle" /\ listener.c = c)
           /\ \A p \in Ports :
                  portOf[p] = c => c \in stream \/ (listener.pc = "release" /\ listener.c = c)


\* A claim comes from an earlier claim, or from a create that was answered.
LEMMA ClaimOrigin ==
    ASSUME IInv, [Next]_vars, NEW w \in Workers, Claiming(req'[w])
    PROVE  req'[w] = req[w] \/ DaemonCreates(w) \/ RegisterContainer(w) \/ RecordPort(w)
<1>0. req \in [Workers -> Requests] /\ req'[w].pc \in {"register", "ports"}
  BY DEF IInv, TypeOK, Claiming
<1>1. ASSUME NEW v \in Workers, Arrive(v) \/ Daemon(v) \/ Write(v), v # w PROVE req'[w] = req[w]
  BY <1>0, <1>1 DEF Arrive, checkCreateContainer, checkContainerOwnership,
     handleContainerPrune, Begin, Daemon, DaemonCreates, DaemonStarts, DaemonRemoves,
     DaemonPrunes, DaemonFails, Finish, Goto, Write, RegisterContainer, RecordPort, PruneNext,
     PruneDone, ForgetRow, ForgetPorts
<1>2. ~Arrive(w)
  <2>1. ASSUME NEW id \in Callers, NEW P \in SUBSET Ports, checkCreateContainer(w, id, P)
        PROVE  FALSE
    BY <1>0, <2>1 DEF checkCreateContainer, Begin, IdleRequest
  <2>2. ASSUME NEW id \in Callers, NEW op \in {"start", "rm"}, NEW c \in Containers,
               NEW byId \in BOOLEAN, checkContainerOwnership(w, id, op, c, byId)
        PROVE  FALSE
    BY <1>0, <2>2 DEF checkContainerOwnership, Begin, IdleRequest
  <2>3. ASSUME NEW id \in Callers, handleContainerPrune(w, id)
        PROVE  FALSE
    BY <1>0, <2>3 DEF handleContainerPrune, Begin, IdleRequest
  <2> QED  BY <2>1, <2>2, <2>3 DEF Arrive
<1>3. ~(DaemonStarts(w) \/ DaemonRemoves(w) \/ DaemonPrunes(w) \/ DaemonFails(w))
  BY <1>0 DEF DaemonStarts, DaemonRemoves, DaemonPrunes, DaemonFails, Finish, Goto, IdleRequest,
     Requests
<1>4. ~(PruneDone(w) \/ ForgetRow(w) \/ ForgetPorts(w))
  BY <1>0 DEF PruneDone, ForgetRow, ForgetPorts, Finish, Goto, IdleRequest, Requests
<1>5. ASSUME PruneNext(w) PROVE FALSE
  <2>1. PICK c \in req[w].todo :
        req' = [req EXCEPT ![w].todo = @ \ {c}, ![w].c = c,
                           ![w].pc = IF req[w].op = "sweep" THEN "delRow" ELSE "pruneDel"]
    BY <1>5 DEF PruneNext
  <2>2. req'[w].pc = IF req[w].op = "sweep" THEN "delRow" ELSE "pruneDel"
    BY <1>0, <2>1 DEF Requests
  <2> QED  BY <1>0, <2>2
<1>6. CASE \/ \E c \in Containers : ContainerEnds(c)
           \/ Listener \/ StreamBreaks \/ StreamResumes \/ UNCHANGED vars
  BY <1>6 DEF ContainerEnds, Listener, ReceiveDestroy, ListenerReleases, ListenerDeletes,
     StreamBreaks, StreamResumes, vars
<1>7. ~Restart
  BY <1>0 DEF Restart, IdleRequest
<1> QED  BY <1>1, <1>2, <1>3, <1>4, <1>5, <1>6, <1>7 DEF Next, Daemon, Write

\* nothing is recorded for a port of the only request, except by itself
LEMMA StaysFree ==
    ASSUME OneAtATime, IInv, RequestsOrderly, EventsTrue, [Next]_vars, NEW w \in Workers,
           NEW p \in Ports, portOf[p] = NoContainer, ~RecordPort(w)
    PROVE  portOf'[p] = NoContainer
  BY PortChange, ContainerAssumption DEF OneAtATime

\* recording a port leaves the ports that are still to be recorded free
LEMMA RecordsOne ==
    ASSUME IInv, NEW w \in Workers, RecordPort(w), PortsFree(req[w].ports)
    PROVE  \E q \in req[w].ports :
              /\ portOf' = [portOf EXCEPT ![q] = req[w].c]
              /\ req[w].ports # {q} => /\ req'[w].pc = "ports" /\ req'[w].c = req[w].c
                                       /\ req'[w].id = req[w].id
                                       /\ req'[w].ports = req[w].ports \ {q}
              /\ req[w].ports = {q} => req'[w].pc = "idle"
<1>0. req \in [Workers -> Requests] /\ req[w].pc = "ports"
  BY DEF IInv, TypeOK, RecordPort
<1>1. PICK q \in req[w].ports :
        /\ portOf' = [portOf EXCEPT ![q] = req[w].c]
        /\ IF req[w].ports = {q} THEN Finish(w)
           ELSE req' = [req EXCEPT ![w].ports = @ \ {q}]
  BY DEF RecordPort, PortsFree
<1>2. CASE req[w].ports = {q}
  BY <1>0, <1>1, <1>2 DEF Finish, IdleRequest
<1>3. CASE req[w].ports # {q}
  <2>1. /\ req'[w].pc = "ports" /\ req'[w].c = req[w].c /\ req'[w].id = req[w].id
        /\ req'[w].ports = req[w].ports \ {q}
    BY <1>0, <1>1, <1>3 DEF Requests
  <2> QED  BY <1>1, <1>3, <2>1
<1> QED  BY <1>2, <1>3

\* registering hands the ports on
LEMMA RegistersPorts ==
    ASSUME IInv, NEW w \in Workers, RegisterContainer(w), ~IsPrivileged(req[w].id),
           req[w].ports # {}
    PROVE  /\ req'[w].pc = "ports" /\ req'[w].c = req[w].c /\ req'[w].id = req[w].id
           /\ req'[w].ports = req[w].ports
<1>0. req \in [Workers -> Requests] /\ Goto(w, "ports")
  BY DEF IInv, TypeOK, RegisterContainer
<1> QED  BY <1>0 DEF Goto, Requests


LEMMA StepPorts ==
    ASSUME OneAtATime, IInv, RequestsOrderly, EventsTrue, PortsKept, [Next]_vars,
           MaxRestarts = 0, ~RepliesMayBeLost
    PROVE  PortsKept'
<1>0. /\ req \in [Workers -> Requests] /\ status \in [Containers -> Statuses]
      /\ label \in [Containers -> Identities] /\ bindings \in [Containers -> SUBSET Ports]
      /\ portOf \in [Ports -> Containers \cup {NoContainer}]
  BY DEF IInv, TypeOK
<1>1. ASSUME NEW c \in Containers, NEW p \in Ports,
             Exists(c)', ~IsPrivileged(label'[c]), p \in bindings'[c], portOf'[p] # c
      PROVE  \E w \in Workers : Claiming(req'[w]) /\ req'[w].c = c /\ p \in req'[w].ports
  <2>1. CASE ~Exists(c)
    <3>1. PICK w \in Workers : DaemonCreates(w)
      BY <1>1, <2>1, StatusChange
    <3>2. PICK d \in Containers :
              /\ status' = [status EXCEPT ![d] = "stopped"]
              /\ bindings' = [bindings EXCEPT ![d] = req[w].ports]
              /\ req' = [req EXCEPT ![w].pc = "register", ![w].c = d, ![w].body = FALSE]
      BY <3>1 DEF DaemonCreates
    <3>3. c = d
      BY <1>0, <1>1, <2>1, <3>2 DEF Exists
    <3>4. req'[w].pc = "register" /\ req'[w].c = c /\ req'[w].ports = req[w].ports
      BY <1>0, <3>2, <3>3 DEF Requests
    <3>5. bindings'[c] = req[w].ports
      BY <1>0, <3>2, <3>3
    <3> QED  BY <1>1, <3>4, <3>5 DEF Claiming
  <2>2. CASE Exists(c)
    <3>1. label'[c] = label[c] /\ bindings'[c] = bindings[c]
      <4>1. ASSUME NEW w \in Workers, DaemonCreates(w)
            PROVE  label'[c] = label[c] /\ bindings'[c] = bindings[c]
        <5>1. PICK d \in Containers : /\ status[d] = "unused"
                                      /\ label' = [label EXCEPT ![d] = req[w].id]
                                      /\ bindings' = [bindings EXCEPT ![d] = req[w].ports]
          BY <4>1 DEF DaemonCreates
        <5> QED  BY <1>0, <2>2, <5>1 DEF Exists
      <4> QED  BY <4>1, StatusChange
    <3>2. status[c] # "gone" /\ c # NoContainer
      BY <2>2, ContainerAssumption DEF Exists
    <3>3. portOf[p] # c
      BY <1>1, <3>2, PortChange
    <3>4. PICK w \in Workers : Claiming(req[w]) /\ req[w].c = c /\ p \in req[w].ports
      BY <1>1, <2>2, <3>1, <3>3 DEF PortsKept
    <3>5. label[c] = req[w].id
      BY <3>4 DEF RequestsOrderly, Orderly, Claiming
    <3>6. ~IsPrivileged(req[w].id)
      BY <1>1, <3>1, <3>5
    <3>7. PortsFree(req[w].ports)
      BY <3>4, <3>6 DEF PortsKept
    <3>8. CASE req'[w] = req[w]
      BY <3>4, <3>8
    <3>9. CASE RegisterContainer(w)
      BY <3>4, <3>6, <3>9, RegistersPorts DEF Claiming
    <3>10. CASE RecordPort(w)
      <4>1. PICK q \in req[w].ports :
              /\ portOf' = [portOf EXCEPT ![q] = req[w].c]
              /\ req[w].ports # {q} => /\ req'[w].pc = "ports" /\ req'[w].c = req[w].c
                                       /\ req'[w].id = req[w].id
                                       /\ req'[w].ports = req[w].ports \ {q}
        BY <3>7, <3>10, RecordsOne
      <4>2. p # q
        BY <1>0, <1>1, <3>4, <4>1
      <4> QED  BY <3>4, <4>1, <4>2 DEF Claiming
    <3> QED  BY <3>4, <3>8, <3>9, <3>10, RegisterNext DEF Claiming
  <2> QED  BY <2>1, <2>2
<1>2. ASSUME NEW w \in Workers, ~IsPrivileged(req'[w].id), NEW p \in req'[w].ports,
             Forwarded(w, "create")' \/ Claiming(req'[w])
      PROVE  portOf'[p] = NoContainer
  <2>1. CASE req'[w] = req[w] /\ (Forwarded(w, "create") \/ Claiming(req[w]))
    <3>1. portOf[p] = NoContainer /\ p \in req[w].ports /\ PortsFree(req[w].ports) /\ p \in Ports
      BY <1>0, <1>2, <2>1 DEF PortsKept, PortsFree, Requests
    <3>2. CASE ~RecordPort(w)
      BY <3>1, <3>2, StaysFree
    <3>3. CASE RecordPort(w)
      <4>1. PICK q \in req[w].ports :
              /\ req[w].ports # {q} => req'[w].ports = req[w].ports \ {q}
              /\ req[w].ports = {q} => req'[w].pc = "idle"
        BY <3>1, <3>3, RecordsOne
      <4> QED  BY <2>1, <3>3, <4>1 DEF RecordPort
    <3> QED  BY <3>2, <3>3
  <2>2. ASSUME NEW id \in Callers, NEW P \in SUBSET Ports, checkCreateContainer(w, id, P),
               req'[w].id = id, req'[w].ports = P
        PROVE  portOf'[p] = NoContainer
    BY <1>2, <2>2 DEF checkCreateContainer, tableVars, PortsFree
  <2>3. CASE DaemonCreates(w)
    <3>1. PICK d \in Containers :
              req' = [req EXCEPT ![w].pc = "register", ![w].c = d, ![w].body = FALSE]
      BY <2>3 DEF DaemonCreates
    <3>2. req'[w].ports = req[w].ports /\ req'[w].id = req[w].id
      BY <1>0, <3>1 DEF Requests
    <3>3. portOf' = portOf /\ Forwarded(w, "create")
      BY <2>3 DEF DaemonCreates, tableVars
    <3> QED  BY <1>2, <3>2, <3>3 DEF PortsKept, PortsFree
  <2>4. CASE RegisterContainer(w)
    <3>1. req'[w].pc # "idle"
      BY <1>2 DEF Forwarded, Claiming
    <3>2. Goto(w, "ports")
      BY <1>0, <2>4, <3>1 DEF RegisterContainer, Finish, IdleRequest
    <3>3. req'[w].ports = req[w].ports /\ req'[w].id = req[w].id
      BY <1>0, <3>2 DEF Goto, Requests
    <3>4. portOf' = portOf /\ Claiming(req[w])
      BY <2>4 DEF RegisterContainer, Claiming
    <3> QED  BY <1>2, <3>3, <3>4 DEF PortsKept, PortsFree
  <2>5. CASE RecordPort(w)
    <3>0. Claiming(req[w]) /\ req[w].ports \subseteq Ports
      BY <1>0, <2>5 DEF RecordPort, Claiming, Requests
    <3>1. ~IsPrivileged(req[w].id)
      BY <2>5 DEF RequestsOrderly, Orderly, RecordPort
    <3>2. PortsFree(req[w].ports)
      BY <3>0, <3>1 DEF PortsKept
    <3>3. PICK q \in req[w].ports :
              /\ portOf' = [portOf EXCEPT ![q] = req[w].c]
              /\ req[w].ports # {q} => req'[w].ports = req[w].ports \ {q}
              /\ req[w].ports = {q} => req'[w].pc = "idle"
      BY <2>5, <3>2, RecordsOne
    <3>4. p \in req[w].ports \ {q}
      BY <1>2, <3>3 DEF Forwarded, Claiming
    <3> QED  BY <1>0, <3>0, <3>2, <3>3, <3>4 DEF PortsFree
  <2>6. ASSUME NEW v \in Workers, DaemonCreates(v) PROVE v = w
    BY DEF OneAtATime
  <2> QED  BY <1>2, <2>1, <2>2, <2>3, <2>4, <2>5, <2>6, ForwardedCreate, ClaimOrigin
<1>3. ASSUME NEW w \in Workers, ~IsPrivileged(req'[w].id),
             Forwarded(w, "create")' \/ Claiming(req'[w])
      PROVE  PortsFree(req[w].ports)'
  BY <1>2, <1>3 DEF PortsFree
<1> QED  BY <1>1, <1>3 DEF PortsKept


-----------------------------------------------------------------------------
(* What is left of a container that is gone. *)

\* A container that goes away is announced to an open stream.
LEMMA GoingIsAnnounced ==
    ASSUME IInv, connected, [Next]_vars, NEW c \in Containers,
           status[c] # "gone", status'[c] = "gone"
    PROVE  c \in stream'
<1>0. status \in [Containers -> Statuses]
  BY DEF IInv, TypeOK
<1>1. ASSUME NEW S, Remove(S) PROVE c \in stream'
  BY <1>0, <1>1 DEF Remove, Emit
<1>2. ASSUME NEW w \in Workers, Daemon(w) PROVE c \in stream'
  BY <1>0, <1>1, <1>2 DEF Daemon, DaemonCreates, DaemonStarts, DaemonRemoves, DaemonPrunes,
     DaemonFails, daemonVars
<1>3. ASSUME NEW w \in Workers, Arrive(w) PROVE c \in stream'
  BY <1>1, <1>3 DEF Arrive, checkCreateContainer, checkContainerOwnership, handleContainerPrune,
     daemonVars
<1>4. ASSUME NEW d \in Containers, ContainerEnds(d) PROVE c \in stream'
  BY <1>0, <1>1, <1>4 DEF ContainerEnds
<1> QED  BY <1>2, <1>3, <1>4 DEF Next, Write, RegisterContainer, RecordPort, PruneNext, PruneDone,
            ForgetRow, ForgetPorts, Listener, ReceiveDestroy, ListenerReleases, ListenerDeletes,
            StreamBreaks, StreamResumes, Restart, vars, daemonVars

\* Without a restart an event is kept until the listener takes it up, and the
\* listener drops one only when it has deleted the row.
LEMMA EventsHandled ==
    ASSUME IInv, MaxRestarts = 0, [Next]_vars
    PROVE  \/ stream \subseteq stream' /\ listener' = listener
           \/ /\ listener.pc = "idle" /\ listener'.pc = "release"
              /\ stream \subseteq stream' \cup {listener'.c}
           \/ stream' = stream /\ (ListenerReleases \/ ListenerDeletes)
<1>0. ~Restart
  BY DEF IInv, TypeOK, Restart
<1>1. ASSUME NEW S, Remove(S) PROVE stream \subseteq stream' /\ listener' = listener
  BY <1>1 DEF Remove, Emit
<1>2. ASSUME NEW w \in Workers, Arrive(w) PROVE stream \subseteq stream' /\ listener' = listener
  BY <1>1, <1>2 DEF Arrive, checkCreateContainer, checkContainerOwnership, handleContainerPrune,
     eventVars
<1>3. ASSUME NEW w \in Workers, Daemon(w) PROVE stream \subseteq stream' /\ listener' = listener
  BY <1>1, <1>3 DEF Daemon, DaemonCreates, DaemonStarts, DaemonRemoves, DaemonPrunes,
     DaemonFails, eventVars
<1>4. ASSUME NEW c \in Containers, ContainerEnds(c)
      PROVE  stream \subseteq stream' /\ listener' = listener
  BY <1>1, <1>4 DEF ContainerEnds, eventVars
<1>5. CASE ReceiveDestroy
  <2>1. PICK c \in stream : /\ listener.pc = "idle" /\ stream' = stream \ {c}
                            /\ listener' = [pc |-> "release", c |-> c]
    BY <1>5 DEF ReceiveDestroy
  <2> QED  BY <2>1
<1>6. CASE ListenerReleases \/ ListenerDeletes
  BY <1>6 DEF ListenerReleases, ListenerDeletes
<1>7. CASE (\E w \in Workers : Write(w)) \/ StreamBreaks \/ StreamResumes \/ UNCHANGED vars
  BY <1>7 DEF Write, RegisterContainer, RecordPort, PruneNext, PruneDone, ForgetRow, ForgetPorts,
     StreamBreaks, StreamResumes, vars, eventVars
<1> QED  BY <1>0, <1>2, <1>3, <1>4, <1>5, <1>6, <1>7 DEF Next, Listener

LEMMA StepHeard ==
    ASSUME IInv, RequestsOrderly, EventsTrue, Heard, [Next]_vars, MaxRestarts = 0, MaxCuts = 0
    PROVE  Heard'
<1>0. /\ rows \in [Containers -> Rows] /\ portOf \in [Ports -> Containers \cup {NoContainer}]
      /\ listener \in [pc : {"idle", "release", "delete"}, c : Containers \cup {NoContainer}]
      /\ connected
  BY DEF IInv, TypeOK, Heard
<1>1. connected'
  <2>1. ~StreamBreaks /\ ~Restart
    BY DEF IInv, TypeOK, StreamBreaks, Restart
  <2>2. ASSUME NEW w \in Workers, Arrive(w) \/ Daemon(w) PROVE connected' = connected
    BY <2>2 DEF Arrive, checkCreateContainer, checkContainerOwnership, handleContainerPrune,
       Daemon, DaemonCreates, DaemonStarts, DaemonRemoves, DaemonPrunes, DaemonFails, Remove,
       Emit, eventVars
  <2>3. ASSUME NEW w \in Workers, Write(w) PROVE connected' = connected
    BY <2>3 DEF Write, RegisterContainer, RecordPort, PruneNext, PruneDone, ForgetRow,
       ForgetPorts, eventVars
  <2>4. ASSUME NEW c \in Containers, ContainerEnds(c) PROVE connected' = connected
    BY <2>4 DEF ContainerEnds, Remove, Emit, eventVars
  <2>5. CASE Listener \/ UNCHANGED vars
    BY <1>0, <2>5 DEF Listener, ReceiveDestroy, ListenerReleases, ListenerDeletes, vars, eventVars
  <2>6. ~StreamResumes
    BY <1>0 DEF StreamResumes
  <2> QED  BY <1>0, <2>1, <2>2, <2>3, <2>4, <2>5, <2>6 DEF Next
<1>2. ASSUME NEW c \in Containers, status'[c] = "gone"
      PROVE  /\ rows'[c].found => c \in stream' \/ (listener'.pc # "idle" /\ listener'.c = c)
             /\ \A p \in Ports : portOf'[p] = c =>
                    c \in stream' \/ (listener'.pc = "release" /\ listener'.c = c)
  <2>1. CASE status[c] # "gone"
    BY <1>0, <1>2, <2>1, GoingIsAnnounced
  <2>2. CASE status[c] = "gone"
    <3>1. c \in stream => c \in stream' \/ (listener'.pc = "release" /\ listener'.c = c)
      BY EventsHandled DEF ListenerReleases, ListenerDeletes
    <3>2. ASSUME listener.pc # "idle", listener.c = c
          PROVE  \/ listener'.pc = listener.pc /\ listener'.c = c
                 \/ /\ ListenerReleases /\ listener'.pc = "delete" /\ listener'.c = c
                    /\ \A p \in Ports : portOf'[p] # c
                 \/ ListenerDeletes /\ listener.pc = "delete" /\ ~rows'[c].found
      <4>1. CASE ListenerReleases
        BY <1>0, <3>2, <4>1, ContainerAssumption DEF ListenerReleases, ReleasePortMappings
      <4>2. CASE ListenerDeletes
        BY <1>0, <3>2, <4>2 DEF ListenerDeletes, DeleteContainer, NoRow
      <4> QED  BY <3>2, <4>1, <4>2, EventsHandled
    <3>3. ASSUME rows'[c].found
          PROVE  c \in stream' \/ (listener'.pc # "idle" /\ listener'.c = c)
      <4>1. rows[c].found
        BY <2>2, <3>3, RowChange DEF RegisterContainer, RequestsOrderly, Orderly
      <4>2. c \in stream \/ (listener.pc # "idle" /\ listener.c = c)
        BY <2>2, <4>1 DEF Heard
      <4> QED  BY <3>1, <3>2, <3>3, <4>2
    <3>4. ASSUME NEW p \in Ports, portOf'[p] = c
          PROVE  c \in stream' \/ (listener'.pc = "release" /\ listener'.c = c)
      <4>1. portOf[p] = c
        BY <2>2, <3>4, PortChange, ContainerAssumption DEF RecordPort, RequestsOrderly, Orderly
      <4>2. c \in stream \/ (listener.pc = "release" /\ listener.c = c)
        BY <2>2, <4>1 DEF Heard
      <4> QED  BY <3>1, <3>2, <3>4, <4>2
    <3> QED  BY <3>3, <3>4
  <2> QED  BY <2>1, <2>2
<1> QED  BY <1>1, <1>2 DEF Heard


-----------------------------------------------------------------------------
(* Theorems about one request at a time. *)

LEMMA InitOrderly == Init => RequestsOrderly /\ EventsTrue /\ Accounted /\ PortsKept /\ Heard
<1> SUFFICES ASSUME Init PROVE RequestsOrderly /\ EventsTrue /\ Accounted /\ PortsKept /\ Heard
  OBVIOUS
<1>1. /\ \A w \in Workers : req[w].pc = "idle"
      /\ \A c \in Containers : status[c] = "unused"
      /\ stream = {} /\ listener.pc = "idle" /\ connected
  BY DEF Init, IdleRequest, IdleListener
<1> QED  BY <1>1 DEF RequestsOrderly, Orderly, EventsTrue, Accounted, Exists, PortsKept, Claiming,
            Forwarded, Heard

LEMMA InitQuota == Init => QuotaInv
<1> SUFFICES ASSUME Init PROVE QuotaInv
  OBVIOUS
<1>1. Made = {} /\ \A u : Of(u) = {}
  BY DEF Init, Made, Of, Exists
<1>2. IsFiniteSet({}) /\ Cardinality({}) = 0
  BY FS_EmptySet
<1>3. MaxContainers \in Nat
  BY ContainerAssumption
<1> HIDE DEF Init
<1> QED  BY <1>1, <1>2, <1>3 DEF QuotaInv

\* With one request at a time, no restart and no answer lost, no user ever has
\* more containers than max_containers.
THEOREM QuotasHold ==
    ASSUME OneAtATime, MaxRestarts = 0, ~RepliesMayBeLost
    PROVE  Spec => []QuotaHolds
<1> DEFINE J == IInv /\ RequestsOrderly /\ EventsTrue /\ Accounted /\ QuotaInv
<1>1. Init => J
  BY InitIInv, InitOrderly, InitQuota
<1>2. J /\ [Next]_vars => J'
  BY StepIInv, StepOrderly, StepEventsTrue, StepAccounted, StepQuota
<1>3. J => QuotaHolds
  BY DEF QuotaInv, QuotaHolds, Of
<1> HIDE DEF J
<1> QED  BY <1>1, <1>2, <1>3, PTL DEF Spec

\* Under the same conditions no two containers of regular users ever ask for
\* the same host port: what checkPortConflict found free is still free when the
\* create records it, and a port is released only for a container that is gone.
THEOREM PortsNeverShared ==
    ASSUME OneAtATime, MaxRestarts = 0, ~RepliesMayBeLost
    PROVE  Spec => []PortsExclusive
<1> DEFINE J == IInv /\ RequestsOrderly /\ EventsTrue /\ PortsKept
<1>1. Init => J
  BY InitIInv, InitOrderly
<1>2. J /\ [Next]_vars => J'
  BY StepIInv, StepOrderly, StepEventsTrue, StepPorts
<1>3. J => PortsExclusive
  <2> SUFFICES ASSUME IInv, RequestsOrderly, PortsKept, NEW c \in Containers, NEW d \in Containers,
                      c # d, Exists(c), Exists(d), ~IsPrivileged(label[c]),
                      ~IsPrivileged(label[d]), NEW p \in bindings[c], p \in bindings[d]
               PROVE  FALSE
    BY DEF PortsExclusive
  <2>0. p \in Ports /\ c # NoContainer /\ d # NoContainer
    BY ContainerAssumption DEF IInv, TypeOK
  <2>1. ASSUME NEW e \in {c, d}, NEW w \in Workers,
               Claiming(req[w]), req[w].c = e, p \in req[w].ports
        PROVE  portOf[p] = NoContainer
    <3>1. label[e] = req[w].id
      BY <2>1 DEF RequestsOrderly, Orderly, Claiming
    <3> QED  BY <2>1, <3>1 DEF PortsKept, PortsFree
  <2>2. \A v, w \in Workers : req[v].c = c => req[w].c # d
    BY DEF OneAtATime
  <2> QED  BY <2>0, <2>1, <2>2 DEF PortsKept
<1> HIDE DEF J
<1> QED  BY <1>1, <1>2, <1>3, PTL DEF Spec

\* With one request at a time, no restart and an event stream that does not
\* break, answers lost or not: once nothing is in flight, a container that is
\* gone has left neither a row nor a port, however it went.
THEOREM GoneIsForgotten ==
    ASSUME OneAtATime, MaxRestarts = 0, MaxCuts = 0
    PROVE  Spec => []NoRowsOfGone
<1> DEFINE J == IInv /\ RequestsOrderly /\ EventsTrue /\ Heard
<1>1. Init => J
  BY InitIInv, InitOrderly
<1>2. J /\ [Next]_vars => J'
  BY StepIInv, StepOrderly, StepEventsTrue, StepHeard
<1>3. J => NoRowsOfGone
  BY DEF Heard, NoRowsOfGone, Quiet, Forgotten
<1> HIDE DEF J
<1> QED  BY <1>1, <1>2, <1>3, PTL DEF Spec
=============================================================================
