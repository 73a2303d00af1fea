-------------------------- MODULE PeerNetworksProofs --------------------------
(***************************************************************************)
(* Who is attached to which peer network, for every set of users,          *)
(* containers, networks and workers and every interleaving of their steps. *)
(***************************************************************************)
EXTENDS PeerNetworks, TLAPS

\* The network of a row bears the name of the row's peering.
RowsNamed == \A p \in Peerings : rows[p] # NoNet => rows[p] \in Nets /\ name[rows[p]] = p

\* What a worker with record r knows when the network ids are named by nm: a
\* create holds networks its container belongs to, an allow holds the network
\* of its peering and containers that belong to it.
Sound(r, nm) ==
    /\ r.pc \in {"create", "readPeers", "connect"} => r.c \in Containers
    /\ r.pc \in {"create", "connect"} =>
        \A n \in r.nets : nm[n] \in Peerings /\ Belongs(r.c, nm[n])
    /\ r.pc \in {"find", "createNetwork", "attach", "deleteRows"} => r.p \in Peerings
    /\ r.pc \in {"find", "createNetwork"} => \A c \in r.p.conts : Belongs(c, r.p)
    /\ r.pc = "attach" =>
        /\ r.n \in Nets /\ nm[r.n] = r.p
        /\ \A c \in r.conts : Belongs(c, r.p)
        /\ \A u \in r.users : u \in r.p.users /\ r.p.conts = {}

WorkersSound == \A w \in Workers : Sound(proc[w], name)

IInv == TypeOK /\ RowsNamed /\ PeersOnly /\ WorkersSound

LEMMA IdleSound == IdleProc \in Procs /\ \A nm : Sound(IdleProc, nm)
BY DEF IdleProc, Procs, Sound

LEMMA StepBoolean ==
    ASSUME NEW w, NEW ok, Step(w, ok)
    PROVE  calm' \in BOOLEAN
BY DEF Step

LEMMA InitIInv == Init => IInv
<1> SUFFICES ASSUME Init PROVE IInv
  OBVIOUS
<1>1. TypeOK
  BY IdleSound DEF Init, TypeOK
<1>2. RowsNamed /\ PeersOnly
  BY DEF Init, RowsNamed, PeersOnly
<1>3. WorkersSound
  BY IdleSound DEF Init, WorkersSound
<1> QED  BY <1>1, <1>2, <1>3 DEF IInv

\* Worker w goes on with the record r, and no network changes its name.
LEMMA WorkerStep ==
    ASSUME IInv, NEW w \in Workers, NEW r \in Procs, Sound(r, name'),
           proc' = [proc EXCEPT ![w] = r],
           \A n \in Nets : name[n] \in Peerings => name'[n] = name[n]
    PROVE  proc' \in [Workers -> Procs] /\ WorkersSound'
<1>1. proc' \in [Workers -> Procs]
  BY DEF IInv, TypeOK
<1>2. ASSUME NEW v \in Workers PROVE Sound(proc'[v], name')
  <2>1. CASE v = w
    BY <2>1 DEF IInv, TypeOK
  <2>2. CASE v # w
    <3>1. proc'[v] = proc[v] /\ proc[v] \in Procs /\ Sound(proc[v], name)
      BY <2>2 DEF IInv, TypeOK, WorkersSound
    <3> QED  BY <3>1 DEF Sound, Procs
  <2> QED  BY <2>1, <2>2
<1> QED  BY <1>1, <1>2 DEF WorkersSound

LEMMA FinishStep ==
    ASSUME IInv, NEW w \in Workers, Finish(w), UNCHANGED name
    PROVE  proc' \in [Workers -> Procs] /\ WorkersSound'
BY IdleSound, WorkerStep DEF Finish

\* The networks of a user's peerings are ones his containers belong to.
LEMMA PeerNetworksOfUser ==
    ASSUME IInv, NEW c \in Containers
    PROVE  /\ UserLevelNetworks(Owner[c]) \subseteq Nets
           /\ \A n \in UserLevelNetworks(Owner[c]) : name[n] \in Peerings /\ Belongs(c, name[n])
BY DEF IInv, TypeOK, RowsNamed, UserLevelNetworks, IsUserLevel, Belongs

\* Attaching a container to a network it belongs to.
LEMMA ConnectedSound ==
    ASSUME IInv, NEW c \in Containers, NEW n \in Nets,
           name[n] \in Peerings, Belongs(c, name[n]), joined' = Connected(c, n), UNCHANGED name
    PROVE  joined' \in [Containers -> SUBSET Nets] /\ PeersOnly'
BY DEF IInv, TypeOK, PeersOnly, Connected, Belongs

LEMMA CreateIInv ==
    ASSUME IInv, NEW w \in Workers, Create(w)
    PROVE  IInv'
<1> USE DEF IInv
<1>0. proc[w] \in Procs /\ Sound(proc[w], name)
  BY DEF TypeOK, WorkersSound
<1>1. ASSUME NEW c \in Containers, CreateContainer(w, c) PROVE IInv'
  <2> DEFINE r == [IdleProc EXCEPT !.pc = "create", !.c = c, !.nets = UserLevelNetworks(Owner[c])]
  <2>1. r \in Procs /\ Sound(r, name)
    BY PeerNetworksOfUser, IdleSound DEF Procs, Sound, IdleProc
  <2>2. proc' = [proc EXCEPT ![w] = r]
        /\ UNCHANGED <<made, live, running, joined, name, up, rows>> /\ calm' \in BOOLEAN
    BY <1>1, StepBoolean DEF CreateContainer, Begin
  <2>3. proc' \in [Workers -> Procs] /\ WorkersSound'
    BY <2>1, <2>2, WorkerStep
  <2> QED  BY <2>2, <2>3 DEF TypeOK, RowsNamed, PeersOnly
<1>2. ASSUME NEW c \in Containers, StartContainer(w, c) PROVE IInv'
  <2>1. calm' \in BOOLEAN
    BY <1>2, StepBoolean DEF StartContainer
  <2> QED  BY <1>2, <2>1 DEF StartContainer, TypeOK, RowsNamed, PeersOnly, WorkersSound
<1>3. ASSUME NEW c \in Containers, RemoveContainer(w, c) PROVE IInv'
  <2>1. calm' \in BOOLEAN
    BY <1>3, StepBoolean DEF RemoveContainer
  <2> QED  BY <1>3, <2>1 DEF RemoveContainer, TypeOK, RowsNamed, PeersOnly, WorkersSound
<1>4. CASE InjectUserNetwork(w)
  <2> DEFINE r == [proc[w] EXCEPT !.pc = "readPeers"]
  <2>1. r \in Procs /\ Sound(r, name) /\ proc[w].c \in Containers /\ proc[w].nets \subseteq Nets
    BY <1>0, <1>4 DEF InjectUserNetwork, At, Procs, Sound
  <2>2. proc' = [proc EXCEPT ![w] = r] /\ UNCHANGED <<running, name, up, rows>> /\ calm' \in BOOLEAN
    BY <1>4, StepBoolean DEF InjectUserNetwork
  <2>3. proc' \in [Workers -> Procs] /\ WorkersSound'
    BY <2>1, <2>2, WorkerStep
  <2>4. \A n \in proc[w].nets : name[n] \in Peerings /\ Belongs(proc[w].c, name[n])
    BY <1>0, <1>4 DEF InjectUserNetwork, At, Sound
  <2>5. PeersOnly' /\ joined' \in [Containers -> SUBSET Nets]
    BY <1>4, <2>1, <2>2, <2>4 DEF InjectUserNetwork, TypeOK, PeersOnly, Belongs
  <2> QED  BY <1>4, <2>1, <2>2, <2>3, <2>5 DEF InjectUserNetwork, TypeOK, RowsNamed
<1>5. CASE CreateFails(w)
  <2>1. UNCHANGED <<made, live, running, joined, name, up, rows>> /\ calm' \in BOOLEAN
    BY <1>5, StepBoolean DEF CreateFails
  <2>2. proc' \in [Workers -> Procs] /\ WorkersSound'
    BY <1>5, <2>1, FinishStep DEF CreateFails
  <2> QED  BY <2>1, <2>2 DEF TypeOK, RowsNamed, PeersOnly
<1>6. CASE ReadPeers(w)
  <2> DEFINE r == [proc[w] EXCEPT !.pc = "connect", !.nets = UserLevelNetworks(Owner[proc[w].c])]
  <2>1. proc[w].c \in Containers
    BY <1>0, <1>6 DEF ReadPeers, At, Sound
  <2>2. r \in Procs /\ Sound(r, name)
    BY <1>0, <2>1, PeerNetworksOfUser DEF Procs, Sound
  <2>3. proc' = [proc EXCEPT ![w] = r]
        /\ UNCHANGED <<made, live, running, joined, name, up, rows>> /\ calm' \in BOOLEAN
    BY <1>6, StepBoolean DEF ReadPeers
  <2>4. proc' \in [Workers -> Procs] /\ WorkersSound'
    BY <2>2, <2>3, WorkerStep
  <2> QED  BY <2>3, <2>4 DEF TypeOK, RowsNamed, PeersOnly
<1>7. CASE ConnectNext(w)
  <2>1. PICK n \in proc[w].nets :
          /\ proc' = [proc EXCEPT ![w].nets = @ \ {n}]
          /\ \/ joined' = Connected(proc[w].c, n) /\ Step(w, TRUE)
             \/ joined' = joined /\ Step(w, FALSE)
    BY <1>7 DEF ConnectNext
  <2> DEFINE r == [proc[w] EXCEPT !.nets = @ \ {n}]
  <2>2. r \in Procs /\ Sound(r, name)
    BY <1>0, <1>7 DEF ConnectNext, At, Procs, Sound
  <2>3. proc' = [proc EXCEPT ![w] = r]
        /\ UNCHANGED <<made, live, running, name, up, rows>> /\ calm' \in BOOLEAN
    BY <1>7, <2>1, StepBoolean DEF ConnectNext
  <2>4. proc' \in [Workers -> Procs] /\ WorkersSound'
    BY <2>2, <2>3, WorkerStep
  <2>5. proc[w].c \in Containers /\ n \in Nets /\ name[n] \in Peerings /\ Belongs(proc[w].c, name[n])
    BY <1>0, <1>7 DEF ConnectNext, At, Procs, Sound
  <2>6. joined' \in [Containers -> SUBSET Nets] /\ PeersOnly'
    BY <2>1, <2>3, <2>5, ConnectedSound DEF TypeOK, PeersOnly
  <2> QED  BY <2>3, <2>4, <2>6 DEF TypeOK, RowsNamed
<1>8. CASE ConnectDone(w)
  <2>1. UNCHANGED <<made, live, running, joined, name, up, rows>> /\ calm' \in BOOLEAN
    BY <1>8, StepBoolean DEF ConnectDone
  <2>2. proc' \in [Workers -> Procs] /\ WorkersSound'
    BY <1>8, <2>1, FinishStep DEF ConnectDone
  <2> QED  BY <2>1, <2>2 DEF TypeOK, RowsNamed, PeersOnly
<1> QED  BY <1>1, <1>2, <1>3, <1>4, <1>5, <1>6, <1>7, <1>8 DEF Create

\* The loops of an allow start with the network of its peering.
LEMMA WithNetworkStep ==
    ASSUME IInv, NEW w \in Workers, NEW n \in Nets, WithNetwork(w, n),
           proc[w].pc \in {"find", "createNetwork"}, name'[n] = proc[w].p,
           \A m \in Nets : name[m] \in Peerings => name'[m] = name[m]
    PROVE  proc' \in [Workers -> Procs] /\ WorkersSound'
<1> DEFINE r == [proc[w] EXCEPT !.pc = "attach", !.n = n,
                                !.users = ToConnect(proc[w].p), !.conts = proc[w].p.conts]
<1>1. /\ proc[w] \in Procs /\ proc[w].p \in Peerings
      /\ \A c \in proc[w].p.conts : Belongs(c, proc[w].p)
  BY DEF IInv, TypeOK, WorkersSound, Sound
<1>2. /\ proc[w].p.conts \subseteq Containers /\ ToConnect(proc[w].p) \subseteq Users
      /\ \A u \in ToConnect(proc[w].p) : u \in proc[w].p.users /\ proc[w].p.conts = {}
  BY <1>1, PeerAssumption DEF Peerings, ToConnect, IsUserLevel
<1>3. r \in Procs /\ Sound(r, name')
  BY <1>1, <1>2 DEF Procs, Sound
<1>4. proc' = [proc EXCEPT ![w] = r]
  BY DEF WithNetwork
<1> QED  BY <1>3, <1>4, WorkerStep

LEMMA AllowIInv ==
    ASSUME IInv, NEW w \in Workers, Allow(w)
    PROVE  IInv'
<1> USE DEF IInv
<1>0. proc[w] \in Procs /\ Sound(proc[w], name)
  BY DEF TypeOK, WorkersSound
<1>1. ASSUME NEW p \in Peerings, AllowNetworkPeer(w, p) PROVE IInv'
  <2> DEFINE r == [IdleProc EXCEPT !.pc = "find", !.p = p]
  <2>1. \A c \in p.conts : Belongs(c, p)
    BY <1>1 DEF AllowNetworkPeer, peerMutate, IsUserLevel, Belongs
  <2>2. r \in Procs /\ Sound(r, name)
    BY <2>1, IdleSound DEF Procs, Sound, IdleProc
  <2>3. proc' = [proc EXCEPT ![w] = r]
        /\ UNCHANGED <<made, live, running, joined, name, up, rows>> /\ calm' \in BOOLEAN
    BY <1>1, StepBoolean DEF AllowNetworkPeer, Begin
  <2>4. proc' \in [Workers -> Procs] /\ WorkersSound'
    BY <2>2, <2>3, WorkerStep
  <2> QED  BY <2>3, <2>4 DEF TypeOK, RowsNamed, PeersOnly
<1>2. CASE findNetworkByName(w)
  <2> DEFINE r == [proc[w] EXCEPT !.pc = "createNetwork"]
  <2>1. UNCHANGED <<made, live, running, joined, name, up, rows>> /\ calm' \in BOOLEAN
    BY <1>2, StepBoolean DEF findNetworkByName
  <2>2. ASSUME NEW n \in up, name[n] = proc[w].p, WithNetwork(w, n)
        PROVE  proc' \in [Workers -> Procs] /\ WorkersSound'
    <3>1. n \in Nets /\ proc[w].pc = "find"
      BY <1>2 DEF findNetworkByName, At, TypeOK
    <3> QED  BY <2>1, <2>2, <3>1, WithNetworkStep
  <2>3. ASSUME proc' = [proc EXCEPT ![w].pc = "createNetwork"]
        PROVE  proc' \in [Workers -> Procs] /\ WorkersSound'
    <3>1. r \in Procs /\ Sound(r, name)
      BY <1>0, <1>2 DEF findNetworkByName, At, Procs, Sound
    <3> QED  BY <2>1, <2>3, <3>1, WorkerStep
  <2>4. proc' \in [Workers -> Procs] /\ WorkersSound'
    BY <1>2, <2>2, <2>3 DEF findNetworkByName
  <2> QED  BY <2>1, <2>4 DEF TypeOK, RowsNamed, PeersOnly
<1>3. CASE createNetwork(w)
  <2>1. UNCHANGED <<made, live, running, joined, rows>> /\ calm' \in BOOLEAN
    BY <1>3, StepBoolean DEF createNetwork
  <2>2. ASSUME NEW n \in Nets, name[n] = NoPeering, name' = [name EXCEPT ![n] = proc[w].p],
               up' = up \cup {n}, WithNetwork(w, n)
        PROVE  IInv'
    <3>1. proc[w].pc = "createNetwork" /\ proc[w].p \in Peerings
      BY <1>0, <1>3 DEF createNetwork, At, Sound
    <3>2. name'[n] = proc[w].p /\ \A m \in Nets : name[m] \in Peerings => name'[m] = name[m]
      BY <2>2, PeerAssumption DEF TypeOK
    <3>3. proc' \in [Workers -> Procs] /\ WorkersSound'
      BY <2>2, <3>1, <3>2, WithNetworkStep
    <3>4. name' \in [Nets -> Peerings \cup {NoPeering}] /\ up' \subseteq {m \in Nets : name'[m] # NoPeering}
      BY <2>2, <3>1, PeerAssumption DEF TypeOK
    <3>5. RowsNamed' /\ PeersOnly'
      BY <2>1, <3>2 DEF RowsNamed, PeersOnly, TypeOK
    <3> QED  BY <2>1, <3>3, <3>4, <3>5 DEF TypeOK
  <2>3. ASSUME Finish(w), UNCHANGED <<name, up>> PROVE IInv'
    <3>1. proc' \in [Workers -> Procs] /\ WorkersSound'
      BY <2>3, FinishStep
    <3> QED  BY <2>1, <2>3, <3>1 DEF TypeOK, RowsNamed, PeersOnly
  <2> QED  BY <1>3, <2>2, <2>3 DEF createNetwork
<1>4. CASE GetContainersByOwner(w)
  <2>1. UNCHANGED <<made, live, running, joined, name, up, rows>> /\ calm' \in BOOLEAN
    BY <1>4, StepBoolean DEF GetContainersByOwner
  <2>2. PICK u \in proc[w].users :
          \/ proc' = [proc EXCEPT ![w].users = @ \ {u}, ![w].conts = {c \in live : Owner[c] = u}]
          \/ proc' = [proc EXCEPT ![w].users = @ \ {u}]
    BY <1>4 DEF GetContainersByOwner
  <2> DEFINE r1 == [proc[w] EXCEPT !.users = @ \ {u}, !.conts = {c \in live : Owner[c] = u}]
             r2 == [proc[w] EXCEPT !.users = @ \ {u}]
  <2>3. proc[w].pc = "attach"
    BY <1>4 DEF GetContainersByOwner, At
  <2>4. \A c \in live : c \in Containers /\ (Owner[c] = u => Belongs(c, proc[w].p))
    BY <1>0, <2>3 DEF Sound, Belongs, TypeOK
  <2>5. r1 \in Procs /\ Sound(r1, name)
    BY <1>0, <2>3, <2>4 DEF Procs, Sound
  <2>6. r2 \in Procs /\ Sound(r2, name)
    BY <1>0, <2>3 DEF Procs, Sound
  <2>7. proc' = [proc EXCEPT ![w] = r1] \/ proc' = [proc EXCEPT ![w] = r2]
    BY <2>2
  <2>8. proc' \in [Workers -> Procs] /\ WorkersSound'
    BY <2>1, <2>5, <2>6, <2>7, WorkerStep
  <2> QED  BY <2>1, <2>8 DEF TypeOK, RowsNamed, PeersOnly
<1>5. CASE AttachNext(w)
  <2>1. PICK c \in proc[w].conts :
          /\ proc' = [proc EXCEPT ![w].conts = @ \ {c}]
          /\ \/ joined' = Connected(c, proc[w].n) /\ Step(w, TRUE)
             \/ joined' = joined /\ Step(w, FALSE)
    BY <1>5 DEF AttachNext
  <2> DEFINE r == [proc[w] EXCEPT !.conts = @ \ {c}]
  <2>2. proc[w].pc = "attach"
    BY <1>5 DEF AttachNext, At
  <2>3. r \in Procs /\ Sound(r, name)
    BY <1>0, <2>2 DEF Procs, Sound
  <2>4. proc' = [proc EXCEPT ![w] = r]
        /\ UNCHANGED <<made, live, running, name, up, rows>> /\ calm' \in BOOLEAN
    BY <1>5, <2>1, StepBoolean DEF AttachNext
  <2>5. proc' \in [Workers -> Procs] /\ WorkersSound'
    BY <2>3, <2>4, WorkerStep
  <2>6. /\ c \in Containers /\ proc[w].n \in Nets /\ name[proc[w].n] \in Peerings
        /\ Belongs(c, name[proc[w].n])
    BY <1>0, <2>2 DEF Procs, Sound
  <2>7. joined' \in [Containers -> SUBSET Nets] /\ PeersOnly'
    BY <2>1, <2>4, <2>6, ConnectedSound DEF TypeOK, PeersOnly
  <2> QED  BY <2>4, <2>5, <2>7 DEF TypeOK, RowsNamed
<1>6. CASE AddNetworkPeer(w)
  <2>1. UNCHANGED <<made, live, running, joined, name, up>> /\ calm' \in BOOLEAN
    BY <1>6, StepBoolean DEF AddNetworkPeer
  <2>2. proc' \in [Workers -> Procs] /\ WorkersSound'
    BY <1>6, <2>1, FinishStep DEF AddNetworkPeer
  <2>3. proc[w].p \in Peerings /\ proc[w].n \in Nets /\ name[proc[w].n] = proc[w].p
    BY <1>0, <1>6 DEF AddNetworkPeer, At, Sound
  <2>4. rows' \in [Peerings -> Nets \cup {NoNet}] /\ RowsNamed'
    BY <1>6, <2>1, <2>3 DEF AddNetworkPeer, TypeOK, RowsNamed
  <2> QED  BY <2>1, <2>2, <2>4 DEF TypeOK, PeersOnly
<1> QED  BY <1>1, <1>2, <1>3, <1>4, <1>5, <1>6 DEF Allow

LEMMA DenyIInv ==
    ASSUME IInv, NEW w \in Workers, Deny(w)
    PROVE  IInv'
<1> USE DEF IInv
<1>0. proc[w] \in Procs /\ Sound(proc[w], name)
  BY DEF TypeOK, WorkersSound
<1>1. ASSUME NEW p \in Peerings, DenyNetworkPeer(w, p) PROVE IInv'
  <2> DEFINE nets == {rows[q] : q \in Revoked(p)} \ {NoNet}
             r == [IdleProc EXCEPT !.pc = "deleteRows", !.p = p, !.nets = nets]
  <2>1. nets \subseteq Nets
    BY DEF Revoked, TypeOK
  <2>2. r \in Procs /\ Sound(r, name)
    BY <2>1, IdleSound DEF Procs, Sound, IdleProc
  <2>3. proc' = [proc EXCEPT ![w] = r]
        /\ UNCHANGED <<made, live, running, joined, name, up, rows>> /\ calm' \in BOOLEAN
    BY <1>1, StepBoolean DEF DenyNetworkPeer, Begin
  <2>4. proc' \in [Workers -> Procs] /\ WorkersSound'
    BY <2>2, <2>3, WorkerStep
  <2> QED  BY <2>3, <2>4 DEF TypeOK, RowsNamed, PeersOnly
<1>2. CASE RemoveNetworkPeer(w)
  <2> DEFINE r == [proc[w] EXCEPT !.pc = "inspect", !.p = NoPeering]
  <2>1. r \in Procs /\ Sound(r, name)
    BY <1>0 DEF Procs, Sound
  <2>2. proc' = [proc EXCEPT ![w] = r]
        /\ UNCHANGED <<made, live, running, joined, name, up>> /\ calm' \in BOOLEAN
    BY <1>2, StepBoolean DEF RemoveNetworkPeer
  <2>3. proc' \in [Workers -> Procs] /\ WorkersSound'
    BY <2>1, <2>2, WorkerStep
  <2>4. rows' \in [Peerings -> Nets \cup {NoNet}] /\ RowsNamed'
    BY <1>2, <2>2 DEF RemoveNetworkPeer, TypeOK, RowsNamed
  <2> QED  BY <2>2, <2>3, <2>4 DEF TypeOK, PeersOnly
<1>3. CASE listNetworkContainers(w)
  <2>1. UNCHANGED <<made, live, running, joined, name, up, rows>> /\ calm' \in BOOLEAN
    BY <1>3, StepBoolean DEF listNetworkContainers
  <2>2. PICK n \in proc[w].nets :
          \/ proc' = [proc EXCEPT ![w].pc = "disconnect", ![w].n = n, ![w].nets = @ \ {n},
                                  ![w].conts = Endpoints(n)]
          \/ proc' = [proc EXCEPT ![w].pc = "disconnect", ![w].n = n, ![w].nets = @ \ {n}]
    BY <1>3 DEF listNetworkContainers
  <2> DEFINE r1 == [proc[w] EXCEPT !.pc = "disconnect", !.n = n, !.nets = @ \ {n},
                                   !.conts = Endpoints(n)]
             r2 == [proc[w] EXCEPT !.pc = "disconnect", !.n = n, !.nets = @ \ {n}]
  <2>3. Endpoints(n) \subseteq Containers
    BY DEF Endpoints, TypeOK
  <2>4. r1 \in Procs /\ Sound(r1, name)
    BY <1>0, <2>3 DEF Procs, Sound
  <2>5. r2 \in Procs /\ Sound(r2, name)
    BY <1>0 DEF Procs, Sound
  <2>6. proc' = [proc EXCEPT ![w] = r1] \/ proc' = [proc EXCEPT ![w] = r2]
    BY <2>2
  <2>7. proc' \in [Workers -> Procs] /\ WorkersSound'
    BY <2>1, <2>4, <2>5, <2>6, WorkerStep
  <2> QED  BY <2>1, <2>7 DEF TypeOK, RowsNamed, PeersOnly
<1>4. CASE DisconnectNext(w)
  <2>1. PICK c \in proc[w].conts :
          /\ proc' = [proc EXCEPT ![w].conts = @ \ {c}]
          /\ \/ joined' = Disconnected(c, proc[w].n) /\ Step(w, TRUE)
             \/ joined' = joined /\ Step(w, FALSE)
    BY <1>4 DEF DisconnectNext
  <2> DEFINE r == [proc[w] EXCEPT !.conts = @ \ {c}]
  <2>2. r \in Procs /\ Sound(r, name)
    BY <1>0, <1>4 DEF DisconnectNext, At, Procs, Sound
  <2>3. proc' = [proc EXCEPT ![w] = r]
        /\ UNCHANGED <<made, live, running, name, up, rows>> /\ calm' \in BOOLEAN
    BY <1>4, <2>1, StepBoolean DEF DisconnectNext
  <2>4. proc' \in [Workers -> Procs] /\ WorkersSound'
    BY <2>2, <2>3, WorkerStep
  <2>5. joined' \in [Containers -> SUBSET Nets] /\ PeersOnly'
    BY ZenonT(40), <2>1, <2>3 DEF Disconnected, TypeOK, PeersOnly
  <2> QED  BY <2>3, <2>4, <2>5 DEF TypeOK, RowsNamed
<1>5. CASE DeletePeerNetwork(w)
  <2> DEFINE r == [proc[w] EXCEPT !.pc = "inspect", !.n = NoNet]
  <2>1. r \in Procs /\ Sound(r, name)
    BY <1>0 DEF Procs, Sound
  <2>2. /\ proc' = [proc EXCEPT ![w] = r] /\ up' \subseteq up
        /\ UNCHANGED <<made, live, running, joined, name, rows>> /\ calm' \in BOOLEAN
    BY <1>5, StepBoolean DEF DeletePeerNetwork
  <2>3. proc' \in [Workers -> Procs] /\ WorkersSound'
    BY <2>1, <2>2, WorkerStep
  <2> QED  BY <2>2, <2>3 DEF TypeOK, RowsNamed, PeersOnly
<1>6. CASE DenyDone(w)
  <2>1. UNCHANGED <<made, live, running, joined, name, up, rows>> /\ calm' \in BOOLEAN
    BY <1>6, StepBoolean DEF DenyDone
  <2>2. proc' \in [Workers -> Procs] /\ WorkersSound'
    BY <1>6, <2>1, FinishStep DEF DenyDone
  <2> QED  BY <2>1, <2>2 DEF TypeOK, RowsNamed, PeersOnly
<1> QED  BY <1>1, <1>2, <1>3, <1>4, <1>5, <1>6 DEF Deny

LEMMA NextIInv == IInv /\ [Next]_vars => IInv'
<1> SUFFICES ASSUME IInv, [Next]_vars PROVE IInv'
  OBVIOUS
<1>1. ASSUME NEW c \in Containers, ContainerEnds(c) PROVE IInv'
  BY <1>1 DEF ContainerEnds, IInv, TypeOK, RowsNamed, PeersOnly, WorkersSound
<1>2. CASE UNCHANGED vars
  BY <1>2 DEF vars, IInv, TypeOK, RowsNamed, PeersOnly, WorkersSound
<1> QED  BY <1>1, <1>2, CreateIInv, AllowIInv, DenyIInv DEF Next

\* The inductive invariant holds in every reachable state.
THEOREM Inductive == Spec => []IInv
BY InitIInv, NextIInv, PTL DEF Spec

\* Containers, networks, rows and workers keep their types: a network of the
\* daemon always has the name of a peering.
THEOREM TypeCorrect == Spec => []TypeOK
<1>1. IInv => TypeOK
  BY DEF IInv
<1> QED  BY <1>1, Inductive, PTL

\* In every interleaving of creates, allows and denies, and whichever of their
\* calls fail, only containers that belong to a peering are attached to its
\* network.
THEOREM OnlyPeersAttached == Spec => []PeersOnly
<1>1. IInv => PeersOnly
  BY DEF IInv
<1> QED  BY <1>1, Inductive, PTL

-----------------------------------------------------------------------------
(***************************************************************************)
(* What the commands achieve when they neither overlap nor meet a failing  *)
(* call. The state is then that of an idle system or one step of a single  *)
(* worker away from it, and CalmInv says at each of his steps how far.     *)
(***************************************************************************)
Named == {rows[q] : q \in Peerings} \ {NoNet}

\* No worker but w is at work.
Alone(w) == \A v \in Workers \ {w} : At(v, "idle")

\* The state as worker w left it: the networks that are not in the table are
\* the one an allow made and those a deny is about to delete.
Undisturbed(w) ==
    LET r == proc[w] IN
    /\ r.pc \in {"idle", "create", "readPeers", "connect", "find", "createNetwork", "deleteRows"} =>
        up = Named
    /\ r.pc = "create" => r.nets = UserLevelNetworks(Owner[r.c])
    /\ r.pc \in {"find", "createNetwork", "attach"} => rows[r.p] = NoNet
    /\ r.pc = "attach" =>
        /\ up = Named \cup {r.n}
        /\ \A c \in live :
            r.p.conts = {} /\ Owner[c] \in r.p.users \ r.users => c \in r.conts \/ r.n \in joined[c]
    /\ r.pc = "deleteRows" => r.nets = {rows[q] : q \in Revoked(r.p)} \ {NoNet}
    /\ r.pc = "inspect" => up = Named \cup r.nets /\ r.nets \cap Named = {}
    /\ r.pc = "disconnect" =>
        /\ up = Named \cup r.nets \cup {r.n} /\ r.nets \cap Named = {}
        /\ r.n \notin Named \cup r.nets
        /\ \A c \in running : r.n \in joined[c] => c \in r.conts

\* Every container is attached to the networks of its user's peerings.
Served ==
    \A p \in Peerings, c \in live :
        p.conts = {} /\ rows[p] # NoNet /\ Owner[c] \in p.users => rows[p] \in joined[c]

CalmInv ==
    calm =>
        /\ Served
        /\ \A w \in Workers : Alone(w) => Undisturbed(w)
        /\ (\A w \in Workers : At(w, "idle")) => up = Named

\* What a worker may rely on if his step leaves the system calm.
LEMMA CalmBefore ==
    ASSUME CalmInv, NEW w \in Workers, NEW ok, Step(w, ok), calm'
    PROVE  calm /\ ok /\ Alone(w) /\ Undisturbed(w) /\ Served
BY DEF CalmInv, Step, Alone

\* What he has to leave behind.
LEMMA CalmAfter ==
    ASSUME IInv, NEW w \in Workers, Alone(w),
           \A v \in Workers \ {w} : proc'[v] = proc[v],
           Undisturbed(w)', Served'
    PROVE  CalmInv'
<1>1. ASSUME NEW v \in Workers, Alone(v)' PROVE Undisturbed(v)'
  <2>1. CASE v = w
    BY <2>1
  <2>2. CASE v # w
    <3>1. proc'[w].pc = "idle" /\ proc'[v].pc = "idle"
      BY <1>1, <2>2 DEF Alone, At
    <3>2. up' = Named'
      BY <3>1 DEF Undisturbed
    <3> QED  BY <3>1, <3>2 DEF Undisturbed
  <2> QED  BY <2>1, <2>2
<1>2. ASSUME \A v \in Workers : At(v, "idle")' PROVE up' = Named'
  BY <1>2 DEF Undisturbed, At
<1> QED  BY <1>1, <1>2 DEF CalmInv

LEMMA InitCalm == Init => CalmInv
<1> SUFFICES ASSUME Init PROVE CalmInv
  OBVIOUS
<1>1. up = {} /\ Named = {} /\ live = {}
  BY DEF Init, Named
<1>2. \A w \in Workers : proc[w].pc = "idle"
  BY DEF Init, IdleProc
<1> QED  BY <1>1, <1>2 DEF CalmInv, Undisturbed, Served

LEMMA CreateCalm ==
    ASSUME IInv, CalmInv, NEW w \in Workers, Create(w)
    PROVE  CalmInv'
<1> SUFFICES ASSUME calm' PROVE CalmInv'
  BY DEF CalmInv
<1>0. proc[w] \in Procs /\ Sound(proc[w], name) /\ proc \in [Workers -> Procs]
  BY DEF IInv, TypeOK, WorkersSound
<1>1. ASSUME NEW c \in Containers, CreateContainer(w, c) PROVE CalmInv'
  <2>1. Alone(w) /\ Undisturbed(w) /\ Served
    BY <1>1, CalmBefore DEF CreateContainer
  <2>2. /\ proc'[w].pc = "create" /\ proc'[w].c = c /\ proc'[w].nets = UserLevelNetworks(Owner[c])
        /\ \A v \in Workers \ {w} : proc'[v] = proc[v]
        /\ proc[w].pc = "idle" /\ UNCHANGED <<live, joined, up, rows>>
    BY <1>0, <1>1 DEF CreateContainer, Begin, IdleProc, At
  <2>3. Named' = Named /\ Served'
    BY <2>1, <2>2 DEF Named, Served
  <2>4. UserLevelNetworks(Owner[c])' = UserLevelNetworks(Owner[c])
    BY <2>2 DEF UserLevelNetworks
  <2>5. Undisturbed(w)'
    BY <2>1, <2>2, <2>3, <2>4 DEF Undisturbed
  <2> QED  BY <2>1, <2>2, <2>3, <2>5, CalmAfter
<1>2. ASSUME NEW c \in Containers, StartContainer(w, c) PROVE CalmInv'
  <2>1. Alone(w) /\ Undisturbed(w) /\ Served /\ proc[w].pc = "idle"
    BY <1>2, CalmBefore DEF StartContainer, At
  <2>2. UNCHANGED <<live, joined, up, rows, proc>>
    BY <1>2 DEF StartContainer
  <2>3. Named' = Named /\ Served'
    BY <2>1, <2>2 DEF Named, Served
  <2>4. Undisturbed(w)'
    BY <2>1, <2>2, <2>3 DEF Undisturbed
  <2> QED  BY <2>1, <2>2, <2>3, <2>4, CalmAfter
<1>3. ASSUME NEW c \in Containers, RemoveContainer(w, c) PROVE CalmInv'
  <2>1. Alone(w) /\ Undisturbed(w) /\ Served /\ proc[w].pc = "idle"
    BY <1>3, CalmBefore DEF RemoveContainer, At
  <2>2. UNCHANGED <<up, rows, proc>> /\ live' = live \ {c} /\ joined' = [joined EXCEPT ![c] = {}]
    BY <1>3 DEF RemoveContainer
  <2>3. Named' = Named /\ Served'
    BY <2>1, <2>2 DEF Named, Served, IInv, TypeOK
  <2>4. Undisturbed(w)'
    BY <2>1, <2>2, <2>3 DEF Undisturbed
  <2> QED  BY <2>1, <2>2, <2>3, <2>4, CalmAfter
<1>4. CASE InjectUserNetwork(w)
  <2>1. Alone(w) /\ Undisturbed(w) /\ Served /\ proc[w].pc = "create"
    BY <1>4, CalmBefore DEF InjectUserNetwork, At
  <2>2. /\ proc'[w].pc = "readPeers" /\ \A v \in Workers \ {w} : proc'[v] = proc[v]
        /\ UNCHANGED <<up, rows>> /\ live' = live \cup {proc[w].c}
        /\ joined' = [joined EXCEPT ![proc[w].c] = proc[w].nets]
    BY <1>0, <1>4 DEF InjectUserNetwork, Procs
  <2>3. proc[w].c \in Containers /\ proc[w].nets = UserLevelNetworks(Owner[proc[w].c])
    BY <1>0, <2>1 DEF Undisturbed, Sound
  <2>4. ASSUME NEW p \in Peerings, NEW c \in live', p.conts = {}, rows[p] # NoNet,
               Owner[c] \in p.users
        PROVE  rows[p] \in joined'[c]
    <3>1. CASE c = proc[w].c
      BY <2>2, <2>3, <2>4, <3>1 DEF UserLevelNetworks, IsUserLevel, IInv, TypeOK
    <3>2. CASE c # proc[w].c
      BY <2>1, <2>2, <2>4, <3>2 DEF Served, IInv, TypeOK
    <3> QED  BY <3>1, <3>2
  <2>5. Named' = Named /\ Served'
    BY <2>2, <2>4 DEF Named, Served
  <2>6. Undisturbed(w)'
    BY <2>1, <2>2, <2>5 DEF Undisturbed
  <2> QED  BY <2>1, <2>2, <2>5, <2>6, CalmAfter
<1>5. CASE CreateFails(w)
  BY <1>5, CalmBefore DEF CreateFails
<1>6. CASE ReadPeers(w)
  <2>1. Alone(w) /\ Undisturbed(w) /\ Served /\ proc[w].pc = "readPeers"
    BY <1>6, CalmBefore DEF ReadPeers, At
  <2>2. /\ proc'[w].pc = "connect" /\ \A v \in Workers \ {w} : proc'[v] = proc[v]
        /\ UNCHANGED <<live, joined, up, rows>>
    BY <1>0, <1>6 DEF ReadPeers, Procs
  <2>3. Named' = Named /\ Served'
    BY <2>1, <2>2 DEF Named, Served
  <2>4. Undisturbed(w)'
    BY <2>1, <2>2, <2>3 DEF Undisturbed
  <2> QED  BY <2>1, <2>2, <2>3, <2>4, CalmAfter
<1>7. CASE ConnectNext(w)
  <2>1. Alone(w) /\ Undisturbed(w) /\ Served /\ proc[w].pc = "connect"
    BY <1>7, CalmBefore DEF ConnectNext, At
  <2>2. /\ proc'[w].pc = "connect" /\ \A v \in Workers \ {w} : proc'[v] = proc[v]
        /\ UNCHANGED <<live, up, rows>>
    BY <1>0, <1>7, <2>1 DEF ConnectNext, Procs
  <2>3. \A c \in live : joined[c] \subseteq joined'[c]
    BY <1>7 DEF ConnectNext, Connected, IInv, TypeOK
  <2>4. Named' = Named /\ Served'
    BY <2>1, <2>2, <2>3 DEF Named, Served
  <2>5. Undisturbed(w)'
    BY <2>1, <2>2, <2>4 DEF Undisturbed
  <2> QED  BY <2>1, <2>2, <2>4, <2>5, CalmAfter
<1>8. CASE ConnectDone(w)
  <2>1. Alone(w) /\ Undisturbed(w) /\ Served /\ proc[w].pc = "connect"
    BY <1>8, CalmBefore DEF ConnectDone, At
  <2>2. /\ proc'[w].pc = "idle" /\ \A v \in Workers \ {w} : proc'[v] = proc[v]
        /\ UNCHANGED <<live, joined, up, rows>>
    BY <1>0, <1>8 DEF ConnectDone, Finish, IdleProc
  <2>3. Named' = Named /\ Served'
    BY <2>1, <2>2 DEF Named, Served
  <2>4. Undisturbed(w)'
    BY <2>1, <2>2, <2>3 DEF Undisturbed
  <2> QED  BY <2>1, <2>2, <2>3, <2>4, CalmAfter
<1> QED  BY <1>1, <1>2, <1>3, <1>4, <1>5, <1>6, <1>7, <1>8 DEF Create

LEMMA AllowCalm ==
    ASSUME IInv, CalmInv, NEW w \in Workers, Allow(w)
    PROVE  CalmInv'
<1> SUFFICES ASSUME calm' PROVE CalmInv'
  BY DEF CalmInv
<1>0. proc[w] \in Procs /\ Sound(proc[w], name) /\ proc \in [Workers -> Procs]
  BY DEF IInv, TypeOK, WorkersSound
<1>1. ASSUME NEW p \in Peerings, AllowNetworkPeer(w, p) PROVE CalmInv'
  <2>1. Alone(w) /\ Undisturbed(w) /\ Served /\ proc[w].pc = "idle"
    BY <1>1, CalmBefore DEF AllowNetworkPeer, Begin, At
  <2>2. /\ proc'[w].pc = "find" /\ proc'[w].p = p /\ rows[p] = NoNet
        /\ \A v \in Workers \ {w} : proc'[v] = proc[v]
        /\ UNCHANGED <<live, joined, up, rows>>
    BY <1>0, <1>1 DEF AllowNetworkPeer, Begin, IdleProc
  <2>3. Named' = Named /\ Served'
    BY <2>1, <2>2 DEF Named, Served
  <2>4. Undisturbed(w)'
    BY <2>1, <2>2, <2>3 DEF Undisturbed
  <2> QED  BY <2>1, <2>2, <2>3, <2>4, CalmAfter
<1>2. ASSUME NEW n \in Nets, WithNetwork(w, n), Alone(w), Undisturbed(w), Served,
             proc[w].pc \in {"find", "createNetwork"}, up' = up \cup {n},
             UNCHANGED <<live, joined, rows>>
      PROVE  CalmInv'
  <2>1. /\ proc'[w].pc = "attach" /\ proc'[w].p = proc[w].p /\ proc'[w].n = n
        /\ proc'[w].users = ToConnect(proc[w].p)
        /\ \A v \in Workers \ {w} : proc'[v] = proc[v]
    BY <1>0, <1>2 DEF WithNetwork, Procs
  <2>2. proc[w].p.conts = {} => ToConnect(proc[w].p) = proc[w].p.users
    BY DEF ToConnect, IsUserLevel
  <2>3. Named' = Named /\ Served'
    BY <1>2 DEF Named, Served
  <2>4. up = Named /\ rows[proc[w].p] = NoNet
    BY <1>2 DEF Undisturbed
  <2>5. up' = Named' \cup {n} /\ rows'[proc'[w].p] = NoNet
    BY <1>2, <2>1, <2>3, <2>4
  <2>6. Undisturbed(w)'
    BY <2>1, <2>2, <2>5 DEF Undisturbed
  <2> QED  BY <1>2, <2>1, <2>3, <2>6, CalmAfter
<1>3. CASE findNetworkByName(w)
  <2>1. Alone(w) /\ Undisturbed(w) /\ Served /\ proc[w].pc = "find"
    BY <1>3, CalmBefore DEF findNetworkByName, At
  <2>2. UNCHANGED <<live, joined, up, rows>>
    BY <1>3 DEF findNetworkByName
  <2>3. ASSUME NEW n \in up, WithNetwork(w, n) PROVE CalmInv'
    <3>1. n \in Nets /\ up' = up \cup {n}
      BY <2>2 DEF IInv, TypeOK
    <3> QED  BY <1>2, <2>1, <2>2, <2>3, <3>1
  <2>4. ASSUME proc' = [proc EXCEPT ![w].pc = "createNetwork"] PROVE CalmInv'
    <3>1. /\ proc'[w].pc = "createNetwork" /\ proc'[w].p = proc[w].p
          /\ \A v \in Workers \ {w} : proc'[v] = proc[v]
      BY <1>0, <2>4 DEF Procs
    <3>2. Named' = Named /\ Served'
      BY <2>1, <2>2 DEF Named, Served
    <3>3. Undisturbed(w)'
      BY <2>1, <2>2, <3>1, <3>2 DEF Undisturbed
    <3> QED  BY <2>1, <3>1, <3>2, <3>3, CalmAfter
  <2> QED  BY <1>3, <2>3, <2>4 DEF findNetworkByName
<1>4. CASE createNetwork(w)
  <2>1. Alone(w) /\ Undisturbed(w) /\ Served /\ proc[w].pc = "createNetwork"
    BY <1>4, CalmBefore DEF createNetwork, At
  <2>2. PICK n \in Nets : up' = up \cup {n} /\ WithNetwork(w, n)
    BY <1>4, CalmBefore DEF createNetwork
  <2>3. UNCHANGED <<live, joined, rows>>
    BY <1>4 DEF createNetwork
  <2> QED  BY <1>2, <2>1, <2>2, <2>3
<1>5. CASE GetContainersByOwner(w)
  <2>1. Alone(w) /\ Undisturbed(w) /\ Served /\ proc[w].pc = "attach" /\ proc[w].conts = {}
    BY <1>5, CalmBefore DEF GetContainersByOwner, At
  <2>2. PICK u \in proc[w].users :
          proc' = [proc EXCEPT ![w].users = @ \ {u}, ![w].conts = {c \in live : Owner[c] = u}]
    BY <1>5, CalmBefore DEF GetContainersByOwner
  <2>3. UNCHANGED <<live, joined, up, rows>>
    BY <1>5 DEF GetContainersByOwner
  <2>4. /\ proc'[w].pc = "attach" /\ proc'[w].p = proc[w].p /\ proc'[w].n = proc[w].n
        /\ proc'[w].users = proc[w].users \ {u}
        /\ proc'[w].conts = {c \in live : Owner[c] = u}
        /\ \A v \in Workers \ {w} : proc'[v] = proc[v]
    BY <1>0, <2>1, <2>2 DEF Procs
  <2>5. Named' = Named /\ Served'
    BY <2>1, <2>3 DEF Named, Served
  <2>6. Undisturbed(w)'
    BY <2>1, <2>3, <2>4, <2>5 DEF Undisturbed
  <2> QED  BY <2>1, <2>4, <2>5, <2>6, CalmAfter
<1>6. CASE AttachNext(w)
  <2>1. Alone(w) /\ Undisturbed(w) /\ Served /\ proc[w].pc = "attach"
    BY <1>6, CalmBefore DEF AttachNext, At
  <2>2. PICK d \in proc[w].conts :
          proc' = [proc EXCEPT ![w].conts = @ \ {d}] /\ joined' = Connected(d, proc[w].n)
    BY <1>6, CalmBefore DEF AttachNext
  <2>3. UNCHANGED <<live, up, rows>>
    BY <1>6 DEF AttachNext
  <2>4. /\ proc'[w].pc = "attach" /\ proc'[w].p = proc[w].p /\ proc'[w].n = proc[w].n
        /\ proc'[w].users = proc[w].users /\ proc'[w].conts = proc[w].conts \ {d}
        /\ \A v \in Workers \ {w} : proc'[v] = proc[v]
    BY <1>0, <2>1, <2>2 DEF Procs
  <2>5. proc[w].n \in up
    BY <2>1 DEF Undisturbed
  <2>6. /\ \A c \in live : joined[c] \subseteq joined'[c]
        /\ d \in live => proc[w].n \in joined'[d]
    BY <2>2, <2>5 DEF Connected, IInv, TypeOK
  <2>7. Named' = Named /\ Served'
    BY <2>1, <2>3, <2>6 DEF Named, Served
  <2>8. ASSUME NEW c \in live, proc[w].p.conts = {}, Owner[c] \in proc[w].p.users \ proc[w].users
        PROVE  c \in proc'[w].conts \/ proc[w].n \in joined'[c]
    <3>1. c \in proc[w].conts \/ proc[w].n \in joined[c]
      BY <2>1, <2>8 DEF Undisturbed
    <3> QED  BY <2>4, <2>6, <3>1
  <2>9. Undisturbed(w)'
    BY <2>1, <2>3, <2>4, <2>7, <2>8 DEF Undisturbed
  <2> QED  BY <2>1, <2>4, <2>7, <2>9, CalmAfter
<1>7. CASE AddNetworkPeer(w)
  <2>1. /\ Alone(w) /\ Undisturbed(w) /\ Served /\ proc[w].pc = "attach"
        /\ proc[w].conts = {} /\ proc[w].users = {}
    BY <1>7, CalmBefore DEF AddNetworkPeer, At
  <2>2. /\ proc'[w].pc = "idle" /\ rows' = [rows EXCEPT ![proc[w].p] = proc[w].n]
        /\ \A v \in Workers \ {w} : proc'[v] = proc[v]
        /\ UNCHANGED <<live, joined, up>>
    BY <1>0, <1>7 DEF AddNetworkPeer, Finish, IdleProc
  <2>3. proc[w].p \in Peerings /\ proc[w].n \in Nets /\ proc[w].n # NoNet
    BY <1>0, <2>1, PeerAssumption DEF Sound
  <2>4. rows \in [Peerings -> Nets \cup {NoNet}]
    BY DEF IInv, TypeOK
  <2>5. rows[proc[w].p] = NoNet /\ up = Named \cup {proc[w].n}
    BY <2>1 DEF Undisturbed
  <2>6. Named' = Named \cup {proc[w].n}
    BY <2>2, <2>3, <2>4, <2>5 DEF Named
  <2>7. \A c \in live : proc[w].p.conts = {} /\ Owner[c] \in proc[w].p.users => proc[w].n \in joined[c]
    BY <2>1 DEF Undisturbed
  <2>8. Served'
    BY <2>1, <2>2, <2>3, <2>4, <2>7 DEF Served
  <2>9. Undisturbed(w)'
    BY <2>2, <2>5, <2>6 DEF Undisturbed
  <2> QED  BY <2>1, <2>2, <2>8, <2>9, CalmAfter
<1> QED  BY <1>1, <1>3, <1>4, <1>5, <1>6, <1>7 DEF Allow

LEMMA DenyCalm ==
    ASSUME IInv, CalmInv, NEW w \in Workers, Deny(w)
    PROVE  CalmInv'
<1> SUFFICES ASSUME calm' PROVE CalmInv'
  BY DEF CalmInv
<1>0. proc[w] \in Procs /\ Sound(proc[w], name) /\ proc \in [Workers -> Procs]
  BY DEF IInv, TypeOK, WorkersSound
<1>1. ASSUME NEW p \in Peerings, DenyNetworkPeer(w, p) PROVE CalmInv'
  <2>1. Alone(w) /\ Undisturbed(w) /\ Served /\ proc[w].pc = "idle"
    BY <1>1, CalmBefore DEF DenyNetworkPeer, Begin, At
  <2>2. /\ proc'[w].pc = "deleteRows" /\ proc'[w].p = p
        /\ proc'[w].nets = {rows[q] : q \in Revoked(p)} \ {NoNet}
        /\ \A v \in Workers \ {w} : proc'[v] = proc[v]
        /\ UNCHANGED <<live, joined, up, rows>>
    BY <1>0, <1>1 DEF DenyNetworkPeer, Begin, IdleProc
  <2>3. Named' = Named /\ Served'
    BY <2>1, <2>2 DEF Named, Served
  <2>4. Undisturbed(w)'
    BY <2>1, <2>2, <2>3 DEF Undisturbed
  <2> QED  BY <2>1, <2>2, <2>3, <2>4, CalmAfter
<1>2. CASE RemoveNetworkPeer(w)
  <2>1. Alone(w) /\ Undisturbed(w) /\ Served /\ proc[w].pc = "deleteRows"
    BY <1>2, CalmBefore DEF RemoveNetworkPeer, At
  <2>2. /\ proc'[w].pc = "inspect" /\ proc'[w].nets = proc[w].nets
        /\ \A v \in Workers \ {w} : proc'[v] = proc[v]
        /\ rows' = [q \in Peerings |-> IF q \in Revoked(proc[w].p) THEN NoNet ELSE rows[q]]
        /\ UNCHANGED <<live, joined, up>>
    BY <1>0, <1>2 DEF RemoveNetworkPeer, Procs
  <2>3. Revoked(proc[w].p) \subseteq Peerings
    BY <1>0, <2>1 DEF Sound, Revoked
  <2>4. up = Named /\ proc[w].nets = {rows[q] : q \in Revoked(proc[w].p)} \ {NoNet}
    BY <2>1 DEF Undisturbed
  <2>5. Named' = {rows[q] : q \in Peerings \ Revoked(proc[w].p)} \ {NoNet}
    BY <2>2 DEF Named
  <2>6. \A q1, q2 \in Peerings : rows[q1] # NoNet /\ rows[q1] = rows[q2] => q1 = q2
    BY DEF IInv, RowsNamed
  <2>7. up' = Named' \cup proc[w].nets /\ proc[w].nets \cap Named' = {}
    BY <2>2, <2>3, <2>4, <2>5, <2>6 DEF Named
  <2>8. Served'
    BY <2>1, <2>2 DEF Served
  <2>9. Undisturbed(w)'
    BY <2>2, <2>7 DEF Undisturbed
  <2> QED  BY <2>1, <2>2, <2>8, <2>9, CalmAfter
<1>3. CASE listNetworkContainers(w)
  <2>1. Alone(w) /\ Undisturbed(w) /\ Served /\ proc[w].pc = "inspect"
    BY <1>3, CalmBefore DEF listNetworkContainers, At
  <2>2. PICK n \in proc[w].nets :
          proc' = [proc EXCEPT ![w].pc = "disconnect", ![w].n = n, ![w].nets = @ \ {n},
                               ![w].conts = Endpoints(n)]
    BY <1>3, CalmBefore DEF listNetworkContainers
  <2>3. UNCHANGED <<live, running, joined, up, rows>>
    BY <1>3 DEF listNetworkContainers
  <2>4. /\ proc'[w].pc = "disconnect" /\ proc'[w].n = n /\ proc'[w].nets = proc[w].nets \ {n}
        /\ proc'[w].conts = Endpoints(n)
        /\ \A v \in Workers \ {w} : proc'[v] = proc[v]
    BY <1>0, <2>2 DEF Procs
  <2>5. Named' = Named /\ Served'
    BY <2>1, <2>3 DEF Named, Served
  <2>6. up = Named \cup proc[w].nets /\ proc[w].nets \cap Named = {}
    BY <2>1 DEF Undisturbed
  <2>7. Undisturbed(w)'
    BY <2>3, <2>4, <2>5, <2>6 DEF Undisturbed, Endpoints
  <2> QED  BY <2>1, <2>4, <2>5, <2>7, CalmAfter
<1>4. CASE DisconnectNext(w)
  <2>1. Alone(w) /\ Undisturbed(w) /\ Served /\ proc[w].pc = "disconnect"
    BY <1>4, CalmBefore DEF DisconnectNext, At
  <2>2. PICK d \in proc[w].conts :
          proc' = [proc EXCEPT ![w].conts = @ \ {d}] /\ joined' = Disconnected(d, proc[w].n)
    BY <1>4, CalmBefore DEF DisconnectNext
  <2>3. UNCHANGED <<live, running, up, rows>>
    BY <1>4 DEF DisconnectNext
  <2>4. /\ proc'[w].pc = "disconnect" /\ proc'[w].n = proc[w].n /\ proc'[w].nets = proc[w].nets
        /\ proc'[w].conts = proc[w].conts \ {d}
        /\ \A v \in Workers \ {w} : proc'[v] = proc[v]
    BY <1>0, <2>1, <2>2 DEF Procs
  <2>5. /\ d \in Containers /\ joined \in [Containers -> SUBSET Nets]
        /\ live \subseteq Containers /\ running \subseteq Containers
    BY <1>0 DEF Procs, IInv, TypeOK
  <2>6. /\ joined'[d] = joined[d] \ {proc[w].n}
        /\ \A c \in Containers \ {d} : joined'[c] = joined[c]
    BY <2>2, <2>5 DEF Disconnected
  <2>7. /\ up = Named \cup proc[w].nets \cup {proc[w].n} /\ proc[w].nets \cap Named = {}
        /\ proc[w].n \notin Named \cup proc[w].nets
        /\ \A c \in running : proc[w].n \in joined[c] => c \in proc[w].conts
    BY <2>1 DEF Undisturbed
  <2>8. Named' = Named
    BY <2>3 DEF Named
  <2>9. ASSUME NEW p \in Peerings, NEW c \in live, p.conts = {}, rows[p] # NoNet, Owner[c] \in p.users
        PROVE  rows[p] \in joined'[c]
    <3>1. rows[p] \in joined[c] /\ rows[p] # proc[w].n
      BY <2>1, <2>7, <2>9 DEF Served, Named
    <3> QED  BY <2>5, <2>6, <3>1
  <2>10. Served'
    BY <2>3, <2>9 DEF Served
  <2>11. \A c \in running : proc[w].n \in joined'[c] => c \in proc[w].conts \ {d}
    BY <2>5, <2>6, <2>7
  <2>12. Undisturbed(w)'
    BY <2>3, <2>4, <2>7, <2>8, <2>11 DEF Undisturbed
  <2> QED  BY <2>1, <2>4, <2>10, <2>12, CalmAfter
<1>5. CASE DeletePeerNetwork(w)
  <2>1. Alone(w) /\ Undisturbed(w) /\ Served /\ proc[w].pc = "disconnect" /\ proc[w].conts = {}
    BY <1>5, CalmBefore DEF DeletePeerNetwork, At
  <2>2. Endpoints(proc[w].n) = {}
    BY <2>1 DEF Undisturbed, Endpoints
  <2>3. up' = up \ {proc[w].n}
    BY <1>5, <2>2, CalmBefore DEF DeletePeerNetwork
  <2>4. /\ proc'[w].pc = "inspect" /\ proc'[w].nets = proc[w].nets
        /\ \A v \in Workers \ {w} : proc'[v] = proc[v]
        /\ UNCHANGED <<live, joined, rows>>
    BY <1>0, <1>5 DEF DeletePeerNetwork, Procs
  <2>5. Named' = Named /\ Served'
    BY <2>1, <2>4 DEF Named, Served
  <2>6. up' = Named \cup proc[w].nets /\ proc[w].nets \cap Named = {}
    BY <2>1, <2>3 DEF Undisturbed
  <2>7. Undisturbed(w)'
    BY <2>4, <2>5, <2>6 DEF Undisturbed
  <2> QED  BY <2>1, <2>4, <2>5, <2>7, CalmAfter
<1>6. CASE DenyDone(w)
  <2>1. Alone(w) /\ Undisturbed(w) /\ Served /\ proc[w].pc = "inspect" /\ proc[w].nets = {}
    BY <1>6, CalmBefore DEF DenyDone, At
  <2>2. /\ proc'[w].pc = "idle" /\ \A v \in Workers \ {w} : proc'[v] = proc[v]
        /\ UNCHANGED <<live, joined, up, rows>>
    BY <1>0, <1>6 DEF DenyDone, Finish, IdleProc
  <2>3. Named' = Named /\ Served'
    BY <2>1, <2>2 DEF Named, Served
  <2>4. Undisturbed(w)'
    BY <2>1, <2>2, <2>3 DEF Undisturbed
  <2> QED  BY <2>1, <2>2, <2>3, <2>4, CalmAfter
<1> QED  BY <1>1, <1>2, <1>3, <1>4, <1>5, <1>6 DEF Deny

LEMMA NextCalm == IInv /\ CalmInv /\ [Next]_vars => CalmInv'
<1> SUFFICES ASSUME IInv, CalmInv, [Next]_vars PROVE CalmInv'
  OBVIOUS
<1>1. ASSUME UNCHANGED <<live, joined, up, rows, proc, calm>>, running' \subseteq running
      PROVE  CalmInv'
  <2>1. Named' = Named /\ (Served <=> Served') /\ (calm <=> calm')
    BY <1>1 DEF Named, Served
  <2>2. ASSUME NEW w \in Workers, Undisturbed(w) PROVE Undisturbed(w)'
    <3>1. UserLevelNetworks(Owner[proc[w].c])' = UserLevelNetworks(Owner[proc[w].c])
      BY <1>1 DEF UserLevelNetworks
    <3> QED  BY <1>1, <2>1, <2>2, <3>1 DEF Undisturbed
  <2>3. \A w \in Workers : Alone(w)' <=> Alone(w)
    BY <1>1 DEF Alone, At
  <2>4. \A w \in Workers : At(w, "idle")' <=> At(w, "idle")
    BY <1>1 DEF At
  <2> QED  BY <1>1, <2>1, <2>2, <2>3, <2>4 DEF CalmInv
<1>2. ASSUME NEW c \in Containers, ContainerEnds(c) PROVE CalmInv'
  BY <1>1, <1>2 DEF ContainerEnds
<1>3. CASE UNCHANGED vars
  BY <1>1, <1>3 DEF vars
<1> QED  BY <1>2, <1>3, CreateCalm, AllowCalm, DenyCalm DEF Next

\* As long as nothing overlaps and no call fails, the state is the one the
\* worker at work has left.
THEOREM CalmInductive == Spec => []CalmInv
BY Inductive, InitCalm, NextCalm, PTL DEF Spec

\* Commands and creates that do not overlap and meet no failing call leave the
\* networks the table names and no other: a deny restores isolation
\* (DenyNetworkPeer), and an allow leaves a row for its network.
THEOREM CommandsKeepNetworksAndRows == Spec => []NetworksMatchRows
<1>1. CalmInv => NetworksMatchRows
  BY DEF CalmInv, NetworksMatchRows, Quiet, Named
<1> QED  BY <1>1, CalmInductive, PTL

\* Likewise every container of two peered users is attached to their network,
\* whether it was created before the allow or after it
\* (AllowNetworkPeer, connectContainerToPeerNetworks).
THEOREM CommandsConnectPeers == Spec => []PeersConnected
<1>1. CalmInv => PeersConnected
  BY DEF CalmInv, PeersConnected, Quiet, Served
<1> QED  BY <1>1, CalmInductive, PTL
=============================================================================
