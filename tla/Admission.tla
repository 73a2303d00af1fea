------------------------------ MODULE Admission ------------------------------
(***************************************************************************)
(* How a request gets past the proxy: connections and the identity of      *)
(* their process (startUserListener, StartTCPListener, identity.go), and   *)
(* the steps of ServeHTTP and handleHijack up to the daemon: the slot, the *)
(* identity, the check that the process is still the one that connected,   *)
(* the privilege and the deny rules of the policy in force.  The policy is *)
(* replaced (UpdatePolicy) and processes change their uids or exit at any  *)
(* of these steps.                                                         *)
(***************************************************************************)
EXTENDS Policy, Naturals, FiniteSets

CONSTANTS
    Conns,          \* connections; one carries one request at a time
    ClientsOf,      \* [Conns -> sets of clients]: who may open it
    ChangesOf,      \* [Conns -> sets of uid pairs]: what its process may become
    CallsOf,        \* [Conns -> SUBSET Calls]: the requests sent on it
    Configs,        \* the policy files that are ever loaded
    MaxShort,       \* max-concurrent: slots of short requests
    MaxStreams,     \* max-concurrent-streams: slots of streams
    NoUid           \* a uid that is not set

ASSUME SlotsAssumption == MaxShort \in Nat \ {0} /\ MaxStreams \in Nat \ {0}

\* a command line names a command docker knows, or none
ASSUME ClientsAssumption ==
    /\ IsFiniteSet(Conns) /\ NoUid \notin Uids
    /\ \A c \in Conns : \A k \in ClientsOf[c] :
           k.cmd \in {NoCommand} \cup DOMAIN cmdTargetActions

VARIABLES
    policy,     \* ProxyServer.policy
    conn,       \* [Conns -> connection record]
    req,        \* [Conns -> request record]
    short,      \* len(semaphore)
    stream,     \* len(streamSemaphore)
    seen,       \* history: the policies in force from the arrival of the request
                \* until it went to the daemon
    was         \* history: the uids its process had in that time

vars == <<policy, conn, req, short, stream, seen, was>>

Policies == {Resolve(cfg) : cfg \in Configs}

(***************************************************************************)
(* A client: the real and the effective uid of its process, the uid it     *)
(* logged in with, the SUDO_UID of its environment, the uid its token or   *)
(* certificate names, its docker command.  Tcp is in the place of the      *)
(* process of a client of the TCP listener.                                *)
(***************************************************************************)
Tcp == [r |-> NoUid, e |-> NoUid]
Exited == [gone |-> TRUE]

NoIdentity == [uid |-> NoUid]
UserTypes == {"root", "sudo", "regular"}
IdentitySet ==
    [uid : Uids, type : UserTypes, euid : Uids, hasPid : BOOLEAN,
     cmd : {NoCommand} \cup DOMAIN cmdTargetActions, config : BOOLEAN]

CallerOf(type, uid, euid, cmd) ==
    [uid |-> uid, type |-> type, euid |-> euid, hasPid |-> TRUE,
     cmd |-> cmd, config |-> FALSE]

\* the identity as the modules of the resources take it
AsCaller(id) ==
    [uid |-> id.uid,
     mode |-> IF id.type = "sudo" THEN "sudo"
              ELSE IF id.config /\ id.uid # RootUid THEN "config" ELSE "regular"]

(***************************************************************************)
(* ResolveCallerIdentity, from the effective uid the socket recorded and   *)
(* from what /proc says now.  A process that has exited has no loginuid,   *)
(* no environment and no command line to read.                             *)
(***************************************************************************)
SudoFrom(uid, cmd) ==
    IF uid \in Uids THEN CallerOf("sudo", uid, RootUid, cmd) ELSE NoIdentity

ResolveRoot(login, sudoUid, proc, cmd) ==
    IF login \notin {NoUid, RootUid} THEN SudoFrom(login, cmd)
    ELSE IF sudoUid \notin {NoUid, RootUid} THEN SudoFrom(sudoUid, cmd)
    ELSE IF proc # Exited /\ proc.r # RootUid THEN SudoFrom(proc.r, cmd)
    ELSE CallerOf("root", RootUid, RootUid, cmd)

ResolveCallerIdentity(client, proc) ==
    LET gone == proc = Exited
        login == IF gone THEN NoUid ELSE client.login
        sudoUid == IF gone THEN NoUid ELSE client.sudo
        cmd == IF gone THEN NoCommand ELSE client.cmd
    IN  IF (~gone /\ proc.e # client.e) \/ login \notin Uids \cup {NoUid}
          THEN NoIdentity
        ELSE IF client.e = RootUid THEN ResolveRoot(login, sudoUid, proc, cmd)
        ELSE IF client.e \in Uids THEN CallerOf("regular", client.e, client.e, cmd)
        ELSE NoIdentity

\* the bug of looking at the effective uid only when the client connects
VerifyRealOnly(id, proc) ==
    \/ ~id.hasPid \/ proc = Exited
    \/ proc.r = IF id.type = "sudo" THEN id.euid ELSE id.uid

VerifyIdentityAtRequest(id, proc) ==
    \/ ~id.hasPid \/ proc = Exited
    \/ /\ proc.r = IF id.type = "sudo" THEN id.euid ELSE id.uid
       /\ proc.e = id.euid

\* an identity of a token, whose uid is taken as it comes
TrustToken(client) ==
    [uid |-> client.token, euid |-> client.token, hasPid |-> FALSE,
     type |-> IF client.token = RootUid THEN "root" ELSE "regular",
     cmd |-> NoCommand, config |-> FALSE]

\* what the JWT or mTLS authenticator makes of the client's credentials
Authenticate(client) ==
    IF client.token \in Uids THEN TrustToken(client) ELSE NoIdentity

(***************************************************************************)
(* Connections.                                                            *)
(***************************************************************************)
Closed == [at |-> "closed"]
Idle == [at |-> "idle"]

Init ==
    /\ policy \in Policies
    /\ conn = [c \in Conns |-> Closed]
    /\ req = [c \in Conns |-> Idle]
    /\ short = 0
    /\ stream = 0
    /\ seen = [c \in Conns |-> {}]
    /\ was = [c \in Conns |-> {}]

\* connect(2): the kernel notes the effective uid of the client
Connect(c) ==
    /\ conn[c] = Closed
    /\ \E k \in ClientsOf[c] :
           conn' = [conn EXCEPT ![c] =
               [at |-> "dialled", client |-> k, proc |-> [r |-> k.r, e |-> k.e],
                id |-> NoIdentity]]
    /\ UNCHANGED <<policy, req, short, stream, seen, was>>

\* ConnContext of the two listeners
Accept(c) ==
    /\ conn[c].at = "dialled"
    /\ conn' = [conn EXCEPT ![c].at = "open",
           ![c].id = IF conn[c].proc = Tcp THEN NoIdentity
                     ELSE ResolveCallerIdentity(conn[c].client, conn[c].proc)]
    /\ UNCHANGED <<policy, req, short, stream, seen, was>>

Disconnect(c) ==
    /\ conn[c].at = "open" /\ req[c] = Idle
    /\ conn' = [conn EXCEPT ![c] = Closed]
    /\ UNCHANGED <<policy, req, short, stream, seen, was>>

\* the request is on its way through the proxy
Pending(c) == req[c].at \notin {"idle", "upstream"}

\* The process sets its uids, executes a set-uid program, or exits.
ProcessChanges(c) ==
    /\ conn[c].at # "closed" /\ conn[c].proc \notin {Tcp, Exited}
    /\ \E p \in ChangesOf[c] \cup {Exited} :
           /\ p # conn[c].proc
           /\ conn' = [conn EXCEPT ![c].proc = p]
           /\ was' = [was EXCEPT ![c] = IF Pending(c) THEN @ \cup {p} ELSE @]
    /\ UNCHANGED <<policy, req, short, stream, seen>>

\* ticker or signal: main.go hands over a policy it has loaded
UpdatePolicy ==
    /\ \E p \in Policies \ {policy} :
           /\ policy' = p
           /\ seen' = [c \in Conns |-> IF Pending(c) THEN seen[c] \cup {p} ELSE seen[c]]
    /\ UNCHANGED <<conn, req, short, stream, was>>

(***************************************************************************)
(* Requests.  A slot is taken from one of two pools, without waiting, and  *)
(* is given back when ServeHTTP returns.                                   *)
(***************************************************************************)
TakesStream(call) == isHijackRequest(call) \/ isLongLivedRequest(call.path)

Release(c) ==
    /\ req' = [req EXCEPT ![c] = Idle]
    /\ IF TakesStream(req[c].call)
         THEN stream' = stream - 1 /\ UNCHANGED short
         ELSE short' = short - 1 /\ UNCHANGED stream
    /\ seen' = [seen EXCEPT ![c] = {}]
    /\ was' = [was EXCEPT ![c] = {}]

Enter(c, call) ==
    /\ req' = [req EXCEPT ![c] =
           [at |-> "arrived", call |-> call, id |-> conn[c].id]]
    /\ seen' = [seen EXCEPT ![c] = {policy}]
    /\ was' = [was EXCEPT ![c] = {conn[c].proc}]
    /\ UNCHANGED <<policy, conn>>

ShortRequest(c, call) ==
    /\ ~TakesStream(call)
    /\ short < MaxShort
    /\ short' = short + 1
    /\ UNCHANGED stream
    /\ Enter(c, call)

StreamRequest(c, call) ==
    /\ TakesStream(call)
    /\ stream < MaxStreams
    /\ stream' = stream + 1
    /\ UNCHANGED short
    /\ Enter(c, call)

\* 503: the pool is empty and the request is turned away at once
Busy(call) ==
    /\ IF TakesStream(call) THEN stream = MaxStreams ELSE short = MaxShort
    /\ UNCHANGED vars

Request(c) ==
    /\ conn[c].at = "open" /\ req[c] = Idle
    /\ \E call \in CallsOf[c] :
           ShortRequest(c, call) \/ StreamRequest(c, call) \/ Busy(call)

\* Without an identity the authenticators are asked (401); an identity of a
\* process is compared with the process (403).
Identify(c) ==
    /\ req[c].at = "arrived"
    /\ LET id == IF req[c].id # NoIdentity THEN req[c].id
                 ELSE Authenticate(conn[c].client)
       IN  IF id # NoIdentity /\ VerifyIdentityAtRequest(id, conn[c].proc)
             THEN /\ req' = [req EXCEPT ![c].at = "verified", ![c].id = id]
                  /\ UNCHANGED <<short, stream, seen, was>>
             ELSE Release(c)
    /\ UNCHANGED <<policy, conn>>

Marked(c, config) ==
    /\ req[c].at = "verified"
    /\ req' = [req EXCEPT ![c].at = "marked", ![c].id.config = config]
    /\ conn' = IF conn[c].id = NoIdentity THEN conn
               ELSE [conn EXCEPT ![c].id.config = config]
    /\ UNCHANGED <<policy, short, stream, seen, was>>

\* the bug of adding the privilege to the identity of the connection
StickyMark(c) ==
    Marked(c, req[c].id.config \/ IsConfigPrivileged(policy, req[c].id.uid))

\* ConfigPrivileged is assigned from the policy in force; names are rewritten
\* here for callers who are not privileged.
Mark(c) == Marked(c, IsConfigPrivileged(policy, req[c].id.uid))

Refused(c, action) ==
    /\ ~isAuxiliaryCall(req[c].id.cmd, action, req[c].call.path)
    /\ IsDenied(policy, req[c].id.uid, action)

CheckPolicy(c) ==
    /\ req[c].at = "marked"
    /\ LET hijack == isHijackRequest(req[c].call)
           class == ClassifyAction(req[c].call.path)
           action == IF hijack THEN class
                     ELSE OverrideActionByCommand(req[c].id.cmd, class)
       IN  IF Refused(c, action) THEN Release(c)
           ELSE /\ req' = [req EXCEPT ![c].at = IF hijack THEN "hijack" ELSE "checked"]
                /\ UNCHANGED <<short, stream, seen, was>>
    /\ UNCHANGED <<policy, conn>>

\* handleHijack asks the policy again; its refusal closes the connection
CheckHijack(c) ==
    /\ req[c].at = "hijack"
    /\ LET action == OverrideActionByCommand(req[c].id.cmd, ClassifyAction(req[c].call.path))
       IN  IF Refused(c, action)
             THEN Release(c) /\ conn' = [conn EXCEPT ![c] = Closed]
             ELSE /\ req' = [req EXCEPT ![c].at = "checked"]
                  /\ UNCHANGED <<conn, short, stream, seen, was>>
    /\ UNCHANGED policy

\* checkOwnershipPreRequest and preprocessRequest, the subject of the modules
\* of the resources, turn the request away or let it through to the daemon
Dispatch(c) ==
    /\ req[c].at = "checked"
    /\ \/ Release(c)
       \/ /\ req' = [req EXCEPT ![c].at = "upstream"]
          /\ UNCHANGED <<short, stream, seen, was>>
    /\ UNCHANGED <<policy, conn>>

\* The daemon's answer ends, or the transport fails; a connection that was
\* taken over is closed.
Finish(c) ==
    /\ req[c].at = "upstream"
    /\ Release(c)
    /\ conn' = IF isHijackRequest(req[c].call) THEN [conn EXCEPT ![c] = Closed] ELSE conn
    /\ UNCHANGED policy

\* The client goes: the context of a forwarded request is cancelled.  A
\* connection that was taken over waits for the daemon to end its side.
ClientLeaves(c) ==
    /\ req[c].at = "upstream" /\ ~isHijackRequest(req[c].call)
    /\ Release(c)
    /\ conn' = [conn EXCEPT ![c] = Closed]
    /\ UNCHANGED policy

Step(c) ==
    \/ Identify(c) \/ Mark(c) \/ CheckPolicy(c) \/ CheckHijack(c) \/ Dispatch(c)

Next ==
    \/ UpdatePolicy
    \/ \E c \in Conns :
           \/ Connect(c) \/ Accept(c) \/ Disconnect(c) \/ ProcessChanges(c)
           \/ Request(c) \/ Step(c) \/ Finish(c) \/ ClientLeaves(c)

Spec == Init /\ [][Next]_vars

(***************************************************************************)
(* Fairness: a handler that can go on does, and the daemon ends every      *)
(* answer but the open-ended ones, which last as long as a container, a    *)
(* user or a subscription does (the transport gives up on a daemon that    *)
(* does not answer at all).                                                *)
(***************************************************************************)
OpenEnded(call) ==
    \/ call.upgrade
    \/ call.path \in {"containers/wait", "containers/logs", "containers/stats",
                     "containers/attach", "exec/start", "events"}

Answer(c) == req[c].at = "upstream" /\ ~OpenEnded(req[c].call) /\ Finish(c)

FairSpec ==
    Spec /\ \A c \in Conns : WF_vars(Step(c)) /\ WF_vars(Answer(c))

-----------------------------------------------------------------------------
(***************************************************************************)
(* Properties.                                                             *)
(***************************************************************************)
\* the requests that hold a slot of one of the pools
PoolOf(call) == IF TakesStream(call) THEN "stream" ELSE "short"
Holders(pool) == {c \in Conns : req[c] # Idle /\ PoolOf(req[c].call) = pool}

\* Types of the state; the callers the admission lets through are callers of
\* the other modules, and the pools hold what the requests under way took.
TypeOK ==
    /\ policy \in Policies
    /\ \A c \in Conns :
           /\ conn[c].at \in {"closed", "dialled", "open"}
           /\ req[c].at \in {"idle", "arrived", "verified", "marked", "hijack",
                             "checked", "upstream"}
           /\ req[c].at \notin {"idle", "arrived"} =>
                  req[c].id \in IdentitySet /\ AsCaller(req[c].id) \in Identities
    /\ short \in 0..MaxShort /\ short = Cardinality(Holders("short"))
    /\ stream \in 0..MaxStreams /\ stream = Cardinality(Holders("stream"))

\* A request reaches the daemon as the policies in force since it arrived
\* allow: with the configured privilege only if one of them grants it to its
\* user, and only if one of them does not deny its action (or it is a
\* by-product of its command).  A grant revoked before the request arrived,
\* on a connection that once had it, counts for nothing
\* (proxy.go:598, "the next request falls back at once").
PolicyGoverns ==
    \A c \in Conns : req[c].at = "upstream" =>
        LET id == req[c].id
            action == OverrideActionByCommand(id.cmd, ClassifyAction(req[c].call.path))
        IN  /\ id.config => \E p \in seen[c] : IsConfigPrivileged(p, id.uid)
            /\ \/ isAuxiliaryCall(id.cmd, action, req[c].call.path)
               \/ \E p \in seen[c] : ~IsDenied(p, id.uid, action)

\* A request reaches the daemon under the effective uid its process had at
\* some moment since the request arrived (unless the process was gone), and a
\* regular user's also under its real uid: a process that connected as one
\* user and became another before it sent the request is not served.
ServedAsItself ==
    \A c \in Conns : req[c].at = "upstream" /\ req[c].id.hasPid =>
        \E p \in was[c] :
            \/ p = Exited
            \/ /\ p.e = req[c].id.euid
               /\ req[c].id.type = "regular" => p.r = req[c].id.uid

\* "docker wait" and the wait of "docker run": the daemon answers when the
\* container stops, and isLongLivedRequest does not know it
Waiting == {c \in Holders("short") :
                req[c].at = "upstream" /\ req[c].call.path = "containers/wait"}

\* The pool of short requests does not stay exhausted unless a "wait" holds one
\* of its slots: the streams, however long they last, take none of them, and
\* everything else that does is answered.  proxy.go:499 promises it of every
\* request that lasts ("so that long connections do not use up the slots of
\* short commands"); a wait is the one it does not hold for.
ShortSlotsFreed == short = MaxShort ~> short < MaxShort \/ Waiting # {}
=============================================================================
