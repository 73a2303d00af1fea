------------------------------- MODULE Policy -------------------------------
(***************************************************************************)
(* The authorisation policy of internal/authz/policy.go and the tests that *)
(* forward/proxy.go makes with it: what a request is called (its action),  *)
(* which requests are only by-products of the docker command that sends    *)
(* them, who is denied an action and who is privileged by configuration.   *)
(*                                                                         *)
(* Names and uids are the same values: a name that /etc/passwd does not    *)
(* know is one that is not in Uids.                                        *)
(***************************************************************************)
EXTENDS CallerIdentity

CONSTANTS
    Gids,           \* the groups /etc/group knows
    GroupsOf        \* [Uids -> SUBSET Gids]: GetUserGroups

ASSUME GroupsAssumption == GroupsOf \in [Uids -> SUBSET Gids]

(***************************************************************************)
(* Requests: a path and whether the headers ask for an upgrade.  The paths *)
(* stand for the endpoints of ClassifyAction that the admission rules tell *)
(* apart.  Attach, exec/start and every request with an upgrade take over  *)
(* the connection, the long-lived ones stream their answer.                *)
(***************************************************************************)
Paths == {"_ping", "info", "containers/json", "containers/create",
          "containers/start", "containers/stop", "containers/kill",
          "containers/wait", "containers/inspect", "containers/logs",
          "containers/stats", "containers/attach", "exec/start", "images/create",
          "grpc", "events"}

ClassifyAction(path) ==
    CASE path = "containers/json" -> "ps"
      [] path = "containers/create" -> "create_container"
      [] path = "containers/start" -> "start"
      [] path = "containers/stop" -> "stop"
      [] path = "containers/kill" -> "kill"
      [] path = "containers/wait" -> "wait"
      [] path = "containers/inspect" -> "inspect"
      [] path \in {"containers/logs", "containers/stats"} -> "logs"
      [] path = "containers/attach" -> "attach"
      [] path = "exec/start" -> "exec"
      [] path = "images/create" -> "pull"
      [] path = "grpc" -> "build"
      [] path = "info" -> "info"
      [] path = "events" -> "events"
      [] OTHER -> "other"

\* "docker port" and "docker inspect" call the same endpoint: the command
\* gives the first an action of its own
OverrideActionByCommand(cmd, action) == IF cmd = "port" THEN "port" ELSE action

\* upgrade: "Upgrade: tcp", or "upgrade" among the values of Connection
Calls == [path : Paths, upgrade : BOOLEAN]

isHijackRequest(call) ==
    call.upgrade \/ call.path \in {"containers/attach", "exec/start"}

\* the bug of a list of streams without the statistics
NoStatsLongLived(path) == path \in {"events", "containers/logs"}

\* the logs and the statistics of Paths are the followed ones
isLongLivedRequest(path) ==
    path \in {"events", "containers/stats", "containers/logs"}

(***************************************************************************)
(* isAuxiliaryCall: a request that its docker command makes on the side is *)
(* not checked against the deny rules.  The actions a command is there for *)
(* are its targets; NoCommand is a client whose command line names none.   *)
(***************************************************************************)
NoCommand == ""

cmdTargetActions ==
    [run     |-> {"pull", "create_container", "start", "rm"},
     create  |-> {"create_container"},
     start   |-> {"start"},
     stop    |-> {"stop"},
     kill    |-> {"kill"},
     wait    |-> {"wait"},
     exec    |-> {"exec"},
     attach  |-> {"attach"},
     logs    |-> {"logs"},
     stats   |-> {"logs"},
     ps      |-> {"ps"},
     inspect |-> {"inspect"},
     port    |-> {"port"},
     pull    |-> {"pull"},
     build   |-> {"build"},
     info    |-> {"info"},
     events  |-> {"events"}]

isAuxiliaryCall(cmd, action, path) ==
    \/ path = "_ping"
    \/ action = "info" /\ cmd # "info"
    \/ /\ cmd \in DOMAIN cmdTargetActions
       /\ action \notin cmdTargetActions[cmd]

(***************************************************************************)
(* The policy file: users privileged by name, and rules that deny actions  *)
(* to users and groups.  resolve() replaces the aliases of actions, drops  *)
(* the names nobody knows and the rules that are left with no subject.     *)
(***************************************************************************)
ExpandAlias(a) ==
    CASE a = "run" -> {"create_container", "start"}
      [] a = "stop" -> {"stop", "kill"}
      [] OTHER -> {a}

ResolveRule(rule) ==
    [uids |-> rule.users \cap Uids,
     gids |-> rule.groups \cap Gids,
     actions |-> UNION {ExpandAlias(a) : a \in rule.actions}]

Resolve(config) ==
    [priv |-> config.priv \cap Uids,
     rules |-> {r \in {ResolveRule(rule) : rule \in config.rules} :
                    r.uids # {} \/ r.gids # {}}]

IsConfigPrivileged(policy, uid) == uid \in policy.priv

IsDenied(policy, uid, action) ==
    \E r \in policy.rules :
        /\ action \in r.actions
        /\ uid \in r.uids \/ r.gids \cap GroupsOf[uid] # {}
=============================================================================
