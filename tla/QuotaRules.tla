----------------------------- MODULE QuotaRules -----------------------------
(***************************************************************************)
(* The arithmetic of internal/isolation/quota.go: the quota of a user, the *)
(* limits a request asks for, the check and the injection of limits into a *)
(* create request, the check of an update request.                         *)
(*                                                                         *)
(* Units: quotas count cores, requests count Core parts of a core (the     *)
(* code's 1e9 nanocpus); memory counts one unit for quotas and requests.   *)
(* 0 is "not given" in a request and "no limit" in a quota.                *)
(***************************************************************************)
EXTENDS Integers, Sequences

CONSTANTS
    Users,          \* the users that create containers
    GroupSeq,       \* [Users -> Seq(groups)]: GetUserGroups, in its order
    Core,           \* parts of a core in requests
    DefaultPeriod,  \* Docker's CpuPeriod
    NumCPU          \* runtime.NumCPU()

ASSUME UnitsAssumption ==
    /\ Core \in Nat \ {0} /\ DefaultPeriod \in Nat \ {0} /\ NumCPU \in Nat \ {0}
    /\ \A u \in Users : Len(GroupSeq[u]) \in Nat

Resources == {"cpu", "mem", "storage"}

(***************************************************************************)
(* A quota file: defaults, a record of all resources; entries of users and *)
(* groups, functions on the resources they name (a pointer that is nil in  *)
(* quotaEntryRaw is a resource outside the domain).                        *)
(***************************************************************************)
Nonnegative(entry) == \A f \in DOMAIN entry : entry[f] >= 0

\* LoadQuotaManager looks at the defaults, Reload at the users as well
ValidAtStart(cfg) == cfg.parses /\ Nonnegative(cfg.defaults)

\* the bug of a reload that looks at nothing but the syntax
ParsesOnly(cfg) == cfg.parses

ValidAtReload(cfg) ==
    /\ cfg.parses
    /\ Nonnegative(cfg.defaults)
    /\ \A u \in DOMAIN cfg.users : Nonnegative(cfg.users[u])

\* what any file that parses has: numbers, wherever it names a resource
Numeric(entry) == \A f \in Resources \cap DOMAIN entry : entry[f] \in Int
QuotaFile(cfg) ==
    /\ cfg.defaults \in [Resources -> Int]
    /\ \A u \in DOMAIN cfg.users : Numeric(cfg.users[u])
    /\ \A g \in DOMAIN cfg.groups : Numeric(cfg.groups[g])

\* DefaultQuotaManager
NoLimits == [parses |-> TRUE, defaults |-> [f \in Resources |-> 0],
             users |-> <<>>, groups |-> <<>>]

(***************************************************************************)
(* GetQuota: the defaults, raised (or lifted, by 0) by the groups in their *)
(* order, replaced by what the user's entry names.                         *)
(***************************************************************************)
Raised(q, entry) ==
    [f \in Resources |->
        IF f \in DOMAIN entry /\ (entry[f] = 0 \/ entry[f] > q[f]) THEN entry[f] ELSE q[f]]

EntryOf(entries, who) == IF who \in DOMAIN entries THEN entries[who] ELSE <<>>

\* the quota after the first n groups
RaisedByGroups(cfg, u) ==
    LET raised[n \in Nat] ==
            IF n = 0 THEN cfg.defaults
            ELSE Raised(raised[n - 1], EntryOf(cfg.groups, GroupSeq[u][n]))
    IN  raised

GetQuota(cfg, u) ==
    LET raised == RaisedByGroups(cfg, u)[Len(GroupSeq[u])]
        own == EntryOf(cfg.users, u)
    IN  [f \in Resources |-> IF f \in DOMAIN own THEN own[f] ELSE raised[f]]

(***************************************************************************)
(* Requests: [nano, quota, period, mem, size], where a size is a number    *)
(* and its unit.  An update has no size.                                   *)
(***************************************************************************)
effectiveCPUNanos(b) ==
    IF b.nano > 0 THEN b.nano
    ELSE IF b.quota > 0
      THEN (b.quota * Core) \div (IF b.period <= 0 THEN DefaultPeriod ELSE b.period)
      ELSE 0

parseStorageGB(size) ==
    CASE size.unit = "G" -> size.n
      [] size.unit = "T" -> size.n * 1024
      [] size.unit = "M" -> size.n \div 1024
      [] OTHER -> 0

NoSize == [n |-> 0, unit |-> "none"]

\* the daemon refuses negative nanocpus and periods; a negative CPU quota and a
\* negative memory pass the check and the daemon alike
Limits ==
    [nano : Nat, quota : Int, period : Nat, mem : Int,
     size : [n : Nat, unit : {"none", "M", "G", "T"}]]

Exceeds(asked, limit) == limit > 0 /\ asked > limit

\* limits of the machine, which the daemon checks for nanocpus only
ExceedsMachine(b) ==
    b.nano = 0 /\ b.quota > 0 /\ effectiveCPUNanos(b) > NumCPU * Core

WithinCPUAndMemory(b, q) ==
    /\ ~Exceeds(effectiveCPUNanos(b), q.cpu * Core)
    /\ ~ExceedsMachine(b)
    /\ ~Exceeds(b.mem, q.mem)

\* CheckAndInjectQuota without the count of containers (ContainerLifecycle)
CheckQuota(b, q) ==
    WithinCPUAndMemory(b, q) /\ ~Exceeds(parseStorageGB(b.size), q.storage)

CheckUpdateQuota(b, q) == WithinCPUAndMemory(b, q)

Min2(a, b) == IF a < b THEN a ELSE b

\* the bug of injecting the default whatever the user's quota is
DefaultOrQuota(default, limit) == IF default > 0 THEN default ELSE limit

\* what a resource that is not asked for is limited to
Base(default, limit) == IF default > 0 THEN Min2(default, limit) ELSE limit

injectQuotaLimits(b, q, default) ==
    [b EXCEPT
        !.nano = IF q.cpu > 0 /\ effectiveCPUNanos(b) = 0
                 THEN Base(default.cpu * Core, q.cpu * Core) ELSE @,
        !.mem = IF q.mem > 0 /\ @ = 0 THEN Base(default.mem, q.mem) ELSE @,
        !.size = IF q.storage > 0 /\ @ = NoSize THEN [n |-> q.storage, unit |-> "G"] ELSE @]
=============================================================================
