------------------------------- MODULE Quotas -------------------------------
(***************************************************************************)
(* Containers and their limits while the quota file is reloaded: the quota *)
(* stages of a create and of an update request (checkOwnershipPreRequest), *)
(* and what the daemon makes of the request that is let through.           *)
(***************************************************************************)
EXTENDS ConfigReload

CONSTANTS
    Bodies,     \* the limits create requests ask for
    Updates,    \* the limits update requests ask for
    MaxUpdates, \* bound: updates of one container
    EditsApart  \* bound: whether the policy file is only edited while there is no
                \* container, and requests only begin before it is

ASSUME RequestsAssumption ==
    /\ Bodies \subseteq Limits /\ Updates \subseteq Limits
    /\ MaxUpdates \in Nat /\ EditsApart \in BOOLEAN

VARIABLES
    req,        \* the request under way
    box,        \* [Users -> the user's container: its limits]
    during      \* history: the quota files in force since the request began

vars == <<req, box, during, reloadVars>>

NoReq == [at |-> "idle"]

\* A container: its limits, the quota files in force while the request that
\* set its CPU and its memory was served, whether these were whole (see
\* LimitsWithinQuota), and the updates it had.
NoBox == [live |-> FALSE]
Boxes ==
    [live : {TRUE}, nano : Nat, quota : Int, period : Nat, mem : Int,
     cpuUnder : SUBSET (QuotaConfigs \cup {NoLimits}),
     memUnder : SUBSET (QuotaConfigs \cup {NoLimits}),
     cpuWhole : BOOLEAN, memWhole : BOOLEAN, updates : 0..MaxUpdates]

Init ==
    /\ ReloadInit
    /\ req = NoReq
    /\ box = [u \in Users |-> NoBox]
    /\ during = {}

Begin(u, op, b) ==
    /\ req = NoReq
    /\ EditsApart => policyFile.ver = 0
    /\ req' = [at |-> "asked", op |-> op, user |-> u, body |-> b,
               quota |-> NoLimits.defaults, default |-> NoLimits.defaults]
    /\ during' = {quota}
    /\ UNCHANGED <<box, reloadVars>>

Create == \E u \in Users, b \in Bodies : ~box[u].live /\ Begin(u, "create", b)

Update ==
    \E u \in Users, b \in Updates :
        box[u].live /\ box[u].updates < MaxUpdates /\ Begin(u, "update", b)

\* GetQuota takes the lock, GetDefaultQuota takes it again
ReadUserQuota ==
    /\ req.at = "asked"
    /\ req' = [req EXCEPT !.quota = GetQuota(quota, req.user),
                          !.at = IF req.op = "create" THEN "quota" ELSE "ready"]
    /\ UNCHANGED <<box, during, reloadVars>>

ReadDefaultQuota ==
    /\ req.at = "quota"
    /\ req' = [req EXCEPT !.default = quota.defaults, !.at = "ready"]
    /\ UNCHANGED <<box, during, reloadVars>>

Passes ==
    IF req.op = "create" THEN CheckQuota(req.body, req.quota)
    ELSE CheckUpdateQuota(req.body, req.quota)

\* 403, or the body with the limits that were not asked for
CheckRequest ==
    /\ req.at = "ready"
    /\ req' = IF ~Passes THEN NoReq
              ELSE [req EXCEPT !.at = "forward",
                        !.body = IF req.op = "create"
                                 THEN injectQuotaLimits(@, req.quota, req.default) ELSE @]
    /\ during' = IF Passes THEN during ELSE {}
    /\ UNCHANGED <<box, reloadVars>>

Answered ==
    /\ req' = NoReq
    /\ during' = {}
    /\ UNCHANGED reloadVars

\* The daemon: nanocpus exclude a CPU quota or period, and fit the machine.
Accepted(nano, q, period) == nano > 0 => q <= 0 /\ period = 0 /\ nano <= NumCPU * Core

DaemonCreates ==
    /\ req.at = "forward" /\ req.op = "create"
    /\ LET b == req.body
       IN  box' = IF ~Accepted(b.nano, b.quota, b.period) THEN box
                  ELSE [box EXCEPT ![req.user] =
                            [live |-> TRUE, nano |-> b.nano, quota |-> b.quota,
                             period |-> b.period, mem |-> b.mem,
                             cpuUnder |-> during, memUnder |-> during,
                             cpuWhole |-> b.quota >= 0, memWhole |-> b.mem >= 0,
                             updates |-> 0]]
    /\ Answered

\* An update that names a CPU quota names its period, and amounts to something.
Whole(b) ==
    /\ b.quota >= 0
    /\ b.quota > 0 <=> b.period > 0
    /\ b.quota > 0 => effectiveCPUNanos(b) > 0

\* The fields an update names are replaced, the others stay.
Updated(old, b) ==
    LET new(f) == IF b[f] # 0 THEN b[f] ELSE old[f]
        cpu == b.nano # 0 \/ b.quota # 0 \/ b.period # 0
    IN  [old EXCEPT !.nano = new("nano"), !.quota = new("quota"),
                    !.period = new("period"), !.mem = new("mem"),
                    !.cpuUnder = IF cpu THEN during ELSE @,
                    !.memUnder = IF b.mem # 0 THEN during ELSE @,
                    !.cpuWhole = Whole(b) /\ (b.quota > 0 \/ @),
                    !.memWhole = b.mem > 0 \/ (b.mem = 0 /\ @),
                    !.updates = @ + 1]

DaemonUpdates ==
    /\ req.at = "forward" /\ req.op = "update"
    /\ LET new == Updated(box[req.user], req.body)
       IN  box' = IF Accepted(new.nano, new.quota, new.period)
                  THEN [box EXCEPT ![req.user] = new] ELSE box
    /\ Answered

RemoveBox ==
    /\ req = NoReq
    /\ \E u \in Users : box[u].live /\ box' = [box EXCEPT ![u] = NoBox]
    /\ UNCHANGED <<req, during, reloadVars>>

Reload ==
    /\ ReloadNext
    /\ EditsApart /\ policyFile' # policyFile =>
           req = NoReq /\ \A u \in Users : ~box[u].live
    /\ during' = IF req = NoReq THEN {} ELSE during \cup {quota'}
    /\ UNCHANGED <<req, box>>

Next ==
    \/ Reload \/ Create \/ Update \/ RemoveBox
    \/ ReadUserQuota \/ ReadDefaultQuota \/ CheckRequest
    \/ DaemonCreates \/ DaemonUpdates

Spec == Init /\ [][Next]_vars

\* The ticker ticks, and a reload that has begun goes on; a reload step leaves
\* the requests where they are.
FairSpec ==
    /\ Spec
    /\ WF_vars(Watch /\ Reload)
    /\ WF_vars(Tick /\ Reload)
    /\ \A l \in Loaders : WF_vars(ReloadStep(l) /\ Reload)

-----------------------------------------------------------------------------
\* Types of the state; the defaults in force are never negative, so that a
\* slip in the file cannot switch them off (quota.go:398).
TypeOK ==
    /\ ReloadTypeOK
    /\ Nonnegative(quota.defaults)
    /\ \A u \in Users : box[u] = NoBox \/ box[u] \in Boxes
    /\ req.at \in {"idle", "asked", "quota", "ready", "forward"}

\* The CPU of a container, in parts of a core; the kernel's reading of quota
\* and period, of which nanocpus are a way to write.  A negative quota, like a
\* negative memory, is no limit.
CPUOf(c) ==
    IF c.quota < 0 THEN 0
    ELSE IF c.nano > 0 THEN c.nano
    ELSE IF c.quota > 0
      THEN (c.quota * Core) \div (IF c.period > 0 THEN c.period ELSE DefaultPeriod)
      ELSE 0

Limited(value, limit) == limit > 0 => value \in 1..limit

\* The CPU and the memory of a container stay within the quota its user had
\* while the request that last set them was served, with every other setting
\* the container has: under a reload between the two reads of the quota, with
\* a default above the user's quota, and after any updates (proxy.go:1018,
\* 1247).  Except where the check and the daemon read a request differently: a
\* negative CPU quota or memory is "not given" to the one and "no limit" to the
\* other, and of an update that names a CPU quota without its period, or the
\* period alone, the check does not know the part that stays.  A whole update
\* ends such an exception.
LimitsWithinQuota ==
    \A u \in Users : box[u].live =>
        /\ box[u].cpuWhole =>
               \E cfg \in box[u].cpuUnder : Limited(CPUOf(box[u]), GetQuota(cfg, u).cpu * Core)
        /\ box[u].memWhole =>
               \E cfg \in box[u].memUnder : Limited(box[u].mem, GetQuota(cfg, u).mem)
=============================================================================
