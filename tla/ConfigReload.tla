---------------------------- MODULE ConfigReload ----------------------------
(***************************************************************************)
(* How main.go puts the policy and the quota file into force: at start, by *)
(* a ticker that watches their modification times, and on SIGHUP.  The two *)
(* reloaders are goroutines of their own; each reads a file and installs   *)
(* what it read in two steps, and either file may be edited in between.    *)
(*                                                                         *)
(* A policy is known by the version of the file it was loaded from; what   *)
(* it says is the subject of Policy.  A version is a modification time.    *)
(* The ticker runs only if the policy file is there at start, and a round  *)
(* looks at the quota file only if it is there then: os.Stat goes first.   *)
(***************************************************************************)
EXTENDS QuotaRules

CONSTANTS
    QuotaConfigs,   \* contents of the quota file
    MaxPolicyEdits, \* bound: edits of the policy file
    MaxQuotaEdits   \* bound: edits of the quota file

ASSUME FilesAssumption ==
    /\ \A cfg \in QuotaConfigs : QuotaFile(cfg)
    /\ MaxPolicyEdits \in Nat /\ MaxQuotaEdits \in Nat

VARIABLES
    policyFile,     \* [ver, is]: the file, "good", "broken" or "missing"
    policy,         \* the version in force; AllowAll if there is none
    quotaFile,      \* [ver, cfg]
    quota,          \* QuotaManager: the content in force
    lastModTime,    \* of the ticker: the policy file it has seen
    lastQuotaModTime,
    loader,         \* [Loaders -> where it is and what it has read]
    phase,          \* "loaded", then "watching", or "unwatched" without a ticker
    signalled,      \* history: SIGHUP came after the last edit of the policy file
    raced           \* history: the latest edit of a file fell between a read
                    \* and the installation of what was read (see Edit)

reloadVars == <<policyFile, policy, quotaFile, quota, lastModTime,
                lastQuotaModTime, loader, phase, signalled, raced>>

Loaders == {"ticker", "hup"}
AllowAll == -1      \* DefaultAllowPolicy
PolicyStates == {"good", "broken", "missing"}

\* os.Stat finds the policy file
Found == policyFile.is # "missing"

ReloadTypeOK ==
    /\ policyFile \in [ver : 0..MaxPolicyEdits, is : PolicyStates]
    /\ policy \in 0..MaxPolicyEdits \cup {AllowAll}
    /\ quotaFile \in [ver : 0..MaxQuotaEdits, cfg : QuotaConfigs]
    /\ quota \in QuotaConfigs \cup {NoLimits}
    /\ lastModTime \in 0..MaxPolicyEdits /\ lastQuotaModTime \in 0..MaxQuotaEdits
    /\ phase \in {"loaded", "watching", "unwatched"}
    /\ signalled \in BOOLEAN
    /\ raced \in [policy : BOOLEAN, quota : BOOLEAN]

(***************************************************************************)
(* Start: both files are loaded, or their defaults taken; the modification *)
(* times are read later, when the sockets are open.                        *)
(***************************************************************************)
ReloadInit ==
    /\ policyFile \in [ver : {0}, is : PolicyStates]
    /\ policy = IF policyFile.is = "good" THEN 0 ELSE AllowAll
    /\ quotaFile \in [ver : {0}, cfg : QuotaConfigs]
    /\ quota = IF ValidAtStart(quotaFile.cfg) THEN quotaFile.cfg ELSE NoLimits
    /\ lastModTime = 0
    /\ lastQuotaModTime = 0
    /\ loader = [l \in Loaders |-> [at |-> "idle", policy |-> AllowAll, quota |-> NoLimits]]
    /\ phase = "loaded"
    /\ signalled = FALSE
    /\ raced = [policy |-> FALSE, quota |-> FALSE]

\* without a policy file there is no ticker, for the quota file either
Watch ==
    /\ phase = "loaded"
    /\ phase' = IF Found THEN "watching" ELSE "unwatched"
    /\ lastModTime' = IF Found THEN policyFile.ver ELSE lastModTime
    /\ lastQuotaModTime' = quotaFile.ver
    /\ UNCHANGED <<policyFile, policy, quotaFile, quota, loader, signalled, raced>>

\* The administrator saves or removes a file.  An edit that the start has not seen, or
\* that finds the signal handler with an older content in its hands, is noted.
EditPolicy ==
    /\ policyFile.ver < MaxPolicyEdits
    /\ \E is \in PolicyStates : policyFile' = [ver |-> policyFile.ver + 1, is |-> is]
    /\ signalled' = FALSE
    /\ raced' = [raced EXCEPT !.policy =
           phase = "loaded" \/ loader["hup"].at = "install"]
    /\ UNCHANGED <<policy, quotaFile, quota, lastModTime, lastQuotaModTime, loader, phase>>

EditQuota ==
    /\ quotaFile.ver < MaxQuotaEdits
    /\ \E cfg \in QuotaConfigs \ {quotaFile.cfg} :
           quotaFile' = [ver |-> quotaFile.ver + 1, cfg |-> cfg]
    /\ raced' = [raced EXCEPT !.quota =
           phase = "loaded" \/ loader["hup"].at = "swap"]
    /\ UNCHANGED <<policyFile, policy, quota, lastModTime, lastQuotaModTime, loader,
                   phase, signalled>>

(***************************************************************************)
(* The steps of a reload.                                                  *)
(***************************************************************************)
Goto(l, at) == loader' = [loader EXCEPT ![l].at = at]

\* the ticker looks at the modification time and notes it before it loads; a
\* round that does not find the policy file does nothing
Tick ==
    /\ phase = "watching" /\ loader["ticker"].at = "idle"
    /\ Found
    /\ lastModTime' = policyFile.ver
    /\ Goto("ticker", IF policyFile.ver > lastModTime THEN "load" ELSE "stat")
    /\ UNCHANGED <<policyFile, policy, quotaFile, quota, lastQuotaModTime, phase, signalled, raced>>

Signal ==
    /\ phase # "loaded" /\ loader["hup"].at = "idle"
    /\ Goto("hup", "load")
    /\ signalled' = TRUE
    /\ UNCHANGED <<policyFile, policy, quotaFile, quota, lastModTime,
                   lastQuotaModTime, phase, raced>>

\* a policy that does not load ends the round: the quota file is not looked at
LoadPolicy(l) ==
    /\ loader[l].at = "load"
    /\ loader' = IF policyFile.is = "good"
                 THEN [loader EXCEPT ![l].at = "install", ![l].policy = policyFile.ver]
                 ELSE [loader EXCEPT ![l].at = "idle"]
    /\ UNCHANGED <<policyFile, policy, quotaFile, quota, lastModTime,
                   lastQuotaModTime, phase, signalled, raced>>

Installed(l) ==
    /\ loader[l].at = "install"
    /\ policy' = loader[l].policy
    /\ loader' = [loader EXCEPT ![l].at = IF l = "ticker" THEN "stat" ELSE "read",
                                ![l].policy = AllowAll]
    /\ UNCHANGED <<policyFile, quotaFile, quota, lastQuotaModTime, phase, signalled, raced>>

\* the bug of noting the modification time when the policy is installed
LateInstallPolicy(l) ==
    Installed(l) /\ lastModTime' = IF l = "ticker" THEN policyFile.ver ELSE lastModTime

InstallPolicy(l) == Installed(l) /\ UNCHANGED lastModTime

\* the bug of a ticker that only watches the policy file
StatNothing ==
    /\ loader["ticker"].at = "stat"
    /\ Goto("ticker", "idle")
    /\ UNCHANGED <<policyFile, policy, quotaFile, quota, lastModTime,
                   lastQuotaModTime, phase, signalled, raced>>

StatQuota ==
    /\ loader["ticker"].at = "stat"
    /\ lastQuotaModTime' = quotaFile.ver
    /\ Goto("ticker", IF quotaFile.ver > lastQuotaModTime THEN "read" ELSE "idle")
    /\ UNCHANGED <<policyFile, policy, quotaFile, quota, lastModTime, phase, signalled, raced>>

\* QuotaManager.Reload: reading and parsing outside the lock, then the swap
ReadQuota(l) ==
    /\ loader[l].at = "read"
    /\ loader' = IF ValidAtReload(quotaFile.cfg)
                 THEN [loader EXCEPT ![l].at = "swap", ![l].quota = quotaFile.cfg]
                 ELSE [loader EXCEPT ![l].at = "idle"]
    /\ UNCHANGED <<policyFile, policy, quotaFile, quota, lastModTime,
                   lastQuotaModTime, phase, signalled, raced>>

SwapQuota(l) ==
    /\ loader[l].at = "swap"
    /\ quota' = loader[l].quota
    /\ loader' = [loader EXCEPT ![l].at = "idle", ![l].quota = NoLimits]
    /\ UNCHANGED <<policyFile, policy, quotaFile, lastModTime, lastQuotaModTime,
                   phase, signalled, raced>>

ReloadStep(l) ==
    \/ LoadPolicy(l) \/ InstallPolicy(l) \/ ReadQuota(l) \/ SwapQuota(l)
    \/ l = "ticker" /\ StatQuota

ReloadNext ==
    \/ Watch \/ EditPolicy \/ EditQuota \/ Tick \/ Signal
    \/ \E l \in Loaders : ReloadStep(l)

-----------------------------------------------------------------------------
\* Once the edits are over, a policy file that parses is in force for good,
\* broken and missing versions before it and signals at any time notwithstanding,
\* if the file was there at start or SIGHUP came after it was saved; unless it
\* was saved while the start or the signal handler stood between reading its
\* predecessor and installing it (main.go:281-331, 372-399).
PolicyTakesEffect ==
    <>[](/\ policyFile.is = "good" /\ ~raced.policy
         /\ phase = "watching" \/ signalled
         => policy = policyFile.ver)

\* So is a quota file that Reload accepts, also when the policy file is broken
\* and ends the rounds that find it changed, or was away for a while; where the
\* ticker runs and finds the policy file in the end (main.go:281, 287-291).
QuotaTakesEffect ==
    <>[](/\ ValidAtReload(quotaFile.cfg) /\ ~raced.quota
         /\ phase = "watching" /\ Found
         => quota = quotaFile.cfg)
=============================================================================
