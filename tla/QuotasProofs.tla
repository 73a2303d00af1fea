---------------------------- MODULE QuotasProofs ----------------------------
(***************************************************************************)
(* Proofs about Quotas: the limits of a container stay within a quota that *)
(* was in force while they were set, for every quota file, every order of  *)
(* groups and every moment of a reload.                                    *)
(***************************************************************************)
EXTENDS Quotas, WellFoundedInduction, TLAPS

-----------------------------------------------------------------------------
(* GetQuota returns numbers.  Its loop over the groups is a recursive      *)
(* function, so this takes an induction over their number.                 *)

LEMMA LeastNatural ==
    ASSUME NEW T \in SUBSET Nat, T # {}
    PROVE  \E x \in T : \A y \in T : x <= y
<1>1. PICK R : IsWellFoundedOn(R, Nat) /\ \A x, y \in Nat : y < x => <<y, x>> \in R
  <2> DEFINE Q == OpToRel(<, Nat)
  <2>1. IsWellFoundedOn(Q, Nat)
    BY NatLessThanWellFounded
  <2>2. \A x, y \in Nat : y < x => <<y, x>> \in Q
    BY DEF OpToRel
  <2> HIDE DEF Q
  <2> QED  BY <2>1, <2>2
<1>2. PICK x \in T : \A y \in T : <<y, x>> \notin R
  BY <1>1, WFMin
<1>3. \A y \in T : x \in Nat /\ y \in Nat /\ ~(y < x)
  BY <1>1, <1>2
<1> QED  BY <1>3

LEMMA InductionOverNat ==
    ASSUME NEW S, 0 \in S, \A n \in Nat : n \in S => n + 1 \in S
    PROVE  Nat \subseteq S
<1> SUFFICES ASSUME Nat \ S # {} PROVE FALSE
  OBVIOUS
<1>1. PICK x \in Nat \ S : \A y \in Nat \ S : x <= y
  BY LeastNatural
<1>2. x # 0 /\ x - 1 \in Nat
  BY <1>1
<1>3. x - 1 \in S
  BY <1>1, <1>2
<1> QED  BY <1>1, <1>2, <1>3

Numbers == [Resources -> Int]

LEMMA RaisedIsNumeric ==
    ASSUME NEW q \in Numbers, NEW entry, Numeric(entry)
    PROVE  Raised(q, entry) \in Numbers
BY DEF Raised, Numbers, Numeric, Resources

\* The first n rounds of the loop, as a finite function.
Rounds(cfg, u, n) ==
    {g \in [0..n -> Numbers] :
        /\ g[0] = cfg.defaults
        /\ \A i \in 1..n : g[i] = Raised(g[i - 1], EntryOf(cfg.groups, GroupSeq[u][i]))}

LEMMA RoundsExist ==
    ASSUME NEW cfg, QuotaFile(cfg), NEW u, NEW n \in Nat
    PROVE  Rounds(cfg, u, n) # {}
<1> DEFINE S == {k \in Nat : Rounds(cfg, u, k) # {}}
<1>1. 0 \in S
  <2>1. [i \in 0..0 |-> cfg.defaults] \in Rounds(cfg, u, 0)
    BY DEF Rounds, QuotaFile, Numbers
  <2> QED  BY <2>1
<1>2. ASSUME NEW k \in Nat, k \in S
      PROVE  k + 1 \in S
  <2>1. PICK g : g \in Rounds(cfg, u, k)
    BY <1>2
  <2> DEFINE entry == EntryOf(cfg.groups, GroupSeq[u][k + 1])
             h == [i \in 0..(k + 1) |-> IF i = k + 1 THEN Raised(g[k], entry) ELSE g[i]]
  <2>2. Numeric(entry)
    BY DEF EntryOf, QuotaFile, Numeric
  <2>3. g \in [0..k -> Numbers] /\ g[0] = cfg.defaults
        /\ \A i \in 1..k : g[i] = Raised(g[i - 1], EntryOf(cfg.groups, GroupSeq[u][i]))
    BY <2>1 DEF Rounds
  <2>4. Raised(g[k], entry) \in Numbers
    BY <2>2, <2>3, RaisedIsNumeric
  <2>5. h \in [0..(k + 1) -> Numbers] /\ h[0] = cfg.defaults
    BY <2>3, <2>4
  <2>6. ASSUME NEW i \in 1..(k + 1)
        PROVE  h[i] = Raised(h[i - 1], EntryOf(cfg.groups, GroupSeq[u][i]))
    <3>1. CASE i = k + 1
      <4>1. h[i] = Raised(g[k], entry) /\ h[i - 1] = g[k]
        BY <3>1
      <4> QED  BY <3>1, <4>1
    <3>2. CASE i # k + 1
      <4>1. i \in 1..k /\ h[i] = g[i] /\ h[i - 1] = g[i - 1]
        BY <3>2
      <4> QED  BY <2>3, <4>1
    <3> QED  BY <3>1, <3>2
  <2>7. h \in Rounds(cfg, u, k + 1)
    BY <2>5, <2>6 DEF Rounds
  <2> QED  BY <2>7
<1>3. Nat \subseteq S
  <2> HIDE DEF S
  <2> QED  BY <1>1, <1>2, InductionOverNat
<1> QED  BY <1>3

LEMMA RoundsAgree ==
    ASSUME NEW cfg, NEW u, NEW m \in Nat, NEW n \in Nat, m <= n,
           NEW g \in Rounds(cfg, u, m), NEW h \in Rounds(cfg, u, n)
    PROVE  g[m] = h[m]
<1> DEFINE S == {k \in Nat : k <= m => g[k] = h[k]}
<1>1. 0 \in S
  BY DEF Rounds
<1>2. ASSUME NEW k \in Nat, k \in S
      PROVE  k + 1 \in S
  <2> SUFFICES ASSUME k + 1 <= m PROVE g[k + 1] = h[k + 1]
    OBVIOUS
  <2>1. k + 1 \in 1..m /\ k + 1 \in 1..n /\ (k + 1) - 1 = k
    OBVIOUS
  <2>2. g[k] = h[k]
    BY <1>2
  <2>3. /\ g[k + 1] = Raised(g[k], EntryOf(cfg.groups, GroupSeq[u][k + 1]))
        /\ h[k + 1] = Raised(h[k], EntryOf(cfg.groups, GroupSeq[u][k + 1]))
    BY <2>1 DEF Rounds
  <2> QED  BY <2>2, <2>3
<1>3. Nat \subseteq S
  <2> HIDE DEF S
  <2> QED  BY <1>1, <1>2, InductionOverNat
<1> QED  BY <1>3

\* There is a function with the recursive definition, so the definition's
\* equation holds.
LEMMA RaisedByGroupsEquation ==
    ASSUME NEW cfg, QuotaFile(cfg), NEW u
    PROVE  RaisedByGroups(cfg, u) =
               [n \in Nat |->
                   IF n = 0 THEN cfg.defaults
                   ELSE Raised(RaisedByGroups(cfg, u)[n - 1],
                               EntryOf(cfg.groups, GroupSeq[u][n]))]
<1> DEFINE G(n) == CHOOSE g : g \in Rounds(cfg, u, n)
           r == [n \in Nat |-> G(n)[n]]
<1>1. \A n \in Nat : G(n) \in Rounds(cfg, u, n)
  BY RoundsExist
<1>2. r[0] = cfg.defaults
  BY <1>1 DEF Rounds
<1>3. ASSUME NEW n \in Nat, n # 0
      PROVE  r[n] = Raised(r[n - 1], EntryOf(cfg.groups, GroupSeq[u][n]))
  <2>1. n - 1 \in Nat /\ n \in 1..n
    BY <1>3
  <2>2. G(n)[n] = Raised(G(n)[n - 1], EntryOf(cfg.groups, GroupSeq[u][n]))
    BY <1>1, <2>1 DEF Rounds
  <2>3. G(n - 1)[n - 1] = G(n)[n - 1]
    <3>1. n - 1 <= n /\ G(n - 1) \in Rounds(cfg, u, n - 1) /\ G(n) \in Rounds(cfg, u, n)
      BY <1>1, <2>1
    <3> HIDE DEF G
    <3> QED  BY <2>1, <3>1, RoundsAgree
  <2> QED  BY <2>1, <2>2, <2>3
<1>4. r = [n \in Nat |-> r[n]]
  OBVIOUS
<1> HIDE DEF r
<1>5. r = [n \in Nat |->
              IF n = 0 THEN cfg.defaults
              ELSE Raised(r[n - 1], EntryOf(cfg.groups, GroupSeq[u][n]))]
  <2>1. \A n \in Nat : r[n] = IF n = 0 THEN cfg.defaults
                              ELSE Raised(r[n - 1], EntryOf(cfg.groups, GroupSeq[u][n]))
    BY <1>2, <1>3
  <2>2. [n \in Nat |-> r[n]] =
            [n \in Nat |->
                IF n = 0 THEN cfg.defaults
                ELSE Raised(r[n - 1], EntryOf(cfg.groups, GroupSeq[u][n]))]
    BY <2>1, Zenon
  <2> QED  BY <1>4, <2>2, Zenon
<1> QED  BY <1>5 DEF RaisedByGroups

LEMMA RaisedByGroupsIsNumeric ==
    ASSUME NEW cfg, QuotaFile(cfg), NEW u, NEW n \in Nat
    PROVE  RaisedByGroups(cfg, u)[n] \in Numbers
<1> DEFINE r == RaisedByGroups(cfg, u)
           S == {k \in Nat : r[k] \in Numbers}
<1>1. r = [k \in Nat |-> IF k = 0 THEN cfg.defaults
                         ELSE Raised(r[k - 1], EntryOf(cfg.groups, GroupSeq[u][k]))]
  BY RaisedByGroupsEquation
<1> HIDE DEF r
<1>2. 0 \in S
  BY <1>1 DEF QuotaFile, Numbers
<1>3. ASSUME NEW k \in Nat, k \in S
      PROVE  k + 1 \in S
  <2>1. Numeric(EntryOf(cfg.groups, GroupSeq[u][k + 1]))
    BY DEF EntryOf, QuotaFile, Numeric
  <2>2. r[k + 1] = Raised(r[k], EntryOf(cfg.groups, GroupSeq[u][k + 1]))
    BY <1>1
  <2> QED  BY <1>3, <2>1, <2>2, RaisedIsNumeric
<1>4. Nat \subseteq S
  <2> HIDE DEF S
  <2> QED  BY <1>2, <1>3, InductionOverNat
<1> QED  BY <1>4 DEF r

\* The quota of a user is a number for every resource.
LEMMA GetQuotaIsNumeric ==
    ASSUME NEW cfg, QuotaFile(cfg), NEW u \in Users
    PROVE  GetQuota(cfg, u) \in Numbers
<1>1. RaisedByGroups(cfg, u)[Len(GroupSeq[u])] \in Numbers
  BY RaisedByGroupsIsNumeric, UnitsAssumption
<1>2. Numeric(EntryOf(cfg.users, u))
  BY DEF EntryOf, QuotaFile, Numeric
<1> QED  BY <1>1, <1>2 DEF GetQuota, Numbers, Numeric

-----------------------------------------------------------------------------
(* The arithmetic of a request. *)

LEMMA ProductIsNat == \A a, b \in Nat : a * b \in Nat
OBVIOUS

LEMMA QuotientIsNat == \A a \in Nat, d \in Nat \ {0} : a \div d \in Nat
OBVIOUS

LEMMA ProductSign == \A a \in Int, k \in Nat \ {0} : a * k \in Int /\ (a > 0 <=> a * k > 0)
OBVIOUS

LEMMA EffectiveIsNat ==
    ASSUME NEW b \in Limits
    PROVE  effectiveCPUNanos(b) \in Nat
<1> DEFINE p == IF b.period <= 0 THEN DefaultPeriod ELSE b.period
           a == b.quota * Core
<1>1. b.nano \in Nat /\ b.quota \in Int /\ p \in Nat \ {0}
  BY UnitsAssumption DEF Limits
<1>2. b.quota > 0 => a \in Nat
  BY <1>1, ProductIsNat, UnitsAssumption
<1>3. effectiveCPUNanos(b) \in {b.nano, 0} \/ (b.quota > 0 /\ effectiveCPUNanos(b) = a \div p)
  BY DEF effectiveCPUNanos
<1> HIDE DEF a, p
<1> QED  BY <1>1, <1>2, <1>3, QuotientIsNat

\* The kernel reads a request as the proxy does, if the CPU quota is not negative.
LEMMA CPUOfIsEffective ==
    ASSUME NEW b \in Limits, b.quota >= 0
    PROVE  CPUOf(b) = effectiveCPUNanos(b)
<1>1. b.period \in Nat /\ b.quota \in Int /\ ~(b.quota < 0)
  BY DEF Limits
<1>2. (b.period > 0) <=> ~(b.period <= 0)
  BY <1>1
<1> QED  BY <1>1, <1>2 DEF CPUOf, effectiveCPUNanos

LEMMA BaseWithinLimit ==
    ASSUME NEW d \in Int, NEW l \in Int, l > 0
    PROVE  Base(d, l) \in 1..l
BY DEF Base, Min2

\* A create request that passes the check is within the quota once the limits
\* it does not name are injected, unless the daemon refuses it or it names a
\* negative one.
CreateFits(b, q) ==
    /\ Accepted(b.nano, b.quota, b.period) /\ b.quota >= 0 => Limited(CPUOf(b), q.cpu * Core)
    /\ b.mem >= 0 => Limited(b.mem, q.mem)

LEMMA InjectedFits ==
    ASSUME NEW b \in Limits, NEW q \in Numbers, NEW d \in Numbers, CheckQuota(b, q)
    PROVE  LET n == injectQuotaLimits(b, q, d) IN n \in Limits /\ CreateFits(n, q)
<1> DEFINE n == injectQuotaLimits(b, q, d)
           nano == IF q.cpu > 0 /\ effectiveCPUNanos(b) = 0
                   THEN Base(d.cpu * Core, q.cpu * Core) ELSE b.nano
           mem == IF q.mem > 0 /\ b.mem = 0 THEN Base(d.mem, q.mem) ELSE b.mem
           size == IF q.storage > 0 /\ b.size = NoSize
                   THEN [n |-> q.storage, unit |-> "G"] ELSE b.size
<1>1. /\ b.nano \in Nat /\ b.quota \in Int /\ b.period \in Nat /\ b.mem \in Int
      /\ b.size \in [n : Nat, unit : {"none", "M", "G", "T"}]
  BY DEF Limits
<1>2. q.cpu \in Int /\ q.mem \in Int /\ q.storage \in Int /\ d.cpu \in Int /\ d.mem \in Int
  BY DEF Numbers, Resources
<1>3. PICK L \in Int : L = q.cpu * Core /\ (q.cpu > 0 <=> L > 0)
  BY <1>2, UnitsAssumption, ProductSign
<1>4. d.cpu * Core \in Int
  BY <1>2, UnitsAssumption
<1>5. effectiveCPUNanos(b) \in Nat
  BY EffectiveIsNat
<1>6. L > 0 => effectiveCPUNanos(b) <= L
  BY <1>3, <1>5 DEF CheckQuota, WithinCPUAndMemory, Exceeds
<1>7. q.mem > 0 => b.mem <= q.mem
  BY <1>1, <1>2 DEF CheckQuota, WithinCPUAndMemory, Exceeds
<1>8. nano \in Nat /\ (L > 0 /\ effectiveCPUNanos(b) = 0 => nano \in 1..L)
  <2>1. L > 0 => Base(d.cpu * Core, L) \in 1..L
    BY <1>4, BaseWithinLimit
  <2>2. nano = IF L > 0 /\ effectiveCPUNanos(b) = 0 THEN Base(d.cpu * Core, L) ELSE b.nano
    BY <1>3
  <2> HIDE DEF nano
  <2> QED  BY <1>1, <2>1, <2>2
<1>9. mem \in Int /\ (q.mem > 0 /\ mem >= 0 => mem \in 1..q.mem)
  <2>1. q.mem > 0 => Base(d.mem, q.mem) \in 1..q.mem
    BY <1>2, BaseWithinLimit
  <2>2. mem = IF q.mem > 0 /\ b.mem = 0 THEN Base(d.mem, q.mem) ELSE b.mem
    OBVIOUS
  <2> HIDE DEF mem
  <2> QED  BY <1>1, <1>2, <1>7, <2>1, <2>2
<1>10. size \in [n : Nat, unit : {"none", "M", "G", "T"}]
  BY <1>1, <1>2
<1>11. /\ n = [b EXCEPT !.nano = nano, !.mem = mem, !.size = size]
  BY DEF injectQuotaLimits
<1> HIDE DEF nano, mem, size
<1>12. /\ n \in Limits /\ n.nano = nano /\ n.mem = mem
       /\ n.quota = b.quota /\ n.period = b.period
  BY <1>8, <1>9, <1>10, <1>11 DEF Limits
<1> HIDE DEF n
<1>13. b.quota >= 0 => CPUOf(n) = effectiveCPUNanos(n)
  BY <1>12, CPUOfIsEffective
<1>14. Accepted(n.nano, n.quota, n.period) /\ n.quota >= 0 => Limited(CPUOf(n), q.cpu * Core)
  <2> SUFFICES ASSUME Accepted(n.nano, n.quota, n.period), b.quota >= 0, L > 0
               PROVE  CPUOf(n) \in 1..L
    BY <1>3, <1>12 DEF Limited
  <2>1. CASE effectiveCPUNanos(b) = 0
    <3>1. nano \in 1..L /\ ~(n.quota < 0)
      BY <1>1, <1>8, <1>12, <2>1
    <3> QED  BY <1>12, <3>1 DEF CPUOf
  <2>2. CASE effectiveCPUNanos(b) # 0
    <3>1. nano = b.nano
      BY <2>2 DEF nano
    <3>2. effectiveCPUNanos(n) = effectiveCPUNanos(b)
      BY <1>12, <3>1 DEF effectiveCPUNanos
    <3> QED  BY <1>5, <1>6, <1>13, <2>2, <3>2
  <2> QED  BY <2>1, <2>2
<1> QED  BY <1>9, <1>12, <1>14 DEF CreateFits, Limited, n

-----------------------------------------------------------------------------
(* The inductive invariant. *)

Files == QuotaConfigs \cup {NoLimits}
Versions == 0..MaxPolicyEdits \cup {AllowAll}

Loading ==
    [at : {"idle", "load", "install", "stat", "read", "swap"},
     policy : Versions, quota : Files]

\* what a loader is about to put into force has passed the check of Reload
ReloadSound ==
    /\ ReloadTypeOK
    /\ Nonnegative(quota.defaults)
    /\ loader \in [Loaders -> Loading]
    /\ \A l \in Loaders : loader[l].at = "swap" => Nonnegative(loader[l].quota.defaults)

Asked ==
    [at : {"asked", "quota", "ready", "forward"}, op : {"create", "update"},
     user : Users, body : Limits, quota : Numbers, default : Numbers]

Fits(r, q) ==
    IF r.op = "create" THEN CreateFits(r.body, q) ELSE CheckUpdateQuota(r.body, q)

\* What each stage of a request has established.
Staged ==
    /\ during \subseteq Files
    /\ req # NoReq =>
           /\ req \in Asked /\ quota \in during
           /\ req.op = "update" =>
                  /\ req.body \in Updates
                  /\ box[req.user] \in Boxes /\ box[req.user].updates < MaxUpdates
           /\ req.at \in {"quota", "ready"} =>
                  \E cfg \in during : req.quota = GetQuota(cfg, req.user)
           /\ req.at = "forward" =>
                  \E cfg \in during : Fits(req, GetQuota(cfg, req.user))

BoxesTyped == box \in [Users -> Boxes \cup {NoBox}]

IInv == ReloadSound /\ Staged /\ BoxesTyped

-----------------------------------------------------------------------------
LEMMA NoLimitsIsFile == QuotaFile(NoLimits) /\ Nonnegative(NoLimits.defaults)
<1>1. /\ NoLimits.defaults = [f \in Resources |-> 0]
      /\ NoLimits.users = <<>> /\ NoLimits.groups = <<>>
  BY DEF NoLimits
<1>2. DOMAIN <<>> = {}
  OBVIOUS
<1>3. \A f \in DOMAIN NoLimits.defaults : NoLimits.defaults[f] = 0
  BY <1>1
<1> QED  BY <1>1, <1>2, <1>3 DEF QuotaFile, Nonnegative

LEMMA QuotaIsNumeric ==
    ASSUME NEW cfg \in Files, NEW u \in Users
    PROVE  GetQuota(cfg, u) \in Numbers /\ cfg.defaults \in Numbers
<1>1. QuotaFile(cfg)
  BY NoLimitsIsFile, FilesAssumption DEF Files
<1> QED  BY <1>1, GetQuotaIsNumeric DEF QuotaFile, Numbers

LEMMA ReloadKeepsSound ==
    ASSUME ReloadSound, ReloadNext
    PROVE  ReloadSound'
<1> USE DEF ReloadSound, ReloadTypeOK, Files, Versions, Loaders
<1>1. CASE Watch
  BY <1>1 DEF Watch
<1>2. CASE EditPolicy
  <2>1. policyFile' \in [ver : 0..MaxPolicyEdits, is : PolicyStates]
    BY <1>2, FilesAssumption DEF EditPolicy
  <2>2. raced' \in [policy : BOOLEAN, quota : BOOLEAN]
    BY <1>2 DEF EditPolicy
  <2> QED  BY <1>2, <2>1, <2>2 DEF EditPolicy
<1>3. CASE EditQuota
  <2>1. quotaFile' \in [ver : 0..MaxQuotaEdits, cfg : QuotaConfigs]
    BY <1>3, FilesAssumption DEF EditQuota
  <2>2. raced' \in [policy : BOOLEAN, quota : BOOLEAN]
    BY <1>3 DEF EditQuota
  <2> QED  BY <1>3, <2>1, <2>2 DEF EditQuota
<1>4. CASE Tick
  BY <1>4 DEF Tick, Goto, Loading
<1>5. CASE Signal
  BY <1>5 DEF Signal, Goto, Loading
<1>6. ASSUME NEW l \in Loaders, LoadPolicy(l)
      PROVE  ReloadSound'
  BY <1>6 DEF LoadPolicy, Loading
<1>7. ASSUME NEW l \in Loaders, InstallPolicy(l)
      PROVE  ReloadSound'
  <2>1. loader[l].policy \in Versions
    BY DEF Loading
  <2> QED  BY <1>7, <2>1 DEF InstallPolicy, Installed, Loading
<1>8. ASSUME NEW l \in Loaders, ReadQuota(l)
      PROVE  ReloadSound'
  BY <1>8 DEF ReadQuota, Loading, ValidAtReload
<1>9. ASSUME NEW l \in Loaders, SwapQuota(l)
      PROVE  ReloadSound'
  <2>1. loader[l].quota \in Files /\ Nonnegative(loader[l].quota.defaults)
    BY <1>9 DEF SwapQuota, Loading
  <2> QED  BY <1>9, <2>1 DEF SwapQuota, Loading
<1>10. CASE StatQuota
  BY <1>10 DEF StatQuota, Goto, Loading
<1> QED  BY <1>1, <1>2, <1>3, <1>4, <1>5, <1>6, <1>7, <1>8, <1>9, <1>10
         DEF ReloadNext, ReloadStep

LEMMA ReloadUntouched ==
    ASSUME ReloadSound, UNCHANGED reloadVars
    PROVE  ReloadSound'
BY DEF ReloadSound, ReloadTypeOK, reloadVars

LEMMA QuotaInFiles == ReloadSound => quota \in Files
BY DEF ReloadSound, ReloadTypeOK, Files

LEMMA InitIInv == Init => IInv
<1> SUFFICES ASSUME Init PROVE IInv
  OBVIOUS
<1>1. ReloadSound
  <2>1. Nonnegative(quota.defaults) /\ quota \in Files
    BY NoLimitsIsFile DEF Init, ReloadInit, ValidAtStart, Files
  <2>2. /\ policyFile \in [ver : 0..MaxPolicyEdits, is : PolicyStates]
        /\ quotaFile \in [ver : 0..MaxQuotaEdits, cfg : QuotaConfigs]
    BY FilesAssumption DEF Init, ReloadInit
  <2>3. /\ policy \in 0..MaxPolicyEdits \cup {AllowAll}
        /\ lastModTime \in 0..MaxPolicyEdits /\ lastQuotaModTime \in 0..MaxQuotaEdits
    BY FilesAssumption DEF Init, ReloadInit
  <2>4. /\ phase \in {"loaded", "watching", "unwatched"}
        /\ signalled \in BOOLEAN
        /\ raced \in [policy : BOOLEAN, quota : BOOLEAN]
    BY DEF Init, ReloadInit
  <2>5. ReloadTypeOK
    BY <2>1, <2>2, <2>3, <2>4 DEF ReloadTypeOK, Files
  <2>6. loader \in [Loaders -> Loading] /\ \A l \in Loaders : loader[l].at = "idle"
    BY DEF Init, ReloadInit, Loading, Versions, Files
  <2> QED  BY <2>1, <2>5, <2>6 DEF ReloadSound
<1>2. Staged /\ BoxesTyped
  BY DEF Init, Staged, BoxesTyped
<1> QED  BY <1>1, <1>2 DEF IInv

LEMMA BeginSound ==
    ASSUME IInv, NEW u \in Users, NEW op \in {"create", "update"}, NEW b \in Limits,
           Begin(u, op, b),
           op = "update" => b \in Updates /\ box[u] \in Boxes /\ box[u].updates < MaxUpdates
    PROVE  IInv'
<1>1. ReloadSound'
  BY ReloadUntouched DEF IInv, Begin
<1>2. quota \in Files /\ quota' = quota /\ during' = {quota} /\ box' = box
  BY QuotaInFiles DEF IInv, Begin, reloadVars
<1>3. NoLimits.defaults \in Numbers
  BY NoLimitsIsFile DEF QuotaFile, Numbers
<1>4. /\ req' \in Asked /\ req'.at = "asked" /\ req'.op = op
      /\ req'.user = u /\ req'.body = b
  BY <1>3 DEF Begin, Asked
<1>5. Staged'
  BY <1>2, <1>4 DEF Staged
<1>6. BoxesTyped'
  BY <1>2 DEF IInv, BoxesTyped
<1> QED  BY <1>1, <1>5, <1>6 DEF IInv

LEMMA BoxLive ==
    ASSUME BoxesTyped, NEW u \in Users
    PROVE  /\ box[u].live => box[u] \in Boxes
           /\ box[u] \in Boxes => box[u].live
           /\ box[u] = NoBox => ~box[u].live
<1>1. box[u] \in Boxes \/ box[u] = NoBox
  BY DEF BoxesTyped
<1>2. \A c \in Boxes : c.live = TRUE
  BY DEF Boxes
<1>3. NoBox.live = FALSE
  BY DEF NoBox
<1> QED  BY <1>1, <1>2, <1>3, Zenon

LEMMA CreateSound == IInv /\ Create => IInv'
<1> SUFFICES ASSUME IInv, Create PROVE IInv'
  OBVIOUS
<1>1. PICK u \in Users, b \in Bodies : Begin(u, "create", b)
  BY DEF Create
<1> QED  BY <1>1, BeginSound, RequestsAssumption

LEMMA UpdateSound == IInv /\ Update => IInv'
<1> SUFFICES ASSUME IInv, Update PROVE IInv'
  OBVIOUS
<1>1. PICK u \in Users, b \in Updates :
          box[u].live /\ box[u].updates < MaxUpdates /\ Begin(u, "update", b)
  BY DEF Update
<1>2. box[u] \in Boxes /\ b \in Limits
  BY <1>1, BoxLive, RequestsAssumption DEF IInv
<1> QED  BY <1>1, <1>2, BeginSound

LEMMA AskedAt ==
    ASSUME Staged, req.at # "idle"
    PROVE  req # NoReq /\ req \in Asked
BY DEF Staged, NoReq

LEMMA ReadUserQuotaSound == IInv /\ ReadUserQuota => IInv'
<1> SUFFICES ASSUME IInv, ReadUserQuota PROVE IInv'
  OBVIOUS
<1> DEFINE q == GetQuota(quota, req.user)
           at == IF req.op = "create" THEN "quota" ELSE "ready"
<1>1. req # NoReq /\ req \in Asked
  BY AskedAt DEF IInv, ReadUserQuota
<1>2. q \in Numbers
  BY <1>1, QuotaInFiles, QuotaIsNumeric DEF IInv, Asked
<1>3. req' = [req EXCEPT !.quota = q, !.at = at] /\ at \in {"quota", "ready"}
      /\ UNCHANGED <<box, during, quota>>
  BY DEF ReadUserQuota, reloadVars
<1> HIDE DEF q, at
<1>4. /\ req' \in Asked /\ req'.at \in {"quota", "ready"} /\ req'.quota = q
      /\ req'.user = req.user /\ req'.op = req.op /\ req'.body = req.body
  BY <1>1, <1>2, <1>3 DEF Asked
<1>5. Staged'
  BY <1>1, <1>3, <1>4 DEF IInv, Staged, q
<1>6. ReloadSound' /\ BoxesTyped'
  BY <1>3, ReloadUntouched DEF IInv, ReadUserQuota, BoxesTyped
<1> QED  BY <1>5, <1>6 DEF IInv

LEMMA ReadDefaultQuotaSound == IInv /\ ReadDefaultQuota => IInv'
<1> SUFFICES ASSUME IInv, ReadDefaultQuota PROVE IInv'
  OBVIOUS
<1>1. req # NoReq /\ req \in Asked /\ req.at = "quota"
  BY AskedAt DEF IInv, ReadDefaultQuota
<1>2. quota.defaults \in Numbers
  BY <1>1, QuotaInFiles, QuotaIsNumeric DEF IInv, Asked
<1>3. req' = [req EXCEPT !.default = quota.defaults, !.at = "ready"]
      /\ UNCHANGED <<box, during, quota>>
  BY DEF ReadDefaultQuota, reloadVars
<1>4. /\ req' \in Asked /\ req'.at = "ready" /\ req'.quota = req.quota
      /\ req'.user = req.user /\ req'.op = req.op /\ req'.body = req.body
  BY <1>1, <1>2, <1>3 DEF Asked
<1>5. Staged'
  BY <1>1, <1>3, <1>4 DEF IInv, Staged
<1>6. ReloadSound' /\ BoxesTyped'
  BY <1>3, ReloadUntouched DEF IInv, ReadDefaultQuota, BoxesTyped
<1> QED  BY <1>5, <1>6 DEF IInv

LEMMA NothingAsked ==
    ASSUME IInv, req' = NoReq, during' = {}, ReloadSound', BoxesTyped'
    PROVE  IInv'
BY DEF IInv, Staged

LEMMA CheckRequestSound == IInv /\ CheckRequest => IInv'
<1> SUFFICES ASSUME IInv, CheckRequest PROVE IInv'
  OBVIOUS
<1>1. req # NoReq /\ req \in Asked /\ req.at = "ready"
  BY AskedAt DEF IInv, CheckRequest
<1>2. ReloadSound' /\ BoxesTyped' /\ box' = box /\ quota' = quota
  BY ReloadUntouched DEF IInv, CheckRequest, BoxesTyped, reloadVars
<1>3. CASE ~Passes
  BY <1>2, <1>3, NothingAsked DEF CheckRequest
<1>4. CASE Passes
  <2> DEFINE b == IF req.op = "create"
                  THEN injectQuotaLimits(req.body, req.quota, req.default) ELSE req.body
  <2>1. req' = [req EXCEPT !.at = "forward", !.body = b] /\ during' = during
    BY <1>4 DEF CheckRequest
  <2>2. /\ req.body \in Limits /\ req.quota \in Numbers /\ req.default \in Numbers
        /\ req.op \in {"create", "update"}
    BY <1>1 DEF Asked
  <2>3. b \in Limits /\ (req.op = "create" => CreateFits(b, req.quota))
    BY <1>4, <2>2, InjectedFits DEF Passes
  <2>4. req.op = "update" => b = req.body /\ CheckUpdateQuota(b, req.quota)
    BY <1>4, <2>2 DEF Passes
  <2> HIDE DEF b
  <2>5. /\ req' \in Asked /\ req'.at = "forward" /\ req'.body = b
        /\ req'.op = req.op /\ req'.user = req.user
    BY <1>1, <2>1, <2>3 DEF Asked
  <2>6. PICK cfg \in during : req.quota = GetQuota(cfg, req.user)
    BY <1>1 DEF IInv, Staged
  <2>7. Fits(req', GetQuota(cfg, req'.user))
    BY <2>2, <2>3, <2>4, <2>5, <2>6 DEF Fits
  <2>8. Staged'
    BY <1>1, <1>2, <2>1, <2>4, <2>5, <2>6, <2>7 DEF IInv, Staged
  <2> QED  BY <1>2, <2>8 DEF IInv
<1> QED  BY <1>3, <1>4

\* the container a create makes
Made(b, d) ==
    [live |-> TRUE, nano |-> b.nano, quota |-> b.quota, period |-> b.period, mem |-> b.mem,
     cpuUnder |-> d, memUnder |-> d,
     cpuWhole |-> b.quota >= 0, memWhole |-> b.mem >= 0, updates |-> 0]

LEMMA MadeIsBox ==
    ASSUME NEW b \in Limits, NEW d \in SUBSET Files
    PROVE  Made(b, d) \in Boxes
BY RequestsAssumption DEF Made, Boxes, Limits, Files

LEMMA DaemonCreatesSound == IInv /\ DaemonCreates => IInv'
<1> SUFFICES ASSUME IInv, DaemonCreates PROVE IInv'
  OBVIOUS
<1>1. req \in Asked
  BY AskedAt DEF IInv, DaemonCreates
<1>2. Made(req.body, during) \in Boxes
  BY <1>1, MadeIsBox DEF IInv, Staged, Asked
<1>3. box' = box \/ box' = [box EXCEPT ![req.user] = Made(req.body, during)]
  BY DEF DaemonCreates, Made
<1>4. BoxesTyped'
  BY <1>1, <1>2, <1>3 DEF IInv, BoxesTyped
<1> QED  BY <1>4, NothingAsked, ReloadUntouched DEF IInv, DaemonCreates, Answered

LEMMA UpdatedIsBox ==
    ASSUME IInv, NEW old \in Boxes, old.updates < MaxUpdates, NEW b \in Limits
    PROVE  /\ Updated(old, b) \in Boxes
           /\ Updated(old, b).nano = IF b.nano # 0 THEN b.nano ELSE old.nano
           /\ Updated(old, b).quota = IF b.quota # 0 THEN b.quota ELSE old.quota
           /\ Updated(old, b).period = IF b.period # 0 THEN b.period ELSE old.period
           /\ Updated(old, b).mem = IF b.mem # 0 THEN b.mem ELSE old.mem
           /\ Updated(old, b).cpuUnder =
                  IF b.nano # 0 \/ b.quota # 0 \/ b.period # 0 THEN during ELSE old.cpuUnder
           /\ Updated(old, b).memUnder = IF b.mem # 0 THEN during ELSE old.memUnder
           /\ Updated(old, b).cpuWhole <=> Whole(b) /\ (b.quota > 0 \/ old.cpuWhole)
           /\ Updated(old, b).memWhole <=> b.mem > 0 \/ (b.mem = 0 /\ old.memWhole)
<1>1. during \in SUBSET Files
  BY DEF IInv, Staged
<1>2. b.nano \in Nat /\ b.quota \in Int /\ b.period \in Nat /\ b.mem \in Int
  BY DEF Limits
<1> DEFINE nano == IF b["nano"] # 0 THEN b["nano"] ELSE old["nano"]
           quot == IF b["quota"] # 0 THEN b["quota"] ELSE old["quota"]
           period == IF b["period"] # 0 THEN b["period"] ELSE old["period"]
           mem == IF b["mem"] # 0 THEN b["mem"] ELSE old["mem"]
           cpuU == IF b.nano # 0 \/ b.quota # 0 \/ b.period # 0 THEN during ELSE old.cpuUnder
           memU == IF b.mem # 0 THEN during ELSE old.memUnder
           cpuW == Whole(b) /\ (b.quota > 0 \/ old.cpuWhole)
           memW == b.mem > 0 \/ (b.mem = 0 /\ old.memWhole)
<1>3. Updated(old, b) =
          [old EXCEPT !.nano = nano, !.quota = quot, !.period = period, !.mem = mem,
                      !.cpuUnder = cpuU, !.memUnder = memU,
                      !.cpuWhole = cpuW, !.memWhole = memW, !.updates = old.updates + 1]
  BY DEF Updated
<1>4. /\ nano \in Nat /\ quot \in Int /\ period \in Nat /\ mem \in Int
      /\ cpuU \in SUBSET Files /\ memU \in SUBSET Files /\ old.updates + 1 \in 0..MaxUpdates
      /\ cpuW \in BOOLEAN /\ memW \in BOOLEAN
  BY <1>1, <1>2, RequestsAssumption DEF Boxes, Files
<1>5. /\ nano = IF b.nano # 0 THEN b.nano ELSE old.nano
      /\ quot = IF b.quota # 0 THEN b.quota ELSE old.quota
      /\ period = IF b.period # 0 THEN b.period ELSE old.period
      /\ mem = IF b.mem # 0 THEN b.mem ELSE old.mem
  OBVIOUS
<1> HIDE DEF nano, quot, period, mem
<1>6. /\ Updated(old, b) \in Boxes
      /\ Updated(old, b).nano = nano /\ Updated(old, b).quota = quot
      /\ Updated(old, b).period = period /\ Updated(old, b).mem = mem
      /\ Updated(old, b).cpuUnder = cpuU /\ Updated(old, b).memUnder = memU
      /\ Updated(old, b).cpuWhole = cpuW /\ Updated(old, b).memWhole = memW
  <2> HIDE DEF cpuU, memU, cpuW, memW
  <2> QED  BY <1>3, <1>4 DEF Boxes, Files
<1> QED  BY <1>5, <1>6

LEMMA DaemonUpdatesSound == IInv /\ DaemonUpdates => IInv'
<1> SUFFICES ASSUME IInv, DaemonUpdates PROVE IInv'
  OBVIOUS
<1>1. req \in Asked /\ req # NoReq /\ req.op = "update"
  BY AskedAt DEF IInv, DaemonUpdates
<1>2. Updated(box[req.user], req.body) \in Boxes
  BY <1>1, UpdatedIsBox DEF IInv, Staged, Asked
<1>3. box' = box \/ box' = [box EXCEPT ![req.user] = Updated(box[req.user], req.body)]
  BY DEF DaemonUpdates
<1>4. BoxesTyped'
  BY <1>1, <1>2, <1>3 DEF IInv, BoxesTyped
<1> QED  BY <1>4, NothingAsked, ReloadUntouched DEF IInv, DaemonUpdates, Answered

LEMMA RemoveBoxSound == IInv /\ RemoveBox => IInv'
<1> SUFFICES ASSUME IInv, RemoveBox PROVE IInv'
  OBVIOUS
<1>1. BoxesTyped' /\ ReloadSound'
  BY ReloadUntouched DEF IInv, RemoveBox, BoxesTyped
<1>2. Staged'
  BY DEF IInv, RemoveBox, Staged
<1> QED  BY <1>1, <1>2 DEF IInv

LEMMA ReloadSoundStep == IInv /\ Reload => IInv'
<1> SUFFICES ASSUME IInv, Reload PROVE IInv'
  OBVIOUS
<1>1. ReloadSound' /\ quota' \in Files
  BY ReloadKeepsSound DEF IInv, Reload, ReloadSound, ReloadTypeOK, Files
<1>2. /\ UNCHANGED <<req, box>>
      /\ during' = IF req = NoReq THEN {} ELSE during \cup {quota'}
  BY DEF Reload
<1>3. Staged'
  BY <1>1, <1>2 DEF IInv, Staged
<1> QED  BY <1>1, <1>2, <1>3 DEF IInv, BoxesTyped

LEMMA NextIInv == IInv /\ [Next]_vars => IInv'
<1>1. IInv /\ UNCHANGED vars => IInv'
  BY DEF vars, reloadVars, IInv, ReloadSound, ReloadTypeOK, Staged, BoxesTyped
<1> QED  BY <1>1, ReloadSoundStep, CreateSound, UpdateSound, RemoveBoxSound, ReadUserQuotaSound,
            ReadDefaultQuotaSound, CheckRequestSound, DaemonCreatesSound, DaemonUpdatesSound
         DEF Next

LEMMA Invariant == Spec => []IInv
BY InitIInv, NextIInv, PTL DEF Spec

-----------------------------------------------------------------------------
(* Limits. *)

CPUWithin(c, u) == \E cfg \in c.cpuUnder : Limited(CPUOf(c), GetQuota(cfg, u).cpu * Core)
MemWithin(c, u) == \E cfg \in c.memUnder : Limited(c.mem, GetQuota(cfg, u).mem)

\* what holds of a container, and that its quota is not negative while it is whole
Within(c, u) ==
    /\ c.cpuWhole => c.quota >= 0 /\ CPUWithin(c, u)
    /\ c.memWhole => MemWithin(c, u)
AllWithin == \A u \in Users : box[u].live => Within(box[u], u)

LEMMA MadeWithin ==
    ASSUME NEW u \in Users, NEW b \in Limits, NEW d,
           \E cfg \in d : CreateFits(b, GetQuota(cfg, u)),
           Accepted(b.nano, b.quota, b.period)
    PROVE  Within(Made(b, d), u)
<1>1. PICK cfg \in d : CreateFits(b, GetQuota(cfg, u))
  OBVIOUS
<1> DEFINE c == Made(b, d)
<1>2. /\ c.nano = b.nano /\ c.quota = b.quota /\ c.period = b.period /\ c.mem = b.mem
      /\ c.cpuUnder = d /\ c.memUnder = d
      /\ (c.cpuWhole <=> b.quota >= 0) /\ (c.memWhole <=> b.mem >= 0)
  BY DEF Made
<1> HIDE DEF c
<1>3. CPUOf(c) = CPUOf(b)
  BY <1>2 DEF CPUOf
<1> QED  BY <1>1, <1>2, <1>3 DEF CreateFits, Within, CPUWithin, MemWithin, c

LEMMA NotExceedingIsLimited ==
    ASSUME NEW v \in Nat, v > 0, NEW l \in Int, ~Exceeds(v, l)
    PROVE  Limited(v, l)
BY DEF Exceeds, Limited

LEMMA UpdatedWithin ==
    ASSUME IInv, NEW u \in Users, NEW old \in Boxes, old.updates < MaxUpdates, Within(old, u),
           NEW b \in Limits,
           \E cfg \in during : CheckUpdateQuota(b, GetQuota(cfg, u)),
           LET n == Updated(old, b) IN Accepted(n.nano, n.quota, n.period)
    PROVE  Within(Updated(old, b), u)
<1> DEFINE n == Updated(old, b)
<1>1. PICK cfg \in during : CheckUpdateQuota(b, GetQuota(cfg, u))
  OBVIOUS
<1>2. GetQuota(cfg, u) \in Numbers
  BY QuotaIsNumeric DEF IInv, Staged
<1>3. GetQuota(cfg, u).mem \in Int /\ GetQuota(cfg, u).cpu * Core \in Int
  BY <1>2, UnitsAssumption, ProductSign DEF Numbers, Resources
<1>4. /\ b.nano \in Nat /\ b.quota \in Int /\ b.period \in Nat /\ b.mem \in Int
      /\ old.nano \in Nat /\ old.quota \in Int /\ old.period \in Nat /\ old.mem \in Int
  BY DEF Limits, Boxes
<1>5. /\ n.nano = IF b.nano # 0 THEN b.nano ELSE old.nano
      /\ n.quota = IF b.quota # 0 THEN b.quota ELSE old.quota
      /\ n.period = IF b.period # 0 THEN b.period ELSE old.period
      /\ n.mem = IF b.mem # 0 THEN b.mem ELSE old.mem
      /\ n.cpuUnder = IF b.nano # 0 \/ b.quota # 0 \/ b.period # 0
                      THEN during ELSE old.cpuUnder
      /\ n.memUnder = IF b.mem # 0 THEN during ELSE old.memUnder
      /\ n.cpuWhole <=> Whole(b) /\ (b.quota > 0 \/ old.cpuWhole)
      /\ n.memWhole <=> b.mem > 0 \/ (b.mem = 0 /\ old.memWhole)
  BY UpdatedIsBox
<1>6. Accepted(n.nano, n.quota, n.period)
  OBVIOUS
<1> HIDE DEF n
<1>7. n.memWhole => MemWithin(n, u)
  <2>1. CASE b.mem > 0
    <3>1. Limited(b.mem, GetQuota(cfg, u).mem)
      BY <1>1, <1>3, <1>4, <2>1, NotExceedingIsLimited
         DEF CheckUpdateQuota, WithinCPUAndMemory
    <3>2. n.mem = b.mem /\ n.memUnder = during
      BY <1>4, <1>5, <2>1
    <3> QED  BY <3>1, <3>2 DEF MemWithin
  <2>2. CASE b.mem = 0 /\ old.memWhole
    <3>1. n.mem = old.mem /\ n.memUnder = old.memUnder
      BY <1>5, <2>2
    <3> QED  BY <2>2, <3>1 DEF Within, MemWithin
  <2> QED  BY <1>5, <2>1, <2>2
<1>8. n.cpuWhole => n.quota >= 0 /\ CPUWithin(n, u)
  <2> SUFFICES ASSUME n.cpuWhole PROVE n.quota >= 0 /\ CPUWithin(n, u)
    OBVIOUS
  <2>1. /\ b.quota >= 0 /\ (b.quota > 0 <=> b.period > 0)
        /\ b.quota > 0 => effectiveCPUNanos(b) > 0
        /\ b.quota > 0 \/ old.cpuWhole
    BY <1>5 DEF Whole
  <2>2. n.quota >= 0
    BY <1>4, <1>5, <2>1 DEF Within
  <2>3. CASE b.nano # 0 \/ b.quota # 0 \/ b.period # 0
    <3>1. n.cpuUnder = during
      BY <1>5, <2>3
    <3>2. CPUOf(n) = effectiveCPUNanos(b) /\ effectiveCPUNanos(b) > 0
      <4>1. CASE b.nano > 0
        <5>1. n.nano = b.nano /\ n.nano > 0 /\ ~(n.quota < 0)
          BY <1>4, <1>5, <2>2, <4>1
        <5> QED  BY <4>1, <5>1 DEF CPUOf, effectiveCPUNanos
      <4>2. CASE ~(b.nano > 0)
        <5>1. b.quota > 0 /\ b.period > 0 /\ effectiveCPUNanos(b) > 0
          BY <1>4, <2>1, <2>3, <4>2
        <5>2. n.quota = b.quota /\ n.period = b.period
          BY <1>4, <1>5, <5>1
        <5>3. ~(n.nano > 0) /\ ~(n.quota < 0) /\ n.quota > 0 /\ n.period > 0
          BY <1>4, <1>6, <5>1, <5>2 DEF Accepted
        <5>4. CPUOf(n) = (b.quota * Core) \div b.period
          BY <5>2, <5>3 DEF CPUOf
        <5>5. effectiveCPUNanos(b) = (b.quota * Core) \div b.period
          BY <1>4, <4>2, <5>1 DEF effectiveCPUNanos
        <5> QED  BY <5>1, <5>4, <5>5
      <4> QED  BY <4>1, <4>2
    <3>3. Limited(effectiveCPUNanos(b), GetQuota(cfg, u).cpu * Core)
      BY <1>1, <1>3, <3>2, EffectiveIsNat, NotExceedingIsLimited
         DEF CheckUpdateQuota, WithinCPUAndMemory
    <3> QED  BY <2>2, <3>1, <3>2, <3>3 DEF CPUWithin
  <2>4. CASE ~(b.nano # 0 \/ b.quota # 0 \/ b.period # 0)
    <3>1. /\ n.nano = old.nano /\ n.quota = old.quota /\ n.period = old.period
          /\ n.cpuUnder = old.cpuUnder /\ old.cpuWhole
      BY <1>5, <2>1, <2>4
    <3>2. CPUOf(n) = CPUOf(old)
      BY <3>1 DEF CPUOf
    <3> QED  BY <2>2, <3>1, <3>2 DEF Within, CPUWithin
  <2> QED  BY <2>3, <2>4
<1> QED  BY <1>7, <1>8 DEF Within, n

LEMMA LimitsKept ==
    ASSUME IInv, AllWithin, [Next]_vars, BoxesTyped'
    PROVE  AllWithin'
<1>1. ASSUME NEW u \in Users, box[u].live
      PROVE  Within(box[u], u)
  BY <1>1 DEF AllWithin
<1> SUFFICES ASSUME NEW u \in Users, box'[u].live
             PROVE  Within(box'[u], u)
  BY DEF AllWithin
<1>2. CASE box' = box
  BY <1>1, <1>2
<1>3. CASE DaemonCreates /\ box' # box
  <2>1. req \in Asked /\ req # NoReq /\ req.at = "forward" /\ req.op = "create"
    BY <1>3, AskedAt DEF IInv, DaemonCreates
  <2>2. /\ Accepted(req.body.nano, req.body.quota, req.body.period)
        /\ box' = [box EXCEPT ![req.user] = Made(req.body, during)]
    BY <1>3 DEF DaemonCreates, Made
  <2>3. \E cfg \in during : CreateFits(req.body, GetQuota(cfg, req.user))
    BY <2>1 DEF IInv, Staged, Fits
  <2>4. Within(Made(req.body, during), req.user)
    BY <2>1, <2>2, <2>3, MadeWithin DEF Asked
  <2>5. box'[u] = IF u = req.user THEN Made(req.body, during) ELSE box[u]
    BY <2>1, <2>2 DEF IInv, BoxesTyped, Asked
  <2> QED  BY <1>1, <2>4, <2>5
<1>4. CASE DaemonUpdates /\ box' # box
  <2> DEFINE n == Updated(box[req.user], req.body)
  <2>1. req \in Asked /\ req # NoReq /\ req.at = "forward" /\ req.op = "update"
    BY <1>4, AskedAt DEF IInv, DaemonUpdates
  <2>2. Accepted(n.nano, n.quota, n.period) /\ box' = [box EXCEPT ![req.user] = n]
    BY <1>4 DEF DaemonUpdates
  <2>3. \E cfg \in during : CheckUpdateQuota(req.body, GetQuota(cfg, req.user))
    BY <2>1 DEF IInv, Staged, Fits
  <2>4. /\ req.user \in Users /\ req.body \in Limits
        /\ box[req.user] \in Boxes /\ box[req.user].updates < MaxUpdates
    BY <2>1 DEF IInv, Staged, Asked
  <2>5. Within(box[req.user], req.user)
    BY <1>1, <2>4, BoxLive DEF IInv
  <2>6. Within(n, req.user)
    BY <2>2, <2>3, <2>4, <2>5, UpdatedWithin
  <2> HIDE DEF n
  <2>7. box'[u] = IF u = req.user THEN n ELSE box[u]
    BY <2>2 DEF IInv, BoxesTyped
  <2> QED  BY <1>1, <2>6, <2>7
<1>5. CASE RemoveBox
  <2>1. box'[u] = box[u] \/ box'[u] = NoBox
    BY <1>5 DEF RemoveBox, IInv, BoxesTyped
  <2> QED  BY <1>1, <2>1 DEF NoBox
<1> QED  BY <1>2, <1>3, <1>4, <1>5
         DEF Next, Reload, Create, Update, Begin, ReadUserQuota, ReadDefaultQuota, CheckRequest,
             vars

-----------------------------------------------------------------------------
(* Theorems. *)

\* The variables keep their types, and the defaults in force are never negative:
\* both loads refuse a file with such a slip before anything is replaced
\* (LoadQuotaManager, QuotaManager.Reload), in every interleaving of the ticker
\* and the signal handler.
THEOREM TypeCorrect == Spec => []TypeOK
<1>1. IInv => TypeOK
  BY DEF IInv, ReloadSound, Staged, BoxesTyped, TypeOK, Asked, NoReq
<1> QED  BY <1>1, Invariant, PTL

\* For every set of quota files, groups, create and update requests, no reload
\* between the reads of the quota, no default above it and no sequence of
\* updates takes a container beyond a quota its user had while the limit was set
\* (CheckAndInjectQuota, CheckUpdateQuota), as long as the limit in question was
\* given whole; and a whole update brings one that was not back within it.
THEOREM LimitsAlwaysWithinQuota == Spec => []LimitsWithinQuota
<1>1. Init => AllWithin
  BY DEF Init, AllWithin, NoBox
<1>2. IInv /\ AllWithin /\ [Next]_vars /\ IInv' => AllWithin'
  BY LimitsKept DEF IInv
<1>3. AllWithin => LimitsWithinQuota
  BY DEF AllWithin, LimitsWithinQuota, Within, CPUWithin, MemWithin
<1> QED  BY <1>1, <1>2, <1>3, Invariant, PTL DEF Spec

\* Among several groups the highest entry wins, as the comment at quota.go:248
\* says, if none of them lifts the limit: where the user has no entry of his own,
\* GetQuota gives the greatest of the default and his groups' entries, in
\* whichever order the groups are visited.  With an entry 0 it does not: the
\* groups that follow it count as if there were no default.
THEOREM HighestGroupWins ==
    ASSUME NEW cfg, QuotaFile(cfg), NEW u \in Users, NEW f \in Resources,
           f \notin DOMAIN EntryOf(cfg.users, u),
           \A i \in 1..Len(GroupSeq[u]) :
               LET e == EntryOf(cfg.groups, GroupSeq[u][i]) IN f \in DOMAIN e => e[f] # 0
    PROVE  LET named == {i \in 1..Len(GroupSeq[u]) :
                             f \in DOMAIN EntryOf(cfg.groups, GroupSeq[u][i])}
               given == {cfg.defaults[f]} \cup
                        {EntryOf(cfg.groups, GroupSeq[u][i])[f] : i \in named}
           IN  /\ GetQuota(cfg, u)[f] \in given
               /\ \A v \in given : v <= GetQuota(cfg, u)[f]
<1> DEFINE r == RaisedByGroups(cfg, u)
           e(i) == EntryOf(cfg.groups, GroupSeq[u][i])
           N == Len(GroupSeq[u])
           given(k) == {cfg.defaults[f]} \cup {e(i)[f] : i \in {j \in 1..k : f \in DOMAIN e(j)}}
           S == {k \in Nat : k <= N => /\ r[k][f] \in given(k)
                                       /\ \A v \in given(k) : v <= r[k][f]}
<1>1. r = [k \in Nat |-> IF k = 0 THEN cfg.defaults ELSE Raised(r[k - 1], e(k))]
  BY RaisedByGroupsEquation
<1>2. \A k \in Nat : r[k] \in Numbers
  BY RaisedByGroupsIsNumeric
<1>3. cfg.defaults[f] \in Int /\ N \in Nat
  BY UnitsAssumption DEF QuotaFile
<1>4. GetQuota(cfg, u)[f] = r[N][f]
  BY DEF GetQuota
<1>5. \A i : Numeric(e(i))
  BY DEF EntryOf, QuotaFile, Numeric
<1>6. \A i \in 1..N : f \in DOMAIN e(i) => e(i)[f] # 0
  OBVIOUS
<1> HIDE DEF r, e, N
<1>7. 0 \in S
  <2>1. r[0] = cfg.defaults /\ given(0) = {cfg.defaults[f]}
    BY <1>1
  <2> QED  BY <1>3, <2>1
<1>8. ASSUME NEW k \in Nat, k \in S
      PROVE  k + 1 \in S
  <2> SUFFICES ASSUME k + 1 <= N
               PROVE  /\ r[k + 1][f] \in given(k + 1)
                      /\ \A v \in given(k + 1) : v <= r[k + 1][f]
    OBVIOUS
  <2>1. r[k][f] \in given(k) /\ \A v \in given(k) : v <= r[k][f]
    BY <1>3, <1>8
  <2>2. r[k + 1][f] = IF f \in DOMAIN e(k + 1) /\ (e(k + 1)[f] = 0 \/ e(k + 1)[f] > r[k][f])
                      THEN e(k + 1)[f] ELSE r[k][f]
    <3>1. r[k + 1] = Raised(r[k], e(k + 1))
      BY <1>1
    <3> QED  BY <3>1 DEF Raised
  <2>3. /\ r[k][f] \in Int
        /\ f \in DOMAIN e(k + 1) => e(k + 1)[f] \in Int /\ e(k + 1)[f] # 0
    BY <1>2, <1>3, <1>5, <1>6 DEF Numbers, Numeric
  <2>4. given(k + 1) = given(k) \cup (IF f \in DOMAIN e(k + 1) THEN {e(k + 1)[f]} ELSE {})
    <3>1. 1..(k + 1) = (1..k) \cup {k + 1}
      OBVIOUS
    <3> QED  BY <3>1, Zenon
  <2>5. given(k) \subseteq Int
    <3>1. \A i : f \in DOMAIN e(i) => e(i)[f] \in Int
      BY <1>5 DEF Numeric
    <3> QED  BY <1>3, <3>1
  <2> HIDE DEF given
  <2> QED  BY <2>1, <2>2, <2>3, <2>4, <2>5
<1>9. Nat \subseteq S
  <2> HIDE DEF S
  <2> QED  BY <1>7, <1>8, InductionOverNat
<1>10. r[N][f] \in given(N) /\ \A v \in given(N) : v <= r[N][f]
  BY <1>3, <1>9
<1> QED  BY <1>4, <1>10, Zenon DEF e, N
=============================================================================
