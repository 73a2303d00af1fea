--------------------------- MODULE OwnedContainers ---------------------------
(***************************************************************************)
(* What the proxy promises about containers, whatever its tables say: they *)
(* behave as those of a daemon that knows its users.  A container has the  *)
(* caller it was created for as its creator, for good; it is started and   *)
(* removed by requests of its creator or of a privileged caller only, or   *)
(* ends by itself; and once gone it stays so.  There are no tables, labels *)
(* or events here: ContainerLifecycle has them and implements this module. *)
(***************************************************************************)
EXTENDS CallerIdentity

CONSTANTS Containers, Workers

VARIABLES
    state,      \* "unused", "stopped", "running" or "gone"
    creator,    \* the caller each container was created for
    busy,       \* the workers that serve a request
    who         \* the caller each of them serves

vars == <<state, creator, busy, who>>

Init ==
    /\ state = [c \in Containers |-> "unused"]
    /\ creator = [c \in Containers |-> Root]
    /\ busy = {}
    /\ who = [w \in Workers |-> Root]

Live(c) == state[c] \in {"stopped", "running"}
Entitled(id, c) == IsPrivileged(id) \/ creator[c].uid = id.uid

Gone(S) == state' = [c \in Containers |-> IF c \in S THEN "gone" ELSE state[c]]

Goes(w) == UNCHANGED <<busy, who>>
Returns(w) == busy' = busy \ {w} /\ who' = [who EXCEPT ![w] = Root]

\* a request is taken up; one that removes at once is as entitled as any other
Accept(w, id) ==
    /\ w \notin busy
    /\ busy' = busy \cup {w} /\ who' = [who EXCEPT ![w] = id]
    /\ \E S \in SUBSET {c \in Containers : Live(c) /\ Entitled(id, c)} : Gone(S)
    /\ UNCHANGED creator

\* the effects a request may have, any number of times, and its end
Create(w) ==
    /\ w \in busy
    /\ \E c \in Containers :
        /\ state[c] = "unused"
        /\ state' = [state EXCEPT ![c] = "stopped"]
        /\ creator' = [creator EXCEPT ![c] = who[w]]
    /\ Goes(w) \/ Returns(w)

Start(w) ==
    /\ w \in busy
    /\ \E c \in Containers :
        /\ state[c] = "stopped" /\ Entitled(who[w], c)
        /\ state' = [state EXCEPT ![c] = "running"]
    /\ Goes(w) \/ Returns(w)
    /\ UNCHANGED creator

Remove(w) ==
    /\ w \in busy
    /\ \E c \in Containers : Live(c) /\ Entitled(who[w], c) /\ Gone({c})
    /\ Goes(w) \/ Returns(w)
    /\ UNCHANGED creator

Return(w) ==
    /\ w \in busy
    /\ Returns(w)
    /\ UNCHANGED <<state, creator>>

\* a running container stops, or goes away if it was started with --rm
End(c) ==
    /\ state[c] = "running"
    /\ state' = [state EXCEPT ![c] = "stopped"] \/ Gone({c})
    /\ UNCHANGED <<creator, busy, who>>

\* the proxy dies and starts again: its requests are lost, the containers stay
Crash ==
    /\ busy' = {} /\ who' = [w \in Workers |-> Root]
    /\ UNCHANGED <<state, creator>>

Next ==
    \/ \E w \in Workers :
        \/ \E id \in Identities : Accept(w, id)
        \/ Create(w) \/ Start(w) \/ Remove(w) \/ Return(w)
    \/ \E c \in Containers : End(c)
    \/ Crash

Spec == Init /\ [][Next]_vars
=============================================================================
