------------------------------ MODULE MCQuotas ------------------------------
(* Instances of Quotas for TLC. *)
EXTENDS Quotas, TLC

CONSTANTS alice, staff, dev

Entry(cpu, mem, storage) == [cpu |-> cpu, mem |-> mem, storage |-> storage]
File(defaults, users, groups) ==
    [parses |-> TRUE, defaults |-> defaults, users |-> users, groups |-> groups]

\* a default above alice's quota; a group that raises it; a slip in a default
Small == File(Entry(2, 2, 1), alice :> [cpu |-> 1, mem |-> 1], staff :> [cpu |-> 4])
Large == File(Entry(1, 0, 0), <<>>, (staff :> [cpu |-> 2, mem |-> 2]) @@ (dev :> [cpu |-> 4]))
Slip == File(Entry(-1, 1, 1), <<>>, <<>>)
Files == {Small, Large, Slip}

Order == alice :> <<staff, dev>>

Body(n, q, p, m) ==
    [nano |-> n, quota |-> q, period |-> p, mem |-> m, size |-> NoSize]
\* nothing, a CPU quota with its period, no CPU limit
Creates == {Body(0, 0, 0, 0), Body(0, 2, 1, 2), Body(0, -1, 0, 0)}
\* nanocpus, a quota with its period, the period alone, no memory limit
Changes == {Body(2, 0, 0, 1), Body(0, 1, 1, 0), Body(0, 0, 1, 0), Body(0, 0, 0, -1)}
=============================================================================
