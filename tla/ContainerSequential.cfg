CONSTANTS
    root = root
    alice = alice
    bob = bob
    NoContainer = NoContainer
    RootUid = root
    Uids = {root, alice, bob}
    Containers = {c1, c2}
    Ports = {p1, p2}
    Workers = {w1}
    Ops = {"create", "start", "rm", "prune"}
    Callers <- RegularAndRoot
    MaxContainers = 1
    MaxRestarts = 0
    MaxCuts = 0
    RepliesMayBeLost = FALSE
    LabelFetchMayFail = FALSE
SPECIFICATION FairSpec
INVARIANTS QuotaHolds PortsExclusive NoRowsOfGone
PROPERTIES RowsReleased
