CONSTANTS
    root = root
    alice = alice
    bob = bob
    NoContainer = NoContainer
    RootUid = root
    Uids = {root, alice, bob}
    Containers = {c1, c2}
    Ports = {}
    Workers = {w1, w2}
    Ops = {"create", "start", "rm", "prune"}
    Callers <- AliceAndSudo
    MaxContainers = 0
    MaxRestarts = 1
    MaxCuts = 1
    RepliesMayBeLost = TRUE
    LabelFetchMayFail = FALSE
SPECIFICATION Spec
SYMMETRY SymAll
INVARIANTS RowsMatchLabels OwnerKeepsContainer
PROPERTIES KeepsPromise
