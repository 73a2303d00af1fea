CONSTANTS
    root = root
    alice = alice
    bob = bob
    i1 = i1
    d1 = d1
    NoImage = NoImage
    RootUid = root
    Uids = {root, alice}
    Images = {i1, d1}
    ConfigOf <- DigestOfOne
    Tags = {}
    Workers = {w1, w2}
    Ops = {"pull", "create", "rmi", "prune", "ctl"}
    Callers <- AliceAndSudo
    Grantees = {alice}
    MaxRestarts = 1
    LookupMayFail = TRUE
SPECIFICATION Spec
SYMMETRY SymWorkers
INVARIANTS WritesKnowImage RegisteredPullVisible PullerMayCreate
