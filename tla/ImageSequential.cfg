CONSTANTS
    root = root
    alice = alice
    bob = bob
    i1 = i1
    d1 = d1
    NoImage = NoImage
    RootUid = root
    Uids = {root, alice, bob}
    Images = {i1}
    ConfigOf <- OneImage
    Tags = {t1, t2}
    Workers = {w1}
    Ops = {"pull", "build", "load", "commit", "import", "tag", "create", "rmi", "prune"}
    Callers <- RegularAndRoot
    Grantees = {alice}
    MaxRestarts = 0
    LookupMayFail = FALSE
SPECIFICATION Spec
INVARIANTS OwnerHasReference NoStaleRows OwnerChangesOnce
PROPERTIES OnlyOwnerDeletes RmiRespectsReferences
