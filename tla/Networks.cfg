CONSTANTS
    root = root
    alice = alice
    bob = bob
    RootUid = root
    Uids = {root, alice, bob}
    Users = {alice}
    NetIds = {n1, n2}
    SwarmIds = {}
    Bases = {b1}
    NoBase = NoBase
    NoId = NoId
    NoName = NoName
    Callers <- BobSudo
    Workers = {w1, w2}
    MaxRestarts = 0
    AnswersMayBeLost = TRUE
SPECIFICATION Spec
SYMMETRY SymIds
INVARIANTS RowsHonest RowsMatchResources ListedIsUsable MadeIsListed
PROPERTIES RegularActsOnOwn
