CONSTANTS
    root = root
    alice = alice
    bob = bob
    RootUid = root
    Uids = {root, alice, bob}
    Users = {alice, bob}
    NetIds = {n1}
    SwarmIds = {s1}
    Bases = {b1}
    NoBase = NoBase
    NoId = NoId
    NoName = NoName
    Callers <- OneSudo
    Workers = {w1}
    MaxRestarts = 1
    AnswersMayBeLost = TRUE
SPECIFICATION Spec
INVARIANTS RowsMatchResources
PROPERTIES RegularActsOnOwn
