CONSTANTS
    root = root
    alice = alice
    bob = bob
    b1 = b1
    h1 = h1
    RootUid = root
    Uids = {root, alice, bob}
    Bare = Bare
    Namespaces <- TwoNamespaces
    NoVolume = NoVolume
    Bases = {b1, h1}
    HexBases = {h1}
    Callers <- TwoUsers
    NamesOf <- Used
    Workers = {w1}
    MaxRestarts = 1
    AnswersMayBeLost = TRUE
SPECIFICATION FairSpec
PROPERTIES RegularStaysInNamespace OnlyOwnerRemovesVolume CleanupSparesRegistered OrphansCleaned
