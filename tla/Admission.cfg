CONSTANTS
    root = root
    alice = alice
    bob = bob
    staff = staff
    c1 = c1
    c2 = c2
    NoUid = NoUid
    RootUid = root
    Uids = {root, alice, bob}
    Gids = {staff}
    GroupsOf <- Groups
    Conns = {c1, c2}
    ClientsOf <- Clients
    ChangesOf <- Changes
    CallsOf <- Requests
    Configs <- Files
    MaxShort = 1
    MaxStreams = 1
SPECIFICATION FairSpec
INVARIANTS TypeOK PolicyGoverns ServedAsItself
PROPERTIES ShortSlotsFreed
