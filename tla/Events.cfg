CONSTANTS
    root = root
    alice = alice
    bob = bob
    app = app
    RootUid = root
    Uids = {root, alice, bob}
    Images = {i1}
    Refs <- Latest
    Nets = {net1}
    Vols = {vol1}
    Callers <- OneSudo
    Kinds = {"pull", "build", "commit", "load", "buildkit", "rmi", "create", "remove"}
    MaxOps = 2
    NoImage = NoImage
    NoRef = NoRef
    NoReader = NoReader
SPECIFICATION Spec
INVARIANTS  OwnEventsShown EntriesExpire
CHECK_DEADLOCK FALSE
