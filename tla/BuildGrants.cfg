CONSTANTS
    root = root
    alice = alice
    bob = bob
    app = app
    RootUid = root
    Uids = {root, alice, bob}
    Images = {i1, i2}
    Refs <- TwoTags
    Nets = {}
    Vols = {}
    Callers <- BothRegular
    Kinds = {"build", "buildkit"}
    MaxOps = 2
    NoImage = NoImage
    NoRef = NoRef
    NoReader = NoReader
SPECIFICATION Spec
PROPERTIES TracksOwnTags
CHECK_DEADLOCK FALSE
