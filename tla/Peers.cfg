CONSTANTS
    alice = alice
    bob = bob
    a1 = a1
    a2 = a2
    b1 = b1
    Users = {alice, bob}
    Containers = {a1, a2, b1}
    Owner <- OwnerOf
    Nets = {n1, n2}
    Pairs = {{alice, bob}}
    ContPairs = {{a1, b1}}
    Workers = {w1, w2}
    NoNet = NoNet
    NoContainer = NoContainer
    NoPeering = NoPeering
SPECIFICATION Spec
SYMMETRY Symmetry
INVARIANTS PeersOnly NetworksMatchRows PeersConnected
