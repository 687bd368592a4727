CONSTANTS
    p1 = p1 p2 = p2 u1 = u1 u2 = u2 g1 = g1 g2 = g2 lan = lan
    t1 = t1 t2 = t2 r1 = r1 r2 = r2
    Peers <- TwoPeers
    Members <- TwoUsers
    Teams <- TwoTeams
    Nets <- OneNet
    Nobody = Nobody
    NoPeer = NoPeer
    SiteFaults = {"forward", "ccd", "crash"}
    Sites <- TwoPeers
    Mesh = Mesh
    Addresses = {1, 2}
    Routes = {1, 2}
    MaxTorn = 2
    MaxProfile = 2
    HostFaults = {"ssh", "start", "ignored"}
    Tasks <- TwoTasks
    Rules <- TwoRules
    SiteRule = r1
    NoTask = NoTask
    ChainFaults = {"ssh", "disk", "crash", "ignored"}
    Together <- Guarding
    MaxRows = 2
SPECIFICATION PeersSpec
SYMMETRY Symmetry
CONSTRAINT OneTrouble
INVARIANTS PeersTypeOK ServedAsStored MeshAsStored OwnLinesSafe PartsAsMeant
    AssembledIsServing SiteExact
    PendingTellsTheTruth AgreedRowsKept
CHECK_DEADLOCK FALSE
