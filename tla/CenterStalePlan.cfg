SPECIFICATION AllSpec
CONSTANTS
    c1 = c1  c2 = c2  n1 = n1  n2 = n2  v1 = v1  v2 = v2
    group = group  tag = tag  peers = peers
    Callers <- TwoCallers
    Names <- OneName
    Contents <- OneContent
    Owners <- AllOwners
    PeerOwner = peers
    OwnerOf <- GroupOnly
    Empty = Empty
    NoSet = NoSet
    NoCaller = NoCaller
    Faults <- NoFaults
INVARIANTS KernelFollowsDb
CONSTRAINT NoUserCreated
