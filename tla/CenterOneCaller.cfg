SPECIFICATION AllSpec
CONSTANTS
    c1 = c1  c2 = c2  n1 = n1  n2 = n2  v1 = v1  v2 = v2
    group = group  tag = tag  peers = peers
    Callers <- OneCaller
    Names <- TwoNames
    Contents <- OneContent
    Owners <- AllOwners
    PeerOwner = peers
    OwnerOf <- GroupAndPeers
    Empty = Empty
    NoSet = NoSet
    NoCaller = NoCaller
    Faults <- CallFaults
INVARIANTS AllTypeOK KernelFollowsDb
PROPERTIES FailedCallRestoresRules CallReturns
