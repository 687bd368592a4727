SPECIFICATION Spec
CONSTANTS
    c1 = c1  c2 = c2  u1 = u1  u2 = u2  root = root  dev = dev
    pool = pool  low = low
    Callers <- TwoCallers
    Users <- TwoUsers
    Groups <- TwoGroups
    Subnets <- Nets
    Root = root
    RootNet = pool
    Hosts <- HostsOf
    NoUser = NoUser
    NoGroup = NoGroup
    NoCaller = NoCaller
    Faults <- FaultKinds
    Overlap <- Concurrent
    Stale = FALSE
    MaxCerts = 2
    MaxCount = 2
INVARIANTS TypeOK AddressesUnique CountsMatch DisabledEnforced RevokedWhenDeleted ProfileCurrent
CONSTRAINT FewFailures
SYMMETRY Symmetry
