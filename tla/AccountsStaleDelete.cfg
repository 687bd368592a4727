SPECIFICATION Spec
CONSTANTS
    c1 = c1  c2 = c2  u1 = u1  u2 = u2  root = root  dev = dev
    pool = pool  low = low
    Callers <- OneCaller
    Users <- TwoUsers
    Groups <- TwoGroups
    Subnets <- Nets
    Root = root
    RootNet = pool
    Hosts <- HostsOf
    NoUser = NoUser
    NoGroup = NoGroup
    NoCaller = NoCaller
    Faults <- NoFaults
    Overlap <- Concurrent
    Stale = TRUE
    MaxCerts = 2
    MaxCount = 2
INVARIANTS GroupsKeepUsers
