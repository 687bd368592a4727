CONSTANTS
    p1 = p1 p2 = p2 db = db secret = secret pkiDir = pkiDir ccdDir = ccdDir key = key
    Pages <- TwoPages
    Subnets = {10, 11}
    Ports = {1194, 443}
    NoSubnet = 0 StdPort = 1194 NoConf = NoConf Free = Free
    MaxFaults = 1 MaxCrashes = 1 MaxCas = 2
    Instances = {1, 2}
    Profiles = {f1}
    Conns = {c1, c2}
    Lans = {l1}
    Nets = {n1, n2}
    Modes = {m1, m2}
    Torn = Torn
    MaxTrouble = 2 MaxCrashes2 = 1
    Daemons = {1, 2}
    MaxFails = 2 MaxTries = 2 MaxLosses = 1
    Order <- FiveParts
    Folders <- TwoFolders
    Needed <- ThreeNeeded
    Optional <- OneOptional
    Panels = {a}
    Gone = Gone Empty = Empty NoArchive = NoArchive
    MaxChanges = 1 MaxErrors = 2 MaxOutages = 1 MaxRounds = 3
SPECIFICATION WizardOnly
SYMMETRY Symmetry
CONSTRAINT Apart
INVARIANT ListensOnPort
CHECK_DEADLOCK FALSE
