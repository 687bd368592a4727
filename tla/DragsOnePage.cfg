CONSTANTS
    laptop = laptop phone = phone mac = mac model = model
    RuleIds = {1, 2}
    Owned = {1}
    Sizes = {1, 2}
    Step = 2 MaxPriority = 4
    BackupPrio <- BackupFile
    NoGrid = NoGrid NoRule = NoRule
    MaxLoads = 2 MaxEdits = 2
    VpnUsers = {alice}
    Devices = {laptop, phone}
    HwOf <- Hardware
    WeakOf <- Model
    NoPrint = NoPrint
    Gates = {udp, tcp}
    Slots = {1, 2}
    NoFile = NoFile
    MaxStops = 1 MaxResets = 1 MaxVisits = 4
    Logins = {1, 2}
    Batches <- TwoLists
    PageSizes = {1, 2}
    NoTable = NoTable Nobody = Nobody
    MaxJobs = 2 MaxChangesU = 2 MaxFailsU = 1
SPECIFICATION RulesOnly
INVARIANT DragsWholeList
CHECK_DEADLOCK FALSE
