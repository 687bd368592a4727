SPECIFICATION Spec
CONSTANTS
    web = web  group = group  user = user  newuser = newuser
    Procs <- OneProc
    Rows <- AllRows
    Kinds = 2
    KindOf <- GroupsFirst
    MaxCrashes = 2
    MaxErrors = 2
INVARIANTS TypeOK LegacyKept ServesMigrated
PROPERTIES MigratesOnce StartsUp
