SPECIFICATION Spec
CONSTANTS
    c1 = c1  c2 = c2  n1 = n1  n2 = n2  v1 = v1  v2 = v2
    Callers <- TwoCallers
    Names <- TwoNames
    Contents <- OneContent
    Empty = Empty
    NoSet = NoSet
    NoCaller = NoCaller
    Faults <- FaultKinds
INVARIANTS TypeOK UndoLog
PROPERTIES RollbackRestores CommitInstalls
SYMMETRY Symmetry
