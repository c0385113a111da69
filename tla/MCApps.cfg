SPECIFICATION Spec
CONSTANTS
    db = db
    web = web
    extra = extra
    i1 = i1
    i2 = i2
    Image = {i1, i2}
    None = None
    Partial = Partial
    MaxFaults = 2
    App <- MCApp
    Builtin <- MCBuiltin
    Release <- MCRelease
INVARIANTS
    TypeOK
    StubsCover
    DepsInPlace
    UninstallOrder
    FaultsBoundDrift
    Settled
PROPERTIES
    Terminates
