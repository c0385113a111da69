SPECIFICATION Spec
CONSTANTS
    r1 = r1
    r2 = r2
    hand = hand
    i1 = i1
    i2 = i2
    Cont = {c1, c2}
    Image = {i1, i2}
    None = None
    Mixed = Mixed
    Empty = Empty
    MaxFaults = 2
    Release <- MCRelease
    Manual <- MCManual
    Jarvis <- MCJarvis
INVARIANTS
    TypeOK
    OneWorker
    CoreAlive
    JournalCovers
PROPERTIES
    JournalSpec
    UpdateLands
