SPECIFICATION Spec
CONSTANTS
    a1 = a1
    a2 = a2
    a3 = a3
    None = None
    App <- MCApp
    Manifest <- MCManifest
INVARIANTS
    FindsClosure
    RefusesRightly
PROPERTIES
    Ends
CHECK_DEADLOCK FALSE
