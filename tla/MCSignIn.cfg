SPECIFICATION Spec
CONSTANTS
    Req = {q1, q2}
    Password = {p1, p2}
    Secret = {s1, s2}
    Limit = 2
    Window = 2
    TokenTTL = 1
    SudoTTL = 2
    MaxTime = 3
    MaxLost = 1
    None = None
SYMMETRY Symmetry
INVARIANTS TypeOK SignInGuarded RateHolds
CHECK_DEADLOCK FALSE
