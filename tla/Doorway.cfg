SPECIFICATION Spec
CONSTANTS
    Sub = {"files", "notes"}
    AppDomain = {"notes"}
    Main = "home"
    External = FALSE
    Client = {c1, c2}
    None = None
    MaxFaults = 3
    MaxKeys = 3
    MaxCommands = 3
INVARIANTS TypeOK KeyAgrees AckedRouted
CHECK_DEADLOCK FALSE
