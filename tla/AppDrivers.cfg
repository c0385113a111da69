SPECIFICATION Spec
CONSTANTS
    MinVersion = 1
    MaxVersion = 3
    App = {"redis", "postgres", "nextcloud"}
    None = None
    Torn = Torn
    Empty = Empty
    MaxTroubles = 2
INVARIANTS TypeOK NoRungSkipped OneFaultRecovers
PROPERTIES ChangeContract UpdatesLand
