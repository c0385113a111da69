SPECIFICATION Spec
CONSTANTS
    MaxVersion = 3
    MaxKeys = 3
    MaxFaults = 3
    None = None
INVARIANTS TypeOK InitNotCutOff KeyAgrees Bootable
PROPERTIES OSLands
CHECK_DEADLOCK FALSE
