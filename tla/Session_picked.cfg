SPECIFICATION Spec
CONSTANTS
    a = a
    b = b
    c = c
    Devices = {a, b, c}
    Serial <- MCSerial
    NoSerial = ""
    Port <- MCPort
    Buses <- MCBuses
    Selectors <- MCSelectors
    MaxHotplugs = 1
    Commands <- MCOneCommand
    StorageLists <- MCStorageLists
    Files = {0, 2}
    Capacity = 2
INVARIANTS
    OpensThePicked
\* The program ends.
CHECK_DEADLOCK FALSE
