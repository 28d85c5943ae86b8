SPECIFICATION Spec
CONSTANTS
    a = a
    b = b
    c = c
    Devices = {a, b, c}
    Serial <- MCSerial
    NoSerial = ""
    Port <- MCPort
    Buses <- MCBuses
    Selectors <- MCSelectors
    MaxHotplugs = 1
    Commands <- MCCommands
    StorageLists <- MCStorageLists
    Files = {0, 2}
    Capacity = 2
INVARIANTS
    TypeOK
    OpensTheSelected
    EventsKeepTheirOrder
    ExitCodeTellsTheTruth
    ToldHowItEnded
PROPERTIES
    CommandEnds
\* The program ends: CommandEnds says that it stops nowhere else.
CHECK_DEADLOCK FALSE
