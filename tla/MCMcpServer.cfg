SPECIFICATION FairSpec
CONSTANTS
    Names = {a, b}
    MaxSpawns = 2
    NoName = none
    OutsiderPort = 9
    Receivers = {1, 2, 3}
INVARIANTS
    NoOrphans
    FleetOpReachesAll
PROPERTIES
    FleetTornDown
CHECK_DEADLOCK FALSE
