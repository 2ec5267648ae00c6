\* Two requests at a time, one of which may break off: Mongo and Redis against each other.
SPECIFICATION BookSpec
CONSTANTS
    r1 = r1
    r2 = r2
    a1 = a1
    a2 = a2
    a3 = a3
    acct = acct
    home = home
    away = away
    None = None
    Addresses <- ThreeAddresses
    Visitors <- Everybody
    Requests <- TwoRequests
    TTL = 2
    MaxClock = 3
    MaxFailures = 1
SYMMETRY BookSymmetry
CHECK_DEADLOCK FALSE
INVARIANTS
    BookTypeOK
    LiveBound
    ReplacedRefused
    WaitingAccepted
