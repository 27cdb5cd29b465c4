CONSTANTS
    r1 = r1
    r2 = r2
    Requests <- MCRequests
    Life = 3
    Patience = 1
    Horizon = 6
    MaxSerial = 3
    Relogin = TRUE
    Overlap = TRUE
    Timed = TRUE
    Rotates = TRUE
    Omits = TRUE

SPECIFICATION Spec

SYMMETRY Slots

CHECK_DEADLOCK FALSE

INVARIANTS
    TypeOK
    StaleOnlyIfCrossed
    BehindOnlyIfCrossed
    SessionRenewable
