CONSTANTS
    r1 = r1
    r2 = r2
    Requests <- MCRequests
    Life = 3
    Patience = 1
    Horizon = 8
    MaxSerial = 5
    Relogin = TRUE
    Overlap = FALSE
    Timed = TRUE
    Rotates = FALSE
    Omits = FALSE

SPECIFICATION Spec

CHECK_DEADLOCK FALSE

INVARIANT
    PodTokenValid
