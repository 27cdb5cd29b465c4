CONSTANTS
    Limit = 7
    PoolPassword <- Password
    Macaroons = FALSE
    Users = {"alice", "bob"}
    Namings <- Names
    Asked <- OneChange
    Ips = {ip1, ip2}
    MaxSpawns = 3
    MaxClusters = 2
    MaxJobs = 1

SPECIFICATION Spec

CHECK_DEADLOCK FALSE

INVARIANTS
    TypeOK
    OwnSession
    TokenAccepted
    

PROPERTIES
    TurnedAwayOnlyIfGone
    WorkersReleased
    SidecarComes
