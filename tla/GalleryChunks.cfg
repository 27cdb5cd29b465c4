CONSTANTS
    Jobs <- ThirdLeptonJobs
    Workers = {1, 2}
    MaxLost = 0
    Post <- PostOf

SPECIFICATION Spec

CHECK_DEADLOCK FALSE

INVARIANTS
    ChunkingIrrelevant
