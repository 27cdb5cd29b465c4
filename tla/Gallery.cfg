CONSTANTS
    Jobs <- GalleryJobs
    Workers = {1, 2}
    MaxLost = 1
    Post <- PostOf

SPECIFICATION Spec

CHECK_DEADLOCK FALSE

INVARIANTS
    ExactlyOnce
    ResultIsSum
    ChunkingIrrelevant
    AsDescribed
    CutflowAgrees

PROPERTIES
    Ends
