CONSTANTS
    Threads = {t1, t2}
    Ports = {8001, 5678}
    NannyPort = 8001
    Versions <- SomeVersions
    Files = {"a", "b"}
    Contents <- SomeContents
    Extras = {"data"}
    InputsOf <- SomeInputs
    Hidden = {3}
    Regs = 2

SPECIFICATION Spec

SYMMETRY Alike

INVARIANTS
    TypeOK
    WaitsAtAPort
    RefusedOnlyIfCrossed
    WorkerRunsRegistered
    NothingLeftUnlessFailed
