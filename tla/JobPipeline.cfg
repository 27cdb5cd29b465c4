CONSTANTS
    Builds = 3
    Ports = {8786, 8787}
    Securities <- Security
    Layouts = {"empty", "joined", "split"}
    Tries = 1

SPECIFICATION Spec

CHECK_DEADLOCK FALSE

INVARIANTS
    TypeOK
    NewestConnects
    WorkerArmed
