--------------------------- MODULE MCWorkerBringup ---------------------------
(* Small instances of WorkerBringup for TLC: the wait has three rounds. *)
EXTENDS WorkerBringup

AllModes == {"worker", "sidecar", "ci"}
=============================================================================
