---------------------------- MODULE MCWorkerNode ----------------------------
(* Small instances of WorkerNode for TLC. *)
EXTENDS WorkerNode, TLC

\* The second version has lost a file of the first, and brings an input; the third
\* is kept where nothing of it is shipped.
SomeVersions == {1, 2, 3}
SomeContents == 1 :> {"a", "b"} @@ 2 :> {"a"} @@ 3 :> {"a", "b"}
SomeInputs   == 1 :> {} @@ 2 :> {"data"} @@ 3 :> {}

\* The worker's threads are alike.
Alike == Permutations(Threads)
=============================================================================
