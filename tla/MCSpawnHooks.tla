---------------------------- MODULE MCSpawnHooks ----------------------------
(* Small instances of SpawnHooks for TLC. *)
EXTENDS SpawnHooks, TLC

CONSTANTS ann, bob, nameA, nameB

\* Every user has names of their own.
MCUsers == {ann, bob}
MCNames == {nameA, nameB}
OwnNames == (ann :> nameA) @@ (bob :> nameB)

\* The first 58 characters of the escaped names agree: the object names are cut alike.
SharedName == (ann :> nameA) @@ (bob :> nameA)

=============================================================================
