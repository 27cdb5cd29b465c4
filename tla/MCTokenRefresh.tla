--------------------------- MODULE MCTokenRefresh ---------------------------
(* Small instances of TokenRefresh for TLC: tokens live three ticks, a       *)
(* request at most one.                                                      *)
EXTENDS TokenRefresh, TLC

CONSTANTS r1, r2
MCRequests == {r1, r2}

\* The slots are interchangeable.
Slots == Permutations(MCRequests)
=============================================================================
