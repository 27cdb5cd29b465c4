----------------------------- MODULE UserServer -----------------------------
(***************************************************************************)
(* What the hub promises of a user's notebook server and of the endpoint   *)
(* (the service and the ingress) its Dask scheduler is reached through:    *)
(* the endpoint changes only while the server is neither up nor down, and  *)
(* the server comes up only with its endpoint in place. SpawnHooks         *)
(* implements it.                                                          *)
(***************************************************************************)
CONSTANT Users

VARIABLES
    status,   \* of each user's server: "down", "changing" or "up"
    served    \* the users whose endpoint is in place

vars == <<status, served>>

Init ==
    /\ status = [u \in Users |-> "down"]
    /\ served = {}

Become(u, from, to) ==
    /\ status[u] = from
    /\ status' = [status EXCEPT ![u] = to]

\* A server is asked for, or one that is up is to be stopped.
Begin(u) ==
    /\ Become(u, "down", "changing") \/ Become(u, "up", "changing")
    /\ UNCHANGED served

Publish(u) ==
    /\ status[u] = "changing"
    /\ served' = served \cup {u}
    /\ UNCHANGED status

Withdraw(u) ==
    /\ status[u] = "changing"
    /\ served' = served \ {u}
    /\ UNCHANGED status

ComeUp(u) ==
    /\ u \in served
    /\ Become(u, "changing", "up")
    /\ UNCHANGED served

\* The server is down; what was left of its endpoint may go with it.
GoDown(u) ==
    /\ Become(u, "changing", "down")
    /\ served' \in {served, served \ {u}}

\* The hub restarts: it forgets some servers and looks at the others again.
Restart ==
    /\ \E forgotten \in SUBSET Users :
          status' = [u \in Users |->
              IF status[u] = "down" \/ u \in forgotten THEN "down" ELSE "changing"]
    /\ UNCHANGED served

Next ==
    \/ \E u \in Users : Begin(u) \/ Publish(u) \/ Withdraw(u) \/ ComeUp(u) \/ GoDown(u)
    \/ Restart

Spec == Init /\ [][Next]_vars
=============================================================================
