-------------------------- MODULE SpawnHooks_proofs --------------------------
(***************************************************************************)
(* Proofs about SpawnHooks, for any users, names and kind of database.     *)
(***************************************************************************)
EXTENDS SpawnHooks, TLAPS

USE DEF Lifecycle, PreSpawn, PostStop, Starting, Entries, process

\* Every variable keeps its type, and at most one user's hook is between its awaits: the
\* one that has the event loop.
THEOREM TypeCorrect == Spec => []TypeOK
<1>1. Init => TypeOK
  BY NameAssumption, NobodyAssumption DEF Init, TypeOK, Synchronous
<1>2. TypeOK /\ [Next]_vars => TypeOK'
  <2> SUFFICES ASSUME TypeOK, [Next]_vars PROVE TypeOK'
    OBVIOUS
  <2> USE NameAssumption, NobodyAssumption DEF TypeOK, Synchronous, Holds, Ready, Goto
  <2>1. ASSUME NEW u \in Users, BeginSpawn(u) PROVE TypeOK'
    BY <2>1 DEF BeginSpawn, cluster
  <2>2. ASSUME NEW u \in Users, Prepare(u) PROVE TypeOK'
    BY <2>2 DEF Prepare, Raise, cluster
  <2>3. ASSUME NEW u \in Users, Resume(u) PROVE TypeOK'
    BY <2>3 DEF Resume, cluster, memory
  <2>4. ASSUME NEW u \in Users, CreateSecret(u) PROVE TypeOK'
    BY <2>4 DEF CreateSecret, MountSecret, Extend, Filtered, Raise, memory
  <2>5. ASSUME NEW u \in Users, PatchSecret(u) PROVE TypeOK'
    BY <2>5 DEF PatchSecret, MountSecret, Extend, Filtered, Raise, cluster
  <2>6. ASSUME NEW u \in Users, DelService(u) PROVE TypeOK'
    BY <2>6 DEF DelService, Delete, Less, Raise
  <2>7. ASSUME NEW u \in Users, AddService(u) PROVE TypeOK'
    BY <2>7 DEF AddService, Create, More, Raise
  <2>8. ASSUME NEW u \in Users, DelIngress(u) PROVE TypeOK'
    BY <2>8 DEF DelIngress, Delete, Less, Raise
  <2>9. ASSUME NEW u \in Users, AddIngress(u) PROVE TypeOK'
    BY <2>9 DEF AddIngress, Create, More, Raise
  <2>10. ASSUME NEW u \in Users, DropService(u) PROVE TypeOK'
    BY <2>10 DEF DropService, Less, Finish
  <2>11. ASSUME NEW u \in Users, DropIngress(u) PROVE TypeOK'
    BY <2>11 DEF DropIngress, Less, Finish
  <2>12. ASSUME NEW u \in Users, Lifetime(u), ~BeginSpawn(u) PROVE TypeOK'
    BY <2>12 DEF Lifetime, CreatePod, StartDone, StartFails, Stop, PodDies, Halt, Recover,
                 Raise, memory, cluster
  <2>13. CASE Crash
    <3>1. server' \subseteq Users
      BY <2>13 DEF Crash
    <3>2. pc' \in [Users -> Lifecycle]
      BY <2>13 DEF Crash
    <3>3. spoiled' \subseteq Users
      BY <2>13 DEF Crash
    <3>4. hub' \in BOOLEAN /\ loop' \in Users \cup {Nobody} /\ failed' \subseteq Users
      BY <2>13 DEF Crash
    <3>5. mounts' \in [Users -> Entries] /\ volumes' \in [Users -> Entries]
      BY <2>13 DEF Crash
    <3> QED
      BY <2>13, <3>1, <3>2, <3>3, <3>4, <3>5 DEF Crash, cluster
  <2>14. CASE Restart
    BY <2>14 DEF Restart, memory, cluster
  <2>15. CASE UNCHANGED vars
    BY <2>15 DEF vars, memory, cluster
  <2> QED
    BY <2>1, <2>2, <2>3, <2>4, <2>5, <2>6, <2>7, <2>8, <2>9, <2>10, <2>11, <2>12, <2>13,
       <2>14, <2>15 DEF Next, Hook
<1> QED
  BY <1>1, <1>2, PTL DEF Spec

-----------------------------------------------------------------------------
(* The pod that the hook asks for. *)

\* From the creation of the secret on there is one, and from the mount on its volume
\* is in the Spawner's list once, however many attempts the list has been through.
Asked(u) ==
    /\ pc[u] \in {"patch", "delService", "addService", "delIngress", "addIngress"} \cup Starting
          => u \in secret
    /\ pc[u] \in {"delService", "addService", "delIngress", "addIngress"} \cup Starting
          => volumes[u] = "one"

\* The pod that is asked for has one volume for the secret, which exists.
THEOREM VolumeAlwaysResolves == Spec => []VolumeResolves
<1> DEFINE AskedInv == \A u \in Users : Asked(u)
<1>1. Init => AskedInv
  BY DEF Init, Asked
<1>2. TypeOK /\ AskedInv /\ [Next]_vars => AskedInv'
  <2> SUFFICES ASSUME TypeOK, AskedInv, [Next]_vars PROVE AskedInv'
    OBVIOUS
  <2> USE DEF TypeOK, Asked, Holds, Ready, Goto
  <2>1. ASSUME NEW u \in Users, CreateSecret(u) \/ PatchSecret(u) PROVE AskedInv'
    BY <2>1 DEF CreateSecret, PatchSecret, MountSecret, Extend, Filtered, Raise, memory,
                cluster
  <2>2. ASSUME NEW u \in Users, Prepare(u) \/ Resume(u) PROVE AskedInv'
    BY <2>2 DEF Prepare, Resume, Raise, memory, cluster
  <2>3. ASSUME NEW u \in Users, DelService(u) \/ DelIngress(u) PROVE AskedInv'
    BY <2>3 DEF DelService, DelIngress, Delete, Raise
  <2>4. ASSUME NEW u \in Users, AddService(u) \/ AddIngress(u) PROVE AskedInv'
    BY <2>4 DEF AddService, AddIngress, Create, Raise
  <2>5. ASSUME NEW u \in Users, DropService(u) \/ DropIngress(u) PROVE AskedInv'
    BY <2>5 DEF DropService, DropIngress, Finish
  <2>6. ASSUME NEW u \in Users, Lifetime(u) PROVE AskedInv'
    BY <2>6 DEF Lifetime, BeginSpawn, CreatePod, StartDone, StartFails, Stop, PodDies, Halt,
                Recover, Raise, memory, cluster
  <2>7. CASE Crash
    BY <2>7 DEF Crash, cluster
  <2>8. CASE Restart \/ UNCHANGED vars
    BY <2>8 DEF Restart, vars, memory, cluster
  <2> QED
    BY <2>1, <2>2, <2>3, <2>4, <2>5, <2>6, <2>7, <2>8 DEF Next, Hook
<1>3. AskedInv => VolumeResolves
  BY DEF Asked, VolumeResolves
<1> QED
  BY <1>1, <1>2, <1>3, TypeCorrect, PTL DEF Spec

-----------------------------------------------------------------------------
(* The endpoint of a user whose object names are nobody else's. *)

OwnService(u) == service[NameOf[u]] = u
OwnIngress(u) == ingress[NameOf[u]] = u

\* A server is on record from its request until its pod is stopped; a server to be
\* looked at after a restart was on record.
OnRecord(u) ==
    /\ u \in server <=> pc[u] \notin PostStop \cup {"idle"}
    /\ pc[u] = "check" => durable

\* pre_spawn_hook builds the endpoint in order; it stands until the cleanup, also
\* while a pod is looked at after a restart.
Built(u) ==
    /\ pc[u] \in {"delIngress", "addIngress"} => OwnService(u)
    /\ pc[u] \in Starting \cup {"running"} => Served(u)
    /\ pc[u] = "dropIngress" => ~OwnService(u)
    /\ durable /\ u \in pod => /\ Served(u)
                                /\ pc[u] \in {"wait", "running", "halt", "check"}

\* An endpoint that no cleanup spoiled is taken down as a whole: an ingress stands
\* only with its service, but between the two deletions.
Cleared(u) ==
    u \notin spoiled =>
        /\ pc[u] \in {"idle", "prepare", "auth", "secret", "patch", "delService", "addService"}
              => ~OwnService(u) /\ ~OwnIngress(u)
        /\ pc[u] \in {"delIngress", "addIngress"} => ~OwnIngress(u)
        /\ pc[u] # "dropIngress" => (OwnIngress(u) => OwnService(u))

SpawnInv == \A u \in Users : OnRecord(u) /\ Built(u) /\ Cleared(u)

\* Nobody shares the name of a service or an ingress: the truncation to 63
\* characters in get_dask_params keeps the users apart.
NamesDiffer == \A u, v \in Users : NameOf[u] = NameOf[v] => u = v

\* A fresh hub: no server, no object, nothing to restart from.
LEMMA InitInv == Init => SpawnInv
  BY NameAssumption, NobodyAssumption
  DEF Init, SpawnInv, OnRecord, Built, Cleared, OwnService, OwnIngress

\* What a hook does to its user's objects leaves every other user's alone.
LEMMA OthersKept ==
  ASSUME NamesDiffer, NEW u \in Users, NEW v \in Users, u # v,
         NEW objects \in [Names -> Users \cup {Nobody}]
  PROVE  /\ Less(u, objects)[NameOf[v]] = objects[NameOf[v]]
         /\ More(u, objects)[NameOf[v]] = objects[NameOf[v]]
  BY NameAssumption DEF Less, More, NamesDiffer

\* Deleting and creating, as seen by the user whose objects they are.
LEMMA OwnObject ==
  ASSUME NEW u \in Users, NEW objects \in [Names -> Users \cup {Nobody}]
  PROVE  /\ Less(u, objects)[NameOf[u]] = Nobody
         /\ objects[NameOf[u]] = Nobody => More(u, objects)[NameOf[u]] = u
         /\ objects[NameOf[u]] # Nobody => More(u, objects)[NameOf[u]] = objects[NameOf[u]]
  BY NameAssumption DEF Less, More

\* Every step of the hub, of Kubernetes and of the hooks keeps the invariant.
LEMMA StepInv ==
  ASSUME NamesDiffer, TypeOK, SpawnInv, [Next]_vars
  PROVE  SpawnInv'
<1> USE NameAssumption, NobodyAssumption, OthersKept, OwnObject
        DEF TypeOK, SpawnInv, OnRecord, Built, Cleared, OwnService, OwnIngress, Served,
            Holds, Ready, Goto
<1>1. ASSUME NEW u \in Users, BeginSpawn(u) PROVE SpawnInv'
  BY <1>1 DEF BeginSpawn, cluster
<1>2. ASSUME NEW u \in Users, Prepare(u) PROVE SpawnInv'
  BY <1>2 DEF Prepare, Raise, cluster
<1>3. ASSUME NEW u \in Users, Resume(u) PROVE SpawnInv'
  BY <1>3 DEF Resume, cluster, memory
<1>4. ASSUME NEW u \in Users, CreateSecret(u) PROVE SpawnInv'
  BY <1>4 DEF CreateSecret, MountSecret, Raise, memory
<1>5. ASSUME NEW u \in Users, PatchSecret(u) PROVE SpawnInv'
  BY <1>5 DEF PatchSecret, MountSecret, Raise, cluster
<1>6. ASSUME NEW u \in Users, DelService(u) PROVE SpawnInv'
  BY <1>6 DEF DelService, Delete, Raise
<1>7. ASSUME NEW u \in Users, AddService(u) PROVE SpawnInv'
  BY <1>7 DEF AddService, Create, Raise
<1>8. ASSUME NEW u \in Users, DelIngress(u) PROVE SpawnInv'
  BY <1>8 DEF DelIngress, Delete, Raise
<1>9. ASSUME NEW u \in Users, AddIngress(u) PROVE SpawnInv'
  BY <1>9 DEF AddIngress, Create, Raise
<1>10. ASSUME NEW u \in Users, DropService(u) PROVE SpawnInv'
  BY <1>10 DEF DropService, Finish
<1>11. ASSUME NEW u \in Users, DropIngress(u) PROVE SpawnInv'
  <2>1. ASSUME NEW v \in Users, v # u PROVE OnRecord(v)' /\ Built(v)' /\ Cleared(v)'
    BY <1>11, <2>1 DEF DropIngress, Finish
  <2>2. OnRecord(u)' /\ Built(u)'
    BY <1>11 DEF DropIngress, Finish
  <2>3. CASE ingress' = Less(u, ingress) /\ spoiled' = spoiled \ {u}
    BY <1>11, <2>1, <2>2, <2>3 DEF DropIngress, Finish
  <2>4. CASE spoiled' = spoiled \cup {u}
    BY <1>11, <2>1, <2>2, <2>4 DEF DropIngress, Finish
  <2> QED
    BY <1>11, <2>3, <2>4 DEF DropIngress
<1>12. ASSUME NEW u \in Users, Lifetime(u), ~BeginSpawn(u) PROVE SpawnInv'
  BY <1>12 DEF Lifetime, CreatePod, StartDone, StartFails, Stop, PodDies, Halt, Recover,
               Raise, memory, cluster
<1>13. CASE Crash
  BY <1>13 DEF Crash, cluster
<1>14. CASE Restart
  BY <1>14 DEF Restart, memory, cluster
<1>15. CASE UNCHANGED vars
  BY <1>15 DEF vars, memory, cluster
<1> QED
  BY <1>1, <1>2, <1>3, <1>4, <1>5, <1>6, <1>7, <1>8, <1>9, <1>10, <1>11, <1>12, <1>13,
     <1>14, <1>15 DEF Next, Hook

\* Hence it holds in every reachable state.
LEMMA InvHolds == ASSUME NamesDiffer PROVE Spec => []SpawnInv
<1>1. TypeOK /\ SpawnInv /\ [Next]_vars => SpawnInv'
  BY StepInv
<1> QED
  BY <1>1, InitInv, TypeCorrect, PTL DEF Spec

\* If no two users share an object name, every running server has its own service
\* behind its own ingress, whatever call failed and whenever the hub died.
THEOREM EndpointAlwaysServed == ASSUME NamesDiffer PROVE Spec => []EndpointServed
<1>1. SpawnInv => EndpointServed
  BY DEF SpawnInv, Built, EndpointServed
<1> QED
  BY <1>1, InvHolds, PTL

\* If no two users share an object name, a stopped server has left a service or an
\* ingress behind only if a cleanup of that user was itself cut short.
THEOREM LeakNeedsACleanup == ASSUME NamesDiffer PROVE Spec => []LeakOnlyFromCleanup
<1>1. SpawnInv => LeakOnlyFromCleanup
  BY DEF SpawnInv, Cleared, OwnService, OwnIngress, LeakOnlyFromCleanup
<1> QED
  BY <1>1, InvHolds, PTL

-----------------------------------------------------------------------------
(* SpawnHooks implements UserServer. *)

StatusOf == [u \in Users |-> Status(u)]
ServedUsers == {u \in Users : Served(u)}

\* One user's step: nothing changes for the others.
OthersSame(u) ==
    \A v \in Users \ {u} : Status(v)' = Status(v) /\ (Served(v)' <=> Served(v))

\* A step of a user whose server is changing, and stays so, publishes or withdraws
\* the endpoint, or is not seen.
LEMMA StaysChanging ==
  ASSUME NEW u \in Users, OthersSame(u),
         Status(u) = "changing", Status(u)' = "changing"
  PROVE  Abstract!Publish(u) \/ Abstract!Withdraw(u)
<1>1. StatusOf' = StatusOf
  BY DEF OthersSame, StatusOf
<1>2. CASE Served(u)'
  <2>1. ServedUsers' = ServedUsers \cup {u}
    BY <1>2 DEF OthersSame, ServedUsers
  <2> QED
    BY <1>1, <2>1 DEF Abstract!Publish, StatusOf, ServedUsers
<1>3. CASE ~Served(u)'
  <2>1. ServedUsers' = ServedUsers \ {u}
    BY <1>3 DEF OthersSame, ServedUsers
  <2> QED
    BY <1>1, <2>1 DEF Abstract!Withdraw, StatusOf, ServedUsers
<1> QED
  BY <1>2, <1>3

\* A step that leaves the endpoints alone and turns one user's server on or off.
LEMMA Turns ==
  ASSUME NEW u \in Users, OthersSame(u), Served(u)' <=> Served(u),
         \/ Status(u) \in {"down", "up"} /\ Status(u)' = "changing"
         \/ Status(u) = "changing" /\ Status(u)' = "up" /\ Served(u)
  PROVE  Abstract!Begin(u) \/ Abstract!ComeUp(u)
<1>1. ServedUsers' = ServedUsers
  BY DEF OthersSame, ServedUsers
<1>2. StatusOf' = [StatusOf EXCEPT ![u] = Status(u)']
  BY DEF OthersSame, StatusOf
<1> QED
  BY <1>1, <1>2 DEF Abstract!Begin, Abstract!ComeUp, Abstract!Become, StatusOf, ServedUsers

\* The end of a cleanup, which may take the endpoint away.
LEMMA GoesDown ==
  ASSUME NEW u \in Users, OthersSame(u), Served(u)' => Served(u),
         Status(u) = "changing", Status(u)' = "down"
  PROVE  Abstract!GoDown(u)
<1>1. ServedUsers' \in {ServedUsers, ServedUsers \ {u}}
  BY DEF OthersSame, ServedUsers
<1>2. StatusOf' = [StatusOf EXCEPT ![u] = "down"]
  BY DEF OthersSame, StatusOf
<1> QED
  BY <1>1, <1>2 DEF Abstract!GoDown, Abstract!Become, StatusOf, ServedUsers

\* Each step of SpawnHooks is a step of UserServer, or one it does not see.
LEMMA StepRefines ==
  ASSUME NamesDiffer, TypeOK, SpawnInv, [Next]_vars
  PROVE  [Abstract!Next]_(Abstract!vars)
<1> USE NameAssumption, NobodyAssumption, OthersKept, OwnObject
        DEF TypeOK, Holds, Ready, Goto, OthersSame, Status, Served
<1>1. ASSUME NEW u \in Users, Prepare(u) \/ Resume(u) \/ CreateSecret(u) \/ PatchSecret(u)
      PROVE  OthersSame(u) /\ Status(u) = "changing" /\ Status(u)' = "changing"
  BY <1>1 DEF Prepare, Resume, CreateSecret, PatchSecret, MountSecret, Raise, cluster
<1>2. ASSUME NEW u \in Users, DelService(u) \/ DelIngress(u)
      PROVE  OthersSame(u) /\ Status(u) = "changing" /\ Status(u)' = "changing"
  BY <1>2 DEF DelService, DelIngress, Delete, Raise
<1>3. ASSUME NEW u \in Users, AddService(u) \/ AddIngress(u)
      PROVE  OthersSame(u) /\ Status(u) = "changing" /\ Status(u)' = "changing"
  BY <1>3 DEF AddService, AddIngress, Create, Raise
<1>4. ASSUME NEW u \in Users, CreatePod(u) \/ StartFails(u) \/ Halt(u)
      PROVE  OthersSame(u) /\ Status(u) = "changing" /\ Status(u)' = "changing"
  BY <1>4 DEF CreatePod, StartFails, Halt, Raise, cluster
<1>5. ASSUME NEW u \in Users, BeginSpawn(u) \/ StartDone(u) \/ Stop(u) \/ Recover(u)
      PROVE  [Abstract!Next]_(Abstract!vars)
  <2>1. OthersSame(u) /\ (Served(u)' <=> Served(u))
    BY <1>5 DEF BeginSpawn, StartDone, Stop, Recover, cluster
  <2>2. CASE BeginSpawn(u) \/ Stop(u)
    <3>1. Status(u) \in {"down", "up"} /\ Status(u)' = "changing"
      BY <2>2 DEF BeginSpawn, Stop
    <3> QED
      BY <2>1, <3>1, Turns DEF Abstract!Next
  <2>3. CASE StartDone(u) \/ (Recover(u) /\ u \in pod)
    <3>1. Status(u) = "changing" /\ Status(u)' = "up" /\ Served(u)
      BY <2>3 DEF StartDone, Recover, SpawnInv, OnRecord, Built
    <3> QED
      BY <2>1, <3>1, Turns DEF Abstract!Next
  <2>4. CASE Recover(u) /\ u \notin pod
    <3>1. Status(u) = "changing" /\ Status(u)' = "changing"
      BY <2>4 DEF Recover
    <3> QED
      BY <2>1, <3>1, StaysChanging DEF Abstract!Next
  <2> QED
    BY <1>5, <2>2, <2>3, <2>4
<1>6. ASSUME NEW u \in Users, DropService(u) \/ DropIngress(u)
      PROVE  [Abstract!Next]_(Abstract!vars)
  <2>1. OthersSame(u) /\ Status(u) = "changing" /\ (Served(u)' => Served(u))
    BY <1>6 DEF DropService, DropIngress, Finish
  <2>2. Status(u)' \in {"changing", "down"}
    BY <1>6 DEF DropService, DropIngress, Finish
  <2> QED
    BY <2>1, <2>2, StaysChanging, GoesDown DEF Abstract!Next
<1>7. CASE Crash
  <2>1. StatusOf' = [u \in Users |->
            IF StatusOf[u] = "down" \/ u \in {v \in Users : v \notin server'}
            THEN "down" ELSE "changing"]
    BY <1>7 DEF Crash, StatusOf, SpawnInv, OnRecord
  <2>2. ServedUsers' = ServedUsers
    BY <1>7 DEF Crash, ServedUsers, cluster
  <2> QED
    BY <2>1, <2>2 DEF Abstract!Next, Abstract!Restart, StatusOf, ServedUsers
<1>8. ASSUME UNCHANGED <<pc, service, ingress>>
      PROVE  [Abstract!Next]_(Abstract!vars)
  BY <1>8 DEF Abstract!vars
<1>9. ASSUME NEW u \in Users, PodDies(u)
      PROVE  [Abstract!Next]_(Abstract!vars)
  BY <1>8, <1>9 DEF PodDies
<1>10. CASE Restart \/ UNCHANGED vars
  BY <1>8, <1>10 DEF Restart, vars, memory, cluster
<1> QED
  BY <1>1, <1>2, <1>3, <1>4, <1>5, <1>6, <1>7, <1>9, <1>10, StaysChanging
  DEF Next, Hook, Lifetime, Abstract!Next

\* If no two users share an object name, the hooks keep the promise of UserServer: a
\* user's endpoint is never touched while the server is up or down, and the server
\* comes up only with its endpoint in place.
THEOREM Refinement == ASSUME NamesDiffer PROVE Spec => ImplementsUserServer
<1>1. Init => Abstract!Init
  BY NameAssumption, NobodyAssumption DEF Init, Abstract!Init, Status, Served
<1>2. TypeOK /\ SpawnInv /\ [Next]_vars => [Abstract!Next]_(Abstract!vars)
  BY StepRefines
<1> QED
  BY <1>1, <1>2, TypeCorrect, InvHolds, PTL DEF Spec, ImplementsUserServer, Abstract!Spec
=============================================================================
