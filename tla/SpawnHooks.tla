----------------------------- MODULE SpawnHooks -----------------------------
(***************************************************************************)
(* The life of a user's notebook server as the hub drives it through       *)
(* pre_spawn_hook, modify_pod_hook and post_stop_hook                      *)
(* (charts/coffea-casa/files/hub-extra/secret_creation_hook.py).           *)
(*                                                                         *)
(* The hub is one asyncio event loop and the Kubernetes client the hooks   *)
(* use is synchronous: between two awaits a hook holds the loop (variable  *)
(* loop) and no other coroutine runs, but every API call is a step of its  *)
(* own, because it can fail and because the hub can die after it.          *)
(* pre_spawn_hook gives the loop up once, to read the auth state.          *)
(*                                                                         *)
(* JupyterHub 1.5, KubeSpawner and Kubernetes are external: they are       *)
(* modelled as the hooks use them.                                         *)
(***************************************************************************)

CONSTANTS
    Users,      \* users of the hub
    Names,      \* names a service and an ingress of a user can have
    NameOf,     \* get_dask_params(user)['name']
    Nobody      \* marks an object that does not exist, and a free event loop

ASSUME NameAssumption == NameOf \in [Users -> Names]
ASSUME NobodyAssumption == Nobody \notin Users

VARIABLES
    hub,      \* TRUE while the hub process runs
    durable,  \* its database survives a restart: values-prod.yaml keeps it on a
              \* volume, values.yaml in memory
    loop,     \* the user whose hook holds the event loop, or Nobody
    pc,       \* where each user's server is in its life
    server,   \* the users whose server is on record in the hub's database
    failed,   \* the users whose spawn, under way or the last, raised
    mounts,   \* "cmsaf-secrets" entries in spawner.volume_mounts: none, one or several
    volumes,  \* "cmsaf-secrets" entries in spawner.volumes, counted the same way
    secret,   \* the users whose secret exists
    service,  \* the user a service of that name selects (its label jhub_user)
    ingress,  \* the user whose host names the ingress of that name routes
    pod,      \* the users whose pod runs
    spoiled   \* history: the users whose objects were left by a cleanup cut short

process == <<hub, durable>>
memory  == <<mounts, volumes, failed>>
cluster == <<secret, service, ingress, pod>>
vars    == <<process, loop, pc, server, memory, cluster, spoiled>>

\* Steps of pre_spawn_hook, of post_stop_hook, and the states between them.
PreSpawn  == {"prepare", "auth", "secret", "patch", "delService", "addService",
              "delIngress", "addIngress"}
PostStop  == {"dropService", "dropIngress"}
Starting  == {"start", "wait"}
Lifecycle == PreSpawn \cup PostStop \cup Starting \cup {"idle", "running", "halt", "check"}

Entries   == {"none", "one", "several"}

\* The steps between two awaits, in which a hook keeps the event loop.
Synchronous == (PreSpawn \ {"auth"}) \cup PostStop

\* The last conjunct: one hook at a time is between its awaits, and it has the loop.
TypeOK ==
    /\ hub \in BOOLEAN /\ durable \in BOOLEAN
    /\ loop \in Users \cup {Nobody}
    /\ pc \in [Users -> Lifecycle]
    /\ server \subseteq Users
    /\ failed \subseteq Users
    /\ mounts \in [Users -> Entries]
    /\ volumes \in [Users -> Entries]
    /\ secret \subseteq Users
    /\ service \in [Names -> Users \cup {Nobody}]
    /\ ingress \in [Names -> Users \cup {Nobody}]
    /\ pod \subseteq Users
    /\ spoiled \subseteq Users
    /\ \A u \in Users : loop = u <=> pc[u] \in Synchronous

Init ==
    /\ hub = TRUE /\ durable \in BOOLEAN
    /\ loop = Nobody
    /\ pc = [u \in Users |-> "idle"]
    /\ server = {}
    /\ failed = {}
    /\ mounts = [u \in Users |-> "none"]
    /\ volumes = [u \in Users |-> "none"]
    /\ secret = {}
    /\ service = [n \in Names |-> Nobody]
    /\ ingress = [n \in Names |-> Nobody]
    /\ pod = {}
    /\ spoiled = {}

-----------------------------------------------------------------------------
(* Control helpers *)

Goto(u, step)  == pc' = [pc EXCEPT ![u] = step]
Holds(u, step) == hub /\ loop = u /\ pc[u] = step        \* u's hook runs this line
Ready(u, step) == hub /\ loop = Nobody /\ pc[u] = step   \* u's coroutine may resume here

\* An entry is appended to a list of the spawner.
Extend(entries) == IF entries = "none" THEN "one" ELSE "several"

\* An exception leaves pre_spawn_hook: JupyterHub stops the server and, the
\* spawn having failed, keeps the Spawner object with all its state.
Raise(u) ==
    /\ Goto(u, "halt")
    /\ loop' = Nobody
    /\ failed' = failed \cup {u}

-----------------------------------------------------------------------------
(* pre_spawn_hook *)

\* JupyterHub records the server, then calls the hook.
BeginSpawn(u) ==
    /\ Ready(u, "idle")
    /\ Goto(u, "prepare")
    /\ loop' = u
    /\ server' = server \cup {u}
    /\ failed' = failed \ {u}
    /\ UNCHANGED <<process, mounts, volumes, cluster, spoiled>>

\* Mutant: the hook waits for the auth state without giving up the event loop.
PrepareBlocking(u) ==
    /\ Holds(u, "prepare")
    /\ \/ Goto(u, "auth") /\ UNCHANGED <<loop, failed>>
       \/ Raise(u)
    /\ UNCHANGED <<process, server, mounts, volumes, cluster, spoiled>>

\* The certificates and tokens of the secret are made; a token whose signing
\* key cannot be read raises. Otherwise the hook awaits the auth state.
Prepare(u) ==
    /\ Holds(u, "prepare")
    /\ \/ /\ Goto(u, "auth")
          /\ loop' = Nobody
          /\ UNCHANGED failed
       \/ Raise(u)
    /\ UNCHANGED <<process, server, mounts, volumes, cluster, spoiled>>

Resume(u) ==
    /\ Ready(u, "auth")
    /\ Goto(u, "secret")
    /\ loop' = u
    /\ UNCHANGED <<process, server, memory, cluster, spoiled>>

\* What follows the secret: the mount is appended; the old volume is filtered
\* out of the list before the new one is appended.
KeepAll(entries) == entries   \* mutant: the list is not filtered
Filtered(entries) == "none"
MountSecret(u) ==
    /\ mounts' = [mounts EXCEPT ![u] = Extend(@)]
    /\ volumes' = [volumes EXCEPT ![u] = Extend(Filtered(@))]
    /\ Goto(u, "delService")
    /\ UNCHANGED <<loop, failed>>

\* Mutant: a conflict starts over from the auth state instead of patching.
CreateSecretAgain(u) ==
    /\ Holds(u, "secret")
    /\ IF u \in secret THEN Goto(u, "auth") /\ loop' = Nobody /\ UNCHANGED <<memory, secret>>
       ELSE secret' = secret \cup {u} /\ MountSecret(u)
    /\ UNCHANGED <<process, server, service, ingress, pod, spoiled>>

\* A call that raised may have been carried out: its answer was lost.
CreateSecret(u) ==
    /\ Holds(u, "secret")
    /\ \/ /\ u \in secret                                   \* 409: patch it
          /\ Goto(u, "patch")
          /\ UNCHANGED <<loop, memory, secret>>
       \/ /\ u \notin secret
          /\ secret' = secret \cup {u}
          /\ MountSecret(u)
       \/ /\ secret' \in {secret, secret \cup {u}}
          /\ Raise(u)
          /\ UNCHANGED <<mounts, volumes>>
    /\ UNCHANGED <<process, server, service, ingress, pod, spoiled>>

PatchSecret(u) ==
    /\ Holds(u, "patch")
    /\ \/ MountSecret(u)
       \/ /\ Raise(u)
          /\ UNCHANGED <<mounts, volumes>>
    /\ UNCHANGED <<process, server, cluster, spoiled>>

\* The services or the ingresses once u's is deleted, or created: the creation is
\* refused while there is one of that name.
Less(u, objects) == [objects EXCEPT ![NameOf[u]] = Nobody]
More(u, objects) == [objects EXCEPT ![NameOf[u]] = IF @ = Nobody THEN u ELSE @]

\* Deleting an object before it is created again. An answer of the API server,
\* "not found" among them, is suppressed; a lost connection is not an
\* ApiException and leaves the hook.
Delete(u, objects, next) ==
    /\ objects' \in {objects, Less(u, objects)}
    /\ \/ Goto(u, next) /\ UNCHANGED <<loop, failed>>
       \/ Raise(u)

\* Mutant: a creation that is refused is suppressed, as the deletions are.
CreateSuppressed(u, objects, next, after) ==
    /\ objects' \in {objects, More(u, objects)}
    /\ Goto(u, next)
    /\ loop' = after
    /\ UNCHANGED failed

\* Creating an object: done, or refused, or the answer is lost.
Create(u, objects, next, after) ==
    \/ /\ objects[NameOf[u]] = Nobody
       /\ objects' = More(u, objects)
       /\ Goto(u, next)
       /\ loop' = after
       /\ UNCHANGED failed
    \/ /\ objects' \in {objects, More(u, objects)}
       /\ Raise(u)

DelService(u) ==
    /\ Holds(u, "delService")
    /\ Delete(u, service, "addService")
    /\ UNCHANGED <<process, server, mounts, volumes, secret, ingress, pod, spoiled>>

\* Mutant: the hook returns once the service is there, and leaves the ingress out.
AddServiceOnly(u) ==
    /\ Holds(u, "addService")
    /\ Create(u, service, "start", Nobody)
    /\ UNCHANGED <<process, server, mounts, volumes, secret, ingress, pod, spoiled>>

AddService(u) ==
    /\ Holds(u, "addService")
    /\ Create(u, service, "delIngress", u)
    /\ UNCHANGED <<process, server, mounts, volumes, secret, ingress, pod, spoiled>>

DelIngress(u) ==
    /\ Holds(u, "delIngress")
    /\ Delete(u, ingress, "addIngress")
    /\ UNCHANGED <<process, server, mounts, volumes, secret, service, pod, spoiled>>

AddIngress(u) ==
    /\ Holds(u, "addIngress")
    /\ Create(u, ingress, "start", Nobody)
    /\ UNCHANGED <<process, server, mounts, volumes, secret, service, pod, spoiled>>

-----------------------------------------------------------------------------
(* JupyterHub, KubeSpawner and Kubernetes *)

\* The pod, with the host names modify_pod_hook puts in its environment, is
\* created in place of any that was left. Kubernetes accepts it only if no two
\* volumes share a name and no two mounts a path; it runs once its secret exists.
CreatePod(u) ==
    /\ Ready(u, "start")
    /\ mounts[u] = "one" /\ volumes[u] = "one" /\ u \in secret
    /\ pod' = pod \cup {u}
    /\ Goto(u, "wait")
    /\ UNCHANGED <<process, loop, server, memory, secret, service, ingress, spoiled>>

StartDone(u) ==
    /\ Ready(u, "wait")
    /\ u \in pod
    /\ Goto(u, "running")
    /\ UNCHANGED <<process, loop, server, memory, cluster, spoiled>>

\* Kubernetes refuses the pod, or it does not come up in time.
StartFails(u) ==
    /\ \E step \in Starting : Ready(u, step)
    /\ Raise(u)
    /\ UNCHANGED <<process, server, mounts, volumes, cluster, spoiled>>

\* The user, the culler or an admin stops the server, or the hub's poll finds
\* that the pod is gone.
Stop(u) ==
    /\ Ready(u, "running")
    /\ Goto(u, "halt")
    /\ UNCHANGED <<process, loop, server, memory, cluster, spoiled>>

PodDies(u) ==
    /\ u \in pod
    /\ pod' = pod \ {u}
    /\ UNCHANGED <<process, loop, pc, server, memory, secret, service, ingress, spoiled>>

\* The pod is gone, the server record is removed and post_stop_hook is called.
Halt(u) ==
    /\ Ready(u, "halt")
    /\ pod' = pod \ {u}
    /\ server' = server \ {u}
    /\ Goto(u, "dropService")
    /\ loop' = u
    /\ UNCHANGED <<process, memory, secret, service, ingress, spoiled>>

\* The hub dies. Coroutines and Spawner objects are lost; a server on record is
\* looked at again after the restart.
Crash ==
    /\ hub
    /\ hub' = FALSE
    /\ loop' = Nobody
    /\ server' = IF durable THEN server ELSE {}
    /\ pc' = [u \in Users |-> IF u \in server' THEN "check" ELSE "idle"]
    /\ mounts' = [u \in Users |-> "none"]
    /\ volumes' = [u \in Users |-> "none"]
    /\ failed' = {}
    /\ spoiled' = spoiled \cup {u \in Users : pc[u] # "idle" /\ u \notin server'}
    /\ UNCHANGED <<durable, cluster>>

Restart ==
    /\ ~hub
    /\ hub' = TRUE
    /\ UNCHANGED <<durable, loop, pc, server, memory, cluster, spoiled>>

\* A pod that still runs is kept; a server whose pod is gone is stopped.
Recover(u) ==
    /\ Ready(u, "check")
    /\ Goto(u, IF u \in pod THEN "running" ELSE "halt")
    /\ UNCHANGED <<process, loop, server, memory, cluster, spoiled>>

-----------------------------------------------------------------------------
(* post_stop_hook *)

\* The hook returns. A Spawner whose spawn did not fail is discarded.
Finish(u) ==
    /\ Goto(u, "idle")
    /\ loop' = Nobody
    /\ mounts' = [mounts EXCEPT ![u] = IF u \in failed THEN @ ELSE "none"]
    /\ volumes' = [volumes EXCEPT ![u] = IF u \in failed THEN @ ELSE "none"]

\* Both deletions share one suppress block: when the first raises, a "not
\* found" included, the second is skipped.
DropService(u) ==
    /\ Holds(u, "dropService")
    /\ \/ /\ service[NameOf[u]] # Nobody
          /\ service' = Less(u, service)
          /\ Goto(u, "dropIngress")
          /\ UNCHANGED <<loop, mounts, volumes, spoiled>>
       \/ /\ service[NameOf[u]] = Nobody
          /\ Finish(u)
          /\ UNCHANGED <<service, spoiled>>
       \/ /\ service' \in {service, Less(u, service)}
          /\ Finish(u)
          /\ spoiled' = spoiled \cup {u}
    /\ UNCHANGED <<process, server, failed, secret, ingress, pod>>

\* Mutant: the ingress is left, as the secret is.
DropIngressNot(u) ==
    /\ Holds(u, "dropIngress")
    /\ Finish(u)
    /\ spoiled' = spoiled \ {u}
    /\ UNCHANGED <<process, server, failed, secret, service, ingress, pod>>

DropIngress(u) ==
    /\ Holds(u, "dropIngress")
    /\ Finish(u)
    /\ \/ /\ ingress' = Less(u, ingress)
          /\ spoiled' = spoiled \ {u}
       \/ /\ ingress' \in {ingress, Less(u, ingress)}
          /\ spoiled' = spoiled \cup {u}
    /\ UNCHANGED <<process, server, failed, secret, service, pod>>

-----------------------------------------------------------------------------
Hook(u) ==
    \/ Prepare(u) \/ Resume(u) \/ CreateSecret(u) \/ PatchSecret(u)
    \/ DelService(u) \/ AddService(u) \/ DelIngress(u) \/ AddIngress(u)
    \/ DropService(u) \/ DropIngress(u)

Lifetime(u) ==
    \/ BeginSpawn(u) \/ CreatePod(u) \/ StartDone(u) \/ StartFails(u)
    \/ Stop(u) \/ PodDies(u) \/ Halt(u) \/ Recover(u)

Next == (\E u \in Users : Hook(u) \/ Lifetime(u)) \/ Crash \/ Restart

Spec == Init /\ [][Next]_vars

\* What the hub's coroutine for a user does next. A hook that holds the loop runs
\* on; a coroutine that waits for the loop is in asyncio's first-in first-out queue,
\* so it is not passed over for ever; a pod's start ends, by its timeout if nothing
\* else. BeginSpawn and Stop are requests, which nobody has to make.
Proceed(u) ==
    Hook(u) \/ CreatePod(u) \/ StartDone(u) \/ StartFails(u) \/ Halt(u) \/ Recover(u)

Fairness == \A u \in Users : SF_vars(Proceed(u))

FairSpec == Spec /\ Fairness

-----------------------------------------------------------------------------
(* Properties *)

Served(u) == service[NameOf[u]] = u /\ ingress[NameOf[u]] = u

\* A server the hub reports as running has its own service behind its own
\* ingress, whatever failed and wherever the hub restarted before.
EndpointServed == \A u \in Users : pc[u] = "running" => Served(u)

\* pre_spawn_hook never leaves a service or ingress behind by failing: only a
\* cleanup that was itself cut short does.
LeakOnlyFromCleanup ==
    \A u \in Users : pc[u] = "idle" /\ u \notin spoiled =>
        service[NameOf[u]] # u /\ ingress[NameOf[u]] # u

\* However many attempts the Spawner has been through, the pod it asks for has
\* one volume for the secret, and that secret exists (the dedup of lines 128-132).
VolumeResolves ==
    \A u \in Users : pc[u] \in Starting => volumes[u] = "one" /\ u \in secret

\* The pod asked for mounts the secret once ("preventing duplication (and
\* failure)", lines 128-129).
MountUnique == \A u \in Users : pc[u] \in Starting => mounts[u] = "one"

\* The hooks keep the promise of UserServer: an endpoint is never touched while its
\* user's server is up or down.
Status(u) == CASE pc[u] = "idle" -> "down"
               [] pc[u] = "running" -> "up"
               [] OTHER -> "changing"

Abstract == INSTANCE UserServer WITH
    status <- [u \in Users |-> Status(u)],
    served <- {u \in Users : Served(u)}

ImplementsUserServer == Abstract!Spec

\* Once the hub stays up, a spawn ends with the server running or stopped, also
\* when other users' hooks compete for the event loop.
SpawnSettles ==
    <>[]hub => \A u \in Users :
        (pc[u] \in Lifecycle \ {"idle", "running"}) ~> (pc[u] \in {"idle", "running"})
=============================================================================
