------------------------------ MODULE Sessions ------------------------------
(***************************************************************************)
(* Users, their servers and their workers: a spawn writes the user's       *)
(* certificates into the secret and routes the user's hostname to the pod, *)
(* the kernel in the pod builds clusters and submits jobs to HTCondor, and *)
(* their workers come to an address when the job starts, which may be long *)
(* after the server has stopped and its address is someone else's.  The    *)
(* steps of a spawn and their failures are in SpawnHooks, those of a       *)
(* worker before its command in WorkerBringup.                             *)
(***************************************************************************)
EXTENDS UserNames, Credentials, JobConfig

CONSTANTS
    Users,
    Namings,      \* the ways to name the users: a name for each
    Asked,        \* the arguments that clusters are built with
    Ips,          \* the addresses of pods
    MaxSpawns,    \* bound: servers started
    MaxClusters,  \* bound: clusters built
    MaxJobs       \* bound: jobs submitted

ASSUME BoundsAssumption == MaxSpawns \in Nat /\ MaxClusters \in Nat /\ MaxJobs \in Nat
\* Two users whose names are escaped to one text share all that follows.
ASSUME NamesDiffer ==
    \A n \in Namings : \A u, v \in Users :
      u # v => UsernameToSecretname(n[u]) # UsernameToSecretname(n[v])

VARIABLES
    name,        \* what the hook makes of the names of the users
    addressing,  \* the variable that gives a cluster its address
    spawns,      \* servers started so far; each is known by its number
    secrets,     \* for each secret, the spawn that wrote it last
    routes,      \* the ingresses and services: names, and the hosts they lead to
    session,     \* for each user, the server that runs, and its address
    built,       \* clusters built so far
    cluster,     \* for each user, the cluster that is open
    jobs,        \* the jobs in the order they were submitted
    sidecar      \* for each user, the cluster that the pod's own worker is in

vars == <<name, addressing, spawns, secrets, routes, session, built, cluster, jobs, sidecar>>

NoIp == "none"
NoSession == [nr |-> 0, ip |-> NoIp]
NoCluster == [nr |-> 0]

\* The names of a user's secret, of the service and the ingress, and of the host.
NamesOf(n) == [u \in Users |-> [secret |-> UsernameToSecretname(n[u]),
                               service |-> DaskName(n[u]), host |-> SchedHostname(n[u])]]
SecretName(u) == name[u].secret
SecretNames == {UsernameToSecretname(n[u]) : n \in Namings, u \in Users}
Host(u) == <<"host", name[u].host>>
Up(u) == session[u].nr > 0
\* What each spawn writes.
Written == [n \in 1..MaxSpawns |-> Secret(n)]
\* The spawns whose certificates make a connection, a worker's and a scheduler's.
Trusted ==
    {m \in (1..MaxSpawns) \X (1..MaxSpawns) :
       Handshake(GenerateX509(m[1]), GenerateX509(m[2]))}
Open(nr) == \E u \in Users : cluster[u].nr = nr

\* The files of a pod: the facility's certificates, the token, and some of the user's.
PodFiles == {"ca.pem", "hostcert.pem", "access_token", "own-ca.pem", "own-cert.pem"}
Security == [tls_ca_file : PodFiles, tls_worker_cert : PodFiles,
             tls_worker_key : PodFiles, require_encryption : BOOLEAN]
Port == Nat \ {0}
Directives == [transfer_input_files : SUBSET PodFiles]
\* What __init__ passes on.  What it has no parameter for is in job_kwargs, so that no
\* scheduler_options are.
Optional(S) == TupleOf(S, 0) \cup TupleOf(S, 1)
Kwargs == [force_tcp : BOOLEAN, security : Optional(Security),
           worker_image : Optional(STRING), scheduler_options : Optional([port : Port]),
           scheduler_port : Port, dashboard_port : Port,
           job_kwargs : [scheduler_options : {<<>>},
                         job_extra_directives : Optional(Directives)]]
ASSUME AskedAssumption == Asked \subseteq Kwargs
States == {"queued", "contacting", "joined", "gone"}

\* Every variable has its type.
TypeOK ==
    /\ name \in {NamesOf(n) : n \in Namings}
    /\ addressing \in {"POD_IP", "HOST_IP"}
    /\ spawns \in 0..MaxSpawns
    /\ secrets \in [SecretNames -> 0..MaxSpawns]
    /\ \A u \in Users : /\ session[u].nr \in 0..spawns
                        /\ Up(u) => session[u].ip \in Ips
                        /\ cluster[u].nr \in 0..built
                        /\ sidecar[u] \in 0..built
    /\ built \in 0..MaxClusters
    /\ Len(jobs) <= MaxJobs
    /\ \A j \in DOMAIN jobs :
         /\ jobs[j].nr \in 1..built /\ jobs[j].session \in 1..spawns
         /\ jobs[j].certs \in 0..spawns /\ jobs[j].at \in 0..spawns
         /\ jobs[j].kwargs \in Asked /\ jobs[j].state \in States

Init ==
    /\ name \in {NamesOf(n) : n \in Namings}
    /\ addressing \in {"POD_IP", "HOST_IP"}
    /\ spawns = 0 /\ built = 0
    /\ secrets = [s \in SecretNames |-> 0]
    /\ routes = {}
    /\ session = [u \in Users |-> NoSession]
    /\ cluster = [u \in Users |-> NoCluster]
    /\ jobs = <<>>
    /\ sidecar = [u \in Users |-> 0]

-----------------------------------------------------------------------------
(* The hub                                                                 *)

\* A spawn that ends with a running pod: new certificates in the user's secret, and
\* the user's route in place of any of the same name.  The pod gets a free address.
Spawn(u) ==
    /\ ~Up(u) /\ spawns < MaxSpawns
    /\ spawns' = spawns + 1
    /\ secrets' = [secrets EXCEPT ![SecretName(u)] = spawns + 1]
    /\ routes' = {r \in routes : r.name # name[u].service}
                   \cup {[name |-> name[u].service, host |-> Host(u)]}
    /\ \E ip \in Ips \ {session[v].ip : v \in Users} :
         session' = [session EXCEPT ![u] = [nr |-> spawns + 1, ip |-> ip]]
    /\ UNCHANGED <<name, addressing, built, cluster, jobs, sidecar>>

\* mutant: only the address is given up
StopAddress(u) ==
    /\ Up(u)
    /\ session' = [session EXCEPT ![u].ip = NoIp]
    /\ routes' = {r \in routes : r.name # name[u].service}
    /\ cluster' = [cluster EXCEPT ![u] = NoCluster]
    /\ sidecar' = [sidecar EXCEPT ![u] = 0]
    /\ UNCHANGED <<name, addressing, spawns, secrets, built, jobs>>
\* A server is stopped or culled: the pod goes, with all that runs in it.  The secret
\* stays, and so do the jobs.
Stop(u) ==
    /\ Up(u)
    /\ session' = [session EXCEPT ![u] = NoSession]
    /\ routes' = {r \in routes : r.name # name[u].service}
    /\ cluster' = [cluster EXCEPT ![u] = NoCluster]
    /\ sidecar' = [sidecar EXCEPT ![u] = 0]
    /\ UNCHANGED <<name, addressing, spawns, secrets, built, jobs>>

-----------------------------------------------------------------------------
(* The kernel                                                              *)

\* modify_pod_hook sets HOST_IP; whether POD_IP is set is the facility's choice.
Environment(u) ==
    [POD_IP |-> IF addressing = "POD_IP" THEN <<<<"ip", session[u].ip>>>> ELSE <<>>,
     HOST_IP |-> <<Host(u)>>, fqdn |-> <<"fqdn">>,
     DASK_DASHBOARD_LINK |-> <<>>, JUPYTERHUB_SERVICE_PREFIX |-> <<u>>,
     EXTERNAL_HOSTNAME |-> <<>>, BEARER_TOKEN_FILE |-> <<"access_token">>,
     XDG_RUNTIME_DIR |-> <<>>, X509_USER_PROXY |-> <<>>, files |-> PodFiles]

\* The facility's certificates, unless the user's object names others.
FacilitySecurity(env, kwargs) == Sec(env, kwargs) = <<SecurityObj(env)>>

\* One cluster at a time (ClusterConfig has several).  The scheduler loads its
\* certificates as it starts; those of the user are of no spawn.
Build(u, kwargs) ==
    /\ Up(u) /\ cluster[u] = NoCluster /\ built < MaxClusters
    /\ built' = built + 1
    /\ cluster' = [cluster EXCEPT ![u] =
                     [nr |-> built + 1, session |-> session[u].nr, kwargs |-> kwargs,
                      config |-> ModifyJobKwargs(Environment(u), kwargs),
                      certs |-> IF FacilitySecurity(Environment(u), kwargs)
                                THEN secrets[SecretName(u)] ELSE 0]]
    /\ UNCHANGED <<name, addressing, spawns, secrets, routes, session, jobs, sidecar>>

\* cluster.scale: condor_submit -spool copies the files of the job, if HTCondor takes
\* the user's token.
Submit(u) ==
    LET directives == cluster[u].config.job_extra_directives
        spooled == directives.transfer_input_files
    IN  /\ cluster[u] # NoCluster /\ Len(jobs) < MaxJobs
        /\ CondorAccepts(Written[secrets[SecretName(u)]].condor_token)
        /\ jobs' = Append(jobs,
             [nr |-> cluster[u].nr, session |-> cluster[u].session,
              kwargs |-> cluster[u].kwargs, address |-> directives.DaskSchedulerAddress,
              certs |-> IF {"ca.pem", "hostcert.pem"} \subseteq spooled
                        THEN secrets[SecretName(u)] ELSE 0,
              state |-> "queued", at |-> 0])
        /\ UNCHANGED <<name, addressing, spawns, secrets, routes, session, built, cluster,
                       sidecar>>

\* cluster.close removes the jobs of the cluster.
Close(u) ==
    /\ cluster[u] # NoCluster
    /\ cluster' = [cluster EXCEPT ![u] = NoCluster]
    /\ jobs' = [j \in DOMAIN jobs |->
                  IF jobs[j].nr = cluster[u].nr
                  THEN [jobs[j] EXCEPT !.state = "gone", !.at = 0] ELSE jobs[j]]
    /\ UNCHANGED <<name, addressing, spawns, secrets, routes, session, built, sidecar>>

\* A kernel that is restarted or killed removes none.
KernelDies(u) ==
    /\ cluster[u] # NoCluster
    /\ cluster' = [cluster EXCEPT ![u] = NoCluster]
    /\ UNCHANGED <<name, addressing, spawns, secrets, routes, session, built, jobs, sidecar>>

-----------------------------------------------------------------------------
(* The workers                                                             *)

\* The ports of Traefik.  Every route is for both, and the one for the host of a scheduler
\* ends at the port 8786 of its service, which is the same port of the pod.
Entrypoints == {8786, 8788}
RoutePort == 8786

\* Whether an address leads to a port of the user's pod.  The service selects the pods
\* whose label is the name that its ingress is for.
Leads(address, v, port) ==
    /\ Up(v)
    /\ \/ address.host = <<"ip", session[v].ip>> /\ port = address.port
       \/ /\ address.host = Host(v) /\ address.port \in Entrypoints /\ port = RoutePort
          /\ \E r \in routes : r.host = Host(v)

\* The open clusters that take a worker with these certificates at this address.  A
\* worker's protocol is tls whatever its cluster's is.
Answering(address, certs) ==
    {v \in Users :
       /\ cluster[v] # NoCluster
       /\ Leads(address, v, cluster[v].config.scheduler_options.port)
       /\ cluster[v].config.scheduler_options.protocol = "tls"
       /\ <<certs, cluster[v].certs>> \in Trusted}

Move(j, state, at) == jobs' = [jobs EXCEPT ![j].state = state, ![j].at = at]
Rest == <<name, addressing, spawns, secrets, routes, session, built, cluster, sidecar>>

\* HTCondor starts the job.  Without certificates the options of its command have no
\* values and take the next words for them: the worker does not get past them.
Begin(j) ==
    /\ jobs[j].state = "queued"
    /\ Move(j, IF jobs[j].certs = 0 THEN "gone" ELSE "contacting", 0)
    /\ UNCHANGED Rest

Join(j) ==
    /\ jobs[j].state = "contacting"
    /\ \E v \in Answering(jobs[j].address, jobs[j].certs) :
         Move(j, "joined", cluster[v].session)
    /\ UNCHANGED Rest

\* mutant: without --death-timeout a worker looks for its scheduler for ever
GiveUpNever(j) == FALSE /\ UNCHANGED vars
\* --death-timeout: no scheduler has answered for a minute.
GiveUp(j) ==
    /\ jobs[j].state = "contacting"
    /\ Answering(jobs[j].address, jobs[j].certs) = {}
    /\ Move(j, "gone", 0)
    /\ UNCHANGED Rest

\* A worker ends after its --lifetime, or when the scheduler it has joined is gone.
Leave(j) ==
    /\ jobs[j].state = "joined"
    /\ Move(j, "gone", 0)
    /\ UNCHANGED Rest

\* mutant: supervisord starts it once
JoinSidecarOnce(u) ==
    /\ Up(u) /\ sidecar[u] = 0
    /\ \E v \in Answering([host |-> Host(u), port |-> DefaultSchedulerPort],
                          secrets[SecretName(u)]) :
         sidecar' = [sidecar EXCEPT ![u] = cluster[v].nr]
    /\ UNCHANGED <<name, addressing, spawns, secrets, routes, session, built, cluster, jobs>>
\* The worker in the pod's second container goes to the user's hostname.  It ends with
\* its cluster, and supervisord starts it again.
JoinSidecar(u) ==
    /\ Up(u) /\ (sidecar[u] = 0 \/ ~Open(sidecar[u]))
    /\ \E v \in Answering([host |-> Host(u), port |-> DefaultSchedulerPort],
                          secrets[SecretName(u)]) :
         sidecar' = [sidecar EXCEPT ![u] = cluster[v].nr]
    /\ UNCHANGED <<name, addressing, spawns, secrets, routes, session, built, cluster, jobs>>

-----------------------------------------------------------------------------
Work(j) == Begin(j) \/ Join(j) \/ GiveUp(j) \/ Leave(j)

Next ==
    \/ \E u \in Users :
         \/ Spawn(u) \/ Stop(u) \/ Submit(u) \/ Close(u) \/ KernelDies(u)
         \/ JoinSidecar(u)
         \/ \E kwargs \in Asked : Build(u, kwargs)
    \/ \E j \in DOMAIN jobs : Work(j)

\* HTCondor starts every job sooner or later; a worker goes on; supervisord does.
Spec ==
    /\ Init /\ [][Next]_vars
    /\ \A j \in 1..MaxJobs : WF_vars(j \in DOMAIN jobs /\ Work(j))
    /\ \A u \in Users : WF_vars(JoinSidecar(u))

-----------------------------------------------------------------------------
(* Properties *)

\* A worker joins only a cluster of the session that submitted its job, and a sidecar
\* only one of its own pod: an address that is reused, or a hostname that leads to the
\* user's next server, lets no worker of another session in.
OwnSession ==
    /\ \A j \in DOMAIN jobs : jobs[j].state = "joined" => jobs[j].at = jobs[j].session
    /\ \A u \in Users : sidecar[u] # 0 /\ Open(sidecar[u]) => sidecar[u] = cluster[u].nr

\* Where the scheduler of these arguments listens.
ListensAt(kwargs) ==
    IF kwargs.scheduler_options = <<>> THEN kwargs.scheduler_port
    ELSE kwargs.scheduler_options[1].port
\* The port of the pod at which a worker of these arguments arrives, if it arrives.
ReachedAt(kwargs) ==
    IF addressing = "POD_IP" THEN {kwargs.scheduler_port}
    ELSE {port \in {RoutePort} : kwargs.scheduler_port \in Entrypoints}

\* TLS, with the facility's certificates.
Secured(kwargs) ==
    /\ ~kwargs.force_tcp
    /\ \A i \in DOMAIN kwargs.security :
         kwargs.security[i] = SecurityObj([files |-> PodFiles])
\* The user's own directives, which replace the facility's, name the certificates.
Carries(kwargs) ==
    \A i \in DOMAIN kwargs.job_kwargs.job_extra_directives :
      {"ca.pem", "hostcert.pem"}
        \subseteq kwargs.job_kwargs.job_extra_directives[i].transfer_input_files
\* A cluster whose workers can come to it: it is secured, its jobs carry the certificates,
\* and it listens where they arrive.
Suited(kwargs) ==
    Secured(kwargs) /\ Carries(kwargs) /\ ListensAt(kwargs) \in ReachedAt(kwargs)

\* Another user's name is the same up to the length that the hook cuts names at.
CutAlike(u, v) ==
    LET cut(w) == SubSeq(name[w].host, 1, Min({Len(name[w].host), Limit}))
    IN  u # v /\ cut(u) = cut(v)
Routed(u) == \E r \in routes : r.host = Host(u)
\* The route of a user went with, or was replaced by, one of the same name.
CutOff(u) == ~Routed(u) /\ \E v \in Users : CutAlike(u, v)

\* The worker of a suited cluster ends without having joined only when its cluster is no
\* longer open, or when the jobs come by the route of their user and another user, of
\* a name that is cut to the same, has taken it away.
TurnedAwayOnlyIfGone ==
    [][\A j \in DOMAIN jobs :
         /\ jobs[j].state \in {"queued", "contacting"} /\ jobs'[j].state = "gone"
         /\ Suited(jobs[j].kwargs)
         => \A u \in Users :
              cluster'[u].nr = jobs[j].nr => addressing = "HOST_IP" /\ CutOff(u)]_vars

\* A cluster that a worker has joined was built with arguments that suit: no other
\* cluster ever gets a worker of its jobs.
ServedOnlyIfSuited ==
    \A j \in DOMAIN jobs : \A u \in Users :
      jobs[j].state = "joined" /\ cluster[u].nr = jobs[j].nr => Suited(jobs[j].kwargs)

\* A server that runs can submit jobs: the token in its secret is one that HTCondor
\* accepts.
TokenAccepted ==
    \A u \in Users : Up(u) => CondorAccepts(Written[secrets[SecretName(u)]].condor_token)

\* A session that is over holds no node for good: its jobs end, those too that start
\* later and find another scheduler at the address.
Over(nr) == \A u \in Users : session[u].nr # nr
WorkersReleased ==
    \A j \in 1..MaxJobs :
      (j \in DOMAIN jobs /\ Over(jobs[j].session))
        ~> (j \in DOMAIN jobs /\ jobs[j].state = "gone")

\* An open cluster that the pod's own worker can come to gets it, in the place of any
\* cluster before: one that is secured and listens where the user's route leads.
Reachable(u) ==
    /\ cluster[u] # NoCluster /\ ~CutOff(u)
    /\ Secured(cluster[u].kwargs) /\ ListensAt(cluster[u].kwargs) = RoutePort
SidecarComes ==
    \A u \in Users : Reachable(u) ~> (~Reachable(u) \/ sidecar[u] = cluster[u].nr)
=============================================================================
