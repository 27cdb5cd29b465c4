--------------------------- MODULE Sessions_proofs ---------------------------
(***************************************************************************)
(* OwnSession, TokenAccepted, TurnedAwayOnlyIfGone and ServedOnlyIfSuited  *)
(* for any users, names, arguments and bounds.  The argument for the first *)
(* two is that certificates stand for a session: those that a server's     *)
(* secret holds, those of an open cluster and those of a job are of the    *)
(* spawn that they belong to, and two sets of certificates make a          *)
(* connection only when one spawn has made both.  For the others a worker  *)
(* must also find its way: WayInv follows the address from the route of    *)
(* the spawn through the configuration of the cluster to the job, and what *)
(* the dictionaries of JobConfig come to says which arguments lead there.  *)
(***************************************************************************)
EXTENDS Sessions, TLAPS

-----------------------------------------------------------------------------
(* Certificates and tokens *)

\* A certificate is verified by the authority of its own spawn only, whose key is new
\* in every spawn.
LEMMA TrustedIsOwn ==
    ASSUME NEW m, NEW n, <<m, n>> \in Trusted
    PROVE  m = n /\ m \in 1..MaxSpawns
<1>1. m \in 1..MaxSpawns /\ n \in 1..MaxSpawns
  BY DEF Trusted
<1>2. Handshake(GenerateX509(m), GenerateX509(n))
  BY DEF Trusted
<1>3. /\ GenerateX509(m).ca.public = <<m, "ca">>
      /\ GenerateX509(n).host.cert.signer = <<n, "ca">>
  BY DEF GenerateX509, GenerateCa, GenerateServerCert
<1>4. GenerateX509(n).host.cert.signer = GenerateX509(m).ca.public
  BY <1>2 DEF Handshake, Verifies
<1> QED
  BY <1>1, <1>3, <1>4

\* XORed twice with the same pads, a password is itself again.
LEMMA ScrambledTwice == SimpleScramble(PoolFile) = PoolPassword
<1> USE PoolPasswordAssumption
<1>1. \A byte \in Byte, pad \in 0..3 : Scrambled(Scrambled(byte, pad), pad) = byte
  <2> TAKE byte \in Byte, pad \in 0..3
  <2> DEFINE once == (byte.pads \ {pad}) \cup ({pad} \ byte.pads)
  <2>1. byte = [value |-> byte.value, pads |-> byte.pads]
    BY DEF Byte
  <2>2. Scrambled(Scrambled(byte, pad), pad)
          = [value |-> byte.value, pads |-> (once \ {pad}) \cup ({pad} \ once)]
    BY DEF Scrambled
  <2>3. (once \ {pad}) \cup ({pad} \ once) = byte.pads
    OBVIOUS
  <2> QED
    BY <2>1, <2>2, <2>3
<1>2. DOMAIN PoolPassword = 1..Len(PoolPassword) /\ Len(PoolPassword) \in Nat
  OBVIOUS
<1>3. \A i \in DOMAIN PoolPassword :
        /\ PoolPassword[i] \in Byte
        /\ (i - 1) % 4 \in 0..3
  <2> TAKE i \in DOMAIN PoolPassword
  <2>1. i \in 1..Len(PoolPassword)
    BY <1>2
  <2>2. PoolPassword[i] \in Byte
    BY <2>1
  <2>3. i - 1 \in Int
    BY <1>2, <2>1
  <2>4. \A k \in Int : k % 4 \in 0..3
    OBVIOUS
  <2> QED
    BY <2>2, <2>3, <2>4
<1>4. PoolFile = [i \in DOMAIN PoolPassword |-> Scrambled(PoolPassword[i], (i - 1) % 4)]
  BY DEF PoolFile, SimpleScramble
<1>5. SimpleScramble(PoolFile)
        = [i \in DOMAIN PoolPassword |->
             Scrambled(Scrambled(PoolPassword[i], (i - 1) % 4), (i - 1) % 4)]
  BY <1>4 DEF SimpleScramble
<1>6. SimpleScramble(PoolFile) = [i \in DOMAIN PoolPassword |-> PoolPassword[i]]
  BY <1>1, <1>3, <1>5
<1> QED
  BY <1>2, <1>6

\* The token of every spawn is signed with the key of the doubled password.
LEMMA SecretAccepted ==
    \A n \in 1..MaxSpawns : CondorAccepts(Written[n].condor_token)
<1> TAKE n \in 1..MaxSpawns
<1>1. Written[n].condor_token = GenerateCondor(PoolFile, "condor", "submituser", "POOL")
  BY DEF Written, Secret
<1>2. GenerateCondor(PoolFile, "condor", "submituser", "POOL")
        = SignToken("submituser", "condor", "POOL",
                    DeriveMasterKey(PoolPassword \o PoolPassword))
  BY ScrambledTwice DEF GenerateCondor
<1>3. /\ SignToken("submituser", "condor", "POOL",
                   DeriveMasterKey(PoolPassword \o PoolPassword)).kid = "POOL"
      /\ SignToken("submituser", "condor", "POOL",
                   DeriveMasterKey(PoolPassword \o PoolPassword)).key
           = DeriveMasterKey(PoolPassword \o PoolPassword)
  BY DEF SignToken
<1> QED
  BY <1>1, <1>2, <1>3 DEF CondorAccepts

-----------------------------------------------------------------------------
(* Sequences *)

\* A function from 1..n is a sequence of its values.
LEMMA SequenceOfItsValues ==
    ASSUME NEW n \in Nat, NEW s, s = [i \in 1..n |-> s[i]]
    PROVE  s \in Seq(Range(s)) /\ Len(s) = n /\ DOMAIN s = 1..n
<1>1. DOMAIN s = 1..n
  OBVIOUS
<1>2. \A i \in 1..n : s[i] \in Range(s)
  BY <1>1 DEF Range
<1> HIDE DEF Range
<1>3. [i \in 1..n |-> s[i]] \in Seq(Range(s))
  BY <1>2
<1>4. s \in Seq(Range(s))
  BY <1>3
<1> QED
  BY <1>1, <1>4

\* One more value at the end leaves those before where they are.
LEMMA AppendFacts ==
    ASSUME NEW s, s \in Seq(Range(s)), NEW e
    PROVE  /\ Append(s, e) \in Seq(Range(Append(s, e)))
           /\ Len(Append(s, e)) = Len(s) + 1 /\ Len(s) \in Nat
           /\ DOMAIN Append(s, e) = 1..(Len(s) + 1) /\ DOMAIN s = 1..Len(s)
           /\ \A i \in DOMAIN s : Append(s, e)[i] = s[i]
           /\ Append(s, e)[Len(s) + 1] = e
<1> DEFINE S == Range(s) \cup {e}
           longer == Append(s, e)
<1>1. s \in Seq(S) /\ e \in S
  <2>1. Range(s) \subseteq S
    OBVIOUS
  <2> HIDE DEF S
  <2>2. s \in Seq(S)
    BY <2>1
  <2> QED
    BY <2>2 DEF S
<1> HIDE DEF S
<1>2. /\ longer \in Seq(S) /\ Len(longer) = Len(s) + 1 /\ Len(s) \in Nat
      /\ \A i \in 1..Len(s) : longer[i] = s[i]
      /\ longer[Len(s) + 1] = e
  BY <1>1
<1>3. DOMAIN s = 1..Len(s)
  BY <1>1
<1> HIDE DEF longer
<1>4. longer = [i \in 1..Len(longer) |-> longer[i]]
  BY <1>2
<1>5. longer \in Seq(Range(longer)) /\ DOMAIN longer = 1..(Len(s) + 1)
  BY <1>2, <1>4, SequenceOfItsValues
<1> QED
  BY <1>2, <1>3, <1>5 DEF longer

-----------------------------------------------------------------------------
(* The invariant *)

\* The parts of TypeOK that say what kind of value a variable has.
ShapeInv ==
    /\ name \in {NamesOf(n) : n \in Namings} /\ addressing \in {"POD_IP", "HOST_IP"}
    /\ spawns \in 0..MaxSpawns /\ built \in 0..MaxClusters
    /\ secrets \in [SecretNames -> 0..MaxSpawns]
    /\ DOMAIN session = Users /\ DOMAIN cluster = Users /\ DOMAIN sidecar = Users

\* No two servers have one number, and a server's secret is its own spawn's.
SessionsInv ==
    /\ \A u \in Users :
         /\ session[u].nr \in 0..spawns
         /\ Up(u) => session[u].ip \in Ips /\ secrets[SecretName(u)] = session[u].nr
    /\ \A u, v \in Users : Up(u) /\ session[u].nr = session[v].nr => u = v

\* An open cluster is in its own session, of whose spawn it has the certificates, unless
\* it has the user's.
ClusterOf(u) ==
    /\ Up(u) /\ cluster[u].nr \in 1..built
    /\ cluster[u].session = session[u].nr /\ cluster[u].certs \in {0, session[u].nr}
    /\ cluster[u].kwargs \in Asked
ClustersInv ==
    /\ \A u \in Users : cluster[u] = NoCluster \/ ClusterOf(u)
    /\ \A u, v \in Users : cluster[u].nr = cluster[v].nr /\ cluster[u].nr # 0 => u = v

\* A job has the certificates of its session or none, and is where it belongs.
JobFields == {"nr", "session", "kwargs", "address", "certs", "state", "at"}
JobOK(job) ==
    /\ DOMAIN job = JobFields
    /\ job.nr \in 1..built /\ job.session \in 1..spawns /\ job.kwargs \in Asked
    /\ job.certs \in {0, job.session} /\ job.at \in 0..spawns /\ job.state \in States
    /\ job.state = "joined" => job.at = job.session
JobsInv ==
    /\ jobs \in Seq(Range(jobs)) /\ Len(jobs) <= MaxJobs
    /\ \A j \in DOMAIN jobs : JobOK(jobs[j])

\* A sidecar is in no other user's cluster.
SidecarsInv ==
    /\ \A u \in Users : sidecar[u] \in 0..built
    /\ \A u, v \in Users : sidecar[u] = cluster[v].nr /\ sidecar[u] # 0 => u = v

IInv == ShapeInv /\ SessionsInv /\ ClustersInv /\ JobsInv /\ SidecarsInv

\* Every user's secret has a name of its own.
LEMMA NameFacts ==
    ASSUME name \in {NamesOf(n) : n \in Namings}
    PROVE  /\ \A u \in Users : SecretName(u) \in SecretNames
           /\ \A u, v \in Users : u # v => SecretName(u) # SecretName(v)
<1>1. PICK n \in Namings : name = NamesOf(n)
  OBVIOUS
<1>2. \A u \in Users : SecretName(u) = UsernameToSecretname(n[u])
  BY <1>1 DEF SecretName, NamesOf
<1> QED
  BY <1>2, NamesDiffer DEF SecretNames

\* The invariant says all that is promised of a state.
LEMMA Enough == IInv => TypeOK /\ OwnSession /\ TokenAccepted
<1> SUFFICES ASSUME IInv PROVE TypeOK /\ OwnSession /\ TokenAccepted
  OBVIOUS
<1> USE DEF IInv
<1>1. TypeOK
  <2>1. \A u \in Users : cluster[u].nr \in 0..built
    BY DEF ShapeInv, ClustersInv, ClusterOf, NoCluster
  <2>2. \A j \in DOMAIN jobs : jobs[j].certs \in 0..spawns
    BY DEF ShapeInv, JobsInv, JobOK
  <2> QED
    BY <2>1, <2>2 DEF TypeOK, ShapeInv, SessionsInv, JobsInv, JobOK, SidecarsInv
<1>2. OwnSession
  BY DEF OwnSession, Open, JobsInv, JobOK, SidecarsInv
<1>3. TokenAccepted
  <2> SUFFICES ASSUME NEW u \in Users, Up(u)
               PROVE  CondorAccepts(Written[secrets[SecretName(u)]].condor_token)
    BY DEF TokenAccepted
  <2>1. session[u].nr \in 1..MaxSpawns /\ secrets[SecretName(u)] = session[u].nr
    BY BoundsAssumption DEF ShapeInv, SessionsInv, Up
  <2> QED
    BY <2>1, SecretAccepted
<1> QED
  BY <1>1, <1>2, <1>3

\* At the start nothing runs.
LEMMA InitIInv == Init => IInv
<1> SUFFICES ASSUME Init PROVE IInv
  OBVIOUS
<1> USE BoundsAssumption DEF Init, NoSession, NoCluster
<1>1. ShapeInv
  BY DEF ShapeInv
<1>2. SessionsInv
  BY DEF SessionsInv, Up
<1>3. ClustersInv
  BY DEF ClustersInv
<1>4. JobsInv
  BY DEF JobsInv
<1>5. SidecarsInv
  BY DEF SidecarsInv
<1> QED
  BY <1>1, <1>2, <1>3, <1>4, <1>5 DEF IInv

-----------------------------------------------------------------------------
(* The steps *)

\* What a step that leaves the jobs and what they were submitted to alone keeps.
LEMMA JobsKept ==
    ASSUME JobsInv, jobs' = jobs, spawns \in Nat, built \in Nat,
           spawns' \in Nat, built' \in Nat, spawns <= spawns', built <= built'
    PROVE  JobsInv'
BY DEF JobsInv, JobOK

\* A new number for the server and, in the secret, for the certificates: the clusters
\* that are open are those of other users.
LEMMA SpawnStep == ASSUME IInv, NEW u \in Users, Spawn(u) PROVE IInv'
<1> USE BoundsAssumption DEF IInv
<1>1. PICK ip \in Ips : session' = [session EXCEPT ![u] = [nr |-> spawns + 1, ip |-> ip]]
  BY DEF Spawn
<1>2. /\ ~Up(u) /\ spawns < MaxSpawns /\ spawns' = spawns + 1
      /\ secrets' = [secrets EXCEPT ![SecretName(u)] = spawns + 1]
      /\ UNCHANGED <<name, addressing, built, cluster, jobs, sidecar>>
  BY DEF Spawn
<1>3. /\ session'[u] = [nr |-> spawns + 1, ip |-> ip]
      /\ \A v \in Users \ {u} : session'[v] = session[v]
  BY <1>1 DEF ShapeInv
<1>4. /\ secrets'[SecretName(u)] = spawns + 1
      /\ \A v \in Users \ {u} : secrets'[SecretName(v)] = secrets[SecretName(v)]
  BY <1>2, NameFacts DEF ShapeInv
<1>5. ShapeInv'
  <2>1. spawns' \in 0..MaxSpawns
    BY <1>2 DEF ShapeInv
  <2>2. secrets' \in [SecretNames -> 0..MaxSpawns]
    BY <1>2, <2>1 DEF ShapeInv
  <2> QED
    BY <1>1, <1>2, <2>1, <2>2 DEF ShapeInv
<1>6. SessionsInv'
  <2>1. SecretName(u)' = SecretName(u) /\ \A v \in Users : SecretName(v)' = SecretName(v)
    BY <1>2 DEF SecretName
  <2>2. \A v \in Users : session[v].nr \in 0..spawns /\ spawns \in Nat
    BY DEF SessionsInv, ShapeInv
  <2>3. ASSUME NEW v \in Users
        PROVE  /\ session'[v].nr \in 0..spawns'
               /\ Up(v)' => session'[v].ip \in Ips
                            /\ secrets'[SecretName(v)'] = session'[v].nr
    <3>1. CASE v = u
      BY <3>1, <1>2, <1>3, <1>4, <2>1, <2>2
    <3>2. CASE v # u
      <4>1. session'[v] = session[v] /\ secrets'[SecretName(v)] = secrets[SecretName(v)]
        BY <3>2, <1>3, <1>4
      <4>2. /\ session[v].nr \in 0..spawns
            /\ Up(v) => session[v].ip \in Ips /\ secrets[SecretName(v)] = session[v].nr
        BY DEF SessionsInv
      <4> QED
        BY <4>1, <4>2, <1>2, <2>1, <2>2 DEF Up
    <3> QED
      BY <3>1, <3>2
  <2>4. ASSUME NEW v \in Users, NEW w \in Users, Up(v)', session'[v].nr = session'[w].nr
        PROVE  v = w
    <3>1. session'[u].nr = spawns + 1
      BY <1>3
    <3>2. CASE v # u /\ w # u
      BY <3>2, <2>4, <1>3 DEF SessionsInv, Up
    <3> QED
      BY <3>1, <3>2, <2>2, <2>4, <1>3
  <2> QED
    BY <2>3, <2>4 DEF SessionsInv
<1>7. ClustersInv'
  <2>1. \A v \in Users : cluster[v] # NoCluster => v # u /\ ClusterOf(v)
    BY <1>2 DEF ClustersInv, ClusterOf
  <2>2. \A v \in Users : v # u /\ ClusterOf(v) => ClusterOf(v)'
    BY <1>2, <1>3 DEF ClusterOf, Up
  <2> QED
    BY <1>2, <2>1, <2>2 DEF ClustersInv
<1>8. JobsInv'
  BY <1>2, JobsKept DEF ShapeInv
<1>9. SidecarsInv'
  BY <1>2 DEF SidecarsInv
<1> QED
  BY <1>5, <1>6, <1>7, <1>8, <1>9

\* With the server go its cluster and its sidecar.
LEMMA StopStep == ASSUME IInv, NEW u \in Users, Stop(u) PROVE IInv'
<1> USE BoundsAssumption DEF IInv
<1>1. /\ session' = [session EXCEPT ![u] = NoSession]
      /\ cluster' = [cluster EXCEPT ![u] = NoCluster]
      /\ sidecar' = [sidecar EXCEPT ![u] = 0]
      /\ UNCHANGED <<name, addressing, spawns, secrets, built, jobs>>
  BY DEF Stop
<1>2. /\ session'[u] = NoSession /\ cluster'[u] = NoCluster /\ sidecar'[u] = 0
      /\ \A v \in Users \ {u} :
           session'[v] = session[v] /\ cluster'[v] = cluster[v] /\ sidecar'[v] = sidecar[v]
  BY <1>1 DEF ShapeInv
<1>3. ~Up(u)' /\ session'[u].nr = 0 /\ cluster'[u].nr = 0
  BY <1>2 DEF Up, NoSession, NoCluster
<1>4. ShapeInv'
  BY <1>1 DEF ShapeInv
<1>5. SessionsInv'
  <2>1. \A v \in Users : SecretName(v)' = SecretName(v)
    BY <1>1 DEF SecretName
  <2>2. ASSUME NEW v \in Users
        PROVE  /\ session'[v].nr \in 0..spawns
               /\ Up(v)' => session'[v].ip \in Ips
                            /\ secrets[SecretName(v)] = session'[v].nr
    BY <1>2, <1>3 DEF SessionsInv, Up, ShapeInv
  <2>3. ASSUME NEW v \in Users, NEW w \in Users, Up(v)', session'[v].nr = session'[w].nr
        PROVE  v = w
    BY <2>3, <1>2, <1>3 DEF SessionsInv, Up
  <2> QED
    BY <1>1, <2>1, <2>2, <2>3 DEF SessionsInv
<1>6. ClustersInv'
  <2>1. \A v \in Users \ {u} : ClusterOf(v) => ClusterOf(v)'
    BY <1>1, <1>2 DEF ClusterOf, Up
  <2>2. \A v \in Users : cluster'[v] = NoCluster \/ ClusterOf(v)'
    BY <1>2, <2>1 DEF ClustersInv
  <2>3. \A v, w \in Users :
          cluster'[v].nr = cluster'[w].nr /\ cluster'[v].nr # 0 => v = w
    BY <1>2, <1>3 DEF ClustersInv
  <2> QED
    BY <2>2, <2>3 DEF ClustersInv, NoCluster
<1>7. JobsInv'
  BY <1>1, JobsKept DEF ShapeInv
<1>8. SidecarsInv'
  BY <1>1, <1>2, <1>3 DEF SidecarsInv, ShapeInv
<1> QED
  BY <1>4, <1>5, <1>6, <1>7, <1>8

\* A cluster gets a number that nothing has yet, and the certificates of the secret.
LEMMA BuildStep ==
    ASSUME IInv, NEW u \in Users, NEW kwargs \in Asked, Build(u, kwargs) PROVE IInv'
<1> USE BoundsAssumption DEF IInv
<1> DEFINE new == [nr |-> built + 1, session |-> session[u].nr, kwargs |-> kwargs,
                   config |-> ModifyJobKwargs(Environment(u), kwargs),
                   certs |-> IF FacilitySecurity(Environment(u), kwargs)
                             THEN secrets[SecretName(u)] ELSE 0]
<1>1. /\ Up(u) /\ built < MaxClusters /\ built' = built + 1
      /\ cluster' = [cluster EXCEPT ![u] = new]
      /\ UNCHANGED <<name, addressing, spawns, secrets, session, jobs, sidecar>>
  BY DEF Build
<1>2. /\ new.nr = built + 1 /\ new.session = session[u].nr /\ new.kwargs = kwargs
      /\ new.certs \in {0, secrets[SecretName(u)]}
  OBVIOUS
<1> HIDE DEF new
<1>3. cluster'[u] = new /\ \A v \in Users \ {u} : cluster'[v] = cluster[v]
  BY <1>1 DEF ShapeInv
<1>4. /\ built \in Nat /\ spawns \in Nat
      /\ \A v \in Users : cluster[v].nr \in 0..built /\ sidecar[v] \in 0..built
  BY DEF ShapeInv, ClustersInv, ClusterOf, NoCluster, SidecarsInv
<1>5. ShapeInv'
  BY <1>1 DEF ShapeInv
<1>6. SessionsInv'
  BY <1>1 DEF SessionsInv, Up, SecretName
<1>7. ClustersInv'
  <2>1. ClusterOf(u)'
    BY <1>1, <1>2, <1>3, <1>4 DEF ClusterOf, SessionsInv, Up
  <2>2. \A v \in Users \ {u} : ClusterOf(v) => ClusterOf(v)'
    BY <1>1, <1>3, <1>4 DEF ClusterOf, Up
  <2>3. \A v \in Users : cluster'[v] = NoCluster \/ ClusterOf(v)'
    BY <1>3, <2>1, <2>2 DEF ClustersInv
  <2>4. \A v, w \in Users :
          cluster'[v].nr = cluster'[w].nr /\ cluster'[v].nr # 0 => v = w
    BY <1>2, <1>3, <1>4 DEF ClustersInv
  <2> QED
    BY <2>3, <2>4 DEF ClustersInv, NoCluster
<1>8. JobsInv'
  BY <1>1, <1>4, JobsKept
<1>9. SidecarsInv'
  <2>1. \A v, w \in Users : sidecar[v] = cluster'[w].nr /\ sidecar[v] # 0 => v = w
    BY <1>2, <1>3, <1>4 DEF SidecarsInv
  <2> QED
    BY <1>1, <1>4, <2>1 DEF SidecarsInv
<1> QED
  BY <1>5, <1>6, <1>7, <1>8, <1>9

\* A job gets the certificates that its session's secret holds, or none.
LEMMA SubmitStep == ASSUME IInv, NEW u \in Users, Submit(u) PROVE IInv'
<1> USE DEF IInv
<1>1. /\ cluster[u] # NoCluster /\ Len(jobs) < MaxJobs
      /\ UNCHANGED <<name, addressing, spawns, secrets, session, built, cluster, sidecar>>
  BY DEF Submit
<1> DEFINE directives == cluster[u].config.job_extra_directives
           certs == IF {"ca.pem", "hostcert.pem"} \subseteq directives.transfer_input_files
                    THEN secrets[SecretName(u)] ELSE 0
           job == [nr |-> cluster[u].nr, session |-> cluster[u].session,
                   kwargs |-> cluster[u].kwargs,
                   address |-> directives.DaskSchedulerAddress,
                   certs |-> certs, state |-> "queued", at |-> 0]
<1>2. jobs' = Append(jobs, job) /\ certs \in {0, secrets[SecretName(u)]}
  BY DEF Submit
<1> HIDE DEF certs, directives
<1>3. ClusterOf(u) /\ session[u].nr \in 1..spawns
  BY <1>1 DEF ClustersInv, ClusterOf, SessionsInv, Up, ShapeInv
<1>4. JobOK(job)
  <2>1. certs \in {0, cluster[u].session}
    BY <1>2, <1>3 DEF ClusterOf, SessionsInv
  <2>2. DOMAIN job = JobFields
    BY DEF JobFields
  <2>3. 0 \in 0..spawns
    BY DEF ShapeInv
  <2> QED
    BY <1>3, <2>1, <2>2, <2>3 DEF JobOK, ClusterOf, States
<1> HIDE DEF job
<1>5. JobsInv'
  <2>1. jobs' = Append(jobs, job) /\ jobs \in Seq(Range(jobs))
    BY <1>2 DEF JobsInv
  <2>2. /\ jobs' \in Seq(Range(jobs)') /\ Len(jobs') = Len(jobs) + 1 /\ Len(jobs) \in Nat
        /\ DOMAIN jobs' = 1..(Len(jobs) + 1) /\ DOMAIN jobs = 1..Len(jobs)
        /\ \A i \in DOMAIN jobs : jobs'[i] = jobs[i]
        /\ jobs'[Len(jobs) + 1] = job
    BY <2>1, AppendFacts
  <2>3. \A i \in DOMAIN jobs' : JobOK(jobs'[i])
    <3> TAKE i \in DOMAIN jobs'
    <3>1. i \in DOMAIN jobs \/ i = Len(jobs) + 1
      BY <2>2
    <3> QED
      BY <1>4, <2>2, <3>1 DEF JobsInv
  <2>4. \A i \in DOMAIN jobs' : JobOK(jobs[i])'
    BY <1>1, <2>3 DEF JobOK
  <2> QED
    BY <1>1, <2>2, <2>4, BoundsAssumption DEF JobsInv
<1>6. ShapeInv' /\ SidecarsInv'
  BY <1>1 DEF ShapeInv, SidecarsInv
<1>7. SessionsInv' /\ ClustersInv'
  BY <1>1 DEF SessionsInv, ClustersInv, ClusterOf, Up, SecretName
<1> QED
  BY <1>5, <1>6, <1>7

\* With one cluster less, all that was said of the others holds.
LEMMA ClusterGone ==
    ASSUME IInv, NEW u \in Users, cluster' = [cluster EXCEPT ![u] = NoCluster],
           UNCHANGED <<name, addressing, spawns, secrets, session, built, sidecar>>
    PROVE  ShapeInv' /\ SessionsInv' /\ ClustersInv' /\ SidecarsInv'
<1> USE DEF IInv
<1>1. /\ cluster'[u] = NoCluster /\ cluster'[u].nr = 0
      /\ \A v \in Users \ {u} : cluster'[v] = cluster[v]
  BY DEF ShapeInv, NoCluster
<1>2. ShapeInv'
  BY DEF ShapeInv
<1>3. SessionsInv'
  BY DEF SessionsInv, Up, SecretName
<1>4. ClustersInv'
  <2>1. \A v \in Users \ {u} : ClusterOf(v) => ClusterOf(v)'
    BY <1>1 DEF ClusterOf, Up
  <2>2. \A v \in Users : cluster'[v] = NoCluster \/ ClusterOf(v)'
    BY <1>1, <2>1 DEF ClustersInv
  <2>3. \A v, w \in Users :
          cluster'[v].nr = cluster'[w].nr /\ cluster'[v].nr # 0 => v = w
    BY <1>1 DEF ClustersInv
  <2> QED
    BY <2>2, <2>3 DEF ClustersInv, NoCluster
<1>5. SidecarsInv'
  BY <1>1 DEF SidecarsInv
<1> QED
  BY <1>2, <1>3, <1>4, <1>5

\* The jobs of the cluster are gone, the others as they were.
LEMMA CloseStep == ASSUME IInv, NEW u \in Users, Close(u) PROVE IInv'
<1>1. /\ cluster' = [cluster EXCEPT ![u] = NoCluster]
      /\ UNCHANGED <<name, addressing, spawns, secrets, session, built, sidecar>>
      /\ jobs' = [j \in DOMAIN jobs |->
                    IF jobs[j].nr = cluster[u].nr
                    THEN [jobs[j] EXCEPT !.state = "gone", !.at = 0] ELSE jobs[j]]
  BY DEF Close
<1>2. JobsInv'
  <2>1. jobs \in Seq(Range(jobs)) /\ Len(jobs) <= MaxJobs
    BY DEF IInv, JobsInv
  <2>2. DOMAIN jobs = 1..Len(jobs) /\ Len(jobs) \in Nat
    BY <2>1
  <2>3. jobs' = [j \in 1..Len(jobs) |-> jobs'[j]]
    BY <1>1, <2>2
  <2>4. jobs' \in Seq(Range(jobs')) /\ Len(jobs') = Len(jobs) /\ DOMAIN jobs' = DOMAIN jobs
    BY <2>2, <2>3, SequenceOfItsValues
  <2>5. \A j \in DOMAIN jobs : JobOK(jobs'[j])
    <3> TAKE j \in DOMAIN jobs
    <3>1. JobOK(jobs[j])
      BY DEF IInv, JobsInv
    <3>2. CASE jobs'[j] = jobs[j]
      BY <3>1, <3>2
    <3>3. CASE jobs'[j] = [jobs[j] EXCEPT !.state = "gone", !.at = 0]
      <4>1. DOMAIN jobs'[j] = JobFields
        BY <3>1, <3>3 DEF JobOK
      <4>2. /\ jobs'[j].nr = jobs[j].nr /\ jobs'[j].session = jobs[j].session
            /\ jobs'[j].kwargs = jobs[j].kwargs /\ jobs'[j].certs = jobs[j].certs
            /\ jobs'[j].state = "gone" /\ jobs'[j].at = 0
        BY <3>1, <3>3 DEF JobOK, JobFields
      <4>3. 0 \in 0..spawns
        BY DEF IInv, ShapeInv
      <4> QED
        BY <3>1, <4>1, <4>2, <4>3 DEF JobOK, States
    <3> QED
      BY <1>1, <3>2, <3>3
  <2>6. \A j \in DOMAIN jobs' : JobOK(jobs[j])'
    BY <1>1, <2>4, <2>5 DEF JobOK
  <2> QED
    BY <2>1, <2>4, <2>6 DEF JobsInv
<1> QED
  BY <1>1, <1>2, ClusterGone DEF IInv

\* A kernel that dies takes its cluster object along and leaves what it submitted running.
LEMMA KernelDiesStep == ASSUME IInv, NEW u \in Users, KernelDies(u) PROVE IInv'
<1>1. /\ cluster' = [cluster EXCEPT ![u] = NoCluster]
      /\ UNCHANGED <<name, addressing, spawns, secrets, session, built, jobs, sidecar>>
  BY DEF KernelDies
<1>2. JobsInv'
  BY <1>1, JobsKept DEF IInv, ShapeInv
<1> QED
  BY <1>1, <1>2, ClusterGone DEF IInv

\* A worker that moves keeps what it was submitted with.
LEMMA MoveStep ==
    ASSUME IInv, NEW j \in DOMAIN jobs, NEW state \in States, NEW at \in 0..spawns,
           Move(j, state, at), UNCHANGED Rest,
           state = "joined" => at = jobs[j].session
    PROVE  IInv'
<1>1. jobs' = [jobs EXCEPT ![j].state = state, ![j].at = at]
  BY DEF Move
<1>2. UNCHANGED <<name, addressing, spawns, secrets, session, built, cluster, sidecar>>
  BY DEF Rest
<1>3. JobsInv'
  <2>1. jobs \in Seq(Range(jobs)) /\ Len(jobs) <= MaxJobs /\ JobOK(jobs[j])
    BY DEF IInv, JobsInv
  <2>2. DOMAIN jobs = 1..Len(jobs) /\ Len(jobs) \in Nat
    BY <2>1
  <2>3. jobs' = [i \in 1..Len(jobs) |-> jobs'[i]]
    BY <1>1, <2>2
  <2>4. jobs' \in Seq(Range(jobs')) /\ Len(jobs') = Len(jobs) /\ DOMAIN jobs' = DOMAIN jobs
    BY <2>2, <2>3, SequenceOfItsValues
  <2>5. \A i \in DOMAIN jobs \ {j} : jobs'[i] = jobs[i]
    BY <1>1
  <2>6. jobs'[j] = [jobs[j] EXCEPT !.state = state, !.at = at]
    BY <1>1
  <2>7. JobOK(jobs'[j])
    <3>1. DOMAIN jobs'[j] = JobFields
      BY <2>1, <2>6 DEF JobOK
    <3>2. /\ jobs'[j].nr = jobs[j].nr /\ jobs'[j].session = jobs[j].session
          /\ jobs'[j].kwargs = jobs[j].kwargs /\ jobs'[j].certs = jobs[j].certs
          /\ jobs'[j].state = state /\ jobs'[j].at = at
      BY <2>1, <2>6 DEF JobOK, JobFields
    <3> QED
      BY <2>1, <3>1, <3>2 DEF JobOK
  <2>8. \A i \in DOMAIN jobs : JobOK(jobs'[i])
    BY <2>5, <2>7 DEF IInv, JobsInv
  <2>9. \A i \in DOMAIN jobs' : JobOK(jobs[i])'
    BY <1>2, <2>4, <2>8 DEF JobOK
  <2> QED
    BY <2>1, <2>4, <2>9 DEF JobsInv
<1>4. ShapeInv' /\ SidecarsInv'
  BY <1>2 DEF IInv, ShapeInv, SidecarsInv
<1>5. SessionsInv' /\ ClustersInv'
  BY <1>2 DEF IInv, SessionsInv, ClustersInv, ClusterOf, Up, SecretName
<1> QED
  BY <1>3, <1>4, <1>5 DEF IInv

\* A worker is joined by its own session's cluster: there and in its files are
\* certificates that one spawn has made.
LEMMA WorkStep == ASSUME IInv, NEW j \in DOMAIN jobs, Work(j) PROVE IInv'
<1>1. 0 \in 0..spawns
  BY DEF IInv, ShapeInv
<1>2. CASE Begin(j)
  <2>1. PICK state \in {"gone", "contacting"} : Move(j, state, 0)
    BY <1>2 DEF Begin
  <2> QED
    BY <1>1, <1>2, <2>1, MoveStep DEF Begin, States
<1>3. CASE Join(j)
  <2>1. PICK v \in Answering(jobs[j].address, jobs[j].certs) :
          Move(j, "joined", cluster[v].session)
    BY <1>3 DEF Join
  <2>2. /\ v \in Users /\ cluster[v] # NoCluster
        /\ <<jobs[j].certs, cluster[v].certs>> \in Trusted
    BY <2>1 DEF Answering
  <2>3. jobs[j].certs = cluster[v].certs /\ jobs[j].certs \in 1..MaxSpawns
    BY <2>2, TrustedIsOwn
  <2>4. ClusterOf(v)
    BY <2>2 DEF IInv, ClustersInv
  <2>5. JobOK(jobs[j])
    BY DEF IInv, JobsInv
  <2>6. cluster[v].session = jobs[j].session
    BY <2>3, <2>4, <2>5, BoundsAssumption DEF ClusterOf, JobOK
  <2>7. cluster[v].session \in 0..spawns
    BY <2>5, <2>6 DEF JobOK, IInv, ShapeInv
  <2> QED
    BY <1>3, <2>1, <2>6, <2>7, MoveStep DEF Join, States
<1>4. CASE GiveUp(j)
  BY <1>1, <1>4, MoveStep DEF GiveUp, States
<1>5. CASE Leave(j)
  BY <1>1, <1>5, MoveStep DEF Leave, States
<1> QED
  BY <1>2, <1>3, <1>4, <1>5 DEF Work

\* A sidecar presents what the secret holds, which only its own server's cluster takes.
LEMMA SidecarStep == ASSUME IInv, NEW u \in Users, JoinSidecar(u) PROVE IInv'
<1> USE DEF IInv
<1>1. PICK v \in Answering([host |-> Host(u), port |-> DefaultSchedulerPort],
                           secrets[SecretName(u)]) :
        sidecar' = [sidecar EXCEPT ![u] = cluster[v].nr]
  BY DEF JoinSidecar
<1>2. /\ Up(u)
      /\ UNCHANGED <<name, addressing, spawns, secrets, session, built, cluster, jobs>>
  BY DEF JoinSidecar
<1>3. /\ v \in Users /\ cluster[v] # NoCluster
      /\ <<secrets[SecretName(u)], cluster[v].certs>> \in Trusted
  BY <1>1 DEF Answering
<1>4. secrets[SecretName(u)] = cluster[v].certs
  BY <1>3, TrustedIsOwn
<1>5. v = u
  <2>1. cluster[v].certs # 0
    BY <1>3, TrustedIsOwn, BoundsAssumption
  <2>2. cluster[v].certs = session[v].nr /\ secrets[SecretName(u)] = session[u].nr
    BY <1>2, <1>3, <2>1 DEF ClustersInv, ClusterOf, SessionsInv
  <2> QED
    BY <1>2, <1>3, <1>4, <2>2 DEF SessionsInv
<1>6. /\ sidecar'[u] = cluster[u].nr
      /\ \A w \in Users \ {u} : sidecar'[w] = sidecar[w]
  BY <1>1, <1>5 DEF ShapeInv
<1>7. SidecarsInv'
  <2>1. ClusterOf(u)
    BY <1>3, <1>5 DEF ClustersInv
  <2>2. \A w \in Users : sidecar'[w] \in 0..built
    BY <1>6, <2>1 DEF SidecarsInv, ClusterOf, ShapeInv
  <2>3. \A w, x \in Users : sidecar'[w] = cluster[x].nr /\ sidecar'[w] # 0 => w = x
    BY <1>6 DEF SidecarsInv, ClustersInv
  <2> QED
    BY <1>2, <2>2, <2>3 DEF SidecarsInv
<1>8. ShapeInv'
  BY <1>1, <1>2 DEF ShapeInv
<1>9. SessionsInv' /\ ClustersInv'
  BY <1>2 DEF SessionsInv, ClustersInv, ClusterOf, Up, SecretName
<1>10. JobsInv'
  BY <1>2, JobsKept DEF ShapeInv
<1> QED
  BY <1>7, <1>8, <1>9, <1>10

\* A step that changes nothing changes nothing.
LEMMA StutterStep == ASSUME IInv, UNCHANGED vars PROVE IInv'
<1> USE DEF IInv, vars
<1>1. ShapeInv' /\ SidecarsInv'
  BY DEF ShapeInv, SidecarsInv
<1>2. SessionsInv' /\ ClustersInv'
  BY DEF SessionsInv, ClustersInv, ClusterOf, Up, SecretName
<1>3. JobsInv'
  BY JobsKept DEF ShapeInv
<1> QED
  BY <1>1, <1>2, <1>3

\* Whatever happens next, the invariant holds after it: one lemma for each kind of step.
LEMMA NextStep == IInv /\ [Next]_vars => IInv'
<1> SUFFICES ASSUME IInv, [Next]_vars PROVE IInv'
  OBVIOUS
<1>1. ASSUME NEW u \in Users,
             \/ Spawn(u) \/ Stop(u) \/ Submit(u) \/ Close(u) \/ KernelDies(u)
             \/ JoinSidecar(u)
      PROVE  IInv'
  BY <1>1, SpawnStep, StopStep, SubmitStep, CloseStep, KernelDiesStep, SidecarStep
<1>2. ASSUME NEW u \in Users, NEW kwargs \in Asked, Build(u, kwargs) PROVE IInv'
  BY <1>2, BuildStep
<1>3. ASSUME NEW j \in DOMAIN jobs, Work(j) PROVE IInv'
  BY <1>3, WorkStep
<1> QED
  BY <1>1, <1>2, <1>3, StutterStep DEF Next

-----------------------------------------------------------------------------
(* The theorems *)

\* In every state certificates, clusters, jobs and sidecars belong to the sessions that
\* they say they do.
LEMMA Belonging == Spec => []IInv
BY InitIInv, NextStep, PTL DEF Spec

\* Every variable has its type, for any users, arguments and bounds.
THEOREM TypeCorrect == Spec => []TypeOK
BY Belonging, Enough, PTL

\* A worker joins only a cluster of the session that submitted its job, and a sidecar
\* only one of its own pod, whoever is at the address by then: pre_spawn_hook makes new
\* certificates in every spawn, and distributed asks for them at both ends.
THEOREM OnlyOwnSession == Spec => []OwnSession
BY Belonging, Enough, PTL

\* A server that runs has a token that HTCondor accepts, for any password: generate_condor
\* takes off what scrambled the password's file and doubles it as the pool does.
THEOREM TokensAccepted == Spec => []TokenAccepted
BY Belonging, Enough, PTL

-----------------------------------------------------------------------------
(* What a worker is told and given *)

\* a or b or c is a, when there is an a, and else b or c.
LEMMA FirstFacts ==
    ASSUME NEW S, NEW s \in Seq(S), NEW t \in Seq(S)
    PROVE  /\ s # <<>> => FirstOf(s)[1] = s[1] /\ (s \o t)[1] = s[1]
           /\ s # <<>> => s \o t # <<>>
           /\ s \o t \in Seq(S)
           /\ <<>> \o s = s
<1>1. s # <<>> => Len(s) \in Nat /\ Len(s) >= 1
  OBVIOUS
<1> QED
  BY <1>1 DEF FirstOf

\* The kernel's address is its pod's, or else the host that its user's ingress is for.
LEMMA ExternalIpCases ==
    ASSUME NEW u
    PROVE  ExternalIp(Environment(u))
             = IF addressing = "POD_IP" THEN <<"ip", session[u].ip>> ELSE Host(u)
<1> DEFINE env == Environment(u)
           ip == <<"ip", session[u].ip>>
           S == {ip, Host(u), <<"fqdn">>}
<1>1. /\ env.POD_IP = (IF addressing = "POD_IP" THEN <<ip>> ELSE <<>>)
      /\ env.HOST_IP = <<Host(u)>> /\ env.fqdn = <<"fqdn">>
  BY DEF Environment
<1>2. ip \in S /\ Host(u) \in S /\ <<"fqdn">> \in S
  OBVIOUS
<1> HIDE DEF S, env, ip
<1>3. <<ip>> \in Seq(S) /\ <<Host(u)>> \in Seq(S) /\ <<<<"fqdn">>>> \in Seq(S)
  BY <1>2
<1>4. /\ <<ip>> # <<>> /\ <<ip>>[1] = ip
      /\ <<Host(u)>> # <<>> /\ <<Host(u)>>[1] = Host(u)
  OBVIOUS
<1>5. CASE addressing = "POD_IP"
  <2>1. /\ <<ip>> \o <<Host(u)>> \in Seq(S) /\ <<ip>> \o <<Host(u)>> # <<>>
        /\ (<<ip>> \o <<Host(u)>>)[1] = ip
    BY <1>3, <1>4, FirstFacts
  <2>2. FirstOf(<<ip>> \o <<Host(u)>> \o <<<<"fqdn">>>>)[1] = ip
    BY <1>3, <2>1, FirstFacts
  <2> QED
    BY <1>1, <1>5, <2>2 DEF ExternalIp, env, ip
<1>6. CASE addressing # "POD_IP"
  <2>1. <<>> \o <<Host(u)>> = <<Host(u)>>
    BY <1>3, FirstFacts
  <2>2. /\ <<Host(u)>> \o <<<<"fqdn">>>> \in Seq(S)
        /\ <<Host(u)>> \o <<<<"fqdn">>>> # <<>>
        /\ (<<Host(u)>> \o <<<<"fqdn">>>>)[1] = Host(u)
    BY <1>3, <1>4, FirstFacts
  <2>3. FirstOf(<<Host(u)>> \o <<<<"fqdn">>>>)[1] = Host(u)
    BY <1>3, <2>2, FirstFacts
  <2> QED
    BY <1>1, <1>6, <2>1, <2>3 DEF ExternalIp, env
<1> QED
  BY <1>5, <1>6 DEF ip

\* An argument that may be left out is there once, or not at all.
LEMMA OptionalFacts ==
    ASSUME NEW S, NEW s \in Optional(S)
    PROVE  /\ s \in Seq(S)
           /\ s = <<>> \/ (s # <<>> /\ DOMAIN s = {1} /\ s = <<s[1]>> /\ s[1] \in S)
<1>1. CASE s \in [1..0 -> S]
  BY <1>1
<1>2. CASE s \in [1..1 -> S]
  <2>1. s \in Seq(S) /\ Len(s) = 1 /\ s[1] \in S
    BY <1>2
  <2>2. DOMAIN s = {1} /\ s # <<>> /\ s = <<s[1]>>
    BY <1>2, <2>1
  <2> QED
    BY <2>1, <2>2
<1> QED
  BY <1>1, <1>2 DEF Optional, TupleOf

\* An argument that is given is taken, and else what is configured.
LEMMA OrElseFacts ==
    ASSUME NEW S, NEW s \in Optional(S), NEW c
    PROVE  OrElse(s, c) = IF s = <<>> THEN c ELSE s[1]
<1> DEFINE T == S \cup {c}
<1>1. c \in T /\ S \subseteq T
  OBVIOUS
<1>2. s \in Seq(S)
  BY OptionalFacts
<1> HIDE DEF T
<1>3. s \in Seq(T) /\ <<c>> \in Seq(T) /\ <<c>>[1] = c
  BY <1>1, <1>2
<1>4. s # <<>> => (s \o <<c>>)[1] = s[1]
  BY <1>3, FirstFacts
<1>5. <<>> \o <<c>> = <<c>>
  BY <1>3, FirstFacts
<1> QED
  BY <1>3, <1>4, <1>5 DEF OrElse

\* Arguments have the types that the constructor's calls give them.
LEMMA ArgumentFacts ==
    ASSUME NEW kwargs \in Asked
    PROVE  /\ kwargs.security \in Optional(Security)
           /\ kwargs.scheduler_options \in Optional([port : Port])
           /\ kwargs.job_kwargs.scheduler_options = <<>>
           /\ kwargs.job_kwargs.job_extra_directives \in Optional(Directives)
           /\ kwargs.scheduler_port \in Port
BY AskedAssumption DEF Kwargs

\* A cluster is secured exactly when it uses TLS and the facility's certificates, and
\* these are then among the files for its jobs.
LEMMA SecuredFacts ==
    ASSUME NEW u, NEW kwargs \in Asked
    PROVE  /\ Secured(kwargs) <=> /\ UsesTls(Environment(u), kwargs)
                                  /\ FacilitySecurity(Environment(u), kwargs)
           /\ Secured(kwargs) =>
                {"ca.pem", "hostcert.pem"} \subseteq InputFiles(Environment(u), kwargs)
<1> DEFINE env == Environment(u)
           obj == SecurityObj([files |-> PodFiles])
<1>1. /\ env.files = PodFiles
      /\ IsFile(env, "ca.pem") /\ IsFile(env, "hostcert.pem")
  BY DEF Environment, IsFile, PodFiles
<1>2. SecurityObj(env) = obj
  BY <1>1 DEF SecurityObj, KeyFile, IsFile
<1>3. /\ obj.require_encryption = TRUE
      /\ obj.tls_ca_file = "ca.pem" /\ obj.tls_worker_cert = "hostcert.pem"
  BY DEF SecurityObj
<1> HIDE DEF env, obj
<1>4. kwargs.security = <<>>
        \/ /\ kwargs.security # <<>> /\ DOMAIN kwargs.security = {1}
           /\ kwargs.security = <<kwargs.security[1]>>
  BY ArgumentFacts, OptionalFacts
<1>5. Sec(env, kwargs)
        = IF kwargs.security # <<>> THEN kwargs.security ELSE <<obj>>
  BY <1>1, <1>2 DEF Sec
<1>6. Secured(kwargs) <=> ~kwargs.force_tcp /\ Sec(env, kwargs) = <<obj>>
  <2>1. CASE kwargs.security = <<>>
    <3>1. DOMAIN kwargs.security = {}
      BY <2>1
    <3> QED
      BY <1>5, <2>1, <3>1 DEF Secured, obj
  <2>2. CASE kwargs.security # <<>>
    <3> DEFINE sec == kwargs.security
    <3>1. DOMAIN sec = {1} /\ sec = <<sec[1]>> /\ Sec(env, kwargs) = sec
      BY <1>4, <1>5, <2>2
    <3>2. Secured(kwargs) <=> ~kwargs.force_tcp /\ sec[1] = obj
      BY <3>1 DEF Secured, obj
    <3> HIDE DEF sec
    <3>3. sec = <<obj>> <=> sec[1] = obj
      BY <3>1
    <3> QED
      BY <3>1, <3>2, <3>3
  <2> QED
    BY <2>1, <2>2
<1>7. Sec(env, kwargs) = <<obj>> => Sec(env, kwargs) # <<>> /\ Sec(env, kwargs)[1] = obj
  OBVIOUS
<1>8. Secured(kwargs) <=> UsesTls(env, kwargs) /\ FacilitySecurity(env, kwargs)
  BY <1>2, <1>3, <1>6, <1>7 DEF UsesTls, FacilitySecurity
<1>9. Secured(kwargs) => {"ca.pem", "hostcert.pem"} \subseteq InputFiles(env, kwargs)
  <2> SUFFICES ASSUME Secured(kwargs)
               PROVE  {"ca.pem", "hostcert.pem"} \subseteq InputFiles(env, kwargs)
    OBVIOUS
  <2>1. UsesTls(env, kwargs) /\ Sec(env, kwargs)[1] = obj
    BY <1>6, <1>7, <1>8
  <2>2. {"ca.pem", "hostcert.pem"} \subseteq TlsFiles(env, kwargs)
    BY <1>1, <1>3, <2>1 DEF TlsFiles
  <2> QED
    BY <2>1, <2>2 DEF InputFiles
<1> QED
  BY <1>8, <1>9 DEF env

\* What the class makes of arguments: the scheduler listens where they say, its jobs are
\* told its address and carry what they name or, if they name nothing, the input files.
LEMMA ConfigFacts ==
    ASSUME NEW u, NEW kwargs \in Asked
    PROVE  LET env == Environment(u)
               config == ModifyJobKwargs(env, kwargs)
               own == kwargs.job_kwargs.job_extra_directives
           IN  /\ config.scheduler_options.port = ListensAt(kwargs)
               /\ config.scheduler_options.protocol = Protocol(env, kwargs)
               /\ config.job_extra_directives.DaskSchedulerAddress
                    = ContactAddress(env, kwargs)
               /\ config.job_extra_directives.transfer_input_files
                    = IF own = <<>> THEN InputFiles(env, kwargs)
                      ELSE own[1].transfer_input_files
<1> DEFINE env == Environment(u)
           options == kwargs.scheduler_options
           own == kwargs.job_kwargs.job_extra_directives
<1>1. /\ options \in Optional([port : Port]) /\ own \in Optional(Directives)
      /\ kwargs.job_kwargs.scheduler_options = <<>>
  BY ArgumentFacts
<1>2. options \o <<>> = options
  BY <1>1, OptionalFacts
<1>3. /\ OrElse(options \o kwargs.job_kwargs.scheduler_options, JobqueueOptions)
           = IF options = <<>> THEN <<>> ELSE options[1]
      /\ OrElse(own, JobqueueDirectives) = IF own = <<>> THEN JobqueueDirectives ELSE own[1]
  BY <1>1, <1>2, OrElseFacts DEF JobqueueOptions
<1>4. /\ options # <<>> => DOMAIN options[1] = {"port"}
      /\ own # <<>> => DOMAIN own[1] = {"transfer_input_files"}
  <2>1. /\ options # <<>> => options[1] \in [port : Port]
        /\ own # <<>> => own[1] \in Directives
    BY <1>1, OptionalFacts
  <2>2. \A d \in [port : Port] : DOMAIN d = {"port"}
    OBVIOUS
  <2>3. \A d \in Directives : DOMAIN d = {"transfer_input_files"}
    BY DEF Directives
  <2> QED
    BY <2>1, <2>2, <2>3
<1>5. DOMAIN JobqueueDirectives = {"encrypt_input_files", "transfer_output_files",
        "should_transfer_files", "when_to_transfer_output"}
  BY DEF JobqueueDirectives
<1> HIDE DEF env
<1>6. /\ SchedulerOptions(env, kwargs).port = ListensAt(kwargs)
      /\ SchedulerOptions(env, kwargs).protocol = Protocol(env, kwargs)
  BY <1>3, <1>4 DEF SchedulerOptions, MergeDicts, ListensAt
<1>7. /\ JobExtraDirectives(env, kwargs).DaskSchedulerAddress = ContactAddress(env, kwargs)
      /\ JobExtraDirectives(env, kwargs).transfer_input_files
           = IF own = <<>> THEN InputFiles(env, kwargs) ELSE own[1].transfer_input_files
  BY <1>3, <1>4, <1>5 DEF JobExtraDirectives, MergeDicts
<1> QED
  BY <1>6, <1>7 DEF ModifyJobKwargs, env

\* Who carries the certificates: all that are asked to, if the cluster is secured.
LEMMA CarryFacts ==
    ASSUME NEW u, NEW kwargs \in Asked
    PROVE  LET files == ModifyJobKwargs(Environment(u), kwargs).job_extra_directives
                          .transfer_input_files
           IN  /\ {"ca.pem", "hostcert.pem"} \subseteq files => Carries(kwargs)
               /\ Secured(kwargs) /\ Carries(kwargs)
                    => {"ca.pem", "hostcert.pem"} \subseteq files
<1> DEFINE files == ModifyJobKwargs(Environment(u), kwargs).job_extra_directives
                      .transfer_input_files
           own == kwargs.job_kwargs.job_extra_directives
<1>1. files = IF own = <<>> THEN InputFiles(Environment(u), kwargs)
              ELSE own[1].transfer_input_files
  BY ConfigFacts
<1>2. own = <<>> \/ (own # <<>> /\ DOMAIN own = {1})
  BY ArgumentFacts, OptionalFacts
<1>3. own = <<>> => DOMAIN own = {}
  OBVIOUS
<1> HIDE DEF files
<1>4. {"ca.pem", "hostcert.pem"} \subseteq files => Carries(kwargs)
  BY <1>1, <1>2, <1>3 DEF Carries
<1>5. Secured(kwargs) /\ Carries(kwargs) => {"ca.pem", "hostcert.pem"} \subseteq files
  BY <1>1, <1>2, SecuredFacts DEF Carries
<1> QED
  BY <1>4, <1>5 DEF files

\* A worker and a scheduler with the certificates of one spawn trust each other.
LEMMA OwnIsTrusted == \A n \in 1..MaxSpawns : <<n, n>> \in Trusted
<1> TAKE n \in 1..MaxSpawns
<1>1. /\ GenerateX509(n).ca.ca /\ GenerateX509(n).ca.public = <<n, "ca">>
      /\ GenerateX509(n).host.cert.signer = <<n, "ca">>
      /\ GenerateX509(n).host.cert.issuer = GenerateX509(n).ca.subject
      /\ GenerateX509(n).host.cert.usage = {"client", "server"}
      /\ GenerateX509(n).host.key = GenerateX509(n).host.cert.public
  BY DEF GenerateX509, GenerateCa, GenerateServerCert
<1>2. Handshake(GenerateX509(n), GenerateX509(n))
  BY <1>1 DEF Handshake, Verifies
<1> QED
  BY <1>2 DEF Trusted

-----------------------------------------------------------------------------
(* Where a suited cluster's workers go *)

\* A running server has its route, unless another name is cut to the same; an open
\* cluster is configured for its server, and has the certificates that it was built
\* with; a job of an open cluster was told its address; a suited job has its session's
\* certificates, and one that has them was to carry them.
RoutedInv ==
    \A u \in Users :
      Up(u) => \/ \E r \in routes : r.name = name[u].service /\ r.host = Host(u)
               \/ \E v \in Users : CutAlike(u, v)
ConfiguredInv ==
    \A u \in Users :
      cluster[u] # NoCluster =>
        /\ cluster[u].config = ModifyJobKwargs(Environment(u), cluster[u].kwargs)
        /\ cluster[u].certs = IF FacilitySecurity(Environment(u), cluster[u].kwargs)
                              THEN session[u].nr ELSE 0
AddressedTo(job, c) ==
    /\ job.kwargs = c.kwargs /\ job.session = c.session
    /\ job.address = c.config.job_extra_directives.DaskSchedulerAddress
AddressedInv ==
    \A j \in DOMAIN jobs : \A u \in Users :
      cluster[u].nr = jobs[j].nr => AddressedTo(jobs[j], cluster[u])
SpooledInv ==
    \A j \in DOMAIN jobs :
      /\ Suited(jobs[j].kwargs) => jobs[j].certs = jobs[j].session
      /\ jobs[j].certs # 0 => Carries(jobs[j].kwargs)

WayInv ==
    RoutedInv /\ ConfiguredInv /\ AddressedInv /\ SpooledInv /\ ServedOnlyIfSuited

\* At the start there is nothing to come to and nobody to come.
LEMMA InitWay == Init => WayInv
BY DEF Init, WayInv, RoutedInv, ConfiguredInv, AddressedInv, SpooledInv,
       ServedOnlyIfSuited, Up, NoSession

\* No worker is in an unsuited cluster of its own when none has come and no cluster has
\* taken the number of another.
LEMMA ServedKept ==
    ASSUME ServedOnlyIfSuited, addressing' = addressing,
           \A j \in DOMAIN jobs' :
             jobs'[j].state = "joined" =>
               /\ j \in DOMAIN jobs /\ jobs[j].state = "joined"
               /\ jobs'[j].nr = jobs[j].nr /\ jobs'[j].kwargs = jobs[j].kwargs,
           \A j \in DOMAIN jobs, u \in Users :
             cluster'[u].nr = jobs[j].nr => cluster[u].nr = jobs[j].nr
    PROVE  ServedOnlyIfSuited'
<1> SUFFICES ASSUME NEW j \in DOMAIN jobs', NEW u \in Users,
                    jobs'[j].state = "joined", cluster'[u].nr = jobs'[j].nr
             PROVE  Suited(jobs[j].kwargs)'
  BY DEF ServedOnlyIfSuited
<1>1. Suited(jobs[j].kwargs)
  BY DEF ServedOnlyIfSuited
<1>2. jobs'[j].kwargs = jobs[j].kwargs
  OBVIOUS
<1> QED
  BY <1>1, <1>2 DEF Suited, ReachedAt

\* What a step keeps of it that leaves the clusters and the jobs alone.
LEMMA WayKept ==
    ASSUME ConfiguredInv, AddressedInv, SpooledInv, ServedOnlyIfSuited,
           UNCHANGED <<name, addressing, cluster, jobs>>,
           \A u \in Users : cluster[u] # NoCluster => session'[u] = session[u]
    PROVE  ConfiguredInv' /\ AddressedInv' /\ SpooledInv' /\ ServedOnlyIfSuited'
<1>1. \A u \in Users : cluster[u] # NoCluster => Environment(u)' = Environment(u)
  BY DEF Environment, Host
<1>2. ConfiguredInv'
  BY <1>1 DEF ConfiguredInv
<1>3. AddressedInv'
  BY DEF AddressedInv
<1>4. SpooledInv'
  BY DEF SpooledInv, Suited, ReachedAt
<1>5. ServedOnlyIfSuited'
  BY ServedKept
<1> QED
  BY <1>2, <1>3, <1>4, <1>5

\* A user's service has a name of its own, unless another name is cut to the same.
LEMMA ServiceFacts ==
    ASSUME name \in {NamesOf(n) : n \in Namings}, NEW u \in Users, NEW v \in Users,
           u # v, name[u].service = name[v].service
    PROVE  CutAlike(u, v)
<1>1. PICK n \in Namings : name = NamesOf(n)
  OBVIOUS
<1>2. \A w \in Users :
        /\ name[w].service = DaskName(n[w])
        /\ name[w].host = EscapeUsername(n[w])
  BY <1>1 DEF NamesOf, SchedHostname
<1>3. \A w \in Users :
        name[w].service = SubSeq(name[w].host, 1, Min({Len(name[w].host), Limit}))
  BY <1>2 DEF DaskName
<1> QED
  BY <1>3 DEF CutAlike

\* The new route takes away only those of names that are cut to the same.
LEMMA SpawnWay ==
    ASSUME IInv, WayInv, NEW u \in Users, Spawn(u) PROVE WayInv'
<1>1. PICK ip \in Ips : session' = [session EXCEPT ![u] = [nr |-> spawns + 1, ip |-> ip]]
  BY DEF Spawn
<1> DEFINE r == [name |-> name[u].service, host |-> Host(u)]
<1>2. /\ ~Up(u) /\ UNCHANGED <<name, addressing, built, cluster, jobs, sidecar>>
      /\ routes' = {q \in routes : q.name # name[u].service} \cup {r}
  BY DEF Spawn
<1>3. \A v \in Users \ {u} : session'[v] = session[v]
  BY <1>1 DEF IInv, ShapeInv
<1>4. RoutedInv'
  <2> SUFFICES ASSUME NEW v \in Users, Up(v)', \A w \in Users : ~CutAlike(v, w)
               PROVE  \E q \in routes' : q.name = name[v].service /\ q.host = Host(v)
    BY <1>2 DEF RoutedInv, Host, CutAlike
  <2>1. CASE v = u
    <3>1. r \in routes' /\ r.name = name[v].service /\ r.host = Host(v)
      BY <1>2, <2>1
    <3> QED
      BY <3>1
  <2>2. CASE v # u
    <3>1. PICK q \in routes : q.name = name[v].service /\ q.host = Host(v)
      BY <1>3, <2>2 DEF WayInv, RoutedInv, Up
    <3>2. q.name # name[u].service
      BY <2>2, <3>1, ServiceFacts DEF IInv, ShapeInv
    <3> QED
      BY <1>2, <3>1, <3>2
  <2> QED
    BY <2>1, <2>2
<1>5. \A v \in Users : cluster[v] # NoCluster => session'[v] = session[v]
  BY <1>2, <1>3 DEF IInv, ClustersInv, ClusterOf
<1> QED
  BY <1>2, <1>4, <1>5, WayKept DEF WayInv

\* With the server goes its route, and those of names that are cut to the same.
LEMMA StopWay ==
    ASSUME IInv, WayInv, NEW u \in Users, Stop(u) PROVE WayInv'
<1>1. /\ session' = [session EXCEPT ![u] = NoSession]
      /\ cluster' = [cluster EXCEPT ![u] = NoCluster]
      /\ routes' = {q \in routes : q.name # name[u].service}
      /\ UNCHANGED <<name, addressing, spawns, secrets, built, jobs>>
  BY DEF Stop
<1>2. /\ session'[u] = NoSession /\ cluster'[u] = NoCluster /\ NoCluster.nr = 0
      /\ ~Up(u)'
      /\ \A v \in Users \ {u} : session'[v] = session[v] /\ cluster'[v] = cluster[v]
  BY <1>1 DEF IInv, ShapeInv, Up, NoSession, NoCluster
<1>3. RoutedInv'
  <2> SUFFICES ASSUME NEW v \in Users, v # u, Up(v), \A w \in Users : ~CutAlike(v, w)
               PROVE  \E q \in routes' : q.name = name[v].service /\ q.host = Host(v)
    BY <1>1, <1>2 DEF RoutedInv, Host, Up, CutAlike
  <2>1. PICK q \in routes : q.name = name[v].service /\ q.host = Host(v)
    BY DEF WayInv, RoutedInv
  <2>2. q.name # name[u].service
    BY <2>1, ServiceFacts DEF IInv, ShapeInv
  <2> QED
    BY <1>1, <2>1, <2>2
<1>4. ConfiguredInv'
  <2>1. \A v \in Users \ {u} : Environment(v)' = Environment(v)
    BY <1>1, <1>2 DEF Environment, Host
  <2> QED
    BY <1>2, <2>1 DEF WayInv, ConfiguredInv
<1>5. \A j \in DOMAIN jobs : jobs[j].nr # 0
  BY DEF IInv, JobsInv, JobOK, ShapeInv
<1>6. AddressedInv'
  BY <1>1, <1>2, <1>5 DEF WayInv, AddressedInv
<1>7. SpooledInv'
  BY <1>1 DEF WayInv, SpooledInv, Suited, ReachedAt
<1>8. ServedOnlyIfSuited'
  BY <1>1, <1>2, <1>5, ServedKept DEF WayInv
<1> QED
  BY <1>3, <1>4, <1>6, <1>7, <1>8 DEF WayInv

\* A new cluster is configured for its server, and has no job yet.
LEMMA BuildWay ==
    ASSUME IInv, WayInv, NEW u \in Users, NEW kwargs \in Asked, Build(u, kwargs)
    PROVE  WayInv'
<1> DEFINE new == [nr |-> built + 1, session |-> session[u].nr, kwargs |-> kwargs,
                   config |-> ModifyJobKwargs(Environment(u), kwargs),
                   certs |-> IF FacilitySecurity(Environment(u), kwargs)
                             THEN secrets[SecretName(u)] ELSE 0]
<1>1. /\ cluster' = [cluster EXCEPT ![u] = new]
      /\ UNCHANGED <<name, addressing, spawns, secrets, routes, session, jobs, sidecar>>
  BY DEF Build
<1>2. /\ new.nr = built + 1 /\ new.kwargs = kwargs
      /\ new.config = ModifyJobKwargs(Environment(u), kwargs)
      /\ new.certs = IF FacilitySecurity(Environment(u), kwargs)
                     THEN session[u].nr ELSE 0
  BY DEF Build, IInv, SessionsInv
<1> HIDE DEF new
<1>3. cluster'[u] = new /\ \A v \in Users \ {u} : cluster'[v] = cluster[v]
  BY <1>1 DEF IInv, ShapeInv
<1>4. RoutedInv'
  BY <1>1 DEF WayInv, RoutedInv, Up, Host, CutAlike
<1>5. ConfiguredInv'
  <2>1. \A v \in Users : Environment(v)' = Environment(v)
    BY <1>1 DEF Environment, Host
  <2> QED
    BY <1>1, <1>2, <1>3, <2>1 DEF WayInv, ConfiguredInv
<1>6. \A j \in DOMAIN jobs : jobs[j].nr # new.nr
  BY <1>2 DEF IInv, JobsInv, JobOK, ShapeInv
<1>7. AddressedInv'
  BY <1>1, <1>3, <1>6 DEF WayInv, AddressedInv
<1>8. SpooledInv'
  BY <1>1 DEF WayInv, SpooledInv, Suited, ReachedAt
<1>9. ServedOnlyIfSuited'
  BY <1>1, <1>3, <1>6, ServedKept DEF WayInv
<1> QED
  BY <1>4, <1>5, <1>7, <1>8, <1>9 DEF WayInv

\* A job takes along its cluster's address and arguments and, if the cluster is suited,
\* the certificates.
LEMMA SubmitWay ==
    ASSUME IInv, WayInv, NEW u \in Users, Submit(u) PROVE WayInv'
<1>1. /\ cluster[u] # NoCluster
      /\ UNCHANGED <<name, addressing, spawns, secrets, routes, session, built, cluster,
                     sidecar>>
  BY DEF Submit
<1> DEFINE directives == cluster[u].config.job_extra_directives
           certs == IF {"ca.pem", "hostcert.pem"} \subseteq directives.transfer_input_files
                    THEN secrets[SecretName(u)] ELSE 0
           job == [nr |-> cluster[u].nr, session |-> cluster[u].session,
                   kwargs |-> cluster[u].kwargs,
                   address |-> directives.DaskSchedulerAddress,
                   certs |-> certs, state |-> "queued", at |-> 0]
<1>2. jobs' = Append(jobs, job)
  BY DEF Submit
<1>3. /\ job.nr = cluster[u].nr /\ job.kwargs = cluster[u].kwargs
      /\ job.session = cluster[u].session /\ job.certs = certs /\ job.state = "queued"
      /\ AddressedTo(job, cluster[u])
  BY DEF AddressedTo
<1>4. ClusterOf(u)
  BY <1>1 DEF IInv, ClustersInv
<1>5. /\ Suited(cluster[u].kwargs) => certs = cluster[u].session
      /\ certs # 0 => Carries(cluster[u].kwargs)
  <2>1. /\ cluster[u].config = ModifyJobKwargs(Environment(u), cluster[u].kwargs)
        /\ cluster[u].kwargs \in Asked
        /\ secrets[SecretName(u)] = cluster[u].session
    BY <1>1, <1>4 DEF WayInv, ConfiguredInv, ClusterOf, IInv, SessionsInv
  <2>2. /\ Suited(cluster[u].kwargs) =>
             {"ca.pem", "hostcert.pem"} \subseteq directives.transfer_input_files
        /\ {"ca.pem", "hostcert.pem"} \subseteq directives.transfer_input_files
             => Carries(cluster[u].kwargs)
    BY <2>1, CarryFacts DEF Suited
  <2> QED
    BY <2>1, <2>2
<1> HIDE DEF certs, directives, job
<1>6. /\ DOMAIN jobs' = 1..(Len(jobs) + 1) /\ DOMAIN jobs = 1..Len(jobs)
      /\ Len(jobs) \in Nat
      /\ \A i \in DOMAIN jobs : jobs'[i] = jobs[i]
      /\ jobs'[Len(jobs) + 1] = job
  BY <1>2, AppendFacts DEF IInv, JobsInv
<1>7. \A i \in DOMAIN jobs' : i \in DOMAIN jobs \/ i = Len(jobs) + 1
  BY <1>6
<1>8. AddressedInv'
  <2>1. \A v \in Users : cluster[v].nr = job.nr => v = u
    BY <1>3, <1>4 DEF IInv, ClustersInv, ClusterOf
  <2>2. ASSUME NEW i \in DOMAIN jobs', NEW v \in Users, cluster[v].nr = jobs'[i].nr
        PROVE  AddressedTo(jobs'[i], cluster[v])
    BY <1>3, <1>6, <1>7, <2>1, <2>2 DEF WayInv, AddressedInv
  <2> QED
    BY <1>1, <2>2 DEF AddressedInv
<1>9. SpooledInv'
  <2>1. ASSUME NEW i \in DOMAIN jobs'
        PROVE  /\ Suited(jobs'[i].kwargs) => jobs'[i].certs = jobs'[i].session
               /\ jobs'[i].certs # 0 => Carries(jobs'[i].kwargs)
    BY <1>3, <1>5, <1>6, <1>7 DEF WayInv, SpooledInv
  <2> QED
    BY <1>1, <2>1 DEF SpooledInv, Suited, ReachedAt
<1>10. RoutedInv' /\ ConfiguredInv'
  <2>1. \A v \in Users : Environment(v)' = Environment(v)
    BY <1>1 DEF Environment, Host
  <2> QED
    BY <1>1, <2>1 DEF WayInv, RoutedInv, ConfiguredInv, Up, Host, CutAlike
<1>11. ServedOnlyIfSuited'
  BY <1>1, <1>3, <1>6, <1>7, ServedKept DEF WayInv
<1> QED
  BY <1>8, <1>9, <1>10, <1>11 DEF WayInv

\* What was said of the jobs still holds of the same jobs in other states, also when a
\* cluster is no longer open.
LEMMA SameJobs ==
    ASSUME IInv, WayInv, UNCHANGED <<name, addressing, routes, session>>,
           DOMAIN jobs' = DOMAIN jobs, DOMAIN cluster' = Users,
           \A i \in DOMAIN jobs :
             /\ jobs'[i].nr = jobs[i].nr /\ jobs'[i].session = jobs[i].session
             /\ jobs'[i].kwargs = jobs[i].kwargs /\ jobs'[i].address = jobs[i].address
             /\ jobs'[i].certs = jobs[i].certs,
           \A u \in Users : cluster'[u] \in {cluster[u], NoCluster}
    PROVE  RoutedInv' /\ ConfiguredInv' /\ AddressedInv' /\ SpooledInv'
<1>1. RoutedInv'
  BY DEF WayInv, RoutedInv, Up, Host, CutAlike
<1>2. ConfiguredInv'
  <2>1. \A v \in Users : Environment(v)' = Environment(v)
    BY DEF Environment, Host
  <2> QED
    BY <2>1 DEF WayInv, ConfiguredInv
<1>3. AddressedInv'
  <2>1. \A i \in DOMAIN jobs : jobs[i].nr # NoCluster.nr
    BY DEF IInv, JobsInv, JobOK, ShapeInv, NoCluster
  <2> QED
    BY <2>1 DEF WayInv, AddressedInv, AddressedTo
<1>4. SpooledInv'
  BY DEF WayInv, SpooledInv, Suited, ReachedAt
<1> QED
  BY <1>1, <1>2, <1>3, <1>4

\* Closing a cluster takes it away and ends its jobs.
LEMMA CloseWay == ASSUME IInv, WayInv, NEW u \in Users, Close(u) PROVE WayInv'
<1>1. /\ cluster' = [cluster EXCEPT ![u] = NoCluster]
      /\ UNCHANGED <<name, addressing, routes, session>>
      /\ jobs' = [j \in DOMAIN jobs |->
                    IF jobs[j].nr = cluster[u].nr
                    THEN [jobs[j] EXCEPT !.state = "gone", !.at = 0] ELSE jobs[j]]
  BY DEF Close
<1>2. \A i \in DOMAIN jobs :
        /\ jobs'[i].nr = jobs[i].nr /\ jobs'[i].session = jobs[i].session
        /\ jobs'[i].kwargs = jobs[i].kwargs /\ jobs'[i].address = jobs[i].address
        /\ jobs'[i].certs = jobs[i].certs
        /\ jobs'[i].state \in {jobs[i].state, "gone"} /\ jobs[i].nr # 0
  <2> TAKE i \in DOMAIN jobs
  <2>1. DOMAIN jobs[i] = JobFields /\ jobs[i].nr # 0
    BY DEF IInv, ShapeInv, JobsInv, JobOK
  <2>2. jobs'[i] \in {jobs[i], [jobs[i] EXCEPT !.state = "gone", !.at = 0]}
    BY <1>1
  <2> QED
    BY <2>1, <2>2 DEF JobFields
<1>3. /\ DOMAIN jobs' = DOMAIN jobs /\ DOMAIN cluster' = Users
      /\ \A v \in Users : cluster'[v] \in {cluster[v], NoCluster}
  BY <1>1 DEF IInv, ShapeInv
<1>4. ServedOnlyIfSuited'
  BY <1>1, <1>2, <1>3, ServedKept DEF WayInv, NoCluster
<1> QED
  BY <1>1, <1>2, <1>3, <1>4, SameJobs DEF WayInv

\* A kernel that dies takes its cluster with it and leaves the jobs.
LEMMA KernelDiesWay == ASSUME IInv, WayInv, NEW u \in Users, KernelDies(u) PROVE WayInv'
<1>1. /\ cluster' = [cluster EXCEPT ![u] = NoCluster]
      /\ UNCHANGED <<name, addressing, routes, session, jobs>>
  BY DEF KernelDies
<1>2. /\ DOMAIN cluster' = Users
      /\ \A v \in Users : cluster'[v] \in {cluster[v], NoCluster}
      /\ \A i \in DOMAIN jobs : jobs[i].nr # 0
  BY <1>1 DEF IInv, ShapeInv, JobsInv, JobOK
<1>3. ServedOnlyIfSuited'
  BY <1>1, <1>2, ServedKept DEF WayInv, NoCluster
<1> QED
  BY <1>1, <1>2, <1>3, SameJobs DEF WayInv

\* Where a cluster's workers come to: to its address, if its route is there.
LEMMA Led ==
    ASSUME IInv, NEW u \in Users, Up(u), NEW kwargs \in Asked, NEW port
    PROVE  Leads(ContactAddress(Environment(u), kwargs), u, port)
             <=> /\ port \in ReachedAt(kwargs)
                 /\ addressing = "HOST_IP" => Routed(u)
<1> DEFINE address == ContactAddress(Environment(u), kwargs)
<1>1. address.host = IF addressing = "POD_IP" THEN <<"ip", session[u].ip>> ELSE Host(u)
  BY ExternalIpCases DEF ContactAddress
<1>2. address.port = kwargs.scheduler_port
  BY DEF ContactAddress
<1>3. <<"ip", session[u].ip>> # Host(u)
  BY DEF Host
<1>4. addressing \in {"POD_IP", "HOST_IP"}
  BY DEF IInv, ShapeInv
<1> HIDE DEF address
<1>5. CASE addressing = "POD_IP"
  <2>1. ReachedAt(kwargs) = {kwargs.scheduler_port}
    BY <1>5 DEF ReachedAt
  <2>2. address.host = <<"ip", session[u].ip>> /\ address.host # Host(u)
    BY <1>1, <1>3, <1>5
  <2>3. Leads(address, u, port) <=> port = address.port
    BY <2>2 DEF Leads
  <2> QED
    BY <1>2, <1>5, <2>1, <2>3 DEF address
<1>6. CASE addressing = "HOST_IP"
  <2>1. ReachedAt(kwargs)
          = IF kwargs.scheduler_port \in Entrypoints THEN {RoutePort} ELSE {}
    BY <1>6 DEF ReachedAt
  <2>2. address.host = Host(u) /\ address.host # <<"ip", session[u].ip>>
    BY <1>1, <1>3, <1>6
  <2>3. Leads(address, u, port)
          <=> address.port \in Entrypoints /\ port = RoutePort /\ Routed(u)
    BY <2>2 DEF Leads, Routed
  <2> QED
    BY <1>2, <1>6, <2>1, <2>3 DEF address
<1> QED
  BY <1>4, <1>5, <1>6 DEF address

\* A worker that joins while its own cluster is open joins that one, and it has come to
\* where the arguments say, over TLS and with the certificates of the facility.
LEMMA JoinedSuited ==
    ASSUME IInv, WayInv, NEW j \in DOMAIN jobs, Join(j),
           NEW u \in Users, cluster[u].nr = jobs[j].nr
    PROVE  Suited(jobs[j].kwargs)
<1>1. PICK v \in Answering(jobs[j].address, jobs[j].certs) :
        Move(j, "joined", cluster[v].session)
  BY DEF Join
<1>2. /\ v \in Users /\ cluster[v] # NoCluster
      /\ Leads(jobs[j].address, v, cluster[v].config.scheduler_options.port)
      /\ cluster[v].config.scheduler_options.protocol = "tls"
      /\ jobs[j].certs = cluster[v].certs /\ jobs[j].certs \in 1..MaxSpawns
  BY <1>1, TrustedIsOwn DEF Answering
<1>3. JobOK(jobs[j]) /\ ClusterOf(v) /\ jobs[j].nr # 0
  BY <1>2 DEF IInv, ShapeInv, ClustersInv, JobsInv, JobOK
<1>4. cluster[u] # NoCluster /\ ClusterOf(u) /\ AddressedTo(jobs[j], cluster[u])
  BY <1>3 DEF IInv, ClustersInv, NoCluster, WayInv, AddressedInv
<1>5. jobs[j].session = session[u].nr /\ cluster[v].certs = session[v].nr
  BY <1>2, <1>3, <1>4, BoundsAssumption DEF ClusterOf, AddressedTo
<1>6. u = v
  <2>1. jobs[j].certs = jobs[j].session
    BY <1>2, <1>3, BoundsAssumption DEF JobOK
  <2> QED
    BY <1>2, <1>3, <1>4, <1>5, <2>1 DEF IInv, SessionsInv, ClusterOf
<1> DEFINE kwargs == jobs[j].kwargs
           env == Environment(u)
           config == ModifyJobKwargs(env, kwargs)
<1>7. /\ kwargs \in Asked /\ kwargs = cluster[u].kwargs /\ cluster[u].config = config
      /\ jobs[j].address = config.job_extra_directives.DaskSchedulerAddress
      /\ cluster[u].certs # 0 => FacilitySecurity(env, kwargs)
  BY <1>3, <1>4 DEF JobOK, AddressedTo, WayInv, ConfiguredInv
<1>8. /\ config.scheduler_options.port = ListensAt(kwargs)
      /\ config.scheduler_options.protocol = Protocol(env, kwargs)
      /\ jobs[j].address = ContactAddress(env, kwargs)
  BY <1>7, ConfigFacts
<1> HIDE DEF config, kwargs
<1>9. Secured(kwargs)
  <2>1. UsesTls(env, kwargs)
    BY <1>2, <1>6, <1>7, <1>8 DEF Protocol
  <2>2. FacilitySecurity(env, kwargs)
    BY <1>2, <1>6, <1>7, BoundsAssumption
  <2> QED
    BY <1>7, <2>1, <2>2, SecuredFacts
<1>10. Carries(kwargs)
  BY <1>2, BoundsAssumption DEF WayInv, SpooledInv, kwargs
<1>11. ListensAt(kwargs) \in ReachedAt(kwargs)
  BY <1>2, <1>4, <1>6, <1>7, <1>8, Led DEF ClusterOf
<1> QED
  BY <1>9, <1>10, <1>11 DEF Suited, kwargs

\* A worker's own steps move its job on, and nothing else.
LEMMA WorkWay == ASSUME IInv, WayInv, NEW j \in DOMAIN jobs, Work(j) PROVE WayInv'
<1>1. PICK state, at : /\ Move(j, state, at) /\ UNCHANGED Rest
                       /\ state = "joined" => Join(j)
  BY DEF Work, Begin, Join, GiveUp, Leave
<1>2. /\ DOMAIN jobs' = DOMAIN jobs
      /\ UNCHANGED <<name, addressing, routes, session, cluster>>
      /\ \A i \in DOMAIN jobs \ {j} : jobs'[i] = jobs[i]
      /\ jobs'[j] = [jobs[j] EXCEPT !.state = state, !.at = at]
  BY <1>1 DEF Move, Rest
<1>3. \A i \in DOMAIN jobs :
        /\ jobs'[i].nr = jobs[i].nr /\ jobs'[i].session = jobs[i].session
        /\ jobs'[i].kwargs = jobs[i].kwargs /\ jobs'[i].address = jobs[i].address
        /\ jobs'[i].certs = jobs[i].certs
  BY <1>2 DEF IInv, JobsInv, JobOK, JobFields
<1>4. jobs'[j].state = state
  BY <1>2 DEF IInv, JobsInv, JobOK, JobFields
<1>5. ServedOnlyIfSuited'
  <2> SUFFICES ASSUME NEW i \in DOMAIN jobs', NEW u \in Users,
                      jobs'[i].state = "joined", cluster'[u].nr = jobs'[i].nr
               PROVE  Suited(jobs[i].kwargs)'
    BY DEF ServedOnlyIfSuited
  <2>1. Suited(jobs[i].kwargs)
    <3>1. CASE i = j
      BY <1>1, <1>2, <1>3, <1>4, <3>1, JoinedSuited
    <3>2. CASE i # j
      BY <1>2, <3>2 DEF WayInv, ServedOnlyIfSuited
    <3> QED
      BY <3>1, <3>2
  <2> QED
    BY <1>2, <1>3, <2>1 DEF Suited, ReachedAt
<1> QED
  BY <1>2, <1>3, <1>5, SameJobs DEF IInv, ShapeInv, WayInv

\* Every step leaves the ways as they have to be.
LEMMA NextWay == IInv /\ WayInv /\ [Next]_vars => WayInv'
<1> SUFFICES ASSUME IInv, WayInv, [Next]_vars PROVE WayInv'
  OBVIOUS
<1>1. ASSUME NEW u \in Users,
             Spawn(u) \/ Stop(u) \/ Submit(u) \/ Close(u) \/ KernelDies(u)
      PROVE  WayInv'
  BY <1>1, SpawnWay, StopWay, SubmitWay, CloseWay, KernelDiesWay
<1>2. ASSUME NEW u \in Users, NEW kwargs \in Asked, Build(u, kwargs) PROVE WayInv'
  BY <1>2, BuildWay
<1>3. ASSUME NEW j \in DOMAIN jobs, Work(j) PROVE WayInv'
  BY <1>3, WorkWay
<1>4. CASE UNCHANGED <<name, addressing, routes, session, cluster, jobs>>
  <2>1. ServedOnlyIfSuited'
    BY <1>4, ServedKept DEF WayInv
  <2> QED
    BY <1>4, <2>1, SameJobs DEF IInv, ShapeInv, WayInv
<1>5. ASSUME NEW u \in Users, JoinSidecar(u)
      PROVE  UNCHANGED <<name, addressing, routes, session, cluster, jobs>>
  BY <1>5 DEF JoinSidecar
<1>6. UNCHANGED vars => UNCHANGED <<name, addressing, routes, session, cluster, jobs>>
  BY DEF vars
<1> QED
  BY <1>1, <1>2, <1>3, <1>4, <1>5, <1>6 DEF Next

\* An open cluster answers the workers of its suited jobs, unless they come by a route
\* that another user has taken.
LEMMA SuitedAnswered ==
    ASSUME IInv, WayInv, NEW j \in DOMAIN jobs, Suited(jobs[j].kwargs),
           NEW u \in Users, cluster[u].nr = jobs[j].nr,
           ~(addressing = "HOST_IP" /\ CutOff(u))
    PROVE  u \in Answering(jobs[j].address, jobs[j].certs)
<1>1. JobOK(jobs[j]) /\ jobs[j].nr # 0
  BY DEF IInv, JobsInv, JobOK, ShapeInv
<1>2. cluster[u] # NoCluster /\ ClusterOf(u)
  BY <1>1 DEF IInv, ClustersInv, NoCluster
<1> DEFINE kwargs == jobs[j].kwargs
           env == Environment(u)
           config == ModifyJobKwargs(env, kwargs)
<1>3. /\ cluster[u].config = config /\ cluster[u].session = jobs[j].session
      /\ kwargs = cluster[u].kwargs /\ kwargs \in Asked
      /\ jobs[j].address = config.job_extra_directives.DaskSchedulerAddress
      /\ FacilitySecurity(env, kwargs) => cluster[u].certs = session[u].nr
  BY <1>1, <1>2 DEF WayInv, ConfiguredInv, AddressedInv, AddressedTo, JobOK
<1>4. UsesTls(env, kwargs) /\ FacilitySecurity(env, kwargs)
  BY <1>3, SecuredFacts DEF Suited
<1>5. /\ config.scheduler_options.port = ListensAt(kwargs)
      /\ config.scheduler_options.protocol = "tls"
      /\ jobs[j].address = ContactAddress(env, kwargs)
  BY <1>3, <1>4, ConfigFacts DEF Protocol
<1> HIDE DEF config
<1>6. addressing = "HOST_IP" => Routed(u)
  BY <1>2 DEF CutOff, WayInv, RoutedInv, ClusterOf, Routed
<1>7. Leads(jobs[j].address, u, cluster[u].config.scheduler_options.port)
  BY <1>2, <1>3, <1>5, <1>6, Led DEF ClusterOf, Suited
<1>8. <<jobs[j].certs, cluster[u].certs>> \in Trusted
  <2>1. jobs[j].certs = session[u].nr /\ cluster[u].certs = session[u].nr
    BY <1>2, <1>3, <1>4 DEF WayInv, SpooledInv, ClusterOf
  <2>2. session[u].nr \in 1..MaxSpawns
    BY <1>2, BoundsAssumption DEF ClusterOf, IInv, SessionsInv, ShapeInv, Up
  <2> QED
    BY <2>1, <2>2, OwnIsTrusted
<1> QED
  BY <1>2, <1>3, <1>5, <1>7, <1>8 DEF Answering

\* A suited job ends without having been joined only in Close, which takes its cluster,
\* or when nobody answers.
LEMMA TurnedAwayStep ==
    ASSUME IInv, WayInv, [Next]_vars, NEW j \in DOMAIN jobs,
           jobs[j].state \in {"queued", "contacting"}, jobs'[j].state = "gone",
           Suited(jobs[j].kwargs), NEW u \in Users, cluster'[u].nr = jobs[j].nr
    PROVE  addressing = "HOST_IP" /\ CutOff(u)
<1>1. JobOK(jobs[j]) /\ jobs[j].nr # 0
  BY DEF IInv, JobsInv, JobOK, ShapeInv
<1>2. jobs[j].certs # 0
  BY <1>1 DEF WayInv, SpooledInv, JobOK, IInv, ShapeInv
<1>3. jobs' # jobs
  BY <1>1 DEF JobOK
<1>4. CASE \E v \in Users : Close(v)
  <2>1. PICK v \in Users : Close(v)
    BY <1>4
  <2>2. /\ cluster' = [cluster EXCEPT ![v] = NoCluster]
        /\ jobs' = [i \in DOMAIN jobs |->
                      IF jobs[i].nr = cluster[v].nr
                      THEN [jobs[i] EXCEPT !.state = "gone", !.at = 0] ELSE jobs[i]]
    BY <2>1 DEF Close
  <2>3. jobs[j].nr = cluster[v].nr
    BY <2>2
  <2>4. cluster'[v].nr = 0 /\ \A w \in Users \ {v} : cluster'[w] = cluster[w]
    BY <2>2 DEF IInv, ShapeInv, NoCluster
  <2> QED
    BY <1>1, <2>3, <2>4 DEF IInv, ClustersInv
<1>5. CASE \E v \in Users : Submit(v)
  <2>1. PICK job : jobs' = Append(jobs, job)
    BY <1>5 DEF Submit
  <2>2. jobs'[j] = jobs[j]
    BY <2>1, AppendFacts DEF IInv, JobsInv
  <2> QED
    BY <2>2
<1>6. CASE \E i \in DOMAIN jobs : Work(i)
  <2>1. PICK i \in DOMAIN jobs : Work(i)
    BY <1>6
  <2>2. PICK state, at : Move(i, state, at) /\ cluster' = cluster
    BY <2>1 DEF Work, Begin, Join, GiveUp, Leave, Rest
  <2>3. i = j
    BY <2>2 DEF Move
  <2>4. ~Begin(j)
    <3>1. jobs'[j].state = "contacting" => jobs'[j].state # "gone"
      OBVIOUS
    <3>2. Begin(j) => jobs'[j].state = "contacting"
      BY <1>1, <1>2 DEF Begin, Move, JobOK, JobFields
    <3> QED
      BY <3>1, <3>2
  <2>5. ~Join(j)
    <3>1. Join(j) => jobs'[j].state = "joined"
      BY <1>1 DEF Join, Move, JobOK, JobFields
    <3> QED
      BY <3>1
  <2>6. ~Leave(j)
    BY DEF Leave
  <2>7. Answering(jobs[j].address, jobs[j].certs) = {}
    BY <2>1, <2>3, <2>4, <2>5, <2>6 DEF Work, GiveUp
  <2> QED
    BY <2>2, <2>7, SuitedAnswered
<1>7. ASSUME jobs' = jobs PROVE FALSE
  BY <1>3, <1>7
<1>8. ASSUME NEW v \in Users, Spawn(v) \/ Stop(v) \/ KernelDies(v) \/ JoinSidecar(v)
      PROVE  jobs' = jobs
  BY <1>8 DEF Spawn, Stop, KernelDies, JoinSidecar
<1>9. ASSUME NEW v \in Users, NEW kwargs \in Asked, Build(v, kwargs) PROVE jobs' = jobs
  BY <1>9 DEF Build
<1>10. UNCHANGED vars => jobs' = jobs
  BY DEF vars
<1> QED
  BY <1>4, <1>5, <1>6, <1>7, <1>8, <1>9, <1>10 DEF Next

\* The invariants of what belongs together and of the ways.
LEMMA OnTheWay == Spec => [](IInv /\ WayInv)
<1>1. IInv /\ WayInv /\ [Next]_vars => (IInv /\ WayInv)'
  BY NextStep, NextWay
<1> QED
  BY InitIInv, InitWay, <1>1, PTL DEF Spec

\* The worker of a suited cluster is turned away only when that cluster is gone, or when
\* another user's name is cut to the same and the route went to that user: for any
\* arguments, the scheduler's port among them, and any names.
THEOREM OnlyTheGoneTurnAway == Spec => TurnedAwayOnlyIfGone
<1>1. IInv /\ WayInv /\ [Next]_vars =>
        [\A j \in DOMAIN jobs :
           /\ jobs[j].state \in {"queued", "contacting"} /\ jobs'[j].state = "gone"
           /\ Suited(jobs[j].kwargs)
           => \A u \in Users :
                cluster'[u].nr = jobs[j].nr => addressing = "HOST_IP" /\ CutOff(u)]_vars
  BY TurnedAwayStep
<1> QED
  BY OnTheWay, <1>1, PTL DEF Spec, TurnedAwayOnlyIfGone

\* An open cluster that a worker of its own has joined was built with arguments that
\* suit: _modify_job_kwargs lets a user's options and directives win over what it has
\* worked out, and a cluster whose arguments do not suit gets no worker, whatever else
\* is at the address.
THEOREM OnlySuitedServed == Spec => []ServedOnlyIfSuited
<1>1. IInv /\ WayInv => ServedOnlyIfSuited
  BY DEF WayInv
<1> QED
  BY OnTheWay, <1>1, PTL
=============================================================================
