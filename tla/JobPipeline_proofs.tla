------------------------- MODULE JobPipeline_proofs -------------------------
(***************************************************************************)
(* Theorems about JobPipeline, for any number of constructor calls, ports  *)
(* and rounds of the worker's wait.                                        *)
(***************************************************************************)
EXTENDS JobPipeline, TLAPS

-----------------------------------------------------------------------------
(* The kernel *)

\* The constructor's last word on encryption, and on the link, is that of the cluster it
\* built.
Agrees(c) == config.encrypt = c.tls /\ config.link = c.nr /\ ~config.unlinked
NewestInv == \A c \in clusters : c.nr <= builds /\ (c.nr = builds => Agrees(c))

KernelInv ==
    /\ layout \in Layouts /\ config \in Config /\ clusters \subseteq Cluster
    /\ builds \in 0..Builds /\ NewestInv

\* What /etc/cmsaf-secrets holds.
LEMMA FacilityFacts ==
    /\ FacilityFiles("empty") = {}
    /\ FacilityFiles("joined") = {"ca.pem", "hostcert.pem"}
    /\ FacilityFiles("split") = {"ca.pem", "hostcert.pem", "hostkey.pem"}
<1>1. FacilityFiles("empty") = {}
  BY DEF FacilityFiles
<1>2. FacilityFiles("joined") = {"ca.pem", "hostcert.pem"}
  BY DEF FacilityFiles
<1>3. FacilityFiles("split") = {"ca.pem", "hostcert.pem", "hostkey.pem"}
  BY DEF FacilityFiles
<1> QED
  BY <1>1, <1>2, <1>3

\* What the constructor makes of its arguments, if it gets to its end.
New(security, tcp, port) ==
    LET tls == ~tcp /\ Secured(security) IN
    [nr |-> builds + 1, port |-> port, tls |-> tls,
     inputs |-> IF tls THEN InputFiles(security) ELSE {}]

\* A call that raises builds nothing; one that does not has agreed with its cluster.
LEMMA BuildFacts ==
  ASSUME config \in Config, builds \in 0..Builds, layout \in Layouts,
         NEW security \in Securities, NEW tcp \in BOOLEAN, NEW check_ports \in BOOLEAN,
         NEW port \in Ports, Build(security, tcp, check_ports, port)
  PROVE  /\ layout' = layout /\ builds' = builds + 1 /\ builds' \in 0..Builds
         /\ config' \in Config
         /\ \/ clusters' = clusters
            \/ /\ clusters' = clusters \cup {New(security, tcp, port)}
               /\ ~CannotLoad(security, tcp)
               /\ config'.encrypt = New(security, tcp, port).tls
               /\ config'.link = builds + 1 /\ ~config'.unlinked
         /\ New(security, tcp, port) \in Cluster
<1> DEFINE tls == ~tcp /\ Secured(security)
           new == New(security, tcp, port)
<1> USE BuildsAssumption
<1>1. layout' = layout /\ builds' = builds + 1 /\ builds' \in 1..Builds
  BY DEF Build
<1>2. tls \in BOOLEAN /\ WillUseTLS(security, tcp) = tls
  BY DEF Secured, WillUseTLS
<1>3. new \in Cluster
  <2>1. (IF tls THEN InputFiles(security) ELSE {}) \subseteq Files
    BY LayoutAssumption, FacilityFacts DEF InputFiles, Files, OwnFiles
  <2> QED
    BY <1>1, <1>2, <2>1 DEF Cluster, New
<1>4. Fixed(tcp) \in Config
  BY DEF Fixed, Config
<1>5. CASE BuildUnloaded(security, tcp)
  BY <1>1, <1>3, <1>4, <1>5 DEF BuildUnloaded
<1>6. CASE BuildUnchecked(security, tcp)
  <2>1. config' \in Config /\ clusters' = clusters
    BY <1>2, <1>4, <1>6 DEF BuildUnchecked, Config
  <2> QED
    BY <1>1, <1>3, <2>1
<1>7. CASE BuildConfigured(security, tcp, port)
  <2>1. config' = [Fixed(tcp) EXCEPT !.encrypt = tls, !.link = builds + 1]
    BY <1>2, <1>7 DEF BuildConfigured
  <2>2. builds + 1 \in 0..Builds
    BY <1>1
  <2> HIDE DEF tls
  <2>3. config' \in Config
    BY <1>2, <1>4, <2>1, <2>2 DEF Config
  <2>4. Fixed(tcp).unlinked = FALSE
    BY DEF Fixed, Config
  <2>5. config'.encrypt = tls /\ config'.link = builds + 1 /\ config'.unlinked = FALSE
    BY <1>4, <2>1, <2>4 DEF Config
  <2>6. ~CannotLoad(security, tcp)
    BY <1>7 DEF BuildConfigured
  <2>7. clusters' = clusters \/ clusters' = clusters \cup {new}
    BY <1>7 DEF BuildConfigured, New
  <2>8. new.tls = tls
    BY DEF New, tls
  <2> QED
    BY <1>1, <1>3, <2>3, <2>5, <2>6, <2>7, <2>8
<1> QED
  BY <1>5, <1>6, <1>7 DEF Build

\* Every step keeps the constructor's configuration that of the newest cluster: a
\* build sets both, and nothing else sets either.
LEMMA KernelStep == KernelInv /\ [Next]_vars => KernelInv'
<1> SUFFICES ASSUME KernelInv, [Next]_vars PROVE KernelInv'
  OBVIOUS
<1> USE BuildsAssumption DEF KernelInv, NewestInv
<1>1. ASSUME NEW security \in Securities, NEW tcp \in BOOLEAN, NEW check_ports \in BOOLEAN,
             NEW port \in Ports, Build(security, tcp, check_ports, port)
      PROVE  KernelInv'
  <2> DEFINE new == New(security, tcp, port)
  <2>1. /\ layout' = layout /\ builds' = builds + 1 /\ builds' \in 0..Builds
        /\ config' \in Config /\ new \in Cluster
        /\ \/ clusters' = clusters
           \/ /\ clusters' = clusters \cup {new}
              /\ config'.encrypt = new.tls /\ config'.link = builds + 1
              /\ ~config'.unlinked
    BY <1>1, BuildFacts
  <2>2. new.nr = builds + 1
    BY DEF New
  <2>3. \A c \in clusters : c.nr <= builds' /\ c.nr # builds'
    BY <2>1 DEF Cluster
  <2> HIDE DEF new
  <2>4. NewestInv'
    BY <2>1, <2>2, <2>3 DEF Agrees
  <2> QED
    BY <2>1, <2>4
<1>2. ASSUME NEW c \in clusters, Close(c) PROVE KernelInv'
  BY <1>2 DEF Close, Agrees
<1>3. CASE UNCHANGED clusterVars
  BY <1>3 DEF clusterVars, Agrees
<1> QED
  BY <1>1, <1>2, <1>3 DEF Next, Kernel, ClusterNext, Run, Submit, vars

\* A kernel starts with no cluster.
LEMMA KernelStart == Init => KernelInv
<1> SUFFICES ASSUME Init PROVE KernelInv
  OBVIOUS
<1>1. config \in Config
  <2>1. config \in [encrypt : {TRUE}, unlinked : BOOLEAN, link : {0}, armed : BOOLEAN]
    BY DEF Init, ClusterInit
  <2>2. 0 \in 0..Builds
    BY BuildsAssumption
  <2> QED
    BY <2>1, <2>2 DEF Config
<1>2. layout \in Layouts /\ clusters = {} /\ builds = 0 /\ builds \in 0..Builds
  BY BuildsAssumption DEF Init, ClusterInit
<1> QED
  BY <1>1, <1>2 DEF KernelInv, NewestInv

\* So the newest cluster's configuration is the constructor's in every state.
LEMMA KernelHolds == Spec => []KernelInv
<1>1. Init => KernelInv
  BY KernelStart
<1> QED
  BY <1>1, KernelStep, PTL DEF Spec

\* The cluster built last can be connected to, and its dashboard is the one the kernel
\* links to, whatever was built, closed or failed to be built before.
THEOREM NewestAlwaysConnects == Spec => []NewestConnects
<1>1. KernelInv => NewestConnects
  BY DEF KernelInv, NewestInv, Agrees, NewestConnects, Refused
<1> QED
  BY <1>1, KernelHolds, PTL

-----------------------------------------------------------------------------
(* The worker *)

\* What is proved of the entrypoint holds of it here: the files that arrive with a job
\* are all that the pipeline adds to its steps.
Entrypoint == INSTANCE WorkerBringup_proofs WITH Modes <- {"worker"}

WorkerInv == Entrypoint!BringupInv

\* The kernel's steps and the arrival of a job keep the entrypoint's invariant, which
\* does not look at the files.
LEMMA OutsideStep ==
  ASSUME WorkerInv, files' \subseteq Worker!CertFiles,
         UNCHANGED <<hostNetwork, mode, env, given, ad, pc, tries, seen, command>>
  PROVE  WorkerInv'
<1> USE DEF WorkerInv, Entrypoint!BringupInv
<1>1. Entrypoint!TypeOK'
  BY DEF Entrypoint!TypeOK, Worker!CertFiles, Entrypoint!CertFiles
<1>2. Entrypoint!SeenInAd'
  BY DEF Entrypoint!SeenInAd
<1>3. Entrypoint!Waited'
  BY DEF Entrypoint!Waited, Entrypoint!HavePorts
<1>4. Entrypoint!Built'
  BY DEF Entrypoint!Built, Entrypoint!Reachable, Entrypoint!HavePorts
<1> QED
  BY <1>1, <1>2, <1>3, <1>4

\* The entrypoint as the pipeline runs it is the one the theorems are about.
LEMMA SameEntrypoint ==
    /\ Worker!Next => Entrypoint!Next
    /\ Entrypoint!TypeOK => Worker!TypeOK
    /\ Worker!Init => Entrypoint!Init
<1> USE DEF Worker!Services, Entrypoint!Services, Worker!job, Entrypoint!job, Worker!vars,
   Entrypoint!vars, Worker!AdPorts, Entrypoint!AdPorts, Worker!NoPort, Entrypoint!NoPort,
   Worker!Required, Entrypoint!Required, Worker!HostFields, Entrypoint!HostFields,
   Worker!JobEnv, Entrypoint!JobEnv, Worker!CertFiles, Entrypoint!CertFiles,
   Worker!Final, Entrypoint!Final, Worker!Lines, Entrypoint!Lines, Worker!NoCommand,
   Entrypoint!NoCommand
<1>1. Worker!Next => Entrypoint!Next
  <2> USE DEF Worker!Goto, Entrypoint!Goto, Worker!HavePorts, Entrypoint!HavePorts,
     Worker!Unset, Entrypoint!Unset
  <2>1. Worker!Start => Entrypoint!Start
    BY DEF Worker!Start, Entrypoint!Start
  <2>2. Worker!ReadDask => Entrypoint!ReadDask
    BY DEF Worker!ReadDask, Entrypoint!ReadDask, Worker!Read, Entrypoint!Read
  <2>3. Worker!ReadNanny => Entrypoint!ReadNanny
    BY DEF Worker!ReadNanny, Entrypoint!ReadNanny, Worker!Read, Entrypoint!Read
  <2>4. Worker!Test => Entrypoint!Test
    BY DEF Worker!Test, Entrypoint!Test, Worker!WaitOver, Entrypoint!WaitOver
  <2>5. Worker!CheckIWD => Entrypoint!CheckIWD
    BY DEF Worker!CheckIWD, Entrypoint!CheckIWD
  <2>6. Worker!Validate => Entrypoint!Validate
    BY DEF Worker!Validate, Entrypoint!Validate, Worker!Missing, Entrypoint!Missing
  <2>7. Worker!BuildDask => Entrypoint!BuildDask
    BY DEF Worker!BuildDask, Entrypoint!BuildDask, Worker!Port, Entrypoint!Port
  <2>8. Worker!BuildNanny => Entrypoint!BuildNanny
    BY DEF Worker!BuildNanny, Entrypoint!BuildNanny, Worker!Port, Entrypoint!Port,
       Worker!Certs, Entrypoint!Certs
  <2>9. Worker!FirstUpdate => Entrypoint!FirstUpdate
    BY DEF Worker!FirstUpdate, Entrypoint!FirstUpdate
  <2>10. \A s : Worker!Forward(s) => Entrypoint!Forward(s)
    BY DEF Worker!Forward, Entrypoint!Forward
  <2>11. Worker!Done => Entrypoint!Done
    BY DEF Worker!Done, Entrypoint!Done
  <2> QED
    BY <2>1, <2>2, <2>3, <2>4, <2>5, <2>6, <2>7, <2>8, <2>9, <2>10, <2>11
    DEF Worker!Next, Entrypoint!Next, Worker!Script, Entrypoint!Script
<1>2. Entrypoint!TypeOK => Worker!TypeOK
  BY DEF Worker!TypeOK, Entrypoint!TypeOK
<1>3. Worker!Init => Entrypoint!Init
  BY DEF Worker!Init, Entrypoint!Init
<1> QED
  BY <1>1, <1>2, <1>3

\* Every step of the kernel, of a submission and of a worker keeps the invariant.
LEMMA WorkerStep == WorkerInv /\ [Next]_vars => WorkerInv'
<1> SUFFICES ASSUME WorkerInv, [Next]_vars PROVE WorkerInv'
  OBVIOUS
<1>1. files \subseteq Worker!CertFiles
  BY DEF WorkerInv, Entrypoint!BringupInv, Entrypoint!TypeOK, Worker!CertFiles,
     Entrypoint!CertFiles
<1>2. CASE Kernel \/ UNCHANGED vars
  BY <1>1, <1>2, OutsideStep DEF Kernel, vars, workerVars
<1>3. ASSUME NEW c \in clusters, Submit(c) PROVE WorkerInv'
  BY <1>3, OutsideStep DEF Submit
<1>4. CASE Run
  BY <1>4, SameEntrypoint, RoundsAssumption, Entrypoint!Step DEF Run, WorkerInv
<1> QED
  BY <1>2, <1>3, <1>4 DEF Next

\* Every variable keeps its type: the clusters, what a job took from one of them, and
\* all that the entrypoint reads and builds.
THEOREM TypeCorrect == Spec => []TypeOK
<1> DEFINE TypeInv == KernelInv /\ WorkerInv /\ job \in Cluster \cup {NoJob}
<1>1. Init => TypeInv
  <2> SUFFICES ASSUME Init PROVE TypeInv
    OBVIOUS
  <2>1. WorkerInv
    BY SameEntrypoint, RoundsAssumption, Entrypoint!InitHolds DEF Init, WorkerInv
  <2> QED
    BY <2>1, KernelStart DEF Init
<1>2. TypeInv /\ [Next]_vars => TypeInv'
  <2> SUFFICES ASSUME TypeInv, [Next]_vars PROVE TypeInv'
    OBVIOUS
  <2>1. KernelInv' /\ WorkerInv'
    BY KernelStep, WorkerStep
  <2>2. job' \in Cluster \cup {NoJob}
    BY DEF Next, Kernel, Run, Submit, vars, KernelInv
  <2> QED
    BY <2>1, <2>2
<1>3. TypeInv => TypeOK
  BY SameEntrypoint, BuildsAssumption
  DEF TypeOK, ClusterTypeOK, KernelInv, WorkerInv, Entrypoint!BringupInv
<1> QED
  BY <1>1, <1>2, <1>3, PTL DEF Spec

\* What AlwaysReachable says of the entrypoint by itself also holds of the workers of
\* this pipeline: they advertise ports they can be reached at.
THEOREM AlwaysReachable == Spec => []Worker!AdvertisesReachable
<1>1. Init => WorkerInv
  BY SameEntrypoint, RoundsAssumption, Entrypoint!InitHolds DEF Init, WorkerInv
<1>2. WorkerInv => Worker!AdvertisesReachable
  BY DEF WorkerInv, Entrypoint!BringupInv, Entrypoint!TypeOK, Entrypoint!Waited,
     Entrypoint!Built, Entrypoint!Reachable, Entrypoint!HavePorts, Entrypoint!Unset,
     Entrypoint!Services, Entrypoint!AdPorts, Worker!AdvertisesReachable, Worker!Services
<1> QED
  BY <1>1, <1>2, WorkerStep, PTL DEF Spec

-----------------------------------------------------------------------------
(* The job *)

\* The two files that the entrypoint looks for.
Joined == {"ca.pem", "hostcert.pem"}

\* A cluster with TLS and the facility's certificates gives its jobs those two files.
ClustersArmed ==
    \A c \in clusters : c.tls /\ FacilityCerts(c) => layout = "joined" /\ c.inputs = Joined

\* They arrive with the job, and nothing replaces them.
JobArmed ==
    /\ job = NoJob => pc = "start"
    /\ job # NoJob /\ job.tls /\ FacilityCerts(job) => layout = "joined" /\ files = Joined

\* The command names the certificates that are there.
CommandArmed ==
    /\ "certs" \in DOMAIN command
    /\ pc = "exec" => command.certs = Worker!Certs

ArmedInv == layout \in Layouts /\ ClustersArmed /\ JobArmed /\ CommandArmed

\* A cluster built at a facility carries the layout its scheduler will use.
LEMMA BuildArmed ==
  ASSUME ArmedInv, KernelInv,
         NEW security \in Securities, NEW tcp \in BOOLEAN, NEW check_ports \in BOOLEAN,
         NEW port \in Ports, Build(security, tcp, check_ports, port)
  PROVE  ClustersArmed'
<1> DEFINE new == New(security, tcp, port)
<1>1. /\ layout' = layout
      /\ \/ clusters' = clusters
         \/ clusters' = clusters \cup {new} /\ ~CannotLoad(security, tcp)
  BY BuildFacts DEF KernelInv
<1>2. /\ new.tls = (~tcp /\ Secured(security))
      /\ new.inputs = (IF new.tls THEN InputFiles(security) ELSE {})
  BY DEF New
<1> HIDE DEF new
<1>3. CASE clusters' = clusters
  BY <1>1, <1>3 DEF ArmedInv, ClustersArmed, FacilityCerts
<1>4. CASE ~CannotLoad(security, tcp) /\ new.tls /\ FacilityCerts(new)
  <2>1. security # "own"
    BY <1>2, <1>4 DEF FacilityCerts, InputFiles, OwnFiles
  <2>2. security \in {"none", "facility"} /\ layout # "empty"
    BY <1>2, <1>4, <2>1, SecurityAssumption DEF Security, Secured, CannotLoad
  <2>3. layout = "joined"
    BY <1>4, <2>2, LayoutAssumption DEF ArmedInv, FacilityCerts
  <2>4. new.inputs = Joined
    BY <1>2, <1>4, <2>1, <2>3, FacilityFacts DEF InputFiles, Joined
  <2> QED
    BY <1>1, <2>3, <2>4 DEF ArmedInv, ClustersArmed, FacilityCerts
<1>5. CASE ~(new.tls /\ FacilityCerts(new))
  BY <1>1, <1>5 DEF ArmedInv, ClustersArmed, FacilityCerts
<1> QED
  BY <1>1, <1>3, <1>4, <1>5

\* ArmedInv is inductive.
LEMMA ArmedStep ==
  ASSUME ArmedInv, KernelInv, [Next]_vars PROVE ArmedInv'
<1> USE DEF ArmedInv, FacilityCerts, workerVars
<1>1. ASSUME NEW security \in Securities, NEW tcp \in BOOLEAN, NEW check_ports \in BOOLEAN,
             NEW port \in Ports, Build(security, tcp, check_ports, port),
             UNCHANGED <<job, workerVars>>
      PROVE  ArmedInv'
  <2>1. ClustersArmed'
    BY <1>1, BuildArmed
  <2>2. layout' \in Layouts /\ JobArmed' /\ CommandArmed'
    BY <1>1 DEF Build, JobArmed, CommandArmed, Worker!Certs
  <2> QED
    BY <2>1, <2>2
<1>2. ASSUME NEW c \in clusters, Close(c), UNCHANGED <<job, workerVars>> PROVE ArmedInv'
  BY <1>2 DEF Close, ClustersArmed, JobArmed, CommandArmed, Worker!Certs
<1>3. ASSUME NEW c \in clusters, Submit(c) PROVE ArmedInv'
  <2>1. ClustersArmed' /\ layout' \in Layouts /\ pc' = "start"
    BY <1>3 DEF Submit, clusterVars, ClustersArmed, JobArmed
  <2>2. JobArmed'
    BY <1>3, <2>1 DEF Submit, clusterVars, ClustersArmed, JobArmed, Joined, Worker!CertFiles
  <2>3. CommandArmed'
    BY <1>3, <2>1 DEF Submit, CommandArmed
  <2> QED
    BY <2>1, <2>2, <2>3
<1>4. CASE Run
  <2> USE DEF Run, clusterVars, Worker!Next, Worker!Script, Worker!Start, Worker!ReadDask,
          Worker!ReadNanny, Worker!Read, Worker!Test, Worker!CheckIWD, Worker!Validate,
          Worker!BuildDask, Worker!BuildNanny, Worker!FirstUpdate, Worker!Forward,
          Worker!Done, Worker!vars, Worker!job, Worker!Goto
  <2>1. files' = files
    BY <1>4
  <2>2. ClustersArmed' /\ layout' \in Layouts /\ JobArmed'
    BY <1>4, <2>1 DEF ClustersArmed, JobArmed
  <2>3. CommandArmed'
    BY <1>4, <2>1 DEF CommandArmed, Worker!Certs, Worker!Final
  <2> QED
    BY <2>2, <2>3
<1>5. CASE UNCHANGED vars
  BY <1>5 DEF vars, clusterVars, ClustersArmed, JobArmed, CommandArmed, Worker!Certs
<1> QED
  BY <1>1, <1>2, <1>3, <1>4, <1>5 DEF Next, Kernel, ClusterNext

\* A worker launched for a cluster with TLS is given an authority, a certificate and a
\* key, if the certificates are the facility's and the key is in the certificate's file.
THEOREM AlwaysArmed == Spec => []WorkerArmed
<1>1. Init => ArmedInv
  BY DEF Init, ClusterInit, Worker!Init, Worker!NoCommand, ArmedInv, ClustersArmed, JobArmed,
     CommandArmed
<1>2. ArmedInv => WorkerArmed
  <2> SUFFICES ASSUME ArmedInv, pc = "exec", job.tls, FacilityCerts(job)
               PROVE  /\ command.certs = {"ca", "cert", "key"}
                      /\ {"ca", "cert", "key"} \subseteq UNION {Holds(f) : f \in files}
    BY DEF WorkerArmed
  <2>1. layout = "joined" /\ files = {"ca.pem", "hostcert.pem"}
    BY DEF ArmedInv, JobArmed, Joined
  <2>2. command.certs = {"ca", "cert", "key"}
    BY <2>1 DEF ArmedInv, CommandArmed, Worker!Certs
  <2>3. Holds("ca.pem") = {"ca"} /\ Holds("hostcert.pem") = {"cert", "key"}
    BY <2>1 DEF Holds
  <2> QED
    BY <2>1, <2>2, <2>3
<1>3. ArmedInv /\ KernelInv /\ [Next]_vars => ArmedInv'
  BY ArmedStep
<1> QED
  BY <1>1, <1>2, <1>3, KernelHolds, PTL DEF Spec
=============================================================================
