---------------------------- MODULE JobPipeline ----------------------------
(***************************************************************************)
(* A worker job from the notebook to the worker's command line: a cluster  *)
(* of ClusterConfig submits a job, HTCondor takes the job's files to a     *)
(* node, and there WorkerBringup runs in a container. The kernel goes on   *)
(* closing and building clusters meanwhile.                                *)
(***************************************************************************)
EXTENDS ClusterConfig

CONSTANT Tries   \* rounds of the worker's wait, see WorkerBringup

ASSUME RoundsAssumption == Tries \in Nat \ {0}

VARIABLES
    job,   \* the cluster whose job is under way, as it was submitted; or NoJob
    hostNetwork, mode, env, given, files, ad, pc, tries, seen, command

Worker == INSTANCE WorkerBringup WITH Modes <- {"worker"}

workerVars == <<hostNetwork, mode, env, given, files, ad, pc, tries, seen, command>>
vars == <<clusterVars, job, workerVars>>

NoJob == [nr |-> 0]

TypeOK ==
    /\ ClusterTypeOK
    /\ job \in Cluster \cup {NoJob}
    /\ Worker!TypeOK

\* A job of CoffeaCasaCluster has every attribute its entrypoint asks for.
Init ==
    /\ ClusterInit
    /\ job = NoJob
    /\ Worker!Init
    /\ env = Worker!JobEnv
    /\ given = Worker!Required \cup Worker!HostFields
    /\ files = {}

Kernel == ClusterNext /\ UNCHANGED <<job, workerVars>>

\* cluster.scale: the job's input files arrive in its working directory, under the
\* names they have in the notebook.
Submit(c) ==
    /\ job = NoJob
    /\ job' = c
    /\ files' = c.inputs \cap Worker!CertFiles
    /\ UNCHANGED <<clusterVars, hostNetwork, mode, env, given, ad, pc, tries, seen, command>>

Run ==
    /\ job # NoJob
    /\ Worker!Next
    /\ UNCHANGED <<clusterVars, job>>

Next == Kernel \/ Run \/ \E c \in clusters : Submit(c)

Spec == Init /\ [][Next]_vars

-----------------------------------------------------------------------------
(* Properties *)

\* What a file of the job holds.
Holds(file) ==
    CASE file = "ca.pem"      -> {"ca"}
      [] file = "hostcert.pem" -> IF layout = "split" THEN {"cert"} ELSE {"cert", "key"}

\* The facility's certificates, with the key in the file of the certificate: the
\* entrypoint looks for no other files.
FacilityCerts(c) == layout # "split" /\ c.inputs \cap OwnFiles = {}

\* A worker launched for a cluster that uses TLS with these is given a certificate
\* authority, a certificate and a key, and the files it is given hold them.
WorkerArmed ==
    pc = "exec" /\ job.tls /\ FacilityCerts(job) =>
        /\ command.certs = {"ca", "cert", "key"}
        /\ {"ca", "cert", "key"} \subseteq UNION {Holds(f) : f \in files}
=============================================================================
