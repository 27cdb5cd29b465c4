--------------------------- MODULE ClusterConfig ---------------------------
(***************************************************************************)
(* CoffeaCasaCluster (coffea_casa/coffea_casa.py) in one notebook kernel:  *)
(* what building a cluster does to the kernel's dask.config, which every   *)
(* later connection of the kernel goes by, and which files the cluster's   *)
(* HTCondor jobs carry. The kernel is one thread: a constructor runs as a  *)
(* whole, but it may raise after it has changed dask.config.               *)
(* dask_jobqueue and distributed are external.                             *)
(***************************************************************************)
EXTENDS Naturals

CONSTANTS
    Builds,      \* bound: constructor calls of a session
    Ports,       \* scheduler ports asked for
    Securities,  \* the security arguments passed: see Security
    Layouts      \* what /etc/cmsaf-secrets may hold: see FacilityFiles

Security == {"none",      \* no argument
             "facility",  \* an object naming the facility's certificates
             "own",       \* an object naming certificates of the user
             "plain"}     \* an object that does not require encryption

ASSUME BuildsAssumption == Builds \in Nat \ {0}
ASSUME SecurityAssumption == Securities \subseteq Security
ASSUME LayoutAssumption == Layouts \subseteq {"empty", "joined", "split"}

VARIABLES
    layout,    \* what /etc/cmsaf-secrets holds
    config,    \* what the constructor sets in dask.config: see Config
    builds,    \* constructor calls so far
    clusters   \* the clusters that are open

clusterVars == <<layout, config, builds, clusters>>

\* distributed.comm.require-encryption; whether distributed.dashboard.link is a boolean,
\* as the labextension leaves it, and if not the constructor call whose link it is, or 0;
\* whether distributed.comm.tls.worker has a certificate and a key.
Config == [encrypt : BOOLEAN, unlinked : BOOLEAN, link : 0..Builds, armed : BOOLEAN]

\* The secret joins the host's certificate and key in one file; a facility may
\* also keep the key apart.
FacilityFiles(l) == CASE l = "empty"  -> {}
                      [] l = "joined" -> {"ca.pem", "hostcert.pem"}
                      [] l = "split"  -> {"ca.pem", "hostcert.pem", "hostkey.pem"}
OwnFiles == {"own-ca.pem", "own-cert.pem", "own-key.pem"}
Files == FacilityFiles("split") \cup OwnFiles

Cluster == [nr : 1..Builds, port : Ports, tls : BOOLEAN, inputs : SUBSET Files]

ClusterTypeOK ==
    /\ layout \in Layouts
    /\ config \in Config
    /\ builds \in 0..Builds
    /\ clusters \subseteq Cluster

\* dask_tls.yaml requires encryption from the start.
ClusterInit ==
    /\ layout \in Layouts
    /\ config \in [encrypt : {TRUE}, unlinked : BOOLEAN, link : {0}, armed : BOOLEAN]
    /\ builds = 0
    /\ clusters = {}

-----------------------------------------------------------------------------
\* Without an argument, the facility's certificates make a Security, if they exist.
Secured(security) ==
    CASE security = "none"  -> layout # "empty"
      [] security = "plain" -> FALSE
      [] OTHER              -> TRUE

\* Mutant: the setting follows the certificates and not force_tcp.
WillUseTLSUnforced(security, tcp) == Secured(security)

\* FIX 3, and again for the job's protocol: force_tcp wins over any Security.
WillUseTLS(security, tcp) == ~tcp /\ Secured(security)

\* Mutants: a file that was not found is listed by its missing name; the certificate
\* is taken to need no certificate authority.
InputFilesUnchecked(security) ==
    FacilityFiles(layout) \cup (IF layout = "split" THEN {} ELSE {"None"})
InputFilesNoCA(security) == {"hostcert.pem"} \cap FacilityFiles(layout)

\* The certificates a job carries: those the user's object names, as far as they
\* exist, or the facility's.
InputFiles(security) == IF security = "own" THEN OwnFiles ELSE FacilityFiles(layout)

\* FIX 1 and FIX 2, before anything can fail.
Fixed(tcp) == [config EXCEPT !.unlinked = FALSE, !.armed = @ \/ ~tcp]

\* get_connection_args loads the certificates that the object names.
CannotLoad(security, tcp) == ~tcp /\ security = "facility" /\ layout = "empty"

PortTaken(port) == \E c \in clusters : c.port = port

\* The call raises before it has found out whether TLS will be used.
BuildUnloaded(security, tcp) ==
    /\ CannotLoad(security, tcp)
    /\ config' = Fixed(tcp)
    /\ UNCHANGED clusters

\* check_ports, when it is asked for: the scheduler's port is an open cluster's, or one
\* of the three, which are arguments all, is taken by something else in the pod.
BuildUnchecked(security, tcp) ==
    /\ ~CannotLoad(security, tcp)
    /\ config' = [Fixed(tcp) EXCEPT !.encrypt = WillUseTLS(security, tcp)]
    /\ UNCHANGED clusters

\* dask.config is set first: when the scheduler then finds that it cannot listen, it
\* stays as it was set, with no cluster to match it. _modify_job_kwargs decides again
\* whether TLS is used.
BuildConfigured(security, tcp, port) ==
    LET tls == ~tcp /\ Secured(security) IN
    /\ ~CannotLoad(security, tcp)
    /\ config' = [Fixed(tcp) EXCEPT !.encrypt = WillUseTLS(security, tcp),
                                    !.link = builds + 1]
    /\ clusters' = clusters \cup
           IF PortTaken(port) THEN {}
           ELSE {[nr |-> builds + 1, port |-> port, tls |-> tls,
                  inputs |-> IF tls THEN InputFiles(security) ELSE {}]}

Build(security, tcp, check_ports, port) ==
    /\ builds < Builds
    /\ builds' = builds + 1
    /\ \/ BuildUnloaded(security, tcp)
       \/ check_ports /\ BuildUnchecked(security, tcp)
       \/ ~(check_ports /\ PortTaken(port)) /\ BuildConfigured(security, tcp, port)
    /\ UNCHANGED layout

Close(c) ==
    /\ clusters' = clusters \ {c}
    /\ UNCHANGED <<layout, config, builds>>

ClusterNext ==
    \/ \E security \in Securities, tcp, check_ports \in BOOLEAN, port \in Ports :
          Build(security, tcp, check_ports, port)
    \/ \E c \in clusters : Close(c)

-----------------------------------------------------------------------------
(* Properties *)

\* A connection of the kernel is refused when dask.config requires an encryption
\* that the cluster does not use.
Refused(c) == config.encrypt /\ ~c.tls

\* The cluster built last can be connected to, and the kernel's link to a dashboard is
\* to its own: only a later call of the constructor, also one that raises, can leave an
\* open cluster refused.
NewestConnects == \A c \in clusters : c.nr = builds =>
    ~Refused(c) /\ ~config.unlinked /\ config.link = c.nr

\* "Align dask.config require-encryption with actual TLS state" (line 163): no open
\* cluster is refused.
OpenConnects == \A c \in clusters : ~Refused(c)
=============================================================================
