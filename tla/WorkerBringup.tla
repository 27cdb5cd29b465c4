---------------------------- MODULE WorkerBringup ----------------------------
(***************************************************************************)
(* How a Dask worker comes up inside an HTCondor job: the entrypoint       *)
(* docker/prepare-env/prepare-env-cc-analysis.sh with worker-args.sh.      *)
(* HTCondor updates the job ad while the script reads it, once per         *)
(* attribute and again when the command is built; every read of a          *)
(* forwarded port is therefore a step of its own.                          *)
(***************************************************************************)
EXTENDS Naturals

CONSTANTS
    Tries,   \* rounds of the wait for the forwarded ports (30)
    Modes    \* how the container may be run: "worker", "sidecar", "ci"

ASSUME TriesAssumption == Tries \in Nat \ {0}

Services == {"dask", "nanny"}

\* What the job was submitted with; the first three cc_worker_validate asks for.
Required   == {"dask_ContainerPort", "nanny_ContainerPort", "DaskSchedulerAddress"}
HostFields == {"StartdIpAddr", "RemoteHost"}
JobEnv     == {"IWD", "AD"}
CertFiles  == {"ca.pem", "hostcert.pem"}

\* A port of the ad, as HTCondor writes it: not yet there, there without a value,
\* or the forwarded port. A command may also name the container's own port.
AdPorts == {"missing", "undefined", "forwarded"}
NoPort  == "none"

VARIABLES
    hostNetwork,   \* the node forwards no ports: container ports are reached directly
    mode,          \* how the container is run
    env,           \* which of $_CONDOR_JOB_IWD and $_CONDOR_JOB_AD are set
    given,         \* required and host attributes the ad defines
    files,         \* certificates transferred with the job
    ad,            \* the HostPort attribute of each service
    pc,            \* the line of the script
    tries,         \* rounds of the wait begun so far
    seen,          \* _dh and _nh: the ports as last read by the wait
    command        \* the ports and certificates of the command line

job  == <<hostNetwork, mode, env, given, files>>
vars == <<job, ad, pc, tries, seen, command>>

Final == {"exec", "exec-args", "failed", "ended"}
Lines == Final \cup {"start", "read-dask", "read-nanny", "test", "iwd", "validate",
                     "build-dask", "build-nanny"}
NoCommand == [dask |-> NoPort, nanny |-> NoPort, certs |-> {}]

TypeOK ==
    /\ hostNetwork \in BOOLEAN
    /\ mode \in Modes /\ env \subseteq JobEnv
    /\ given \subseteq Required \cup HostFields
    /\ files \subseteq CertFiles
    /\ ad \in [Services -> AdPorts]
    /\ pc \in Lines
    /\ tries \in 0..Tries
    /\ seen \in [Services -> AdPorts]
    /\ command \in [dask : AdPorts \cup {"container", NoPort},
                    nanny : AdPorts \cup {"container", NoPort},
                    certs : SUBSET {"ca", "cert", "key"}]

Init ==
    /\ hostNetwork \in BOOLEAN
    /\ mode \in Modes /\ env \in SUBSET JobEnv
    /\ given \in SUBSET (Required \cup HostFields)
    /\ files \in SUBSET CertFiles
    /\ ad = [s \in Services |-> "missing"]
    /\ pc = "start"
    /\ tries = 0
    /\ seen = [s \in Services |-> "missing"]
    /\ command = NoCommand

Goto(from, to) == pc = from /\ pc' = to

-----------------------------------------------------------------------------
(* HTCondor updates the ad *)

\* "Newer HTCondor writes these as undefined on the first ad update"
FirstUpdate ==
    /\ \A s \in Services : ad[s] = "missing"
    /\ ad' = [s \in Services |-> "undefined"]
    /\ UNCHANGED <<job, pc, tries, seen, command>>

\* "... and fills in the real forwarded port a moment later"
Forward(s) ==
    /\ ~hostNetwork
    /\ ad[s] # "forwarded"
    /\ ad' = [ad EXCEPT ![s] = "forwarded"]
    /\ UNCHANGED <<job, pc, tries, seen, command>>

-----------------------------------------------------------------------------
(* The entrypoint *)

\* A sidecar runs the command it was given; in CI nothing is waited for.
Start ==
    /\ Goto("start", CASE mode = "sidecar" -> "exec-args"
                       [] mode = "ci"      -> "validate"
                       [] OTHER            -> "read-dask")
    /\ tries' = IF mode = "worker" THEN 1 ELSE 0
    /\ UNCHANGED <<job, ad, seen, command>>

Read(s, from, to) ==
    /\ Goto(from, to)
    /\ seen' = [seen EXCEPT ![s] = IF "AD" \in env THEN ad[s] ELSE "missing"]
    /\ UNCHANGED <<job, ad, tries, command>>

ReadDask  == Read("dask", "read-dask", "read-nanny")
ReadNanny == Read("nanny", "read-nanny", "test")

\* _is_unset: an attribute that is missing reads as the empty string.
Unset(port) == port \in {"missing", "undefined"}

\* Mutant: the attributes' names are enough (what lines 38-46 say was replaced).
HaveNames(ports) == \A s \in Services : ports[s] # "missing"

HavePorts(ports) == \A s \in Services : ~Unset(ports[s])

\* Mutant: one round too many.
WaitOnceMore == HavePorts(seen) \/ tries = Tries + 1

\* The wait is over once both ports were read, or after the last round.
WaitOver == HavePorts(seen) \/ tries = Tries

\* Mutant: the rounds are not counted.
TestForever ==
    /\ Goto("test", IF HavePorts(seen) THEN "iwd" ELSE "read-dask")
    /\ UNCHANGED <<job, ad, tries, seen, command>>

Test ==
    /\ Goto("test", IF WaitOver THEN "iwd" ELSE "read-dask")
    /\ tries' = IF WaitOver THEN tries ELSE tries + 1
    /\ UNCHANGED <<job, ad, seen, command>>

CheckIWD ==
    /\ Goto("iwd", IF "IWD" \in env THEN "validate" ELSE "failed")
    /\ UNCHANGED <<job, ad, tries, seen, command>>

\* cc_worker_validate: what the ad lacks for a worker.
Missing == (Required \ given) \cup (IF HostFields \cap given = {} THEN {"host"} ELSE {})

\* hostcert.pem holds the key as well.
Certs == (IF "ca.pem" \in files THEN {"ca"} ELSE {})
         \cup (IF "hostcert.pem" \in files THEN {"cert", "key"} ELSE {})

\* Without a job ad the script runs off its end, and nothing is launched.
Validate ==
    /\ Goto("validate", IF "AD" \notin env THEN "ended"
                        ELSE IF Missing = {} THEN "build-dask" ELSE "failed")
    /\ UNCHANGED <<job, ad, tries, seen, command>>

\* The port a service is reached at: without a forwarded one, the container's.
Port(s) == IF Unset(ad[s]) THEN "container" ELSE ad[s]

\* cc_build_worker_command reads the ports anew, one after the other.
BuildDask ==
    /\ Goto("build-dask", "build-nanny")
    /\ command' = [command EXCEPT !.dask = Port("dask")]
    /\ UNCHANGED <<job, ad, tries, seen>>

BuildNanny ==
    /\ Goto("build-nanny", "exec")
    /\ command' = [command EXCEPT !.nanny = Port("nanny"),
                                  !.certs = Certs]
    /\ UNCHANGED <<job, ad, tries, seen>>

Script ==
    \/ Start \/ ReadDask \/ ReadNanny \/ Test
    \/ CheckIWD \/ Validate \/ BuildDask \/ BuildNanny

Done == pc \in Final /\ UNCHANGED vars

Next == Script \/ FirstUpdate \/ (\E s \in Services : Forward(s)) \/ Done

\* The script runs on, HTCondor need not.
Spec == Init /\ [][Next]_vars /\ WF_vars(Script)

-----------------------------------------------------------------------------
(* Properties *)

\* A worker that is launched advertises the forwarded ports if the wait met them;
\* it advertises a container port only on a node that forwards none, or after the
\* whole wait; and never the word "undefined".
AdvertisesReachable ==
    pc = "exec" /\ mode = "worker" =>
        \A s \in Services :
            /\ command[s] \in {"forwarded", "container"}
            /\ (\A t \in Services : seen[t] = "forwarded") => command[s] = "forwarded"
            /\ command[s] = "container" => hostNetwork \/ tries = Tries

\* The bring-up ends, whether or not the ports ever appear.
BringupEnds == <>(pc \in Final)
=============================================================================
