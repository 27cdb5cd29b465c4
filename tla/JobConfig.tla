----------------------------- MODULE JobConfig -----------------------------
(* CoffeaCasaCluster._modify_job_kwargs: from the arguments of a cluster and *)
(* the environment of its kernel, the options of its scheduler and the       *)
(* directives of its jobs.  What may be missing, an environment variable or  *)
(* an argument that defaults to None, is a sequence of one value or none;    *)
(* files are those that exist.                                               *)
EXTENDS Naturals, Sequences

DefaultSchedulerPort == 8786
DefaultDashboardPort == 8785
DefaultContainerPort == 8786
DefaultNannyPort == 8001

\* a or b or c
FirstOf(values) == SubSeq(values, 1, 1)
IsFile(env, path) == path \in env.files

BearerTokenPath(env) ==
  FirstOf(SelectSeq(env.BEARER_TOKEN_FILE \o <<"access_token">> \o env.XDG_RUNTIME_DIR
                      \o <<"/tmp/bt_u">>,
                    LAMBDA path : IsFile(env, path)))

\* the proxy that is named, or the one in /tmp, and not the other when the one
\* that is named is missing
X509UserProxyPath(env) ==
  SelectSeq(FirstOf(env.X509_USER_PROXY \o <<"/tmp/x509up_u">>),
            LAMBDA path : IsFile(env, path))

\* mutant: precedence goes to former dictionaries
MergeDictsFirst(first, last) ==
  [key \in DOMAIN first \cup DOMAIN last |->
     IF key \in DOMAIN first THEN first[key] ELSE last[key]]
\* precedence goes to latter dictionaries
MergeDicts(first, last) ==
  [key \in DOMAIN first \cup DOMAIN last |->
     IF key \in DOMAIN last THEN last[key] ELSE first[key]]

\* the certificate also serves as its key unless the key is apart; the scheduler and
\* the client have the worker's
KeyFile(env) == IF IsFile(env, "hostkey.pem") THEN "hostkey.pem" ELSE "hostcert.pem"
SecurityObj(env) ==
  [tls_ca_file |-> "ca.pem", tls_worker_cert |-> "hostcert.pem",
   tls_worker_key |-> KeyFile(env), require_encryption |-> TRUE]

\* the object that is given, or else one of the facility's certificates, if there are any
Sec(env, kwargs) ==
  IF kwargs.security # <<>> THEN kwargs.security
  ELSE IF IsFile(env, "ca.pem") /\ IsFile(env, "hostcert.pem") THEN <<SecurityObj(env)>>
  ELSE <<>>

UsesTls(env, kwargs) ==
  LET sec == Sec(env, kwargs)
  IN  ~kwargs.force_tcp /\ sec # <<>> /\ sec[1].require_encryption

\* the certificates and the key that the object names, as far as they exist
TlsFiles(env, kwargs) ==
  LET sec == Sec(env, kwargs)[1]
      named == {sec.tls_ca_file, sec.tls_worker_cert, sec.tls_worker_key}
  IN  {path \in named : IsFile(env, path)}

InputFiles(env, kwargs) ==
  {path \in {"requirements.txt", "environment.yml"} : IsFile(env, path)}
    \cup (IF UsesTls(env, kwargs) THEN TlsFiles(env, kwargs) ELSE {})
    \cup {BearerTokenPath(env)[i] : i \in DOMAIN BearerTokenPath(env)}

Protocol(env, kwargs) == IF UsesTls(env, kwargs) THEN "tls" ELSE "tcp"

ExternalIp(env) == FirstOf(env.POD_IP \o env.HOST_IP \o <<env.fqdn>>)[1]
ContactAddress(env, kwargs) ==
  [protocol |-> Protocol(env, kwargs), host |-> ExternalIp(env),
   port |-> kwargs.scheduler_port]

\* FIX 1 gives a link that the labextension set to True a text; this one
\* replaces it when the constructor gets here
DashboardLink(env, kwargs) ==
  FirstOf(env.DASK_DASHBOARD_LINK
          \o [i \in DOMAIN env.JUPYTERHUB_SERVICE_PREFIX |->
                <<env.JUPYTERHUB_SERVICE_PREFIX[i], "proxy", kwargs.dashboard_port>>]
          \o [i \in DOMAIN env.EXTERNAL_HOSTNAME |-> <<env.EXTERNAL_HOSTNAME[i]>>]
          \o <<<<ExternalIp(env), kwargs.dashboard_port>>>>)[1]

\* what the argument says wins over the class, and it is taken instead of what
\* the configuration says
OrElse(argument, configured) == (argument \o <<configured>>)[1]
JobqueueImage == "cc-analysis-ubuntu"
JobqueueOptions == <<>>
JobqueueDirectives ==
  [encrypt_input_files |-> {}, transfer_output_files |-> {},
   should_transfer_files |-> "YES", when_to_transfer_output |-> "ON_EXIT_OR_EVICT"]

\* scheduler_options of __init__, or of the remaining arguments when called without it
SchedulerOptions(env, kwargs) ==
  MergeDicts([port |-> kwargs.scheduler_port, dashboard_address |-> kwargs.dashboard_port,
              protocol |-> Protocol(env, kwargs),
              contact_address |-> ContactAddress(env, kwargs)],
             OrElse(kwargs.scheduler_options \o kwargs.job_kwargs.scheduler_options,
                    JobqueueOptions))

\* The ports of the container are the defaults, whatever scheduler_port and nanny_port
\* are: the latter is checked by the constructor and goes nowhere.
JobExtraDirectives(env, kwargs) ==
  MergeDicts([docker_image |-> OrElse(kwargs.worker_image, JobqueueImage),
              container_service_names |-> {"dask", "nanny"},
              dask_container_port |-> DefaultContainerPort,
              nanny_container_port |-> DefaultNannyPort,
              use_x509userproxy |-> X509UserProxyPath(env) # <<>>,
              transfer_input_files |-> InputFiles(env, kwargs),
              encrypt_input_files |-> InputFiles(env, kwargs),
              transfer_output_files |-> {},
              when_to_transfer_output |-> "ON_EXIT",
              should_transfer_files |-> "YES",
              CoffeaCasaWorkerType |-> "dask",
              DaskSchedulerAddress |-> ContactAddress(env, kwargs)],
             OrElse(kwargs.job_kwargs.job_extra_directives, JobqueueDirectives))

ModifyJobKwargs(env, kwargs) ==
  [security |-> IF UsesTls(env, kwargs) THEN Sec(env, kwargs) ELSE <<>>,
   scheduler_options |-> SchedulerOptions(env, kwargs),
   job_extra_directives |-> JobExtraDirectives(env, kwargs),
   link |-> DashboardLink(env, kwargs)]
=============================================================================
