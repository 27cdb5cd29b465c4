# A TLA+ model of coffea-casa

coffea-casa is an analysis facility: a JupyterHub on Kubernetes whose users
start Dask workers as HTCondor jobs. Most of its code configures other systems.
The parts with state of their own, and with behaviour that tests hardly reach,
are the hub's hooks and authenticator, the `CoffeaCasaCluster` class, the
entrypoint of a worker and what runs on its node; the analyses that users run on those workers,
of which the gallery of the documentation has fourteen, are columnar code whose result must not
depend on how the data is cut. These modules model them, TLC checks them on small
instances, and TLAPS proves the safety properties of the hooks, the tokens, the handshake, the
jobs, the worker's node, the sessions and the chunked run for every value of the constants, and
that the cuts of the data do not show in twelve of the analyses.

Paths below are relative to the repository; `hub-extra/` stands for
`charts/coffea-casa/files/hub-extra/`.

## Inventory

| Component | Code | State | Operations | Talks to | What is hard |
|---|---|---|---|---|---|
| Spawn hooks | `hub-extra/secret_creation_hook.py` | a secret, a service and an ingress per user; the Spawner's lists of volumes and mounts | `pre_spawn_hook`, `modify_pod_hook`, `post_stop_hook` | Kubernetes API, JupyterHub (which calls them) | up to seven API calls, any may fail or be carried out unseen; hub crashes; a Spawner reused after a failure; one event loop for all users |
| Token lifecycle | `hub-extra/oauthenticator-generic.py`, `oauthenticator-coffea.py` | `auth_state` in the hub's database; `access_token` in the secret | `authenticate`, `refresh_user` | identity provider, Kubernetes, JupyterHub (which saves the result) | two stores written one after the other; requests interleaved at awaits; lost answers; renewals that fail or come late; rotating refresh tokens |
| Credential generation | `hub-extra/auth.py` | none | `generate_x509`, `generate_condor`, ... | Kubernetes (signing keys) | fails half way through a spawn; every spawn has an authority of its own |
| Sessions | the parts above and below together | secrets, routes, pod addresses, clusters, jobs that wait | a spawn, a stop, a cluster, a job, a worker that looks for its scheduler | all of them | an address and a hostname outlive the server they were written down for |
| OAuth handshake | `hub-extra/oauthenticator-oauth2-14.2.0.py`, `authenticate` of `oauthenticator-generic.py` | a state cookie per browser | login, callback and logout handlers | browser, identity provider | several tabs share a cookie, which expires; the provider answers anything or nothing |
| CoffeaCasaCluster | `coffea_casa/coffea_casa.py` | the kernel's `dask.config`; open clusters | the constructor, `close` | dask_jobqueue, HTCondor, the files in `/etc/cmsaf-secrets` | a kernel-wide setting changed by every construction, also by one that raises |
| Worker bring-up | `docker/prepare-env/prepare-env-cc-analysis.sh`, `worker-args.sh` | the command line being built | the entrypoint | the job ad, which HTCondor rewrites meanwhile | a race of reads against updates, a wait with an end |
| Remote debugger | `coffea_casa/remote_debug.py` | a module flag, a port | `start_remote_debugger` | debugpy | tasks on several threads of a worker |
| Environment plugin | `coffea_casa/plugin.py` | files and packages on a node | `setup`, `teardown` | pip | steps that fail half way; a package that goes by another name than its directory |
| Sidecar worker | `docker/k8s-worker/supervisord.conf` | the cluster it is in | start, restart by supervisord | the user's hostname | it is there before any cluster and after each |
| Gallery notebooks | `docs/gallery/*.ipynb`, `agc_schema.py` | accumulators, on the workers that made them | `process`, `postprocess`, the schema | coffea, Dask workers that may be lost | chunks processed twice or not at all; arrays combined whose rows are of other events |
| Notebook start | `docker/prepare-env/prepare-env-cc.sh` | configuration files | a script | | sequential |
| Patches to distributed | `docker/dask/distributed/` | | retire workers by name | distributed | names must agree with the jobs' |
| Helm chart | `charts/coffea-casa/` | | templates and values | | declarative |
| Release automation | `.github/workflows/`, `ci/` | git tags | `autotag.yaml` | git | two pushes at once |

What makes each correct:

* *Hooks*: a running server has its own service and ingress; an attempt that
  fails leaves none behind; a retry works; a spawn ends.
* *Tokens*: while the hub finds the session up to date, the pod's token is valid and not
  behind the hub's, unless requests cross; no used refresh token is left in `auth_state`.
* *Clusters*: the kernel can connect to an open cluster; a worker is given what
  its scheduler asks of it.
* *Handshake*: a browser is logged in only through a login of its own, and as
  the user who approved it; every tab gets an answer.
* *Workers*: the wait ends; a worker advertises an address it can be reached at.
* *Sessions*: a worker joins only a cluster of its own session and only one whose arguments
  suit, is turned away from such a one only when it, or the way to it, is gone, and holds no
  node after it; the pod's own worker finds every cluster.
* *Gallery*: every chunk counts once; the result is that of one call on the whole
  dataset, holds what the text of the notebook says, and its counters agree with it.
* *Debugger and plugin*: no task waits for a client that cannot come; a worker runs
  the package that was registered; nothing is left behind.

## Modules

| Module | Models | Runs |
|---|---|---|
| `UserServer` | what the hub promises of a server and its endpoint (abstract) | refined by `SpawnHooks` |
| `SpawnHooks` | the three hooks, JupyterHub's use of them, Kubernetes, hub crashes | `spawn_hooks`, `mount_unique` |
| `SpawnHooks_proofs` | theorems about `SpawnHooks` | |
| `TokenRefresh` | one user's token from the provider to the pod | `tokens`, `token_relogin` |
| `ClusterConfig` | building and closing clusters in one kernel | through `JobPipeline` |
| `WorkerBringup` | the entrypoint of a worker job | `worker_bringup` |
| `JobPipeline` | `ClusterConfig` and `WorkerBringup` composed: a job from constructor to command line | `job_pipeline`, `open_connects` |
| `OAuthLogin` | the login handshake of a browser's tabs | `oauth_login` |
| `WorkerNode` | what runs on a worker's node: the debugger in its tasks, the plugin on its nanny | `worker_node` |
| `UserNames` | the names a user's secret, service, ingress and host get | through `Sessions` |
| `Credentials` | what a spawn writes into the secret: certificates and tokens, with symbolic keys | through `Sessions` |
| `JobConfig` | what a cluster makes of its arguments and its environment: options and job directives | through `Sessions` |
| `Sessions` | users, servers, clusters, jobs and workers composed | `sessions` |
| `ChunkedRun` | a notebook's job on Dask workers that may be lost | through `Gallery` |
| `Columnar` | the array and histogram operations of the notebooks | through `Gallery` |
| `AgcSchema` | `agc_schema.py`: collections put together from the branches of a file | through `Gallery` |
| `Benchmarks` | `process` of eight benchmark notebooks, `zpeak_example`, `coffea_analysis`, `ttbar_HT`, the template | through `Gallery` |
| `THq` | the tHq analysis (`analysis-casa`) with its `postprocess`, and `analysis_tutorial` | through `Gallery` |
| `GalleryText` | what the notebooks say of their histograms, event by event (abstract) | compared with in `Gallery` |
| `Gallery` | `ChunkedRun` with these process methods | `gallery`, `gallery_chunks` |
| `TokenRefresh_proofs`, `JobPipeline_proofs`, `OAuthLogin_proofs`, `WorkerBringup_proofs`, `WorkerNode_proofs`, `Sessions_proofs`, `ChunkedRun_proofs` | theorems about these modules | |
| `MC...` | constants for TLC | |

Operators marked "mutant" in the modules are faulty variants of the definition
below them. No specification uses them: each shows that a property fails when
the code has that fault, and stays beside the code it is a fault of.

### SpawnHooks

`pc[u]` is the line at which the server of user `u` is: the steps of
`pre_spawn_hook` (`prepare` to `addIngress`), KubeSpawner's start (`start`,
`wait`), `running`, stopping (`halt`), the steps of `post_stop_hook`
(`dropService`, `dropIngress`), `check` after a restart of the hub, and `idle`.
Every Kubernetes call is one action. The client is synchronous, so between two
awaits a hook holds the event loop (`loop`), and other users' hooks wait; the
hub can die between any two calls.

An API call has three outcomes: done, refused, or an exception after which the
object may have been changed all the same, because the answer was lost. The
code suppresses only `ApiException`, so a deletion may also raise. `mounts` and
`volumes` tell whether the hook has put none, one or several entries in the Spawner's lists:
the list of mounts grows with every attempt, and what matters is only that it holds more
than one. `Spawner`s survive a failed spawn and are discarded after a stop
(JupyterHub 1.5, which chart 1.2.0 of the hub brings). `durable` says whether the
hub's database survives its restart: `values-prod.yaml` keeps it on a volume,
`values.yaml` in memory; it is chosen at the start and never changes. `spoiled` is a
history variable for `LeakOnlyFromCleanup`. The type invariant says with its last conjunct
that the event loop is held by a hook exactly while that hook is between two of its awaits.

What JupyterHub, KubeSpawner and Kubernetes do is external: `BeginSpawn`, `StartDone`,
`StartFails`, `Stop`, `PodDies`, `Halt`, `Crash`, `Restart`, `Recover`. Assumed
of them: a user has one server (named servers are off); a stop ends with the
pod gone; a start that timed out does not create its pod later.

Properties checked: `EndpointServed`, `LeakOnlyFromCleanup`, `VolumeResolves`,
the refinement `ImplementsUserServer`, and `SpawnSettles`. The last needs
fairness. `Proceed(u)` is what the hub's coroutine for `u` does next, and it has
strong fairness per user: asyncio's ready queue is first in, first out, so a
coroutine that is ready again and again while others hold the loop is not passed
over for ever. A request to start or stop a server, a pod's end and a crash are
not fair, and the property only speaks of runs in which the hub stays up from
some point on.

Two users, with names of their own: the hooks of two users meet at the event
loop, and nowhere else, and a third would add no new meeting. TLC checks
75 125 states, deadlock included. With `NameOf <- SharedName` (`MCSpawnHooks`), which gives both
users one name as the cut at 63 characters can, TLC finds the refinement violated: one user's
spawn takes the other's endpoint away; what the
names come to is the business of `UserNames` and `Sessions`.

### TokenRefresh

One user, and the requests of that user as coroutines of the hub: each action
runs from one await to the next. Requests read `auth_state`, ask the provider,
patch the secret, and return the state that JupyterHub then saves (`Save`, `Enrol` for a
login). Time is a count of ticks; an access token is named by the tick it was issued in, so
that "older" and "expired" are comparisons.

`Tick` happens whatever the requests do: a renewal may fail, come late, or not be asked for at
all. The one thing it waits for is a request under way, which lasts at most `Patience` ticks:
its calls to the provider are made by tornado's client, which gives a request up after 20
seconds, and those to Kubernetes are assumed to be answered or to fail within the same time.
`Patience` may be up to a third of `Life` (`PatienceAssumption`), which is what the renewal
after two thirds leaves over.

A user who is away renews nothing and the token expires: the code does not claim otherwise, so
the history variable `checked` says whether, in this tick, the hub has found a session with
a refresh token and a time of renewal to be not yet due, or has just saved a new one. The properties:

* `StaleOnlyIfCrossed`: while the hub finds the session up to date, the token of a running pod
  has not expired, unless requests of the user crossed or a login came beside the running pod.
  A request is crossed (`crossed`) once another has written the secret or `auth_state` beside
  it, and the stores are `mixed` when the last to write one of them was such a request. The
  runs show that both exceptions are needed, see below.
* `BehindOnlyIfCrossed`: neither a failed patch, nor a lost answer, nor a hub restart between the
  patch and the saving leaves the pod with an older token than the hub's.
* `SessionRenewable`: a refresh token that the provider no longer takes stands in `auth_state`
  only while a request holds its successor, or if that was `lost` on the way: an answer that
  never came, a renewal turned away after it, a hub restart. That loss does happen in the code
  (the next renewal is refused and the user must log in again); what does not is that of two
  requests which have read the same token, one puts back a used one.

`tokens` has two requests that may overlap, logins beside a running server, a provider that
rotates refresh tokens and may leave them out, answers lost at any await, and hub restarts.
`Life` is three ticks, the least that has a whole number of thirds, `Patience` one, and a
`Horizon` of six covers a renewal and the end of the tokens before and after it; three refresh tokens
are a login and two renewals, or two logins and one. The two requests are interchangeable
(`SYMMETRY`). 4 215 058 states; deadlock checking is off because time ends at the bound.

`token_relogin` serves one request at a time and allows logins beside a running server: TLC
finds a pod whose token has expired while the hub finds the session up to date
(`PodTokenValid`). Two variations of `TokenRelogin.cfg` are no runs of their own: with
`Relogin = FALSE` the property holds (30 138 states), and with `Relogin = FALSE` and `Overlap = TRUE`
it does not: a spawn reads `auth_state`, a refresh patches the secret, the spawn writes the
old token back, and what the refresh brought is saved. An answer without a refresh token
(`Omits`) leaves none in
`auth_state` (line 142); from then on `refresh_user` lets every request in and renews nothing.
No property is about such a session: `checked` leaves it out.

### WorkerBringup

HTCondor rewrites the job ad on its own (`FirstUpdate`, `Forward`), and every
read of a port is an action. The wait has 30 rounds in the script and `Tries`, 3, in the run:
a round only repeats reads, so three are enough for an
update before, between and after any two of them. The entrypoint as a sidecar and in CI,
missing job attributes, missing files and host-networked nodes are
chosen at the start. `BringupEnds` assumes that the shell goes on, and nothing
of HTCondor.

### ClusterConfig and JobPipeline

A kernel is one thread, so a constructor is one action, with the order kept where it
matters. `config` is what it sets in `dask.config`: `encrypt` (`require-encryption`), `unlinked`
(the dashboard's link is still the boolean that the labextension leaves), `link` (the call
whose link it is) and `armed` (the worker's certificate and key). It may raise at three
places: the user's object names the facility's certificates and there are none, before
`require-encryption` is set (`BuildUnloaded`); `check_ports` finds one of the three ports
taken, after that (`BuildUnchecked`); the scheduler cannot listen, when the link is set as
well (`BuildConfigured` with `PortTaken`). A `check_ports` that fails over the dashboard's or the nanny's
port, or over one that something else in the pod has, is the second of these without `PortTaken`.
`JobPipeline` instantiates `WorkerBringup` for a job submitted by a cluster and lets the kernel go
on meanwhile. Three constructor calls and two ports let a second cluster be built beside the
first, in its place, or fail. 657 342 states; deadlock checking is off because a session ends
when its constructor calls are used up.

`WorkerArmed` is about clusters that use TLS with the facility's certificates and
the key in the file of the certificate, as the hub's secret has it (`FacilityCerts`). Clusters with
certificates of the user, and facilities that keep the key apart, are in the run and
outside the property: their files are transferred, but the entrypoint looks for `ca.pem`
and `hostcert.pem` alone, and takes the latter for both. The entrypoint always passes
`--protocol tls`, so the workers of a cluster built with `force_tcp` cannot join
it at all; the model leaves that job at its command line.

### WorkerNode

The threads of one worker process call `start_remote_debugger`. The flag
`_already_listening` is tested (`Look`), debugpy is called (`Listen`) and the flag is set
(`SetListening`) in three steps, since `debugpy.listen` lets other threads run. `ShowConfig` raises
when the job ad has no `nanny_HostPort` that `int` can read. `crossed` is a history variable. The
nanny runs `setup` and `teardown` to their ends, pip included, so `nanny` is one program
counter; each step may fail where the code lets it. The worker may die at any
time, and takes the flag, the port and the imports with it.

debugpy, pip and distributed are external: `debugpy.listen` raises when its process listens already
or its port is taken, and its port is free again when the process is gone; a failed pip changes nothing installed; the nanny restarts
the worker after a `setup` that returned, if the plugin says so, with the nanny's own `sys.path`;
registering again under the same name calls `setup` and no `teardown` (calling both is
the series `Unregister`, `Register`). Registrations come one after the other:
the client waits for each. `teardown` gives pip the name of the directory: `named` says
whether the distribution in it is called so, and if not, pip warns, returns 0 and leaves it
installed (`Uninstall`); it is chosen at the start.

`RefusedOnlyIfCrossed` says how far the flag protects: the second of two tasks that test
it together gets an exception from debugpy, and no one else does, except over the nanny's own port.
`WaitsAtAPort` is why the flag must be set after the call. `WorkerRunsRegistered` speaks of
the files that the registered version has: files that it no longer has stay
where an earlier version put them, and are installed again. The second version of the run
has lost a file and brings an extra input; the third is kept where the skip words leave out every
file. `NothingLeftUnlessFailed` claims the uninstalling only of a package that is `named`: with any
other, TLC finds it installed after a teardown in which nothing failed. Two threads, two ports
(the nanny's and another) and two registrations are enough for each thing to happen over what an
earlier one left: 3 769 992 states, with the two threads interchangeable (`SYMMETRY`).

### OAuthLogin

The hub keeps nothing of a login that is under way: the state is in the URL at
the provider and in a cookie, of which a browser has one for all its tabs. A
request carries the cookie of the moment it is sent (`sent`) and a response
changes it when it arrives (`Redirected`, `Answered`), as two actions, so the
tabs cross in every order. `get_state_cookie` clears the cookie in every
response to a callback that got as far as `check_state`, also an error;
`check_error` and `check_code` come before it, so a denial (`Deny`) leaves the
cookie alone. The cookie is set for a day, so that the browser may drop it at any moment
(`Expire`). `authenticate` makes two requests, and `fetch` answers each of them with the
parsed body, with None when the body is empty, or with an exception when it is no JSON, an
error or no answer at all (`Responses`); subscripting None raises as well. The code of a login
is redeemed once, and a request that failed may have redeemed it. The claims of the user may
lack the name, or the groups: no name, or no allowed group if such are set (`Grouped`, true
in the run), is a 403.

The provider, the user and the browser are external: `Approve`, `Deny`, and
`Reopen`, which opens the callback of an approved login again in any tab of any browser.
`lost` and `via` are history variables of the properties. A refused login
(403, no allowed group) and a failed one leave an earlier login cookie in place.

`MismatchOnlyIfLost` says what remains true of a browser with two tabs: a login is turned
away for its state only if that state was in its browser's cookie no more (`lost`), because
a response for another login replaced it or a response or a logout cleared it, or because it
had expired; or if its address was opened in another browser. `RedeemedAtHome` is why the state is
checked before the code is sent to the provider. `TabsAnswered` assumes, for each
tab, that requests are served and responses arrive (weak fairness of
`Handle(t)`); whether a user approves is left open.

Two tabs of one browser and one of another, a member of an allowed group and a
stranger, two logins: a third login or tab crosses the others as the second
does. 158 295 states; deadlock checking is off because the logins are used up.

### UserNames, Credentials, JobConfig and Sessions

`UserNames` is `escape_username` and `get_dask_params`: a name is a sequence of
characters, what `isalnum` does not accept becomes a dash and two digits, and the
name of the service and of the ingress is cut after the escapes have made it longer,
while the hostname is not. For ASCII names the escape tells users apart; for other
characters it may not, since the digits have no fixed width. `Credentials` is
`auth.py` with symbolic keys: each call of `generate_x509` makes an authority of its
own, and the pool's password is scrambled, unscrambled and doubled byte by byte. What
TLS and HTCondor accept (`Handshake`, `CondorAccepts`) is external. `JobConfig` is
`_modify_job_kwargs`: the security object, the options of the scheduler, the directives of its
jobs and the dashboard's link, from the arguments and the environment. An argument or a variable
that may be missing is a sequence of one value or none. `nanny_port` goes nowhere: it is only
checked by the constructor, and the ports of the container are the defaults whatever the
arguments are.

`Sessions` composes them. `Spawn` is a spawn that succeeds (its steps and failures
are `SpawnHooks`): the user's secret and route are written anew, and the pod gets any
free address, also one that a stopped server had. `Build` is a constructor that
succeeds, `Submit` a job, `Close` a cluster that is closed and takes its jobs with it,
`KernelDies` a kernel that ends and leaves them. `Begin`, `Join`, `GiveUp` and `Leave`
are a worker's life, by its `--death-timeout` and `--lifetime`; `JoinSidecar` the
worker in the pod's second container, which goes to the user's hostname. `addressing`
is whether the facility sets `POD_IP`: `external_ip` prefers it.

A worker comes to its scheduler by the address in its job. With `POD_IP` that is the pod
itself, at the port of the address (`scheduler_port`). Otherwise it is the user's hostname, and
the way leads through Traefik, which listens at 8786 and 8788 (`Entrypoints`), to the route for
that hostname, which ends at 8786 of the pod (`RoutePort`): the service has 8788 as well, but that
is where the route of the worker's hostname ends, which no address names.

`OwnSession` relates a job to the server it comes to, through the certificates: the
address it carries may be someone else's by then, and the hostname that of the user's
next server, but its certificates are of an authority which only its own session's
scheduler takes. The other direction has two parts. `Suited` says of the arguments of a
cluster that its workers can come to it: it is secured with the facility's certificates
(not so with `force_tcp`, whose workers are started with `--protocol tls` all the same and with
empty certificate options that take the next words for their values, nor with a security object of the
user); its jobs carry them (not so with `job_extra_directives` that name other
`transfer_input_files`); and its scheduler listens at a port where they arrive (not so when
`scheduler_options` name another port than the jobs are told, nor, by the user's hostname,
when `scheduler_port` is not a port of the route).
`ServedOnlyIfSuited` says that a cluster with other arguments never gets a worker of its jobs, and
`TurnedAwayOnlyIfGone` that a worker of a suited one is turned away only when its cluster is
no longer open, with one exception: where jobs come by the user's hostname and another user's name is
cut to the same, the other's spawn, or stop, takes the route away (`CutOff`). The names of
the run are such that this happens; without the exception TLC finds it. `WorkersReleased` is why a
worker has a death timeout, `SidecarComes` what supervisord is for.

The run has two users with two namings, under a limit of seven characters for what
follows "dask-": in the one their names, escaped, differ within the limit, in the other only after
it, so that both users have one service and one ingress. There are two
addresses (so each spawn may get the address of an earlier one), three spawns (so that
a session may follow one of the same user and one of the other), two clusters and one
job. Jobs do not act on each other, so a second adds no case. A cluster is built with
the arguments as they are, or with one of five others: `force_tcp`, a security object of the user,
`scheduler_options` with another port, another `scheduler_port`, `job_extra_directives` that name no
files. The fairness is that
HTCondor starts every job sooner or later, that a worker goes on (weak fairness of
each job's steps), and that supervisord starts the sidecar again; nobody has to start,
stop or build anything. Deadlock checking is off because the spawns, clusters and jobs
are used up. 296 632 states.

### Columnar, AgcSchema, Benchmarks, THq, GalleryText, ChunkedRun and Gallery

The notebooks are columnar: a cut is a mask over an array of events, and nothing in
the code says which event a row is of. `Columnar` has the operations they use, over
sequences: particles are records of the numbers the cuts look at, and the mass or the
pt of a sum of particles, which the code compares with thresholds, is the sum of
theirs. An accumulator is a bag of histogram entries and counts, since adding
histograms is adding bags: `Fill` counts the elements of a column by value, `Count` has one
entry. A mask (`Mask`, and `Where` for one that looks at an element at a time) flattens an
array of singletons and empty arrays.

`Benchmarks` and `THq` are the `process` and `postprocess` methods, translated mask by
mask, with what the code computes and not what it is meant to: `Both` of `example7`
has a mask with None in it, `Example8` indexes the array of events with numbers within
an event, and the tutorial's `TutorialLooseMask` is a bitwise conjunction of a truth
value and a number. `DileptonMass` (`coffea_analysis`) reads its events through
`AgcSchema`: `File` lays them out as flat branches with counts, and `BuildCollections`
puts the collections together again; its `postprocess` returns nothing, and what the notebook
plots is the sum the framework was left with (`PostOf`). `GalleryText` says the same results from the
sentences of the notebooks, one event at a time, with sets and quantifiers and without
arrays. Where the text gives no rule, nothing is compared (`Tells`).

`ChunkedRun` is a job of `processor.Runner`: a free worker is given a chunk (`Start`),
its accumulator stays on the worker (`Finish`), accumulators are added in pairs
anywhere (`Merge`), a worker may be lost with the chunk in hand and all accumulators
in memory, whose chunks are done again (`Lose`), an exception of `process` ends the
run (`Fail`), and the last accumulator goes to `postprocess` (`Return`). coffea and
distributed do this; the notebooks rely on it.

`ExactlyOnce` is about that run, and so is `ResultIsSum`: the result is `postprocess` of
the sum over the chunks (`SumOver`, which counts the copies of each entry without any order).
`ChunkingIrrelevant` compares it with one call of `process` on each whole dataset: cuts,
workers, losses and the order of the merges must not show. What a cut is, `IsCut` says: the
chunks of a dataset are, in some order, one behind the other. `AsDescribed` compares the
histograms with `GalleryText`, and `CutflowAgrees` the counters with each other and with the histograms. `Ends` assumes
that the scheduler keeps the workers busy (weak fairness of all their steps together);
losing a worker is never due.

`MCGallery` makes datasets of one to three events in every order, from events chosen
on both sides of every cut, and every way to cut them into chunks; the analysis has
two datasets, one in a group of `postprocess` and one in none. Two workers and one
loss are enough for a merge across workers, a loss of merged chunks and a chunk
processed twice. 74 948 states. `example8` has one event at a time there: with two,
`gallery_chunks` finds the result to depend on the cut. With `Jobs <- ParityJobs`
(events with four loose leptons) TLC finds `AsDescribed` violated by
`analysis_tutorial.ipynb:550`: `ak.all(...) & ak.num(...) > 0` is `(all & num) > 0`,
which fails for an even number of pairs. The tutorial's jobs of `GalleryJobs` have at
most three loose leptons.

## Runs that find a violation

| Run | What happens |
|---|---|
| `mount_unique` | the hook appends its mount to `volume_mounts` on each attempt, and filters only `volumes`: a retry after a failed spawn asks for a pod Kubernetes refuses |
| `token_relogin` | a login beside a running server saves a new `auth_state` and not the secret; the pod's token expires before the next renewal is due |
| `open_connects` | a constructor that raises has already changed `require-encryption`; the open cluster is refused |
| `gallery_chunks` | `example8.ipynb:95` indexes the events of a chunk with the position of a lepton: two events give another result in one chunk than in two |

The code at the lines that `PROJECT.json` names says why each is a disagreement
with a comment beside it.

More disagreements need no run. When a node's ports are forwarded after
the last look at the ad, `worker-args.sh:64` advertises a container port that is
not reachable there, which the comment above it takes for the reachable one;
`AdvertisesReachable` leaves out the worker whose wait timed out. The comment at
`prepare-env-cc-analysis.sh:117` speaks of a dask/taskvine split in
`cc_build_worker_command`, which has none: jobs of
`scripts-extra/submit_vine_workers_to_condor` get a Dask worker. And
`jobqueue-coffea-casa.yaml:35`, under "Request encrypted file transfer", sets
`encrypt_input_files` to the empty string, which overrides the list the class
computes. The debugger's port "should be '8001' usually" (`remote_debug.py:56`), which is the
port that `worker-args.sh:75` gives the nanny of a `CoffeaCasaCluster`
(`coffea_casa.py:338`), so the call with its defaults raises; and the port of the configuration it prints is that at
which the nanny is reached. `coffea_casa.py:243` ships the user's certificates to workers
that do not look for them. `prepare-env-cc.sh:88` changes `require-encryption: True` with
sed, in a file whose line 8 (`dask_tls.yaml`) has a lower-case `true`, so it changes nothing.

The gallery has some of its own. Two counters in the stored output of `example7` (lines
207-208) do not agree, 3 430 495 jet-lepton pairs and 32 545 926 final jets, for the
None in its masks. In `analysis-casa`, the sub-leading pt of an emu event is the
electron's whatever it is (muons come first), `highpT_sslp` takes any pair of a
trilepton event and not one of a sign, the forward jet is the one of largest signed
eta, `fwdJet_closestLepton` is signed, `nJetEta1` counts jets that fail the loose and
not the medium working point, `jetMaxEta` cuts at 40 where its label says 25, and the
datasets `WGToLNuG`, `ZGTo2LG`, `TGJets` and `TTGJets` are in no group of
`postprocess` and vanish. `coffea_analysis` confirms "that no information has been
lost" by a schema that drops `PV_npvs`.

## Proofs

`SpawnHooks_proofs` proves, for any sets of users and names, from the
assumptions named in `SpawnHooks` (`NameOf` gives a user a name; `Nobody` is no
user):

* `TypeCorrect`: `TypeOK` always holds.
* `EndpointAlwaysServed` and `LeakNeedsACleanup`: the two safety invariants, if
  `NamesDiffer`, that is, if no two users share an object name. TLC shows that they
  need it (`SharedName`).
* `Refinement`: `SpawnHooks` implements `UserServer` under the same condition.
* `VolumeAlwaysResolves`, for any names: from `Asked`, which says from which line on
  there is a secret, and from which line on the Spawner's list has its volume once.

`EndpointServed` is not inductive: it speaks of the state `running` only, which is
entered from `wait` and, after a restart, from `check`. The inductive invariant
`SpawnInv` says of each user where the objects are at each line:
`OnRecord` (the server is on record from its request to the end of its pod, so a
durable database leads to `check` exactly the servers that were under way),
`Built` (the service from its creation, both from the start of the pod, and, with a durable
database, as long as a pod runs), `Cleared` (neither, before they are built,
unless a cleanup was cut short). `StepInv` shows that each action keeps it, with one
step per action: what the action does to its own user's objects comes from
`OwnObject`, and that it leaves the others' alone from `OthersKept`, which is
where `NamesDiffer` is used. The refinement needs `SpawnInv` for one thing only:
that a server goes to `running` only with its endpoint in place.

`OAuthLogin_proofs` proves, for any tabs, browsers, users, members and number of
logins, from the assumptions named in `OAuthLogin` (`BrowserOf` gives a tab a
browser, `Nobody` is no user and no browser, members are users):

* `TypeCorrect`, `AlwaysLoggedInAsBegun`, `AlwaysRedeemedAtHome`, from
  `HandshakeInv`. `LoggedInAsBegun` is about the end of a login. What leads there
  is that a tab at the provider holds a login of its own browser which nobody
  has approved (`PendingOwn`) and which no other tab holds there
  (`PendingAlone`), so an approval never changes the user of a login that is
  over; and that a browser holds and sends only states of its own logins
  (`CookieOwn`, `SentOwn`), so a state that agrees is the browser's.
* `MismatchNeedsALoss`, from `CrossInv` on top of it: a login is in its
  browser's cookie unless it is still to be put there or it was lost to it, by a response
  or by its expiry (`CookieKept`), and so it was sent with the callback (`SentKept`).

`TokenRefresh_proofs` proves, for any requests, overlapping as they may, any lifetime in whole
thirds, any patience of at most a third of it, any provider and any bounds:

* `TypeCorrect`.
* `BehindNeedsACrossing` (`BehindOnlyIfCrossed`). The invariant `BehindInv` rests on three facts: a
  request and the answer it holds are no older than `Patience` (`Clock`); what a request read
  of `auth_state` is still so if no other wrote beside it (`Undisturbed`); and then a renewed
  token is in the secret before it is saved (`SecretFirst`).
* `StaleNeedsACrossing` (`StaleOnlyIfCrossed`) carries that over to the pod. `RenewalDue` says that
  every `auth_state`, saved, on its way or being looked at, falls due within two thirds
  of its token's life and `Patience` (it is made up to `Patience` after the token was issued),
  which is no more than the token's life: a session found not yet due has a valid token.
* `AlwaysRenewable` (`SessionRenewable`). A new refresh token that is on its way is with one
  request, and no other has read it (`InOneHand`); the provider takes it (`TokenTaken`). So
  of two requests with one old token the provider answers one, and the other has nothing to put back.

`WorkerBringup_proofs` proves `TypeCorrect` and `AlwaysReachable` for any number
of rounds. `Waited` is the strengthening: past the wait, either both ports were
read or the rounds are used up; with `SeenInAd` (HTCondor takes no port back) the
later reads for the command meet the same ports.

`JobPipeline_proofs` proves `NewestAlwaysConnects` for any securities, layouts,
ports and number of constructor calls: the constructor counts itself before it can
raise, so a setting left behind by a failure is never that of the newest cluster
(`NewestInv`), and the link is the one it set last. `AlwaysArmed`: `ArmedInv` follows the two files from the
cluster (`ClustersArmed`) through the job (`JobArmed`) to the command
(`CommandArmed`). `TypeCorrect` and `AlwaysReachable` instantiate `WorkerBringup_proofs`
for the entrypoint of the pipeline's job (`SameEntrypoint`): its invariant is kept by
its own steps, as proved there, and by everything else since it does not look at the
files that arrive with a job (`OutsideStep`).

`WorkerNode_proofs` proves all five properties for any threads, ports, versions,
files and number of registrations, from `NodeAssumption` (no port and no version is the
absent one; each version has its files and inputs). For the debugger (`DebugInv`): an open port has either the flag or a task about to
set it (`PortOwned`), so a task that finds the flag down over an open port meets that task (`Crossed`).
For the plugin: `RegisteredInv` follows the registered version from the extracted files to the
installed and the imported ones; `ArchivesCounted` and `RemovedInv` account for what is
left, the latter of packages that are `named`. `StepFits` ties the nanny's step to its registration, which all of them need.

`Sessions_proofs` proves `TypeCorrect`, `OnlyOwnSession`, `TokensAccepted`,
`OnlyTheGoneTurnAway` and `OnlySuitedServed` for any users, arguments and bounds, from the assumptions `NamesDiffer`
(no two users' names are escaped to one text) and `PoolPasswordAssumption` (a password is
bytes). Certificates stand for a session: two spawns' make a connection only if they are the
same (`TrustedIsOwn`, from the fact that every call has keys of its own), and a running
server's secret, its cluster, and the files of its jobs hold those of the server's own spawn,
as `IInv` says. Hence whoever is at the address, only the own scheduler takes the worker.
`TokensAccepted` is about `generate_condor`: scrambling twice is the password again
(`ScrambledTwice`).

`OnlyTheGoneTurnAway` (that is, `TurnedAwayOnlyIfGone`) and `OnlySuitedServed`
(`ServedOnlyIfSuited`) are about the last step of a worker, for any arguments that `Kwargs`
allows, and `WayInv` follows the address that it is given from the spawn to there: a
running server has its route, unless another name is cut to the same (`RoutedInv`); a cluster's
configuration is what `_modify_job_kwargs` makes of its arguments in the environment of its
server (`ConfiguredInv`); a job has the address that its cluster was configured with
(`AddressedInv`), it has its session's certificates if the cluster is suited, and if it has any
its cluster's directives named them (`SpooledInv`). What the dictionaries of `JobConfig` come to is
`ConfigFacts`, and what that means for the certificates `SecuredFacts` and `CarryFacts`. `Led` says where an
address leads that a cluster of these arguments gives to its jobs; with it, a scheduler that takes a
worker of its own session is that of a suited cluster (`JoinedSuited`), and that of a suited
cluster takes it (`SuitedAnswered`).

`ChunkedRun_proofs` proves `EveryChunkOnce` and, from it, `ReturnIsComplete` for any jobs,
workers and number of losses: `ExactlyOnce` is all but inductive, and needs beside it only
that what workers hold and accumulators cover are chunks of the job (`Shape`). What a
`process` method makes of a chunk does not matter to it. `ResultOfTheSum` is `ResultIsSum`:
each accumulator in memory is the sum over the chunks that it covers (`SummedInv`), which two
that cover different chunks keep when they are added.

`CuttingDoesNotShow` is `ChunkingIrrelevant` for eleven notebooks, `ByEvent`: `example1` to
`example7`, `zpeak_example`, `ttbar_HT`, `analysis_tutorial` and the template. It holds for
any fileset of finitely many datasets, of any length, cut in any way and processed by any
workers (`FilesetOf`); of the events it asks that their jets and leptons are arrays
(`Readable`), and of `Post` that it is what the notebooks have (`PostIsOurs`). Its argument:

* What a `process` method makes of two arrays of events, one behind the other, is the sum of
  what it makes of each (`Summed`), but for the count of chunks that `example1` keeps: one
  lemma per notebook, `Example1Summed` to `TemplateSummed`. They rest on the operations of
  `Columnar`: an operation on every element, flattening and a mask by a property of the
  element keep two parts one behind the other (`JoinedEach`, `JoinedFlat`, `JoinedKept`), and
  a histogram and a counter add up over them (`SummedFill`, `SummedLen`).
* So the chunks of a dataset add up to the dataset, and those of a fileset to its datasets
  (`Sliced`, `CutSum`), by induction on the number of chunks and of datasets.
* With `ResultOfTheSum` that is the result (`CuttingShows`).

The same theorem is about the twelfth, the tHq analysis (`SignalJob`), which does not treat
an event at a time: it decides by its chunk whether to look for pairs and for triples of
leptons, it chooses the leptons of a channel by one mask and the jets by another, and it
takes the i-th of all forward jets for the i-th event. Of its events it asks `Measured`: etas
are integers, and flavours are what lines 386-389 set. Its argument:

* Of two tight leptons the sum of the flavours says how many are muons (`FlavorsOfTwo`), so
  that the two masks of a channel choose the same events (`ChannelRows`).
* Each of them has a light jet, so that it has one forward jet, and the i-th of all is the
  i-th event's (`OutputsRows`): the channel fills columns of its events
  (`ChannelHistograms`), which add up as those of the others do (`ChannelSummed`).
* A chunk that skips the pairs, or the triples, has no event that passes the cuts of that
  part (`SkippedEmpty`), which counts and fills nothing without them (`PartsNothing`); so two
  parts add up to the whole whichever of the three skip it (`SignalSummed`).

`CountersOfARun` is `CutflowAgrees`, for the same notebooks and filesets whose chunks are numbered
from one. It asks one thing more of the events of `example7` (`BothKinds`): an event with a jet above
30 has a muon and an electron above 10. Without it an element of the mask is None, which
`ak.num` counts among the final jets and not among the jet-lepton pairs, so that the two counters
differ. Its argument:

* What is counted, and how many entries a histogram has, adds up (`SumHolds`); so the counters of
  a sum agree if those of both parts do (`FineSum`), and by `Example1Summed` to `SignalSummed` it
  is enough to look at one event (`FromNone`), and then at one chunk (`ChunksFine`).
* For one event, a mask leaves as many elements of every array of its length (`SameMask`,
  `SameRows`).
* `postprocess` takes a sum to the sum of what it makes of the parts (`PostSum`), and every
  entry of a dataset to one for each group the dataset is in (`FillSignal`).
* In the analysis an event of a channel gives each histogram of an event one entry, and those of a
  pair of its jets one at most (`ChannelEven`): this is where it matters that leptons and jets
  are the same events. A dilepton event is in one of the three channels (`OneChannel`).

`DescriptionOfARun` is `AsDescribed` for nine notebooks (`Shown`: `example1` to `example7`,
`zpeak_example` and `ttbar_HT`) and, without a histogram to look at, the template. Of the events
it asks that no pt and no mass of a jet is below zero, that the other numbers are numbers and
that a lepton has a charge of one or minus one (`Particles`), and `BothKinds` for `example7`. Both
sides, the code's folds over arrays and the text's sets of indices, give bags of entries, and
the argument follows the data:

* Of one event: a mask lists the indices that pass it, each once (`KeptListed`), `SetToSeq` lists
  a set (`SetListed`), and two lists of a set fill a histogram alike (`ListsSame`, `FillSame`); a sum
  over an array is that over the indices, both counted in units (`TotalUnits`, `PtUnits`,
  `KeptTotal`); the pairs of an array are two indices in order (`PairsHave`), its triples the sets
  of three of its indices, each once (`GivesTriples`, `ThreesListed`), so that the triples closest to the
  top's mass are the same (`TrijetsListed`); the nearest lepton is far if every lepton is
  (`LeastAbove`). With these, `Example1Told` to `TtbarTold` say that what `process` fills of an event
  is what the notebook says of it (`Shows`).
* Of a dataset: what is said of events adds up as what is filled does (`SaidAdds`), so that they
  agree on all events of a dataset (`DatasetTold`).
* Of a fileset and a run: the datasets add up (`FilesetTold`), the cut does not show (`JobSums`), and
  the result is the sum (`Running`).

Inductions go through `FromZero`, which is about a set of numbers, since the theorem of the
library is about an operator and cannot be instantiated here. Flattening is defined by a
recursive function; `FlattenExists` shows that its equation has one solution for each length, and
`FlattenAppend` and `FlattenBoth` what follows. `MCGallery` has TLC evaluate that its cuts are
cuts in the sense of the theorem (`CutsAssumption`), and that its events are such as the
theorem asks (`ParticlesAssumption`).

Left to TLC: `SpawnSettles`, `BringupEnds`, `TabsAnswered`, `WorkersReleased`, `SidecarComes` and
`Ends` (liveness, which TLAPS does not reach); `ChunkingIrrelevant` for the two other
notebooks, of which `example8` violates it (`gallery_chunks`) and `coffea_analysis` goes
through the functions that `AgcSchema` merges key by key; and `AsDescribed` for `example8`,
`coffea_analysis`, `analysis_tutorial` and the tHq analysis, which choose among leptons of two
kinds or fill several histograms; `analysis_tutorial` violates it with four loose leptons
(above).

## Not modelled

* The notebook's start script, the images, the chart's templates, CI and docs have no
  state that a model would add to; `start*.py` are Jupyter's.
* The patches to distributed change a few lines of a library that is not in the
  repository, and TaskVine's script writes one submit file.
* Cryptography and its validity periods (a year, against sessions of days); the
  directives a user overrides other than the three above; the packages a worker
  installs as it comes up.
* The address to go to after a login (`get_state`), the hub's roles, the templates.
* Of the notebooks: plots, cells that show intermediate arrays, the download of files,
  and the columns no cut looks at. `ttbar_HT`'s `produce_all_histograms` gathers one run
  for each dataset, of which the notebook has one.

## Plan

Done so far, in this order: `UserServer` and `SpawnHooks`, `TokenRefresh`,
`WorkerBringup`, `ClusterConfig` and `JobPipeline`, `OAuthLogin`, `WorkerNode`; then the
gallery (`Columnar` to `Gallery`) and the sessions (`UserNames` to `Sessions`), with a
module of proofs for each of the machines. What is left:

1. `HubSession`: `SpawnHooks` and `TokenRefresh` composed, the secret being the
   state they share.
2. `ScaleDown`: jobs, worker names and retirement by name (patch 0001).
3. The date tag of two pushes at once (`autotag.yaml`).
4. Proofs: `ChunkingIrrelevant` for `coffea_analysis`; `AsDescribed` for the notebooks
   that `Shown` leaves out and that satisfy it.
