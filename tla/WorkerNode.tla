------------------------------ MODULE WorkerNode ------------------------------
(***************************************************************************)
(* The node of a worker that WorkerBringup has launched: a nanny, and the  *)
(* worker process it keeps. Tasks, on the threads of the worker, start the *)
(* debugger (coffea_casa/remote_debug.py); the nanny sets up and tears     *)
(* down the package a user registers (coffea_casa/plugin.py) and restarts  *)
(* the worker under its tasks. Registrations come one after the other. The *)
(* nanny runs one handler at a time and pip inside it; tasks, HTCondor and *)
(* the worker's end do not wait for it.                                    *)
(***************************************************************************)
EXTENDS Naturals

CONSTANTS
    Threads,     \* of the worker: cc_worker_cpus
    Ports,       \* tcp_port, as tasks pass it (8001 by default)
    NannyPort,   \* nanny_ContainerPort, where --nanny-port makes the nanny listen
    Versions,    \* of the package that is registered
    Files,       \* of the package
    Contents,    \* the files of each version
    Extras,      \* names of extra inputs
    InputsOf,    \* the extra inputs registered with each version
    Hidden,      \* versions kept in a directory below one named like a skip word
    Regs         \* registrations in a session

NoPort == 0
Absent == 0

ASSUME NodeAssumption ==
    /\ NoPort \notin Ports
    /\ Absent \notin Versions
    /\ Contents \in [Versions -> SUBSET Files]
    /\ InputsOf \in [Versions -> SUBSET Extras]
    /\ Regs \in Nat

\* Which version each file of the package is of, in a directory.
Trees   == [Files -> Versions \cup {Absent}]
NoFiles == [f \in Files |-> Absent]

Plugins  == [version : Versions, restart : BOOLEAN, path : BOOLEAN]
NoPlugin == [version |-> Absent, restart |-> FALSE, path |-> FALSE]

\* nanny_HostPort in the job ad.
AdPorts == {"missing", "undefined", "forwarded"}

VARIABLES
    named,       \* the package's distribution has the name of its directory
    ad,          \* nanny_HostPort
    up,          \* the worker process is there
    listening,   \* _already_listening
    socket,      \* the port debugpy listens at
    pc,          \* the line of start_remote_debugger at which a thread's task is
    port,        \* its tcp_port
    crossed,     \* history: another task was between lines 78 and 80 meanwhile
    onPath,      \* the extracted package is on the worker's sys.path
    imported,    \* what the worker has imported of the package
    nanny,       \* the step of the plugin at which the nanny is
    plugin,      \* what was registered last, if anything was
    regs,        \* how often
    outcome,     \* how its set-up went; "removed" when it is registered no more
    failed,      \* history: some step of a plugin has failed
    zips,        \* archives in the local directory
    local,       \* the package as extracted there
    inputs,      \* the extra inputs there
    installed,   \* the package as installed
    nannyPath    \* the extracted package is on the nanny's sys.path

debugVars  == <<listening, socket, pc, port, crossed>>
workerVars == <<up, onPath, imported, debugVars>>
diskVars   == <<zips, local, inputs, installed, nannyPath>>
nannyVars  == <<nanny, plugin, regs, outcome, failed, diskVars>>
vars       == <<named, ad, workerVars, nannyVars>>

Calls == {"idle", "look", "listen", "set", "wait", "unshown", "refused"}
Steps == {"idle", "write", "extract", "install", "clean", "restart", "remove",
          "uninstall"}

TypeOK ==
    /\ named \in BOOLEAN
    /\ ad \in AdPorts
    /\ up \in BOOLEAN
    /\ listening \in BOOLEAN
    /\ socket \in Ports \cup {NoPort}
    /\ pc \in [Threads -> Calls]
    /\ port \in [Threads -> Ports \cup {NoPort}]
    /\ crossed \in [Threads -> BOOLEAN]
    /\ onPath \in BOOLEAN /\ nannyPath \in BOOLEAN
    /\ imported \in Trees /\ local \in Trees /\ installed \in Trees
    /\ nanny \in Steps
    /\ plugin \in Plugins \cup {NoPlugin}
    /\ regs \in 0..Regs
    /\ outcome \in {"ok", "failed", "raised", "removed"}
    /\ failed \in BOOLEAN
    /\ zips \in 0..regs
    /\ inputs \subseteq Extras

Init ==
    /\ named \in BOOLEAN
    /\ ad = "missing"
    /\ up = TRUE /\ onPath = FALSE /\ imported = NoFiles
    /\ listening = FALSE /\ socket = NoPort
    /\ pc = [t \in Threads |-> "idle"]
    /\ port = [t \in Threads |-> NoPort]
    /\ crossed = [t \in Threads |-> FALSE]
    /\ nanny = "idle" /\ plugin = NoPlugin /\ regs = 0
    /\ outcome = "removed" /\ failed = FALSE
    /\ zips = 0 /\ local = NoFiles /\ inputs = {} /\ installed = NoFiles
    /\ nannyPath = FALSE

-----------------------------------------------------------------------------
(* HTCondor and the worker process *)

UpdateAd ==
    /\ ad # "forwarded"
    /\ ad' \in AdPorts \ {ad, "missing"}
    /\ UNCHANGED <<named, workerVars, nannyVars>>

\* A process that ends takes its tasks, its modules' globals and its ports with it.
ProcessEnds ==
    /\ imported' = NoFiles
    /\ listening' = FALSE /\ socket' = NoPort
    /\ pc' = [t \in Threads |-> "idle"]
    /\ port' = [t \in Threads |-> NoPort]
    /\ crossed' = [t \in Threads |-> FALSE]

WorkerDies ==
    /\ up
    /\ up' = FALSE /\ ProcessEnds
    /\ UNCHANGED <<named, ad, onPath, nannyVars>>

\* A new process has the sys.path of the nanny.
StartWorker ==
    /\ ~up /\ nanny = "idle"
    /\ up' = TRUE /\ onPath' = nannyPath
    /\ UNCHANGED <<named, ad, debugVars, imported, nannyVars>>

-----------------------------------------------------------------------------
(* start_remote_debugger *)

debugRest == <<named, ad, up, onPath, imported, nannyVars>>

\* grep finds no line, or int() none that it can read: both raise.
Unset == ad \in {"missing", "undefined"}

\* vscode_debug_config_on_worker, whose answer is printed before anything is begun.
ShowConfig(t, p) ==
    /\ up /\ pc[t] = "idle"
    /\ pc' = [pc EXCEPT ![t] = IF Unset THEN "unshown" ELSE "look"]
    /\ port' = [port EXCEPT ![t] = p]
    /\ crossed' = [crossed EXCEPT ![t] = FALSE]
    /\ UNCHANGED <<debugRest, listening, socket>>

\* The other tasks that have found the flag down and not yet put it up.
Crossing(t) == {u \in Threads \ {t} : pc[u] \in {"listen", "set"}}

\* Mutant: the flag is put up before the port is opened.
LookMarking(t) ==
    /\ pc[t] = "look"
    /\ pc' = [pc EXCEPT ![t] = IF listening THEN "wait" ELSE "listen"]
    /\ listening' = TRUE
    /\ UNCHANGED <<debugRest, socket, port, crossed>>

\* Mutant: the flag is not looked at.
LookAway(t) ==
    /\ pc[t] = "look"
    /\ pc' = [pc EXCEPT ![t] = "listen"]
    /\ crossed' = [u \in Threads |-> \/ crossed[u]
                                     \/ u \in Crossing(t)
                                     \/ u = t /\ Crossing(t) # {}]
    /\ UNCHANGED <<debugRest, listening, socket, port>>

Look(t) ==
    /\ pc[t] = "look"
    /\ \/ /\ listening
          /\ pc' = [pc EXCEPT ![t] = "wait"]
          /\ crossed' = crossed
       \/ /\ ~listening
          /\ pc' = [pc EXCEPT ![t] = "listen"]
          /\ crossed' = [u \in Threads |-> \/ crossed[u]
                                           \/ u \in Crossing(t)
                                           \/ u = t /\ Crossing(t) # {}]
    /\ UNCHANGED <<debugRest, listening, socket, port>>

\* debugpy.listen raises when the process listens already, or the port is taken.
Listen(t) ==
    /\ pc[t] = "listen"
    /\ \/ /\ socket = NoPort /\ port[t] # NannyPort
          /\ socket' = port[t]
          /\ pc' = [pc EXCEPT ![t] = "set"]
       \/ /\ socket # NoPort \/ port[t] = NannyPort
          /\ socket' = socket
          /\ pc' = [pc EXCEPT ![t] = "refused"]
    /\ UNCHANGED <<debugRest, listening, port, crossed>>

SetListening(t) ==
    /\ pc[t] = "set"
    /\ listening' = TRUE
    /\ pc' = [pc EXCEPT ![t] = "wait"]
    /\ UNCHANGED <<debugRest, socket, port, crossed>>

\* wait_for_client is over once the user's client has come, for which the port must be
\* open; a call that raised is over at once.
Return(t) ==
    /\ pc[t] \in {"unshown", "refused"} \/ (pc[t] = "wait" /\ socket # NoPort)
    /\ pc' = [pc EXCEPT ![t] = "idle"]
    /\ UNCHANGED <<debugRest, listening, socket, port, crossed>>

\* A task imports the package: from its extracted files if these are on the path.
Import ==
    LET tree == IF onPath /\ local # NoFiles THEN local ELSE installed
    IN  /\ up /\ imported = NoFiles /\ tree # NoFiles
        /\ imported' = tree
        /\ UNCHANGED <<named, ad, up, onPath, debugVars, nannyVars>>

-----------------------------------------------------------------------------
(* DistributedEnvironmentPlugin *)

NannyAt(step, next) == nanny = step /\ nanny' = next

\* A step that raises ends the handler.
Raise(step) ==
    /\ NannyAt(step, "idle")
    /\ failed' = TRUE

\* The archive the constructor builds: a skip word in the path of the package itself
\* leaves out every file of it; extra inputs are never left out.
Shipped(v) == IF v \in Hidden THEN {} ELSE Contents[v]

Register(p) ==
    /\ NannyAt("idle", "write")
    /\ regs < Regs
    /\ plugin' = p /\ regs' = regs + 1 /\ outcome' = "ok"
    /\ UNCHANGED <<named, ad, workerVars, failed, diskVars>>

Write ==
    /\ \/ NannyAt("write", "extract") /\ UNCHANGED <<outcome, failed>>
       \/ Raise("write") /\ outcome' = "raised"
    /\ zips' = zips + 1
    /\ UNCHANGED <<named, ad, workerVars, plugin, regs, local, inputs, installed>>
    /\ UNCHANGED nannyPath

\* The files of fs come from the archive; those of an earlier version stay.
Unpack(fs, is) ==
    /\ local' = [f \in Files |-> IF f \in fs THEN plugin.version ELSE local[f]]
    /\ inputs' = inputs \cup is

\* Mutant: a file that is there already is not written again.
ExtractNew ==
    /\ NannyAt("extract", "install")
    /\ Unpack({f \in Shipped(plugin.version) : local[f] = Absent},
              InputsOf[plugin.version])
    /\ nannyPath' = (nannyPath \/ plugin.path)
    /\ UNCHANGED <<named, ad, workerVars, plugin, regs, outcome, failed, zips, installed>>

\* extractall, which may fail half way, and the paths.
Extract ==
    /\ \/ /\ NannyAt("extract", "install")
          /\ Unpack(Shipped(plugin.version), InputsOf[plugin.version])
          /\ nannyPath' = (nannyPath \/ plugin.path)
          /\ UNCHANGED <<outcome, failed>>
       \/ /\ Raise("extract") /\ outcome' = "raised"
          /\ \E fs \in SUBSET Shipped(plugin.version) :
                \E is \in SUBSET InputsOf[plugin.version] : Unpack(fs, is)
          /\ nannyPath' = nannyPath
    /\ UNCHANGED <<named, ad, workerVars, plugin, regs, zips, installed>>

\* After a set-up that did not raise, the nanny restarts the worker if asked to.
AfterSetup == IF plugin.restart THEN "restart" ELSE "idle"

Install ==
    /\ NannyAt("install", "clean")
    /\ local # NoFiles
    /\ installed' = local
    /\ UNCHANGED <<named, ad, workerVars, plugin, regs, outcome, failed, zips, local>>
    /\ UNCHANGED <<inputs, nannyPath>>

\* Mutant: the set-up is begun again.
InstallRetried ==
    /\ NannyAt("install", "write")
    /\ UNCHANGED <<named, ad, workerVars, plugin, regs, outcome, failed, diskVars>>

\* pip failed: this is logged, and the archive stays.
InstallFails ==
    /\ NannyAt("install", AfterSetup)
    /\ outcome' = "failed" /\ failed' = TRUE
    /\ UNCHANGED <<named, ad, workerVars, plugin, regs, diskVars>>

\* Mutant: the archive is not removed.
CleanNothing ==
    /\ NannyAt("clean", AfterSetup)
    /\ UNCHANGED <<named, ad, workerVars, plugin, regs, outcome, failed, diskVars>>

Clean ==
    /\ NannyAt("clean", AfterSetup)
    /\ zips' = zips - 1
    /\ UNCHANGED <<named, ad, workerVars, plugin, regs, outcome, failed, local, inputs>>
    /\ UNCHANGED <<installed, nannyPath>>

RestartWorker ==
    /\ NannyAt("restart", "idle")
    /\ up' = TRUE /\ onPath' = nannyPath /\ ProcessEnds
    /\ UNCHANGED <<named, ad, plugin, regs, outcome, failed, diskVars>>

Unregister ==
    /\ NannyAt("idle", "remove")
    /\ outcome # "removed"
    /\ outcome' = "removed"
    /\ UNCHANGED <<named, ad, workerVars, plugin, regs, failed, diskVars>>

\* os.remove raises at the first extra input that is not there.
Remove ==
    LET mine == InputsOf[plugin.version]
    IN  /\ \/ /\ NannyAt("remove", "uninstall")
              /\ mine \subseteq inputs
              /\ inputs' = inputs \ mine
              /\ UNCHANGED <<outcome, failed>>
           \/ /\ Raise("remove") /\ outcome' = outcome
              /\ ~(mine \subseteq inputs)
              /\ \E is \in SUBSET (mine \cap inputs) : inputs' = inputs \ is
        /\ UNCHANGED <<named, ad, workerVars, plugin, regs, zips, local, installed>>
        /\ UNCHANGED nannyPath

\* pip is given the directory's name: it finds no distribution so called, says so and is
\* content, if setup.py gives the package another.
Uninstall ==
    /\ NannyAt("uninstall", "idle")
    /\ \/ installed' = (IF named THEN NoFiles ELSE installed) /\ failed' = failed
       \/ installed' = installed /\ failed' = TRUE
    /\ UNCHANGED <<named, ad, workerVars, plugin, regs, outcome, zips, local, inputs>>
    /\ UNCHANGED nannyPath

-----------------------------------------------------------------------------
Debugger ==
    \/ \E t \in Threads, p \in Ports : ShowConfig(t, p)
    \/ \E t \in Threads : Look(t) \/ Listen(t) \/ SetListening(t) \/ Return(t)

Plugin ==
    \/ \E p \in Plugins : Register(p)
    \/ Write \/ Extract \/ Install \/ InstallFails \/ Clean \/ RestartWorker
    \/ Unregister \/ Remove \/ Uninstall

Next == Debugger \/ Plugin \/ Import \/ UpdateAd \/ WorkerDies \/ StartWorker

Spec == Init /\ [][Next]_vars

-----------------------------------------------------------------------------
(* Properties *)

\* A task that waits for a client waits at a port that is open in its process,
\* however calls, failures and restarts of the worker interleave.
WaitsAtAPort == \A t \in Threads : pc[t] = "wait" => socket # NoPort

\* The flag does what a lock would, but for the lines from its test to its setting:
\* debugpy refuses a task only because the nanny has the port, or because another task
\* was at those lines at the same time.
RefusedOnlyIfCrossed ==
    \A t \in Threads : pc[t] = "refused" => port[t] = NannyPort \/ crossed[t]

\* Once a registration that asks for a restart has been carried out without an error,
\* a worker that has imported the package has every file of it from that version,
\* whatever was installed, extracted and imported before. A package below a directory
\* named like a skip word is not so lucky: nothing of it is shipped, and pip is content
\* with an earlier version.
WorkerRunsRegistered ==
    /\ nanny = "idle" /\ outcome = "ok"
    /\ plugin.restart /\ plugin.version \notin Hidden
    /\ imported # NoFiles
    => \A f \in Contents[plugin.version] : imported[f] = plugin.version

\* While no step fails, nothing is left behind: no archive when the nanny is through, and
\* no installed package after the last teardown, if it goes by its directory's name.
NothingLeftUnlessFailed ==
    nanny = "idle" /\ ~failed =>
        zips = 0 /\ (outcome = "removed" /\ named => installed = NoFiles)
=============================================================================
