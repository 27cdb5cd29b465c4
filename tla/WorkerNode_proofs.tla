-------------------------- MODULE WorkerNode_proofs --------------------------
(* Theorems of WorkerNode, for any threads, ports, package and registrations. *)
EXTENDS WorkerNode, TLAPS

Section == {"listen", "set"}   \* the lines from the flag's test to its setting

\* The flag is up only over an open port, and so are the tasks that are past it.
FlagBehindPort ==
    /\ listening => socket # NoPort
    /\ \A t \in Threads : pc[t] \in {"set", "wait"} => socket # NoPort

\* An open port without the flag is that of a task about to put the flag up.
PortOwned == socket # NoPort => listening \/ \E u \in Threads : pc[u] = "set"

\* Two tasks in the section know of each other, and one that comes late is one of two.
Crossed ==
    /\ \A t, u \in Threads : t # u /\ pc[t] \in Section /\ pc[u] \in Section => crossed[t]
    /\ \A t \in Threads : pc[t] = "listen" /\ socket # NoPort => crossed[t]

\* A task that has called has said at which port.
PortKnown == \A t \in Threads : pc[t] # "idle" => port[t] \in Ports

DebugInv == PortKnown /\ FlagBehindPort /\ PortOwned /\ Crossed /\ RefusedOnlyIfCrossed

-----------------------------------------------------------------------------
SettingUp == {"write", "extract", "install", "clean"}
Removing  == {"remove", "uninstall"}

\* What the step of the nanny says of the registration.
StepFits ==
    /\ nanny # "idle" \/ outcome # "removed" => plugin \in Plugins
    /\ nanny \in SettingUp => outcome = "ok"
    /\ nanny = "restart" => outcome \in {"ok", "failed"}
    /\ nanny \in Removing => outcome = "removed"

\* A set-up has one archive; those of earlier set-ups are at most as many.
ArchivesCounted ==
    /\ nanny = "write" => zips < regs
    /\ nanny \in {"extract", "install", "clean"} => zips > 0
    /\ ~failed => zips = IF nanny \in {"extract", "install", "clean"} THEN 1 ELSE 0

NodeInv == TypeOK /\ StepFits /\ ArchivesCounted

Whole(tree) == \A f \in Contents[plugin.version] : tree[f] = plugin.version

\* What is registered without an error is extracted, then installed, then alone imported.
RegisteredInv ==
    outcome = "ok" /\ plugin.version \notin Hidden =>
        /\ nanny \in {"install", "clean", "restart", "idle"} => Whole(local)
        /\ nanny \in {"clean", "restart", "idle"} => Whole(installed)
        /\ nanny = "idle" /\ plugin.restart /\ imported # NoFiles => Whole(imported)

\* Without a failure a teardown has uninstalled what was installed under its own name.
RemovedInv ==
    ~failed /\ nanny = "idle" /\ outcome = "removed" /\ named => installed = NoFiles

-----------------------------------------------------------------------------
\* A directory may hold nothing of the package.
LEMMA NoFilesTree == NoFiles \in Trees
  BY DEF NoFiles, Trees

\* The types and the nanny's bookkeeping hold of a new node.
LEMMA InitHolds == Init => NodeInv /\ RegisteredInv /\ RemovedInv
<1> SUFFICES ASSUME Init PROVE NodeInv /\ RegisteredInv /\ RemovedInv
  OBVIOUS
<1> USE NodeAssumption DEF Init
<1>1. TypeOK
  <2>1. local \in Trees /\ installed \in Trees /\ imported \in Trees
    BY NoFilesTree
  <2>2. /\ pc \in [Threads -> Calls]
        /\ port \in [Threads -> Ports \cup {NoPort}]
        /\ crossed \in [Threads -> BOOLEAN]
    BY DEF Calls
  <2>3. regs \in 0..Regs /\ zips \in 0..regs
    OBVIOUS
  <2> QED
    BY <2>1, <2>2, <2>3 DEF TypeOK, AdPorts, Steps
<1>2. StepFits /\ ArchivesCounted
  BY DEF StepFits, ArchivesCounted, SettingUp, Removing
<1>3. RegisteredInv /\ RemovedInv
  BY DEF RegisteredInv, RemovedInv
<1> QED
  BY <1>1, <1>2, <1>3 DEF NodeInv

\* No task has called the debugger yet.
LEMMA DebugInit == Init => DebugInv
  BY DEF Init, DebugInv, PortKnown, FlagBehindPort, PortOwned, Crossed,
     RefusedOnlyIfCrossed, Section

-----------------------------------------------------------------------------
\* Every action keeps the types and the nanny's bookkeeping.
LEMMA NodeStep == NodeInv /\ [Next]_vars => NodeInv'
<1> SUFFICES ASSUME NodeInv, [Next]_vars PROVE NodeInv'
  OBVIOUS
<1> USE NodeAssumption, NoFilesTree
     DEF NodeInv, TypeOK, StepFits, ArchivesCounted, AdPorts, Calls, Steps, SettingUp,
         Removing
<1>1. ASSUME NEW t \in Threads, NEW p \in Ports, ShowConfig(t, p) PROVE NodeInv'
  BY <1>1 DEF ShowConfig, debugRest, nannyVars, diskVars
<1>2. ASSUME NEW t \in Threads, Look(t) PROVE NodeInv'
  <2>1. CASE listening
    BY <1>2, <2>1 DEF Look, debugRest, nannyVars, diskVars
  <2>2. CASE ~listening
    <3>1. pc' \in [Threads -> Calls] /\ listening' = listening
      BY <1>2, <2>2 DEF Look
    <3>2. crossed' \in [Threads -> BOOLEAN]
      BY <1>2, <2>2, Zenon DEF Look
    <3> QED
      BY <1>2, <3>1, <3>2 DEF Look, debugRest, nannyVars, diskVars
  <2> QED
    BY <2>1, <2>2
<1>3. ASSUME NEW t \in Threads, Listen(t) PROVE NodeInv'
  BY <1>3 DEF Listen, debugRest, nannyVars, diskVars
<1>4. ASSUME NEW t \in Threads, SetListening(t) PROVE NodeInv'
  BY <1>4 DEF SetListening, debugRest, nannyVars, diskVars
<1>5. ASSUME NEW t \in Threads, Return(t) PROVE NodeInv'
  BY <1>5 DEF Return, debugRest, nannyVars, diskVars
<1>6. ASSUME Import PROVE NodeInv'
  BY <1>6 DEF Import, debugVars, nannyVars, diskVars
<1>7. ASSUME UpdateAd PROVE NodeInv'
  BY <1>7 DEF UpdateAd, workerVars, debugVars, nannyVars, diskVars
<1>8. ASSUME WorkerDies PROVE NodeInv'
  BY <1>8 DEF WorkerDies, ProcessEnds, nannyVars, diskVars
<1>9. ASSUME StartWorker PROVE NodeInv'
  BY <1>9 DEF StartWorker, debugVars, nannyVars, diskVars
<1>10. ASSUME NEW p \in Plugins, Register(p) PROVE NodeInv'
  BY <1>10 DEF Register, NannyAt, workerVars, debugVars, diskVars
<1>11. ASSUME Write PROVE NodeInv'
  <2>1. nanny = "write" /\ zips' = zips + 1 /\ zips' \in 0..regs
    BY <1>11 DEF Write, NannyAt, Raise
  <2>2. CASE nanny' = "extract" /\ UNCHANGED <<outcome, failed>>
    BY <1>11, <2>1, <2>2 DEF Write, workerVars, debugVars
  <2>3. CASE nanny' = "idle" /\ failed' = TRUE /\ outcome' = "raised"
    BY <1>11, <2>1, <2>3 DEF Write, workerVars, debugVars
  <2> QED
    BY <1>11, <2>2, <2>3 DEF Write, NannyAt, Raise
<1>12. ASSUME Extract PROVE NodeInv'
  <2>1. nanny = "extract" /\ plugin \in Plugins
    BY <1>12 DEF Extract, NannyAt, Raise
  <2>2. plugin.version \in Versions /\ plugin.path \in BOOLEAN
    BY <2>1 DEF Plugins
  <2>3. local' \in Trees /\ inputs' \subseteq Extras
    BY <1>12, <2>2 DEF Extract, Unpack, Trees
  <2>4. CASE /\ nanny' = "install" /\ nannyPath' = (nannyPath \/ plugin.path)
             /\ UNCHANGED <<outcome, failed>>
    BY <1>12, <2>1, <2>2, <2>3, <2>4 DEF Extract, workerVars, debugVars
  <2>5. CASE /\ nanny' = "idle" /\ nannyPath' = nannyPath
             /\ failed' = TRUE /\ outcome' = "raised"
    BY <1>12, <2>1, <2>3, <2>5 DEF Extract, workerVars, debugVars
  <2> QED
    BY <1>12, <2>4, <2>5 DEF Extract, NannyAt, Raise
<1>13. ASSUME Install PROVE NodeInv'
  BY <1>13 DEF Install, NannyAt, workerVars, debugVars, diskVars
<1>14. ASSUME InstallFails PROVE NodeInv'
  BY <1>14 DEF InstallFails, NannyAt, AfterSetup, workerVars, debugVars, diskVars
<1>15. ASSUME Clean PROVE NodeInv'
  BY <1>15 DEF Clean, NannyAt, AfterSetup, workerVars, debugVars, diskVars
<1>16. ASSUME RestartWorker PROVE NodeInv'
  BY <1>16 DEF RestartWorker, NannyAt, ProcessEnds, workerVars, debugVars, diskVars
<1>17. ASSUME Unregister PROVE NodeInv'
  BY <1>17 DEF Unregister, NannyAt, workerVars, debugVars, diskVars
<1>18. ASSUME Remove PROVE NodeInv'
  <2>1. inputs' \subseteq Extras /\ nanny = "remove"
    BY <1>18 DEF Remove, NannyAt, Raise
  <2>2. CASE nanny' = "uninstall" /\ UNCHANGED <<outcome, failed>>
    BY <1>18, <2>1, <2>2 DEF Remove, workerVars, debugVars
  <2>3. CASE nanny' = "idle" /\ failed' = TRUE /\ outcome' = outcome
    BY <1>18, <2>1, <2>3 DEF Remove, workerVars, debugVars
  <2> QED
    BY <1>18, <2>2, <2>3 DEF Remove, NannyAt, Raise
<1>19. ASSUME Uninstall PROVE NodeInv'
  <2>1. /\ installed' \in Trees /\ failed' \in BOOLEAN /\ (~failed' => ~failed)
        /\ nanny = "uninstall" /\ nanny' = "idle"
        /\ UNCHANGED <<named, ad, workerVars, plugin, regs, outcome, zips, local, inputs>>
        /\ UNCHANGED nannyPath
    BY <1>19 DEF Uninstall, NannyAt
  <2>2. TypeOK'
    BY <2>1 DEF workerVars, debugVars
  <2>3. StepFits' /\ ArchivesCounted'
    BY <2>1
  <2> QED
    BY <2>2, <2>3
<1>20. CASE UNCHANGED vars
  BY <1>20 DEF vars, workerVars, debugVars, nannyVars, diskVars
<1> QED
  BY <1>1, <1>2, <1>3, <1>4, <1>5, <1>6, <1>7, <1>8, <1>9, <1>10, <1>11, <1>12, <1>13,
     <1>14, <1>15, <1>16, <1>17, <1>18, <1>19, <1>20 DEF Next, Debugger, Plugin

-----------------------------------------------------------------------------
\* A step that leaves the debugger alone leaves its invariant.
LEMMA DebugUnchanged ==
  ASSUME DebugInv, UNCHANGED debugVars
  PROVE  DebugInv'
BY DEF debugVars, DebugInv, PortKnown, FlagBehindPort, PortOwned, Crossed,
   RefusedOnlyIfCrossed

\* A process that ends leaves no call and no port.
LEMMA DebugEnded ==
  ASSUME ProcessEnds
  PROVE  DebugInv'
BY DEF ProcessEnds, DebugInv, PortKnown, FlagBehindPort, PortOwned, Crossed,
   RefusedOnlyIfCrossed, Section

\* Every action keeps what the flag, the port and the tasks say of each other.
LEMMA DebugStep == TypeOK /\ DebugInv /\ [Next]_vars => DebugInv'
<1> SUFFICES ASSUME TypeOK, DebugInv, [Next]_vars PROVE DebugInv'
  OBVIOUS
<1> USE DEF DebugInv
<1>1. /\ pc \in [Threads -> Calls] /\ port \in [Threads -> Ports \cup {NoPort}]
      /\ crossed \in [Threads -> BOOLEAN] /\ NoPort \notin Ports
  BY NodeAssumption DEF TypeOK
<1>2. ASSUME NEW t \in Threads, NEW p \in Ports, ShowConfig(t, p)
      PROVE  DebugInv'
  <2>1. /\ pc[t] = "idle" /\ pc'[t] \in {"unshown", "look"} /\ port'[t] = p
        /\ \A u \in Threads \ {t} : /\ pc'[u] = pc[u] /\ port'[u] = port[u]
                                    /\ crossed'[u] = crossed[u]
        /\ UNCHANGED <<listening, socket>>
    BY <1>1, <1>2 DEF ShowConfig
  <2> QED
    BY <2>1
       DEF PortKnown, FlagBehindPort, PortOwned, Crossed, RefusedOnlyIfCrossed, Section
<1>3. ASSUME NEW t \in Threads, Look(t)
      PROVE  DebugInv'
  <2>1. /\ pc[t] = "look" /\ UNCHANGED <<listening, socket, port>>
        /\ \A u \in Threads \ {t} : pc'[u] = pc[u]
    BY <1>1, <1>3 DEF Look
  <2>2. CASE listening
    <3>1. pc'[t] = "wait" /\ crossed' = crossed
      BY <1>1, <1>3, <2>2 DEF Look
    <3> QED
      BY <2>1, <2>2, <3>1
         DEF PortKnown, FlagBehindPort, PortOwned, Crossed, RefusedOnlyIfCrossed, Section
  <2>3. CASE ~listening
    <3>1. pc'[t] = "listen"
      BY <1>1, <1>3, <2>3 DEF Look
    <3>2. \A u \in Threads : /\ crossed[u] => crossed'[u]
                             /\ u \in Crossing(t) => crossed'[u] /\ crossed'[t]
      BY <1>3, <2>3 DEF Look
    <3>3. \A u \in Threads \ {t} : pc[u] \in Section => u \in Crossing(t)
      BY DEF Crossing, Section
    <3>4. PortKnown' /\ FlagBehindPort' /\ PortOwned'
      BY <2>1, <3>1 DEF PortKnown, FlagBehindPort, PortOwned
    <3>5. Crossed'
      <4>1. ASSUME NEW u \in Threads, NEW w \in Threads, u # w,
                   pc'[u] \in Section, pc'[w] \in Section
            PROVE  crossed'[u]
        <5>1. CASE u = t
          BY <2>1, <3>2, <3>3, <4>1, <5>1
        <5>2. CASE u # t /\ w = t
          BY <2>1, <3>2, <3>3, <4>1, <5>2
        <5>3. CASE u # t /\ w # t
          BY <2>1, <3>2, <4>1, <5>3 DEF Crossed
        <5> QED
          BY <5>1, <5>2, <5>3
      <4>2. ASSUME NEW u \in Threads, pc'[u] = "listen", socket' # NoPort
            PROVE  crossed'[u]
        <5>1. PICK w \in Threads : pc[w] = "set"
          BY <2>1, <2>3, <4>2 DEF PortOwned
        <5>2. w # t /\ w \in Crossing(t)
          BY <2>1, <3>3, <5>1 DEF Section
        <5>3. CASE u = t
          BY <3>2, <5>2, <5>3
        <5>4. CASE u # t
          BY <2>1, <3>2, <4>2, <5>4 DEF Crossed
        <5> QED
          BY <5>3, <5>4
      <4> QED
        BY <4>1, <4>2 DEF Crossed
    <3>6. RefusedOnlyIfCrossed'
      BY <2>1, <3>1, <3>2 DEF RefusedOnlyIfCrossed
    <3> QED
      BY <3>4, <3>5, <3>6
  <2> QED
    BY <2>2, <2>3
<1>4. ASSUME NEW t \in Threads, Listen(t)
      PROVE  DebugInv'
  <2>1. /\ pc[t] = "listen" /\ UNCHANGED <<listening, port, crossed>>
        /\ \A u \in Threads \ {t} : pc'[u] = pc[u]
    BY <1>1, <1>4 DEF Listen
  <2>2. CASE socket = NoPort /\ port[t] # NannyPort
    <3>1. socket' = port[t] /\ pc'[t] = "set"
      BY <1>1, <1>4, <2>2 DEF Listen
    <3>2. port[t] # NoPort
      BY <1>1, <2>1 DEF PortKnown
    <3>3. \A u \in Threads \ {t} : pc[u] = "listen" => crossed[u]
      BY <2>1 DEF Crossed, Section
    <3> QED
      BY <2>1, <2>2, <3>1, <3>2, <3>3
         DEF PortKnown, FlagBehindPort, PortOwned, Crossed, RefusedOnlyIfCrossed, Section
  <2>3. CASE socket # NoPort \/ port[t] = NannyPort
    <3>1. socket' = socket /\ pc'[t] = "refused"
      BY <1>1, <1>4, <2>3 DEF Listen
    <3> QED
      BY <2>1, <2>3, <3>1
         DEF PortKnown, FlagBehindPort, PortOwned, Crossed, RefusedOnlyIfCrossed, Section
  <2> QED
    BY <2>2, <2>3
<1>5. ASSUME NEW t \in Threads, SetListening(t)
      PROVE  DebugInv'
  <2>1. /\ pc[t] = "set" /\ listening' /\ pc'[t] = "wait"
        /\ UNCHANGED <<socket, port, crossed>>
        /\ \A u \in Threads \ {t} : pc'[u] = pc[u]
    BY <1>1, <1>5 DEF SetListening
  <2> QED
    BY <2>1
       DEF PortKnown, FlagBehindPort, PortOwned, Crossed, RefusedOnlyIfCrossed, Section
<1>6. ASSUME NEW t \in Threads, Return(t)
      PROVE  DebugInv'
  <2>1. /\ pc[t] # "set" /\ pc'[t] = "idle"
        /\ UNCHANGED <<listening, socket, port, crossed>>
        /\ \A u \in Threads \ {t} : pc'[u] = pc[u]
    BY <1>1, <1>6 DEF Return
  <2> QED
    BY <2>1
       DEF PortKnown, FlagBehindPort, PortOwned, Crossed, RefusedOnlyIfCrossed, Section
<1>7. CASE WorkerDies \/ RestartWorker
  BY <1>7, DebugEnded DEF WorkerDies, RestartWorker
<1>8. CASE Import \/ UpdateAd \/ StartWorker
  BY <1>8, DebugUnchanged DEF Import, UpdateAd, StartWorker, workerVars
<1>9. ASSUME NEW p \in Plugins, Register(p)
      PROVE  DebugInv'
  BY <1>9, DebugUnchanged DEF Register, workerVars
<1>10. CASE Write \/ Extract \/ Install \/ InstallFails \/ Clean
  BY <1>10, DebugUnchanged DEF Write, Extract, Install, InstallFails, Clean, workerVars
<1>11. CASE Unregister \/ Remove \/ Uninstall
  BY <1>11, DebugUnchanged DEF Unregister, Remove, Uninstall, workerVars
<1>12. CASE UNCHANGED vars
  BY <1>12, DebugUnchanged DEF vars, workerVars
<1> QED
  BY <1>2, <1>3, <1>4, <1>5, <1>6, <1>7, <1>8, <1>9, <1>10, <1>11, <1>12
     DEF Next, Debugger, Plugin

-----------------------------------------------------------------------------
\* A step that changes nothing of the registration, its files or what is imported.
LEMMA PackageUnchanged ==
  ASSUME RegisteredInv, UNCHANGED <<nannyVars, imported>>
  PROVE  RegisteredInv'
BY DEF RegisteredInv, Whole, nannyVars, diskVars

\* Every action keeps the trace of what was registered.
LEMMA RegisteredStep == NodeInv /\ RegisteredInv /\ [Next]_vars => RegisteredInv'
<1> SUFFICES ASSUME NodeInv, RegisteredInv, [Next]_vars PROVE RegisteredInv'
  OBVIOUS
<1> USE NodeAssumption DEF NodeInv, StepFits, SettingUp, Removing
<1>1. CASE Debugger \/ UpdateAd \/ StartWorker
  BY <1>1, PackageUnchanged DEF Debugger, ShowConfig, Look, Listen, SetListening, Return,
     debugRest, UpdateAd, StartWorker, workerVars
<1>2. CASE UNCHANGED vars
  BY <1>2, PackageUnchanged DEF vars, workerVars
<1>3. CASE WorkerDies
  BY <1>3 DEF WorkerDies, ProcessEnds, RegisteredInv, Whole, nannyVars, diskVars
<1>4. CASE Import
  <2>1. imported' = local \/ imported' = installed
    BY <1>4 DEF Import
  <2> QED
    BY <1>4, <2>1 DEF Import, RegisteredInv, Whole, nannyVars, diskVars
<1>5. ASSUME NEW p \in Plugins, Register(p) PROVE RegisteredInv'
  BY <1>5 DEF Register, NannyAt, RegisteredInv
<1>6. CASE Write
  BY <1>6 DEF Write, NannyAt, Raise, RegisteredInv
<1>7. CASE Extract
  <2>1. CASE outcome' = "raised"
    BY <2>1 DEF RegisteredInv
  <2>2. CASE outcome' # "raised"
    <3>1. /\ nanny' = "install" /\ plugin' = plugin
          /\ Unpack(Shipped(plugin.version), InputsOf[plugin.version])
      BY <1>7, <2>2 DEF Extract, NannyAt
    <3>2. plugin.version \in Versions
      BY <1>7 DEF Extract, NannyAt, Raise, Plugins
    <3>3. plugin.version \notin Hidden => Whole(local)'
      BY <3>1, <3>2 DEF Unpack, Shipped, Whole
    <3> QED
      BY <3>1, <3>3 DEF RegisteredInv
  <2> QED
    BY <2>1, <2>2
<1>8. CASE Install
  BY <1>8 DEF Install, NannyAt, RegisteredInv, Whole
<1>9. CASE InstallFails
  BY <1>9 DEF InstallFails, RegisteredInv
<1>10. CASE Clean
  BY <1>10 DEF Clean, NannyAt, AfterSetup, RegisteredInv, Whole
<1>11. CASE RestartWorker
  BY <1>11 DEF RestartWorker, NannyAt, ProcessEnds, RegisteredInv, Whole, diskVars
<1>12. CASE Unregister
  BY <1>12 DEF Unregister, RegisteredInv
<1>13. CASE Remove \/ Uninstall
  BY <1>13 DEF Remove, Uninstall, NannyAt, Raise, RegisteredInv
<1> QED
  BY <1>1, <1>2, <1>3, <1>4, <1>5, <1>6, <1>7, <1>8, <1>9, <1>10, <1>11, <1>12, <1>13
     DEF Next, Plugin

\* Every action keeps the account of what a teardown leaves.
LEMMA RemovedStep == NodeInv /\ RemovedInv /\ [Next]_vars => RemovedInv'
<1> SUFFICES ASSUME NodeInv, RemovedInv, [Next]_vars PROVE RemovedInv'
  OBVIOUS
<1> USE DEF NodeInv, StepFits, SettingUp, Removing, RemovedInv
<1>1. CASE Debugger \/ Import \/ UpdateAd \/ WorkerDies \/ StartWorker \/ UNCHANGED vars
  BY <1>1 DEF Debugger, ShowConfig, Look, Listen, SetListening, Return, debugRest, Import,
     UpdateAd, WorkerDies, StartWorker, vars, nannyVars, diskVars
<1>2. ASSUME NEW p \in Plugins, Register(p) PROVE RemovedInv'
  BY <1>2 DEF Register
<1>3. CASE Write \/ Extract \/ Install \/ InstallFails
  BY <1>3 DEF Write, Extract, Install, InstallFails, NannyAt, Raise
<1>4. CASE Clean
  BY <1>4 DEF Clean, NannyAt
<1>5. CASE RestartWorker
  BY <1>5 DEF RestartWorker, NannyAt
<1>6. CASE Unregister \/ Remove
  BY <1>6 DEF Unregister, Remove, NannyAt, Raise
<1>7. CASE Uninstall
  BY <1>7 DEF Uninstall
<1> QED
  BY <1>1, <1>2, <1>3, <1>4, <1>5, <1>6, <1>7 DEF Next, Plugin

-----------------------------------------------------------------------------
\* The types hold, and the nanny's step fits its registration, in every state.
THEOREM NodeAlwaysFits == Spec => []NodeInv
  BY InitHolds, NodeStep, PTL DEF Spec

\* Every variable of a worker's node keeps its type.
THEOREM TypeCorrect == Spec => []TypeOK
<1>1. NodeInv => TypeOK
  BY DEF NodeInv
<1> QED
  BY <1>1, NodeAlwaysFits, PTL

\* The flag and debugpy's port never disagree with the tasks that rely on them
\* (remote_debug.py:77-82).
THEOREM DebuggerKept == Spec => []DebugInv
<1>1. NodeInv => TypeOK
  BY DEF NodeInv
<1> QED
  BY <1>1, DebugInit, DebugStep, NodeAlwaysFits, PTL DEF Spec

\* No task waits for a client at a port that is not open, for any number of threads.
THEOREM AlwaysWaitsAtAPort == Spec => []WaitsAtAPort
<1>1. DebugInv => WaitsAtAPort
  BY DEF DebugInv, FlagBehindPort, WaitsAtAPort
<1> QED
  BY <1>1, DebuggerKept, PTL

\* debugpy refuses a task only over the nanny's port or after a crossing.
THEOREM RefusalNeedsACrossing == Spec => []RefusedOnlyIfCrossed
<1>1. DebugInv => RefusedOnlyIfCrossed
  BY DEF DebugInv
<1> QED
  BY <1>1, DebuggerKept, PTL

\* A worker restarted by a set-up without errors runs the package that was registered.
THEOREM AlwaysRunsRegistered == Spec => []WorkerRunsRegistered
<1>1. RegisteredInv => WorkerRunsRegistered
  BY DEF RegisteredInv, Whole, WorkerRunsRegistered
<1> QED
  BY <1>1, InitHolds, RegisteredStep, NodeAlwaysFits, PTL DEF Spec

\* Set-ups and teardowns in which no step fails leave no archive, and no package that
\* goes by the name pip is given.
THEOREM LeavesNothing == Spec => []NothingLeftUnlessFailed
<1>1. NodeInv /\ RemovedInv => NothingLeftUnlessFailed
  BY DEF NodeInv, ArchivesCounted, RemovedInv, NothingLeftUnlessFailed
<1> QED
  BY <1>1, InitHolds, RemovedStep, NodeAlwaysFits, PTL DEF Spec
=============================================================================
