-------------------------- MODULE ServerLifecycle --------------------------
(***************************************************************************)
(* main() of a server: the command line, the start of the SDK with the     *)
(* configuration handler it calls back, the main loop, and the teardown    *)
(* of engines, thread pool, devices and SDK, while signals arrive and      *)
(* while the SDK's threads serve reads and writes of source variables.     *)
(*                                                                         *)
(* src/Server/src: main.cpp, BaseQuasarServer.cpp, shutdown.cpp and the    *)
(* OpcServer of each backend; src/AddressSpace: the dispatch of source     *)
(* variables.  The engines and the pool are modules of their own; here     *)
(* only whether they run matters.                                          *)
(*                                                                         *)
(* The mainLoop() and shutdown() a developer overrides are external:       *)
(* mainLoop() may throw a std::exception, and shutdown() is assumed to     *)
(* return.                                                                 *)
(***************************************************************************)
EXTENDS Integers, FiniteSets

CONSTANTS Requests,       \* reads and writes of source variables by clients
          Synchronous     \* the requests whose design says "synchronous"

ASSUME SynchronousAssumption == Synchronous \subseteq Requests

Backends == {"UATOOLKIT", "OPEN62541"}

\* The points of main() between two steps another thread can see.
Startup  == {"parse", "environment", "signals", "settings", "certificate", "start"}
Handler  == {"configure", "postConfigure", "startPubSub", "startFx", "abortFx",
             "abortPubSub", "handled", "check"}
Teardown == {"fxShutdown", "pubsubShutdown", "deletePool", "nullPool", "unlink",
             "stop", "delete"}
Points   == Startup \cup Handler \cup {"loop"} \cup Teardown \cup {"exit"}

EngineStates == {"off", "staged", "running"}
PoolStates   == {"none", "alive", "dying", "deleted"}
IoStates     == {"idle", "begun", "queued", "answered", "refused", "dropped", "stale"}

VARIABLES
  backend,      \* the backend the server was built for
  pc,           \* where main() is
  onlyCertificate,
  running,      \* g_RunningFlag
  signals,      \* RegisterSignalHandler was called
  failed,       \* m_configurationHandlerFailed
  code,         \* serverReturnCode, then what main() returns
  pubsub, fx,   \* the two engines
  pool,         \* the object sourceVariableThreads points to ...
  pointer,      \* ... and whether it is not null
  devices,      \* device objects are linked to the address space
  sdk,          \* the SDK's threads: "off", "serving", "ended"
  io            \* what became of each request

vars == <<backend, pc, onlyCertificate, running, signals, failed, code, pubsub, fx,
          pool, pointer, devices, sdk, io>>

engines == <<pubsub, fx>>
dispatch == <<pool, pointer, devices>>

TypeOK ==
  /\ backend \in Backends
  /\ pc \in Points
  /\ onlyCertificate \in BOOLEAN /\ running \in BOOLEAN /\ signals \in BOOLEAN
  /\ failed \in BOOLEAN
  /\ code \in {-1, 0, 1}
  /\ pubsub \in EngineStates /\ fx \in EngineStates
  /\ pool \in PoolStates /\ pointer \in BOOLEAN /\ devices \in BOOLEAN
  /\ sdk \in {"off", "serving", "ended"}
  /\ io \in [Requests -> IoStates]

Init ==
  /\ backend \in Backends
  /\ pc = "parse" /\ onlyCertificate = FALSE
  /\ running = TRUE /\ signals = FALSE /\ failed = FALSE /\ code = 0
  /\ pubsub = "off" /\ fx = "off"
  /\ pool = "none" /\ pointer = FALSE /\ devices = FALSE /\ sdk = "off"
  /\ io = [r \in Requests |-> "idle"]

-----------------------------------------------------------------------------
(* Before the SDK starts. *)

\* A step of main() that touches nothing but where main() is and what it returns.
Goes(from, to, result) ==
  /\ pc = from /\ pc' = to /\ code' = result
  /\ UNCHANGED <<backend, onlyCertificate, running, signals, failed, engines, dispatch,
                 sdk, io>>

\* The options: normal operation, or only a certificate ...
ParseCommandLine ==
  /\ pc = "parse" /\ pc' = "environment"
  /\ onlyCertificate' \in BOOLEAN
  /\ UNCHANGED <<backend, running, signals, failed, code, engines, dispatch, sdk, io>>

\* ... or help or a version (0), an unknown option (1), an unreadable own
\* path, whose exception main() reports as -1.
ParseEnds == \E result \in {0, 1, -1} : Goes("parse", "exit", result)

\* Only the UA toolkit's platform layer can fail to initialize; the own path
\* is read again, now inside startApplication's try.
InitializeEnvironment ==
  \/ Goes("environment", "signals", code)
  \/ Goes("environment", "exit", 1)
  \/ backend = "UATOOLKIT" /\ Goes("environment", "exit", -1)

RegisterSignalHandler ==
  /\ pc = "signals" /\ pc' = "settings" /\ signals' = TRUE
  /\ UNCHANGED <<backend, onlyCertificate, running, failed, code, engines, dispatch, sdk, io>>

SetServerConfig ==
  \/ Goes("settings", IF onlyCertificate THEN "certificate" ELSE "start", code)
  \/ backend = "UATOOLKIT" /\ Goes("settings", "exit", -1)

\* The UA toolkit creates a certificate or throws, to startApplication's
\* catch; open62541 cannot create one.
CreateCertificate ==
  \/ backend = "UATOOLKIT" /\ \E result \in {0, 1} : Goes("certificate", "exit", result)
  \/ backend = "OPEN62541" /\ Goes("certificate", "exit", -1)

-----------------------------------------------------------------------------
(* The start of the SDK and the configuration handler it calls back. *)

\* The SDK calls ASNodeManager::afterStartUp, or start() throws before that.
Start == \/ Goes("start", "configure", code)
         \/ Goes("start", "fxShutdown", 1)

\* configure() parses the configuration, creates devices, the thread pool
\* (through Meta) and stages the sections of the engines.
Configure ==
  /\ pc = "configure" /\ pc' = "postConfigure"
  /\ pool' = "alive" /\ pointer' = TRUE /\ devices' = TRUE
  /\ pubsub' \in {"off", "staged"} /\ fx' \in {"off", "staged"}
  /\ UNCHANGED <<backend, onlyCertificate, running, signals, failed, code, sdk, io>>

\* It returns false or throws at any point of that.
ConfigureFails ==
  /\ pc = "configure" /\ pc' = "handled" /\ failed' = TRUE
  /\ \/ UNCHANGED dispatch
     \/ devices' = TRUE /\ UNCHANGED <<pool, pointer>>
     \/ pool' = "alive" /\ pointer' = TRUE /\ devices' = TRUE
  /\ pubsub' \in {"off", "staged"} /\ fx' \in {"off", "staged"}
  /\ UNCHANGED <<backend, onlyCertificate, running, signals, code, sdk, io>>

\* validateDeviceTree, Meta, calculated variables and initialize() of the user.
PostConfigure ==
  /\ pc = "postConfigure"
  /\ \/ pc' = "startPubSub" /\ UNCHANGED failed
     \/ pc' = "handled" /\ failed' = TRUE
  /\ UNCHANGED <<backend, onlyCertificate, running, signals, code, engines, dispatch, sdk, io>>

\* The io thread is the last thing startIfStaged makes: when it throws no
\* thread runs.
StartPubSub ==
  /\ pc = "startPubSub"
  /\ \/ /\ pc' = "startFx" /\ UNCHANGED failed
        /\ pubsub' = IF pubsub = "staged" THEN "running" ELSE pubsub
     \/ pubsub = "staged" /\ pubsub' = "off" /\ pc' = "handled" /\ failed' = TRUE
  /\ UNCHANGED <<backend, onlyCertificate, running, signals, code, fx, dispatch, sdk, io>>

\* Fx needs the Pub/Sub io thread and starts it if no section did.
StartFx ==
  /\ pc = "startFx"
  /\ IF fx = "staged"
     THEN \/ fx' = "running" /\ pubsub' = "running" /\ pc' = "handled"
          \/ fx' = "off" /\ pc' = "abortFx" /\ pubsub' \in {pubsub, "running"}
     ELSE pc' = "handled" /\ UNCHANGED engines
  /\ UNCHANGED <<backend, onlyCertificate, running, signals, failed, code, dispatch, sdk, io>>

\* Engine::shutdown() of each engine, wherever it is called from.
StopsFx == fx' = IF fx = "running" THEN "off" ELSE fx
StopsPubSub == pubsub' = IF pubsub = "running" THEN "off" ELSE pubsub

AbortFx ==
  /\ pc = "abortFx" /\ pc' = "abortPubSub" /\ StopsFx
  /\ UNCHANGED <<backend, onlyCertificate, running, signals, failed, code, pubsub, dispatch,
                 sdk, io>>

AbortPubSub ==
  /\ pc = "abortPubSub" /\ pc' = "handled" /\ StopsPubSub /\ failed' = TRUE
  /\ UNCHANGED <<backend, onlyCertificate, running, signals, code, fx, dispatch, sdk, io>>

\* The handler is back in the SDK.  The UA toolkit fails on a bad status, or
\* on its own account, and start() throws.  open62541 ignores the status.
StartsServing ==
  /\ pc = "handled" /\ (backend = "UATOOLKIT" => ~failed)
  /\ pc' = "check" /\ sdk' = "serving"
  /\ UNCHANGED <<backend, onlyCertificate, running, signals, failed, code, engines, dispatch, io>>

\* Faulty variant of StartThrows: start() returns -1 on failure, as its comment says, and
\* serverRun's early return is taken.
StartReturnsError == backend = "UATOOLKIT" /\ Goes("handled", "exit", -1)

StartThrows == backend = "UATOOLKIT" /\ Goes("handled", "fxShutdown", 1)

\* Faulty variant of CheckHandler: the aborted start does not clear the flag.
AbortsWithoutShutDown ==
  /\ pc = "check" /\ code' = (IF failed THEN 1 ELSE code)
  /\ pc' = IF failed THEN "fxShutdown" ELSE "loop"
  /\ UNCHANGED <<backend, onlyCertificate, running, signals, failed, engines, dispatch, sdk, io>>

\* Faulty variant of CheckHandler: the failure of the handler is not looked at.
ServesAnyway == Goes("check", "loop", code)

\* serverRun looks at what the handler left.
CheckHandler ==
  /\ pc = "check"
  /\ IF failed THEN running' = FALSE /\ code' = 1 /\ pc' = "fxShutdown"
               ELSE pc' = "loop" /\ UNCHANGED <<running, code>>
  /\ UNCHANGED <<backend, onlyCertificate, signals, failed, engines, dispatch, sdk, io>>

-----------------------------------------------------------------------------
(* The main loop and the end. *)

\* A signal is handled on whatever thread the system chooses.
Signal ==
  /\ signals /\ running /\ pc # "exit"
  /\ running' = FALSE
  /\ UNCHANGED <<backend, pc, onlyCertificate, signals, failed, code, engines, dispatch, sdk, io>>

MainLoop == ~running /\ Goes("loop", "fxShutdown", code)

\* serverRun catches what the developer's loop throws, and tears down.  It
\* does not clear the flag: open62541's stop() then waits for a signal.
MainLoopThrows == Goes("loop", "fxShutdown", 1)

FxShutdown ==
  /\ pc = "fxShutdown" /\ pc' = "pubsubShutdown" /\ StopsFx
  /\ UNCHANGED <<backend, onlyCertificate, running, signals, failed, code, pubsub, dispatch,
                 sdk, io>>

PubSubShutdown ==
  /\ pc = "pubsubShutdown" /\ pc' = "deletePool" /\ StopsPubSub
  /\ UNCHANGED <<backend, onlyCertificate, running, signals, failed, code, fx, dispatch, sdk, io>>

\* The pool's destructor: the workers finish what they run and are joined,
\* what is still queued is dropped.  The pointer stays as it is.
DeletePool ==
  /\ pc = "deletePool" /\ pool # "dying"
  /\ IF pointer THEN pool' = "dying" /\ UNCHANGED pc
                ELSE pc' = "unlink" /\ UNCHANGED pool
  /\ UNCHANGED <<backend, onlyCertificate, running, signals, failed, code, engines, pointer,
                 devices, sdk, io>>

PoolDeleted ==
  /\ pc = "deletePool" /\ pool = "dying" /\ pool' = "deleted" /\ pc' = "nullPool"
  /\ io' = [r \in Requests |-> IF io[r] = "queued" THEN "dropped" ELSE io[r]]
  /\ UNCHANGED <<backend, onlyCertificate, running, signals, failed, code, engines, pointer,
                 devices, sdk>>

\* Faulty variant of NullPool: the pointer to the deleted pool is left.
PoolLeftDangling == Goes("nullPool", "unlink", code)

NullPool ==
  /\ pc = "nullPool" /\ pc' = "unlink" /\ pointer' = FALSE
  /\ UNCHANGED <<backend, onlyCertificate, running, signals, failed, code, engines, pool, devices,
                 sdk, io>>

\* shutdown() of the user, unlinkAllDevices, unlinkAllChildren.
UnlinkDevices ==
  /\ pc = "unlink" /\ pc' = "stop" /\ devices' = FALSE
  /\ UNCHANGED <<backend, onlyCertificate, running, signals, failed, code, engines, pool, pointer,
                 sdk, io>>

InProgress == {r \in Requests : io[r] = "begun"}

\* open62541's run thread looks at the flag between two iterations.
RunThreadEnds ==
  /\ backend = "OPEN62541" /\ sdk = "serving" /\ ~running /\ InProgress = {}
  /\ sdk' = "ended"
  /\ UNCHANGED <<backend, pc, onlyCertificate, running, signals, failed, code, engines, dispatch, io>>

\* stop() waits for the SDK's threads; open62541's only joins the run thread.
StopServer ==
  /\ pc = "stop" /\ pc' = "delete"
  /\ \/ backend = "OPEN62541" /\ sdk # "serving" /\ UNCHANGED sdk
     \/ backend = "UATOOLKIT" /\ InProgress = {} /\ sdk' = IF sdk = "serving" THEN "ended" ELSE sdk
  /\ UNCHANGED <<backend, onlyCertificate, running, signals, failed, code, engines, dispatch, io>>

\* serverRun returns, and with it startApplication and main().
DeleteServer == Goes("delete", "exit", code)

-----------------------------------------------------------------------------
(* Reads and writes of source variables, on the SDK's threads: one thread  *)
(* with open62541, several with the UA toolkit.                            *)

\* What main() and the pool leave alone while a request is handled.
Serves(r, outcome) ==
  /\ io' = [io EXCEPT ![r] = outcome]
  /\ UNCHANGED <<backend, pc, onlyCertificate, running, signals, failed, code, engines, dispatch, sdk>>

\* An SDK thread takes the request up and looks at the pool's pointer: not
\* for a synchronous request under open62541, which asks for its device only.
NeedsPool(r) == backend = "UATOOLKIT" \/ r \notin Synchronous
NeedsDevice(r) == backend = "UATOOLKIT" \/ r \in Synchronous

BeginIo(r) ==
  /\ sdk = "serving" /\ io[r] = "idle"
  /\ backend = "OPEN62541" => InProgress = {}
  /\ LET refused == (NeedsPool(r) /\ ~pointer) \/ (NeedsDevice(r) /\ ~devices)
     IN  Serves(r, IF refused THEN "refused" ELSE "begun")

\* addJob on the pool it found: accepted, or refused at the job limit.  The
\* pool does not refuse jobs while its destructor waits for the workers.
DispatchIo(r) ==
  /\ io[r] = "begun" /\ r \notin Synchronous
  /\ IF pool = "deleted" THEN Serves(r, "stale")
                         ELSE \E outcome \in {"queued", "refused"} : Serves(r, outcome)

\* A synchronous request calls the device it found.
ExecuteIo(r) ==
  /\ io[r] = "begun" /\ r \in Synchronous
  /\ Serves(r, IF devices THEN "answered" ELSE "stale")

\* A worker executes the job and completes the request.
WorkIo(r) ==
  /\ io[r] = "queued" /\ pool \in {"alive", "dying"}
  /\ Serves(r, "answered")

-----------------------------------------------------------------------------
Main ==
  \/ ParseCommandLine \/ ParseEnds \/ InitializeEnvironment \/ RegisterSignalHandler
  \/ SetServerConfig \/ CreateCertificate \/ Start \/ Configure \/ ConfigureFails
  \/ PostConfigure \/ StartPubSub \/ StartFx \/ AbortFx \/ AbortPubSub
  \/ StartsServing \/ StartThrows \/ CheckHandler \/ MainLoop
  \/ FxShutdown \/ PubSubShutdown \/ DeletePool \/ PoolDeleted \/ NullPool
  \/ UnlinkDevices \/ StopServer \/ DeleteServer

ServesIo == \E r \in Requests : BeginIo(r) \/ DispatchIo(r) \/ ExecuteIo(r) \/ WorkIo(r)

Next == Main \/ MainLoopThrows \/ Signal \/ RunThreadEnds \/ ServesIo

Spec == Init /\ [][Next]_vars

\* Threads make progress: main(), the run thread, and a request once begun.
Fairness ==
  /\ WF_vars(Main) /\ WF_vars(RunThreadEnds)
  /\ \A r \in Requests : WF_vars(DispatchIo(r) \/ ExecuteIo(r))

FairSpec == Spec /\ Fairness

-----------------------------------------------------------------------------
(* Properties. *)

\* When main() returns nothing it started is left: no engine thread, no pool
\* or worker, no linked device, no SDK thread, and no request in progress or
\* in a queue, whichever step of the start failed (BaseQuasarServer.cpp: "so
\* no joinable thread outlives the aborted startup").
NothingOutlivesMain ==
  pc = "exit" =>
    /\ pubsub # "running" /\ fx # "running"
    /\ pool \in {"none", "deleted"} /\ ~pointer /\ ~devices
    /\ sdk # "serving"
    /\ \A r \in Requests : io[r] \notin {"begun", "queued"}

\* A start whose configuration handler failed never becomes a server that
\* runs its main loop, and is reported by a non-zero exit code, although
\* open62541 ignores the status the handler returns.
StartupFailureReported ==
  failed => pc # "loop" /\ (pc = "exit" => code # 0)

\* A request that an SDK thread takes up once the teardown is past the pool
\* (past the devices, if the request does not need the pool) is refused: it
\* meets neither the deleted pool nor a deleted device.
LateIoRefused ==
  [][\A r \in Requests :
       (/\ io[r] = "idle" /\ io'[r] # "idle"
        /\ pc \in {"stop", "delete"} \/ (pc = "unlink" /\ NeedsPool(r)))
       => io'[r] = "refused"]_vars

\* Once a signal arrived, or the configuration handler failed, the process
\* ends: stop() does not wait for a run thread that nobody told to end.
EndsOnceAsked == (~running \/ failed) ~> (pc = "exit")
=============================================================================
