------------------------ MODULE ServerLifecycleProofs ------------------------
(***************************************************************************)
(* What main() leaves behind, for any number of requests.                  *)
(*                                                                         *)
(* That nothing is left at the end rests on what may exist at each point   *)
(* of main(): the engines run only between their start and their           *)
(* shutdown, the pool and its pointer end together but for one step, and a *)
(* request in progress has an SDK thread under it.                         *)
(***************************************************************************)
EXTENDS ServerLifecycle, TLAPS

\* The points before the configuration handler made anything, and those at
\* which the engines may be started.
Untouched == Startup \cup {"configure"}

Made == {"startPubSub", "startFx", "abortFx", "abortPubSub", "handled", "check", "loop"}

\* Each engine runs between its start and its shutdown.
EnginesInv ==
  /\ pubsub = "running" => pc \in (Made \ {"startPubSub"}) \cup {"fxShutdown", "pubsubShutdown"}
  /\ fx = "running" => pc \in {"handled", "check", "loop", "fxShutdown"}
  /\ pc = "abortFx" => fx = "off"

\* The pool by the point of main(), and its pointer.
PoolInv ==
  /\ pc \in Untouched => pool = "none" /\ ~pointer /\ ~devices
  /\ pointer => \/ pool \in {"alive", "dying"}
                \/ pool = "deleted" /\ pc = "nullPool"
  /\ pool \in {"alive", "dying"} => pointer
  /\ pool = "dying" => pc = "deletePool"
  /\ pc = "nullPool" => pool = "deleted"
  /\ pool = "deleted" => pc \in {"nullPool", "unlink", "stop", "delete", "exit"}
  /\ pc \in {"unlink", "stop", "delete", "exit"} => ~pointer
  /\ pc \in {"stop", "delete", "exit"} => ~devices

\* The SDK serves from the end of the handler to the end of stop(), and a
\* request in progress, or in the queue, has what it needs.
IoInv ==
  /\ sdk # "off" => pc \in {"check", "loop"} \cup Teardown \cup {"exit"}
  /\ sdk = "serving" => pc \notin {"delete", "exit"}
  /\ \A r \in Requests :
       /\ io[r] = "begun" => sdk = "serving"
       /\ io[r] = "begun" /\ r \notin Synchronous => pool # "none"
       /\ io[r] = "queued" => pool \in {"alive", "dying"}

\* A failed handler is known, and reported by the exit code, from the check on.
FailureInv ==
  failed => /\ pc \in {"handled", "check"} \cup Teardown \cup {"exit"}
            /\ pc \in Teardown \cup {"exit"} => code # 0

Inv == TypeOK /\ EnginesInv /\ PoolInv /\ IoInv /\ FailureInv

-----------------------------------------------------------------------------
\* A process that has just started satisfies the invariant.
LEMMA InitInv == Init => Inv
BY DEF Init, Inv, TypeOK, EnginesInv, PoolInv, IoInv, FailureInv, Backends, Points, Startup,
       Handler, Teardown, Untouched, Made, EngineStates, PoolStates, IoStates

\* The steps of main() and of the SDK's own threads.
LEMMA MainInv == Inv /\ (Main \/ MainLoopThrows \/ Signal \/ RunThreadEnds) => Inv'
<1> SUFFICES ASSUME Inv, Main \/ MainLoopThrows \/ Signal \/ RunThreadEnds PROVE Inv'
  OBVIOUS
<1> USE DEF Inv, TypeOK, EnginesInv, PoolInv, IoInv, FailureInv, Points, Startup, Handler,
            Teardown, Untouched, Made, EngineStates, PoolStates, IoStates, engines, dispatch
<1>1. CASE ParseCommandLine
  BY <1>1 DEF ParseCommandLine
<1>2. CASE ParseEnds
  BY <1>2 DEF ParseEnds, Goes
<1>3. CASE InitializeEnvironment
  BY <1>3 DEF InitializeEnvironment, Goes
<1>4. CASE RegisterSignalHandler
  BY <1>4 DEF RegisterSignalHandler
<1>5. CASE SetServerConfig
  BY <1>5 DEF SetServerConfig, Goes
<1>6. CASE CreateCertificate
  BY <1>6 DEF CreateCertificate, Goes
<1>7. CASE Start
  BY <1>7 DEF Start, Goes
<1>8. CASE Configure
  BY <1>8 DEF Configure
<1>9. CASE ConfigureFails
  <2>1. TypeOK'
    BY <1>9 DEF ConfigureFails
  <2>2. EnginesInv'
    BY <1>9 DEF ConfigureFails
  <2>3. PoolInv'
    BY <1>9 DEF ConfigureFails
  <2>4. IoInv'
    BY <1>9 DEF ConfigureFails
  <2>5. FailureInv'
    BY <1>9 DEF ConfigureFails
  <2>6. QED
    BY <2>1, <2>2, <2>3, <2>4, <2>5 DEF Inv
<1>10. CASE PostConfigure
  <2>1. TypeOK'
    BY <1>10, ZenonT(30) DEF PostConfigure
  <2>2. EnginesInv'
    BY <1>10 DEF PostConfigure
  <2>3. PoolInv'
    BY <1>10 DEF PostConfigure
  <2>4. IoInv'
    BY <1>10 DEF PostConfigure
  <2>5. FailureInv'
    BY <1>10 DEF PostConfigure
  <2>6. QED
    BY <2>1, <2>2, <2>3, <2>4, <2>5 DEF Inv
<1>11. CASE StartPubSub
  <2>1. TypeOK'
    BY <1>11, ZenonT(30) DEF StartPubSub
  <2>2. EnginesInv'
    BY <1>11 DEF StartPubSub
  <2>3. PoolInv'
    BY <1>11 DEF StartPubSub
  <2>4. IoInv'
    BY <1>11 DEF StartPubSub
  <2>5. FailureInv'
    BY <1>11 DEF StartPubSub
  <2>6. QED
    BY <2>1, <2>2, <2>3, <2>4, <2>5 DEF Inv
<1>12. CASE StartFx
  BY <1>12 DEF StartFx
<1>13. CASE AbortFx
  BY <1>13 DEF AbortFx, StopsFx
<1>14. CASE AbortPubSub
  BY <1>14 DEF AbortPubSub, StopsPubSub
<1>15. CASE StartsServing
  BY <1>15 DEF StartsServing
<1>16. CASE StartThrows
  BY <1>16 DEF StartThrows, Goes
<1>17. CASE CheckHandler
  <2>. running' \in BOOLEAN
    BY <1>17, Zenon DEF CheckHandler
  <2>1. TypeOK'
    BY <1>17 DEF CheckHandler
  <2>2. EnginesInv'
    BY <1>17 DEF CheckHandler
  <2>3. PoolInv'
    BY <1>17 DEF CheckHandler
  <2>4. IoInv'
    BY <1>17 DEF CheckHandler
  <2>5. FailureInv'
    BY <1>17 DEF CheckHandler
  <2>6. QED
    BY <2>1, <2>2, <2>3, <2>4, <2>5 DEF Inv
<1>18. CASE MainLoop
  BY <1>18 DEF MainLoop, Goes
<1>19. CASE FxShutdown
  BY <1>19 DEF FxShutdown, StopsFx
<1>20. CASE PubSubShutdown
  BY <1>20 DEF PubSubShutdown, StopsPubSub
<1>21. CASE DeletePool
  BY <1>21 DEF DeletePool
<1>22. CASE PoolDeleted
  BY <1>22 DEF PoolDeleted
<1>23. CASE NullPool
  <2>. pointer' \in BOOLEAN
    BY <1>23, Zenon DEF NullPool
  <2>1. TypeOK'
    BY <1>23 DEF NullPool
  <2>2. EnginesInv'
    BY <1>23 DEF NullPool
  <2>3. PoolInv'
    BY <1>23 DEF NullPool
  <2>4. IoInv'
    BY <1>23 DEF NullPool
  <2>5. FailureInv'
    BY <1>23 DEF NullPool
  <2>6. QED
    BY <2>1, <2>2, <2>3, <2>4, <2>5 DEF Inv
<1>24. CASE UnlinkDevices
  <2>1. TypeOK'
    BY <1>24, ZenonT(30) DEF UnlinkDevices
  <2>2. EnginesInv'
    BY <1>24 DEF UnlinkDevices
  <2>3. PoolInv'
    BY <1>24 DEF UnlinkDevices
  <2>4. IoInv'
    BY <1>24 DEF UnlinkDevices
  <2>5. FailureInv'
    BY <1>24 DEF UnlinkDevices
  <2>6. QED
    BY <2>1, <2>2, <2>3, <2>4, <2>5 DEF Inv
<1>25. CASE StopServer
  BY <1>25 DEF StopServer, InProgress
<1>26. CASE DeleteServer
  BY <1>26 DEF DeleteServer, Goes
<1>27. CASE Signal
  <2>. running' \in BOOLEAN
    BY <1>27, Zenon DEF Signal
  <2>1. TypeOK'
    BY <1>27 DEF Signal
  <2>2. EnginesInv'
    BY <1>27 DEF Signal
  <2>3. PoolInv'
    BY <1>27 DEF Signal
  <2>4. IoInv'
    BY <1>27 DEF Signal
  <2>5. FailureInv'
    BY <1>27 DEF Signal
  <2>6. QED
    BY <2>1, <2>2, <2>3, <2>4, <2>5 DEF Inv
<1>28. CASE RunThreadEnds
  BY <1>28 DEF RunThreadEnds, InProgress
<1>29. CASE MainLoopThrows
  BY <1>29 DEF MainLoopThrows, Goes
<1>30. QED
  BY <1>1, <1>2, <1>3, <1>4, <1>5, <1>6, <1>7, <1>8, <1>9, <1>10, <1>11, <1>12, <1>13, <1>14,
     <1>15, <1>16, <1>17, <1>18, <1>19, <1>20, <1>21, <1>22, <1>23, <1>24, <1>25, <1>26, <1>27,
     <1>28, <1>29 DEF Main

\* The steps of a request.
LEMMA ServesInv == ASSUME NEW r \in Requests
                   PROVE  Inv /\ (BeginIo(r) \/ DispatchIo(r) \/ ExecuteIo(r) \/ WorkIo(r)) => Inv'
<1> SUFFICES ASSUME Inv, BeginIo(r) \/ DispatchIo(r) \/ ExecuteIo(r) \/ WorkIo(r) PROVE Inv'
  OBVIOUS
<1> USE DEF Inv, TypeOK, EnginesInv, PoolInv, IoInv, FailureInv, Points, Startup, Handler,
            Teardown, Untouched, Made, EngineStates, PoolStates, IoStates, engines, dispatch, Serves
<1>1. CASE BeginIo(r)
  BY <1>1 DEF BeginIo, NeedsPool, NeedsDevice
<1>2. CASE DispatchIo(r)
  BY <1>2 DEF DispatchIo
<1>3. CASE ExecuteIo(r)
  BY <1>3 DEF ExecuteIo
<1>4. CASE WorkIo(r)
  BY <1>4 DEF WorkIo
<1>5. QED
  BY <1>1, <1>2, <1>3, <1>4

\* Every step, of whatever thread, keeps it.
LEMMA StepInv == Inv /\ [Next]_vars => Inv'
<1> SUFFICES ASSUME Inv, [Next]_vars PROVE Inv'
  OBVIOUS
<1>1. CASE Main \/ MainLoopThrows \/ Signal \/ RunThreadEnds
  BY <1>1, MainInv
<1>2. CASE ServesIo
  BY <1>2, ServesInv DEF ServesIo
<1>3. CASE UNCHANGED vars
  BY <1>3 DEF vars, Inv, TypeOK, EnginesInv, PoolInv, IoInv, FailureInv
<1>4. QED
  BY <1>1, <1>2, <1>3 DEF Next

\* The invariant, for every set of requests.
THEOREM LifecycleInv == Spec => []Inv
<1>1. QED
  BY InitInv, StepInv, PTL DEF Spec

-----------------------------------------------------------------------------
\* Whichever step of the start failed and whatever requests there are, main()
\* returns with no engine thread, pool, device, SDK thread or request left.
THEOREM NothingLeft == Spec => []NothingOutlivesMain
<1>1. Inv => NothingOutlivesMain
  BY DEF Inv, EnginesInv, PoolInv, IoInv, TypeOK, PoolStates, Made, NothingOutlivesMain
<1>2. QED
  BY <1>1, LifecycleInv, PTL

\* A start whose configuration handler failed never serves in the main loop
\* and ends with a non-zero code, on both backends.
THEOREM FailureReported == Spec => []StartupFailureReported
<1>1. Inv => StartupFailureReported
  BY DEF Inv, FailureInv, Teardown, StartupFailureReported
<1>2. QED
  BY <1>1, LifecycleInv, PTL

\* Once the pool is deleted, or the devices are unlinked, a new request of an
\* SDK thread is refused.
THEOREM LateRefused == Spec => LateIoRefused
<1> DEFINE Late(r) == pc \in {"stop", "delete"} \/ (pc = "unlink" /\ NeedsPool(r))
<1>1. ASSUME Inv, Next, NEW r \in Requests, io[r] = "idle", io'[r] # "idle", Late(r)
      PROVE  io'[r] = "refused"
  <2>1. ~pointer /\ (pc \in {"stop", "delete"} => ~devices)
    BY <1>1 DEF Inv, PoolInv
  <2>2. ~(Main \/ MainLoopThrows \/ Signal \/ RunThreadEnds)
    BY <1>1 DEF Inv, TypeOK, Main, Signal, RunThreadEnds, ParseCommandLine, ParseEnds,
       InitializeEnvironment, RegisterSignalHandler, SetServerConfig, CreateCertificate, Start,
       Configure, ConfigureFails, PostConfigure, StartPubSub, StartFx, AbortFx, AbortPubSub,
       StartsServing, StartThrows, CheckHandler, MainLoop, MainLoopThrows, FxShutdown, PubSubShutdown, DeletePool,
       PoolDeleted, NullPool, UnlinkDevices, StopServer, DeleteServer, Goes
  <2>3. PICK s \in Requests : BeginIo(s) \/ DispatchIo(s) \/ ExecuteIo(s) \/ WorkIo(s)
    BY <1>1, <2>2 DEF Next, ServesIo
  <2>4. s = r /\ BeginIo(r)
    BY <1>1, <2>3 DEF Inv, TypeOK, BeginIo, DispatchIo, ExecuteIo, WorkIo, Serves
  <2>5. (NeedsPool(r) /\ ~pointer) \/ (NeedsDevice(r) /\ ~devices)
    BY <1>1, <2>1 DEF NeedsPool, NeedsDevice
  <2>6. QED
    BY <1>1, <2>4, <2>5 DEF BeginIo, Serves, Inv, TypeOK
<1>2. Inv /\ [Next]_vars =>
        [\A r \in Requests :
           (/\ io[r] = "idle" /\ io'[r] # "idle"
            /\ pc \in {"stop", "delete"} \/ (pc = "unlink" /\ NeedsPool(r)))
           => io'[r] = "refused"]_vars
  BY <1>1
<1>3. QED
  BY <1>2, LifecycleInv, PTL DEF Spec, LateIoRefused
=============================================================================
