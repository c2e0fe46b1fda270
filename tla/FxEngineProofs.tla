--------------------------- MODULE FxEngineProofs ---------------------------
(***************************************************************************)
(* Proofs about FxEngine for every configuration, every set of names and   *)
(* every number of connections. The inductive invariant says, for each     *)
(* point inside a call, what the checks at the start of the call           *)
(* established and the io thread cannot have changed since.                *)
(***************************************************************************)
EXTENDS FxEngine, FiniteSetTheorems, WellFoundedInduction, TLAPS

BeforeStore == {"add", "nodes", "undo", "store"}

\* The life of the server: the engine is started between startIfStaged and
\* shutdown, shutdown excludes calls, and an engine that is not started has no
\* active endpoint.
LifeInv ==
    /\ started <=> main \in {"serving", "closing"}
    /\ mutex = "main" <=> main = "closing"
    /\ mutex = "call" => main = "serving"
    /\ ~started => Active = {}

\* What the checks of establish and close found still holds at each later step.
SessionInv ==
    /\ pc \in EstablishPcs => draft \in Draft /\ target \in Names
    /\ pc \in BeforeStore =>
        /\ target \in DOMAIN endpoints => Reusable(target, draft.entity)
        /\ ConnectedAs(draft.entity, draft.role, draft.dataset) = {}
    /\ pc \in {"nodes", "undo"} => target \notin DOMAIN endpoints
    /\ pc \in {"query", "report"} =>
        /\ target \in Active
        /\ endpoints[target].entity = draft.entity
        /\ endpoints[target].role = draft.role
        /\ endpoints[target].dataset = draft.dataset
    /\ pc \in {"remove", "closed"} => target \in Active

\* A name that is neither an endpoint nor poisoned has no node yet, except the
\* one whose view is being made.
ViewInv ==
    /\ PoisonedOutOfService
    /\ pc \in BeforeStore => target \notin poisoned
    /\ pc = "store" => view[target] = 4
    /\ \A n \in Names \ (DOMAIN endpoints \cup poisoned) :
          (pc \in {"undo", "store"} => n # target) => view[n] = 0

Inv == TypeOK /\ LifeInv /\ SessionInv /\ ViewInv /\ DatasetConnectedOnce


-----------------------------------------------------------------------------
(* Finite maps.                                                            *)

\* std::map::operator[]: one key set, the others as they were.
LEMMA PutMap ==
    ASSUME NEW f, NEW S, NEW k \in S, NEW V, NEW v \in V,
           DOMAIN f \subseteq S, f \in [DOMAIN f -> V]
    PROVE  /\ DOMAIN Put(f, k, v) = DOMAIN f \cup {k}
           /\ DOMAIN Put(f, k, v) \subseteq S
           /\ Put(f, k, v) \in [DOMAIN Put(f, k, v) -> V]
           /\ \A x \in DOMAIN f : x # k => Put(f, k, v)[x] = f[x]
           /\ Put(f, k, v)[k] = v
BY DEF Put

-----------------------------------------------------------------------------
(* Names.                                                                  *)

\* firstFreeAutoName returns a connection name like any other, so what is
\* shown of an establish with a given name holds for an automatic one too.
LEMMA AutoIsNamed == TypeOK /\ EstablishAuto => EstablishNamed
<1> SUFFICES ASSUME TypeOK, NEW e \in Entities, NEW n \in AutoNameChoices(e)
             PROVE  n \in Names
  BY DEF EstablishAuto, EstablishNamed
<1>1. \A i \in 1..Len(AutoNames) : AutoNames[i] \in Names
  BY NamesAssumption
<1>2. \A i \in AutoCandidates(e) : i \in 1..Len(AutoNames)
  BY NamesAssumption DEF AutoCandidates
<1>3. EndpointsOf(e) \subseteq Names
  BY DEF EndpointsOf, TypeOK
<1> QED
  BY <1>1, <1>2, <1>3 DEF AutoNameChoices

-----------------------------------------------------------------------------
(* Types.                                                                  *)

\* The engine is built stopped and empty, and the invariant holds.
LEMMA InitInv == Init => Inv
<1> SUFFICES ASSUME Init PROVE Inv
  OBVIOUS
<1>1. TypeOK
  <2>1. /\ DOMAIN endpoints \subseteq Names /\ endpoints \in [DOMAIN endpoints -> Endpoint]
        /\ DOMAIN writers \subseteq Coordinates /\ writers \in [DOMAIN writers -> AllTags]
        /\ DOMAIN readers \subseteq PeerKeys /\ readers \in [DOMAIN readers -> Reader]
    BY DEF Init, EmptyMap
  <2>2. view \in [Names -> 0..4]
    BY DEF Init
  <2> QED
    BY <2>1, <2>2 DEF Init, TypeOK, HolderAt
<1>2. LifeInv
  BY DEF Init, LifeInv, Active, EmptyMap
<1>3. SessionInv
  BY DEF Init, SessionInv, EstablishPcs, BeforeStore
<1>4. ViewInv
  BY DEF Init, ViewInv, PoisonedOutOfService, BeforeStore, EmptyMap
<1>5. DatasetConnectedOnce
  BY DEF Init, DatasetConnectedOnce, Active, EmptyMap
<1> QED
  BY <1>1, <1>2, <1>3, <1>4, <1>5 DEF Inv

\* Every step keeps every variable within its kind.
LEMMA TypeStep == Inv /\ [Next]_vars => TypeOK'
<1> SUFFICES ASSUME Inv, [Next]_vars PROVE TypeOK'
  OBVIOUS
<1> USE DEF Inv
<1>1. CASE UNCHANGED vars
  BY <1>1 DEF TypeOK, HolderAt, vars
<1>2. CASE StartPubSub
  <2>1. StaticTag \in AllTags /\ StaticReader \in Reader
    BY DEF StaticReader, Reader, AllTags
  <2>2. /\ DOMAIN writers' \subseteq Coordinates /\ writers' \in [DOMAIN writers' -> AllTags]
        /\ DOMAIN readers' \subseteq PeerKeys /\ readers' \in [DOMAIN readers' -> Reader]
    BY <1>2, <2>1, ConfigurationAssumption DEF StartPubSub, TypeOK, planeVars
  <2> QED
    BY <1>2, <2>2 DEF StartPubSub, TypeOK, HolderAt, planeVars, callVars, nodeVars
<1>3. CASE StartFx \/ StartFxFails
  BY <1>3 DEF StartFx, StartFxFails, TypeOK, HolderAt, planeVars, callVars, nodeVars
<1>4. CASE RefuseCall
  BY <1>4 DEF RefuseCall, TypeOK, HolderAt, planeVars, callVars, nodeVars
<1>5. ASSUME NEW n \in Names, NEW e \in Entities, NEW role \in Roles, NEW d \in Datasets,
             NEW k \in PeerKeys, Admit(n, e, role, d, k)
      PROVE  TypeOK'
  BY <1>5 DEF Admit, TypeOK, HolderAt, EstablishPcs, planeVars, nodeVars, Draft
<1>6. CASE Close
  BY <1>6 DEF Close, TypeOK, HolderAt, planeVars, nodeVars, Active
<1>7. CASE ShutdownFx \/ ShutdownNext \/ ShutdownDone
  BY <1>7 DEF ShutdownFx, ShutdownNext, ShutdownDone, TypeOK, HolderAt, EstablishPcs, planeVars, nodeVars, Active
<1>8. CASE ShutdownPubSub
  BY <1>8 DEF ShutdownPubSub, TypeOK, HolderAt, callVars, nodeVars, EmptyMap
<1>9. CASE AddWriter
  <2>1. draft \in Draft /\ target \in Names /\ pc = "add"
    BY <1>9 DEF AddWriter, SessionInv, EstablishPcs
  <2>2. DraftCoordinate \in Coordinates /\ DraftTag \in AllTags
    BY <2>1 DEF DraftCoordinate, Coordinates, Draft, DraftTag, AllTags
  <2>3. DOMAIN writers' \subseteq Coordinates /\ writers' \in [DOMAIN writers' -> AllTags]
    BY <1>9, <2>2, PutMap DEF AddWriter, TypeOK
  <2> QED
    BY <1>9, <2>3 DEF AddWriter, AfterAdd, TypeOK, HolderAt, EstablishPcs, nodeVars
<1>10. CASE AddReader
  <2>1. draft \in Draft /\ target \in Names /\ pc = "add"
    BY <1>10 DEF AddReader, SessionInv, EstablishPcs
  <2>2. draft.key \in PeerKeys /\ NewReader \in Reader
    BY <2>1 DEF Draft, DraftTag, AllTags, NewReader, Reader
  <2>3. DOMAIN readers' \subseteq PeerKeys /\ readers' \in [DOMAIN readers' -> Reader]
    BY <1>10, <2>2 DEF AddReader, TypeOK, Put
  <2> QED
    BY <1>10, <2>3 DEF AddReader, AfterAdd, TypeOK, HolderAt, EstablishPcs, nodeVars
<1>11. CASE AddFails
  BY <1>11 DEF AddFails, Return, TypeOK, HolderAt, planeVars, nodeVars
<1>12. CASE CreateView \/ CreateViewFails
  BY <1>12 DEF CreateView, CreateViewFails, TypeOK, HolderAt, EstablishPcs, planeVars
<1>13. CASE UndoEstablish
  <2>1. target \in Names
    BY <1>13 DEF UndoEstablish, SessionInv, EstablishPcs
  <2>2. /\ DOMAIN writers' \subseteq Coordinates /\ writers' \in [DOMAIN writers' -> AllTags]
        /\ DOMAIN readers' \subseteq PeerKeys /\ readers' \in [DOMAIN readers' -> Reader]
    BY <1>13 DEF UndoEstablish, RemoveDynamic, TypeOK, Only
  <2> QED
    BY <1>13, <2>1, <2>2 DEF UndoEstablish, RemoveDynamic, Return, TypeOK, HolderAt
<1>14. CASE StoreEndpoint
  <2>1. draft \in Draft /\ target \in Names /\ pc = "store"
    BY <1>14 DEF StoreEndpoint, SessionInv, EstablishPcs
  <2>2. Stored \in Endpoint
    BY <2>1 DEF Stored, Endpoint, Draft, TypeOK, Statuses
  <2>3. DOMAIN endpoints' \subseteq Names /\ endpoints' \in [DOMAIN endpoints' -> Endpoint]
    BY <1>14, <2>1, <2>2, PutMap DEF StoreEndpoint, TypeOK
  <2> QED
    BY <1>14, <2>3 DEF StoreEndpoint, TypeOK, HolderAt, EstablishPcs, planeVars
<1>15. CASE QueryDataSeen
  BY <1>15 DEF QueryDataSeen, TypeOK, HolderAt, EstablishPcs, planeVars, nodeVars
<1>16. CASE ReportEstablished
  <2>1. DOMAIN endpoints' \subseteq Names /\ endpoints' \in [DOMAIN endpoints' -> Endpoint]
    BY <1>16, ZenonT(30) DEF ReportEstablished, SetStatus, TypeOK, Endpoint, Statuses
  <2> QED
    BY <1>16, <2>1 DEF ReportEstablished, Return, TypeOK, HolderAt, planeVars
<1>17. CASE RemoveConnection
  <2>2. /\ DOMAIN writers' \subseteq Coordinates /\ writers' \in [DOMAIN writers' -> AllTags]
        /\ DOMAIN readers' \subseteq PeerKeys /\ readers' \in [DOMAIN readers' -> Reader]
    BY <1>17 DEF RemoveConnection, RemoveDynamic, TypeOK, Only
  <2> QED
    BY <1>17, <2>2 DEF RemoveConnection, RemoveDynamic, TypeOK, HolderAt, nodeVars
<1>18. CASE FinishClose \/ ShutdownClosed
  <2>0. [endpoints[target] EXCEPT !.active = FALSE, !.status = "Initial"] \in Endpoint
    BY <1>18 DEF FinishClose, ShutdownClosed, SessionInv, Active, TypeOK, Endpoint, Statuses
  <2>1. DOMAIN endpoints' \subseteq Names /\ endpoints' \in [DOMAIN endpoints' -> Endpoint]
    BY <1>18, <2>0 DEF FinishClose, ShutdownClosed, Deactivated, TypeOK
  <2> QED
    BY <1>18, <2>1 DEF FinishClose, ShutdownClosed, Return, TypeOK, HolderAt, planeVars
<1>19. ASSUME NEW k \in PeerKeys, Receive(k) PROVE TypeOK'
  <2>1. DOMAIN readers' \subseteq PeerKeys /\ readers' \in [DOMAIN readers' -> Reader]
    BY <1>19 DEF Receive, TypeOK, Reader
  <2> QED
    BY <1>19, <2>1 DEF Receive, TypeOK, HolderAt, callVars, nodeVars
<1>20. CASE CallbackMissed
  BY <1>20 DEF CallbackMissed, TypeOK, HolderAt, callVars, nodeVars
<1>21. CASE CallbackDone
  <2>1. DOMAIN readers' \subseteq PeerKeys /\ readers' \in [DOMAIN readers' -> Reader]
    BY <1>21 DEF CallbackDone, TypeOK, Reader
  <2>2. DOMAIN endpoints' \subseteq Names /\ endpoints' \in [DOMAIN endpoints' -> Endpoint]
    BY <1>21, ZenonT(30) DEF CallbackDone, TypeOK, Endpoint, Statuses
  <2> QED
    BY <1>21, <2>1, <2>2 DEF CallbackDone, TypeOK, HolderAt, callVars
<1> QED
  BY <1>1, <1>2, <1>3, <1>4, <1>5, <1>6, <1>7, <1>8, <1>9, <1>10, <1>11, <1>12, <1>13,
     <1>14, <1>15, <1>16, <1>17, <1>18, <1>19, <1>20, <1>21, AutoIsNamed
  DEF Next, CallStep, IoStep, EstablishNamed
-----------------------------------------------------------------------------
(* The life of the server.                                                 *)

\* The two engines start and stop in step.
LEMMA LifeStep == Inv /\ [Next]_vars => LifeInv'
<1> SUFFICES ASSUME Inv, [Next]_vars PROVE LifeInv'
  OBVIOUS
<1> USE DEF Inv
<1>1. CASE UNCHANGED vars
  BY <1>1 DEF LifeInv, Active, vars
<1>2. CASE StartPubSub \/ StartFx \/ StartFxFails
  BY <1>2 DEF StartPubSub, StartFx, StartFxFails, LifeInv, Active, planeVars, callVars, nodeVars
<1>3. CASE RefuseCall
  BY <1>3 DEF RefuseCall, LifeInv, Active, nodeVars
<1>4. ASSUME NEW n \in Names, NEW e \in Entities, NEW role \in Roles, NEW d \in Datasets,
             NEW k \in PeerKeys, Admit(n, e, role, d, k)
      PROVE  LifeInv'
  BY <1>4 DEF Admit, LifeInv, Active, TypeOK, HolderAt, nodeVars
<1>5. CASE Close
  BY <1>5 DEF Close, LifeInv, Active, TypeOK, HolderAt, nodeVars
<1>6. CASE ShutdownFx \/ ShutdownNext \/ ShutdownPubSub
  BY <1>6 DEF ShutdownFx, ShutdownNext, ShutdownPubSub, LifeInv, Active, nodeVars, callVars
<1>7. CASE ShutdownDone
  <2>1. main = "closing"
    BY <1>7 DEF ShutdownDone, LifeInv, TypeOK, HolderAt, EstablishPcs
  <2> QED
    BY <1>7, <2>1 DEF ShutdownDone, LifeInv, Active, nodeVars
<1>8. CASE AddWriter \/ AddReader \/ CreateView \/ CreateViewFails \/ QueryDataSeen \/ RemoveConnection
  <2>1. UNCHANGED <<main, started, mutex, endpoints>>
    BY <1>8 DEF AddWriter, AddReader, CreateView, CreateViewFails, QueryDataSeen, RemoveConnection,
                nodeVars
  <2> QED
    BY <2>1 DEF LifeInv, Active
<1>9. CASE AddFails \/ UndoEstablish
  <2>1. started /\ mutex = "call"
    BY <1>9 DEF AddFails, UndoEstablish, LifeInv, TypeOK, HolderAt
  <2> QED
    BY <1>9, <2>1 DEF AddFails, UndoEstablish, Return, LifeInv
<1>10. CASE StoreEndpoint \/ ReportEstablished \/ FinishClose
  <2>1. started /\ mutex = "call"
    BY <1>10 DEF StoreEndpoint, ReportEstablished, FinishClose, LifeInv, TypeOK, HolderAt
  <2> QED
    BY <1>10, <2>1 DEF StoreEndpoint, ReportEstablished, FinishClose, Return, LifeInv
<1>11. CASE ShutdownClosed
  BY <1>11 DEF ShutdownClosed, LifeInv
<1>12. ASSUME NEW k \in PeerKeys, Receive(k) PROVE LifeInv'
  BY <1>12 DEF Receive, LifeInv, Active, nodeVars
<1>13. CASE CallbackMissed
  BY <1>13 DEF CallbackMissed, LifeInv, Active, nodeVars
<1>14. CASE CallbackDone
  BY <1>14 DEF CallbackDone, LifeInv, Active
<1> QED
  BY <1>1, <1>2, <1>3, <1>4, <1>5, <1>6, <1>7, <1>8, <1>9, <1>10, <1>11, <1>12, <1>13, <1>14, AutoIsNamed
  DEF Next, CallStep, IoStep, EstablishNamed
-----------------------------------------------------------------------------
(* What a call has checked stays true until it is used.                    *)

\* What an establish has checked still holds until it stores the endpoint.
LEMMA SessionStep == Inv /\ [Next]_vars => SessionInv'
<1> SUFFICES ASSUME Inv, [Next]_vars PROVE SessionInv'
  OBVIOUS
<1> USE DEF Inv, EstablishPcs, BeforeStore
<1>1. ASSUME UNCHANGED <<pc, target, draft, endpoints>> PROVE SessionInv'
  BY <1>1 DEF SessionInv, Reusable, ConnectedAs, Active
<1>2. ASSUME pc' \in {"idle", "scan"} PROVE SessionInv'
  BY <1>2 DEF SessionInv
<1>3. CASE UNCHANGED vars \/ StartPubSub \/ StartFx \/ StartFxFails \/ RefuseCall
           \/ ShutdownPubSub \/ CallbackMissed
  BY <1>1, <1>3 DEF vars, StartPubSub, StartFx, StartFxFails, RefuseCall, ShutdownPubSub,
                    CallbackMissed, callVars, nodeVars
<1>4. ASSUME NEW k \in PeerKeys, Receive(k) PROVE SessionInv'
  BY <1>1, <1>4 DEF Receive, callVars, nodeVars
<1>5. CASE CallbackDone
  BY <1>2, <1>5 DEF CallbackDone, callVars, TypeOK, HolderAt
<1>6. CASE ShutdownFx \/ ShutdownDone \/ ShutdownClosed
  BY <1>2, <1>6 DEF ShutdownFx, ShutdownDone, ShutdownClosed
<1>7. CASE AddFails \/ UndoEstablish \/ ReportEstablished \/ FinishClose
  BY <1>2, <1>7 DEF AddFails, UndoEstablish, ReportEstablished, FinishClose, Return
<1>8. ASSUME NEW n \in Names, NEW e \in Entities, NEW role \in Roles, NEW d \in Datasets,
             NEW k \in PeerKeys, Admit(n, e, role, d, k)
      PROVE  SessionInv'
  <2>1. draft' \in Draft /\ target' = n /\ pc' = "add" /\ endpoints' = endpoints
    BY <1>8 DEF Admit, Draft, nodeVars
  <2>2. draft'.entity = e /\ draft'.role = role /\ draft'.dataset = d
    BY <1>8 DEF Admit
  <2>3. n \in DOMAIN endpoints => Reusable(n, e)
    BY <1>8 DEF Admit, NameUsable
  <2>4. ConnectedAs(e, role, d) = {}
    BY <1>8 DEF Admit
  <2> QED
    BY <2>1, <2>2, <2>3, <2>4 DEF SessionInv, Reusable, ConnectedAs, Active
<1>9. CASE Close \/ ShutdownNext
  <2>1. pc' = "remove" /\ target' \in Active /\ endpoints' = endpoints
    BY <1>9 DEF Close, ShutdownNext, nodeVars
  <2> QED
    BY <2>1 DEF SessionInv, Active
<1>10. CASE AddWriter \/ AddReader
  <2>1. pc = "add" /\ pc' = AfterAdd /\ UNCHANGED <<target, draft, endpoints>>
    BY <1>10 DEF AddWriter, AddReader, nodeVars
  <2> QED
    BY <2>1 DEF AfterAdd, SessionInv, Reusable, ConnectedAs, Active
<1>11. CASE CreateView \/ CreateViewFails
  <2>1. pc = "nodes" /\ pc' \in {"store", "undo"} /\ UNCHANGED <<target, draft, endpoints>>
    BY <1>11 DEF CreateView, CreateViewFails
  <2> QED
    BY <2>1 DEF SessionInv, Reusable, ConnectedAs, Active
<1>12. CASE StoreEndpoint
  <2>1. pc = "store" /\ pc' \in {"query", "report"} /\ UNCHANGED <<target, draft>>
    BY <1>12 DEF StoreEndpoint
  <2>2. target \in DOMAIN endpoints' /\ endpoints'[target] = Stored
    BY <1>12 DEF StoreEndpoint, Put
  <2> QED
    BY <2>1, <2>2 DEF SessionInv, Stored, Active
<1>13. CASE QueryDataSeen
  <2>1. pc = "query" /\ pc' = "report" /\ UNCHANGED <<target, draft, endpoints>>
    BY <1>13 DEF QueryDataSeen, nodeVars
  <2> QED
    BY <2>1 DEF SessionInv, Active
<1>14. CASE RemoveConnection
  <2>1. pc = "remove" /\ pc' = "closed" /\ UNCHANGED <<target, endpoints>>
    BY <1>14 DEF RemoveConnection, nodeVars
  <2> QED
    BY <2>1 DEF SessionInv, Active
<1> QED
  BY <1>3, <1>4, <1>5, <1>6, <1>7, <1>8, <1>9, <1>10, <1>11, <1>12, <1>13, <1>14, AutoIsNamed
  DEF Next, CallStep, IoStep, EstablishNamed

-----------------------------------------------------------------------------
(* Views and poisoned names.                                               *)

\* Every node that is created is accounted for by its name.
LEMMA ViewStep == Inv /\ [Next]_vars => ViewInv'
<1> SUFFICES ASSUME Inv, [Next]_vars PROVE ViewInv'
  OBVIOUS
<1> USE DEF Inv, BeforeStore
<1>1. ASSUME UNCHANGED <<pc, target, poisoned, view>>, DOMAIN endpoints' = DOMAIN endpoints
      PROVE  ViewInv'
  BY <1>1 DEF ViewInv, PoisonedOutOfService
<1>2. ASSUME UNCHANGED <<poisoned, view>>, DOMAIN endpoints' = DOMAIN endpoints,
             pc \notin {"undo", "store"}, pc' \in {"idle", "scan", "query", "report", "remove", "closed"}
      PROVE  ViewInv'
  BY <1>2 DEF ViewInv, PoisonedOutOfService
<1>3. CASE UNCHANGED vars \/ StartPubSub \/ StartFx \/ StartFxFails \/ RefuseCall
           \/ ShutdownPubSub \/ CallbackMissed
  BY <1>1, <1>3 DEF vars, StartPubSub, StartFx, StartFxFails, RefuseCall, ShutdownPubSub,
                    CallbackMissed, callVars, nodeVars
<1>4. ASSUME NEW k \in PeerKeys, Receive(k) PROVE ViewInv'
  BY <1>1, <1>4 DEF Receive, callVars, nodeVars
<1>5. CASE CallbackDone
  BY <1>1, <1>5 DEF CallbackDone, callVars
<1>6. CASE ShutdownFx \/ ShutdownNext \/ ShutdownDone \/ ShutdownClosed \/ Close
  BY <1>2, <1>6 DEF ShutdownFx, ShutdownNext, ShutdownDone, ShutdownClosed, Close, Deactivated,
                    nodeVars, TypeOK, HolderAt
<1>7. CASE AddFails \/ ReportEstablished \/ FinishClose \/ QueryDataSeen \/ RemoveConnection
  BY <1>2, <1>7 DEF AddFails, ReportEstablished, FinishClose, QueryDataSeen, RemoveConnection,
                    Return, SetStatus, Deactivated, nodeVars
<1>8. ASSUME NEW n \in Names, NEW e \in Entities, NEW role \in Roles, NEW d \in Datasets,
             NEW k \in PeerKeys, Admit(n, e, role, d, k)
      PROVE  ViewInv'
  BY <1>8 DEF Admit, NameUsable, ViewInv, PoisonedOutOfService, nodeVars, TypeOK, HolderAt
<1>9. CASE AddWriter \/ AddReader
  <2>1. pc = "add" /\ pc' = AfterAdd /\ UNCHANGED <<target, endpoints, poisoned, view>>
    BY <1>9 DEF AddWriter, AddReader, nodeVars
  <2>2. target \in Names
    BY <2>1 DEF SessionInv, EstablishPcs
  <2> QED
    BY <2>1, <2>2 DEF AfterAdd, ViewInv, PoisonedOutOfService
<1>10. CASE CreateView \/ CreateViewFails
  <2>1. pc = "nodes" /\ pc' \in {"store", "undo"} /\ UNCHANGED <<target, endpoints, poisoned>>
    BY <1>10 DEF CreateView, CreateViewFails
  <2>2. target \in Names /\ target \notin DOMAIN endpoints
    BY <2>1 DEF SessionInv, EstablishPcs
  <2>3. \A n \in Names \ {target} : view'[n] = view[n]
    BY <1>10 DEF CreateView, CreateViewFails, TypeOK
  <2>4. pc' = "store" => view'[target] = 4
    BY <1>10, <2>2 DEF CreateView, CreateViewFails, TypeOK
  <2> QED
    BY <2>1, <2>2, <2>3, <2>4 DEF ViewInv, PoisonedOutOfService, TypeOK
<1>11. CASE UndoEstablish
  <2>1. pc = "undo" /\ pc' = "idle" /\ UNCHANGED <<endpoints, view>>
    BY <1>11 DEF UndoEstablish, Return
  <2>2. target \in Names /\ target \notin DOMAIN endpoints /\ poisoned' = poisoned \cup {target}
    BY <1>11, <2>1 DEF UndoEstablish, SessionInv, EstablishPcs
  <2> QED
    BY <2>1, <2>2 DEF ViewInv, PoisonedOutOfService
<1>12. CASE StoreEndpoint
  <2>1. pc = "store" /\ pc' \in {"query", "report"} /\ UNCHANGED <<target, poisoned, view>>
    BY <1>12 DEF StoreEndpoint
  <2>2. DOMAIN endpoints' = DOMAIN endpoints \cup {target}
    BY <1>12 DEF StoreEndpoint, Put
  <2> QED
    BY <2>1, <2>2 DEF ViewInv, PoisonedOutOfService
<1> QED
  BY <1>3, <1>4, <1>5, <1>6, <1>7, <1>8, <1>9, <1>10, <1>11, <1>12, AutoIsNamed
  DEF Next, CallStep, IoStep, EstablishNamed
-----------------------------------------------------------------------------
(* One connection per dataset and role.                                    *)

\* Storing an endpoint does not connect its dataset a second time.
LEMMA OnceStep == Inv /\ [Next]_vars => DatasetConnectedOnce'
<1> SUFFICES ASSUME Inv, [Next]_vars PROVE DatasetConnectedOnce'
  OBVIOUS
<1> USE DEF Inv
<1>1. ASSUME Active' \subseteq Active,
             \A n \in Active' : /\ endpoints'[n].entity = endpoints[n].entity
                              /\ endpoints'[n].role = endpoints[n].role
                              /\ endpoints'[n].dataset = endpoints[n].dataset
      PROVE  DatasetConnectedOnce'
  BY <1>1 DEF DatasetConnectedOnce
<1>2. ASSUME UNCHANGED endpoints PROVE DatasetConnectedOnce'
  BY <1>1, <1>2 DEF Active
<1>3. CASE UNCHANGED vars \/ StartPubSub \/ StartFx \/ StartFxFails \/ RefuseCall \/ Close
           \/ ShutdownFx \/ ShutdownNext \/ ShutdownDone \/ ShutdownPubSub \/ CallbackMissed
  BY <1>2, <1>3 DEF vars, StartPubSub, StartFx, StartFxFails, RefuseCall, Close, ShutdownFx,
                    ShutdownNext, ShutdownDone, ShutdownPubSub, CallbackMissed, nodeVars
<1>4. CASE AddWriter \/ AddReader \/ AddFails \/ CreateView \/ CreateViewFails \/ UndoEstablish
           \/ QueryDataSeen \/ RemoveConnection
  BY <1>2, <1>4 DEF AddWriter, AddReader, AddFails, CreateView, CreateViewFails, UndoEstablish,
                    QueryDataSeen, RemoveConnection, nodeVars
<1>5. ASSUME NEW n \in Names, NEW e \in Entities, NEW role \in Roles, NEW d \in Datasets,
             NEW k \in PeerKeys, Admit(n, e, role, d, k)
      PROVE  DatasetConnectedOnce'
  BY <1>2, <1>5 DEF Admit, nodeVars
<1>6. ASSUME NEW k \in PeerKeys, Receive(k) PROVE DatasetConnectedOnce'
  BY <1>2, <1>6 DEF Receive, nodeVars
<1>7. CASE ReportEstablished
  BY <1>1, <1>7 DEF ReportEstablished, SetStatus, Active, TypeOK, Endpoint
<1>8. CASE CallbackDone
  BY <1>1, <1>8 DEF CallbackDone, Active, TypeOK, Endpoint
<1>9. CASE FinishClose \/ ShutdownClosed
  <2>1. endpoints' = Deactivated /\ target \in Active
    BY <1>9 DEF FinishClose, ShutdownClosed, SessionInv
  <2> QED
    BY <1>1, <2>1 DEF Deactivated, Active, TypeOK, Endpoint
<1>10. CASE StoreEndpoint
  <2>1. /\ endpoints' = Put(endpoints, target, Stored)
        /\ ConnectedAs(draft.entity, draft.role, draft.dataset) = {}
    BY <1>10 DEF StoreEndpoint, SessionInv, BeforeStore
  <2>2. /\ endpoints'[target].entity = draft.entity
        /\ endpoints'[target].role = draft.role
        /\ endpoints'[target].dataset = draft.dataset
    BY <2>1 DEF Put, Stored
  <2>3. \A n \in Active' : n # target => n \in Active /\ endpoints'[n] = endpoints[n]
    BY <2>1 DEF Put, Active
  <2> QED
    BY <2>1, <2>2, <2>3 DEF DatasetConnectedOnce, ConnectedAs
<1> QED
  BY <1>3, <1>4, <1>5, <1>6, <1>7, <1>8, <1>9, <1>10, AutoIsNamed
  DEF Next, CallStep, IoStep, EstablishNamed

-----------------------------------------------------------------------------
(* The theorems.                                                           *)

\* The invariant is inductive.
THEOREM InvHolds == Spec => []Inv
<1>1. Inv /\ [Next]_vars => Inv'
  BY TypeStep, LifeStep, SessionStep, ViewStep, OnceStep DEF Inv
<1> QED
  BY InitInv, <1>1, PTL DEF Spec

\* For every configuration, every variable of the engine keeps its kind and
\* m_mutex is held exactly by the call or the shutdown that is inside.
THEOREM TypeCorrect == Spec => []TypeOK
<1>1. Inv => TypeOK
  BY DEF Inv
<1> QED
  BY InvHolds, <1>1, PTL

\* A name whose view was left half-made stays out of service, however many
\* connections and names there are: establish never creates a node on top of
\* one that a failed establish or an earlier endpoint left behind.
THEOREM PoisonedStaysOut == Spec => []PoisonedOutOfService
<1>1. Inv => PoisonedOutOfService
  BY DEF Inv, ViewInv
<1> QED
  BY InvHolds, <1>1, PTL

\* An output dataset is never published twice and an input dataset never fed
\* by two peers: the check at the start of establish is still good when the
\* endpoint is stored, with the io thread running in between.
THEOREM ConnectedOnce == Spec => []DatasetConnectedOnce
<1>1. Inv => DatasetConnectedOnce
  BY DEF Inv
<1> QED
  BY InvHolds, <1>1, PTL

\* The endpoints that exist stay, each with its functional entity.
LEMMA BindingStep ==
    Inv /\ Next => \A n \in DOMAIN endpoints :
                      n \in DOMAIN endpoints' /\ endpoints'[n].entity = endpoints[n].entity
<1> SUFFICES ASSUME Inv, Next, NEW n \in DOMAIN endpoints
             PROVE  n \in DOMAIN endpoints' /\ endpoints'[n].entity = endpoints[n].entity
  OBVIOUS
<1> USE DEF Inv
<1>3. CASE StartPubSub \/ StartFx \/ StartFxFails \/ RefuseCall \/ Close
           \/ ShutdownFx \/ ShutdownNext \/ ShutdownDone \/ ShutdownPubSub \/ CallbackMissed
  BY <1>3 DEF StartPubSub, StartFx, StartFxFails, RefuseCall, Close, ShutdownFx,
              ShutdownNext, ShutdownDone, ShutdownPubSub, CallbackMissed, nodeVars
<1>4. CASE AddWriter \/ AddReader \/ AddFails \/ CreateView \/ CreateViewFails \/ UndoEstablish
           \/ QueryDataSeen \/ RemoveConnection
  BY <1>4 DEF AddWriter, AddReader, AddFails, CreateView, CreateViewFails, UndoEstablish,
              QueryDataSeen, RemoveConnection, nodeVars
<1>5. ASSUME NEW m \in Names, NEW e \in Entities, NEW role \in Roles, NEW d \in Datasets,
             NEW k \in PeerKeys, Admit(m, e, role, d, k)
      PROVE  endpoints' = endpoints
  BY <1>5 DEF Admit, nodeVars
<1>6. ASSUME NEW k \in PeerKeys, Receive(k) PROVE endpoints' = endpoints
  BY <1>6 DEF Receive, nodeVars
<1>7. CASE ReportEstablished
  BY <1>7 DEF ReportEstablished, SetStatus, TypeOK, Endpoint
<1>8. CASE CallbackDone
  BY <1>8 DEF CallbackDone, TypeOK, Endpoint
<1>9. CASE FinishClose \/ ShutdownClosed
  <2>1. endpoints' = Deactivated
    BY <1>9 DEF FinishClose, ShutdownClosed
  <2> QED
    BY <2>1 DEF Deactivated, TypeOK, Endpoint
<1>10. CASE StoreEndpoint
  <2>1. endpoints' = Put(endpoints, target, Stored)
    BY <1>10 DEF StoreEndpoint
  <2>2. target \in DOMAIN endpoints => endpoints[target].entity = draft.entity
    BY <1>10 DEF StoreEndpoint, SessionInv, BeforeStore, Reusable
  <2> QED
    BY <2>1, <2>2 DEF Put, Stored
<1> QED
  BY <1>3, <1>4, <1>5, <1>6, <1>7, <1>8, <1>9, <1>10, AutoIsNamed
  DEF Next, CallStep, IoStep, EstablishNamed

\* A connection name, once it is an endpoint, is never handed to another
\* functional entity by any step of establish, close, shutdown or the io thread.
THEOREM BindingHolds == Spec => EntityBinding
<1>1. Inv /\ [Next]_vars =>
        [\A n \in DOMAIN endpoints :
            n \in DOMAIN endpoints' /\ endpoints'[n].entity = endpoints[n].entity]_vars
  BY BindingStep
<1> QED
  BY InvHolds, <1>1, PTL DEF Spec, EntityBinding
-----------------------------------------------------------------------------
(* The ceiling.                                                            *)

\* The room found at the start of establish is still there when a new endpoint
\* is stored.
CeilingInv ==
    /\ IsFiniteSet(DOMAIN endpoints)
    /\ EndpointCeiling
    /\ pc \in BeforeStore /\ target \notin DOMAIN endpoints => BelowCeiling(draft.entity)

\* Below the ceiling when checked, at most at it when stored.
LEMMA CeilingStep == Inv /\ CeilingInv /\ [Next]_vars => CeilingInv'
<1> SUFFICES ASSUME Inv, CeilingInv, [Next]_vars PROVE CeilingInv'
  OBVIOUS
<1> USE DEF BeforeStore
<1>1. ASSUME DOMAIN endpoints' = DOMAIN endpoints,
             \A n \in DOMAIN endpoints : endpoints'[n].entity = endpoints[n].entity,
             \/ pc' \notin BeforeStore
             \/ pc \in BeforeStore /\ UNCHANGED <<target, draft>>
      PROVE  CeilingInv'
  <2>1. \A e : EndpointsOf(e)' = EndpointsOf(e)
    BY <1>1 DEF EndpointsOf
  <2> QED
    BY <1>1, <2>1 DEF CeilingInv, EndpointCeiling, BelowCeiling
<1>2. ASSUME UNCHANGED endpoints,
             \/ pc' \notin BeforeStore
             \/ pc \in BeforeStore /\ UNCHANGED <<target, draft>>
      PROVE  CeilingInv'
  BY <1>1, <1>2
<1>3. CASE UNCHANGED vars \/ StartPubSub \/ StartFx \/ StartFxFails \/ RefuseCall
           \/ ShutdownPubSub \/ CallbackMissed
  <2>1. UNCHANGED <<endpoints, pc, target, draft>>
    BY <1>3 DEF vars, StartPubSub, StartFx, StartFxFails, RefuseCall, ShutdownPubSub,
                CallbackMissed, callVars, nodeVars
  <2> QED
    BY <1>2, <2>1
<1>4. ASSUME NEW k \in PeerKeys, Receive(k) PROVE CeilingInv'
  <2>1. UNCHANGED <<endpoints, pc, target, draft>>
    BY <1>4 DEF Receive, callVars, nodeVars
  <2> QED
    BY <1>2, <2>1
<1>5. CASE ShutdownFx \/ ShutdownNext \/ ShutdownDone \/ Close \/ AddFails \/ UndoEstablish
           \/ QueryDataSeen \/ RemoveConnection
  BY <1>2, <1>5 DEF ShutdownFx, ShutdownNext, ShutdownDone, Close, AddFails, UndoEstablish,
                    QueryDataSeen, RemoveConnection, Return, nodeVars
<1>6. CASE AddWriter \/ AddReader \/ CreateView \/ CreateViewFails
  BY <1>2, <1>6 DEF AddWriter, AddReader, CreateView, CreateViewFails, nodeVars
<1>7. CASE ReportEstablished
  BY <1>1, <1>7 DEF ReportEstablished, Return, SetStatus, Inv, TypeOK, Endpoint
<1>8. CASE FinishClose \/ ShutdownClosed
  BY <1>1, <1>8 DEF FinishClose, ShutdownClosed, Return, Deactivated, Inv, TypeOK, Endpoint
<1>9. CASE CallbackDone
  <2>1. pc' = "idle"
    BY <1>9 DEF CallbackDone, callVars, Inv, TypeOK, HolderAt
  <2> QED
    BY <1>1, <1>9, <2>1 DEF CallbackDone, Inv, TypeOK, Endpoint
<1>10. ASSUME NEW n \in Names, NEW e \in Entities, NEW role \in Roles, NEW d \in Datasets,
              NEW k \in PeerKeys, Admit(n, e, role, d, k)
       PROVE  CeilingInv'
  <2>1. target' = n /\ draft'.entity = e /\ UNCHANGED endpoints
    BY <1>10 DEF Admit, nodeVars
  <2>2. n \notin DOMAIN endpoints => BelowCeiling(e)
    BY <1>10 DEF Admit, NameUsable
  <2>3. \A f : EndpointsOf(f)' = EndpointsOf(f)
    BY <2>1 DEF EndpointsOf
  <2> QED
    BY <2>1, <2>2, <2>3 DEF CeilingInv, EndpointCeiling, BelowCeiling
<1>11. CASE StoreEndpoint
  <2>1. /\ pc = "store" /\ pc' \notin BeforeStore
        /\ endpoints' = Put(endpoints, target, Stored) /\ draft.entity \in Entities
    BY <1>11 DEF StoreEndpoint, Inv, SessionInv, EstablishPcs, Draft
  <2>2. /\ DOMAIN endpoints' = DOMAIN endpoints \cup {target}
        /\ endpoints'[target].entity = draft.entity
        /\ \A n \in DOMAIN endpoints : n # target => endpoints'[n] = endpoints[n]
    BY <2>1 DEF Put, Stored
  <2>3. CASE target \in DOMAIN endpoints
    <3>1. endpoints[target].entity = draft.entity
      BY <2>1, <2>3 DEF Inv, SessionInv, Reusable
    <3> QED
      BY <1>1, <2>1, <2>2, <2>3, <3>1
  <2>4. CASE target \notin DOMAIN endpoints
    <3>1. IsFiniteSet(DOMAIN endpoints')
      BY <2>2, FS_AddElement DEF CeilingInv
    <3>2. \A e : EndpointsOf(e)' = IF e = draft.entity THEN EndpointsOf(e) \cup {target} ELSE EndpointsOf(e)
      BY <2>2, <2>4 DEF EndpointsOf
    <3>3. IsFiniteSet(EndpointsOf(draft.entity)) /\ target \notin EndpointsOf(draft.entity)
      BY <2>4, FS_Subset DEF CeilingInv, EndpointsOf
    <3>4. /\ Cardinality(EndpointsOf(draft.entity)) \in Nat
          /\ Cardinality(EndpointsOf(draft.entity) \cup {target}) = Cardinality(EndpointsOf(draft.entity)) + 1
      BY <3>3, FS_AddElement, FS_CardinalityType
    <3>5. Cardinality(EndpointsOf(draft.entity)) < MaxEndpointsPerEntity
      BY <2>1, <2>4 DEF CeilingInv, BelowCeiling
    <3>6. EndpointCeiling'
      BY <3>2, <3>4, <3>5, BoundAssumption DEF CeilingInv, EndpointCeiling
    <3> QED
      BY <2>1, <3>1, <3>6 DEF CeilingInv
  <2> QED
    BY <2>3, <2>4
<1> QED
  BY <1>3, <1>4, <1>5, <1>6, <1>7, <1>8, <1>9, <1>10, <1>11, AutoIsNamed
  DEF Inv, Next, CallStep, IoStep, EstablishNamed

\* There is no endpoint at first.
LEMMA CeilingInit == Init => CeilingInv
<1> SUFFICES ASSUME Init PROVE CeilingInv
  OBVIOUS
<1>1. DOMAIN endpoints = {} /\ \A e : EndpointsOf(e) = {}
  BY DEF Init, EmptyMap, EndpointsOf
<1>2. EndpointCeiling
  BY <1>1, FS_EmptySet, BoundAssumption DEF EndpointCeiling
<1>3. IsFiniteSet(DOMAIN endpoints) /\ pc \notin BeforeStore
  BY <1>1, FS_EmptySet DEF Init, BeforeStore
<1> QED
  BY <1>2, <1>3 DEF CeilingInv

\* However names are chosen, closed, reused and poisoned, no functional entity
\* ever has more endpoints than kMaxEndpointsPerEntity.
THEOREM CeilingHolds == Spec => []EndpointCeiling
<1>1. Inv /\ CeilingInv /\ [Next]_vars => CeilingInv'
  BY CeilingStep
<1>2. CeilingInv => EndpointCeiling
  BY DEF CeilingInv
<1> QED
  BY InvHolds, CeilingInit, <1>1, <1>2, PTL DEF Spec

-----------------------------------------------------------------------------
(* Automatic names.                                                        *)

\* The code makes cep-<i> for any i. The model's sequence of them is long enough
\* while it reaches as far as firstFreeAutoName looks.
NamesLeft == \A e \in Entities : BelowCeiling(e) => AutoBound <= Len(AutoNames)

\* A set of candidates has a first one.
LEMMA FirstOf == ASSUME NEW T \in SUBSET Nat, T # {} PROVE \E x \in T : \A y \in T : x <= y
<1> DEFINE R == {ss \in Nat \X Nat : ss[1] < ss[2]}
<1>1. IsWellFoundedOn(R, Nat)
  BY NatLessThanWellFounded DEF OpToRel
<1> HIDE DEF R
<1>2. PICK x \in T : \A y \in T : ~(<<y, x>> \in R)
  BY <1>1, WFMin
<1>3. \A y \in T : ~(y < x)
  BY <1>2 DEF R
<1> QED
  BY <1>3

\* Among one name more than there are endpoints and poisoned names together, one
\* is neither.
LEMMA FreshAutoName ==
    ASSUME IsFiniteSet(DOMAIN endpoints), IsFiniteSet(poisoned), AutoBound <= Len(AutoNames)
    PROVE  \E i \in 1..AutoBound : /\ i <= Len(AutoNames)
                                   /\ AutoNames[i] \notin poisoned /\ AutoNames[i] \notin DOMAIN endpoints
<1>1. PICK a \in Nat, b \in Nat : a = Cardinality(DOMAIN endpoints) /\ b = Cardinality(poisoned)
  BY FS_CardinalityType
<1> DEFINE U == DOMAIN endpoints \cup poisoned
<1>2. IsFiniteSet(U) /\ Cardinality(U) <= a + b
  <2>1. PICK c \in Nat : c = Cardinality(DOMAIN endpoints \cap poisoned)
    BY FS_Intersection, FS_CardinalityType
  <2>2. IsFiniteSet(U) /\ Cardinality(U) = a + b - c
    BY <1>1, <2>1, FS_Union
  <2> QED
    BY <2>1, <2>2
<1>3. PICK n \in Nat : n = AutoBound /\ n = a + b + 1
  BY <1>1 DEF AutoBound
<1>4. /\ \A i \in 1..n : i \in 1..Len(AutoNames)
      /\ \A i, j \in 1..Len(AutoNames) : AutoNames[i] = AutoNames[j] => i = j
  BY <1>3, NamesAssumption
<1>5. IsFiniteSet(1..n) /\ Cardinality(1..n) = n
  BY <1>3, FS_Interval
<1>6. ~(\A i \in 1..n : AutoNames[i] \in U)
  <2> SUFFICES ASSUME \A i \in 1..n : AutoNames[i] \in U PROVE FALSE
    OBVIOUS
  <2>1. PICK f : f = [i \in 1..n |-> AutoNames[i]]
    OBVIOUS
  <2>2. f \in [1..n -> U] /\ \A i \in 1..n : f[i] = AutoNames[i]
    BY <2>1
  <2>3. Cardinality(U) < Cardinality(1..n)
    BY <1>1, <1>2, <1>3, <1>5, FS_CardinalityType
  <2>4. \E x, y \in 1..n : x # y /\ f[x] = f[y]
    BY <1>2, <1>5, <2>2, <2>3, FS_PigeonHole
  <2> QED
    BY <1>4, <2>2, <2>4
<1> QED
  BY <1>1, <1>3, <1>4, <1>6, NamesAssumption

\* firstFreeAutoName yields a usable name whenever there is room or a closed
\* endpoint.
LEMMA AutoNamed ==
    Inv /\ IsFiniteSet(DOMAIN endpoints) /\ IsFiniteSet(poisoned) /\ NamesLeft => AutoNameAvailable
<1> SUFFICES ASSUME Inv, IsFiniteSet(DOMAIN endpoints), IsFiniteSet(poisoned), NamesLeft, NEW e \in Entities
             PROVE  /\ AutoNameChoices(e) # {} <=> BelowCeiling(e) \/ \E n \in EndpointsOf(e) : Reusable(n, e)
                    /\ \A n \in AutoNameChoices(e) : NameUsable(n, e)
  BY DEF AutoNameAvailable
<1>1. CASE BelowCeiling(e)
  <2>1. AutoCandidates(e) # {}
    <3>1. PICK i \in 1..AutoBound : /\ i <= Len(AutoNames)
                                    /\ AutoNames[i] \notin poisoned /\ AutoNames[i] \notin DOMAIN endpoints
      BY <1>1, FreshAutoName DEF NamesLeft
    <3>2. i \in AutoCandidates(e)
      BY <3>1 DEF AutoCandidates
    <3> QED
      BY <3>2
  <2>2. AutoCandidates(e) \subseteq Nat
    BY DEF AutoCandidates
  <2>3. PICK j \in AutoCandidates(e) : \A k \in AutoCandidates(e) : j <= k
    BY <2>1, <2>2, FirstOf
  <2>4. AutoNames[j] \in AutoNameChoices(e)
    BY <1>1, <2>1, <2>3 DEF AutoNameChoices
  <2>5. ASSUME NEW n \in AutoNameChoices(e) PROVE NameUsable(n, e)
    <3>1. PICK i \in AutoCandidates(e) : n = AutoNames[i]
      BY <1>1, <2>1 DEF AutoNameChoices
    <3> QED
      BY <1>1, <3>1 DEF AutoCandidates, NameUsable
  <2> QED
    BY <1>1, <2>4, <2>5
<1>2. CASE ~BelowCeiling(e)
  <2>1. AutoNameChoices(e) = {n \in EndpointsOf(e) : Reusable(n, e)}
    BY <1>2 DEF AutoNameChoices
  <2>2. \A n \in EndpointsOf(e) : n \in DOMAIN endpoints /\ n \notin poisoned
    BY DEF EndpointsOf, Inv, ViewInv, PoisonedOutOfService
  <2> QED
    BY <1>2, <2>1, <2>2 DEF NameUsable
<1> QED
  BY <1>1, <1>2

\* Poisoned names come one by one.
LEMMA PoisonStep == IsFiniteSet(poisoned) /\ Inv /\ [Next]_vars => IsFiniteSet(poisoned)'
<1> SUFFICES ASSUME IsFiniteSet(poisoned), Inv, [Next]_vars
             PROVE  poisoned' = poisoned \/ \E n : poisoned' = poisoned \cup {n}
  BY FS_AddElement
<1>1. CASE \/ UNCHANGED vars \/ StartPubSub \/ StartFx \/ StartFxFails \/ RefuseCall \/ Close \/ ShutdownFx
           \/ ShutdownNext \/ ShutdownDone \/ ShutdownClosed \/ ShutdownPubSub \/ CallbackMissed \/ CallbackDone
  BY <1>1 DEF vars, StartPubSub, StartFx, StartFxFails, RefuseCall, Close, ShutdownFx, ShutdownNext,
              ShutdownDone, ShutdownClosed, ShutdownPubSub, CallbackMissed, CallbackDone, nodeVars
<1>2. CASE \/ AddWriter \/ AddReader \/ AddFails \/ CreateView \/ CreateViewFails \/ UndoEstablish
           \/ StoreEndpoint \/ QueryDataSeen \/ ReportEstablished \/ RemoveConnection \/ FinishClose
  BY <1>2 DEF AddWriter, AddReader, AddFails, CreateView, CreateViewFails, UndoEstablish, StoreEndpoint,
              QueryDataSeen, ReportEstablished, RemoveConnection, FinishClose, nodeVars
<1>3. ASSUME NEW m \in Names, NEW e \in Entities, NEW role \in Roles, NEW d \in Datasets,
             NEW k \in PeerKeys, Admit(m, e, role, d, k)
      PROVE  poisoned' = poisoned
  BY <1>3 DEF Admit, nodeVars
<1>4. ASSUME NEW k \in PeerKeys, Receive(k) PROVE poisoned' = poisoned
  BY <1>4 DEF Receive, nodeVars
<1> QED
  BY <1>1, <1>2, <1>3, <1>4, AutoIsNamed DEF Inv, Next, CallStep, IoStep, EstablishNamed

\* Automatic naming never fails an entity that has room, or a closed endpoint to
\* reuse, however many names clients took and failures poisoned before: the
\* search bound of firstFreeAutoName is always enough.
THEOREM AutoNamesNeverRunOut == Spec /\ []NamesLeft => []AutoNameAvailable
<1>1. Init => CeilingInv /\ IsFiniteSet(poisoned)
  BY CeilingInit, FS_EmptySet DEF Init
<1>2. CeilingInv => IsFiniteSet(DOMAIN endpoints)
  BY DEF CeilingInv
<1> QED
  BY InvHolds, <1>1, <1>2, CeilingStep, PoisonStep, AutoNamed, PTL DEF Spec
=============================================================================
