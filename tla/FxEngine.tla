------------------------------ MODULE FxEngine ------------------------------
(***************************************************************************)
(* The control plane of OPC UA FX (src/Fx/src/FxEngine.cpp) over the tagged *)
(* dynamic API of the Pub/Sub engine (src/PubSub/src/PubSubEngine.cpp).     *)
(*                                                                         *)
(* Three kinds of threads meet here.                                       *)
(*   - OPC UA method threads run establishConnections and closeConnections. *)
(*     Each call holds m_mutex from its first line to its return, so one    *)
(*     call record (pc, target, draft) is enough for any number of callers: *)
(*     a caller that waits for the mutex has done nothing yet.              *)
(*   - The Pub/Sub io thread runs the tasks those calls post (and wait for) *)
(*     and handles datagrams, one handler at a time. A datagram's handler   *)
(*     may call back markSubscriberOperational, which try_locks m_mutex.    *)
(*   - The main thread starts the engines and shuts them down.              *)
(*                                                                         *)
(* A step of a call that waits for the io thread (addDynamic...,            *)
(* removeDynamic, readerDataSeen) is one action guarded by io = Idle: the   *)
(* task runs when the io thread is between handlers. PubSubEngine.tla has   *)
(* the inside of that thread.                                              *)
(***************************************************************************)
EXTENDS Naturals, FiniteSets, Sequences

CONSTANTS
    Entities,       \* the functional entities of the configuration
    Outputs,        \* Outputs[e]: the output datasets of entity e
    Inputs,         \* Inputs[e]:  the input datasets of entity e
    Names,          \* connection names
    AutoNames,      \* the sequence of automatic names cep-1, cep-2, ...
    PeerKeys,       \* (publisherId, writerGroupId, dataSetWriterId) of peers
    OwnerTag(_, _), \* "fx:<component>/<entity>/<name>" of an entity and a name
    StaticTag,      \* the empty owner tag of configured Pub/Sub entities
    StaticWriters,  \* coordinates of output datasets a static group also uses
    StaticReaders,  \* peer keys a static reader already listens to
    MaxEndpointsPerEntity,  \* kMaxEndpointsPerEntity
    MaxPoisoned,    \* bound: how many endpoint views may fail half-way
    NoName, NoDraft, Idle

Datasets == UNION {Outputs[e] \cup Inputs[e] : e \in Entities}

\* A dataset's wire coordinates. FxConfiguration.cpp makes every writerGroupId
\* of the component unique, so an output dataset is its own coordinate.
Coordinates == Entities \X Datasets

Roles == {"publisher", "subscriber"}
Statuses == {"Initial", "PreOperational", "Operational"}

\* Endpoint as stored in m_endpoints; status is the value of its Status node.
Endpoint == [entity: Entities, role: Roles, dataset: Datasets,
             active: BOOLEAN, status: Statuses]

\* The local variables of an establish in progress.
Draft == [entity: Entities, role: Roles, dataset: Datasets, key: PeerKeys]

\* Owner tags of Pub/Sub entities.
AllTags == {StaticTag} \cup {OwnerTag(e, n) : e \in Entities, n \in Names}

\* ReaderRuntime: owner, the connection its onFirstData names, dataSeen and
\* firstDataSignalled.
Reader == [tag: AllTags, name: Names \cup {NoName}, seen: BOOLEAN, signalled: BOOLEAN]

ASSUME ConfigurationAssumption ==
    /\ Outputs \in [Entities -> SUBSET Datasets]
    /\ Inputs \in [Entities -> SUBSET Datasets]
    /\ StaticWriters \subseteq Coordinates
    /\ StaticReaders \subseteq PeerKeys

ASSUME NamesAssumption ==
    /\ AutoNames \in Seq(Names)
    /\ \A i, j \in 1..Len(AutoNames) : AutoNames[i] = AutoNames[j] => i = j
    /\ NoName \notin Names
    /\ Idle \notin PeerKeys
    /\ NoDraft \notin Draft
    /\ \A e \in Entities, n \in Names : OwnerTag(e, n) # StaticTag

ASSUME BoundAssumption ==
    /\ MaxEndpointsPerEntity \in Nat
    /\ MaxPoisoned \in Nat

VARIABLES
    main,       \* where the main thread is
    started,    \* m_started
    mutex,      \* who holds m_mutex: "free", "call" or "main"
    pc,         \* where the holder of m_mutex is
    target,     \* the connection name the holder works on
    draft,      \* the establish in progress
    found,      \* what readerDataSeen answered the establish in progress
    endpoints,  \* m_endpoints: a partial function on Names
    poisoned,   \* m_poisonedNames
    view,       \* view[n]: how many of the four nodes of endpoint n exist
    plane,      \* "up" while the Pub/Sub engine runs
    writers,    \* active writer groups: coordinates -> owner tag
    readers,    \* active readers: peer key -> Reader
    io,         \* the peer key whose onFirstData is being called, or Idle
    reply       \* outcome of the last call that returned

planeVars == <<plane, writers, readers, io>>
nodeVars == <<endpoints, poisoned, view>>
callVars == <<pc, target, draft, found>>
vars == <<main, started, mutex, pc, target, draft, found, endpoints, poisoned,
          view, plane, writers, readers, io, reply>>

-----------------------------------------------------------------------------
(* Finite maps: std::map as a function with a changing domain.             *)

EmptyMap == [x \in {} |-> x]
Put(f, k, v) == [x \in DOMAIN f \cup {k} |-> IF x = k THEN v ELSE f[x]]
Only(f, S) == [x \in DOMAIN f \cap S |-> f[x]]

-----------------------------------------------------------------------------
(* Queries of the engine.                                                  *)

Active == {n \in DOMAIN endpoints : endpoints[n].active}

TagOf(n) == OwnerTag(endpoints[n].entity, n)

\* endpointCountOf
EndpointsOf(e) == {n \in DOMAIN endpoints : endpoints[n].entity = e}

\* Faulty variant of Reusable: a closed endpoint is handed to any entity.
ReusableByAny(n, e) == ~endpoints[n].active

\* An existing endpoint that an establish of entity e may take over.
Reusable(n, e) == ~endpoints[n].active /\ endpoints[n].entity = e

\* Faulty variant of ConnectedAs: the dataset is never looked up.
ConnectedUnchecked(e, role, d) == {}

\* activeConnectionNameFor
ConnectedAs(e, role, d) ==
    {n \in Active : /\ endpoints[n].entity = e
                    /\ endpoints[n].role = role
                    /\ endpoints[n].dataset = d}

\* Faulty variant of BelowCeiling: off by one.
AtOrBelowCeiling(e) == Cardinality(EndpointsOf(e)) <= MaxEndpointsPerEntity

BelowCeiling(e) == Cardinality(EndpointsOf(e)) < MaxEndpointsPerEntity

\* Faulty variant of AutoBound: poisoned names are not counted.
AutoBoundWithoutPoisoned == Cardinality(DOMAIN endpoints) + 1

\* The candidates cep-1 .. cep-bound of firstFreeAutoName that it would return.
AutoBound == Cardinality(DOMAIN endpoints) + Cardinality(poisoned) + 1
AutoCandidates(e) ==
    {i \in 1..AutoBound : /\ i <= Len(AutoNames)
                          /\ AutoNames[i] \notin poisoned
                          /\ AutoNames[i] \in DOMAIN endpoints => Reusable(AutoNames[i], e)}

\* firstFreeAutoName: the first candidate; at the ceiling any closed endpoint
\* of the entity (the first in the map's order, which the model leaves open).
\* No element: the function throws.
AutoNameChoices(e) ==
    IF BelowCeiling(e) /\ AutoCandidates(e) # {}
    THEN {AutoNames[i] : i \in {j \in AutoCandidates(e) : \A k \in AutoCandidates(e) : j <= k}}
    ELSE {n \in EndpointsOf(e) : Reusable(n, e)}

\* Faulty variant of NameUsable: poisoned names are not refused.
NameUsablePoisoned(n, e) == IF n \in DOMAIN endpoints THEN Reusable(n, e) ELSE BelowCeiling(e)

\* The checks establishConnections makes on the name, chosen or given.
NameUsable(n, e) ==
    /\ n \notin poisoned
    /\ IF n \in DOMAIN endpoints THEN Reusable(n, e) ELSE BelowCeiling(e)

\* The dynamic entities of an owner tag.
WritersOf(tag) == {c \in DOMAIN writers : writers[c] = tag}
ReadersOf(tag) == {k \in DOMAIN readers : readers[k].tag = tag}

-----------------------------------------------------------------------------
(* Start-up: BaseQuasarServer starts Pub/Sub, then Fx.                     *)

StaticReader == [tag |-> StaticTag, name |-> NoName, seen |-> FALSE, signalled |-> FALSE]

\* PubSub::Engine::startIfStaged: up only when a configuration was staged.
StartPubSub ==
    /\ main = "boot"
    /\ main' = "starting"
    /\ IF StaticWriters = {} /\ StaticReaders = {}
       THEN UNCHANGED planeVars
       ELSE /\ plane' = "up"
            /\ writers' = [c \in StaticWriters |-> StaticTag]
            /\ readers' = [k \in StaticReaders |-> StaticReader]
            /\ UNCHANGED io
    /\ UNCHANGED <<started, mutex, callVars, nodeVars, reply>>

\* Fx::Engine::startIfStaged: the model is built, ensureStarted brings the io
\* thread up if it is not, and m_started is set last.
StartFx ==
    /\ main = "starting"
    /\ main' = "serving"
    /\ plane' = "up"
    /\ started' = TRUE
    /\ UNCHANGED <<mutex, callVars, nodeVars, writers, readers, io, reply>>

\* buildRuntimes or buildModel throws: the server shuts Fx (not started, a
\* no-op) and Pub/Sub down.
StartFxFails ==
    /\ main = "starting"
    /\ main' = "stopping"
    /\ UNCHANGED <<started, mutex, callVars, nodeVars, planeVars, reply>>

-----------------------------------------------------------------------------
(* The end of a call: m_mutex is released with the outcome.                *)

Return(outcome) ==
    /\ mutex' = "free"
    /\ pc' = "idle"
    /\ target' = NoName
    /\ draft' = NoDraft
    /\ found' = FALSE
    /\ reply' = outcome

\* Every check of establishConnections and closeConnections that fails before
\* the first effect ends like this: not started, malformed or unknown members,
\* unknown entity, role, dataset or connection, name or dataset in use, ceiling.
RefuseCall ==
    /\ mutex = "free"
    /\ reply' = "refused"
    /\ UNCHANGED <<main, started, mutex, callVars, nodeVars, planeVars>>

-----------------------------------------------------------------------------
(* establishConnections.                                                   *)

\* All checks pass; what remains is the data plane, the nodes and the status.
Admit(n, e, role, d, k) ==
    /\ mutex = "free" /\ started
    /\ NameUsable(n, e)
    /\ ConnectedAs(e, role, d) = {}
    /\ d \in IF role = "publisher" THEN Outputs[e] ELSE Inputs[e]
    /\ mutex' = "call"
    /\ pc' = "add"
    /\ target' = n
    /\ draft' = [entity |-> e, role |-> role, dataset |-> d, key |-> k]
    /\ UNCHANGED <<main, started, found, nodeVars, planeVars, reply>>

EstablishNamed ==
    \E n \in Names, e \in Entities, role \in Roles, d \in Datasets, k \in PeerKeys :
        Admit(n, e, role, d, k)

EstablishAuto ==
    \E e \in Entities, role \in Roles, d \in Datasets, k \in PeerKeys :
        \E n \in AutoNameChoices(e) : Admit(n, e, role, d, k)

DraftTag == OwnerTag(draft.entity, target)
DraftCoordinate == <<draft.entity, draft.dataset>>

\* After the data plane: a new name gets its nodes first, a known one has them.
AfterAdd == IF target \in DOMAIN endpoints THEN "store" ELSE "nodes"

\* Faulty variant of AddWriter: the coordinates are not checked.
AddWriterUnchecked ==
    /\ pc = "add" /\ draft.role = "publisher"
    /\ io = Idle /\ plane = "up"
    /\ writers' = Put(writers, DraftCoordinate, DraftTag)
    /\ pc' = AfterAdd
    /\ UNCHANGED <<main, started, mutex, target, draft, found, nodeVars,
                   plane, readers, io, reply>>

\* addDynamicWriterGroup on the io thread.
AddWriter ==
    /\ pc = "add" /\ draft.role = "publisher"
    /\ io = Idle /\ plane = "up"
    /\ DraftCoordinate \notin DOMAIN writers
    /\ writers' = Put(writers, DraftCoordinate, DraftTag)
    /\ pc' = AfterAdd
    /\ UNCHANGED <<main, started, mutex, target, draft, found, nodeVars,
                   plane, readers, io, reply>>

NewReader == [tag |-> DraftTag, name |-> target, seen |-> FALSE, signalled |-> FALSE]

\* addDynamicReader on the io thread.
AddReader ==
    /\ pc = "add" /\ draft.role = "subscriber"
    /\ io = Idle /\ plane = "up"
    /\ draft.key \notin DOMAIN readers
    /\ readers' = Put(readers, draft.key, NewReader)
    /\ pc' = AfterAdd
    /\ UNCHANGED <<main, started, mutex, target, draft, found, nodeVars,
                   plane, writers, io, reply>>

\* The dynamic add throws: the coordinates are taken, or the socket cannot be
\* opened or bound. It leaves the Pub/Sub engine as it was.
AddFails ==
    /\ pc = "add"
    /\ io = Idle
    /\ Return("refused")
    /\ UNCHANGED <<main, started, nodeVars, planeVars>>

\* The object and its Status, Address and Dataset variables are created.
CreateView ==
    /\ pc = "nodes"
    /\ view' = [view EXCEPT ![target] = 4]
    /\ pc' = "store"
    /\ UNCHANGED <<main, started, mutex, target, draft, found, endpoints, poisoned,
                   planeVars, reply>>

\* One of the four nodes is refused (its node id exists): what was created
\* before it stays, and the handler goes on to undo the data plane.
CreateViewFails ==
    /\ pc = "nodes"
    /\ Cardinality(poisoned) < MaxPoisoned
    /\ \E i \in 0..3 : view' = [view EXCEPT ![target] = i]
    /\ pc' = "undo"
    /\ UNCHANGED <<main, started, mutex, target, draft, found, endpoints, poisoned,
                   planeVars, reply>>

\* removeDynamic on the io thread; a no-op when the engine is down.
RemoveDynamic(tag) ==
    /\ io = Idle
    /\ writers' = Only(writers, {c \in DOMAIN writers : writers[c] # tag})
    /\ readers' = Only(readers, {k \in DOMAIN readers : readers[k].tag # tag})
    /\ UNCHANGED <<plane, io>>

\* Faulty variant of UndoEstablish: the data plane is not rolled back.
UndoNodesOnly ==
    /\ pc = "undo"
    /\ poisoned' = poisoned \cup {target}
    /\ Return("refused")
    /\ UNCHANGED <<main, started, endpoints, view, planeVars>>

\* The rollback of a half-created view: no data plane, a poisoned name.
UndoEstablish ==
    /\ pc = "undo"
    /\ RemoveDynamic(DraftTag)
    /\ poisoned' = poisoned \cup {target}
    /\ Return("refused")
    /\ UNCHANGED <<main, started, endpoints, view>>

\* m_endpoints[name] = endpoint with active = true. The Status node still
\* shows what it showed: Initial for a new endpoint and for a closed one.
Stored ==
    [entity |-> draft.entity, role |-> draft.role, dataset |-> draft.dataset, active |-> TRUE,
     status |-> IF target \in DOMAIN endpoints THEN endpoints[target].status ELSE "Initial"]

StoreEndpoint ==
    /\ pc = "store"
    /\ endpoints' = Put(endpoints, target, Stored)
    /\ pc' = IF draft.role = "subscriber" THEN "query" ELSE "report"
    /\ UNCHANGED <<main, started, mutex, target, draft, found, poisoned, view,
                   planeVars, reply>>

\* Faulty variant of QueryDataSeen: any reader's data counts.
QueryAnyDataSeen ==
    /\ pc = "query"
    /\ io = Idle
    /\ found' = \E k \in DOMAIN readers : readers[k].seen
    /\ pc' = "report"
    /\ UNCHANGED <<main, started, mutex, target, draft, nodeVars, planeVars, reply>>

\* readerDataSeen on the io thread.
QueryDataSeen ==
    /\ pc = "query"
    /\ io = Idle
    /\ found' = \E k \in ReadersOf(DraftTag) : readers[k].seen
    /\ pc' = "report"
    /\ UNCHANGED <<main, started, mutex, target, draft, nodeVars, planeVars, reply>>

SetStatus(n, s) == endpoints' = [endpoints EXCEPT ![n].status = s]

ReportEstablished ==
    /\ pc = "report"
    /\ SetStatus(target, IF draft.role = "subscriber" /\ ~found
                         THEN "PreOperational" ELSE "Operational")
    /\ Return("good")
    /\ UNCHANGED <<main, started, poisoned, view, planeVars>>

-----------------------------------------------------------------------------
(* closeConnections, and the loop of shutdown over the active endpoints.   *)

Close ==
    /\ mutex = "free" /\ started
    /\ mutex' = "call"
    /\ pc' = "remove"
    /\ \E n \in Active : target' = n
    /\ UNCHANGED <<main, started, draft, found, nodeVars, planeVars, reply>>

\* removeDynamic(it->second.ownerTag)
RemoveConnection ==
    /\ pc = "remove"
    /\ RemoveDynamic(TagOf(target))
    /\ pc' = "closed"
    /\ UNCHANGED <<main, started, mutex, target, draft, found, nodeVars, reply>>

\* Faulty variant of Deactivated: the Status node is not reset.
DeactivatedOnly == [endpoints EXCEPT ![target].active = FALSE]

Deactivated == [endpoints EXCEPT ![target] = [@ EXCEPT !.active = FALSE, !.status = "Initial"]]

FinishClose ==
    /\ pc = "closed" /\ mutex = "call"
    /\ endpoints' = Deactivated
    /\ Return("good")
    /\ UNCHANGED <<main, started, poisoned, view, planeVars>>

\* Fx::Engine::shutdown takes m_mutex.
ShutdownFx ==
    /\ main = "serving"
    /\ mutex = "free"
    /\ main' = "closing"
    /\ mutex' = "main"
    /\ pc' = "scan"
    /\ UNCHANGED <<started, target, draft, found, nodeVars, planeVars, reply>>

ShutdownNext ==
    /\ pc = "scan"
    /\ pc' = "remove"
    /\ \E n \in Active : target' = n
    /\ UNCHANGED <<main, started, mutex, draft, found, nodeVars, planeVars, reply>>

ShutdownClosed ==
    /\ pc = "closed" /\ mutex = "main"
    /\ endpoints' = Deactivated
    /\ pc' = "scan"
    /\ target' = NoName
    /\ UNCHANGED <<main, started, mutex, draft, found, poisoned, view, planeVars, reply>>

\* Faulty variant of ShutdownDone: m_mutex is not released.
ShutdownKeepsMutex ==
    /\ pc = "scan"
    /\ Active = {}
    /\ started' = FALSE
    /\ main' = "stopping"
    /\ pc' = "idle"
    /\ UNCHANGED <<mutex, target, draft, found, nodeVars, planeVars, reply>>

ShutdownDone ==
    /\ pc = "scan"
    /\ Active = {}
    /\ started' = FALSE
    /\ main' = "stopping"
    /\ mutex' = "free"
    /\ pc' = "idle"
    /\ UNCHANGED <<target, draft, found, nodeVars, planeVars, reply>>

\* PubSub::Engine::shutdown: joins the io thread, so no handler is running,
\* and clears the containers.
ShutdownPubSub ==
    /\ main = "stopping"
    /\ io = Idle
    /\ main' = "down"
    /\ plane' = "down"
    /\ writers' = EmptyMap
    /\ readers' = EmptyMap
    /\ UNCHANGED <<started, mutex, callVars, nodeVars, io, reply>>

-----------------------------------------------------------------------------
(* The io thread: a datagram for a known reader, and its callback.         *)

\* handleDatagram applies the fields, sets dataSeen and, until it was
\* answered with true, calls onFirstData (static readers have none).
Receive(k) ==
    /\ io = Idle /\ plane = "up"
    /\ k \in DOMAIN readers
    /\ readers' = [readers EXCEPT ![k].seen = TRUE]
    /\ io' = IF readers[k].tag # StaticTag /\ ~readers[k].signalled THEN k ELSE Idle
    /\ UNCHANGED <<main, started, mutex, callVars, nodeVars, plane, writers, reply>>

\* Faulty variant of CallbackMissed: lock in place of try_lock, the callback
\* waits while a call holds the mutex.
CallbackWaits == io # Idle /\ mutex # "free" /\ UNCHANGED vars

\* Faulty variant of CallbackMissed: the missed callback counts as delivered.
CallbackForgotten ==
    /\ io # Idle
    /\ mutex # "free"
    /\ readers' = [readers EXCEPT ![io].signalled = TRUE]
    /\ io' = Idle
    /\ UNCHANGED <<main, started, mutex, callVars, nodeVars, plane, writers, reply>>

\* markSubscriberOperational: the try_lock fails, the next message retries.
CallbackMissed ==
    /\ io # Idle
    /\ mutex # "free"
    /\ io' = Idle
    /\ UNCHANGED <<main, started, mutex, callVars, nodeVars, plane, writers, readers, reply>>

\* markSubscriberOperational with the lock: Operational, if the endpoint is
\* still an active subscriber; firstDataSignalled either way.
CallbackDone ==
    /\ io # Idle
    /\ mutex = "free"
    /\ LET n == readers[io].name
       IN endpoints' = IF n \in Active /\ endpoints[n].role = "subscriber"
                       THEN [endpoints EXCEPT ![n].status = "Operational"]
                       ELSE endpoints
    /\ readers' = [readers EXCEPT ![io].signalled = TRUE]
    /\ io' = Idle
    /\ UNCHANGED <<main, started, mutex, callVars, poisoned, view, plane, writers, reply>>

-----------------------------------------------------------------------------

Init ==
    /\ main = "boot"
    /\ started = FALSE
    /\ mutex = "free"
    /\ pc = "idle"
    /\ target = NoName
    /\ draft = NoDraft
    /\ found = FALSE
    /\ endpoints = EmptyMap
    /\ poisoned = {}
    /\ view = [n \in Names |-> 0]
    /\ plane = "down"
    /\ writers = EmptyMap
    /\ readers = EmptyMap
    /\ io = Idle
    /\ reply = "none"

\* The rest of a call once it holds m_mutex.
CallStep ==
    \/ AddWriter \/ AddReader \/ AddFails
    \/ CreateView \/ CreateViewFails \/ UndoEstablish
    \/ StoreEndpoint \/ QueryDataSeen \/ ReportEstablished
    \/ RemoveConnection \/ FinishClose
    \/ ShutdownNext \/ ShutdownClosed \/ ShutdownDone

IoStep == CallbackMissed \/ CallbackDone

Next ==
    \/ StartPubSub \/ StartFx \/ StartFxFails
    \/ RefuseCall \/ EstablishNamed \/ EstablishAuto \/ Close
    \/ ShutdownFx \/ ShutdownPubSub
    \/ CallStep
    \/ IoStep
    \/ \E k \in PeerKeys : Receive(k)

Spec == Init /\ [][Next]_vars

\* A thread inside a call and the io thread inside a handler are scheduled by
\* the operating system. A posted task waits its turn behind datagrams but the
\* io_context serves its queue in order, so it is not overtaken for ever:
\* strong fairness. Nothing obliges a client to call or a peer to publish.
FairSpec == Spec /\ SF_vars(CallStep) /\ WF_vars(IoStep)

-----------------------------------------------------------------------------
(* Properties.                                                             *)

EstablishPcs == {"add", "nodes", "undo", "store", "query", "report"}

\* Where the holder of m_mutex can be.
HolderAt ==
    \/ mutex = "free" /\ pc = "idle"
    \/ mutex = "call" /\ pc \in EstablishPcs \cup {"remove", "closed"}
    \/ mutex = "main" /\ pc \in {"scan", "remove", "closed"}

\* Every variable holds a value of its kind, and m_endpoints, the writer groups
\* and the readers stay maps over names, coordinates and peer keys.
TypeOK ==
    /\ main \in {"boot", "starting", "serving", "closing", "stopping", "down"}
    /\ started \in BOOLEAN
    /\ HolderAt
    /\ target \in Names \cup {NoName}
    /\ draft \in Draft \cup {NoDraft}
    /\ found \in BOOLEAN
    /\ DOMAIN endpoints \subseteq Names
    /\ endpoints \in [DOMAIN endpoints -> Endpoint]
    /\ poisoned \subseteq Names
    /\ view \in [Names -> 0..4]
    /\ plane \in {"up", "down"}
    /\ DOMAIN writers \subseteq Coordinates
    /\ writers \in [DOMAIN writers -> AllTags]
    /\ DOMAIN readers \subseteq PeerKeys
    /\ readers \in [DOMAIN readers -> Reader]
    /\ io \in PeerKeys \cup {Idle}
    /\ reply \in {"none", "good", "refused"}

DynamicWriters == {c \in DOMAIN writers : writers[c] # StaticTag}
DynamicReaders == {k \in DOMAIN readers : readers[k].tag # StaticTag}

\* Between calls the control plane and the data plane agree: an active
\* publisher endpoint has exactly the writer group of its dataset, an active
\* subscriber endpoint exactly one reader, and no dynamic writer group or
\* reader outlives, or is missing from, the endpoint that owns it (establish
\* wires before it stores and rolls back on failure; close and shutdown
\* remove by owner tag; Fx goes down before Pub/Sub).
DataPlaneMatches ==
    mutex = "free" =>
        /\ \A n \in Active :
            LET ep == endpoints[n]
            IN IF ep.role = "publisher"
               THEN /\ WritersOf(TagOf(n)) = {<<ep.entity, ep.dataset>>}
                    /\ ReadersOf(TagOf(n)) = {}
               ELSE /\ WritersOf(TagOf(n)) = {}
                    /\ \E k \in PeerKeys : ReadersOf(TagOf(n)) = {k} /\ readers[k].name = n
        /\ \A c \in DynamicWriters : \E n \in Active : writers[c] = TagOf(n)
        /\ \A k \in DynamicReaders : \E n \in Active : readers[k].tag = TagOf(n)

\* A subscriber endpoint shows Operational only while its own reader, the one
\* of the current establish, has applied data. The status is written by the io
\* thread's callback and by the establish that asks readerDataSeen; a status
\* left over from an earlier session of the same name would break this.
OperationalMeansData ==
    \A n \in Active :
        /\ endpoints[n].role = "subscriber"
        /\ endpoints[n].status = "Operational"
        /\ pc = "closed" => target # n
        => \E k \in ReadersOf(TagOf(n)) : readers[k].seen

\* A name whose view was left half-made never becomes an endpoint, every
\* endpoint has its whole view, and no node of a view is ever created on top
\* of an existing one (nodes are permanent, so a retry would collide).
PoisonedOutOfService ==
    /\ poisoned \cap DOMAIN endpoints = {}
    /\ \A n \in DOMAIN endpoints : view[n] = 4
    /\ pc = "nodes" => view[target] = 0

\* One dataset has at most one connection per role: the wire never carries two
\* streams of one output dataset, nor do two peers write one input dataset.
DatasetConnectedOnce ==
    \A m, n \in Active :
        /\ endpoints[m].entity = endpoints[n].entity
        /\ endpoints[m].role = endpoints[n].role
        /\ endpoints[m].dataset = endpoints[n].dataset
        => m = n

\* The permanent endpoints of one entity never exceed kMaxEndpointsPerEntity,
\* counted when the endpoint is stored, several steps after the check.
EndpointCeiling ==
    \A e \in Entities : Cardinality(EndpointsOf(e)) <= MaxEndpointsPerEntity

\* Auto-naming keeps working for the lifetime of the server: below the ceiling,
\* or with a closed endpoint to reuse, firstFreeAutoName yields a name, and one
\* that the checks after it accept, however many names were flooded or poisoned.
AutoNameAvailable ==
    \A e \in Entities :
        /\ AutoNameChoices(e) # {} <=> BelowCeiling(e) \/ \E n \in EndpointsOf(e) : Reusable(n, e)
        /\ \A n \in AutoNameChoices(e) : NameUsable(n, e)

\* An endpoint, once made, stays with its functional entity: its node lives in
\* that entity's folder, so a name is never handed to another entity.
EntityBinding ==
    [][\A n \in DOMAIN endpoints :
          n \in DOMAIN endpoints' /\ endpoints'[n].entity = endpoints[n].entity]_vars

\* Every call returns and shutdown ends: a call that holds m_mutex waits for
\* the io thread, whose callback must therefore never wait for m_mutex.
CallsReturn == mutex # "free" ~> mutex = "free"

\* With a peer that keeps publishing (weak fairness of its datagrams, which
\* only this property assumes) and the control plane left alone, a subscriber
\* becomes Operational: the try_lock that failed is retried by later messages.
DataMakesOperational ==
    \A k \in PeerKeys :
        (<>[](mutex = "free") /\ WF_vars(Receive(k)))
        => <>[](\A n \in Active :
                  (endpoints[n].role = "subscriber" /\ k \in ReadersOf(TagOf(n)))
                  => endpoints[n].status = "Operational")

-----------------------------------------------------------------------------
(* Refinement of FxConnections: what a client sees of each name.           *)

Shown ==
    [n \in Names |-> IF n \in DOMAIN endpoints THEN endpoints[n].status
                     ELSE IF n \in poisoned THEN "broken" ELSE "absent"]

Link ==
    [n \in Names |->
        IF \E c \in DOMAIN writers, e \in Entities : writers[c] = OwnerTag(e, n) THEN "publisher"
        ELSE IF \E k \in DOMAIN readers : readers[k].name = n THEN "subscriber" ELSE "none"]

Fed == {n \in Names : \E k \in DOMAIN readers : readers[k].name = n /\ readers[k].seen}

Connections == INSTANCE FxConnections WITH shown <- Shown, link <- Link, fed <- Fed

\* The engine implements what FxConnections promises a client: states change
\* in the order of the endpoint state machine, a status of PreOperational or
\* Operational is only entered with a data plane behind it, closing one
\* connection cuts no other, and a broken name never comes back.
ConnectionsRefined == Connections!ConnectionsSpec

\* The Pub/Sub entities that exist, with their owner tags.
Owned ==
    {[kind |-> "writer", wire |-> c, tag |-> writers[c]] : c \in DOMAIN writers}
    \cup {[kind |-> "reader", wire |-> k, tag |-> readers[k].tag] : k \in DOMAIN readers}

\* The data plane this module assumes is the one PubSubEngine.tla implements.
Plane == INSTANCE DataPlane WITH
            Kinds <- {"writer", "reader"}, Wires <- Coordinates \cup PeerKeys,
            OwnerTags <- AllTags, up <- plane = "up", owned <- Owned

\* Fx uses the Pub/Sub engine within its contract: it adds only on coordinates
\* that are free, removes by owner tag, and never reaches an engine that is
\* down (Fx starts after it and stops before it).
DataPlaneContract == Plane!PlaneSpec

-----------------------------------------------------------------------------
(* What the documentation says of the engine and the code does not do.     *)

\* FX-ARCHITECTURE.md: "a refused establish leaves no trace". A refusal after
\* the first node was made leaves nodes and a poisoned name behind.
RefusalLeavesNoTrace ==
    mutex = "free" => \A n \in Names : n \notin DOMAIN endpoints => view[n] = 0

=============================================================================
