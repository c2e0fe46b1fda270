------------------------- MODULE FxRefinementProofs -------------------------
(***************************************************************************)
(* The Fx engine between its two neighbours, for every configuration: it   *)
(* uses the Pub/Sub engine within the contract of DataPlane, and it gives  *)
(* its clients the connections of FxConnections.                           *)
(***************************************************************************)
EXTENDS FxPlaneProofs

-----------------------------------------------------------------------------
(* Below: the contract with the Pub/Sub engine.                            *)

\* Fx calls Pub/Sub only while Pub/Sub runs: it is started no later than Fx and
\* stopped after it. A Pub/Sub engine that is down holds nothing.
UpInv ==
    /\ main = "boot" => plane = "down"
    /\ main \in {"serving", "closing"} => plane = "up"
    /\ plane = "down" => DOMAIN writers = {} /\ DOMAIN readers = {}

\* Start-up and shutdown keep that order, and only a running engine gains an
\* entity.
LEMMA UpStep == Inv /\ UpInv /\ [Next]_vars => UpInv'
<1> SUFFICES ASSUME Inv, UpInv, [Next]_vars PROVE UpInv'
  OBVIOUS
<1>1. ASSUME UNCHANGED <<plane, writers, readers>>,
             main' = main \/ (main = "serving" /\ main' = "closing") \/ main' = "stopping"
      PROVE  UpInv'
  BY <1>1 DEF UpInv
<1>2. CASE \/ UNCHANGED vars \/ StartFxFails \/ RefuseCall \/ Close \/ ShutdownFx \/ ShutdownNext
           \/ ShutdownClosed \/ ShutdownDone \/ CallbackMissed
  BY <1>1, <1>2 DEF vars, StartFxFails, RefuseCall, Close, ShutdownFx, ShutdownNext, ShutdownClosed,
                    ShutdownDone, CallbackMissed, planeVars
<1>3. CASE \/ AddFails \/ CreateView \/ CreateViewFails \/ StoreEndpoint \/ QueryDataSeen
           \/ ReportEstablished \/ FinishClose
  BY <1>1, <1>3 DEF AddFails, CreateView, CreateViewFails, StoreEndpoint, QueryDataSeen,
                    ReportEstablished, FinishClose, planeVars
<1>4. ASSUME NEW n \in Names, NEW e \in Entities, NEW role \in Roles, NEW d \in Datasets,
             NEW k \in PeerKeys, Admit(n, e, role, d, k)
      PROVE  UpInv'
  BY <1>1, <1>4 DEF Admit, planeVars
<1>5. CASE StartPubSub \/ StartFx \/ ShutdownPubSub
  BY <1>5 DEF StartPubSub, StartFx, ShutdownPubSub, UpInv, EmptyMap, planeVars
<1>6. CASE AddWriter \/ AddReader
  BY <1>6 DEF AddWriter, AddReader, UpInv
<1>7. CASE UndoEstablish \/ RemoveConnection
  <2>1. UNCHANGED <<main, plane>> /\ DOMAIN writers' \subseteq DOMAIN writers
        /\ DOMAIN readers' \subseteq DOMAIN readers
    BY <1>7 DEF UndoEstablish, RemoveConnection, RemoveDynamic, Only
  <2> QED
    BY <2>1 DEF UpInv
<1>8. ASSUME NEW k \in PeerKeys, Receive(k) PROVE UpInv'
  BY <1>8 DEF Receive, UpInv
<1>9. CASE CallbackDone
  BY <1>9 DEF CallbackDone, UpInv
<1> QED
  BY <1>2, <1>3, <1>4, <1>5, <1>6, <1>7, <1>8, <1>9, AutoIsNamed
  DEF Inv, Next, CallStep, IoStep, EstablishNamed

\* A call, and the shutdown that excludes calls, run on a running data plane.
LEMMA UpInCalls == Inv /\ UpInv /\ mutex # "free" => plane = "up"
  BY DEF Inv, LifeInv, TypeOK, HolderAt, UpInv

\* The entities are of the kinds DataPlane knows.
LEMMA OwnedTyped == TypeOK => Owned \subseteq Plane!Entity
<1> SUFFICES ASSUME TypeOK PROVE Owned \subseteq Plane!Entity
  OBVIOUS
<1>1. \A c \in DOMAIN writers : c \in Coordinates /\ writers[c] \in AllTags
  BY DEF TypeOK
<1>2. \A k \in DOMAIN readers : k \in PeerKeys /\ readers[k].tag \in AllTags
  BY DEF TypeOK, Reader
<1> QED
  BY <1>1, <1>2 DEF Owned, Plane!Entity

\* They stay while the maps hold the same keys under the same tags.
LEMMA OwnedKept ==
    ASSUME UNCHANGED writers, DOMAIN readers' = DOMAIN readers,
           \A k \in DOMAIN readers : readers'[k].tag = readers[k].tag
    PROVE  Owned' = Owned
  BY DEF Owned

\* establishConnections adds one writer group, on free coordinates.
LEMMA AddWriterRefines == ASSUME Inv, AddWriter PROVE \E x \in Plane!Entity : Plane!Add(x)
<1>1. PICK c \in Coordinates, t \in AllTags : c = DraftCoordinate /\ t = DraftTag
  BY DEF AddWriter, Inv, SessionInv, EstablishPcs, Draft, DraftCoordinate, DraftTag, Coordinates, AllTags
<1>2. /\ plane = "up" /\ c \notin DOMAIN writers /\ UNCHANGED <<plane, readers>>
      /\ writers' = Put(writers, c, t)
  BY <1>1 DEF AddWriter
<1> DEFINE x == [kind |-> "writer", wire |-> c, tag |-> t]
<1>3. x \in Plane!Entity
  BY DEF Plane!Entity
<1>4. DOMAIN writers' = DOMAIN writers \cup {c} /\ writers'[c] = t
      /\ \A b \in DOMAIN writers : writers'[b] = writers[b]
  BY <1>2 DEF Put
<1>5. Owned' = Owned \cup {x}
  BY <1>2, <1>4 DEF Owned
<1>6. Plane!Free("writer", c)
  BY <1>2 DEF Plane!Free, Owned
<1>7. Plane!Add(x)
  BY <1>2, <1>5, <1>6 DEF Plane!Add
<1> QED
  BY <1>3, <1>7

\* Or one reader, on a free key.
LEMMA AddReaderRefines == ASSUME Inv, AddReader PROVE \E x \in Plane!Entity : Plane!Add(x)
<1>1. PICK k \in PeerKeys, t \in AllTags : k = draft.key /\ t = DraftTag
  BY DEF AddReader, Inv, SessionInv, EstablishPcs, Draft, DraftTag, AllTags
<1>2. /\ plane = "up" /\ k \notin DOMAIN readers /\ UNCHANGED <<plane, writers>>
      /\ readers' = Put(readers, k, NewReader)
  BY <1>1 DEF AddReader
<1> DEFINE x == [kind |-> "reader", wire |-> k, tag |-> t]
<1>3. x \in Plane!Entity
  BY DEF Plane!Entity
<1>4. DOMAIN readers' = DOMAIN readers \cup {k} /\ readers'[k].tag = t
      /\ \A j \in DOMAIN readers : readers'[j] = readers[j]
  BY <1>1, <1>2 DEF Put, NewReader
<1>5. Owned' = Owned \cup {x}
  BY <1>2, <1>4 DEF Owned
<1>6. Plane!Free("reader", k)
  BY <1>2 DEF Plane!Free, Owned
<1>7. Plane!Add(x)
  BY <1>2, <1>5, <1>6 DEF Plane!Add
<1> QED
  BY <1>3, <1>7

\* The roll-back of an establish, a close and the shutdown remove one owner tag.
LEMMA RemoveRefines ==
    ASSUME NEW t \in AllTags, plane = "up", RemoveDynamic(t)
    PROVE  Plane!Remove(t)
<1>1. /\ DOMAIN writers' = {c \in DOMAIN writers : writers[c] # t}
      /\ \A c \in DOMAIN writers' : writers'[c] = writers[c]
      /\ DOMAIN readers' = {k \in DOMAIN readers : readers[k].tag # t}
      /\ \A k \in DOMAIN readers' : readers'[k] = readers[k]
      /\ UNCHANGED plane
  BY DEF RemoveDynamic, Only
<1>2. Owned' = {x \in Owned : x.tag # t}
  <2> DEFINE Q == {x \in Owned : x.tag # t}
  <2>1. \A y : y \in Owned' => y \in Q
    BY <1>1 DEF Owned
  <2>2. \A y : y \in Q => y \in Owned'
    BY <1>1 DEF Owned
  <2> QED
    BY <2>1, <2>2
<1> QED
  BY <1>1, <1>2 DEF Plane!Remove

\* Every step of the Fx engine is one the contract allows, or leaves the data
\* plane alone.
LEMMA ContractStep ==
    Inv /\ Inv' /\ UpInv /\ [Next]_vars => [Plane!PlaneNext]_(Plane!planeStateVars)
<1> SUFFICES ASSUME Inv, Inv', UpInv, [Next]_vars
             PROVE  Plane!PlaneNext \/ UNCHANGED <<plane = "up", Owned>>
  BY DEF Plane!planeStateVars
<1>1. ASSUME UNCHANGED <<plane, writers, readers>> PROVE UNCHANGED <<plane = "up", Owned>>
  BY <1>1 DEF Owned
<1>2. CASE \/ UNCHANGED vars \/ StartFxFails \/ RefuseCall \/ Close \/ ShutdownFx \/ ShutdownNext
           \/ ShutdownClosed \/ ShutdownDone \/ CallbackMissed
  BY <1>1, <1>2 DEF vars, StartFxFails, RefuseCall, Close, ShutdownFx, ShutdownNext, ShutdownClosed,
                    ShutdownDone, CallbackMissed, planeVars
<1>3. CASE \/ AddFails \/ CreateView \/ CreateViewFails \/ StoreEndpoint \/ QueryDataSeen
           \/ ReportEstablished \/ FinishClose
  BY <1>1, <1>3 DEF AddFails, CreateView, CreateViewFails, StoreEndpoint, QueryDataSeen,
                    ReportEstablished, FinishClose, planeVars
<1>4. ASSUME NEW n \in Names, NEW e \in Entities, NEW role \in Roles, NEW d \in Datasets,
             NEW k \in PeerKeys, Admit(n, e, role, d, k)
      PROVE  UNCHANGED <<plane = "up", Owned>>
  BY <1>1, <1>4 DEF Admit, planeVars
<1>5. CASE StartPubSub \/ StartFx
  <2>1. CASE UNCHANGED <<plane, writers, readers>>
    BY <1>1, <2>1
  <2>2. CASE plane = "down" /\ plane' = "up"
    <3>1. (Owned \subseteq Plane!Entity)'
      BY OwnedTyped, PTL DEF Inv
    <3>2. Owned' \subseteq Plane!Entity
      BY <3>1 DEF Plane!Entity
    <3>3. Plane!Start
      BY <2>2, <3>2 DEF Plane!Start
    <3> QED
      BY <3>3 DEF Plane!PlaneNext
  <2> QED
    BY <1>5, <2>1, <2>2 DEF StartPubSub, StartFx, UpInv, planeVars, Inv, TypeOK
<1>6. CASE AddWriter \/ AddReader
  BY <1>6, AddWriterRefines, AddReaderRefines DEF Plane!PlaneNext
<1>7. CASE UndoEstablish
  <2>1. PICK t \in AllTags : t = DraftTag
    BY <1>7 DEF UndoEstablish, Inv, SessionInv, EstablishPcs, Draft, DraftTag, AllTags
  <2>2. RemoveDynamic(t) /\ plane = "up"
    BY <1>7, <2>1, UpInCalls DEF UndoEstablish, Inv, TypeOK, HolderAt
  <2> QED
    BY <2>2, RemoveRefines DEF Plane!PlaneNext
<1>8. CASE RemoveConnection
  <2>1. PICK t \in AllTags : t = TagOf(target)
    BY <1>8 DEF RemoveConnection, Inv, SessionInv, Active, TypeOK, Endpoint, TagOf, AllTags
  <2>2. RemoveDynamic(t) /\ plane = "up"
    BY <1>8, <2>1, UpInCalls DEF RemoveConnection, Inv, TypeOK, HolderAt
  <2> QED
    BY <2>2, RemoveRefines DEF Plane!PlaneNext
<1>9. CASE ShutdownPubSub
  <2>1. Owned' = {} /\ plane' = "down"
    BY <1>9 DEF ShutdownPubSub, Owned, EmptyMap
  <2>2. CASE plane = "up"
    BY <2>1, <2>2 DEF Plane!Stop, Plane!PlaneNext
  <2>3. CASE plane = "down"
    <3>1. Owned = {}
      BY <2>3 DEF UpInv, Owned
    <3> QED
      BY <2>1, <2>3, <3>1
  <2> QED
    BY <2>2, <2>3 DEF Inv, TypeOK
<1>10. ASSUME NEW k \in PeerKeys, Receive(k) PROVE UNCHANGED <<plane = "up", Owned>>
  <2>1. /\ UNCHANGED <<plane, writers>> /\ DOMAIN readers' = DOMAIN readers
        /\ \A j \in DOMAIN readers : readers'[j].tag = readers[j].tag
    BY <1>10 DEF Receive, Inv, TypeOK, Reader
  <2> QED
    BY <2>1, OwnedKept
<1>11. CASE CallbackDone
  <2>1. /\ UNCHANGED <<plane, writers>> /\ DOMAIN readers' = DOMAIN readers
        /\ \A j \in DOMAIN readers : readers'[j].tag = readers[j].tag
    BY <1>11 DEF CallbackDone, Inv, TypeOK, Reader
  <2> QED
    BY <2>1, OwnedKept
<1> QED
  BY <1>2, <1>3, <1>4, <1>5, <1>6, <1>7, <1>8, <1>9, <1>10, <1>11, AutoIsNamed
  DEF Inv, Next, CallStep, IoStep, EstablishNamed

\* For every configuration, colliding owner tags included: the Fx engine adds
\* Pub/Sub entities only on free coordinates, removes them by owner tag, and
\* does either only between the start and the stop of the Pub/Sub engine.
THEOREM UsesDataPlane == Spec => DataPlaneContract
<1>1. Init => Plane!PlaneInit /\ UpInv
  BY DEF Init, Plane!PlaneInit, UpInv, Owned, EmptyMap
<1>2. Inv /\ UpInv /\ [Next]_vars => UpInv'
  BY UpStep
<1> QED
  BY InvHolds, <1>1, <1>2, ContractStep, PTL DEF Spec, DataPlaneContract, Plane!PlaneSpec

-----------------------------------------------------------------------------
(* Above: what a client sees of its connections.                           *)

\* A configured reader calls nobody back.
NameInv == \A k \in DOMAIN readers : readers[k].tag = StaticTag => readers[k].name = NoName

\* An active endpoint shows Initial only while the establish that stored it has
\* not reported yet.
ShowInv ==
    \A n \in Active : endpoints[n].status = "Initial" <=> (pc \in {"query", "report"} /\ n = target)

\* Only dynamic readers get the name of a connection.
LEMMA NameStep == Inv /\ NameInv /\ [Next]_vars => NameInv'
<1> SUFFICES ASSUME Inv, NameInv, [Next]_vars PROVE NameInv'
  OBVIOUS
<1>1. ASSUME DOMAIN readers' \subseteq DOMAIN readers,
             \A k \in DOMAIN readers' : readers'[k].tag = readers[k].tag /\ readers'[k].name = readers[k].name
      PROVE  NameInv'
  BY <1>1 DEF NameInv
<1>2. CASE \/ UNCHANGED vars \/ StartFx \/ StartFxFails \/ RefuseCall \/ Close \/ ShutdownFx
           \/ ShutdownNext \/ ShutdownClosed \/ ShutdownDone \/ CallbackMissed
  <2>1. UNCHANGED readers
    BY <1>2 DEF vars, StartFx, StartFxFails, RefuseCall, Close, ShutdownFx, ShutdownNext,
                ShutdownClosed, ShutdownDone, CallbackMissed, planeVars
  <2> QED
    BY <1>1, <2>1
<1>3. CASE \/ AddWriter \/ AddFails \/ CreateView \/ CreateViewFails \/ StoreEndpoint
           \/ QueryDataSeen \/ ReportEstablished \/ FinishClose
  <2>1. UNCHANGED readers
    BY <1>3 DEF AddWriter, AddFails, CreateView, CreateViewFails, StoreEndpoint, QueryDataSeen,
                ReportEstablished, FinishClose, planeVars
  <2> QED
    BY <1>1, <2>1
<1>4. ASSUME NEW n \in Names, NEW e \in Entities, NEW role \in Roles, NEW d \in Datasets,
             NEW k \in PeerKeys, Admit(n, e, role, d, k)
      PROVE  NameInv'
  BY <1>1, <1>4 DEF Admit, planeVars
<1>5. CASE StartPubSub
  <2>1. CASE UNCHANGED readers
    BY <1>1, <2>1
  <2>2. CASE readers' = [k \in StaticReaders |-> StaticReader]
    BY <2>2 DEF NameInv, StaticReader
  <2> QED
    BY <1>5, <2>1, <2>2 DEF StartPubSub, planeVars
<1>6. CASE AddReader
  <2>1. DraftTag # StaticTag
    BY <1>6, NamesAssumption DEF AddReader, DraftTag, Inv, SessionInv, EstablishPcs, Draft
  <2>2. readers' = Put(readers, draft.key, NewReader) /\ NewReader.tag = DraftTag
    BY <1>6 DEF AddReader, NewReader
  <2> QED
    BY <2>1, <2>2 DEF NameInv, Put
<1>7. CASE UndoEstablish \/ RemoveConnection
  <2>1. DOMAIN readers' \subseteq DOMAIN readers /\ \A k \in DOMAIN readers' : readers'[k] = readers[k]
    BY <1>7 DEF UndoEstablish, RemoveConnection, RemoveDynamic, Only
  <2> QED
    BY <1>1, <2>1
<1>8. CASE ShutdownPubSub
  BY <1>8 DEF ShutdownPubSub, NameInv, EmptyMap
<1>9. ASSUME NEW k \in PeerKeys, Receive(k) PROVE NameInv'
  BY <1>1, <1>9 DEF Receive, Inv, TypeOK, Reader
<1>10. CASE CallbackDone
  BY <1>1, <1>10 DEF CallbackDone, Inv, TypeOK, Reader
<1> QED
  BY <1>2, <1>3, <1>4, <1>5, <1>6, <1>7, <1>8, <1>9, <1>10, AutoIsNamed
  DEF Inv, Next, CallStep, IoStep, EstablishNamed

\* Every establish that stores an endpoint goes on to report it.
LEMMA ShowStep == Inv /\ StatusInv /\ ShowInv /\ [Next]_vars => ShowInv'
<1> SUFFICES ASSUME Inv, StatusInv, ShowInv, [Next]_vars PROVE ShowInv'
  OBVIOUS
<1>1. ASSUME UNCHANGED <<pc, target, endpoints>> PROVE ShowInv'
  BY <1>1 DEF ShowInv, Active
<1>2. ASSUME UNCHANGED endpoints, pc \notin {"query", "report"}, pc' \notin {"query", "report"}
      PROVE  ShowInv'
  BY <1>2 DEF ShowInv, Active
<1>3. CASE \/ UNCHANGED vars \/ StartPubSub \/ StartFx \/ StartFxFails \/ RefuseCall
           \/ ShutdownPubSub \/ CallbackMissed
  BY <1>1, <1>3 DEF vars, StartPubSub, StartFx, StartFxFails, RefuseCall, ShutdownPubSub,
                    CallbackMissed, callVars, nodeVars
<1>4. ASSUME NEW k \in PeerKeys, Receive(k) PROVE ShowInv'
  BY <1>1, <1>4 DEF Receive, callVars, nodeVars
<1>5. CASE Close \/ ShutdownFx \/ ShutdownNext \/ ShutdownDone
  BY <1>2, <1>5 DEF Close, ShutdownFx, ShutdownNext, ShutdownDone, nodeVars, Inv, TypeOK, HolderAt
<1>6. ASSUME NEW n \in Names, NEW e \in Entities, NEW role \in Roles, NEW d \in Datasets,
             NEW k \in PeerKeys, Admit(n, e, role, d, k)
      PROVE  ShowInv'
  BY <1>2, <1>6 DEF Admit, nodeVars, Inv, TypeOK, HolderAt
<1>7. CASE AddWriter \/ AddReader \/ AddFails \/ CreateView \/ CreateViewFails \/ UndoEstablish
           \/ RemoveConnection
  BY <1>2, <1>7 DEF AddWriter, AddReader, AddFails, CreateView, CreateViewFails, UndoEstablish,
                    RemoveConnection, AfterAdd, Return, nodeVars
<1>8. CASE QueryDataSeen
  BY <1>8 DEF QueryDataSeen, nodeVars, ShowInv, Active
<1>9. CASE StoreEndpoint
  <2>1. /\ pc = "store" /\ pc' \in {"query", "report"} /\ UNCHANGED target
        /\ endpoints' = Put(endpoints, target, Stored)
    BY <1>9 DEF StoreEndpoint
  <2>2. target \notin Active
    BY <2>1, TargetUnwired DEF BeforeStore
  <2>3. endpoints'[target].status = "Initial"
    BY <2>1, <2>2 DEF Put, Stored, StatusInv
  <2>4. \A n \in Active' : n # target => n \in Active /\ endpoints'[n] = endpoints[n]
    BY <2>1 DEF Put, Active
  <2> QED
    BY <2>1, <2>3, <2>4 DEF ShowInv
<1>10. CASE ReportEstablished
  <2>1. /\ pc = "report" /\ pc' = "idle" /\ DOMAIN endpoints' = DOMAIN endpoints
        /\ target \in Active /\ endpoints'[target].status # "Initial"
        /\ \A n \in DOMAIN endpoints : n # target => endpoints'[n] = endpoints[n]
    BY <1>10 DEF ReportEstablished, Return, SetStatus, Inv, SessionInv, TypeOK, Endpoint, Active
  <2> QED
    BY <2>1 DEF ShowInv, Active
<1>11. CASE FinishClose \/ ShutdownClosed
  <2>1. /\ pc = "closed" /\ pc' \in {"idle", "scan"} /\ endpoints' = Deactivated /\ target \in Active
    BY <1>11 DEF FinishClose, ShutdownClosed, Return, Inv, SessionInv
  <2>2. Active' = Active \ {target} /\ \A n \in Active' : endpoints'[n] = endpoints[n]
    BY <2>1 DEF Active, Deactivated, Inv, TypeOK, Endpoint
  <2> QED
    BY <2>1, <2>2 DEF ShowInv
<1>12. CASE CallbackDone
  <2>1. pc = "idle" /\ pc' = "idle"
    BY <1>12 DEF CallbackDone, callVars, Inv, TypeOK, HolderAt
  <2>2. \A n \in Active' : n \in Active /\ endpoints'[n].status \in {"Operational", endpoints[n].status}
    BY <1>12 DEF CallbackDone, Active, Inv, TypeOK, Endpoint
  <2> QED
    BY <2>1, <2>2 DEF ShowInv
<1> QED
  BY <1>3, <1>4, <1>5, <1>6, <1>7, <1>8, <1>9, <1>10, <1>11, <1>12, AutoIsNamed
  DEF Inv, Next, CallStep, IoStep, EstablishNamed

\* Everything that is known between two steps.
ConnectionInv == PlaneInv /\ CallbackInv /\ StatusInv /\ NameInv /\ ShowInv

\* The link a client can rely on is that of a wired connection, in its role; and
\* a connection is fed by the reader of its own tag.
LinksKnown ==
    \A n \in Names : /\ Link[n] = IF n \in Wired THEN Side(n).role ELSE "none"
                     /\ n \in Wired => Side(n).role \in Roles
                     /\ \A k \in DOMAIN readers : readers[k].name = n =>
                           n \in Wired /\ Side(n).role = "subscriber" /\ readers[k].tag = SideTag(n)

\* With distinct tags the maps lead from each link to its one connection.
LEMMA LinkIs == ASSUME DistinctTags PROVE Inv /\ ConnectionInv => LinksKnown
<1> SUFFICES ASSUME Inv, ConnectionInv, NEW n \in Names
             PROVE  /\ Link[n] = IF n \in Wired THEN Side(n).role ELSE "none"
                    /\ n \in Wired => Side(n).role \in Roles
                    /\ \A k \in DOMAIN readers : readers[k].name = n =>
                          /\ n \in Wired /\ Side(n).role = "subscriber"
                          /\ readers[k].tag = SideTag(n)
  BY DEF LinksKnown
<1> USE DEF ConnectionInv
<1>1. n \in Wired => Side(n).role \in Roles
  <2>1. CASE n \in Drafted
    BY <2>1 DEF Inv, Side, Drafted, SessionInv, EstablishPcs, Draft
  <2>2. CASE n \notin Drafted
    BY <2>2 DEF Inv, Wired, Linked, Side, Active, TypeOK, Endpoint
  <2> QED
    BY <2>1, <2>2
<1>2. \A k \in DOMAIN readers : readers[k].name = n =>
         n \in Wired /\ Side(n).role = "subscriber" /\ readers[k].tag = SideTag(n)
  BY NamesAssumption DEF PlaneInv, ReaderInv, NameInv
<1>3. ASSUME NEW c \in DOMAIN writers, NEW e \in Entities, writers[c] = OwnerTag(e, n)
      PROVE  n \in Wired /\ Side(n).role = "publisher"
  <2>1. writers[c] # StaticTag
    BY <1>3, NamesAssumption
  <2>2. PICK m \in Wired : Side(m).role = "publisher" /\ writers[c] = SideTag(m)
    BY <2>1 DEF PlaneInv, WriterInv
  <2>3. m = n
    BY <1>3, <2>2, WiredTyped DEF DistinctTags, SideTag
  <2> QED
    BY <2>2, <2>3
<1>4. ASSUME n \in Wired, Side(n).role = "publisher"
      PROVE  \E c \in DOMAIN writers, e \in Entities : writers[c] = OwnerTag(e, n)
  <2>1. SideCoordinate(n) \in DOMAIN writers /\ writers[SideCoordinate(n)] = SideTag(n)
    BY <1>4 DEF PlaneInv, WriterInv
  <2>2. Side(n).entity \in Entities
    BY <1>4, WiredTyped
  <2> QED
    BY <2>1, <2>2 DEF SideTag
<1>5. ASSUME n \in Wired, Side(n).role = "subscriber"
      PROVE  \E k \in DOMAIN readers : readers[k].name = n
  BY <1>5 DEF PlaneInv, ReaderInv
<1>6. Link[n] = IF n \in Wired THEN Side(n).role ELSE "none"
  BY <1>1, <1>2, <1>3, <1>4, <1>5 DEF Link, Roles
<1> QED
  BY <1>1, <1>2, <1>6

\* removeDynamic of the tag of one wired connection cuts that one alone.
LEMMA CutsOne ==
    ASSUME DistinctTags, Inv, ConnectionInv, Inv', ConnectionInv',
           NEW m \in Wired, Wired' = Wired \ {m}, \A n \in Wired \ {m} : Side(n)' = Side(n),
           RemoveDynamic(SideTag(m))
    PROVE  Link' = [Link EXCEPT ![m] = "none"] /\ Fed' = Fed \ {m}
<1>1. m \in Names
  BY WiredTyped
<1>2. \A n \in Names : Link'[n] = IF n \in Wired' THEN Side(n)'.role ELSE "none"
  <2>1. LinksKnown'
    BY LinkIs, PTL
  <2> QED
    BY <2>1 DEF LinksKnown
<1>3. Link' = [Link EXCEPT ![m] = "none"]
  <2>1. \A n \in Names : Link'[n] = IF n = m THEN "none" ELSE Link[n]
    BY <1>2, LinkIs DEF LinksKnown
  <2>2. DOMAIN Link = Names /\ Link = [n \in Names |-> Link[n]] /\ Link' = [n \in Names |-> Link'[n]]
    BY DEF Link
  <2> HIDE DEF Link
  <2> QED
    BY <1>1, <2>1, <2>2
<1>4. /\ DOMAIN readers' = {k \in DOMAIN readers : readers[k].tag # SideTag(m)}
      /\ \A k \in DOMAIN readers' : readers'[k] = readers[k]
  BY DEF RemoveDynamic, Only
<1>5. ASSUME NEW n \in Names PROVE n \in Fed' <=> n \in Fed /\ n # m
  <2>1. n # m /\ n \in Wired => SideTag(n) # SideTag(m)
    BY <1>1, WiredTyped DEF DistinctTags, SideTag
  <2>2. \A k \in DOMAIN readers : readers[k].name = n => n \in Wired /\ readers[k].tag = SideTag(n)
    BY LinkIs DEF LinksKnown
  <2>3. n \in Fed' <=> \E k \in DOMAIN readers' : readers'[k].name = n /\ readers'[k].seen
    BY DEF Fed
  <2>4. n \in Fed <=> \E k \in DOMAIN readers : readers[k].name = n /\ readers[k].seen
    BY DEF Fed
  <2>5. \A k \in DOMAIN readers : readers[k].name = n => (k \in DOMAIN readers' <=> n # m)
    BY <1>4, <2>1, <2>2
  <2> QED
    BY <1>4, <2>3, <2>4, <2>5
<1>6. Fed' \subseteq Names /\ Fed \subseteq Names
  BY DEF Fed
<1> QED
  BY <1>3, <1>5, <1>6

\* A dynamic add opens the link of one connection, with a reader that has seen
\* nothing.
LEMMA OpensOne ==
    ASSUME DistinctTags, Inv, ConnectionInv, Inv', ConnectionInv',
           NEW m \in Names, NEW role, Wired' = Wired \cup {m}, \A n \in Wired : Side(n)' = Side(n),
           Side(m)'.role = role, m \notin Wired
    PROVE  Link[m] = "none" /\ Link' = [Link EXCEPT ![m] = role]
<1>1. \A n \in Names : Link'[n] = IF n \in Wired' THEN Side(n)'.role ELSE "none"
  <2>1. LinksKnown'
    BY LinkIs, PTL
  <2> QED
    BY <2>1 DEF LinksKnown
<1>2. \A n \in Names : Link'[n] = IF n = m THEN role ELSE Link[n]
  BY <1>1, LinkIs DEF LinksKnown
<1>3. DOMAIN Link = Names /\ Link = [n \in Names |-> Link[n]] /\ Link' = [n \in Names |-> Link'[n]]
  BY DEF Link
<1>4. Link[m] = "none"
  BY LinkIs DEF LinksKnown
<1> HIDE DEF Link
<1> QED
  BY <1>2, <1>3, <1>4

\* Without wired connections there is no link and nothing is fed.
LEMMA NoLinks ==
    ASSUME DistinctTags
    PROVE  Inv /\ ConnectionInv /\ Wired = {} => Link = [n \in Names |-> "none"] /\ Fed = {}
<1> SUFFICES ASSUME Inv, ConnectionInv, Wired = {} PROVE Link = [n \in Names |-> "none"] /\ Fed = {}
  OBVIOUS
<1>1. \A n \in Names : Link[n] = "none" /\ \A k \in DOMAIN readers : readers[k].name # n
  BY LinkIs DEF LinksKnown
<1>2. Link = [n \in Names |-> Link[n]]
  BY DEF Link
<1>3. Fed = {}
  BY <1>1 DEF Fed
<1> QED
  BY <1>1, <1>2, <1>3

\* The status a client reads changes at one name at a time.
LEMMA ShowsOne ==
    ASSUME UNCHANGED poisoned, TypeOK, NEW m \in Names, NEW st,
           DOMAIN endpoints' = DOMAIN endpoints \cup {m}, endpoints'[m].status = st,
           \A n \in DOMAIN endpoints : n # m => endpoints'[n] = endpoints[n]
    PROVE  Shown' = [Shown EXCEPT ![m] = st]
  BY DEF Shown

\* A step of the engine that changes neither endpoints nor maps is invisible.
LEMMA Invisible ==
    ASSUME UNCHANGED <<endpoints, poisoned, writers, readers>> PROVE UNCHANGED <<Shown, Link, Fed>>
  BY DEF Shown, Link, Fed

\* Adding the writer group or the reader of an establish opens the link of its
\* name.
LEMMA AddOpens ==
    ASSUME DistinctTags, Inv, ConnectionInv, Inv', ConnectionInv', AddWriter \/ AddReader
    PROVE  Connections!ConnectionsNext
<1>1. PICK m \in Names, role \in Roles : m = target /\ role = draft.role
  BY DEF AddWriter, AddReader, Inv, SessionInv, EstablishPcs, Draft
<1>2. /\ pc = "add" /\ pc' \in {"nodes", "store"} /\ UNCHANGED <<target, draft, endpoints, poisoned>>
      /\ target \notin Wired /\ target \notin Active
  BY TargetUnwired DEF AddWriter, AddReader, AfterAdd, nodeVars, BeforeStore, Wired, Drafted, Linked
<1>3. Wired' = Wired \cup {m} /\ \A n \in Wired : Side(n)' = Side(n)
  BY <1>1, <1>2 DEF Wired, Drafted, Linked, Active, Side
<1>4. Side(m)'.role = role
  BY <1>1, <1>2 DEF Side, Drafted
<1>5. Link[m] = "none" /\ Link' = [Link EXCEPT ![m] = role]
  BY <1>1, <1>2, <1>3, <1>4, OpensOne
<1>6. Shown' = Shown
  BY <1>2 DEF Shown
<1>7. Shown[m] \in {"absent", "Initial"}
  <2>1. m \notin poisoned
    BY <1>1, <1>2 DEF Inv, ViewInv, BeforeStore
  <2> QED
    BY <1>1, <1>2, <2>1 DEF Shown, ConnectionInv, StatusInv
<1>8. Fed' = Fed
  <2>1. CASE AddWriter
    BY <2>1 DEF AddWriter, Fed
  <2>2. CASE AddReader
    <3>1. /\ draft.key \notin DOMAIN readers /\ DOMAIN readers' = DOMAIN readers \cup {draft.key}
          /\ ~readers'[draft.key].seen
          /\ \A k \in DOMAIN readers : readers'[k] = readers[k]
      BY <2>2 DEF AddReader, Put, NewReader
    <3> QED
      BY <3>1 DEF Fed
  <2> QED
    BY <2>1, <2>2
<1>9. Connections!Open(m, role)
  BY <1>5, <1>6, <1>7, <1>8 DEF Connections!Open
<1> QED
  BY <1>9 DEF Connections!ConnectionsNext, Roles

\* A datagram feeds the connection its reader serves; that of a configured reader
\* is none of the client's business.
LEMMA ReceiveFeeds ==
    ASSUME DistinctTags, Inv, ConnectionInv, NEW k \in PeerKeys, Receive(k)
    PROVE  Connections!ConnectionsNext \/ UNCHANGED <<Shown, Link, Fed>>
<1>1. /\ k \in DOMAIN readers /\ UNCHANGED <<endpoints, poisoned, writers>>
      /\ DOMAIN readers' = DOMAIN readers
      /\ readers'[k].name = readers[k].name /\ readers'[k].seen
      /\ \A j \in DOMAIN readers : j # k => readers'[j] = readers[j]
  BY DEF Receive, nodeVars, Inv, TypeOK, Reader
<1>2. Shown' = Shown /\ Link' = Link
  BY <1>1 DEF Shown, Link
<1>3. PICK m \in Names \cup {NoName} : m = readers[k].name
  BY <1>1 DEF Inv, TypeOK, Reader
<1>4. CASE m \in Names
  <2>1. Link[m] = "subscriber"
    BY <1>1, <1>3, <1>4, LinkIs DEF LinksKnown
  <2>2. Fed' = Fed \cup {m}
    BY <1>1, <1>3, <1>4 DEF Fed
  <2>3. Connections!Feed(m)
    BY <1>2, <2>1, <2>2 DEF Connections!Feed
  <2> QED
    BY <1>4, <2>3 DEF Connections!ConnectionsNext
<1>5. CASE m = NoName
  <2>1. readers[k].name \notin Names /\ readers'[k].name \notin Names
    BY <1>1, <1>3, <1>5, NamesAssumption
  <2>2. Fed' = Fed
    BY <1>1, <2>1 DEF Fed
  <2> QED
    BY <1>2, <2>2
<1> QED
  BY <1>4, <1>5

\* Storing the endpoint makes a new name appear; a reused name shows what it
\* showed.
LEMMA StoreAppears ==
    ASSUME DistinctTags, Inv, ConnectionInv, StoreEndpoint
    PROVE  Connections!ConnectionsNext \/ UNCHANGED <<Shown, Link, Fed>>
<1>1. PICK m \in Names : m = target
  BY DEF StoreEndpoint, Inv, SessionInv, EstablishPcs
<1>2. /\ pc = "store" /\ UNCHANGED <<writers, readers, poisoned>> /\ m \notin poisoned
      /\ endpoints' = Put(endpoints, m, Stored)
  BY <1>1 DEF StoreEndpoint, planeVars, Inv, ViewInv, BeforeStore
<1>3. Link' = Link /\ Fed' = Fed
  BY <1>2 DEF Link, Fed
<1>4. /\ DOMAIN endpoints' = DOMAIN endpoints \cup {m} /\ endpoints'[m] = Stored
      /\ \A n \in DOMAIN endpoints : n # m => endpoints'[n] = endpoints[n]
  BY <1>2 DEF Put
<1>5. CASE m \in DOMAIN endpoints
  <2>1. endpoints'[m].status = endpoints[m].status
    BY <1>1, <1>4, <1>5 DEF Stored
  <2>2. Shown' = Shown
    BY <1>2, <1>4, <1>5, <2>1 DEF Shown
  <2> QED
    BY <1>3, <2>2
<1>6. CASE m \notin DOMAIN endpoints
  <2>1. endpoints'[m].status = "Initial"
    BY <1>1, <1>4, <1>6 DEF Stored
  <2>2. Shown' = [Shown EXCEPT ![m] = "Initial"]
    BY <1>2, <1>4, <2>1, ShowsOne DEF Inv
  <2>3. Shown[m] = "absent"
    BY <1>2, <1>6 DEF Shown
  <2>4. Link[m] # "none"
    <3>1. m \in Wired
      BY <1>1, <1>2 DEF Wired, Drafted
    <3> QED
      BY <3>1, LinkIs DEF LinksKnown, Roles
  <2>5. Connections!Appear(m)
    BY <1>3, <2>2, <2>3, <2>4 DEF Connections!Appear
  <2> QED
    BY <2>5 DEF Connections!ConnectionsNext
<1> QED
  BY <1>5, <1>6

\* The report of an establish: a publisher operates, a subscriber operates if its
\* reader has been fed and waits otherwise.
LEMMA ReportShows ==
    ASSUME DistinctTags, Inv, ConnectionInv, ReportEstablished PROVE Connections!ConnectionsNext
<1>1. PICK m \in Names : m = target
  BY DEF ReportEstablished, Inv, SessionInv, EstablishPcs
<1>2. /\ pc = "report" /\ UNCHANGED <<writers, readers, poisoned>>
      /\ m \in Active /\ endpoints[m].entity = draft.entity /\ endpoints[m].role = draft.role
      /\ endpoints[m].status = "Initial"
  BY <1>1 DEF ReportEstablished, planeVars, Inv, SessionInv, ConnectionInv, ShowInv
<1>3. Link' = Link /\ Fed' = Fed
  BY <1>2 DEF Link, Fed
<1> DEFINE st == IF draft.role = "subscriber" /\ ~found THEN "PreOperational" ELSE "Operational"
<1>4. /\ DOMAIN endpoints' = DOMAIN endpoints \cup {m} /\ endpoints'[m].status = st
      /\ \A n \in DOMAIN endpoints : n # m => endpoints'[n] = endpoints[n]
  BY <1>1, <1>2 DEF ReportEstablished, SetStatus, Active, Inv, TypeOK, Endpoint
<1>5. Shown' = [Shown EXCEPT ![m] = st]
  BY <1>2, <1>4, ShowsOne DEF Inv
<1>6. Shown[m] = "Initial"
  BY <1>2 DEF Shown, Active
<1>7. m \in Wired /\ Link[m] = draft.role /\ SideTag(m) = DraftTag
  <2>1. m \in Wired /\ Side(m).role = draft.role /\ Side(m).entity = draft.entity
    BY <1>1, <1>2 DEF Wired, Drafted, Linked, Side
  <2> QED
    BY <1>1, <2>1, LinkIs DEF LinksKnown, SideTag, DraftTag
<1>8. CASE draft.role = "subscriber" /\ ~found
  <2>1. Connections!Await(m)
    BY <1>3, <1>5, <1>6, <1>7, <1>8 DEF Connections!Await
  <2> QED
    BY <2>1 DEF Connections!ConnectionsNext
<1>9. CASE ~(draft.role = "subscriber" /\ ~found)
  <2>1. Link[m] = "publisher" \/ m \in Fed
    <3>1. CASE draft.role # "subscriber"
      BY <1>2, <1>7, <3>1 DEF Inv, TypeOK, Active, Endpoint, Roles
    <3>2. CASE found
      <4>1. PICK k \in ReadersOf(SideTag(m)) : readers[k].seen
        BY <1>7, <3>2 DEF ConnectionInv, StatusInv
      <4>2. readers[k].name = m
        BY <1>7, <4>1, TagOwner DEF ConnectionInv
      <4> QED
        BY <4>1, <4>2 DEF Fed, ReadersOf
    <3> QED
      BY <1>9, <3>1, <3>2
  <2>2. Connections!Operate(m)
    BY <1>3, <1>5, <1>6, <1>9, <2>1 DEF Connections!Operate
  <2> QED
    BY <2>2 DEF Connections!ConnectionsNext
<1> QED
  BY <1>8, <1>9

\* The first-data callback makes its subscriber operate, unless it does already.
LEMMA CallbackOperates ==
    ASSUME DistinctTags, Inv, ConnectionInv, CallbackDone
    PROVE  Connections!ConnectionsNext \/ UNCHANGED <<Shown, Link, Fed>>
<1>1. /\ io \in DOMAIN readers /\ readers[io].tag # StaticTag /\ readers[io].seen /\ pc = "idle"
      /\ UNCHANGED <<writers, poisoned>>
  BY DEF CallbackDone, ConnectionInv, CallbackInv, Inv, TypeOK, HolderAt
<1>2. /\ DOMAIN readers' = DOMAIN readers
      /\ \A k \in DOMAIN readers : readers'[k].name = readers[k].name /\ readers'[k].seen = readers[k].seen
  BY <1>1 DEF CallbackDone, Inv, TypeOK, Reader
<1>3. Link' = Link /\ Fed' = Fed
  BY <1>1, <1>2 DEF Link, Fed
<1>4. PICK m \in Active : m = readers[io].name
  BY <1>1 DEF ConnectionInv, PlaneInv, ReaderInv, Wired, Drafted, Linked
<1>5. m \in Names /\ m \in Fed /\ m \in DOMAIN endpoints
  BY <1>1, <1>4 DEF Fed, Active, Inv, TypeOK
<1>6. endpoints[m].role = "subscriber"
  <2>1. Side(m).role = "subscriber"
    BY <1>1, <1>4, <1>5, LinkIs DEF LinksKnown
  <2> QED
    BY <1>1, <2>1 DEF Side, Drafted
<1>7. /\ DOMAIN endpoints' = DOMAIN endpoints \cup {m} /\ endpoints'[m].status = "Operational"
      /\ \A n \in DOMAIN endpoints : n # m => endpoints'[n] = endpoints[n]
  BY <1>4, <1>5, <1>6 DEF CallbackDone, Inv, TypeOK, Endpoint
<1>8. Shown' = [Shown EXCEPT ![m] = "Operational"]
  BY <1>1, <1>5, <1>7, ShowsOne DEF Inv
<1>9. Shown[m] \in Statuses
  BY <1>5 DEF Shown, Inv, TypeOK, Endpoint
<1>10. CASE Shown[m] = "Operational"
  <2>1. Shown' = Shown
    BY <1>8, <1>10 DEF Shown
  <2> QED
    BY <1>3, <2>1
<1>11. CASE Shown[m] # "Operational"
  <2>1. Connections!Operate(m)
    BY <1>3, <1>5, <1>8, <1>9, <1>11 DEF Connections!Operate, Statuses
  <2> QED
    BY <1>5, <2>1 DEF Connections!ConnectionsNext
<1> QED
  BY <1>10, <1>11

\* closeConnections and shutdown cut the link of the connection they close.
LEMMA RemoveCuts ==
    ASSUME DistinctTags, Inv, ConnectionInv, Inv', ConnectionInv', RemoveConnection
    PROVE  Connections!ConnectionsNext
<1>1. PICK m \in Names : m = target /\ m \in Active
  BY DEF RemoveConnection, Inv, SessionInv, Active, TypeOK
<1>2. /\ pc = "remove" /\ pc' = "closed" /\ UNCHANGED <<target, endpoints, poisoned>>
      /\ RemoveDynamic(TagOf(m))
  BY <1>1 DEF RemoveConnection, nodeVars
<1>3. m \in Wired /\ SideTag(m) = TagOf(m)
  BY <1>1, <1>2 DEF Wired, Drafted, Linked, SideTag, Side, TagOf
<1>4. Wired' = Wired \ {m} /\ \A n \in Wired \ {m} : Side(n)' = Side(n)
  BY <1>1, <1>2 DEF Wired, Drafted, Linked, Active, Side
<1>5. Link' = [Link EXCEPT ![m] = "none"] /\ Fed' = Fed \ {m}
  BY <1>2, <1>3, <1>4, CutsOne
<1>6. Link[m] # "none"
  BY <1>3, LinkIs DEF LinksKnown, Roles
<1>7. Shown' = Shown
  BY <1>2 DEF Shown
<1>8. Shown[m] \in {"PreOperational", "Operational"}
  BY <1>1, <1>2 DEF Shown, Active, ConnectionInv, ShowInv, Inv, TypeOK, Endpoint, Statuses
<1>9. Connections!Cut(m)
  BY <1>5, <1>6, <1>7, <1>8 DEF Connections!Cut
<1> QED
  BY <1>9 DEF Connections!ConnectionsNext

\* The end of a close shows Initial again, with the link gone.
LEMMA CloseResets ==
    ASSUME DistinctTags, Inv, ConnectionInv, FinishClose \/ ShutdownClosed
    PROVE  Connections!ConnectionsNext
<1>1. PICK m \in Names : m = target /\ m \in Active
  BY DEF FinishClose, ShutdownClosed, Inv, SessionInv, Active, TypeOK
<1>2. /\ pc = "closed" /\ UNCHANGED <<writers, readers, poisoned>> /\ endpoints' = Deactivated
  BY DEF FinishClose, ShutdownClosed, planeVars
<1>3. Link' = Link /\ Fed' = Fed
  BY <1>2 DEF Link, Fed
<1>4. /\ DOMAIN endpoints' = DOMAIN endpoints \cup {m} /\ endpoints'[m].status = "Initial"
      /\ \A n \in DOMAIN endpoints : n # m => endpoints'[n] = endpoints[n]
  BY <1>1, <1>2 DEF Deactivated, Active, Inv, TypeOK, Endpoint
<1>5. Shown' = [Shown EXCEPT ![m] = "Initial"]
  BY <1>2, <1>4, ShowsOne DEF Inv
<1>6. Shown[m] \in {"PreOperational", "Operational"}
  BY <1>1, <1>2 DEF Shown, Active, ConnectionInv, ShowInv, Inv, TypeOK, Endpoint, Statuses
<1>7. Link[m] = "none"
  <2>1. m \notin Wired
    BY <1>1, <1>2 DEF Wired, Drafted, Linked
  <2> QED
    BY <2>1, LinkIs DEF LinksKnown
<1>8. Connections!Reset(m)
  BY <1>3, <1>5, <1>6, <1>7 DEF Connections!Reset
<1> QED
  BY <1>8 DEF Connections!ConnectionsNext

\* The roll-back of an establish whose nodes could not be made breaks the name.
LEMMA UndoBreaks ==
    ASSUME DistinctTags, Inv, ConnectionInv, Inv', ConnectionInv', UndoEstablish
    PROVE  Connections!ConnectionsNext
<1>1. PICK m \in Names : m = target
  BY DEF UndoEstablish, Inv, SessionInv, EstablishPcs
<1>2. /\ pc = "undo" /\ pc' = "idle" /\ UNCHANGED endpoints /\ RemoveDynamic(DraftTag)
      /\ poisoned' = poisoned \cup {m} /\ m \notin DOMAIN endpoints /\ m \notin poisoned
  BY <1>1 DEF UndoEstablish, Return, Inv, SessionInv, ViewInv, BeforeStore
<1>3. m \in Wired /\ SideTag(m) = DraftTag /\ m \notin Active
  BY <1>1, <1>2 DEF Wired, Drafted, SideTag, Side, DraftTag, Active
<1>4. Wired' = Wired \ {m} /\ \A n \in Wired \ {m} : Side(n)' = Side(n)
  BY <1>1, <1>2, <1>3 DEF Wired, Drafted, Linked, Active, Side
<1>5. Link' = [Link EXCEPT ![m] = "none"] /\ Fed' = Fed \ {m}
  BY <1>2, <1>3, <1>4, CutsOne
<1>6. Shown[m] = "absent" /\ Shown' = [Shown EXCEPT ![m] = "broken"]
  BY <1>2 DEF Shown
<1>7. Connections!Break(m)
  BY <1>5, <1>6 DEF Connections!Break
<1> QED
  BY <1>7 DEF Connections!ConnectionsNext

\* Every step of the engine is a step of some connection, or none at all.
LEMMA ConnectionStep ==
    ASSUME DistinctTags
    PROVE  Inv /\ Inv' /\ ConnectionInv /\ ConnectionInv' /\ [Next]_vars
           => [Connections!ConnectionsNext]_(Connections!connectionVars)
<1> SUFFICES ASSUME Inv, Inv', ConnectionInv, ConnectionInv', [Next]_vars
             PROVE  Connections!ConnectionsNext \/ UNCHANGED <<Shown, Link, Fed>>
  BY DEF Connections!connectionVars
<1>1. CASE \/ UNCHANGED vars \/ StartFx \/ StartFxFails \/ RefuseCall \/ Close \/ ShutdownFx
           \/ ShutdownNext \/ ShutdownDone \/ CallbackMissed
  BY <1>1, Invisible DEF vars, StartFx, StartFxFails, RefuseCall, Close, ShutdownFx, ShutdownNext,
                         ShutdownDone, CallbackMissed, nodeVars, planeVars
<1>2. CASE AddFails \/ CreateView \/ CreateViewFails \/ QueryDataSeen
  BY <1>2, Invisible DEF AddFails, CreateView, CreateViewFails, QueryDataSeen, nodeVars, planeVars
<1>3. ASSUME NEW n \in Names, NEW e \in Entities, NEW role \in Roles, NEW d \in Datasets,
             NEW k \in PeerKeys, Admit(n, e, role, d, k)
      PROVE  UNCHANGED <<Shown, Link, Fed>>
  BY <1>3, Invisible DEF Admit, nodeVars, planeVars
<1>4. CASE StartPubSub \/ ShutdownPubSub
  <2>1. Wired = {} /\ UNCHANGED <<pc, target, endpoints, poisoned>>
    BY <1>4 DEF StartPubSub, ShutdownPubSub, callVars, nodeVars, Inv, LifeInv, TypeOK, HolderAt,
                Wired, Drafted, Linked
  <2>2. Wired' = {}
    BY <2>1 DEF Wired, Drafted, Linked, Active
  <2>3. Link' = [n \in Names |-> "none"] /\ Fed' = {}
    <3>1. LinksKnown'
      BY LinkIs, PTL
    <3>2. \A n \in Names : Link'[n] = "none" /\ \A k \in DOMAIN readers' : readers'[k].name # n
      BY <2>2, <3>1 DEF LinksKnown
    <3>3. Link' = [n \in Names |-> Link'[n]]
      BY DEF Link
    <3>4. Fed' = {}
      BY <3>2 DEF Fed
    <3> QED
      BY <3>2, <3>3, <3>4
  <2>4. Link = [n \in Names |-> "none"] /\ Fed = {}
    BY <2>1, NoLinks
  <2>5. Shown' = Shown
    BY <2>1 DEF Shown
  <2> QED
    BY <2>3, <2>4, <2>5
<1>5. CASE AddWriter \/ AddReader
  BY <1>5, AddOpens
<1>6. CASE UndoEstablish
  BY <1>6, UndoBreaks
<1>7. CASE StoreEndpoint
  BY <1>7, StoreAppears
<1>8. CASE ReportEstablished
  BY <1>8, ReportShows
<1>9. CASE RemoveConnection
  BY <1>9, RemoveCuts
<1>10. CASE FinishClose \/ ShutdownClosed
  BY <1>10, CloseResets
<1>11. ASSUME NEW k \in PeerKeys, Receive(k)
       PROVE  Connections!ConnectionsNext \/ UNCHANGED <<Shown, Link, Fed>>
  BY <1>11, ReceiveFeeds
<1>12. CASE CallbackDone
  BY <1>12, CallbackOperates
<1> QED
  BY <1>1, <1>2, <1>3, <1>4, <1>5, <1>6, <1>7, <1>8, <1>9, <1>10, <1>11, <1>12, AutoIsNamed
  DEF Inv, Next, CallStep, IoStep, EstablishNamed

\* For every configuration whose owner tags tell connection names apart: what a
\* client sees of its connections follows FxConnections. The data plane is
\* there before an endpoint shows it, a subscriber is Operational only when fed,
\* closing one connection touches no other, a broken name stays broken.
THEOREM ImplementsConnections ==
    ASSUME DistinctTags PROVE Spec => ConnectionsRefined
<1>1. Init => Connections!ConnectionsInit /\ ConnectionInv
  <2> SUFFICES ASSUME Init PROVE Connections!ConnectionsInit /\ ConnectionInv
    OBVIOUS
  <2>1. PlaneInv
    BY PlaneInit
  <2>2. CallbackInv /\ StatusInv /\ NameInv /\ ShowInv
    BY DEF Init, CallbackInv, StatusInv, OperationalMeansData, NameInv, ShowInv, Active, EmptyMap
  <2>3. Shown = [n \in Names |-> "absent"] /\ Link = [n \in Names |-> "none"] /\ Fed = {}
    BY DEF Init, Shown, Link, Fed, EmptyMap
  <2> QED
    BY <2>1, <2>2, <2>3 DEF ConnectionInv, Connections!ConnectionsInit
<1>2. Inv /\ ConnectionInv /\ [Next]_vars => ConnectionInv'
  BY PlaneStep, CallbackStep, StatusStep, NameStep, ShowStep DEF ConnectionInv
<1> QED
  BY InvHolds, <1>1, <1>2, ConnectionStep, PTL DEF Spec, ConnectionsRefined, Connections!ConnectionsSpec

=============================================================================
