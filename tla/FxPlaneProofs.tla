---------------------------- MODULE FxPlaneProofs ----------------------------
(***************************************************************************)
(* Control plane and data plane agree, for every configuration in which    *)
(* owner tags tell connections apart.                                      *)
(*                                                                         *)
(* Between calls the agreement is DataPlaneMatches. Inside a call the two  *)
(* are out of step in known ways: an establish has wired its connection    *)
(* before it stores the endpoint, a close has removed the wiring before it *)
(* resets it. Wired is the set of connections that have a data plane at    *)
(* every moment, and the invariant ties it to the two maps.                *)
(***************************************************************************)
EXTENDS FxEngineProofs

\* The owner tags of different connection names differ.
DistinctTags ==
    \A e, f \in Entities, m, n \in Names : OwnerTag(e, m) = OwnerTag(f, n) => m = n

\* The establish in progress has wired its connection and not yet stored it.
Drafted == IF pc \in {"nodes", "undo", "store"} THEN {target} ELSE {}

\* The stored connections that have a data plane.
Linked == IF pc = "closed" THEN Active \ {target} ELSE Active

Wired == Drafted \cup Linked

\* Entity, role and dataset of a wired connection.
Side(n) ==
    LET s == IF n \in Drafted THEN draft ELSE endpoints[n]
    IN [entity |-> s.entity, role |-> s.role, dataset |-> s.dataset]

SideTag(n) == OwnerTag(Side(n).entity, n)
SideCoordinate(n) == <<Side(n).entity, Side(n).dataset>>

\* Writer groups: each dynamic one is that of a wired publisher, and each wired
\* publisher has its own.
WriterInv ==
    /\ \A c \in DOMAIN writers : writers[c] # StaticTag =>
          \E n \in Wired : /\ Side(n).role = "publisher"
                           /\ c = SideCoordinate(n)
                           /\ writers[c] = SideTag(n)
    /\ \A n \in Wired : Side(n).role = "publisher" =>
          SideCoordinate(n) \in DOMAIN writers /\ writers[SideCoordinate(n)] = SideTag(n)

\* Readers: each dynamic one calls back the wired subscriber it belongs to, no
\* two the same, and each wired subscriber has one.
ReaderInv ==
    /\ \A k \in DOMAIN readers : readers[k].tag # StaticTag =>
          \E n \in Wired : /\ Side(n).role = "subscriber"
                           /\ readers[k].name = n
                           /\ readers[k].tag = SideTag(n)
    /\ \A j, k \in DOMAIN readers :
          readers[j].tag # StaticTag /\ readers[k].tag # StaticTag /\ readers[j].name = readers[k].name
          => j = k
    /\ \A n \in Wired : Side(n).role = "subscriber" =>
          \E k \in DOMAIN readers : readers[k].name = n /\ readers[k].tag = SideTag(n)

\* The callback under way is of a dynamic reader that has seen data.
CallbackInv ==
    io # Idle => io \in DOMAIN readers /\ readers[io].tag # StaticTag /\ readers[io].seen

\* A closed endpoint shows Initial, and what readerDataSeen answered is true.
StatusInv ==
    /\ \A n \in DOMAIN endpoints : n \notin Active => endpoints[n].status = "Initial"
    /\ found => pc = "report" /\ \E k \in ReadersOf(DraftTag) : readers[k].seen
    /\ OperationalMeansData

PlaneInv == WriterInv /\ ReaderInv

-----------------------------------------------------------------------------
(* What the two maps must do for a given change of the wired connections.  *)

\* Nothing changes hands.
LEMMA PlaneKept ==
    ASSUME PlaneInv,
           Wired' = Wired, \A n \in Wired : Side(n)' = Side(n),
           writers' = writers,
           DOMAIN readers' = DOMAIN readers,
           \A k \in DOMAIN readers : readers'[k].tag = readers[k].tag /\ readers'[k].name = readers[k].name
    PROVE  PlaneInv'
<1>1. \A n \in Wired : SideTag(n)' = SideTag(n) /\ SideCoordinate(n)' = SideCoordinate(n)
  BY DEF SideTag, SideCoordinate
<1>2. WriterInv'
  BY <1>1 DEF PlaneInv, WriterInv
<1>3. ReaderInv'
  BY <1>1 DEF PlaneInv, ReaderInv
<1> QED
  BY <1>2, <1>3 DEF PlaneInv

\* removeDynamic of the tag of one wired connection unwires that one alone.
LEMMA PlaneShrinks ==
    ASSUME PlaneInv, DistinctTags,
           NEW m \in Wired, Wired \subseteq Names,
           \A n \in Wired : Side(n).entity \in Entities,
           Wired' = Wired \ {m}, \A n \in Wired \ {m} : Side(n)' = Side(n),
           RemoveDynamic(SideTag(m))
    PROVE  PlaneInv'
<1>1. \A n \in Wired \ {m} : /\ SideTag(n)' = SideTag(n)
                            /\ SideCoordinate(n)' = SideCoordinate(n)
                            /\ SideTag(n) # SideTag(m)
  BY DEF SideTag, SideCoordinate, DistinctTags
<1>2. /\ DOMAIN writers' = {c \in DOMAIN writers : writers[c] # SideTag(m)}
      /\ \A c \in DOMAIN writers' : writers'[c] = writers[c]
      /\ DOMAIN readers' = {k \in DOMAIN readers : readers[k].tag # SideTag(m)}
      /\ \A k \in DOMAIN readers' : readers'[k] = readers[k]
  BY DEF RemoveDynamic, Only
<1>3. WriterInv'
  BY <1>1, <1>2 DEF PlaneInv, WriterInv
<1>4. ReaderInv'
  BY <1>1, <1>2 DEF PlaneInv, ReaderInv
<1> QED
  BY <1>3, <1>4 DEF PlaneInv

\* A dynamic add wires one connection on coordinates that were free.
LEMMA PlaneGrows ==
    ASSUME PlaneInv, NEW m, m \notin Wired,
           Wired' = Wired \cup {m}, \A n \in Wired : Side(n)' = Side(n),
           \/ /\ Side(m)'.role = "publisher"
              /\ SideCoordinate(m)' \notin DOMAIN writers
              /\ writers' = Put(writers, SideCoordinate(m)', SideTag(m)')
              /\ readers' = readers
           \/ /\ Side(m)'.role = "subscriber"
              /\ writers' = writers
              /\ \E k : /\ k \notin DOMAIN readers
                        /\ readers' = Put(readers, k, [tag |-> SideTag(m)', name |-> m,
                                                      seen |-> FALSE, signalled |-> FALSE])
    PROVE  PlaneInv'
<1>1. \A n \in Wired : SideTag(n)' = SideTag(n) /\ SideCoordinate(n)' = SideCoordinate(n)
  BY DEF SideTag, SideCoordinate
<1>2. CASE /\ Side(m)'.role = "publisher"
           /\ SideCoordinate(m)' \notin DOMAIN writers
           /\ writers' = Put(writers, SideCoordinate(m)', SideTag(m)')
           /\ readers' = readers
  <2>1. WriterInv'
    BY <1>1, <1>2 DEF PlaneInv, WriterInv, Put
  <2>2. ReaderInv'
    BY <1>1, <1>2 DEF PlaneInv, ReaderInv
  <2> QED
    BY <2>1, <2>2 DEF PlaneInv
<1>3. ASSUME Side(m)'.role = "subscriber", writers' = writers, NEW k, k \notin DOMAIN readers,
             readers' = Put(readers, k, [tag |-> SideTag(m)', name |-> m,
                                         seen |-> FALSE, signalled |-> FALSE])
      PROVE  PlaneInv'
  <2>1. WriterInv'
    BY <1>1, <1>3 DEF PlaneInv, WriterInv
  <2>2. /\ DOMAIN readers' = DOMAIN readers \cup {k}
        /\ readers'[k].tag = SideTag(m)' /\ readers'[k].name = m
        /\ \A j \in DOMAIN readers : readers'[j] = readers[j]
    BY <1>3 DEF Put
  <2>3. \A j \in DOMAIN readers : readers[j].tag # StaticTag => readers[j].name # m
    BY DEF PlaneInv, ReaderInv
  <2>4. ReaderInv'
    <3>1. \A j \in DOMAIN readers' : readers'[j].tag # StaticTag =>
             \E n \in Wired' : /\ Side(n)'.role = "subscriber"
                              /\ readers'[j].name = n
                              /\ readers'[j].tag = SideTag(n)'
      <4> SUFFICES ASSUME NEW j \in DOMAIN readers', readers'[j].tag # StaticTag
                   PROVE  \E n \in Wired' : /\ Side(n)'.role = "subscriber"
                                           /\ readers'[j].name = n
                                           /\ readers'[j].tag = SideTag(n)'
        OBVIOUS
      <4>1. CASE j = k
        BY <4>1, <1>3, <2>2
      <4>2. CASE j # k
        BY <4>2, <1>1, <2>2 DEF PlaneInv, ReaderInv
      <4> QED
        BY <4>1, <4>2
    <3>2. \A i, j \in DOMAIN readers' :
             readers'[i].tag # StaticTag /\ readers'[j].tag # StaticTag /\ readers'[i].name = readers'[j].name
             => i = j
      BY <2>2, <2>3 DEF PlaneInv, ReaderInv
    <3>3. \A n \in Wired' : Side(n)'.role = "subscriber" =>
             \E j \in DOMAIN readers' : readers'[j].name = n /\ readers'[j].tag = SideTag(n)'
      BY <1>1, <2>2 DEF PlaneInv, ReaderInv
    <3> QED
      BY <3>1, <3>2, <3>3 DEF ReaderInv
  <2> QED
    BY <2>1, <2>4 DEF PlaneInv
<1> QED
  BY <1>2, <1>3

-----------------------------------------------------------------------------
(* Every step is one of those.                                             *)

\* A wired connection has a name and the side of some entity.
LEMMA WiredTyped == Inv => Wired \subseteq Names /\ \A n \in Wired : Side(n).entity \in Entities
<1> SUFFICES ASSUME Inv, NEW n \in Wired PROVE n \in Names /\ Side(n).entity \in Entities
  OBVIOUS
<1>1. CASE n \in Drafted
  BY <1>1 DEF Inv, Side, Drafted, SessionInv, EstablishPcs, Draft
<1>2. CASE n \notin Drafted
  BY <1>2 DEF Inv, Wired, Linked, Side, Active, TypeOK, Endpoint
<1> QED
  BY <1>1, <1>2

\* The connection an establish is about has no data plane before the add.
LEMMA TargetUnwired == Inv /\ pc \in BeforeStore => target \notin Active
  BY DEF Inv, SessionInv, Reusable, Active

\* Every step leaves the data plane of exactly the wired connections.
LEMMA PlaneStep == Inv /\ PlaneInv /\ DistinctTags /\ [Next]_vars => PlaneInv'
<1> SUFFICES ASSUME Inv, PlaneInv, DistinctTags, [Next]_vars PROVE PlaneInv'
  OBVIOUS
\* Steps that leave the maps alone, by what they do to the control plane.
<1>1. ASSUME UNCHANGED <<pc, target, draft>>, UNCHANGED <<endpoints, writers, readers>>
      PROVE  PlaneInv'
  <2>1. Wired' = Wired /\ \A n \in Wired : Side(n)' = Side(n)
    BY <1>1 DEF Wired, Drafted, Linked, Active, Side
  <2> QED
    BY <1>1, <2>1, PlaneKept
<1>2. ASSUME UNCHANGED <<endpoints, writers, readers>>,
             pc \in {"idle", "scan", "add", "query"},
             pc' \in {"idle", "scan", "add", "report", "remove"}
      PROVE  PlaneInv'
  <2>1. Wired' = Wired /\ \A n \in Wired : Side(n)' = Side(n)
    BY <1>2 DEF Wired, Drafted, Linked, Active, Side
  <2> QED
    BY <1>2, <2>1, PlaneKept
<1>3. CASE \/ UNCHANGED vars \/ StartFx \/ StartFxFails \/ RefuseCall \/ CallbackMissed
  BY <1>1, <1>3 DEF vars, StartFx, StartFxFails, RefuseCall, CallbackMissed, callVars, nodeVars, planeVars
<1>4. CASE Close \/ ShutdownFx \/ ShutdownNext \/ ShutdownDone \/ AddFails \/ QueryDataSeen
  BY <1>2, <1>4 DEF Close, ShutdownFx, ShutdownNext, ShutdownDone, AddFails, QueryDataSeen, Return,
                    Inv, TypeOK, HolderAt, nodeVars, planeVars
<1>5. ASSUME NEW n \in Names, NEW e \in Entities, NEW role \in Roles, NEW d \in Datasets,
             NEW k \in PeerKeys, Admit(n, e, role, d, k)
      PROVE  PlaneInv'
  BY <1>2, <1>5 DEF Admit, Inv, TypeOK, HolderAt, nodeVars, planeVars
<1>6. CASE CreateView \/ CreateViewFails
  <2>1. /\ pc = "nodes" /\ pc' \in {"store", "undo"}
        /\ UNCHANGED <<target, draft, endpoints, writers, readers>>
    BY <1>6 DEF CreateView, CreateViewFails, planeVars
  <2>2. Wired' = Wired /\ \A n \in Wired : Side(n)' = Side(n)
    BY <2>1 DEF Wired, Drafted, Linked, Active, Side
  <2> QED
    BY <2>1, <2>2, PlaneKept
<1>7. CASE StoreEndpoint
  <2>1. /\ pc = "store" /\ pc' \in {"query", "report"}
        /\ UNCHANGED <<target, draft, writers, readers>>
        /\ endpoints' = Put(endpoints, target, Stored)
    BY <1>7 DEF StoreEndpoint, planeVars
  <2>2. target \notin Active
    BY <2>1, TargetUnwired DEF BeforeStore
  <2>3. Active' = Active \cup {target}
    BY <2>1, <2>2 DEF Put, Stored, Active
  <2>4. Wired' = Wired
    BY <2>1, <2>3 DEF Wired, Drafted, Linked
  <2>5. \A n \in Wired : n # target => Side(n)' = Side(n)
    BY <2>1 DEF Side, Drafted, Put, Wired, Linked, Active
  <2>6. Side(target)' = Side(target)
    BY <2>1 DEF Side, Drafted, Put, Stored
  <2> QED
    BY <2>1, <2>4, <2>5, <2>6, PlaneKept
<1>8. CASE ReportEstablished
  <2>1. /\ pc = "report" /\ pc' = "idle" /\ UNCHANGED <<writers, readers>>
        /\ \E s : endpoints' = [endpoints EXCEPT ![target].status = s]
    BY <1>8 DEF ReportEstablished, Return, SetStatus, planeVars
  <2>2. Wired' = Wired /\ \A n \in Wired : Side(n)' = Side(n)
    BY <2>1 DEF Wired, Drafted, Linked, Active, Side, Inv, TypeOK, Endpoint
  <2> QED
    BY <2>1, <2>2, PlaneKept
<1>9. CASE FinishClose \/ ShutdownClosed
  <2>1. /\ pc = "closed" /\ pc' \in {"idle", "scan"} /\ UNCHANGED <<writers, readers>>
        /\ endpoints' = Deactivated /\ target \in Active
    BY <1>9 DEF FinishClose, ShutdownClosed, Return, Inv, SessionInv, planeVars
  <2>2. Active' = Active \ {target} /\ \A n \in Active' : endpoints'[n] = endpoints[n]
    BY <2>1 DEF Active, Deactivated, Inv, TypeOK, Endpoint
  <2>3. Wired' = Wired /\ \A n \in Wired : Side(n)' = Side(n)
    BY <2>1, <2>2 DEF Wired, Drafted, Linked, Side
  <2> QED
    BY <2>1, <2>3, PlaneKept
<1>10. ASSUME NEW k \in PeerKeys, Receive(k) PROVE PlaneInv'
  <2>1. /\ UNCHANGED <<pc, target, draft, endpoints, writers>>
        /\ DOMAIN readers' = DOMAIN readers
        /\ \A j \in DOMAIN readers : readers'[j].tag = readers[j].tag /\ readers'[j].name = readers[j].name
    BY <1>10 DEF Receive, callVars, nodeVars, Inv, TypeOK, Reader
  <2>2. Wired' = Wired /\ \A n \in Wired : Side(n)' = Side(n)
    BY <2>1 DEF Wired, Drafted, Linked, Active, Side
  <2> QED
    BY <2>1, <2>2, PlaneKept
<1>11. CASE CallbackDone
  <2>1. /\ pc = "idle" /\ pc' = "idle" /\ UNCHANGED <<target, draft, writers>>
        /\ DOMAIN readers' = DOMAIN readers
        /\ \A j \in DOMAIN readers : readers'[j].tag = readers[j].tag /\ readers'[j].name = readers[j].name
    BY <1>11 DEF CallbackDone, callVars, Inv, TypeOK, HolderAt, Reader
  <2>2. \/ endpoints' = endpoints
        \/ \E n : endpoints' = [endpoints EXCEPT ![n].status = "Operational"]
    BY <1>11 DEF CallbackDone
  <2>3. Wired' = Wired /\ \A n \in Wired : Side(n)' = Side(n)
    BY <2>1, <2>2 DEF Wired, Drafted, Linked, Active, Side, Inv, TypeOK, Endpoint
  <2> QED
    BY <2>1, <2>3, PlaneKept
\* Steps of the data plane.
<1>12. CASE AddWriter \/ AddReader
  <2>1. /\ pc = "add" /\ pc' \in {"nodes", "store"} /\ UNCHANGED <<target, draft, endpoints>>
        /\ target \notin Wired
    BY <1>12, TargetUnwired DEF AddWriter, AddReader, AfterAdd, nodeVars, BeforeStore, Wired, Drafted, Linked
  <2>2. Wired' = Wired \cup {target} /\ \A n \in Wired : Side(n)' = Side(n)
    BY <2>1 DEF Wired, Drafted, Linked, Active, Side
  <2> PICK m : m = target
    OBVIOUS
  <2>3. /\ Side(m)' = [entity |-> draft.entity, role |-> draft.role, dataset |-> draft.dataset]
        /\ SideTag(m)' = DraftTag
        /\ SideCoordinate(m)' = DraftCoordinate
    BY <2>1 DEF Side, SideTag, SideCoordinate, Drafted, DraftTag, DraftCoordinate
  <2>4. CASE AddWriter
    <3>1. /\ Side(m)'.role = "publisher"
          /\ SideCoordinate(m)' \notin DOMAIN writers
          /\ writers' = Put(writers, SideCoordinate(m)', SideTag(m)')
          /\ readers' = readers
      BY <2>3, <2>4 DEF AddWriter
    <3> QED
      BY <2>1, <2>2, <3>1, PlaneGrows
  <2>5. CASE AddReader
    BY <2>1, <2>2, <2>3, <2>5, PlaneGrows DEF AddReader, NewReader
  <2> QED
    BY <1>12, <2>4, <2>5
<1>13. CASE UndoEstablish
  <2>1. /\ pc = "undo" /\ pc' = "idle" /\ UNCHANGED endpoints /\ RemoveDynamic(DraftTag)
    BY <1>13 DEF UndoEstablish, Return
  <2>2. target \in Wired /\ SideTag(target) = DraftTag /\ target \notin Active
    BY <2>1, TargetUnwired DEF Wired, Drafted, SideTag, Side, DraftTag, BeforeStore
  <2>3. Wired' = Wired \ {target} /\ \A n \in Wired \ {target} : Side(n)' = Side(n)
    BY <2>1, <2>2 DEF Wired, Drafted, Linked, Active, Side
  <2> QED
    BY <2>1, <2>2, <2>3, WiredTyped, PlaneShrinks
<1>14. CASE RemoveConnection
  <2>1. /\ pc = "remove" /\ pc' = "closed" /\ UNCHANGED <<target, endpoints>>
        /\ RemoveDynamic(TagOf(target)) /\ target \in Active
    BY <1>14 DEF RemoveConnection, nodeVars, Inv, SessionInv
  <2>2. target \in Wired /\ SideTag(target) = TagOf(target)
    BY <2>1 DEF Wired, Drafted, Linked, SideTag, Side, TagOf
  <2>3. Wired' = Wired \ {target} /\ \A n \in Wired \ {target} : Side(n)' = Side(n)
    BY <2>1 DEF Wired, Drafted, Linked, Active, Side
  <2> QED
    BY <2>1, <2>2, <2>3, WiredTyped, PlaneShrinks
<1>15. CASE StartPubSub \/ ShutdownPubSub
  <2>1. /\ Wired = {} /\ UNCHANGED <<pc, target, endpoints>>
    BY <1>15 DEF StartPubSub, ShutdownPubSub, callVars, nodeVars, Inv, LifeInv, TypeOK, HolderAt, Wired, Drafted, Linked
  <2>2. Wired' = {}
    BY <2>1 DEF Wired, Drafted, Linked, Active
  <2>3. CASE StartPubSub
    <3>1. /\ \A c \in DOMAIN writers' : writers'[c] = StaticTag
          /\ \A k \in DOMAIN readers' : readers'[k].tag = StaticTag
      BY <2>1, <2>3 DEF StartPubSub, StaticReader, planeVars, PlaneInv, WriterInv, ReaderInv
    <3> QED
      BY <2>2, <3>1 DEF PlaneInv, WriterInv, ReaderInv
  <2>4. CASE ShutdownPubSub
    BY <2>2, <2>4 DEF ShutdownPubSub, EmptyMap, PlaneInv, WriterInv, ReaderInv
  <2> QED
    BY <1>15, <2>3, <2>4
<1> QED
  BY <1>3, <1>4, <1>5, <1>6, <1>7, <1>8, <1>9, <1>10, <1>11, <1>12, <1>13, <1>14, <1>15, AutoIsNamed
  DEF Inv, Next, CallStep, IoStep, EstablishNamed

-----------------------------------------------------------------------------
(* Between calls.                                                          *)

\* An owner tag leads back to its connection.
LEMMA TagOwner ==
    ASSUME Inv, PlaneInv, DistinctTags, NEW n \in Wired
    PROVE  /\ SideTag(n) # StaticTag
           /\ \A c \in WritersOf(SideTag(n)) : Side(n).role = "publisher" /\ c = SideCoordinate(n)
           /\ \A k \in ReadersOf(SideTag(n)) : Side(n).role = "subscriber" /\ readers[k].name = n
<1>1. SideTag(n) # StaticTag /\ \A m \in Wired : SideTag(m) = SideTag(n) => m = n
  BY WiredTyped, NamesAssumption DEF SideTag, DistinctTags
<1> QED
  BY <1>1 DEF PlaneInv, WriterInv, ReaderInv, WritersOf, ReadersOf

\* Between calls the wired connections are the active ones.
LEMMA PlaneMatches == Inv /\ PlaneInv /\ DistinctTags => DataPlaneMatches
<1> SUFFICES ASSUME Inv, PlaneInv, DistinctTags, mutex = "free" PROVE DataPlaneMatches
  BY DEF DataPlaneMatches
<1>1. /\ Wired = Active
      /\ \A n \in Active : /\ Side(n).role = endpoints[n].role
                           /\ SideTag(n) = TagOf(n)
                           /\ SideCoordinate(n) = <<endpoints[n].entity, endpoints[n].dataset>>
  BY DEF Inv, TypeOK, HolderAt, Wired, Drafted, Linked, Side, SideTag, SideCoordinate, TagOf
<1>2. ASSUME NEW n \in Active, endpoints[n].role = "publisher"
      PROVE  /\ WritersOf(TagOf(n)) = {<<endpoints[n].entity, endpoints[n].dataset>>}
             /\ ReadersOf(TagOf(n)) = {}
  <2>1. <<endpoints[n].entity, endpoints[n].dataset>> \in WritersOf(TagOf(n))
    BY <1>1, <1>2 DEF PlaneInv, WriterInv, WritersOf
  <2> QED
    BY <1>1, <1>2, <2>1, TagOwner
<1>3. ASSUME NEW n \in Active, endpoints[n].role # "publisher"
      PROVE  /\ WritersOf(TagOf(n)) = {}
             /\ \E k \in PeerKeys : ReadersOf(TagOf(n)) = {k} /\ readers[k].name = n
  <2>1. endpoints[n].role = "subscriber"
    BY <1>3 DEF Inv, TypeOK, Endpoint, Active, Roles
  <2>2. PICK k \in DOMAIN readers : readers[k].name = n /\ readers[k].tag = TagOf(n)
    BY <1>1, <2>1 DEF PlaneInv, ReaderInv
  <2>3. /\ TagOf(n) # StaticTag /\ WritersOf(TagOf(n)) = {}
        /\ \A j \in ReadersOf(TagOf(n)) : readers[j].name = n
    BY <1>1, <2>1, TagOwner
  <2>4. \A j \in ReadersOf(TagOf(n)) : j = k
    BY <2>2, <2>3 DEF PlaneInv, ReaderInv, ReadersOf
  <2>5. ReadersOf(TagOf(n)) = {k} /\ k \in PeerKeys
    BY <2>2, <2>4 DEF ReadersOf, Inv, TypeOK
  <2> QED
    BY <2>2, <2>3, <2>5
<1>4. \A c \in DynamicWriters : \E n \in Active : writers[c] = TagOf(n)
  BY <1>1 DEF PlaneInv, WriterInv, DynamicWriters
<1>5. \A k \in DynamicReaders : \E n \in Active : readers[k].tag = TagOf(n)
  BY <1>1 DEF PlaneInv, ReaderInv, DynamicReaders
<1> QED
  BY <1>2, <1>3, <1>4, <1>5 DEF DataPlaneMatches

\* There is no dynamic data plane at first.
LEMMA PlaneInit == Init => PlaneInv
  BY DEF Init, PlaneInv, WriterInv, ReaderInv, Wired, Drafted, Linked, Active, EmptyMap

\* For every configuration whose owner tags tell connection names apart: when no
\* call is under way, active endpoints and dynamic Pub/Sub entities correspond
\* one to one, whatever failed, was closed, reused or rolled back before. (Tags
\* that collide break it, which is what the run fx_tag_collision shows.)
THEOREM PlanesAgree ==
    ASSUME DistinctTags PROVE Spec => []DataPlaneMatches
<1>1. Inv /\ PlaneInv /\ [Next]_vars => PlaneInv'
  BY PlaneStep
<1>2. Inv /\ PlaneInv => DataPlaneMatches
  BY PlaneMatches
<1> QED
  BY InvHolds, PlaneInit, <1>1, <1>2, PTL DEF Spec

-----------------------------------------------------------------------------
(* Operational means data.                                                 *)

\* Readers keep their tags and what they have seen.
ReadersKept ==
    \A k \in DOMAIN readers :
        k \in DOMAIN readers' /\ readers'[k].tag = readers[k].tag /\ (readers[k].seen => readers'[k].seen)

\* A callback under way is for a reader that has applied data.
LEMMA CallbackStep == Inv /\ PlaneInv /\ CallbackInv /\ [Next]_vars => CallbackInv'
<1> SUFFICES ASSUME Inv, PlaneInv, CallbackInv, [Next]_vars PROVE CallbackInv'
  OBVIOUS
<1>1. ASSUME io' = Idle PROVE CallbackInv'
  BY <1>1 DEF CallbackInv
<1>2. ASSUME UNCHANGED <<io, readers>> PROVE CallbackInv'
  BY <1>2 DEF CallbackInv
<1>3. CASE \/ UNCHANGED vars \/ StartFx \/ StartFxFails \/ RefuseCall \/ Close
           \/ ShutdownFx \/ ShutdownNext \/ ShutdownDone \/ ShutdownClosed
  BY <1>2, <1>3 DEF vars, StartFx, StartFxFails, RefuseCall, Close, ShutdownFx, ShutdownNext,
                    ShutdownDone, ShutdownClosed, planeVars
<1>4. CASE \/ AddWriter \/ AddFails \/ CreateView \/ CreateViewFails \/ StoreEndpoint
           \/ QueryDataSeen \/ ReportEstablished \/ FinishClose
  BY <1>2, <1>4 DEF AddWriter, AddFails, CreateView, CreateViewFails, StoreEndpoint,
                    QueryDataSeen, ReportEstablished, FinishClose, planeVars
<1>5. ASSUME NEW n \in Names, NEW e \in Entities, NEW role \in Roles, NEW d \in Datasets,
             NEW k \in PeerKeys, Admit(n, e, role, d, k)
      PROVE  CallbackInv'
  BY <1>2, <1>5 DEF Admit, planeVars
<1>6. CASE AddReader \/ ShutdownPubSub \/ CallbackMissed \/ CallbackDone
  BY <1>1, <1>6 DEF AddReader, ShutdownPubSub, CallbackMissed, CallbackDone
<1>7. CASE UndoEstablish \/ RemoveConnection
  BY <1>1, <1>7 DEF UndoEstablish, RemoveConnection, RemoveDynamic
<1>8. CASE StartPubSub
  <2>1. Wired = {}
    BY <1>8 DEF StartPubSub, Inv, LifeInv, TypeOK, HolderAt, Wired, Drafted, Linked
  <2>2. io = Idle
    BY <2>1 DEF CallbackInv, PlaneInv, ReaderInv
  <2> QED
    BY <1>1, <1>8, <2>2 DEF StartPubSub, planeVars
<1>9. ASSUME NEW k \in PeerKeys, Receive(k) PROVE CallbackInv'
  <2>1. /\ DOMAIN readers' = DOMAIN readers /\ k \in DOMAIN readers
        /\ readers'[k].tag = readers[k].tag /\ readers'[k].seen
    BY <1>9 DEF Receive, Inv, TypeOK, Reader
  <2> QED
    BY <1>9, <2>1 DEF Receive, CallbackInv
<1> QED
  BY <1>3, <1>4, <1>5, <1>6, <1>7, <1>8, <1>9, AutoIsNamed
  DEF Inv, Next, CallStep, IoStep, EstablishNamed

\* A status stays justified when its endpoint and its reader stay.
LEMMA OperatesKept ==
    ASSUME OperationalMeansData,
           ASSUME NEW n \in Active', endpoints'[n].role = "subscriber",
                  endpoints'[n].status = "Operational", pc' = "closed" => target' # n
           PROVE  /\ n \in Active /\ (pc = "closed" => target # n)
                  /\ endpoints[n].entity = endpoints'[n].entity
                  /\ endpoints[n].role = endpoints'[n].role
                  /\ endpoints[n].status = endpoints'[n].status
                  /\ \A k \in ReadersOf(TagOf(n)) : readers[k].seen =>
                        k \in DOMAIN readers' /\ readers'[k].tag = readers[k].tag /\ readers'[k].seen
    PROVE  OperationalMeansData'
  BY DEF OperationalMeansData, ReadersOf, TagOf

\* Every step that makes an endpoint Operational has data behind it.
LEMMA StatusStep == Inv /\ PlaneInv /\ CallbackInv /\ StatusInv /\ DistinctTags /\ [Next]_vars => StatusInv'
<1> SUFFICES ASSUME Inv, PlaneInv, CallbackInv, StatusInv, DistinctTags, [Next]_vars PROVE StatusInv'
  OBVIOUS
<1> USE DEF StatusInv
\* Steps that change no endpoint and take no reader away.
<1>1. ASSUME UNCHANGED endpoints, ReadersKept, pc # "closed", pc' # "closed",
             found' => found /\ UNCHANGED <<pc, target, draft>>
      PROVE  StatusInv'
  <2>1. OperationalMeansData'
    BY <1>1, OperatesKept DEF ReadersKept, ReadersOf, Active
  <2>2. found' => pc' = "report" /\ \E k \in ReadersOf(DraftTag)' : readers'[k].seen
    BY <1>1 DEF ReadersKept, ReadersOf, DraftTag
  <2> QED
    BY <1>1, <2>1, <2>2 DEF Active
<1>2. ASSUME UNCHANGED endpoints, ReadersKept, UNCHANGED <<pc, target, draft, found>>
      PROVE  StatusInv'
  <2>1. OperationalMeansData'
    BY <1>2, OperatesKept DEF ReadersKept, ReadersOf, Active
  <2>2. found' => pc' = "report" /\ \E k \in ReadersOf(DraftTag)' : readers'[k].seen
    BY <1>2 DEF ReadersKept, ReadersOf, DraftTag
  <2> QED
    BY <1>2, <2>1, <2>2 DEF Active
<1>3. CASE \/ UNCHANGED vars \/ StartFx \/ StartFxFails \/ RefuseCall \/ CallbackMissed
  <2>1. UNCHANGED <<endpoints, readers, pc, target, draft, found>>
    BY <1>3 DEF vars, StartFx, StartFxFails, RefuseCall, CallbackMissed, callVars, nodeVars, planeVars
  <2> QED
    BY <1>2, <2>1 DEF ReadersKept
<1>4. CASE \/ Close \/ ShutdownFx \/ ShutdownNext \/ ShutdownDone \/ AddFails
           \/ CreateView \/ CreateViewFails \/ AddWriter
  <2>1. UNCHANGED <<endpoints, readers>> /\ pc \in {"idle", "scan", "add", "nodes"} /\ pc' # "closed"
    BY <1>4 DEF Close, ShutdownFx, ShutdownNext, ShutdownDone, AddFails, CreateView, CreateViewFails,
                AddWriter, AfterAdd, Return, nodeVars, planeVars, Inv, TypeOK, HolderAt
  <2>2. found' = FALSE \/ found' = found
    BY <1>4 DEF Close, ShutdownFx, ShutdownNext, ShutdownDone, AddFails, CreateView, CreateViewFails,
                AddWriter, Return
  <2> QED
    BY <1>1, <2>1, <2>2 DEF ReadersKept
<1>5. ASSUME NEW n \in Names, NEW e \in Entities, NEW role \in Roles, NEW d \in Datasets,
             NEW k \in PeerKeys, Admit(n, e, role, d, k)
      PROVE  StatusInv'
  <2>1. UNCHANGED <<endpoints, readers, found>> /\ pc = "idle" /\ pc' = "add"
    BY <1>5 DEF Admit, nodeVars, planeVars, Inv, TypeOK, HolderAt
  <2> QED
    BY <1>1, <2>1 DEF ReadersKept
<1>6. CASE AddReader
  <2>1. UNCHANGED <<endpoints, found>> /\ pc = "add" /\ pc' # "closed"
    BY <1>6 DEF AddReader, AfterAdd, nodeVars
  <2>2. ReadersKept
    BY <1>6 DEF AddReader, ReadersKept, Put
  <2> QED
    BY <1>1, <2>1, <2>2
<1>7. ASSUME NEW k \in PeerKeys, Receive(k) PROVE StatusInv'
  <2>1. UNCHANGED <<endpoints, pc, target, draft, found>>
    BY <1>7 DEF Receive, callVars, nodeVars
  <2>2. ReadersKept
    BY <1>7 DEF Receive, ReadersKept, Inv, TypeOK, Reader
  <2> QED
    BY <1>2, <2>1, <2>2
<1>8. CASE QueryDataSeen
  <2>1. /\ pc = "query" /\ pc' = "report" /\ UNCHANGED <<endpoints, readers, target, draft>>
        /\ found' = \E k \in ReadersOf(DraftTag) : readers[k].seen
    BY <1>8 DEF QueryDataSeen, nodeVars, planeVars
  <2>2. OperationalMeansData'
    BY <2>1, OperatesKept DEF ReadersOf, Active
  <2>3. found' => \E k \in ReadersOf(DraftTag)' : readers'[k].seen
    BY <2>1 DEF ReadersOf, DraftTag
  <2> QED
    BY <2>1, <2>2, <2>3 DEF Active
<1>9. CASE StartPubSub \/ ShutdownPubSub
  <2>1. UNCHANGED <<endpoints, found>> /\ Active = {} /\ pc = "idle"
    BY <1>9 DEF StartPubSub, ShutdownPubSub, callVars, nodeVars, Inv, LifeInv, TypeOK, HolderAt
  <2>2. Active' = {}
    BY <2>1 DEF Active
  <2> QED
    BY <2>1, <2>2 DEF OperationalMeansData
<1>10. CASE StoreEndpoint
  <2>1. /\ pc = "store" /\ pc' \in {"query", "report"} /\ UNCHANGED <<readers, target, found>>
        /\ endpoints' = Put(endpoints, target, Stored) /\ ~found
    BY <1>10 DEF StoreEndpoint, planeVars
  <2>2. target \notin Active
    BY <2>1, TargetUnwired DEF BeforeStore
  <2>3. endpoints'[target].status = "Initial" /\ target \in Active'
    BY <2>1, <2>2 DEF Put, Stored, Active
  <2>4. \A n \in DOMAIN endpoints' : n # target => n \in DOMAIN endpoints /\ endpoints'[n] = endpoints[n]
    BY <2>1 DEF Put
  <2>5. OperationalMeansData'
    BY <2>1, <2>3, <2>4, OperatesKept DEF Active, ReadersOf
  <2> QED
    BY <2>1, <2>3, <2>4, <2>5 DEF Active
<1>11. CASE ReportEstablished
  <2>1. /\ pc = "report" /\ pc' = "idle" /\ UNCHANGED readers /\ ~found'
        /\ target \in Active /\ endpoints[target].entity = draft.entity
        /\ endpoints[target].role = draft.role
    BY <1>11 DEF ReportEstablished, Return, planeVars, Inv, SessionInv
  <2>2. /\ DOMAIN endpoints' = DOMAIN endpoints
        /\ \A n \in DOMAIN endpoints : n # target => endpoints'[n] = endpoints[n]
        /\ endpoints'[target].entity = draft.entity /\ endpoints'[target].active
        /\ endpoints'[target].role = draft.role
        /\ endpoints'[target].status = "Operational" /\ draft.role = "subscriber" => found
    BY <1>11, <2>1 DEF ReportEstablished, SetStatus, Inv, TypeOK, Endpoint, Active
  <2>3. Active' = Active
    BY <2>1, <2>2 DEF Active
  <2>4. OperationalMeansData'
    <3> SUFFICES ASSUME NEW n \in Active', endpoints'[n].role = "subscriber",
                        endpoints'[n].status = "Operational"
                 PROVE  \E k \in ReadersOf(TagOf(n))' : readers'[k].seen
      BY DEF OperationalMeansData
    <3>1. CASE n = target
      BY <2>1, <2>2, <3>1 DEF ReadersOf, TagOf, DraftTag
    <3>2. CASE n # target
      BY <2>1, <2>2, <2>3, <3>2 DEF OperationalMeansData, ReadersOf, TagOf, Active
    <3> QED
      BY <3>1, <3>2
  <2> QED
    BY <2>1, <2>2, <2>3, <2>4 DEF Active
<1>12. CASE FinishClose \/ ShutdownClosed
  <2>1. /\ pc = "closed" /\ pc' # "closed" /\ UNCHANGED readers /\ ~found'
        /\ endpoints' = Deactivated /\ target \in Active
    BY <1>12 DEF FinishClose, ShutdownClosed, Return, Inv, SessionInv, planeVars
  <2>2. /\ DOMAIN endpoints' = DOMAIN endpoints
        /\ \A n \in DOMAIN endpoints : n # target => endpoints'[n] = endpoints[n]
        /\ ~endpoints'[target].active /\ endpoints'[target].status = "Initial"
    BY <2>1 DEF Deactivated, Active, Inv, TypeOK, Endpoint
  <2>3. OperationalMeansData'
    BY <2>1, <2>2, OperatesKept DEF Active, ReadersOf
  <2> QED
    BY <2>1, <2>2, <2>3 DEF Active
<1>13. CASE UndoEstablish
  <2>1. /\ pc = "undo" /\ pc' = "idle" /\ UNCHANGED endpoints /\ ~found' /\ RemoveDynamic(DraftTag)
    BY <1>13 DEF UndoEstablish, Return
  <2>2. target \notin Active /\ target \in Names /\ draft.entity \in Entities
    BY <2>1, TargetUnwired DEF BeforeStore, Inv, SessionInv, EstablishPcs, Draft
  <2>3. \A n \in Active : TagOf(n) # DraftTag
    BY <2>2 DEF DistinctTags, TagOf, DraftTag, Active, Inv, TypeOK, Endpoint
  <2>4. \A k \in DOMAIN readers : readers[k].tag # DraftTag => k \in DOMAIN readers' /\ readers'[k] = readers[k]
    BY <2>1 DEF RemoveDynamic, Only
  <2>5. OperationalMeansData'
    BY <2>1, <2>3, <2>4, OperatesKept, ZenonT(30) DEF Active, ReadersOf
  <2> QED
    BY <2>1, <2>5 DEF Active
<1>14. CASE RemoveConnection
  <2>1. /\ pc = "remove" /\ pc' = "closed" /\ UNCHANGED <<endpoints, target, found>> /\ ~found
        /\ RemoveDynamic(TagOf(target)) /\ target \in Active
    BY <1>14 DEF RemoveConnection, nodeVars, Inv, SessionInv
  <2>2. \A n \in Active : n # target => TagOf(n) # TagOf(target)
    BY <2>1 DEF DistinctTags, TagOf, Active, Inv, TypeOK, Endpoint
  <2>3. \A k \in DOMAIN readers : readers[k].tag # TagOf(target) => k \in DOMAIN readers' /\ readers'[k] = readers[k]
    BY <2>1 DEF RemoveDynamic, Only
  <2>4. OperationalMeansData'
    BY <2>1, <2>2, <2>3, OperatesKept, ZenonT(30) DEF Active, ReadersOf
  <2> QED
    BY <2>1, <2>4 DEF Active
<1>15. CASE CallbackDone
  <2>1. /\ io # Idle /\ pc = "idle" /\ pc' = "idle" /\ UNCHANGED <<target, found>> /\ ~found
    BY <1>15 DEF CallbackDone, callVars, Inv, TypeOK, HolderAt
  <2>2. io \in DOMAIN readers /\ readers[io].tag # StaticTag /\ readers[io].seen
    BY <2>1 DEF CallbackInv
  <2>3. ReadersKept
    BY <1>15 DEF CallbackDone, ReadersKept, Inv, TypeOK, Reader
  <2> DEFINE m == readers[io].name
  <2>4. m \in Active /\ readers[io].tag = TagOf(m)
    BY <2>1, <2>2 DEF PlaneInv, ReaderInv, Wired, Drafted, Linked, SideTag, Side, TagOf
  <2>5. /\ DOMAIN endpoints' = DOMAIN endpoints
        /\ \A n \in DOMAIN endpoints : n # m => endpoints'[n] = endpoints[n]
        /\ endpoints'[m].entity = endpoints[m].entity /\ endpoints'[m].active
    BY <1>15, <2>4 DEF CallbackDone, Active, Inv, TypeOK, Endpoint
  <2>6. OperationalMeansData'
    <3> SUFFICES ASSUME NEW n \in Active', endpoints'[n].role = "subscriber",
                        endpoints'[n].status = "Operational"
                 PROVE  \E k \in ReadersOf(TagOf(n))' : readers'[k].seen
      BY DEF OperationalMeansData
    <3>1. CASE n = m
      BY <2>2, <2>3, <2>4, <2>5, <3>1 DEF ReadersKept, ReadersOf, TagOf
    <3>2. CASE n # m
      <4>1. n \in Active /\ endpoints'[n] = endpoints[n]
        BY <2>5, <3>2 DEF Active
      <4>2. PICK k \in ReadersOf(TagOf(n)) : readers[k].seen
        BY <2>1, <4>1 DEF OperationalMeansData
      <4> QED
        BY <2>3, <4>1, <4>2 DEF ReadersKept, ReadersOf, TagOf
    <3> QED
      BY <3>1, <3>2
  <2> QED
    BY <2>1, <2>4, <2>5, <2>6 DEF Active
<1> QED
  BY <1>3, <1>4, <1>5, <1>6, <1>7, <1>8, <1>9, <1>10, <1>11, <1>12, <1>13, <1>14, <1>15, AutoIsNamed
  DEF Inv, Next, CallStep, IoStep, EstablishNamed

\* With distinct tags, a subscriber endpoint shows Operational only while its own
\* reader has applied data: the callback reaches the session it was made for,
\* and a reused name starts again from Initial.
THEOREM OperationalHasData ==
    ASSUME DistinctTags PROVE Spec => []OperationalMeansData
<1>1. Init => CallbackInv /\ StatusInv
  BY DEF Init, CallbackInv, StatusInv, OperationalMeansData, Active, EmptyMap
<1>2. Inv /\ PlaneInv /\ CallbackInv /\ StatusInv /\ [Next]_vars
      => PlaneInv' /\ CallbackInv' /\ StatusInv'
  BY PlaneStep, CallbackStep, StatusStep
<1>3. StatusInv => OperationalMeansData
  BY DEF StatusInv
<1> QED
  BY InvHolds, PlaneInit, <1>1, <1>2, <1>3, PTL DEF Spec

=============================================================================
