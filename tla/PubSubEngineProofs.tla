------------------------- MODULE PubSubEngineProofs -------------------------
(***************************************************************************)
(* Safety of the Pub/Sub engine for every configuration and any number of  *)
(* coordinates, keys, addresses and tags.                                  *)
(*                                                                         *)
(* The properties relate what a caller's task did to what completions that *)
(* were queued before it still do. They rest on two facts the code keeps   *)
(* across both: a runtime object that no container lists any more is       *)
(* stopped or closed (so its late completion lets go), and an object that  *)
(* a container lists is not (so nothing is deaf or silent by mistake).     *)
(***************************************************************************)
EXTENDS PubSubEngine, FiniteSetTheorems, WellFoundedInduction, TLAPS

\* The readers that listen on an address.
Listeners(a) == {k \in DOMAIN readers : readers[k].addr = a}

\* A task has the arguments of its operation, and one is only posted to, and
\* waited for on, a running engine.
CallInv ==
    call # None =>
        /\ call.op # "refused" => running
        /\ call.op = "addGroup" /\ call.at # "done" => call.tag \in Tags /\ call.wire \in Coords
        /\ call.op = "addReader" /\ call.at # "done" =>
              call.tag \in Tags /\ call.wire \in Keys /\ call.addr \in Addrs
        /\ call.op = "remove" /\ call.at = "posted" => call.tag \in Tags

\* What an adding task has checked stays true while it goes on, for nobody else
\* runs on the io thread; and until it has acquired a receiver it has changed
\* nothing. So its commit finds the coordinates free, and its failure leaves
\* what it found.
TaskInv ==
    call # None /\ call.at \in {"checked", "ready"} =>
        /\ call.op \in {"addGroup", "addReader"}
        /\ call.op = "addGroup" => /\ ~CoordTaken(call.wire)
                                  /\ FreeIds(DOMAIN groups, call.wire) # {}
                                  /\ call.before = Held
        /\ call.op = "addReader" => call.wire \notin DOMAIN readers
        /\ call.op = "addReader" /\ call.at = "checked" =>
              RoomForReceiver(call.addr) /\ call.before = Held

\* A configuration is staged only before the start; until a start, failed or
\* not, and after a shutdown the containers are empty.
PhaseInv ==
    /\ staged => ~running /\ ~failed
    /\ failed => ~running
    /\ ~running /\ ~failed => /\ DOMAIN groups = {} /\ DOMAIN sockets = {}
                              /\ DOMAIN receivers = {} /\ DOMAIN readers = {}

\* A group that is not stopped is in m_writerGroups and no shutdown task ran.
GroupInv ==
    \A g \in DOMAIN groups : ~groups[g].stopped => g \in listed /\ ~Stopping

\* A receiver's socket is of its address, an open socket has a receiver, and
\* until a shutdown task ran every receiver's socket is open and listening.
SocketInv ==
    /\ \A a \in DOMAIN receivers : receivers[a].sock[1] = a
    /\ \A s \in DOMAIN sockets : sockets[s].open => s \in Registered(receivers)
    /\ running /\ ~Stopping =>
          \A a \in DOMAIN receivers :
              /\ sockets[receivers[a].sock].open
              /\ sockets[receivers[a].sock].op \in {"receiving", "ready", "failed"}

\* addDynamicReader's task has acquired a receiver for a reader not stored yet.
Acquiring == TaskAt("addReader", "ready")

\* useCount counts the listeners, the coming one included, and there is no
\* receiver without one.
CountInv ==
    /\ IsFiniteSet(DOMAIN readers)
    /\ running /\ ~Acquiring =>
          /\ DOMAIN receivers = {readers[k].addr : k \in DOMAIN readers}
          /\ \A a \in DOMAIN receivers : receivers[a].useCount = Cardinality(Listeners(a))
    /\ running /\ Acquiring =>
          /\ DOMAIN receivers = {readers[k].addr : k \in DOMAIN readers} \cup {call.addr}
          /\ \A a \in DOMAIN receivers :
                receivers[a].useCount = Cardinality(Listeners(a)) + IF a = call.addr THEN 1 ELSE 0

Inv ==
    /\ TypeOK
    /\ CallInv
    /\ TaskInv
    /\ PhaseInv
    /\ GroupInv
    /\ CoordinatesUnique
    /\ SocketInv
    /\ CountInv

-----------------------------------------------------------------------------
(* Fresh runtime objects.                                                  *)

\* The id of a new runtime object is within the bound and not in use.
LEMMA FirstFreeFresh ==
    ASSUME NEW used, NEW x, FreeIds(used, x) # {}
    PROVE  \E i \in 1..MaxObjects : FirstFree(used, x) = <<x, i>> /\ <<x, i>> \notin used
<1> DEFINE T == FreeIds(used, x)
<1>1. T \subseteq Nat
  BY ConfigAssumption DEF FreeIds
<1> DEFINE R == {ss \in Nat \X Nat : ss[1] < ss[2]}
<1>a. IsWellFoundedOn(R, Nat)
  <2>1. OpToRel(<, Nat) = R
    BY Zenon DEF OpToRel
  <2> QED
    BY <2>1, NatLessThanWellFounded, Zenon
<1> HIDE DEF T, R
<1>2. PICK i \in T : \A j \in T : ~(<<j, i>> \in R)
  BY <1>1, <1>a, WFMin DEF T
<1>3. \A j \in T : i <= j
  <2> SUFFICES ASSUME NEW j \in T PROVE i <= j
    OBVIOUS
  <2>1. i \in Nat /\ j \in Nat
    BY <1>1
  <2>2. j < i => <<j, i>> \in R
    BY <2>1 DEF R
  <2> QED
    BY <1>2, <2>1, <2>2
<1> DEFINE c == CHOOSE m \in T : \A j \in T : m <= j
<1>4. c \in T
  BY <1>3
<1>5. c \in 1..MaxObjects /\ <<x, c>> \notin used
  BY <1>4 DEF T, FreeIds
<1>6. FirstFree(used, x) = <<x, c>>
  BY DEF FirstFree, T
<1> QED
  BY <1>5, <1>6

-----------------------------------------------------------------------------
(* What buildRuntimes makes of the configuration.                          *)

\* The items of a prefix of the configuration are finitely many.
LEMMA ItemsFinite ==
    ASSUME NEW i \in 0..Len(Config), NEW kind
    PROVE  Items(i, kind) \subseteq 1..Len(Config) /\ IsFiniteSet(Items(i, kind))
<1>1. Len(Config) \in Nat
  BY ConfigAssumption
<1>2. IsFiniteSet(1..i) /\ Items(i, kind) \in SUBSET (1..i)
  BY <1>1, FS_Interval DEF Items
<1>3. IsFiniteSet(Items(i, kind))
  BY <1>2, FS_Subset
<1> QED
  BY <1>1, <1>2, <1>3

\* The items of the configuration are typed.
LEMMA ItemsTyped ==
    ASSUME NEW i \in 0..Len(Config)
    PROVE  /\ \A j \in Items(i, "group") : Config[j].wire \in Coords /\ j \in 1..MaxObjects
           /\ \A j \in Items(i, "reader") : Config[j].wire \in Keys /\ Config[j].addr \in Addrs
<1>1. \A j \in 1..Len(Config) : Config[j] \in GroupItem \cup ReaderItem
  BY ConfigAssumption
<1>2. \A j \in 1..i : j \in 1..Len(Config) /\ j \in 1..MaxObjects
  BY ConfigAssumption
<1> QED
  BY <1>1, <1>2 DEF Items, GroupItem, ReaderItem

\* The writer groups built are typed, and none was built twice.
LEMMA BuiltGroupsTyped ==
    ASSUME NEW i \in 0..Len(Config)
    PROVE  BuiltGroups(i) \subseteq GroupIds
  BY ItemsTyped DEF BuiltGroups, GroupIds

\* The readers built are finitely many and typed; their addresses are the ones
\* receivers were built for.
LEMMA BuiltReadersTyped ==
    ASSUME NEW i \in 0..Len(Config)
    PROVE  /\ DOMAIN BuiltReaders(i) \subseteq Keys
           /\ IsFiniteSet(DOMAIN BuiltReaders(i))
           /\ \A k \in DOMAIN BuiltReaders(i) :
                \E j \in Items(i, "reader") :
                    /\ Config[j].wire = k
                    /\ BuiltReaders(i)[k] = NewReader(StaticTag, Config[j].addr)
           /\ BuiltReaders(i) \in [DOMAIN BuiltReaders(i) -> Reader]
<1> DEFINE I == Items(i, "reader")
           K == {Config[j].wire : j \in I}
           f == [j \in I |-> Config[j].wire]
<1>1. DOMAIN BuiltReaders(i) = K
  BY DEF BuiltReaders
<1>2. f \in Surjection(I, K)
  BY DEF Surjection
<1>3. IsFiniteSet(I)
  BY ItemsFinite
<1>4. IsFiniteSet(K)
  BY <1>2, <1>3, FS_Surjection
<1>5. ASSUME NEW k \in K
      PROVE  \E j \in I : Config[j].wire = k /\ BuiltReaders(i)[k] = NewReader(StaticTag, Config[j].addr)
  <2> DEFINE j == CHOOSE m \in I : Config[m].wire = k
  <2>1. j \in I /\ Config[j].wire = k
    BY <1>5
  <2>2. BuiltReaders(i)[k] = NewReader(StaticTag, Config[j].addr)
    BY DEF BuiltReaders
  <2> QED
    BY <2>1, <2>2
<1>6. K \subseteq Keys /\ \A j \in I : Config[j].addr \in Addrs
  BY ItemsTyped
<1>7. \A k \in K : BuiltReaders(i)[k] \in Reader
  <2>1. \A a \in Addrs : NewReader(StaticTag, a) \in Reader
    BY DEF NewReader, Reader, AllTags
  <2> QED
    BY <1>5, <1>6, <2>1
<1>8. BuiltReaders(i) \in [K -> Reader]
  BY <1>7 DEF BuiltReaders
<1> QED
  BY <1>1, <1>4, <1>5, <1>6, <1>8

\* The receivers built are typed and each has a socket of its address.
LEMMA BuiltReceiversTyped ==
    ASSUME NEW i \in 0..Len(Config)
    PROVE  /\ DOMAIN BuiltReceivers(i) \subseteq Addrs
           /\ Registered(BuiltReceivers(i)) \subseteq SocketIds
           /\ BuiltReceivers(i) \in [DOMAIN BuiltReceivers(i) ->
                                        [sock: Registered(BuiltReceivers(i)), useCount: Nat]]
           /\ \A a \in DOMAIN BuiltReceivers(i) : BuiltReceivers(i)[a].sock = <<a, 1>>
<1> DEFINE R == BuiltReceivers(i)
           U(a) == {j \in Items(i, "reader") : Config[j].addr = a}
<1>1. DOMAIN R = BuiltAddrs(i) /\ BuiltAddrs(i) \subseteq Addrs
  BY ItemsTyped DEF BuiltReceivers, BuiltAddrs
<1>2. \A a : Cardinality(U(a)) \in Nat
  <2> SUFFICES ASSUME NEW a PROVE Cardinality(U(a)) \in Nat
    OBVIOUS
  <2>1. U(a) \in SUBSET Items(i, "reader")
    OBVIOUS
  <2> QED
    BY <2>1, ItemsFinite, FS_Subset, FS_CardinalityType
<1>3. \A a \in DOMAIN R : R[a] = [sock |-> <<a, 1>>, useCount |-> Cardinality(U(a))]
  BY <1>1 DEF BuiltReceivers
<1>4. 1 \in 1..MaxObjects
  BY ConfigAssumption
<1> HIDE DEF U, R
<1>5. Registered(R) \subseteq SocketIds
  BY <1>1, <1>3, <1>4 DEF Registered, SocketIds
<1>6. \A a \in DOMAIN R : R[a] \in [sock: Registered(R), useCount: Nat]
  BY <1>2, <1>3 DEF Registered
<1>7. R = [a \in DOMAIN R |-> R[a]]
  BY DEF BuiltReceivers, R
<1>8. R \in [DOMAIN R -> [sock: Registered(R), useCount: Nat]]
  BY <1>6, <1>7
<1>9. \A a \in DOMAIN R : R[a].sock = <<a, 1>>
  BY <1>3
<1> QED
  BY <1>1, <1>5, <1>8, <1>9 DEF R

\* Without a duplicate key a receiver is used by as many readers as it counts.
LEMMA BuiltCounts ==
    ASSUME \A i \in 1..Len(Config) : ~Duplicate(i)
    PROVE  LET n == Len(Config)
               rs == BuiltReaders(n)
           IN /\ DOMAIN BuiltReceivers(n) = {rs[k].addr : k \in DOMAIN rs}
              /\ \A a \in DOMAIN BuiltReceivers(n) :
                    BuiltReceivers(n)[a].useCount = Cardinality({k \in DOMAIN rs : rs[k].addr = a})
<1> DEFINE n == Len(Config)
           I == Items(n, "reader")
           rs == BuiltReaders(n)
<1>1. n \in Nat /\ n \in 0..Len(Config)
  BY ConfigAssumption
<1>2. ASSUME NEW j \in I, NEW k \in I, Config[j].wire = Config[k].wire PROVE j = k
  <2>1. j \in 1..n /\ k \in 1..n /\ Config[j].kind = "reader" /\ Config[k].kind = "reader"
    BY DEF Items
  <2>2. ~(j < k)
    BY <1>1, <1>2, <2>1 DEF Duplicate, Items
  <2>3. ~(k < j)
    BY <1>1, <1>2, <2>1 DEF Duplicate, Items
  <2> QED
    BY <1>1, <2>1, <2>2, <2>3
<1>3. DOMAIN rs = {Config[j].wire : j \in I}
  BY DEF BuiltReaders
<1>4. \A j \in I : Config[j].wire \in DOMAIN rs /\ rs[Config[j].wire].addr = Config[j].addr
  <2> SUFFICES ASSUME NEW j \in I
               PROVE  Config[j].wire \in DOMAIN rs /\ rs[Config[j].wire].addr = Config[j].addr
    OBVIOUS
  <2>1. Config[j].wire \in DOMAIN rs
    BY <1>3
  <2>2. PICK m \in I : Config[m].wire = Config[j].wire
                       /\ rs[Config[j].wire] = NewReader(StaticTag, Config[m].addr)
    BY <1>1, <2>1, BuiltReadersTyped
  <2>3. m = j
    BY <1>2, <2>2
  <2> QED
    BY <2>1, <2>2, <2>3 DEF NewReader
<1>5. DOMAIN BuiltReceivers(n) = {rs[k].addr : k \in DOMAIN rs}
  BY <1>3, <1>4 DEF BuiltReceivers, BuiltAddrs
<1>6. ASSUME NEW a \in DOMAIN BuiltReceivers(n)
      PROVE  BuiltReceivers(n)[a].useCount = Cardinality({k \in DOMAIN rs : rs[k].addr = a})
  <2> DEFINE U == {j \in I : Config[j].addr = a}
             L == {k \in DOMAIN rs : rs[k].addr = a}
             f == [j \in U |-> Config[j].wire]
  <2>1. f \in [U -> L]
    BY <1>4
  <2>2. \A k \in L : \E j \in U : f[j] = k
    BY <1>3, <1>4
  <2>3. \A j, k \in U : f[j] = f[k] => j = k
    BY <1>2
  <2> HIDE DEF U, L, f
  <2>4. ExistsBijection(U, L)
    <3>1. f \in Injection(U, L)
      BY <2>1, <2>3 DEF Injection, IsInjective
    <3>2. f \in Surjection(U, L)
      BY <2>1, <2>2 DEF Surjection
    <3> QED
      BY <3>1, <3>2 DEF ExistsBijection, Bijection
  <2>5. IsFiniteSet(U)
    <3>1. U \in SUBSET I
      BY DEF U
    <3> QED
      BY <1>1, <3>1, ItemsFinite, FS_Subset
  <2>6. Cardinality(L) = Cardinality(U)
    BY <2>4, <2>5, FS_Bijection
  <2>7. BuiltReceivers(n)[a].useCount = Cardinality(U)
    BY DEF BuiltReceivers, U
  <2> QED
    BY <2>6, <2>7 DEF L
<1> QED
  BY <1>5, <1>6

-----------------------------------------------------------------------------
(* Steps that leave the runtime objects alone.                             *)

\* What the runtime state holds does not depend on the progress of timers and
\* receives.
LEMMA HeldKept ==
    ASSUME UNCHANGED <<listed, receivers, readers>>,
           DOMAIN groups' = DOMAIN groups, DOMAIN sockets' = DOMAIN sockets
    PROVE  Held' = Held
  BY DEF Held

\* The initial state satisfies the invariant.
LEMMA InitInv == Init => Inv
<1> SUFFICES ASSUME Init PROVE Inv
  OBVIOUS
<1>1. /\ DOMAIN groups = {} /\ DOMAIN sockets = {} /\ DOMAIN receivers = {} /\ DOMAIN readers = {}
      /\ listed = {} /\ call = None
      /\ ~staged /\ ~running /\ ~failed
  BY DEF Init, EmptyMap
<1>2. TypeOK
  <2>1. staged \in BOOLEAN /\ running \in BOOLEAN /\ failed \in BOOLEAN
    BY DEF Init
  <2>2. /\ groups \in [DOMAIN groups -> Group] /\ sockets \in [DOMAIN sockets -> Socket]
        /\ receivers \in [DOMAIN receivers -> [sock: DOMAIN sockets, useCount: Nat]]
        /\ readers \in [DOMAIN readers -> Reader]
    BY DEF Init, EmptyMap
  <2> QED
    BY <1>1, <2>1, <2>2 DEF TypeOK
<1>3. CallInv /\ TaskInv /\ PhaseInv /\ GroupInv /\ CoordinatesUnique /\ SocketInv
  BY <1>1 DEF CallInv, TaskInv, PhaseInv, GroupInv, CoordinatesUnique, SocketInv
<1>4. CountInv
  BY <1>1, FS_EmptySet DEF CountInv
<1> QED
  BY <1>2, <1>3, <1>4 DEF Inv

\* A step of the flags and the call alone keeps the rest of the invariant, if
\* it starts an engine only with empty containers.
LEMMA FrameInv ==
    ASSUME Inv, UNCHANGED runtimeVars,
           staged' \in BOOLEAN, running' \in BOOLEAN, failed' \in BOOLEAN, call' \in Call \cup {None},
           (Stopping' <=> Stopping),
           (~Acquiring /\ ~Acquiring') \/ call' = call,
           running' = running \/ (DOMAIN receivers = {} /\ DOMAIN readers = {}),
           CallInv', TaskInv', PhaseInv'
    PROVE  Inv'
<1> USE DEF Inv, runtimeVars
<1>1. TypeOK'
  BY DEF TypeOK
<1>2. GroupInv' /\ CoordinatesUnique'
  BY DEF GroupInv, CoordinatesUnique
<1>3. SocketInv'
  BY DEF SocketInv, Registered
<1>4. CountInv'
  <2>1. Acquiring' <=> Acquiring
    BY DEF Acquiring, TaskAt
  <2>2. UNCHANGED <<receivers, readers>> /\ \A a : Listeners(a)' = Listeners(a)
    BY DEF Listeners
  <2>3. CASE ~Acquiring
    <3>1. CASE running' = running
      BY <2>1, <2>2, <2>3, <3>1 DEF CountInv, Listeners
    <3>2. CASE DOMAIN receivers = {} /\ DOMAIN readers = {}
      <4>1. {readers[k].addr : k \in DOMAIN readers} = {}
        BY <3>2
      <4> QED
        BY <2>1, <2>2, <2>3, <3>2, <4>1 DEF CountInv
    <3> QED
      BY <3>1, <3>2
  <2>4. CASE Acquiring
    <3>1. call' = call
      BY <2>4
    <3>2. running
      BY <2>4 DEF CallInv, Acquiring, TaskAt
    <3> QED
      BY <2>1, <2>2, <2>4, <3>1, <3>2 DEF CountInv, Listeners
  <2> QED
    BY <2>3, <2>4
<1> QED
  BY <1>1, <1>2, <1>3, <1>4

\* Taking m_lifecycleMutex and posting a task preserves the invariant.
LEMMA PostInv ==
    ASSUME Inv, NEW op \in Ops, NEW tag \in Tags \cup {None}, NEW wire \in Coords \cup Keys \cup {None},
           NEW addr \in Addrs \cup {None}, Post(op, tag, wire, addr),
           op = "addGroup" => tag \in Tags /\ wire \in Coords,
           op = "addReader" => tag \in Tags /\ wire \in Keys /\ addr \in Addrs,
           op = "remove" => tag \in Tags
    PROVE  Inv'
<1>1. /\ call = None /\ running
      /\ call' = [op |-> op, tag |-> tag, wire |-> wire, addr |-> addr, at |-> "posted",
                result |-> "pending", before |-> None]
      /\ staged' = staged /\ running' = running /\ failed' = failed /\ UNCHANGED runtimeVars
  BY DEF Post
<1>2. call' \in Call
  BY <1>1 DEF Call
<1>3. (Stopping' <=> Stopping)
  BY <1>1 DEF Stopping
<1>4. CallInv' /\ TaskInv' /\ ~Acquiring /\ ~Acquiring'
  BY <1>1 DEF CallInv, TaskInv, Acquiring, TaskAt
<1>5. PhaseInv'
  BY <1>1 DEF Inv, PhaseInv, runtimeVars
<1> QED
  BY <1>1, <1>2, <1>3, <1>4, <1>5, FrameInv DEF Inv, TypeOK

\* A finished task's call is a call, with nothing left to run.
LEMMA TaskDoneCall ==
    ASSUME TypeOK, CallInv, NEW op, NEW point \in {"posted", "checked", "ready"}, TaskAt(op, point),
           NEW result \in {"ok", "seen", "threw"}, TaskDone(result)
    PROVE  /\ call' \in Call /\ call' # None /\ call'.op = op /\ call'.at = "done"
           /\ staged' = staged /\ running' = running /\ failed' = failed
           /\ ~Stopping /\ (Stopping' <=> op = "shutdown")
           /\ op # "refused" => running
           /\ CallInv' /\ TaskInv' /\ ~Acquiring'
<1>1. call \in Call /\ call # None /\ call.op = op /\ call.at = point
  BY DEF TaskAt, TypeOK
<1>2. call' = [op |-> call.op, tag |-> None, wire |-> None, addr |-> None, at |-> "done",
               result |-> result, before |-> None]
      /\ staged' = staged /\ running' = running /\ failed' = failed
  BY DEF TaskDone
<1>3. call' \in Call
  BY <1>1, <1>2 DEF Call
<1>4. call' # None
  BY <1>3, NoneAssumption
<1>5. call'.op = op /\ call'.at = "done"
  BY <1>1, <1>2
<1>6. ~Stopping /\ (Stopping' <=> op = "shutdown")
  BY <1>1, <1>4, <1>5 DEF Stopping
<1>7. CallInv' /\ (op # "refused" => running)
  BY <1>1, <1>2, <1>5 DEF CallInv
<1>8. TaskInv' /\ ~Acquiring'
  BY <1>5 DEF TaskInv, Acquiring, TaskAt
<1> QED
  BY <1>2, <1>3, <1>4, <1>5, <1>6, <1>7, <1>8

\* What the runtime state holds has a type.
LEMMA HeldTyped == TypeOK => Held \in Contents
<1> SUFFICES ASSUME TypeOK PROVE Held \in Contents
  OBVIOUS
<1>1. listed \subseteq GroupIds /\ DOMAIN groups \subseteq GroupIds /\ DOMAIN sockets \subseteq SocketIds
  BY DEF TypeOK
<1>2. \A a \in DOMAIN receivers : <<a, receivers[a]>> \in Addrs \X [sock: SocketIds, useCount: Nat]
  <2> SUFFICES ASSUME NEW a \in DOMAIN receivers
               PROVE  a \in Addrs /\ receivers[a] \in [sock: SocketIds, useCount: Nat]
    OBVIOUS
  <2>1. receivers[a] \in [sock: DOMAIN sockets, useCount: Nat]
    BY DEF TypeOK
  <2> QED
    BY <1>1, <2>1 DEF TypeOK
<1>3. \A k \in DOMAIN readers : <<k, readers[k]>> \in Keys \X Reader
  BY DEF TypeOK
<1> QED
  BY <1>1, <1>2, <1>3 DEF Held, Contents

\* A task that goes on is still a task in progress, with what it found recorded.
LEMMA ProceedCall ==
    ASSUME Inv, NEW op \in {"addGroup", "addReader"}, NEW at \in {"posted", "checked"}, TaskAt(op, at),
           NEW point \in {"checked", "ready"}, Proceed(point)
    PROVE  /\ call' \in Call /\ call # None /\ call' # None
           /\ call'.op = op /\ call'.at = point /\ call'.before = Held
           /\ call'.tag = call.tag /\ call'.wire = call.wire /\ call'.addr = call.addr
           /\ staged' = staged /\ running' = running /\ failed' = failed
           /\ running /\ ~Stopping /\ ~Stopping' /\ ~Acquiring /\ CallInv'
<1>1. call \in Call /\ call # None /\ call.op = op /\ call.at = at
  BY DEF TaskAt, Inv, TypeOK
<1>2. Found = Held
  BY <1>1 DEF Found, Inv, TaskInv
<1>3. /\ call' = [call EXCEPT !.at = point, !.before = Held]
      /\ staged' = staged /\ running' = running /\ failed' = failed
  BY <1>2 DEF Proceed
<1>4. Held \in Contents
  BY HeldTyped DEF Inv
<1>5. PICK f \in Contents : f = Held
  BY <1>4
<1>6. call' = [call EXCEPT !.at = point, !.before = f]
  BY <1>3, <1>5
<1>7. /\ call' \in Call /\ call'.op = op /\ call'.at = point /\ call'.before = f
      /\ call'.tag = call.tag /\ call'.wire = call.wire /\ call'.addr = call.addr
  BY <1>1, <1>6 DEF Call
<1>8. call' # None
  BY <1>7, NoneAssumption
<1>9. running /\ CallInv'
  BY <1>1, <1>3, <1>7, <1>8 DEF Inv, CallInv
<1>10. ~Stopping /\ ~Stopping' /\ ~Acquiring
  BY <1>1, <1>7, <1>8 DEF Stopping, Acquiring, TaskAt
<1> QED
  BY <1>1, <1>3, <1>5, <1>7, <1>8, <1>9, <1>10

\* The life cycle steps and API steps that only move flags and the call.
LEMMA FlagStepInv ==
    ASSUME Inv,
           \/ StageConfiguration \/ EnsureStarted
           \/ AddDynamicWriterGroup \/ AddDynamicReader \/ RemoveDynamic \/ ReaderDataSeen \/ Shutdown
           \/ RefuseCall \/ Return
           \/ CheckGroup \/ MakeTransmitter \/ RunAddGroupThrows
           \/ CheckReader \/ RunAddReaderThrows \/ RunSeen
           \/ UNCHANGED vars
    PROVE  Inv'
<1>1. CASE StageConfiguration
  <2>1. staged' \in BOOLEAN
    BY <1>1 DEF StageConfiguration
  <2>2. CallInv' /\ TaskInv' /\ PhaseInv' /\ (Stopping' <=> Stopping) /\ call' = call
    BY <1>1, HeldKept DEF StageConfiguration, Inv, CallInv, TaskInv, PhaseInv, Stopping, runtimeVars
  <2> QED
    BY <1>1, <2>1, <2>2, FrameInv DEF StageConfiguration, Inv, TypeOK
<1>2. CASE EnsureStarted
  <2>1. running' \in BOOLEAN
    BY <1>2 DEF EnsureStarted
  <2>2. CallInv' /\ TaskInv' /\ PhaseInv' /\ (Stopping' <=> Stopping) /\ DOMAIN receivers = {}
        /\ DOMAIN readers = {} /\ call' = call
    BY <1>2 DEF EnsureStarted, Inv, CallInv, TaskInv, PhaseInv, Stopping, runtimeVars
  <2> QED
    BY <1>2, <2>1, <2>2, FrameInv DEF EnsureStarted, Inv, TypeOK
<1>3. CASE AddDynamicWriterGroup
  BY <1>3, PostInv DEF AddDynamicWriterGroup, Ops
<1>4. CASE AddDynamicReader
  BY <1>4, PostInv DEF AddDynamicReader, Ops
<1>5. CASE RemoveDynamic
  BY <1>5, PostInv DEF RemoveDynamic, Ops
<1>6. CASE ReaderDataSeen
  BY <1>6, PostInv DEF ReaderDataSeen, Ops
<1>7. CASE Shutdown
  BY <1>7, PostInv DEF Shutdown, Ops
<1>8. CASE RefuseCall
  <2>1. call' \in Call
    BY <1>8 DEF RefuseCall, Call, Ops
  <2>2. CallInv' /\ PhaseInv' /\ (Stopping' <=> Stopping)
    BY <1>8 DEF RefuseCall, Inv, CallInv, PhaseInv, Stopping, runtimeVars
  <2>3. TaskInv' /\ ~Acquiring /\ ~Acquiring'
    BY <1>8 DEF RefuseCall, TaskInv, Acquiring, TaskAt
  <2> QED
    BY <1>8, <2>1, <2>2, <2>3, FrameInv DEF RefuseCall, Inv, TypeOK
<1>9. CASE Return
  <2>2. CallInv' /\ PhaseInv' /\ (Stopping' <=> Stopping)
    BY <1>9 DEF Return, Inv, CallInv, PhaseInv, Stopping, runtimeVars
  <2>3. TaskInv' /\ ~Acquiring /\ ~Acquiring'
    BY <1>9 DEF Return, TaskInv, Acquiring, TaskAt
  <2> QED
    BY <1>9, <2>2, <2>3, FrameInv DEF Return, Inv, TypeOK
<1>10. ASSUME NEW op \in Ops \ {"shutdown"}, NEW result \in {"ok", "seen", "threw"},
              NEW point \in {"posted", "checked"}, TaskAt(op, point), UNCHANGED runtimeVars, TaskDone(result)
       PROVE  Inv'
  <2>1. /\ call' \in Call /\ staged' = staged /\ running' = running /\ failed' = failed
        /\ ~Stopping /\ ~Stopping' /\ CallInv' /\ TaskInv' /\ ~Acquiring'
    BY <1>10, TaskDoneCall DEF Inv
  <2>2. PhaseInv'
    BY <1>10, <2>1 DEF Inv, PhaseInv, runtimeVars
  <2>3. ~Acquiring
    BY <1>10 DEF Acquiring, TaskAt
  <2> QED
    BY <1>10, <2>1, <2>2, <2>3, FrameInv DEF Inv, TypeOK
<1>11. CASE RunAddGroupThrows
  BY <1>10, <1>11 DEF RunAddGroupThrows, Task, Ops
<1>12. CASE RunAddReaderThrows
  BY <1>10, <1>12 DEF RunAddReaderThrows, Task, Ops
<1>13. CASE RunSeen
  BY <1>10, <1>13 DEF RunSeen, Task, Ops
<1>14. CASE UNCHANGED vars
  <2>1. CallInv' /\ PhaseInv' /\ (Stopping' <=> Stopping)
    BY <1>14 DEF vars, Inv, CallInv, PhaseInv, Stopping
  <2>2. TaskInv' /\ call' = call /\ UNCHANGED runtimeVars
    BY <1>14, HeldKept DEF vars, runtimeVars, Inv, TaskInv, CoordTaken, RoomForReceiver
  <2> QED
    BY <1>14, <2>1, <2>2, FrameInv DEF vars, runtimeVars, Inv, TypeOK
<1>15. ASSUME NEW op \in {"addGroup", "addReader"}, NEW at \in {"posted", "checked"}, TaskAt(op, at),
              NEW point \in {"checked", "ready"}, Proceed(point), UNCHANGED runtimeVars,
              op = "addReader" => point = "checked", TaskInv'
       PROVE  Inv'
  <2>1. /\ call' \in Call /\ call' # None /\ call'.op = op /\ call'.at = point
        /\ staged' = staged /\ running' = running /\ failed' = failed
        /\ ~Stopping /\ ~Stopping' /\ ~Acquiring /\ CallInv'
    BY <1>15, ProceedCall
  <2>2. PhaseInv'
    BY <1>15, <2>1 DEF Inv, PhaseInv, runtimeVars
  <2>3. ~Acquiring'
    BY <1>15, <2>1 DEF Acquiring, TaskAt
  <2> QED
    BY <1>15, <2>1, <2>2, <2>3, FrameInv DEF Inv, TypeOK
<1>16. CASE CheckGroup
  <2>1. /\ TaskAt("addGroup", "posted") /\ Proceed("checked") /\ UNCHANGED runtimeVars
        /\ ~CoordTaken(call.wire) /\ FreeIds(DOMAIN groups, call.wire) # {}
    BY <1>16 DEF CheckGroup, Task
  <2>2. /\ call'.op = "addGroup" /\ call'.wire = call.wire /\ call'.before = Held
    BY <2>1, ProceedCall
  <2>3. TaskInv'
    BY <2>1, <2>2, HeldKept DEF TaskInv, CoordTaken, runtimeVars
  <2> QED
    BY <1>15, <2>1, <2>3
<1>17. CASE MakeTransmitter
  <2>1. /\ TaskAt("addGroup", "checked") /\ Proceed("ready") /\ UNCHANGED runtimeVars
    BY <1>17 DEF MakeTransmitter
  <2>2. /\ call'.op = "addGroup" /\ call'.wire = call.wire /\ call'.before = Held
    BY <2>1, ProceedCall
  <2>3. ~CoordTaken(call.wire) /\ FreeIds(DOMAIN groups, call.wire) # {}
    BY <2>1 DEF Inv, TaskInv, TaskAt
  <2>4. TaskInv'
    BY <2>1, <2>2, <2>3, HeldKept DEF TaskInv, CoordTaken, runtimeVars
  <2> QED
    BY <1>15, <2>1, <2>4
<1>18. CASE CheckReader
  <2>1. /\ TaskAt("addReader", "posted") /\ Proceed("checked") /\ UNCHANGED runtimeVars
        /\ call.wire \notin DOMAIN readers /\ RoomForReceiver(call.addr)
    BY <1>18 DEF CheckReader, Task
  <2>2. /\ call'.op = "addReader" /\ call'.wire = call.wire /\ call'.addr = call.addr
        /\ call'.before = Held
    BY <2>1, ProceedCall
  <2>3. TaskInv'
    BY <2>1, <2>2, HeldKept DEF TaskInv, RoomForReceiver, runtimeVars
  <2> QED
    BY <1>15, <2>1, <2>3
<1> QED
  BY <1>1, <1>2, <1>3, <1>4, <1>5, <1>6, <1>7, <1>8, <1>9, <1>11, <1>12, <1>13, <1>14, <1>16, <1>17, <1>18

-----------------------------------------------------------------------------
(* The start.                                                              *)

\* A new writer group is a group.
LEMMA NewGroupTyped ==
    ASSUME NEW t \in AllTags, NEW timer \in {"none", "waiting", "fired", "aborted"}
    PROVE  NewGroup(t, timer) \in Group
<1>1. 0 \in 0..(SeqModulus - 1)
  BY ConfigAssumption
<1> QED
  BY <1>1 DEF NewGroup, Group

\* What startIfStaged leaves behind, whether it succeeds or throws after i
\* items: containers that agree with each other.
LEMMA BuiltInv ==
    ASSUME Inv, call' = None, NEW i \in 0..Len(Config), NEW r \in 0..Len(Config),
           NEW timer \in {"none", "waiting"}, NEW op \in {"none", "receiving"},
           staged' = FALSE, running' \in BOOLEAN, failed' \in BOOLEAN,
           groups' = [g \in BuiltGroups(i) |-> NewGroup(StaticTag, timer)],
           listed' = BuiltGroups(i),
           receivers' = BuiltReceivers(i),
           sockets' = [s \in Registered(BuiltReceivers(i)) |-> [open |-> TRUE, op |-> op]],
           readers' = BuiltReaders(r),
           PhaseInv',
           running' => /\ op = "receiving" /\ i = Len(Config) /\ r = Len(Config)
                       /\ \A j \in 1..Len(Config) : ~Duplicate(j)
    PROVE  Inv'
<1>1. TypeOK'
  <2>1. /\ DOMAIN groups' = BuiltGroups(i) /\ DOMAIN groups' \subseteq GroupIds
        /\ groups' \in [DOMAIN groups' -> Group]
    BY BuiltGroupsTyped, NewGroupTyped DEF AllTags
  <2>2. /\ DOMAIN sockets' = Registered(BuiltReceivers(i)) /\ DOMAIN sockets' \subseteq SocketIds
        /\ sockets' \in [DOMAIN sockets' -> Socket]
    <3>1. [open |-> TRUE, op |-> op] \in Socket
      BY DEF Socket
    <3> QED
      BY <3>1, BuiltReceiversTyped
  <2>3. /\ DOMAIN receivers' \subseteq Addrs
        /\ receivers' \in [DOMAIN receivers' -> [sock: DOMAIN sockets', useCount: Nat]]
    BY <2>2, BuiltReceiversTyped
  <2>4. DOMAIN readers' \subseteq Keys /\ readers' \in [DOMAIN readers' -> Reader]
    BY BuiltReadersTyped
  <2>5. staged' \in BOOLEAN /\ call' \in Call \cup {None} /\ listed' \subseteq DOMAIN groups'
    BY <2>1
  <2> QED
    BY <2>1, <2>2, <2>3, <2>4, <2>5 DEF TypeOK
<1>2. CallInv' /\ TaskInv' /\ ~Stopping' /\ ~Acquiring'
  BY DEF CallInv, TaskInv, Stopping, Acquiring, TaskAt
<1>3. GroupInv' /\ CoordinatesUnique'
  <2>1. \A g \in DOMAIN groups' : g \in listed' /\ groups'[g].tag = StaticTag
    BY DEF NewGroup
  <2>2. listed' \subseteq DOMAIN groups'
    OBVIOUS
  <2> QED
    BY <1>2, <2>1, <2>2 DEF GroupInv, CoordinatesUnique
<1>4. SocketInv'
  <2>1. \A a \in DOMAIN receivers' : receivers'[a].sock = <<a, 1>>
    BY BuiltReceiversTyped
  <2>2. /\ DOMAIN sockets' = Registered(receivers')
        /\ \A s \in DOMAIN sockets' : sockets'[s] = [open |-> TRUE, op |-> op]
    OBVIOUS
  <2>3. \A a \in DOMAIN receivers' : receivers'[a].sock \in DOMAIN sockets'
    BY <2>2 DEF Registered
  <2>4. /\ \A a \in DOMAIN receivers' : receivers'[a].sock[1] = a
        /\ \A s \in DOMAIN sockets' : sockets'[s].open => s \in Registered(receivers')
    BY <2>1, <2>2
  <2>5. running' => \A a \in DOMAIN receivers' :
                        /\ sockets'[receivers'[a].sock].open
                        /\ sockets'[receivers'[a].sock].op \in {"receiving", "ready", "failed"}
    BY <2>2, <2>3
  <2> QED
    BY <2>4, <2>5 DEF SocketInv, Registered
<1>5. CountInv'
  <2>1. IsFiniteSet(DOMAIN readers')
    BY BuiltReadersTyped
  <2>2. ASSUME running'
        PROVE  /\ DOMAIN receivers' = {readers'[k].addr : k \in DOMAIN readers'}
               /\ \A a \in DOMAIN receivers' :
                    receivers'[a].useCount = Cardinality({k \in DOMAIN readers' : readers'[k].addr = a})
    BY <2>2, BuiltCounts, ZenonT(30)
  <2> QED
    BY <1>2, <2>1, <2>2 DEF CountInv, Listeners
<1> QED
  BY <1>1, <1>2, <1>3, <1>4, <1>5 DEF Inv

\* startIfStaged, successful or not, preserves the invariant.
LEMMA StartInv == ASSUME Inv, StartIfStaged \/ StartFails PROVE Inv'
<1>1. Len(Config) \in Nat
  BY ConfigAssumption
<1>2. CASE StartIfStaged
  <2>1. /\ call = None /\ call' = None /\ staged /\ staged' = FALSE /\ running' = TRUE /\ failed' = failed
    BY <1>2 DEF StartIfStaged
  <2>2. PhaseInv' /\ running' \in BOOLEAN /\ failed' \in BOOLEAN
    BY <2>1 DEF Inv, TypeOK, PhaseInv
  <2>3. Len(Config) \in 0..Len(Config)
    BY <1>1
  <2> QED
    BY <1>2, <2>1, <2>2, <2>3, BuiltInv DEF StartIfStaged
<1>3. CASE StartFails
  <2>1. /\ call = None /\ call' = None /\ staged /\ staged' = FALSE /\ running' = running /\ failed' = TRUE
        /\ running = FALSE
    BY <1>3 DEF StartFails, Inv, TypeOK
  <2>2. PhaseInv' /\ running' \in BOOLEAN /\ failed' \in BOOLEAN
    BY <2>1 DEF Inv, TypeOK, PhaseInv
  <2>3. PICK i \in 1..Len(Config) :
          /\ groups' = [g \in BuiltGroups(i - 1) |-> NewGroup(StaticTag, "none")]
          /\ listed' = BuiltGroups(i - 1)
          /\ receivers' = BuiltReceivers(i - 1)
          /\ sockets' = [s \in Registered(BuiltReceivers(i - 1)) |-> [open |-> TRUE, op |-> "none"]]
          /\ readers' = BuiltReaders(i - 1) \/ readers' = BuiltReaders(i)
    BY <1>3 DEF StartFails
  <2>4. i - 1 \in 0..Len(Config) /\ i \in 0..Len(Config)
    BY <1>1
  <2>5. PICK r \in 0..Len(Config) : readers' = BuiltReaders(r)
    BY <2>3, <2>4
  <2> QED
    BY <2>1, <2>2, <2>3, <2>4, <2>5, BuiltInv
<1> QED
  BY <1>2, <1>3

\* The end of shutdown preserves the invariant: the containers are empty.
LEMMA JoinInv == ASSUME Inv, JoinAndClear PROVE Inv'
<1>1. /\ DOMAIN groups' = {} /\ DOMAIN sockets' = {} /\ DOMAIN receivers' = {} /\ DOMAIN readers' = {}
      /\ listed' = {} /\ call' = None /\ running' = FALSE /\ staged' = staged /\ failed' = failed
      /\ call # None /\ call.op = "shutdown"
  BY DEF JoinAndClear, EmptyMap
<1>2. TypeOK'
  <2>1. running' \in BOOLEAN
    BY <1>1
  <2>2. /\ groups' \in [DOMAIN groups' -> Group] /\ sockets' \in [DOMAIN sockets' -> Socket]
        /\ receivers' \in [DOMAIN receivers' -> [sock: DOMAIN sockets', useCount: Nat]]
        /\ readers' \in [DOMAIN readers' -> Reader]
    BY DEF JoinAndClear, EmptyMap
  <2> QED
    BY <1>1, <2>1, <2>2 DEF Inv, TypeOK
<1>3. CallInv' /\ TaskInv' /\ GroupInv' /\ CoordinatesUnique' /\ SocketInv'
  BY <1>1 DEF CallInv, TaskInv, GroupInv, CoordinatesUnique, SocketInv
<1>4. PhaseInv'
  BY <1>1 DEF Inv, PhaseInv, CallInv
<1>5. CountInv'
  BY <1>1, FS_EmptySet DEF CountInv
<1> QED
  BY <1>2, <1>3, <1>4, <1>5 DEF Inv

-----------------------------------------------------------------------------
(* The tasks.                                                              *)

\* addDynamicWriterGroup's task preserves the invariant: the new group is the
\* only one on its coordinates.
LEMMA CommitGroupInv == ASSUME Inv, CommitGroup PROVE Inv'
<1> DEFINE c == call.wire
           t == call.tag
           g == FirstFree(DOMAIN groups, c)
<1>1. /\ TaskAt("addGroup", "ready") /\ TaskDone("ok") /\ ~CoordTaken(c)
      /\ FreeIds(DOMAIN groups, c) # {}
      /\ groups' = Put(groups, g, NewGroup(t, "waiting")) /\ listed' = listed \cup {g}
      /\ UNCHANGED <<sockets, receivers, readers>>
  BY DEF CommitGroup, Inv, TaskInv, TaskAt
<1>2. /\ call' \in Call /\ call' # None /\ staged' = staged /\ running' = running /\ failed' = failed
      /\ running /\ ~Stopping /\ ~Stopping' /\ CallInv' /\ TaskInv' /\ ~Acquiring'
  BY <1>1, TaskDoneCall DEF Inv
<1>3. t \in Tags /\ c \in Coords /\ ~Acquiring
  BY <1>1 DEF Inv, CallInv, TaskAt, Acquiring
<1>4. PICK i \in 1..MaxObjects : g = <<c, i>> /\ g \notin DOMAIN groups
  BY <1>1, FirstFreeFresh
<1>5. g \in GroupIds /\ g[1] = c /\ g \notin DOMAIN groups
  BY <1>3, <1>4 DEF GroupIds
<1>6. NewGroup(t, "waiting") \in Group
  BY <1>3, NewGroupTyped DEF AllTags
<1> HIDE DEF g
<1>7. /\ DOMAIN groups' = DOMAIN groups \cup {g}
      /\ groups'[g] = NewGroup(t, "waiting")
      /\ \A h \in DOMAIN groups : groups'[h] = groups[h]
      /\ groups' \in [DOMAIN groups \cup {g} -> Group]
  BY <1>1, <1>5, <1>6 DEF Put, Inv, TypeOK
<1>8. TypeOK'
  BY <1>1, <1>2, <1>5, <1>7 DEF Inv, TypeOK
<1>9. PhaseInv'
  BY <1>1, <1>2, <1>5 DEF Inv, PhaseInv
<1>10. GroupInv'
  BY <1>1, <1>2, <1>7 DEF Inv, GroupInv
<1>11. CoordinatesUnique'
  <2>1. \A h \in listed : h \in DOMAIN groups /\ h[1] # c
    BY <1>1 DEF CoordTaken, Inv, TypeOK
  <2> QED
    BY <1>1, <1>5, <1>7, <2>1 DEF Inv, CoordinatesUnique
<1>12. SocketInv' /\ CountInv'
  BY <1>1, <1>2, <1>3 DEF Inv, SocketInv, CountInv, Registered, Listeners
<1> QED
  BY <1>2, <1>8, <1>9, <1>10, <1>11, <1>12 DEF Inv

\* A new reader is one more listener on its address and none elsewhere.
LEMMA ListenersPut ==
    ASSUME IsFiniteSet(DOMAIN readers), NEW k, k \notin DOMAIN readers, NEW t, NEW a,
           readers' = Put(readers, k, NewReader(t, a))
    PROVE  /\ IsFiniteSet(DOMAIN readers') /\ DOMAIN readers' = DOMAIN readers \cup {k}
           /\ \A j \in DOMAIN readers : readers'[j] = readers[j]
           /\ readers'[k] = NewReader(t, a)
           /\ IsFiniteSet(Listeners(a))
           /\ Cardinality(Listeners(a)') = Cardinality(Listeners(a)) + 1
           /\ \A b : b # a => Listeners(b)' = Listeners(b)
<1>1. /\ DOMAIN readers' = DOMAIN readers \cup {k}
      /\ \A j \in DOMAIN readers : readers'[j] = readers[j]
      /\ readers'[k] = NewReader(t, a) /\ readers'[k].addr = a
  BY DEF Put, NewReader
<1>2. IsFiniteSet(DOMAIN readers')
  BY <1>1, FS_AddElement
<1>3. Listeners(a)' = Listeners(a) \cup {k} /\ k \notin Listeners(a)
  BY <1>1 DEF Listeners
<1>4. \A b : b # a => Listeners(b)' = Listeners(b)
  BY <1>1 DEF Listeners
<1>5. IsFiniteSet(Listeners(a))
  <2>1. Listeners(a) \in SUBSET DOMAIN readers
    BY DEF Listeners
  <2> QED
    BY <2>1, FS_Subset
<1>6. Cardinality(Listeners(a)') = Cardinality(Listeners(a)) + 1
  BY <1>3, <1>5, FS_AddElement
<1> QED
  BY <1>1, <1>2, <1>4, <1>5, <1>6

\* addDynamicReader's task acquires a receiver, shared or new, for the reader it
\* will store.
LEMMA AcquireInv == ASSUME Inv, AcquireForReader PROVE Inv'
<1>1. PICK k \in Keys, a \in Addrs : k = call.wire /\ a = call.addr
  BY DEF AcquireForReader, Inv, CallInv, TaskAt
<1>2. /\ TaskAt("addReader", "checked") /\ Proceed("ready") /\ AcquireReceiver(a)
      /\ UNCHANGED <<groups, listed, readers>>
  BY <1>1 DEF AcquireForReader
<1>3. /\ call' \in Call /\ call' # None /\ call'.op = "addReader" /\ call'.at = "ready"
      /\ call'.wire = k /\ call'.addr = a
      /\ staged' = staged /\ running' = running /\ failed' = failed
      /\ running /\ ~Stopping /\ ~Stopping' /\ ~Acquiring /\ CallInv'
  BY <1>1, <1>2, ProceedCall
<1>4. k \notin DOMAIN readers /\ RoomForReceiver(a)
  BY <1>1, <1>2 DEF Inv, TaskInv, TaskAt
<1>5. TaskInv' /\ Acquiring'
  BY <1>2, <1>3, <1>4 DEF TaskInv, Acquiring, TaskAt
<1>6. PhaseInv' /\ GroupInv' /\ CoordinatesUnique'
  BY <1>2, <1>3 DEF Inv, PhaseInv, GroupInv, CoordinatesUnique
<1>7. \A b : Listeners(b)' = Listeners(b)
  BY <1>2 DEF Listeners
<1>8. /\ DOMAIN receivers = {readers[j].addr : j \in DOMAIN readers}
      /\ \A b \in DOMAIN receivers : receivers[b].useCount = Cardinality(Listeners(b))
      /\ IsFiniteSet(DOMAIN readers)
  BY <1>3 DEF Inv, CountInv
<1>9. CASE a \in DOMAIN receivers
  <2>1. receivers' = [receivers EXCEPT ![a].useCount = @ + 1] /\ sockets' = sockets
    BY <1>2, <1>9 DEF AcquireReceiver
  <2>2. /\ DOMAIN receivers' = DOMAIN receivers
        /\ \A b \in DOMAIN receivers : /\ receivers'[b].sock = receivers[b].sock
                                       /\ b # a => receivers'[b].useCount = receivers[b].useCount
                                       /\ receivers[b].useCount \in Nat
        /\ receivers'[a].useCount = receivers[a].useCount + 1
        /\ receivers' \in [DOMAIN receivers' -> [sock: DOMAIN sockets', useCount: Nat]]
    BY <1>9, <2>1 DEF Inv, TypeOK
  <2>3. TypeOK'
    BY <1>2, <1>3, <2>1, <2>2 DEF Inv, TypeOK
  <2>4. Registered(receivers') = Registered(receivers)
    BY <2>2 DEF Registered
  <2>5. SocketInv'
    BY <1>3, <2>1, <2>2, <2>4 DEF Inv, SocketInv, Registered
  <2>6. CountInv'
    <3>1. DOMAIN receivers' = {readers'[j].addr : j \in DOMAIN readers'} \cup {call'.addr}
      BY <1>2, <1>3, <1>8, <1>9, <2>2
    <3>2. \A b \in DOMAIN receivers' :
            receivers'[b].useCount = Cardinality(Listeners(b)') + IF b = call'.addr THEN 1 ELSE 0
      BY <1>3, <1>7, <1>8, <1>9, <2>2
    <3> QED
      BY <1>2, <1>5, <1>8, <3>1, <3>2 DEF CountInv, Listeners
  <2> QED
    BY <1>3, <1>5, <1>6, <2>3, <2>5, <2>6 DEF Inv
<1>10. CASE a \notin DOMAIN receivers
  <2> DEFINE s == FirstFree(DOMAIN sockets, a)
  <2>1. /\ FreeIds(DOMAIN sockets, a) # {}
        /\ receivers' = Put(receivers, a, [sock |-> s, useCount |-> 1])
        /\ sockets' = Put(sockets, s, [open |-> TRUE, op |-> "receiving"])
    BY <1>2, <1>4, <1>10 DEF AcquireReceiver, RoomForReceiver
  <2>2. PICK i \in 1..MaxObjects : s = <<a, i>> /\ <<a, i>> \notin DOMAIN sockets
    BY <2>1, FirstFreeFresh, Zenon
  <2>3. s \in SocketIds /\ s[1] = a /\ s \notin DOMAIN sockets
    BY <1>1, <2>2 DEF SocketIds
  <2> HIDE DEF s
  <2>4. /\ DOMAIN sockets' = DOMAIN sockets \cup {s}
        /\ \A r \in DOMAIN sockets : sockets'[r] = sockets[r]
        /\ sockets'[s] = [open |-> TRUE, op |-> "receiving"]
        /\ sockets' \in [DOMAIN sockets' -> Socket]
    <3>1. [open |-> TRUE, op |-> "receiving"] \in Socket
      BY DEF Socket
    <3> QED
      BY <2>1, <2>3, <3>1 DEF Inv, TypeOK, Put
  <2>5. /\ DOMAIN receivers' = DOMAIN receivers \cup {a}
        /\ \A b \in DOMAIN receivers : receivers'[b] = receivers[b]
        /\ receivers'[a] = [sock |-> s, useCount |-> 1]
    BY <1>10, <2>1 DEF Put
  <2>6. receivers' \in [DOMAIN receivers' -> [sock: DOMAIN sockets', useCount: Nat]]
    <3>1. receivers = [b \in DOMAIN receivers |-> receivers[b]]
          /\ \A b \in DOMAIN receivers : receivers[b] \in [sock: DOMAIN sockets, useCount: Nat]
      BY DEF Inv, TypeOK
    <3>2. \A b \in DOMAIN receivers' : receivers'[b] \in [sock: DOMAIN sockets', useCount: Nat]
      BY <2>4, <2>5, <3>1
    <3> QED
      BY <2>1, <3>2 DEF Put
  <2>7. TypeOK'
    BY <1>1, <1>2, <1>3, <2>3, <2>4, <2>5, <2>6 DEF Inv, TypeOK
  <2>8. Registered(receivers') = Registered(receivers) \cup {s}
    BY <1>10, <2>5 DEF Registered
  <2>9. SocketInv'
    <3>1. \A b \in DOMAIN receivers' : receivers'[b].sock[1] = b
      BY <2>3, <2>5 DEF Inv, SocketInv
    <3>2. \A r \in DOMAIN sockets' : sockets'[r].open => r \in Registered(receivers')
      BY <2>4, <2>8 DEF Inv, SocketInv
    <3>3. \A b \in DOMAIN receivers' : /\ sockets'[receivers'[b].sock].open
                                       /\ sockets'[receivers'[b].sock].op \in {"receiving", "ready", "failed"}
      <4>1. \A b \in DOMAIN receivers : receivers[b].sock \in DOMAIN sockets
        BY DEF Inv, TypeOK
      <4> QED
        BY <1>3, <2>4, <2>5, <4>1 DEF Inv, SocketInv
    <3> QED
      BY <3>1, <3>2, <3>3 DEF SocketInv, Registered
  <2>10. CountInv'
    <3>1. Listeners(a) = {}
      BY <1>8, <1>10 DEF Listeners
    <3>2. Cardinality(Listeners(a)') = 0
      BY <1>7, <3>1, FS_EmptySet
    <3>3. DOMAIN receivers' = {readers'[j].addr : j \in DOMAIN readers'} \cup {call'.addr}
      BY <1>2, <1>3, <1>8, <2>5
    <3>4. \A b \in DOMAIN receivers' :
            receivers'[b].useCount = Cardinality(Listeners(b)') + IF b = call'.addr THEN 1 ELSE 0
      <4>1. \A b \in DOMAIN receivers : receivers[b].useCount \in Nat
        BY DEF Inv, TypeOK
      <4> QED
        BY <1>3, <1>7, <1>8, <1>10, <2>5, <3>2, <4>1
    <3> QED
      BY <1>2, <1>5, <1>8, <3>3, <3>4 DEF CountInv, Listeners
  <2> QED
    BY <1>3, <1>5, <1>6, <2>7, <2>9, <2>10 DEF Inv
<1> QED
  BY <1>9, <1>10

\* addDynamicReader's task stores the reader its receiver was acquired for.
LEMMA CommitReaderInv == ASSUME Inv, CommitReader PROVE Inv'
<1>1. PICK t \in Tags, k \in Keys, a \in Addrs : t = call.tag /\ k = call.wire /\ a = call.addr
  BY DEF CommitReader, Inv, CallInv, TaskAt
<1>2. /\ TaskAt("addReader", "ready") /\ TaskDone("ok") /\ k \notin DOMAIN readers
      /\ readers' = Put(readers, k, NewReader(t, a))
      /\ UNCHANGED <<groups, listed, sockets, receivers>>
  BY <1>1 DEF CommitReader, Inv, TaskInv, TaskAt
<1>3. /\ call' \in Call /\ call' # None /\ staged' = staged /\ running' = running /\ failed' = failed
      /\ running /\ ~Stopping /\ ~Stopping' /\ CallInv' /\ TaskInv' /\ ~Acquiring' /\ Acquiring
  BY <1>2, TaskDoneCall DEF Inv, Acquiring
<1>4. /\ IsFiniteSet(DOMAIN readers') /\ DOMAIN readers' = DOMAIN readers \cup {k}
      /\ \A j \in DOMAIN readers : readers'[j] = readers[j]
      /\ readers'[k] = NewReader(t, a)
      /\ IsFiniteSet(Listeners(a))
      /\ Cardinality(Listeners(a)') = Cardinality(Listeners(a)) + 1
      /\ \A b : b # a => Listeners(b)' = Listeners(b)
  BY <1>2, ListenersPut DEF Inv, CountInv
<1>5. DOMAIN readers' \subseteq Keys /\ readers' \in [DOMAIN readers' -> Reader]
  <2>1. NewReader(t, a) \in Reader
    BY <1>1 DEF NewReader, Reader, AllTags
  <2> QED
    BY <1>1, <1>2, <1>4, <2>1 DEF Inv, TypeOK, Put
<1>6. TypeOK' /\ PhaseInv' /\ GroupInv' /\ CoordinatesUnique'
  BY <1>2, <1>3, <1>5 DEF Inv, TypeOK, PhaseInv, GroupInv, CoordinatesUnique
<1>7. SocketInv'
  BY <1>2, <1>3 DEF Inv, SocketInv, Registered
<1>8. CountInv'
  <2>1. readers'[k].addr = a
    BY <1>4 DEF NewReader
  <2>2. {readers'[j].addr : j \in DOMAIN readers'} = {readers[j].addr : j \in DOMAIN readers} \cup {a}
    BY <1>2, <1>4, <2>1
  <2>3. /\ DOMAIN receivers = {readers[j].addr : j \in DOMAIN readers} \cup {a}
        /\ \A b \in DOMAIN receivers :
              receivers[b].useCount = Cardinality(Listeners(b)) + IF b = a THEN 1 ELSE 0
        /\ \A b \in DOMAIN receivers : receivers[b].useCount \in Nat
    BY <1>1, <1>3 DEF Inv, CountInv, TypeOK
  <2>4. \A b : IsFiniteSet(Listeners(b)) /\ Cardinality(Listeners(b)) \in Nat
    <3> SUFFICES ASSUME NEW b PROVE IsFiniteSet(Listeners(b)) /\ Cardinality(Listeners(b)) \in Nat
      OBVIOUS
    <3>1. Listeners(b) \in SUBSET DOMAIN readers /\ IsFiniteSet(DOMAIN readers)
      BY DEF Listeners, Inv, CountInv
    <3> QED
      BY <3>1, FS_Subset, FS_CardinalityType
  <2>5. \A b \in DOMAIN receivers : receivers[b].useCount = Cardinality(Listeners(b)')
    BY <1>4, <2>3, <2>4
  <2> QED
    BY <1>2, <1>3, <1>4, <2>2, <2>3, <2>5 DEF CountInv, Listeners
<1> QED
  BY <1>3, <1>6, <1>7, <1>8 DEF Inv

\* The listeners of an address are those that stay and those that go.
LEMMA ListenersWithout ==
    ASSUME IsFiniteSet(DOMAIN readers), NEW G \in SUBSET DOMAIN readers,
           readers' = Without(readers, G), NEW a
    PROVE  /\ IsFiniteSet(Listeners(a)') /\ Cardinality(Listeners(a)') \in Nat
           /\ Cardinality(Listeners(a)) \in Nat
           /\ Cardinality(Listeners(a)) - Cardinality({k \in G : readers[k].addr = a})
                = Cardinality(Listeners(a)')
<1> DEFINE gone == {k \in G : readers[k].addr = a}
           stay == {k \in DOMAIN readers \ G : readers[k].addr = a}
<1>1. Listeners(a)' = stay /\ Listeners(a) = stay \cup gone /\ stay \cap gone = {}
  BY DEF Listeners, Without
<1>2. IsFiniteSet(stay) /\ IsFiniteSet(gone)
  <2>1. stay \in SUBSET DOMAIN readers /\ gone \in SUBSET DOMAIN readers
    OBVIOUS
  <2> QED
    BY <2>1, FS_Subset
<1> HIDE DEF gone, stay
<1>3. /\ IsFiniteSet(stay \cup gone)
      /\ Cardinality(stay \cup gone) = Cardinality(stay) + Cardinality(gone) - Cardinality({})
  BY <1>1, <1>2, FS_Union
<1>4. /\ Cardinality({}) = 0 /\ Cardinality(stay) \in Nat /\ Cardinality(gone) \in Nat
  BY <1>2, FS_EmptySet, FS_CardinalityType
<1>5. /\ Cardinality(Listeners(a)) = Cardinality(stay) + Cardinality(gone)
      /\ Cardinality(Listeners(a)') = Cardinality(stay)
  BY <1>1, <1>3, <1>4
<1> QED
  BY <1>1, <1>2, <1>4, <1>5 DEF gone

\* removeDynamic's task preserves the invariant: the groups of the tag are
\* stopped, its readers release their receivers, and exactly the receivers
\* nobody uses any more are closed.
LEMMA RunRemoveInv == ASSUME Inv, RunRemove PROVE Inv'
<1>1. PICK t \in Tags : t = call.tag
  BY DEF RunRemove, Inv, CallInv, Task, TaskAt
<1>2. PICK GG, GR, RL, UN :
        /\ GG = {g \in listed : groups[g].tag = t}
        /\ GR = {k \in DOMAIN readers : readers[k].tag = t}
        /\ RL = Released(GR)
        /\ UN = {a \in DOMAIN receivers : RL[a].useCount = 0}
  OBVIOUS
<1>3. PICK mid, smid :
        /\ mid = [g \in DOMAIN groups |-> IF g \in GG THEN Cancelled(g) ELSE groups[g]]
        /\ smid = [s \in DOMAIN sockets |->
                     IF s \in {receivers[a].sock : a \in UN} THEN Closed(s) ELSE sockets[s]]
  OBVIOUS
<1>4. /\ Task("remove") /\ TaskDone("ok")
      /\ listed' = listed \ GG
      /\ groups' = DropGroups(mid, listed')
      /\ readers' = Without(readers, GR)
      /\ receivers' = Without(RL, UN)
      /\ sockets' = DropSockets(smid, receivers')
  BY <1>1, <1>2, <1>3 DEF RunRemove
<1>5. /\ call' \in Call /\ call' # None /\ staged' = staged /\ running' = running /\ failed' = failed
      /\ running /\ ~Stopping /\ ~Stopping' /\ CallInv' /\ TaskInv' /\ ~Acquiring /\ ~Acquiring'
  BY <1>4, TaskDoneCall DEF Inv, Task, TaskAt, Acquiring
<1>6. PhaseInv'
  BY <1>5 DEF Inv, PhaseInv
<1>7. /\ DOMAIN mid = DOMAIN groups
      /\ \A g \in DOMAIN groups : /\ mid[g] \in Group /\ mid[g].tag = groups[g].tag
                                  /\ g \in GG => mid[g].stopped
                                  /\ g \notin GG => mid[g] = groups[g]
  <2>1. DOMAIN mid = DOMAIN groups /\ \A g \in DOMAIN groups : groups[g] \in Group
    BY <1>3 DEF Inv, TypeOK
  <2>2. \A g \in DOMAIN groups : /\ Cancelled(g) \in Group /\ Cancelled(g).tag = groups[g].tag
                                 /\ Cancelled(g).stopped
    BY <2>1 DEF Cancelled, Group
  <2> QED
    BY <1>3, <2>1, <2>2
<1>8. /\ DOMAIN groups' = {g \in DOMAIN groups : g \in listed' \/ mid[g].timer # "none"}
      /\ \A g \in DOMAIN groups' : groups'[g] = mid[g]
      /\ groups' = [g \in DOMAIN groups' |-> groups'[g]]
  BY <1>4, <1>7 DEF DropGroups, Without
<1>9. /\ DOMAIN groups' \subseteq GroupIds /\ groups' \in [DOMAIN groups' -> Group]
      /\ listed' \subseteq DOMAIN groups'
  BY <1>4, <1>7, <1>8 DEF Inv, TypeOK
<1>10. GroupInv'
  BY <1>4, <1>5, <1>7, <1>8 DEF Inv, GroupInv
<1>11. CoordinatesUnique'
  BY <1>4, <1>7, <1>8, <1>9 DEF Inv, CoordinatesUnique
<1>12. /\ DOMAIN readers' = DOMAIN readers \ GR /\ DOMAIN readers' \subseteq Keys
       /\ \A k \in DOMAIN readers' : readers'[k] = readers[k]
       /\ readers' \in [DOMAIN readers' -> Reader]
  BY <1>4 DEF Without, Inv, TypeOK
<1>13. GR \in SUBSET DOMAIN readers /\ IsFiniteSet(DOMAIN readers) /\ IsFiniteSet(DOMAIN readers')
  <2>1. GR \in SUBSET DOMAIN readers /\ IsFiniteSet(DOMAIN readers)
        /\ DOMAIN readers' \in SUBSET DOMAIN readers
    BY <1>2, <1>12 DEF Inv, CountInv
  <2> QED
    BY <2>1, FS_Subset
<1>14. /\ DOMAIN receivers = {readers[j].addr : j \in DOMAIN readers}
       /\ \A b \in DOMAIN receivers : receivers[b].useCount = Cardinality(Listeners(b))
  BY <1>5 DEF Inv, CountInv
<1>15. /\ DOMAIN RL = DOMAIN receivers
       /\ \A b \in DOMAIN receivers : /\ RL[b] = [sock |-> receivers[b].sock,
                                                   useCount |-> Cardinality(Listeners(b)')]
                                      /\ Cardinality(Listeners(b)') \in Nat
                                      /\ IsFiniteSet(Listeners(b)')
  <2>1. DOMAIN RL = DOMAIN receivers
    BY <1>2 DEF Released
  <2>2. ASSUME NEW b \in DOMAIN receivers
        PROVE  /\ RL[b] = [sock |-> receivers[b].sock, useCount |-> Cardinality(Listeners(b)')]
               /\ Cardinality(Listeners(b)') \in Nat /\ IsFiniteSet(Listeners(b)')
    <3>1. receivers[b] = [sock |-> receivers[b].sock, useCount |-> Cardinality(Listeners(b))]
      BY <1>14 DEF Inv, TypeOK
    <3>2. RL[b] = [receivers[b] EXCEPT !.useCount = @ - Cardinality({k \in GR : readers[k].addr = b})]
      BY <1>2 DEF Released
    <3>3. RL[b] = [sock |-> receivers[b].sock,
                   useCount |-> Cardinality(Listeners(b)) - Cardinality({k \in GR : readers[k].addr = b})]
      BY <3>1, <3>2
    <3>4. /\ Cardinality(Listeners(b)) - Cardinality({k \in GR : readers[k].addr = b})
               = Cardinality(Listeners(b)')
          /\ Cardinality(Listeners(b)') \in Nat /\ IsFiniteSet(Listeners(b)')
      BY <1>4, <1>13, ListenersWithout
    <3> QED
      BY <3>3, <3>4
  <2> QED
    BY <2>1, <2>2
<1>16. \A b \in DOMAIN receivers : b \in UN <=> Listeners(b)' = {}
  <2> SUFFICES ASSUME NEW b \in DOMAIN receivers PROVE b \in UN <=> Listeners(b)' = {}
    OBVIOUS
  <2>1. b \in UN <=> Cardinality(Listeners(b)') = 0
    <3>1. RL[b].useCount = Cardinality(Listeners(b)')
      BY <1>15
    <3>2. b \in UN <=> RL[b].useCount = 0
      BY <1>2
    <3> QED
      BY <3>1, <3>2
  <2>2. IsFiniteSet(Listeners(b)')
    BY <1>15
  <2> QED
    BY <2>1, <2>2, FS_EmptySet
<1>17. /\ DOMAIN receivers' = DOMAIN receivers \ UN
       /\ \A b \in DOMAIN receivers' :
            receivers'[b] = [sock |-> receivers[b].sock, useCount |-> Cardinality(Listeners(b)')]
       /\ receivers' = [b \in DOMAIN receivers' |-> receivers'[b]]
  BY <1>4, <1>15 DEF Without
<1>18. CountInv'
  <2>1. DOMAIN receivers' = {readers'[j].addr : j \in DOMAIN readers'}
    BY <1>12, <1>14, <1>16, <1>17 DEF Listeners
  <2>2. \A b \in DOMAIN receivers' : receivers'[b].useCount = Cardinality(Listeners(b)')
    BY <1>17
  <2> QED
    BY <1>5, <1>13, <2>1, <2>2 DEF CountInv, Listeners
<1>19. \A a, b \in DOMAIN receivers : receivers[a].sock = receivers[b].sock => a = b
  BY DEF Inv, SocketInv
<1>20. /\ \A a \in DOMAIN receivers' : receivers'[a].sock = receivers[a].sock
       /\ Registered(receivers') = {receivers[a].sock : a \in DOMAIN receivers \ UN}
       /\ Registered(receivers') \subseteq DOMAIN sockets
  BY <1>17 DEF Registered, Inv, TypeOK
<1>21. /\ DOMAIN smid = DOMAIN sockets
       /\ \A s \in DOMAIN sockets :
            /\ smid[s] \in Socket
            /\ s \in {receivers[a].sock : a \in UN} => ~smid[s].open
            /\ s \notin {receivers[a].sock : a \in UN} => smid[s] = sockets[s]
  <2>1. \A s \in DOMAIN sockets : sockets[s] \in Socket
    BY DEF Inv, TypeOK
  <2>2. \A s \in DOMAIN sockets : Closed(s) \in Socket /\ ~Closed(s).open
    BY <2>1 DEF Closed, Socket
  <2> QED
    BY <1>3, <2>1, <2>2
<1>22. /\ DOMAIN sockets' = {s \in DOMAIN sockets : s \in Registered(receivers') \/ smid[s].op # "none"}
       /\ \A s \in DOMAIN sockets' : sockets'[s] = smid[s]
       /\ sockets' = [s \in DOMAIN sockets' |-> sockets'[s]]
  BY <1>4, <1>21 DEF DropSockets, Without
<1>23. /\ DOMAIN sockets' \subseteq SocketIds /\ sockets' \in [DOMAIN sockets' -> Socket]
       /\ Registered(receivers') \subseteq DOMAIN sockets'
  BY <1>20, <1>21, <1>22 DEF Inv, TypeOK
<1>24. /\ DOMAIN receivers' \subseteq Addrs
       /\ receivers' \in [DOMAIN receivers' -> [sock: DOMAIN sockets', useCount: Nat]]
  <2>1. \A b \in DOMAIN receivers' : receivers'[b] \in [sock: DOMAIN sockets', useCount: Nat]
    BY <1>15, <1>17, <1>23 DEF Registered
  <2> QED
    BY <1>17, <2>1 DEF Inv, TypeOK
<1>25. TypeOK'
  BY <1>5, <1>9, <1>12, <1>23, <1>24 DEF Inv, TypeOK
<1>26. SocketInv'
  <2>1. \A a \in DOMAIN receivers' : receivers'[a].sock[1] = a
    BY <1>17, <1>20 DEF Inv, SocketInv
  <2>2. \A s \in DOMAIN sockets' : sockets'[s].open => s \in Registered(receivers')
    <3> SUFFICES ASSUME NEW s \in DOMAIN sockets', sockets'[s].open PROVE s \in Registered(receivers')
      OBVIOUS
    <3>1. s \in DOMAIN sockets /\ s \notin {receivers[a].sock : a \in UN} /\ sockets[s].open
      BY <1>21, <1>22
    <3>2. PICK a \in DOMAIN receivers : s = receivers[a].sock
      BY <3>1 DEF Inv, SocketInv, Registered
    <3>3. a \notin UN
      BY <3>1, <3>2
    <3> QED
      BY <1>20, <3>2, <3>3
  <2>3. \A a \in DOMAIN receivers' : /\ sockets'[receivers'[a].sock].open
                                     /\ sockets'[receivers'[a].sock].op \in {"receiving", "ready", "failed"}
    <3> SUFFICES ASSUME NEW a \in DOMAIN receivers'
                 PROVE  /\ sockets'[receivers'[a].sock].open
                        /\ sockets'[receivers'[a].sock].op \in {"receiving", "ready", "failed"}
      OBVIOUS
    <3> DEFINE s == receivers[a].sock
    <3>1. receivers'[a].sock = s /\ s \in DOMAIN sockets' /\ s \in DOMAIN sockets
      BY <1>20, <1>22, <1>23 DEF Registered
    <3>2. s \notin {receivers[b].sock : b \in UN}
      BY <1>2, <1>17, <1>19
    <3>3. sockets'[s] = sockets[s]
      BY <1>21, <1>22, <3>1, <3>2
    <3>4. a \in DOMAIN receivers
      BY <1>17
    <3> QED
      BY <1>5, <3>1, <3>3, <3>4 DEF Inv, SocketInv
  <2> QED
    BY <2>1, <2>2, <2>3 DEF SocketInv, Registered
<1> QED
  BY <1>5, <1>6, <1>10, <1>11, <1>18, <1>25, <1>26 DEF Inv

\* shutdown's task preserves the invariant: nothing is left unstopped.
LEMMA RunShutdownInv == ASSUME Inv, RunShutdown PROVE Inv'
<1>1. /\ Task("shutdown") /\ TaskDone("ok")
      /\ groups' = [g \in DOMAIN groups |-> IF g \in listed THEN Cancelled(g) ELSE groups[g]]
      /\ sockets' = [s \in DOMAIN sockets |->
                       IF s \in Registered(receivers) THEN Closed(s) ELSE sockets[s]]
      /\ UNCHANGED <<listed, receivers, readers>>
  BY DEF RunShutdown
<1>2. /\ call' \in Call /\ staged' = staged /\ running' = running /\ failed' = failed
      /\ running /\ ~Stopping /\ Stopping' /\ CallInv' /\ TaskInv' /\ ~Acquiring /\ ~Acquiring'
  BY <1>1, TaskDoneCall DEF Inv, Task, TaskAt, Acquiring
<1>3. \A g \in DOMAIN groups : /\ groups[g] \in Group /\ Cancelled(g) \in Group
                               /\ Cancelled(g).tag = groups[g].tag /\ Cancelled(g).stopped
  <2>1. \A g \in DOMAIN groups : groups[g] \in Group
    BY DEF Inv, TypeOK
  <2> QED
    BY <2>1 DEF Cancelled, Group
<1>4. \A s \in DOMAIN sockets : sockets[s] \in Socket /\ Closed(s) \in Socket /\ ~Closed(s).open
  <2>1. \A s \in DOMAIN sockets : sockets[s] \in Socket
    BY DEF Inv, TypeOK
  <2> QED
    BY <2>1 DEF Closed, Socket
<1>5. /\ DOMAIN groups' = DOMAIN groups /\ groups' \in [DOMAIN groups' -> Group]
      /\ \A g \in DOMAIN groups : groups'[g].stopped /\ groups'[g].tag = groups[g].tag
  BY <1>1, <1>2, <1>3 DEF Inv, GroupInv
<1>6. /\ DOMAIN sockets' = DOMAIN sockets /\ sockets' \in [DOMAIN sockets' -> Socket]
      /\ \A s \in DOMAIN sockets : sockets'[s].open => s \in Registered(receivers)
  BY <1>1, <1>4 DEF Inv, SocketInv
<1>7. TypeOK'
  BY <1>1, <1>2, <1>5, <1>6 DEF Inv, TypeOK
<1>8. GroupInv' /\ PhaseInv'
  BY <1>2, <1>5 DEF Inv, GroupInv, PhaseInv
<1>9. CoordinatesUnique'
  BY <1>1, <1>5 DEF Inv, TypeOK, CoordinatesUnique
<1>10. SocketInv'
  BY <1>1, <1>2, <1>6 DEF Inv, SocketInv, Registered
<1>11. CountInv'
  BY <1>1, <1>2 DEF Inv, CountInv, Listeners
<1> QED
  BY <1>2, <1>7, <1>8, <1>9, <1>10, <1>11 DEF Inv

-----------------------------------------------------------------------------
(* Timers, sockets and their completions.                                  *)

\* A timer's expiry or completion preserves the invariant: it changes neither
\* whose the group is nor whether it is stopped, and a group it destroys is in
\* no container.
LEMMA TimerInv ==
    ASSUME Inv, NEW g \in DOMAIN groups, TimerExpires(g) \/ TimerHandler(g)
    PROVE  Inv'
<1>1. UNCHANGED <<staged, running, failed, call, listed, sockets, receivers, readers>>
  BY DEF TimerExpires, TimerHandler
<1>2. /\ groups[g] \in Group /\ \A h \in DOMAIN groups : groups[h] \in Group
      /\ groups = [h \in DOMAIN groups |-> groups[h]]
  BY DEF Inv, TypeOK
<1>3. (groups[g].seq + 1) % SeqModulus \in 0..(SeqModulus - 1)
  <2>1. groups[g].seq \in Nat
    BY <1>2, ConfigAssumption DEF Group
  <2> QED
    BY <2>1, ConfigAssumption
<1>4. /\ DOMAIN groups' \subseteq DOMAIN groups
      /\ listed \subseteq DOMAIN groups'
      /\ \A h \in DOMAIN groups' : /\ groups'[h] \in Group /\ groups'[h].tag = groups[h].tag
                                   /\ groups'[h].stopped = groups[h].stopped
      /\ groups' = [h \in DOMAIN groups' |-> groups'[h]]
  <2>1. CASE TimerExpires(g)
    <3>1. groups' = [groups EXCEPT ![g].timer = "fired"]
      BY <2>1 DEF TimerExpires
    <3>2. listed \subseteq DOMAIN groups
      BY DEF Inv, TypeOK
    <3> QED
      BY <1>2, <3>1, <3>2 DEF Group
  <2>2. CASE TimerHandler(g) /\ LetsGo(g)
    <3> DEFINE mid == [groups EXCEPT ![g].timer = "none"]
    <3>1. groups' = DropGroups(mid, listed)
      BY <2>2 DEF TimerHandler
    <3>2. /\ DOMAIN mid = DOMAIN groups
          /\ \A h \in DOMAIN groups : /\ mid[h] \in Group /\ mid[h].tag = groups[h].tag
                                      /\ mid[h].stopped = groups[h].stopped
      BY <1>2 DEF Group
    <3> HIDE DEF mid
    <3>3. /\ DOMAIN groups' = {h \in DOMAIN groups : h \in listed \/ mid[h].timer # "none"}
          /\ \A h \in DOMAIN groups' : groups'[h] = mid[h]
          /\ groups' = [h \in DOMAIN groups' |-> groups'[h]]
      BY <3>1, <3>2 DEF DropGroups, Without
    <3> QED
      BY <3>2, <3>3 DEF Inv, TypeOK
  <2>3. CASE TimerHandler(g) /\ ~LetsGo(g)
    <3>1. groups' = [groups EXCEPT ![g].timer = "waiting", ![g].seq = (@ + 1) % SeqModulus]
      BY <2>3 DEF TimerHandler
    <3>2. PICK q \in 0..(SeqModulus - 1) : q = (groups[g].seq + 1) % SeqModulus
      BY <1>3
    <3>3. groups' = [groups EXCEPT ![g] = [[groups[g] EXCEPT !.timer = "waiting"] EXCEPT !.seq = q]]
      BY <1>2, <3>1, <3>2
    <3>4. ASSUME NEW r \in Group
          PROVE  LET w == [[r EXCEPT !.timer = "waiting"] EXCEPT !.seq = q]
                 IN w \in Group /\ w.tag = r.tag /\ w.stopped = r.stopped
      <4>1. PICK w \in Group : w = [r EXCEPT !.timer = "waiting"] /\ w.tag = r.tag /\ w.stopped = r.stopped
        <5>1. /\ [r EXCEPT !.timer = "waiting"] \in Group
              /\ [r EXCEPT !.timer = "waiting"].tag = r.tag
              /\ [r EXCEPT !.timer = "waiting"].stopped = r.stopped
          BY DEF Group
        <5> QED
          BY <5>1, Zenon
      <4>2. [w EXCEPT !.seq = q] \in Group /\ [w EXCEPT !.seq = q].tag = w.tag
            /\ [w EXCEPT !.seq = q].stopped = w.stopped
        BY DEF Group
      <4> QED
        BY <4>1, <4>2
    <3>5. PICK w \in Group : /\ w = [[groups[g] EXCEPT !.timer = "waiting"] EXCEPT !.seq = q]
                            /\ w.tag = groups[g].tag /\ w.stopped = groups[g].stopped
      BY <1>2, <3>4
    <3>6. groups' = [groups EXCEPT ![g] = w]
      BY <3>3, <3>5
    <3> QED
      BY <1>2, <3>5, <3>6 DEF Inv, TypeOK
  <2> QED
    BY <2>1, <2>2, <2>3
<1>5. TypeOK'
  BY <1>1, <1>4 DEF Inv, TypeOK
<1>6. CallInv' /\ PhaseInv' /\ (Stopping' <=> Stopping)
  BY <1>1, <1>4 DEF Inv, CallInv, PhaseInv, Stopping
<1>9. TaskInv'
  <2>1. CASE TimerExpires(g)
    <3>1. DOMAIN groups' = DOMAIN groups
      BY <2>1 DEF TimerExpires
    <3>2. Held' = Held
      BY <1>1, <3>1, HeldKept
    <3> QED
      BY <1>1, <3>1, <3>2 DEF Inv, TaskInv, CoordTaken, RoomForReceiver
  <2>2. CASE TimerHandler(g)
    BY <1>1, <2>2 DEF TimerHandler, IoIdle, TaskInv
  <2> QED
    BY <2>1, <2>2
<1>7. GroupInv' /\ CoordinatesUnique'
  BY <1>1, <1>4, <1>6 DEF Inv, GroupInv, CoordinatesUnique
<1>8. SocketInv' /\ CountInv'
  BY <1>1, <1>6 DEF Inv, SocketInv, CountInv, Registered, Listeners, Acquiring, TaskAt
<1> QED
  BY <1>5, <1>6, <1>7, <1>8, <1>9 DEF Inv

\* A datagram changes neither which readers there are nor where they listen.
LEMMA DatagramReaders ==
    ASSUME TypeOK, NEW messages, NEW answered, HandleDatagram(messages, answered)
    PROVE  /\ DOMAIN readers' = DOMAIN readers /\ readers' \in [DOMAIN readers' -> Reader]
           /\ \A k \in DOMAIN readers : /\ readers'[k].tag = readers[k].tag
                                        /\ readers'[k].addr = readers[k].addr
<1>1. \A k \in DOMAIN readers : readers[k] \in Reader
  BY DEF TypeOK
<1>2. ASSUME NEW k \in DOMAIN readers
      PROVE  /\ readers'[k] \in Reader /\ readers'[k].tag = readers[k].tag
             /\ readers'[k].addr = readers[k].addr
  <2> DEFINE sg == readers[k].signalled \/ (readers[k].tag # StaticTag /\ k \in answered)
             new == [tag |-> readers[k].tag, addr |-> readers[k].addr, seen |-> TRUE, signalled |-> sg]
  <2>1. sg \in BOOLEAN
    BY <1>1 DEF Reader
  <2>2. readers'[k] = IF k \in messages
                      THEN [readers[k] EXCEPT !.seen = TRUE,
                                              !.signalled = @ \/ (readers[k].tag # StaticTag /\ k \in answered)]
                      ELSE readers[k]
    BY DEF HandleDatagram
  <2>3. k \in messages => readers'[k] = new
    <3>1. readers[k] = [tag |-> readers[k].tag, addr |-> readers[k].addr,
                        seen |-> readers[k].seen, signalled |-> readers[k].signalled]
      BY <1>1 DEF Reader
    <3> QED
      BY <2>2, <3>1, Zenon
  <2> HIDE DEF sg
  <2>4. new \in Reader
    BY <1>1, <2>1 DEF Reader
  <2> QED
    BY <1>1, <2>2, <2>3, <2>4
<1>3. DOMAIN readers' = DOMAIN readers /\ readers' = [k \in DOMAIN readers |-> readers'[k]]
  BY DEF HandleDatagram
<1> QED
  BY <1>2, <1>3

\* A receive's completion preserves the invariant: an open receiver listens
\* again, a closed one is destroyed only when m_receivers no longer holds it.
LEMMA ReceiveInv ==
    ASSUME Inv, NEW s \in DOMAIN sockets, ReceiveCompletes(s) \/ ReceiveHandler(s)
    PROVE  Inv'
<1>1. UNCHANGED <<staged, running, failed, call, groups, listed, receivers>>
  BY DEF ReceiveCompletes, ReceiveHandler
<1>2. /\ \A r \in DOMAIN sockets : sockets[r] \in Socket
      /\ sockets = [r \in DOMAIN sockets |-> sockets[r]]
      /\ Registered(receivers) \subseteq DOMAIN sockets
  BY DEF Inv, TypeOK, Registered
<1>3. /\ DOMAIN readers' = DOMAIN readers /\ readers' \in [DOMAIN readers' -> Reader]
      /\ \A k \in DOMAIN readers : /\ readers'[k].tag = readers[k].tag
                                   /\ readers'[k].addr = readers[k].addr
  <2>1. CASE UNCHANGED readers
    BY <2>1 DEF Inv, TypeOK
  <2>2. CASE \E messages \in SUBSET DOMAIN readers : \E answered \in SUBSET messages :
                HandleDatagram(messages, answered)
    BY <2>2, DatagramReaders DEF Inv
  <2> QED
    BY <2>1, <2>2 DEF ReceiveCompletes, ReceiveHandler
<1>4. /\ DOMAIN sockets' \subseteq DOMAIN sockets
      /\ Registered(receivers) \subseteq DOMAIN sockets'
      /\ sockets' = [r \in DOMAIN sockets' |-> sockets'[r]]
      /\ \A r \in DOMAIN sockets' :
            /\ sockets'[r] \in Socket
            /\ sockets'[r].open = sockets[r].open
            /\ sockets[r].open /\ sockets[r].op \in {"receiving", "ready", "failed"}
               => sockets'[r].op \in {"receiving", "ready", "failed"}
  <2>1. CASE ReceiveCompletes(s)
    <3>1. PICK result \in {"ready", "failed"} : sockets' = [sockets EXCEPT ![s].op = result]
      BY <2>1 DEF ReceiveCompletes
    <3> QED
      BY <1>2, <3>1 DEF Socket
  <2>2. CASE ReceiveHandler(s) /\ (sockets[s].op = "aborted" \/ ~sockets[s].open)
    <3> DEFINE mid == [sockets EXCEPT ![s].op = "none"]
    <3>1. sockets' = DropSockets(mid, receivers)
      BY <2>2 DEF ReceiveHandler
    <3>2. /\ DOMAIN mid = DOMAIN sockets
          /\ \A r \in DOMAIN sockets : /\ mid[r] \in Socket /\ mid[r].open = sockets[r].open
                                       /\ r # s => mid[r] = sockets[r]
      BY <1>2 DEF Socket
    <3> HIDE DEF mid
    <3>3. /\ DOMAIN sockets' = {r \in DOMAIN sockets : r \in Registered(receivers) \/ mid[r].op # "none"}
          /\ \A r \in DOMAIN sockets' : sockets'[r] = mid[r]
          /\ sockets' = [r \in DOMAIN sockets' |-> sockets'[r]]
      BY <3>1, <3>2 DEF DropSockets, Without
    <3> QED
      BY <1>2, <2>2, <3>2, <3>3
  <2>3. CASE ReceiveHandler(s) /\ ~(sockets[s].op = "aborted" \/ ~sockets[s].open)
    <3>1. sockets' = [sockets EXCEPT ![s].op = "receiving"]
      BY <2>3 DEF ReceiveHandler
    <3> QED
      BY <1>2, <3>1 DEF Socket
  <2> QED
    BY <2>1, <2>2, <2>3
<1>5. TypeOK'
  <2>1. receivers' \in [DOMAIN receivers' -> [sock: DOMAIN sockets', useCount: Nat]]
    BY <1>1, <1>4 DEF Inv, TypeOK, Registered
  <2> QED
    BY <1>1, <1>3, <1>4, <2>1 DEF Inv, TypeOK
<1>6. CallInv' /\ PhaseInv' /\ (Stopping' <=> Stopping)
  BY <1>1, <1>3, <1>4 DEF Inv, CallInv, PhaseInv, Stopping
<1>10. TaskInv'
  <2>1. CASE ReceiveCompletes(s)
    <3>1. DOMAIN sockets' = DOMAIN sockets /\ readers' = readers
      BY <2>1 DEF ReceiveCompletes
    <3>2. Held' = Held
      BY <1>1, <3>1, HeldKept
    <3> QED
      BY <1>1, <3>1, <3>2 DEF Inv, TaskInv, CoordTaken, RoomForReceiver
  <2>2. CASE ReceiveHandler(s)
    BY <1>1, <2>2 DEF ReceiveHandler, IoIdle, TaskInv
  <2> QED
    BY <2>1, <2>2
<1>7. GroupInv' /\ CoordinatesUnique'
  BY <1>1, <1>6 DEF Inv, GroupInv, CoordinatesUnique
<1>8. SocketInv'
  <2>1. \A a \in DOMAIN receivers : receivers[a].sock \in Registered(receivers)
    BY DEF Registered
  <2> QED
    BY <1>1, <1>4, <1>6, <2>1 DEF Inv, SocketInv, Registered
<1>9. CountInv'
  <2>1. \A a : Listeners(a)' = Listeners(a)
    BY <1>3 DEF Listeners
  <2>2. {readers'[j].addr : j \in DOMAIN readers'} = {readers[j].addr : j \in DOMAIN readers}
    BY <1>3
  <2>3. (Acquiring' <=> Acquiring) /\ IsFiniteSet(DOMAIN readers')
    BY <1>1, <1>3 DEF Acquiring, TaskAt, Inv, CountInv
  <2>4. CASE ~Acquiring
    <3>1. \A b \in DOMAIN receivers : running => receivers[b].useCount = Cardinality(Listeners(b)')
      BY <2>1, <2>4 DEF Inv, CountInv
    <3> QED
      BY <1>1, <2>2, <2>3, <2>4, <3>1 DEF Inv, CountInv, Listeners
  <2>5. CASE Acquiring
    <3>1. \A b \in DOMAIN receivers :
            running => receivers[b].useCount = Cardinality(Listeners(b)') + IF b = call.addr THEN 1 ELSE 0
      BY <2>1, <2>5 DEF Inv, CountInv
    <3> QED
      BY <1>1, <2>2, <2>3, <2>5, <3>1 DEF Inv, CountInv, Listeners
  <2> QED
    BY <2>4, <2>5
<1> QED
  BY <1>5, <1>6, <1>7, <1>8, <1>9, <1>10 DEF Inv

\* Every step preserves the invariant.
LEMMA StepInv == Inv /\ [Next]_vars => Inv'
  BY FlagStepInv, StartInv, JoinInv, CommitGroupInv, AcquireInv, CommitReaderInv, RunRemoveInv,
     RunShutdownInv, TimerInv, ReceiveInv
     DEF Next, RunTask

-----------------------------------------------------------------------------
(* What always holds.                                                      *)

\* The invariant holds in every state the engine reaches.
LEMMA InvAlways == Spec => []Inv
  BY InitInv, StepInv, PTL DEF Spec

\* Every variable of the engine keeps its kind, and the containers hold ids of
\* live runtime objects only: no dangling receiver, no dangling group.
THEOREM TypeCorrect == Spec => []TypeOK
<1>1. Inv => TypeOK
  BY DEF Inv
<1> QED
  BY <1>1, InvAlways, PTL

\* Whatever is added, removed or fails, an added writer group never shares its
\* wire coordinates with another active one (PubSubEngine::addDynamicWriterGroup).
THEOREM CoordinatesStayUnique == Spec => []CoordinatesUnique
<1>1. Inv => CoordinatesUnique
  BY DEF Inv
<1> QED
  BY <1>1, InvAlways, PTL

\* In a running engine the shared receivers' use counts are exact, and a receiver
\* that some reader uses is open with a receive outstanding until shutdown
\* (acquireReceiver, removeDynamic, startIfStaged, the armReceive handler).
THEOREM ReceiversAccounted == Spec => []ReceiverAccounting
<1>1. ASSUME Inv, running, NEW a \in Addrs
      PROVE  LET uses == Cardinality(Listeners(a)) + IF Acquired(a) THEN 1 ELSE 0
             IN (a \in DOMAIN receivers <=> uses # 0) /\ (a \in DOMAIN receivers => receivers[a].useCount = uses)
  <2>1. IsFiniteSet(Listeners(a)) /\ Cardinality(Listeners(a)) \in Nat
    <3>1. Listeners(a) \in SUBSET DOMAIN readers /\ IsFiniteSet(DOMAIN readers)
      BY <1>1 DEF Listeners, Inv, CountInv
    <3> QED
      BY <3>1, FS_Subset, FS_CardinalityType
  <2>2. Cardinality(Listeners(a)) = 0 <=> a \notin {readers[k].addr : k \in DOMAIN readers}
    <3>1. Listeners(a) = {} <=> a \notin {readers[k].addr : k \in DOMAIN readers}
      BY DEF Listeners
    <3> QED
      BY <2>1, <3>1, FS_EmptySet
  <2>3. CASE ~Acquiring
    <3>1. ~Acquired(a)
      BY <2>3 DEF Acquired, Acquiring
    <3>2. /\ DOMAIN receivers = {readers[k].addr : k \in DOMAIN readers}
          /\ \A b \in DOMAIN receivers : receivers[b].useCount = Cardinality(Listeners(b))
      BY <1>1, <2>3 DEF Inv, CountInv
    <3> QED
      BY <2>1, <2>2, <3>1, <3>2
  <2>4. CASE Acquiring
    <3>1. Acquired(a) <=> a = call.addr
      BY <2>4 DEF Acquired, Acquiring
    <3>2. /\ DOMAIN receivers = {readers[k].addr : k \in DOMAIN readers} \cup {call.addr}
          /\ \A b \in DOMAIN receivers :
                receivers[b].useCount = Cardinality(Listeners(b)) + IF b = call.addr THEN 1 ELSE 0
      BY <1>1, <2>4 DEF Inv, CountInv
    <3> QED
      BY <2>1, <2>2, <3>1, <3>2
  <2> QED
    BY <2>3, <2>4
<1>2. ASSUME Inv, running, NEW a \in DOMAIN receivers, ~Stopping
      PROVE  sockets[receivers[a].sock].open /\ sockets[receivers[a].sock].op # "none"
  BY <1>2 DEF Inv, SocketInv
<1>3. Inv => ReceiverAccounting
  BY <1>1, <1>2 DEF ReceiverAccounting, Listeners
<1> QED
  BY <1>3, InvAlways, PTL

-----------------------------------------------------------------------------
(* What no step does.                                                      *)

\* A group that exists before and after a step got a new sequence number only
\* from its own timer's handler.
LEMMA OnlyTheHandlerPublishes ==
    ASSUME Inv, [Next]_vars, NEW g \in DOMAIN groups \cap DOMAIN groups', groups'[g].seq # groups[g].seq
    PROVE  TimerHandler(g) /\ ~LetsGo(g)
<1>1. \A h \in DOMAIN groups : groups[h] \in Group /\ Cancelled(h).seq = groups[h].seq
  <2>1. \A h \in DOMAIN groups : groups[h] \in Group
    BY DEF Inv, TypeOK
  <2> QED
    BY <2>1 DEF Group, Cancelled
<1>2. ~UNCHANGED groups
  OBVIOUS
<1>3. ~(StartIfStaged \/ StartFails)
  BY DEF Inv, PhaseInv, StartIfStaged, StartFails
<1>4. ~JoinAndClear
  BY DEF JoinAndClear, EmptyMap
<1>5. ~CommitGroup
  <2> SUFFICES ASSUME CommitGroup PROVE FALSE
    OBVIOUS
  <2>1. PICK c : c = call.wire /\ FreeIds(DOMAIN groups, c) # {}
                 /\ groups' = Put(groups, FirstFree(DOMAIN groups, c), NewGroup(call.tag, "waiting"))
    BY DEF CommitGroup, TaskAt, Inv, TaskInv
  <2>2. PICK i \in 1..MaxObjects : FirstFree(DOMAIN groups, c) = <<c, i>> /\ <<c, i>> \notin DOMAIN groups
    BY <2>1, FirstFreeFresh
  <2> QED
    BY <2>1, <2>2 DEF Put
<1>6. ~RunRemove
  <2> SUFFICES ASSUME RunRemove PROVE FALSE
    OBVIOUS
  <2>1. PICK GG : groups' = DropGroups([h \in DOMAIN groups |-> IF h \in GG THEN Cancelled(h) ELSE groups[h]],
                                       listed')
    BY DEF RunRemove
  <2>2. groups'[g] = IF g \in GG THEN Cancelled(g) ELSE groups[g]
    BY <2>1 DEF DropGroups, Without
  <2> QED
    BY <1>1, <2>2
<1>7. ~RunShutdown
  BY <1>1 DEF RunShutdown
<1>8. PICK h \in DOMAIN groups : TimerExpires(h) \/ TimerHandler(h)
  <2>1. Next
    BY <1>2 DEF vars
  <2>2. \/ \E h \in DOMAIN groups : TimerExpires(h) \/ TimerHandler(h)
        \/ StartIfStaged \/ StartFails \/ JoinAndClear \/ CommitGroup \/ RunRemove \/ RunShutdown
        \/ UNCHANGED groups
    BY <2>1 DEF Next, RunTask, StageConfiguration, EnsureStarted, AddDynamicWriterGroup, AddDynamicReader,
       RemoveDynamic, ReaderDataSeen, Shutdown, Post, RefuseCall, Return, CheckGroup, MakeTransmitter,
       RunAddGroupThrows, CheckReader, AcquireForReader, CommitReader, RunAddReaderThrows, RunSeen, ReceiveCompletes, ReceiveHandler, runtimeVars
  <2> QED
    BY <1>2, <1>3, <1>4, <1>5, <1>6, <1>7, <2>2
<1>9. ~TimerExpires(h)
  <2>1. TimerExpires(h) => groups' = [groups EXCEPT ![h].timer = "fired"]
    BY DEF TimerExpires
  <2> QED
    BY <1>1, <2>1 DEF Group
<1>10. ~LetsGo(h)
  <2>1. LetsGo(h) => groups' = DropGroups([groups EXCEPT ![h].timer = "none"], listed)
    BY <1>8, <1>9 DEF TimerHandler
  <2>2. [groups EXCEPT ![h].timer = "none"][g].seq = groups[g].seq
    BY <1>1 DEF Group
  <2> QED
    BY <2>1, <2>2 DEF DropGroups, Without
<1>11. groups' = [groups EXCEPT ![h].timer = "waiting", ![h].seq = (@ + 1) % SeqModulus]
  BY <1>8, <1>9, <1>10 DEF TimerHandler
<1>12. g = h
  BY <1>11
<1> QED
  BY <1>8, <1>9, <1>10, <1>12

\* A removed or stopped writer group never publishes again, even when its timer
\* had fired before the cancel (removeDynamic, shutdown, scheduleGroup).
THEOREM RemovedSilent == Spec => RemovedIsSilent
<1>1. Inv /\ [Next]_vars =>
        [\A g \in DOMAIN groups \cap DOMAIN groups' :
            groups'[g].seq # groups[g].seq => g \in listed /\ ~Stopping]_vars
  <2> SUFFICES ASSUME Inv, [Next]_vars, NEW g \in DOMAIN groups \cap DOMAIN groups',
                      groups'[g].seq # groups[g].seq
               PROVE  g \in listed /\ ~Stopping
    OBVIOUS
  <2>1. TimerHandler(g) /\ ~LetsGo(g)
    BY OnlyTheHandlerPublishes
  <2>2. ~groups[g].stopped
    BY <2>1 DEF LetsGo
  <2> QED
    BY <2>2 DEF Inv, GroupInv
<1> QED
  BY <1>1, InvAlways, PTL DEF Spec, RemovedIsSilent

\* A reader gets its first data only from a receiver that m_receivers holds: a
\* datagram queued on a closed socket is not delivered (removeDynamic, the
\* armReceive handler, handleDatagram).
THEOREM NothingStaleDelivered == Spec => NoStaleDelivery
<1> DEFINE From(s) == sockets[s].open /\ sockets[s].op = "ready" /\ sockets'[s].op = "receiving"
<1>1. ASSUME Inv, [Next]_vars, NEW k \in DOMAIN readers \cap DOMAIN readers',
             ~readers[k].seen, readers'[k].seen
      PROVE  \E a \in DOMAIN receivers : From(receivers[a].sock)
  <2>1. ~UNCHANGED readers
    BY <1>1
  <2>2. ~(StartIfStaged \/ StartFails)
    BY <1>1 DEF Inv, PhaseInv, StartIfStaged, StartFails
  <2>3. ~JoinAndClear
    BY <1>1 DEF JoinAndClear, EmptyMap
  <2>4. ~CommitReader
    BY <1>1 DEF CommitReader, Inv, TaskInv, TaskAt, Put
  <2>5. ~RunRemove
    <3> SUFFICES ASSUME RunRemove PROVE FALSE
      OBVIOUS
    <3>1. \E G : readers' = Without(readers, G)
      BY DEF RunRemove
    <3> QED
      BY <1>1, <3>1 DEF Without
  <2>6. PICK s \in DOMAIN sockets : ReceiveHandler(s)
    <3>1. Next
      BY <1>1, <2>1 DEF vars
    <3> QED
      BY <2>1, <2>2, <2>3, <2>4, <2>5, <3>1 DEF Next, RunTask, StageConfiguration, EnsureStarted,
         AddDynamicWriterGroup, AddDynamicReader, RemoveDynamic, ReaderDataSeen, Shutdown, Post, RefuseCall,
         Return, CheckGroup, MakeTransmitter, CommitGroup, RunAddGroupThrows, CheckReader, AcquireForReader,
         RunAddReaderThrows, RunSeen, RunShutdown,
         TimerExpires, TimerHandler, ReceiveCompletes, runtimeVars
  <2>7. /\ sockets[s].open /\ sockets[s].op = "ready"
        /\ sockets' = [sockets EXCEPT ![s].op = "receiving"]
    BY <2>1, <2>6 DEF ReceiveHandler
  <2>8. sockets[s] \in Socket
    BY <1>1 DEF Inv, TypeOK
  <2>9. From(s)
    BY <2>7, <2>8 DEF Socket
  <2>10. PICK a \in DOMAIN receivers : s = receivers[a].sock
    BY <1>1, <2>7 DEF Inv, SocketInv, Registered
  <2> QED
    BY <2>9, <2>10
<1>2. Inv /\ [Next]_vars =>
        [\A k \in DOMAIN readers \cap DOMAIN readers' :
            ~readers[k].seen /\ readers'[k].seen =>
              \E a \in DOMAIN receivers :
                  LET s == receivers[a].sock
                  IN sockets[s].open /\ sockets[s].op = "ready" /\ sockets'[s].op = "receiving"]_vars
  BY <1>1
<1> QED
  BY <1>2, InvAlways, PTL DEF Spec, NoStaleDelivery

\* A task that throws leaves the containers and the runtime objects as they were
\* when it began, at whichever step it throws: the socket, the only step that can
\* fail, comes before everything the task changes, and no handler runs in between
\* (addDynamicWriterGroup, addDynamicReader).
THEOREM FailuresChangeNothing == Spec => FailureLeavesNoChange
<1>1. ASSUME Inv, [Next]_vars, call # None, call' # None, call.result = "pending", call'.result = "threw"
      PROVE  Held' = Found
  <2>1. call' # call
    BY <1>1
  <2>2. \A result : TaskDone(result) => call'.result = result
    BY DEF TaskDone
  <2>3. ~(CommitGroup \/ CommitReader \/ RunRemove \/ RunShutdown \/ RunSeen)
    BY <1>1, <2>2 DEF CommitGroup, CommitReader, RunRemove, RunShutdown, RunSeen
  <2>4. ~(StartIfStaged \/ StartFails \/ JoinAndClear)
    BY <1>1 DEF StartIfStaged, StartFails, JoinAndClear
  <2>5. \A g \in DOMAIN groups : ~(TimerExpires(g) \/ TimerHandler(g))
    BY <2>1 DEF TimerExpires, TimerHandler
  <2>6. \A s \in DOMAIN sockets : ~(ReceiveCompletes(s) \/ ReceiveHandler(s))
    BY <2>1 DEF ReceiveCompletes, ReceiveHandler
  <2>7. Next
    BY <1>1, <2>1 DEF vars
  <2>8. \A point : ~Proceed(point)
    <3> SUFFICES ASSUME NEW point, Proceed(point) PROVE FALSE
      OBVIOUS
    <3>1. call \in Call /\ call' = [call EXCEPT !.at = point, !.before = Found]
      BY <1>1 DEF Proceed, Inv, TypeOK
    <3>2. call'.result = call.result
      BY <3>1 DEF Call
    <3> QED
      BY <1>1, <3>2
  <2>9. RunAddGroupThrows \/ RunAddReaderThrows
    BY <1>1, <2>3, <2>4, <2>5, <2>6, <2>7, <2>8 DEF Next, RunTask, StageConfiguration, EnsureStarted,
       AddDynamicWriterGroup, AddDynamicReader, RemoveDynamic, ReaderDataSeen, Shutdown, Post, RefuseCall,
       Return, CheckGroup, MakeTransmitter, CheckReader, AcquireForReader
  <2>10. /\ UNCHANGED runtimeVars
         /\ call.op \in {"addGroup", "addReader"} /\ call.at \in {"posted", "checked"}
    BY <2>9 DEF RunAddGroupThrows, RunAddReaderThrows, Task, TaskAt
  <2>11. Found = Held
    BY <1>1, <2>10 DEF Found, Inv, TaskInv
  <2>12. Held' = Held
    BY <2>10, HeldKept DEF runtimeVars
  <2> QED
    BY <2>11, <2>12
<1>2. Inv /\ [Next]_vars =>
        [call # None /\ call' # None /\ call.result = "pending" /\ call'.result = "threw"
         => Held' = Found]_vars
  BY <1>1
<1> QED
  BY <1>2, InvAlways, PTL DEF Spec, FailureLeavesNoChange

-----------------------------------------------------------------------------
(* The engine implements DataPlane, the tagged entity set that the Fx      *)
(* engine relies on. The steps in which a task of the dynamic API stores   *)
(* or removes entities are the steps of DataPlane; the other steps of a    *)
(* task, a timer, a datagram, a failed call and the whole of the callers'  *)
(* side are stuttering steps.                                              *)

Writers == {[kind |-> "writer", wire |-> g[1], tag |-> groups[g].tag] : g \in listed}
Subscribers == {[kind |-> "reader", wire |-> k, tag |-> readers[k].tag] : k \in DOMAIN readers}

\* The entities of a running engine are those of its two containers.
LEMMA OwnedParts == /\ running => Owned = Writers \cup Subscribers
                    /\ ~running => Owned = {}
  BY DEF Owned, Writers, Subscribers

\* Entities are of the kinds DataPlane knows.
LEMMA OwnedTyped == TypeOK => Owned \subseteq Plane!Entity
<1> SUFFICES ASSUME TypeOK PROVE Owned \subseteq Plane!Entity
  OBVIOUS
<1>1. \A g \in listed : g[1] \in Coords /\ groups[g].tag \in AllTags
  BY DEF TypeOK, GroupIds, Group
<1>2. \A k \in DOMAIN readers : k \in Keys /\ readers[k].tag \in AllTags
  BY DEF TypeOK, Reader
<1> QED
  BY <1>1, <1>2 DEF Owned, Plane!Entity

\* The entities stay while the containers list the same objects under the same
\* tags.
LEMMA OwnedKept ==
    ASSUME running' = running, listed' = listed, DOMAIN readers' = DOMAIN readers,
           \A g \in listed : groups'[g].tag = groups[g].tag,
           \A k \in DOMAIN readers : readers'[k].tag = readers[k].tag
    PROVE  Owned' = Owned
  BY DEF Owned

\* A start, with the configured entities or without any.
LEMMA StartRefines == ASSUME Inv, Inv', StartIfStaged \/ EnsureStarted PROVE Plane!Start
<1>1. ~running /\ running' = TRUE
  BY DEF StartIfStaged, EnsureStarted
<1>2. Owned' \subseteq Plane!Entity
  <2>1. (Owned \subseteq Plane!Entity)'
    BY OwnedTyped, PTL DEF Inv
  <2> QED
    BY <2>1 DEF Plane!Entity
<1> QED
  BY <1>1, <1>2 DEF Plane!Start

\* addDynamicWriterGroup's task adds one entity, on free coordinates.
LEMMA AddGroupRefines == ASSUME Inv, CommitGroup PROVE \E x \in Plane!Entity : Plane!Add(x)
<1>1. PICK t \in Tags, c \in Coords : t = call.tag /\ c = call.wire
  BY DEF CommitGroup, Inv, CallInv, TaskAt
<1>2. PICK g : g = FirstFree(DOMAIN groups, c)
  OBVIOUS
<1>3. /\ TaskAt("addGroup", "ready") /\ TaskDone("ok") /\ ~CoordTaken(c)
      /\ FreeIds(DOMAIN groups, c) # {}
      /\ groups' = Put(groups, g, NewGroup(t, "waiting")) /\ listed' = listed \cup {g}
      /\ readers' = readers
  BY <1>1, <1>2 DEF CommitGroup, Inv, TaskInv, TaskAt
<1>4. running' = running /\ running
  BY <1>3, TaskDoneCall DEF Inv
<1>5. PICK i \in 1..MaxObjects : g = <<c, i>> /\ <<c, i>> \notin DOMAIN groups
  BY <1>2, <1>3, FirstFreeFresh
<1>6. /\ g[1] = c /\ g \notin DOMAIN groups /\ groups'[g].tag = t
      /\ \A h \in listed : groups'[h] = groups[h]
  BY <1>3, <1>5 DEF Put, NewGroup, Inv, TypeOK
<1> DEFINE x == [kind |-> "writer", wire |-> c, tag |-> t]
<1>7. x \in Plane!Entity
  BY DEF Plane!Entity, AllTags
<1>8. Owned' = Owned \cup {x}
  <2>1. Writers' = Writers \cup {x}
    BY <1>3, <1>6 DEF Writers
  <2>2. Subscribers' = Subscribers
    BY <1>3 DEF Subscribers
  <2>3. Owned' = Writers' \cup Subscribers'
    BY <1>4 DEF Owned, Writers, Subscribers
  <2> QED
    BY <1>4, <2>1, <2>2, <2>3, OwnedParts
<1>9. Plane!Free("writer", c)
  <2>1. \A y \in Writers : y.wire # c
    BY <1>3 DEF Writers, CoordTaken
  <2>2. \A y \in Subscribers : y.kind # "writer"
    BY DEF Subscribers
  <2> QED
    BY <1>4, <2>1, <2>2, OwnedParts DEF Plane!Free
<1>10. Plane!Add(x)
  BY <1>4, <1>8, <1>9 DEF Plane!Add
<1> QED
  BY <1>7, <1>10

\* addDynamicReader's task adds one entity, on a free key.
LEMMA AddReaderRefines == ASSUME Inv, CommitReader PROVE \E x \in Plane!Entity : Plane!Add(x)
<1>1. PICK t \in Tags, k \in Keys, a \in Addrs : t = call.tag /\ k = call.wire /\ a = call.addr
  BY DEF CommitReader, Inv, CallInv, TaskAt
<1>2. /\ TaskAt("addReader", "ready") /\ TaskDone("ok") /\ k \notin DOMAIN readers
      /\ readers' = Put(readers, k, NewReader(t, a))
      /\ groups' = groups /\ listed' = listed
  BY <1>1 DEF CommitReader, Inv, TaskInv, TaskAt
<1>3. running' = running /\ running
  BY <1>2, TaskDoneCall DEF Inv
<1>4. /\ DOMAIN readers' = DOMAIN readers \cup {k} /\ readers'[k].tag = t
      /\ \A j \in DOMAIN readers : readers'[j] = readers[j]
  BY <1>2 DEF Put, NewReader
<1> DEFINE x == [kind |-> "reader", wire |-> k, tag |-> t]
<1>5. x \in Plane!Entity
  BY DEF Plane!Entity, AllTags
<1>6. Owned' = Owned \cup {x}
  <2>1. Subscribers' = Subscribers \cup {x}
    BY <1>2, <1>4 DEF Subscribers
  <2>2. Writers' = Writers
    BY <1>2 DEF Writers
  <2>3. Owned' = Writers' \cup Subscribers'
    BY <1>3 DEF Owned, Writers, Subscribers
  <2> QED
    BY <1>3, <2>1, <2>2, <2>3, OwnedParts
<1>7. Plane!Free("reader", k)
  <2>1. \A y \in Subscribers : y.wire # k
    BY <1>2 DEF Subscribers
  <2>2. \A y \in Writers : y.kind # "reader"
    BY DEF Writers
  <2> QED
    BY <1>3, <2>1, <2>2, OwnedParts DEF Plane!Free
<1>8. Plane!Add(x)
  BY <1>3, <1>6, <1>7 DEF Plane!Add
<1> QED
  BY <1>5, <1>8

\* removeDynamic's task takes all the entities of its tag and no other.
LEMMA RemoveRefines == ASSUME Inv, RunRemove PROVE \E tag \in AllTags : Plane!Remove(tag)
<1>1. PICK t \in Tags : t = call.tag
  BY DEF RunRemove, Inv, CallInv, Task, TaskAt
<1>2. PICK GG, GR : /\ GG = {g \in listed : groups[g].tag = t}
                    /\ GR = {k \in DOMAIN readers : readers[k].tag = t}
  OBVIOUS
<1>3. /\ Task("remove") /\ TaskDone("ok") /\ listed' = listed \ GG
      /\ groups' = DropGroups([g \in DOMAIN groups |-> IF g \in GG THEN Cancelled(g) ELSE groups[g]],
                              listed')
      /\ readers' = Without(readers, GR)
  BY <1>1, <1>2 DEF RunRemove
<1>4. running' = running /\ running
  BY <1>3, TaskDoneCall DEF Inv, Task
<1>5. \A g \in listed' : groups'[g] = groups[g]
  BY <1>3 DEF DropGroups, Without, Inv, TypeOK
<1>6. DOMAIN readers' = DOMAIN readers \ GR /\ \A k \in DOMAIN readers' : readers'[k] = readers[k]
  BY <1>3 DEF Without
<1>7. Writers' = {x \in Writers : x.tag # t}
  <2>1. listed' = {g \in listed : groups[g].tag # t}
    BY <1>2, <1>3
  <2>2. Writers' = {[kind |-> "writer", wire |-> g[1], tag |-> groups[g].tag] : g \in listed'}
    BY <1>5 DEF Writers
  <2> QED
    BY <2>1, <2>2 DEF Writers
<1>8. Subscribers' = {x \in Subscribers : x.tag # t}
  BY <1>2, <1>6 DEF Subscribers
<1>9. Owned' = Writers' \cup Subscribers'
  BY <1>4 DEF Owned, Writers, Subscribers
<1>10. Owned' = {x \in Owned : x.tag # t}
  BY <1>4, <1>7, <1>8, <1>9, OwnedParts
<1>11. Plane!Remove(t)
  BY <1>4, <1>10 DEF Plane!Remove
<1> QED
  BY <1>11 DEF AllTags

\* The end of shutdown takes everything.
LEMMA JoinRefines == ASSUME Inv, JoinAndClear PROVE Plane!Stop
<1>1. running /\ running' = FALSE
  BY DEF JoinAndClear, Inv, CallInv
<1>2. Owned' = {}
  BY <1>1 DEF Owned
<1> QED
  BY <1>1, <1>2 DEF Plane!Stop

\* All other steps leave the entities alone.
LEMMA OthersStutter ==
    ASSUME Inv, Next \/ UNCHANGED vars,
           ~(StartIfStaged \/ EnsureStarted \/ CommitGroup \/ CommitReader \/ RunRemove \/ JoinAndClear)
    PROVE  running' = running /\ Owned' = Owned
<1>1. CASE StartFails
  <2>1. running' = running /\ ~running
    BY <1>1 DEF StartFails
  <2> QED
    BY <2>1 DEF Owned
<1>2. CASE RunShutdown
  <2>1. /\ Task("shutdown") /\ TaskDone("ok") /\ listed' = listed /\ readers' = readers
        /\ groups' = [g \in DOMAIN groups |-> IF g \in listed THEN Cancelled(g) ELSE groups[g]]
    BY <1>2 DEF RunShutdown
  <2>2. running' = running
    BY <2>1, TaskDoneCall DEF Inv, Task
  <2>3. \A g \in listed : groups'[g].tag = groups[g].tag
    <3>1. \A g \in listed : g \in DOMAIN groups /\ groups[g] \in Group
      BY DEF Inv, TypeOK
    <3> QED
      BY <2>1, <3>1 DEF Cancelled, Group
  <2> QED
    BY <2>1, <2>2, <2>3, OwnedKept
<1>3. ASSUME NEW g \in DOMAIN groups, TimerExpires(g) \/ TimerHandler(g)
      PROVE  running' = running /\ Owned' = Owned
  <2>1. running' = running /\ listed' = listed /\ readers' = readers
    BY <1>3 DEF TimerExpires, TimerHandler
  <2>2. \A h \in listed : h \in DOMAIN groups /\ groups[h] \in Group
    BY DEF Inv, TypeOK
  <2>3. \A h \in listed : groups'[h].tag = groups[h].tag
    <3>1. CASE TimerExpires(g)
      <4>1. groups' = [groups EXCEPT ![g].timer = "fired"]
        BY <3>1 DEF TimerExpires
      <4> QED
        BY <2>2, <4>1 DEF Group
    <3>2. CASE TimerHandler(g) /\ LetsGo(g)
      <4>1. groups' = DropGroups([groups EXCEPT ![g].timer = "none"], listed)
        BY <3>2 DEF TimerHandler
      <4>2. \A h \in listed : groups'[h] = [groups EXCEPT ![g].timer = "none"][h]
        BY <2>2, <4>1 DEF DropGroups, Without
      <4> QED
        BY <2>2, <4>2 DEF Group
    <3>3. CASE TimerHandler(g) /\ ~LetsGo(g)
      <4>1. groups' = [groups EXCEPT ![g].timer = "waiting", ![g].seq = (@ + 1) % SeqModulus]
        BY <3>3 DEF TimerHandler
      <4> QED
        BY <2>2, <4>1 DEF Group
    <3> QED
      BY <1>3, <3>1, <3>2, <3>3
  <2> QED
    BY <2>1, <2>3, OwnedKept
<1>4. ASSUME NEW s \in DOMAIN sockets, ReceiveCompletes(s) \/ ReceiveHandler(s)
      PROVE  running' = running /\ Owned' = Owned
  <2>1. running' = running /\ listed' = listed /\ groups' = groups
    BY <1>4 DEF ReceiveCompletes, ReceiveHandler
  <2>2. /\ DOMAIN readers' = DOMAIN readers
        /\ \A k \in DOMAIN readers : readers'[k].tag = readers[k].tag
    <3>1. CASE UNCHANGED readers
      BY <3>1
    <3>2. CASE \E messages \in SUBSET DOMAIN readers : \E answered \in SUBSET messages :
                  HandleDatagram(messages, answered)
      BY <3>2, DatagramReaders DEF Inv
    <3> QED
      BY <1>4, <3>1, <3>2 DEF ReceiveCompletes, ReceiveHandler
  <2> QED
    BY <2>1, <2>2, OwnedKept
<1>5. ASSUME UNCHANGED <<running, listed, groups, readers>> PROVE running' = running /\ Owned' = Owned
  BY <1>5, OwnedKept
<1>6. CASE UNCHANGED vars
  BY <1>5, <1>6 DEF vars
<1>7. CASE Next
  <2>1. \/ StartFails \/ RunShutdown
        \/ \E g \in DOMAIN groups : TimerExpires(g) \/ TimerHandler(g)
        \/ \E s \in DOMAIN sockets : ReceiveCompletes(s) \/ ReceiveHandler(s)
        \/ UNCHANGED <<running, listed, groups, readers>>
    <3>1. AcquireForReader => UNCHANGED <<running, listed, groups, readers>>
      BY DEF AcquireForReader, Proceed
    <3> QED
      BY <1>7, <3>1 DEF Next, RunTask, StageConfiguration, AddDynamicWriterGroup, AddDynamicReader,
         RemoveDynamic, ReaderDataSeen, Shutdown, Post, RefuseCall, Return, CheckGroup, MakeTransmitter,
         RunAddGroupThrows, CheckReader, RunAddReaderThrows, RunSeen, Proceed, TaskDone, runtimeVars
  <2> QED
    BY <1>1, <1>2, <1>3, <1>4, <1>5, <2>1
<1> QED
  BY <1>6, <1>7

\* Every step of the engine is a step of the entity set, or leaves it alone.
LEMMA StepRefines ==
    Inv /\ Inv' /\ [Next]_vars => [Plane!PlaneNext]_(Plane!planeStateVars)
<1> SUFFICES ASSUME Inv, Inv', [Next]_vars
             PROVE  Plane!PlaneNext \/ (running' = running /\ Owned' = Owned)
  BY DEF Plane!planeStateVars
<1>1. CASE StartIfStaged \/ EnsureStarted
  BY <1>1, StartRefines DEF Plane!PlaneNext
<1>2. CASE CommitGroup
  BY <1>2, AddGroupRefines DEF Plane!PlaneNext
<1>3. CASE CommitReader
  BY <1>3, AddReaderRefines DEF Plane!PlaneNext
<1>4. CASE RunRemove
  BY <1>4, RemoveRefines DEF Plane!PlaneNext
<1>5. CASE JoinAndClear
  BY <1>5, JoinRefines DEF Plane!PlaneNext
<1> QED
  BY <1>1, <1>2, <1>3, <1>4, <1>5, OthersStutter

\* The Pub/Sub engine implements DataPlane, for every configuration: entities
\* appear only on free coordinates or at the start, removeDynamic takes exactly
\* the entities of its tag, shutdown takes all, and no timer, datagram, failed
\* call or failed start makes one come or go.
THEOREM ImplementsDataPlane == Spec => DataPlaneRefined
<1>1. Init => Plane!PlaneInit
  BY DEF Init, Plane!PlaneInit, Owned
<1> QED
  BY <1>1, StepRefines, InvAlways, PTL DEF Spec, DataPlaneRefined, Plane!PlaneSpec
=============================================================================
