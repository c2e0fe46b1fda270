---------------------------- MODULE PubSubEngine ----------------------------
(***************************************************************************)
(* The Pub/Sub engine: src/PubSub/src/PubSubEngine.cpp with the sockets of *)
(* src/PubSub/src/PubSubUdp.cpp.                                           *)
(*                                                                         *)
(* One io thread owns the runtime state. Callers of the dynamic API hold   *)
(* m_lifecycleMutex, post a task to the io thread and wait for it; so at   *)
(* most one call is under way and one record (call) describes it. Between  *)
(* tasks the io thread runs completion handlers: timers that fired or were *)
(* cancelled, and receives that completed or were aborted. A completion    *)
(* that is already queued when its timer is cancelled or its socket closed *)
(* still arrives with success; the objects it refers to live until then.   *)
(*                                                                         *)
(* External: boost::asio queues a cancelled wait with operation_aborted,   *)
(* delivers queued completions one at a time, and drops them with the      *)
(* io_context.                                                             *)
(***************************************************************************)
EXTENDS Naturals, FiniteSets, Sequences

CONSTANTS
    Coords,      \* (writerGroupId, publisherId, publisherIdType)
    Keys,        \* ReaderKey: (publisherId, writerGroupId, dataSetWriterId)
    Addrs,       \* ReceiverKey: (host, port)
    Tags,        \* owner tags of dynamic entities
    StaticTag,   \* "": configured at startup
    Config,      \* the staged configuration: a sequence of group and reader items
    MaxObjects,  \* bound: runtime objects alive at once per coordinate or address
    SeqModulus,  \* 2^16 in the code: the range of a sequence number
    None

GroupItem == [kind: {"group"}, wire: Coords]
ReaderItem == [kind: {"reader"}, wire: Keys, addr: Addrs]

\* A runtime object: the n-th alive one of a coordinate or an address.
GroupIds == Coords \X (1..MaxObjects)
SocketIds == Addrs \X (1..MaxObjects)

ASSUME ConfigAssumption ==
    /\ Config \in Seq(GroupItem \cup ReaderItem)
    /\ Len(Config) <= MaxObjects
    /\ MaxObjects \in Nat \ {0}
    /\ SeqModulus \in Nat \ {0}
    /\ StaticTag \notin Tags

AllTags == Tags \cup {StaticTag}

VARIABLES
    staged,     \* m_staged holds a configuration
    running,    \* m_running
    failed,     \* startIfStaged threw: the server gives the start up
    call,       \* the call that holds m_lifecycleMutex, or None
    groups,     \* WriterGroupRuntime objects alive, by id
    listed,     \* ids in m_writerGroups
    sockets,    \* UdpReceiver objects alive, by id
    receivers,  \* m_receivers: address -> socket id and useCount
    readers     \* m_readers: key -> ReaderRuntime

vars == <<staged, running, failed, call, groups, listed, sockets, receivers, readers>>
runtimeVars == <<groups, listed, sockets, receivers, readers>>

Group == [tag: AllTags, stopped: BOOLEAN, seq: 0..(SeqModulus - 1),
          timer: {"none", "waiting", "fired", "aborted"}]
Socket == [open: BOOLEAN, op: {"none", "receiving", "ready", "failed", "aborted"}]
Reader == [tag: AllTags, addr: Addrs, seen: BOOLEAN, signalled: BOOLEAN]
Ops == {"addGroup", "addReader", "remove", "seen", "shutdown", "refused"}

\* What the runtime state holds, the progress of timers and receives aside.
Contents == [listed: SUBSET GroupIds, groups: SUBSET GroupIds, sockets: SUBSET SocketIds,
             receivers: SUBSET (Addrs \X [sock: SocketIds, useCount: Nat]),
             readers: SUBSET (Keys \X Reader)]

\* A task that adds an entity passes two points between which the io thread
\* runs no other handler: the key is checked, and the socket is ready. What the
\* task found when it began is history, kept to state what a failure leaves.
Call == [op: Ops, tag: Tags \cup {None}, wire: Coords \cup Keys \cup {None},
         addr: Addrs \cup {None}, at: {"posted", "checked", "ready", "done"},
         result: {"pending", "ok", "seen", "threw"}, before: Contents \cup {None}]

\* No call under way is told from every call.
ASSUME NoneAssumption == None \notin Call

-----------------------------------------------------------------------------
EmptyMap == [x \in {} |-> x]
Put(f, k, v) == [x \in DOMAIN f \cup {k} |-> IF x = k THEN v ELSE f[x]]
Without(f, S) == [x \in DOMAIN f \ S |-> f[x]]

\* A runtime object that nothing refers to any more is destroyed.
DropGroups(gs, ls) == Without(gs, {g \in DOMAIN gs : g \notin ls /\ gs[g].timer = "none"})

Registered(rs) == {rs[a].sock : a \in DOMAIN rs}
DropSockets(ss, rs) == Without(ss, {s \in DOMAIN ss : s \notin Registered(rs) /\ ss[s].op = "none"})

-----------------------------------------------------------------------------
(* Life cycle, main thread.                                                *)

StageConfiguration ==
    /\ ~running /\ ~failed /\ ~staged
    /\ staged' = TRUE
    /\ UNCHANGED <<running, failed, call, runtimeVars>>

\* What buildRuntimes has made of the first i items of the configuration.
Items(i, kind) == {j \in 1..i : Config[j].kind = kind}
BuiltGroups(i) == {<<Config[j].wire, j>> : j \in Items(i, "group")}
BuiltAddrs(i) == {Config[j].addr : j \in Items(i, "reader")}
BuiltReceivers(i) ==
    [a \in BuiltAddrs(i) |->
        [sock |-> <<a, 1>>, useCount |-> Cardinality({j \in Items(i, "reader") : Config[j].addr = a})]]

Duplicate(i) == \E j \in Items(i - 1, "reader") :
                    Config[i].kind = "reader" /\ Config[j].wire = Config[i].wire

NewReader(tag, addr) == [tag |-> tag, addr |-> addr, seen |-> FALSE, signalled |-> FALSE]

\* m_readers after items 1..i: with a duplicate refused, keys are distinct.
BuiltReaders(i) ==
    [k \in {Config[j].wire : j \in Items(i, "reader")} |->
        NewReader(StaticTag, Config[CHOOSE j \in Items(i, "reader") : Config[j].wire = k].addr)]

NewGroup(tag, timer) == [tag |-> tag, stopped |-> FALSE, seq |-> 0, timer |-> timer]

\* startIfStaged: everything is built, the groups are scheduled, the receivers
\* armed, and the io thread started.
StartIfStaged ==
    /\ staged /\ ~running
    /\ call = None
    /\ \A i \in 1..Len(Config) : ~Duplicate(i)
    /\ staged' = FALSE
    /\ running' = TRUE
    /\ groups' = [g \in BuiltGroups(Len(Config)) |-> NewGroup(StaticTag, "waiting")]
    /\ listed' = BuiltGroups(Len(Config))
    /\ receivers' = BuiltReceivers(Len(Config))
    /\ sockets' = [s \in Registered(BuiltReceivers(Len(Config))) |->
                      [open |-> TRUE, op |-> "receiving"]]
    /\ readers' = BuiltReaders(Len(Config))
    /\ UNCHANGED <<failed, call>>

\* startIfStaged throws at item i: a variable that does not resolve, a socket
\* that does not open, a duplicate reader. What was built before stays behind
\* (and a reader whose new receiver could not be made is already in m_readers);
\* no io thread runs, and the server abandons the start.
StartFails ==
    /\ staged /\ ~running
    /\ call = None
    /\ \E i \in 1..Len(Config) :
        /\ \A j \in 1..(i - 1) : ~Duplicate(j)
        /\ groups' = [g \in BuiltGroups(i - 1) |-> NewGroup(StaticTag, "none")]
        /\ listed' = BuiltGroups(i - 1)
        /\ receivers' = BuiltReceivers(i - 1)
        /\ sockets' = [s \in Registered(BuiltReceivers(i - 1)) |-> [open |-> TRUE, op |-> "none"]]
        /\ \/ readers' = BuiltReaders(i - 1)
           \/ /\ Config[i].kind = "reader" /\ ~Duplicate(i)
              /\ Config[i].addr \notin BuiltAddrs(i - 1)
              /\ readers' = BuiltReaders(i)
    /\ staged' = FALSE
    /\ failed' = TRUE
    /\ UNCHANGED <<running, call>>

\* ensureStarted with nothing staged: an io thread and no entities. The Fx
\* engine calls it after startIfStaged succeeded or had nothing to do.
EnsureStarted ==
    /\ ~running /\ ~staged /\ ~failed
    /\ call = None
    /\ running' = TRUE
    /\ UNCHANGED <<staged, failed, call, runtimeVars>>

-----------------------------------------------------------------------------
(* The dynamic API, caller's side: take m_lifecycleMutex, check m_running, *)
(* post the task, wait, return.                                            *)

Post(op, tag, wire, addr) ==
    /\ call = None
    /\ running
    /\ call' = [op |-> op, tag |-> tag, wire |-> wire, addr |-> addr,
                at |-> "posted", result |-> "pending", before |-> None]
    /\ UNCHANGED <<staged, running, failed, runtimeVars>>

AddDynamicWriterGroup == \E t \in Tags, c \in Coords : Post("addGroup", t, c, None)
AddDynamicReader == \E t \in Tags, k \in Keys, a \in Addrs : Post("addReader", t, k, a)
RemoveDynamic == \E t \in Tags : Post("remove", t, None, None)
ReaderDataSeen == \E t \in Tags : Post("seen", t, None, None)
Shutdown == Post("shutdown", None, None, None)

\* A call refused before the task is posted: the engine is not running, or the
\* group has no fields, or no positive interval, or the reader no targets.
RefuseCall ==
    /\ call = None
    /\ call' = [op |-> "refused", tag |-> None, wire |-> None, addr |-> None,
                at |-> "done", result |-> "threw", before |-> None]
    /\ UNCHANGED <<staged, running, failed, runtimeVars>>

Return ==
    /\ call # None
    /\ call.at = "done" /\ call.op # "shutdown"
    /\ call' = None
    /\ UNCHANGED <<staged, running, failed, runtimeVars>>

-----------------------------------------------------------------------------
(* The tasks, on the io thread.                                            *)

TaskAt(op, point) == call # None /\ call.op = op /\ call.at = point
Task(op) == TaskAt(op, "posted")

\* The io thread is not in the middle of a task.
IoIdle == ~(call # None /\ call.at \in {"checked", "ready"})

Held == [listed |-> listed, groups |-> DOMAIN groups, sockets |-> DOMAIN sockets,
         receivers |-> {<<a, receivers[a]>> : a \in DOMAIN receivers},
         readers |-> {<<k, readers[k]>> : k \in DOMAIN readers}]

\* What the task found when it began.
Found == IF call.at = "posted" THEN Held ELSE call.before

Proceed(point) ==
    /\ call' = [call EXCEPT !.at = point, !.before = Found]
    /\ UNCHANGED <<staged, running, failed>>

\* The caller wakes with the result; the task's arguments are of no more use.
TaskDone(result) ==
    /\ call' = [op |-> call.op, tag |-> None, wire |-> None, addr |-> None,
                at |-> "done", result |-> result, before |-> None]
    /\ UNCHANGED <<staged, running, failed>>

FreeIds(used, x) == {i \in 1..MaxObjects : <<x, i>> \notin used}
FirstFree(used, x) == <<x, CHOOSE i \in FreeIds(used, x) : \A j \in FreeIds(used, x) : i <= j>>

\* Faulty variant of CoordTaken: the active groups are not looked at.
CoordNeverTaken(c) == FALSE

CoordTaken(c) == \E g \in listed : g[1] = c

\* addDynamicWriterGroup's task: the coordinates are free (and the bound
\* leaves room for one more object of theirs);
CheckGroup ==
    /\ Task("addGroup")
    /\ ~CoordTaken(call.wire)
    /\ FreeIds(DOMAIN groups, call.wire) # {}
    /\ Proceed("checked")
    /\ UNCHANGED runtimeVars

\* the transmitter's socket is made, for a runtime that no container holds yet;
MakeTransmitter ==
    /\ TaskAt("addGroup", "checked")
    /\ Proceed("ready")
    /\ UNCHANGED runtimeVars

\* and the runtime is stored and scheduled.
CommitGroup ==
    /\ TaskAt("addGroup", "ready")
    /\ LET g == FirstFree(DOMAIN groups, call.wire)
       IN /\ groups' = Put(groups, g, NewGroup(call.tag, "waiting"))
          /\ listed' = listed \cup {g}
    /\ UNCHANGED <<sockets, receivers, readers>>
    /\ TaskDone("ok")

\* Duplicate coordinates, or the transmitter's socket cannot be made.
RunAddGroupThrows ==
    /\ (Task("addGroup") /\ CoordTaken(call.wire)) \/ TaskAt("addGroup", "checked")
    /\ UNCHANGED runtimeVars
    /\ TaskDone("threw")

\* Faulty variant of AcquireReceiver: a shared receiver is not counted again.
AcquireUncounted(a) ==
    IF a \in DOMAIN receivers
    THEN UNCHANGED <<receivers, sockets>>
    ELSE LET s == FirstFree(DOMAIN sockets, a)
         IN /\ receivers' = Put(receivers, a, [sock |-> s, useCount |-> 1])
            /\ sockets' = Put(sockets, s, [open |-> TRUE, op |-> "receiving"])

\* acquireReceiver: share the address's receiver, or make, arm and store one.
AcquireReceiver(a) ==
    IF a \in DOMAIN receivers
    THEN /\ receivers' = [receivers EXCEPT ![a].useCount = @ + 1]
         /\ UNCHANGED sockets
    ELSE LET s == FirstFree(DOMAIN sockets, a)
         IN /\ receivers' = Put(receivers, a, [sock |-> s, useCount |-> 1])
            /\ sockets' = Put(sockets, s, [open |-> TRUE, op |-> "receiving"])

\* The bound leaves room for the socket of a new receiver.
RoomForReceiver(a) == a \in DOMAIN receivers \/ FreeIds(DOMAIN sockets, a) # {}

\* Faulty variant of CheckReader: the key is not checked.
CheckReaderNot ==
    /\ Task("addReader")
    /\ RoomForReceiver(call.addr)
    /\ Proceed("checked")
    /\ UNCHANGED runtimeVars

\* Faulty variant of CheckReader: the reader is stored before its receiver is
\* acquired, as buildRuntimes does.
CheckReaderStores ==
    /\ Task("addReader")
    /\ call.wire \notin DOMAIN readers
    /\ RoomForReceiver(call.addr)
    /\ Proceed("checked")
    /\ readers' = Put(readers, call.wire, NewReader(call.tag, call.addr))
    /\ UNCHANGED <<groups, listed, sockets, receivers>>

\* addDynamicReader's task: no reader has the key;
CheckReader ==
    /\ Task("addReader")
    /\ call.wire \notin DOMAIN readers
    /\ RoomForReceiver(call.addr)
    /\ Proceed("checked")
    /\ UNCHANGED runtimeVars

\* the receiver is shared or made;
AcquireForReader ==
    /\ TaskAt("addReader", "checked")
    /\ AcquireReceiver(call.addr)
    /\ Proceed("ready")
    /\ UNCHANGED <<groups, listed, readers>>

\* and the reader is stored.
CommitReader ==
    /\ TaskAt("addReader", "ready")
    /\ readers' = Put(readers, call.wire, NewReader(call.tag, call.addr))
    /\ UNCHANGED <<groups, listed, sockets, receivers>>
    /\ TaskDone("ok")

\* The key is taken, or a new receiver's socket cannot be bound.
RunAddReaderThrows ==
    /\ \/ Task("addReader") /\ call.wire \in DOMAIN readers
       \/ TaskAt("addReader", "checked") /\ call.addr \notin DOMAIN receivers
    /\ UNCHANGED runtimeVars
    /\ TaskDone("threw")

\* timer->cancel(): a waiting timer completes with operation_aborted, one that
\* has fired has its completion queued already.
Cancelled(g) == [groups[g] EXCEPT !.stopped = TRUE,
                                  !.timer = IF @ = "waiting" THEN "aborted" ELSE @]

\* m_socket.close()
Closed(s) == [open |-> FALSE, op |-> IF sockets[s].op = "receiving" THEN "aborted" ELSE sockets[s].op]

\* The receivers' use counts after the readers in gone released theirs.
Released(gone) ==
    [a \in DOMAIN receivers |->
        [receivers[a] EXCEPT !.useCount = @ - Cardinality({k \in gone : readers[k].addr = a})]]

RunRemove ==
    /\ Task("remove")
    /\ LET goneGroups == {g \in listed : groups[g].tag = call.tag}
           goneReaders == {k \in DOMAIN readers : readers[k].tag = call.tag}
           unused == {a \in DOMAIN receivers : Released(goneReaders)[a].useCount = 0}
       IN /\ listed' = listed \ goneGroups
          /\ groups' = DropGroups([g \in DOMAIN groups |->
                                     IF g \in goneGroups THEN Cancelled(g) ELSE groups[g]],
                                  listed')
          /\ readers' = Without(readers, goneReaders)
          /\ receivers' = Without(Released(goneReaders), unused)
          /\ sockets' = DropSockets([s \in DOMAIN sockets |->
                                       IF s \in {receivers[a].sock : a \in unused}
                                       THEN Closed(s) ELSE sockets[s]],
                                    receivers')
    /\ TaskDone("ok")

RunSeen ==
    /\ Task("seen")
    /\ UNCHANGED runtimeVars
    /\ TaskDone(IF \E k \in DOMAIN readers : readers[k].tag = call.tag /\ readers[k].seen
                THEN "seen" ELSE "ok")

\* shutdown's task: every timer cancelled, every receiver stopped.
RunShutdown ==
    /\ Task("shutdown")
    /\ groups' = [g \in DOMAIN groups |-> IF g \in listed THEN Cancelled(g) ELSE groups[g]]
    /\ sockets' = [s \in DOMAIN sockets |-> IF s \in Registered(receivers) THEN Closed(s) ELSE sockets[s]]
    /\ UNCHANGED <<listed, receivers, readers>>
    /\ TaskDone("ok")

\* The rest of shutdown: the io thread stops between two handlers and is
\* joined, the containers are cleared, and the io_context takes the queued
\* completions and the objects they hold with it.
JoinAndClear ==
    /\ call # None
    /\ call.op = "shutdown" /\ call.at = "done"
    /\ groups' = EmptyMap
    /\ listed' = {}
    /\ sockets' = EmptyMap
    /\ receivers' = EmptyMap
    /\ readers' = EmptyMap
    /\ running' = FALSE
    /\ call' = None
    /\ UNCHANGED <<staged, failed>>

-----------------------------------------------------------------------------
(* Timers, sockets and their completions.                                  *)

TimerExpires(g) ==
    /\ running
    /\ groups[g].timer = "waiting"
    /\ groups' = [groups EXCEPT ![g].timer = "fired"]
    /\ UNCHANGED <<staged, running, failed, call, listed, sockets, receivers, readers>>

\* Faulty variant of LetsGo: the handler only looks at its error code.
LetsGoWhenAborted(g) == groups[g].timer = "aborted"

\* The handler of scheduleGroup: let go, or publish and wait again.
LetsGo(g) == groups[g].timer = "aborted" \/ groups[g].stopped

\* Faulty variant of TimerHandler: the timer is not armed again.
PublishesOnce(g) ==
    /\ running /\ IoIdle
    /\ groups[g].timer \in {"fired", "aborted"}
    /\ groups' = DropGroups([groups EXCEPT ![g].timer = "none",
                                           ![g].seq = IF LetsGo(g) THEN @ ELSE (@ + 1) % SeqModulus],
                            listed)
    /\ UNCHANGED <<staged, running, failed, call, listed, sockets, receivers, readers>>

\* Faulty variant of TimerHandler: the sequence number outgrows 16 bits.
PublishesWide(g) ==
    /\ running /\ IoIdle
    /\ groups[g].timer \in {"fired", "aborted"}
    /\ groups' =
         IF LetsGo(g)
         THEN DropGroups([groups EXCEPT ![g].timer = "none"], listed)
         ELSE [groups EXCEPT ![g].timer = "waiting", ![g].seq = @ + 1]
    /\ UNCHANGED <<staged, running, failed, call, listed, sockets, receivers, readers>>

TimerHandler(g) ==
    /\ running /\ IoIdle
    /\ groups[g].timer \in {"fired", "aborted"}
    /\ groups' =
         IF LetsGo(g)
         THEN DropGroups([groups EXCEPT ![g].timer = "none"], listed)
         ELSE [groups EXCEPT ![g].timer = "waiting", ![g].seq = (@ + 1) % SeqModulus]
    /\ UNCHANGED <<staged, running, failed, call, listed, sockets, receivers, readers>>

\* A datagram, or an error, reaches a socket that has a receive pending.
ReceiveCompletes(s) ==
    /\ running
    /\ sockets[s].op = "receiving"
    /\ \E result \in {"ready", "failed"} : sockets' = [sockets EXCEPT ![s].op = result]
    /\ UNCHANGED <<staged, running, failed, call, groups, listed, receivers, readers>>

\* handleDatagram: the readers of the messages' keys, whatever socket they
\* came in on, see data; each dynamic reader not yet signalled is called back
\* and counts as signalled when the callback says so (answered).
HandleDatagram(messages, answered) ==
    readers' = [k \in DOMAIN readers |->
        IF k \in messages
        THEN [readers[k] EXCEPT !.seen = TRUE,
                                !.signalled = @ \/ (readers[k].tag # StaticTag /\ k \in answered)]
        ELSE readers[k]]

\* Faulty variant of ReceiveHandler: a closed socket's datagram is handled.
ReceiveHandlerWhenClosed(s) ==
    /\ running /\ IoIdle
    /\ sockets[s].op \in {"ready", "failed", "aborted"}
    /\ IF sockets[s].op = "aborted"
       THEN /\ sockets' = DropSockets([sockets EXCEPT ![s].op = "none"], receivers)
            /\ UNCHANGED readers
       ELSE /\ sockets' = [sockets EXCEPT ![s].op = "receiving"]
            /\ IF sockets[s].op = "ready"
               THEN \E messages \in SUBSET DOMAIN readers :
                        \E answered \in SUBSET messages : HandleDatagram(messages, answered)
               ELSE UNCHANGED readers
    /\ UNCHANGED <<staged, running, failed, call, groups, listed, receivers>>

\* The handler of armReceive.
ReceiveHandler(s) ==
    /\ running /\ IoIdle
    /\ sockets[s].op \in {"ready", "failed", "aborted"}
    /\ IF sockets[s].op = "aborted" \/ ~sockets[s].open
       THEN /\ sockets' = DropSockets([sockets EXCEPT ![s].op = "none"], receivers)
            /\ UNCHANGED readers
       ELSE /\ sockets' = [sockets EXCEPT ![s].op = "receiving"]
            /\ IF sockets[s].op = "ready"
               THEN \E messages \in SUBSET DOMAIN readers :
                        \E answered \in SUBSET messages : HandleDatagram(messages, answered)
               ELSE UNCHANGED readers
    /\ UNCHANGED <<staged, running, failed, call, groups, listed, receivers>>

-----------------------------------------------------------------------------

Init ==
    /\ staged = FALSE
    /\ running = FALSE
    /\ failed = FALSE
    /\ call = None
    /\ groups = EmptyMap
    /\ listed = {}
    /\ sockets = EmptyMap
    /\ receivers = EmptyMap
    /\ readers = EmptyMap

RunTask == \/ CheckGroup \/ MakeTransmitter \/ CommitGroup \/ RunAddGroupThrows
           \/ CheckReader \/ AcquireForReader \/ CommitReader \/ RunAddReaderThrows
           \/ RunRemove \/ RunSeen \/ RunShutdown

Next ==
    \/ StageConfiguration \/ StartIfStaged \/ StartFails \/ EnsureStarted
    \/ AddDynamicWriterGroup \/ AddDynamicReader \/ RemoveDynamic \/ ReaderDataSeen \/ Shutdown
    \/ RefuseCall \/ Return \/ JoinAndClear
    \/ RunTask
    \/ \E g \in DOMAIN groups : TimerExpires(g) \/ TimerHandler(g)
    \/ \E s \in DOMAIN sockets : ReceiveCompletes(s) \/ ReceiveHandler(s)

Spec == Init /\ [][Next]_vars

\* The io thread serves its queue, timers expire, callers that were answered
\* return. A queued completion is served in its turn however many tasks come in
\* between, which is strong fairness: a task in progress disables the handlers.
\* Nothing obliges anyone to call, nor a datagram to arrive.
FairSpec ==
    /\ Spec
    /\ WF_vars(RunTask) /\ WF_vars(Return) /\ WF_vars(JoinAndClear)
    /\ \A g \in GroupIds : /\ WF_vars(g \in DOMAIN groups /\ TimerExpires(g))
                            /\ SF_vars(g \in DOMAIN groups /\ TimerHandler(g))
    /\ \A s \in SocketIds : SF_vars(s \in DOMAIN sockets /\ ReceiveHandler(s))

-----------------------------------------------------------------------------
(* Properties.                                                             *)

\* Every variable holds a value of its kind; the containers hold ids of live
\* runtime objects.
TypeOK ==
    /\ staged \in BOOLEAN /\ running \in BOOLEAN /\ failed \in BOOLEAN
    /\ call \in Call \cup {None}
    /\ DOMAIN groups \subseteq GroupIds
    /\ groups \in [DOMAIN groups -> Group]
    /\ listed \subseteq DOMAIN groups
    /\ DOMAIN sockets \subseteq SocketIds
    /\ sockets \in [DOMAIN sockets -> Socket]
    /\ DOMAIN receivers \subseteq Addrs
    /\ receivers \in [DOMAIN receivers -> [sock: DOMAIN sockets, useCount: Nat]]
    /\ DOMAIN readers \subseteq Keys
    /\ readers \in [DOMAIN readers -> Reader]

\* shutdown has run its task and is about to join the io thread.
Stopping == call # None /\ call.op = "shutdown" /\ call.at = "done"

\* addDynamicReader's task has acquired a receiver for the reader it is about
\* to store at this address.
Acquired(a) == TaskAt("addReader", "ready") /\ call.addr = a

\* While the engine runs, an address has a receiver exactly when some reader
\* listens there, useCount counts those readers, and the receiver is open and
\* has a receive outstanding: no reader is deaf, no socket is leaked, and none
\* is closed under a reader that still shares it. The reader a task is about to
\* store counts from the moment its receiver is acquired.
ReceiverAccounting ==
    running =>
        \A a \in Addrs :
            LET users == {k \in DOMAIN readers : readers[k].addr = a}
                uses == Cardinality(users) + IF Acquired(a) THEN 1 ELSE 0
            IN /\ a \in DOMAIN receivers <=> uses # 0
               /\ a \in DOMAIN receivers =>
                    /\ receivers[a].useCount = uses
                    /\ ~Stopping => /\ sockets[receivers[a].sock].open
                                    /\ sockets[receivers[a].sock].op # "none"

\* A dynamic group never shares wire coordinates with another active group: two
\* sequence-number streams under one group id would be indistinguishable.
CoordinatesUnique ==
    \A g, h \in listed : g[1] = h[1] /\ groups[g].tag # StaticTag => g = h

\* A writer group publishes only while m_writerGroups holds it and no shutdown
\* has stopped it, even when its timer's completion was queued before the
\* cancel (the zombie publisher of the removed group).
RemovedIsSilent ==
    [][\A g \in DOMAIN groups \cap DOMAIN groups' :
          groups'[g].seq # groups[g].seq => g \in listed /\ ~Stopping]_vars

\* A reader gets data only from a receiver that m_receivers still holds: a
\* datagram queued on a closed socket never reaches a reader added since.
NoStaleDelivery ==
    [][\A k \in DOMAIN readers \cap DOMAIN readers' :
          ~readers[k].seen /\ readers'[k].seen =>
              \E a \in DOMAIN receivers :
                  LET s == receivers[a].sock
                  IN sockets[s].open /\ sockets[s].op = "ready" /\ sockets'[s].op = "receiving"]_vars

\* "failures ... leave the engine exactly as it was" (PubSubEngine.h): a task
\* that throws, at whichever of its steps, leaves the containers and the runtime
\* objects as they were when it began, what its earlier steps did included.
FailureLeavesNoChange ==
    [][call # None /\ call' # None /\ call.result = "pending" /\ call'.result = "threw"
       => Held' = Found]_vars

\* A group that stays in m_writerGroups publishes again and again: its handler
\* re-arms the timer every time.
KeepsPublishing ==
    \A g \in GroupIds :
        <>[](g \in listed /\ running) => []<><<g \in DOMAIN groups /\ TimerHandler(g)>>_vars

\* A removed group is let go: no chain of completions keeps it alive.
RemovedIsDestroyed ==
    \A g \in GroupIds : (g \in DOMAIN groups \ listed) ~> (g \notin DOMAIN groups)

\* The entities of the running engine, as their owners know them.
Owned ==
    IF ~running THEN {}
    ELSE {[kind |-> "writer", wire |-> g[1], tag |-> groups[g].tag] : g \in listed}
         \cup {[kind |-> "reader", wire |-> k, tag |-> readers[k].tag] : k \in DOMAIN readers}

Plane == INSTANCE DataPlane WITH
            Kinds <- {"writer", "reader"}, Wires <- Coords \cup Keys, OwnerTags <- AllTags,
            up <- running, owned <- Owned

\* The engine implements the tagged entity set its callers rely on: entities
\* appear only on free coordinates, removeDynamic takes exactly the entities of
\* its tag, and nothing else ever makes one come or go.
DataPlaneRefined == Plane!PlaneSpec
=============================================================================
