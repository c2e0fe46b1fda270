------------------------ MODULE CalculatedVariables ------------------------
(***************************************************************************)
(* Calculated variables (src/CalculatedVariables): formulas over variables *)
(* of the address space that are recalculated inside the setters of their  *)
(* operands.                                                               *)
(*                                                                         *)
(* At start-up, by one thread: every variable and calculated variable is   *)
(* registered as a ParserVariable, the ones no formula uses are optimized  *)
(* out, and the others get synchronizers (recursive mutexes), one for each *)
(* connected part of the graph. Afterwards any thread may call any setter. *)
(* A setter stores into the address space, then its change listener locks  *)
(* the ParserVariable's synchronizer, stores the operand and updates the   *)
(* calculated variables one by one; each publishes through its own setter, *)
(* so the setters nest. "stack" holds the nested ParserVariable::setValue  *)
(* calls of a thread: a thread owns a synchronizer while a call on its     *)
(* stack is on a ParserVariable that has it.                               *)
(*                                                                         *)
(* What a formula computes is a parameter: muParser only calls it with the *)
(* operands' current values.                                               *)
(***************************************************************************)
EXTENDS Integers, Sequences, FiniteSets, Functions

CONSTANTS
    Threads,             \* threads that call setters
    Configurations,      \* the configuration files considered
    Names,               \* the variables they name
    Data,                \* what the setters may be given
    ValueFormula(_, _),  \* ValueFormula(cv, operands)
    StatusFormula(_, _),
    Null,                \* an empty variant
    None                 \* no synchronizer

\* Every variable of a configuration has a node id of its own, formulas are those
\* of calculated variables, and so are manual updates.
ASSUME ConfigurationAssumption ==
    \A c \in Configurations :
        /\ c.order \in Seq(Names) /\ IsInjective(c.order)
        /\ DOMAIN c.value \subseteq Range(c.order)
        /\ \A cv \in DOMAIN c.value : c.value[cv] \in Seq(Names)
        /\ c.manual \subseteq DOMAIN c.value

ASSUME NoneAssumption == None \notin Names

\* What a variable of the address space may hold.
Results == [status : {"good", "waiting", "bad"}, value : Int \cup {Null}]

\* Every variable that is not calculated has an initial value.
ASSUME DataAssumption ==
    /\ Data \subseteq Results
    /\ \A c \in Configurations :
        /\ Range(c.order) \ DOMAIN c.value \subseteq DOMAIN c.initial
        /\ \A v \in DOMAIN c.initial : c.initial[v] \in Results

VARIABLES
    config,     \* the configuration file
    phase,      \* progress of configurationInitializerHandler
    pvs,        \* s_parserVariables
    it,         \* the iterator of optimize and setupSynchronization
    notified,   \* notified[v]: m_notifiedVariables of v's ParserVariable
    sync,       \* sync[v]: its m_synchronizer, named after its first user
    pv,         \* pv[v]: m_state and m_value
    published,  \* published[v]: the value in the address space
    auto,       \* auto[cv]: m_autoUpdateEnabled
    work        \* work[t]: where thread t is

vars == <<config, phase, pvs, it, notified, sync, pv, published, auto, work>>
graphVars == <<config, phase, pvs, it, notified, sync>>

(* A configuration: the order of registration, the operands of the value   *)
(* and status formulas in the order the parser asks for them, the initial  *)
(* values, variables with a listener of somebody else, and calculated      *)
(* variables that the user switches to manual updates.                     *)
Calculated == DOMAIN config.value
Plain == Range(config.order) \ Calculated
Variables == Range(config.order)
HasStatus(cv) == cv \in DOMAIN config.status
StatusOperands(cv) == IF HasStatus(cv) THEN config.status[cv] ELSE <<>>
Operands(cv) == Range(config.value[cv]) \cup Range(StatusOperands(cv))
IsConstant(v) == v \in Calculated /\ Operands(v) = {}

\* A ParserVariable exists exactly as long as its change listener, and a
\* calculated variable's m_notifiedVariable points to it.
Kept(v) == v \in Range(pvs)

Waiting == [status |-> "waiting", value |-> Null]
Call == [pv : Names, todo : Seq(Names)]
Work(pc, stack, var, data) == [pc |-> pc, stack |-> stack, var |-> var, data |-> data]
Idle == Work("idle", <<>>, None, Waiting)

Init ==
    /\ config \in Configurations
    /\ phase = "configuring"
    /\ pvs = <<>> /\ it = 0
    /\ notified = [v \in Names |-> <<>>]
    /\ sync = [v \in Names |-> None]
    /\ pv = [v \in Names |-> [state |-> "waiting", value |-> 0]]
    /\ published = [v \in Names |-> Waiting]
    /\ auto = [v \in Names |-> TRUE]
    /\ work = [t \in Threads |-> Idle]

-----------------------------------------------------------------------------
(* What a change listener makes of a data value, and calculate().          *)

Converted(d) ==
    IF d.status = "waiting" THEN [state |-> "waiting", value |-> 0]
    ELSE IF d.status = "bad" \/ d.value = Null THEN [state |-> "bad", value |-> 0]
    ELSE [state |-> "good", value |-> d.value]

\* Positions in the value formula of operands that are not good; the first decides.
NotGood(cv) == {i \in DOMAIN config.value[cv] : pv[config.value[cv][i]].state # "good"}

Propagated(cv) ==
    LET first == CHOOSE i \in NotGood(cv) : \A j \in NotGood(cv) : i <= j
    IN  [status |-> pv[config.value[cv][first]].state, value |-> Null]

\* Operands of the status formula are used whatever their state.
Evaluated(cv) ==
    LET operands == [v \in Operands(cv) |-> pv[v].value]
    IN  [status |-> IF HasStatus(cv) /\ StatusFormula(cv, operands) = 0 THEN "bad" ELSE "good",
         value |-> ValueFormula(cv, operands)]

Calculation(cv) == IF NotGood(cv) # {} THEN Propagated(cv) ELSE Evaluated(cv)

-----------------------------------------------------------------------------
(* Start-up. configure() registers one variable after the other.           *)

Next1 == config.order[Len(pvs) + 1]
Configuring == phase = "configuring" /\ Len(pvs) < Len(config.order)

\* registerVariableForCalculatedVariables, then the initial setValue: nobody
\* is notified yet.
RegisterVariable ==
    /\ Configuring /\ Next1 \in Plain
    /\ pvs' = Append(pvs, Next1)
    /\ published' = [published EXCEPT ![Next1] = config.initial[Next1]]
    /\ pv' = [pv EXCEPT ![Next1] = Converted(config.initial[Next1])]
    /\ UNCHANGED <<config, phase, it, notified, sync, auto, work>>

\* Faulty variant of Asked: operands of the status formula do not notify.
AskedForValue(cv, v) == IF v \in Range(config.value[cv]) THEN <<cv>> ELSE <<>>

\* The parser asks parserVariableRequestHandler for each operand, which must
\* be registered before; an operand of both formulas is asked for twice.
Asked(cv, v) ==
    (IF v \in Range(config.value[cv]) THEN <<cv>> ELSE <<>>)
    \o (IF v \in Range(StatusOperands(cv)) THEN <<cv>> ELSE <<>>)

InstantiateCalculatedVariable ==
    /\ Configuring /\ Next1 \in Calculated
    /\ Operands(Next1) \subseteq Range(pvs)
    /\ notified' = [v \in Names |-> notified[v] \o Asked(Next1, v)]
    /\ pvs' = Append(pvs, Next1)
    /\ LET d == IF Next1 \in DOMAIN config.initial THEN config.initial[Next1] ELSE Calculation(Next1)
       IN  /\ published' = [published EXCEPT ![Next1] = d]
           /\ pv' = [pv EXCEPT ![Next1] = Converted(d)]
    /\ UNCHANGED <<config, phase, it, sync, auto, work>>

\* An unknown operand throws and the server does not start.
InstantiateFails ==
    /\ Configuring /\ Next1 \in Calculated
    /\ ~(Operands(Next1) \subseteq Range(pvs))
    /\ phase' = "failed"
    /\ UNCHANGED <<config, pvs, it, notified, sync, pv, published, auto, work>>

\* No formula uses it and the only listener is the engine's own.
Unused(v) == notified[v] = <<>> /\ v \notin config.observed

Configured ==
    /\ phase = "configuring" /\ Len(pvs) = Len(config.order)
    /\ phase' = "optimizing" /\ it' = 1
    /\ UNCHANGED <<config, pvs, notified, sync, pv, published, auto, work>>

Erased(s, i) == SubSeq(s, 1, i - 1) \o SubSeq(s, i + 1, Len(s))

\* One round of the loop; erasing leaves the iterator at the next one.
Optimize ==
    /\ phase = "optimizing" /\ it <= Len(pvs)
    /\ IF Unused(pvs[it]) THEN pvs' = Erased(pvs, it) /\ it' = it
                          ELSE pvs' = pvs /\ it' = it + 1
    /\ UNCHANGED <<config, phase, notified, sync, pv, published, auto, work>>

Optimized ==
    /\ phase = "optimizing" /\ it > Len(pvs)
    /\ phase' = "synchronizing" /\ it' = Len(pvs)
    /\ UNCHANGED <<config, pvs, notified, sync, pv, published, auto, work>>

\* Faulty variant of Neighbours: only towards descendants.
DescendantsOnly(v) == {cv \in Range(notified[v]) : Kept(cv)}

\* Where dfsAndSetSynchronizer goes from v: the operands of v's formulas and
\* the calculated variables v notifies, unless optimized out.
Neighbours(v) ==
    (IF v \in Calculated THEN Operands(v) ELSE {}) \cup {cv \in Range(notified[v]) : Kept(cv)}

\* Where it does go: to those without synchronizer that are not constant.
Open(v) == {u \in Neighbours(v) : sync[u] = None /\ ~IsConstant(u)}

\* The ParserVariables that one depth-first search from v visits: the least set
\* with v that the search cannot leave.
Reached(v) ==
    {u \in Names : \A S \in SUBSET Names : v \in S /\ (\A w \in S : Open(w) \subseteq S) => u \in S}

NeedsSynchronizer(v) == notified[v] # <<>> /\ ~IsConstant(v) /\ sync[v] = None

\* One round of the loop, which runs from the last ParserVariable to the first.
SetupSynchronization ==
    /\ phase = "synchronizing" /\ it > 0
    /\ sync' = IF NeedsSynchronizer(pvs[it])
               THEN [u \in Names |-> IF u \in Reached(pvs[it]) THEN pvs[it] ELSE sync[u]]
               ELSE sync
    /\ it' = it - 1
    /\ UNCHANGED <<config, phase, pvs, notified, pv, published, auto, work>>

Synchronized ==
    /\ phase = "synchronizing" /\ it = 0
    /\ phase' = "running"
    /\ UNCHANGED <<config, pvs, it, notified, sync, pv, published, auto, work>>

-----------------------------------------------------------------------------
(* Setters.                                                                *)

Resumed(stack) == IF stack = <<>> THEN Idle ELSE Work("notify", stack, None, Waiting)

\* ChangeNotifyingVariable::setValue stores, then calls the listener. The
\* store is not under the synchronizer. (A write that the base class refuses
\* stores nothing and calls nobody.)
Stored(t, v, d, stack) ==
    /\ published' = [published EXCEPT ![v] = d]
    /\ work' = [work EXCEPT ![t] = IF Kept(v) THEN Work("listen", stack, v, d) ELSE Resumed(stack)]

SetValue(t, v, d) ==
    /\ phase = "running" /\ work[t].pc = "idle"
    /\ v \in Plain
    /\ Stored(t, v, d, <<>>)
    /\ UNCHANGED <<graphVars, pv, auto>>

Owns(t, s) == \E i \in 1..Len(work[t].stack) : sync[work[t].stack[i].pv] = s

\* Faulty variant of Acquired: the synchronizer is not locked.
AcquiredAlways(t, s) == TRUE

Acquired(t, s) == s # None => \A u \in Threads \ {t} : ~Owns(u, s)

\* ParserVariable::setValue up to the loop over m_notifiedVariables.
Listen(t) ==
    LET w == work[t]
    IN  /\ w.pc = "listen"
        /\ Acquired(t, sync[w.var])
        /\ pv' = [pv EXCEPT ![w.var] = Converted(w.data)]
        /\ work' = [work EXCEPT ![t] =
               Work("notify", Append(w.stack, [pv |-> w.var, todo |-> notified[w.var]]), None, Waiting)]
        /\ UNCHANGED <<graphVars, published, auto>>

\* The states are read first; if all are good the formulas are evaluated later.
StartCalculation(t, cv, stack) ==
    work' = [work EXCEPT ![t] =
        IF NotGood(cv) # {} THEN Work("publish", stack, cv, Propagated(cv))
                              ELSE Work("evaluate", stack, cv, Waiting)]

Top(t) == work[t].stack[Len(work[t].stack)]
Popped(stack) == SubSeq(stack, 1, Len(stack) - 1)

Update(t) ==
    /\ work[t].pc = "notify" /\ Top(t).todo # <<>>
    /\ LET cv == Head(Top(t).todo)
           rest == Append(Popped(work[t].stack), [Top(t) EXCEPT !.todo = Tail(@)])
       IN  IF auto[cv] THEN StartCalculation(t, cv, rest)
                       ELSE work' = [work EXCEPT ![t] = Resumed(rest)]
    /\ UNCHANGED <<graphVars, pv, published, auto>>

Evaluate(t) ==
    /\ work[t].pc = "evaluate"
    /\ work' = [work EXCEPT ![t] = Work("publish", @.stack, @.var, Evaluated(@.var))]
    /\ UNCHANGED <<graphVars, pv, published, auto>>

Publish(t) ==
    /\ work[t].pc = "publish"
    /\ Stored(t, work[t].var, work[t].data, work[t].stack)
    /\ UNCHANGED <<graphVars, pv, auto>>

\* The loop is done; the lock_guard releases the synchronizer.
Return(t) ==
    /\ work[t].pc = "notify" /\ Top(t).todo = <<>>
    /\ work' = [work EXCEPT ![t] = Resumed(Popped(@.stack))]
    /\ UNCHANGED <<graphVars, pv, published, auto>>

-----------------------------------------------------------------------------
(* Manual updates, from user code and without a lock.                      *)

SetAutoUpdate(cv) ==
    /\ phase = "running" /\ cv \in config.manual
    /\ auto' = [auto EXCEPT ![cv] = ~@]
    /\ UNCHANGED <<graphVars, pv, published, work>>

TriggerRecalculation(t, cv) ==
    /\ phase = "running" /\ work[t].pc = "idle"
    /\ cv \in config.manual
    /\ StartCalculation(t, cv, <<>>)
    /\ UNCHANGED <<graphVars, pv, published, auto>>

StartUp ==
    \/ RegisterVariable \/ InstantiateCalculatedVariable \/ InstantiateFails
    \/ Configured \/ Optimize \/ Optimized \/ SetupSynchronization \/ Synchronized

Setter(t) ==
    \/ \E v \in Names, d \in Data : SetValue(t, v, d)
    \/ Listen(t) \/ Update(t) \/ Evaluate(t) \/ Publish(t) \/ Return(t)
    \/ \E cv \in Names : TriggerRecalculation(t, cv)

Next ==
    \/ StartUp
    \/ \E t \in Threads : Setter(t)
    \/ \E cv \in Names : SetAutoUpdate(cv)

Spec == Init /\ [][Next]_vars

Proceed(t) == Listen(t) \/ Update(t) \/ Evaluate(t) \/ Publish(t) \/ Return(t)

\* A thread inside a setter is scheduled. Nobody has to call a setter, and a
\* thread may starve at a synchronizer that others keep taking.
FairSpec == Spec /\ \A t \in Threads : WF_vars(Proceed(t))

-----------------------------------------------------------------------------
(* Properties.                                                             *)

\* Kinds of the state. In particular an operand is always a number, which
\* is what muParser reads through valuePtr(), whatever was stored into the
\* variable, and the calls nested in a setter are on distinct ParserVariables.
TypeOK ==
    /\ config \in Configurations
    /\ phase \in {"configuring", "failed", "optimizing", "synchronizing", "running"}
    /\ Range(pvs) \subseteq Variables /\ IsInjective(pvs)
    /\ notified \in [Names -> Seq(Calculated)]
    /\ sync \in [Names -> Names \cup {None}]
    /\ pv \in [Names -> [state : {"waiting", "good", "bad"}, value : Int]]
    /\ published \in [Names -> Results]
    /\ auto \in [Names -> BOOLEAN]
    /\ \A t \in Threads :
        /\ work[t].pc \in {"idle", "listen", "notify", "evaluate", "publish"}
        /\ work[t].stack \in Seq(Call)
        /\ \A i, k \in 1..Len(work[t].stack) : i # k => work[t].stack[i].pv # work[t].stack[k].pv
        /\ work[t].var \in Names \cup {None}
        /\ work[t].data \in Results

Calculating(t, cv) == work[t].pc \in {"evaluate", "publish"} /\ work[t].var = cv
Storing(t, v) == \E i \in 1..Len(work[t].stack) : work[t].stack[i].pv = v

\* A calculation has its formula and its operands to itself: while a thread
\* calculates a variable that is not updated manually, no other thread
\* calculates it (mu::Parser::Eval is not known to be re-entrant) or is
\* inside the setter of one of its operands (ParserVariable::setValue).
CalculationExclusive ==
    \A t, u \in Threads, cv \in Calculated \ config.manual :
        t # u /\ Calculating(t, cv) =>
            ~Calculating(u, cv) /\ \A v \in Operands(cv) : ~Storing(u, v)

(* The graph of the formulas that setupSynchronization works on: variables *)
(* that survive optimize, with an edge between a result and each of its    *)
(* operands that is not constant.                                          *)

Used(v) == \E cv \in Calculated : v \in Operands(cv)
Stays(v) == Used(v) \/ v \in config.observed

\* S holds whole connected parts.
Whole(S) ==
    \A cv \in Calculated : Stays(cv) => \A v \in Operands(cv) : ~IsConstant(v) => (v \in S <=> cv \in S)

\* No whole set has one and not the other.
Joined(v, w) == ~\E S \in SUBSET Variables : v \in S /\ w \notin S /\ Whole(S)

\* The searches of setupSynchronization, each of which starts where earlier ones
\* have left something and goes only where none has been, give the variables
\* of a connected part one synchronizer, and no two parts the same: setters
\* exclude each other where they share a part, and only there.
SynchronizersMatchGraph ==
    phase = "running" =>
        \A v \in Variables : Used(v) /\ ~IsConstant(v) =>
            /\ sync[v] # None
            /\ \A w \in Variables : sync[w] = sync[v] <=> Joined(v, w)

\* The operands of a formula that can change at run time: constants only do
\* when somebody triggers them.
ChangingOperands(cv) == {v \in Operands(cv) : ~IsConstant(v) \/ v \in config.manual}

\* The configuration has its formulas where the engine can protect them: the
\* operands that change are joined, by the formula's own result if that is
\* used or observed, or by others.
OperandsJoined ==
    \A cv \in Calculated \ config.manual : \A v, w \in ChangingOperands(cv) : ~IsConstant(v) /\ Joined(v, w)

\* When all setters have returned, every calculated variable shows what its
\* formulas give for the operands as they are, unless it still has its
\* configured initial value, and is seen by other formulas as it is
\* published: no order of setters leaves a stale result behind, and no
\* operand is optimized out under a formula.
SettledConsistent ==
    phase = "running" /\ (\A t \in Threads : work[t] = Idle) =>
        \A cv \in Calculated \ config.manual :
            /\ \/ published[cv] = Calculation(cv)
               \/ cv \in DOMAIN config.initial /\ published[cv] = config.initial[cv]
            /\ \A v \in Operands(cv) : Kept(v)
            /\ Kept(cv) => pv[cv] = Converted(published[cv])

\* A setter that holds a synchronizer returns: the cascade it starts ends,
\* and never waits for a synchronizer that another thread holds.
SettersReturn ==
    \A t \in Threads : work[t].stack # <<>> ~> work[t] = Idle

=============================================================================
