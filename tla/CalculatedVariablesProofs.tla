---------------------- MODULE CalculatedVariablesProofs ----------------------
(***************************************************************************)
(* What the start-up and the setters of calculated variables guarantee for *)
(* every configuration, any number of threads and any nesting of setters.  *)
(*                                                                         *)
(* - The searches of setupSynchronization give each connected part of the  *)
(*   formulas one synchronizer of its own. No induction over the graph: a  *)
(*   search visits the least set that it cannot leave, so a set shown to   *)
(*   be closed holds all of it.                                            *)
(* - Setters under one synchronizer exclude each other. If the operands of *)
(*   a formula are joined, its calculation has them to itself, and nothing *)
(*   stale is left when the setters have returned.                         *)
(* - Setters nest in the order of registration and under one synchronizer: *)
(*   no cascade comes back to its start and no owner waits for another.    *)
(* - With one writer for each variable, formulas see what is published.    *)
(* - Operands are numbers, whatever the address space is given.            *)
(***************************************************************************)
EXTENDS CalculatedVariables, SequenceTheorems, WellFoundedInduction, TLAPS

Pcs == {"idle", "listen", "notify", "evaluate", "publish"}

\* A ParserVariable whose setter can run.
MayChange(v) == ~IsConstant(v) \/ v \in config.manual

\* A ParserVariable::setValue under way: what it has still to notify are formulas
\* over it.
Frames ==
    {f \in [pv : Names, todo : Seq(Calculated)] :
        MayChange(f.pv) /\ \A j \in 1..Len(f.todo) : f.pv \in Operands(f.todo[j])}

\* The ParserVariables whose setters are nested in a stack.
Held(stack) == {stack[i].pv : i \in 1..Len(stack)}

\* A thread calculates a variable for the sake of the operand whose setter is on
\* top of its stack, or because the user triggered it.
GoodWork(w) ==
    /\ w.pc \in Pcs
    /\ w.stack \in Seq(Frames)
    /\ w.pc = "notify" => w.stack # <<>>
    /\ w.pc = "listen" => w.var \in Names /\ MayChange(w.var)
    /\ w.pc \in {"evaluate", "publish"} =>
        /\ w.var \in Calculated
        /\ \/ w.var \in config.manual
           \/ w.stack # <<>> /\ w.stack[Len(w.stack)].pv \in Operands(w.var)

\* m_notifiedVariables lists formulas over the variable.
NotifiedInv ==
    /\ notified \in [Names -> Seq(Calculated)]
    /\ \A v \in Names : \A i \in 1..Len(notified[v]) : v \in Operands(notified[v][i])

\* No setter runs before the start-up has ended.
QuietInv == phase # "running" => \A t \in Threads : work[t] = Idle

WorkInv == DOMAIN work = Threads /\ \A t \in Threads : GoodWork(work[t])

\* No two threads are inside setters under one synchronizer.
ExclusiveInv ==
    \A t, u \in Threads : t # u =>
        \A v \in Held(work[t].stack), w \in Held(work[u].stack) : sync[v] # None => sync[v] # sync[w]

Inv == config \in Configurations /\ NotifiedInv /\ QuietInv /\ WorkInv /\ ExclusiveInv

-----------------------------------------------------------------------------
(* Configurations and sequences of variables.                              *)

\* The elements of a sequence are those at its positions.
LEMMA SeqElements ==
    ASSUME NEW S, NEW s \in Seq(S)
    PROVE  /\ \A x \in Range(s) : x \in S /\ \E i \in 1..Len(s) : s[i] = x
           /\ \A i \in 1..Len(s) : s[i] \in Range(s)
<1>1. DOMAIN s = 1..Len(s) /\ \A i \in 1..Len(s) : s[i] \in S
  BY LenProperties, ElementOfSeq
<1>2. \A x \in Range(s) : x \in S /\ \E i \in 1..Len(s) : s[i] = x
  BY <1>1 DEF Range
<1>3. \A i \in 1..Len(s) : s[i] \in Range(s)
  BY <1>1 DEF Range
<1> QED
  BY <1>2, <1>3

\* Every variable is registered once, and formulas are those of variables.
LEMMA ConfigurationFacts ==
    ASSUME config \in Configurations
    PROVE  /\ config.order \in Seq(Names) /\ Variables \subseteq Names
           /\ Calculated \subseteq Variables /\ Calculated \subseteq Names
           /\ config.manual \subseteq Calculated
           /\ \A i, j \in 1..Len(config.order) : config.order[i] = config.order[j] => i = j
<1>1. /\ config.order \in Seq(Names) /\ IsInjective(config.order)
      /\ DOMAIN config.value \subseteq Range(config.order)
      /\ config.manual \subseteq DOMAIN config.value
  BY ConfigurationAssumption
<1>2. Range(config.order) \subseteq Names /\ DOMAIN config.order = 1..Len(config.order)
  BY <1>1, SeqElements, LenProperties
<1> QED
  BY <1>1, <1>2 DEF Variables, Calculated, IsInjective

\* v is registered before w.
Before(v, w) ==
    \E i, j \in 1..Len(config.order) : i < j /\ config.order[i] = v /\ config.order[j] = w

\* What the graph of the formulas is depends on the configuration alone.
LEMMA SameGraph ==
    ASSUME config' = config
    PROVE  /\ Calculated' = Calculated /\ Variables' = Variables /\ Plain' = Plain
           /\ \A v : Operands(v)' = Operands(v)
           /\ \A v : IsConstant(v)' <=> IsConstant(v)
           /\ \A v : Used(v)' <=> Used(v)
           /\ \A v : Stays(v)' <=> Stays(v)
           /\ \A v, w : Joined(v, w)' <=> Joined(v, w)
           /\ \A v, w : Before(v, w)' <=> Before(v, w)
<1>1. /\ Calculated' = Calculated /\ Variables' = Variables /\ Plain' = Plain
      /\ \A v : Operands(v)' = Operands(v)
  BY DEF Calculated, Variables, Plain, Operands, StatusOperands, HasStatus
<1>2. \A v : IsConstant(v)' <=> IsConstant(v)
  BY <1>1 DEF IsConstant
<1>3. \A v : Used(v)' <=> Used(v)
  BY <1>1 DEF Used
<1>4. \A v : Stays(v)' <=> Stays(v)
  BY <1>3 DEF Stays
<1>5. \A S : Whole(S)' <=> Whole(S)
  BY <1>1, <1>2, <1>4 DEF Whole
<1>6. \A v, w : Joined(v, w)' <=> Joined(v, w)
  BY <1>1, <1>5 DEF Joined
<1>7. \A v, w : Before(v, w)' <=> Before(v, w)
  BY DEF Before
<1> QED
  BY <1>1, <1>2, <1>3, <1>4, <1>6, <1>7

-----------------------------------------------------------------------------
(* Stacks.                                                                 *)

\* The setter of one more ParserVariable is entered.
LEMMA Pushed ==
    ASSUME NEW S, NEW stack \in Seq(S), NEW f \in S
    PROVE  /\ Append(stack, f) \in Seq(S) /\ Append(stack, f) # <<>>
           /\ Append(stack, f)[Len(Append(stack, f))] = f
           /\ Held(Append(stack, f)) = Held(stack) \cup {f.pv}
<1>1. /\ Append(stack, f) \in Seq(S) /\ Len(Append(stack, f)) = Len(stack) + 1
      /\ \A i \in 1..Len(stack) : Append(stack, f)[i] = stack[i]
      /\ Append(stack, f)[Len(stack) + 1] = f /\ Len(stack) \in Nat
  BY AppendProperties, LenProperties
<1>2. 1..(Len(stack) + 1) = 1..Len(stack) \cup {Len(stack) + 1}
  BY <1>1
<1>3. Held(Append(stack, f)) = Held(stack) \cup {f.pv}
  BY <1>1, <1>2 DEF Held
<1>4. Append(stack, f) # <<>>
  BY <1>1
<1> QED
  BY <1>1, <1>3, <1>4

\* The innermost setter is left.
LEMMA PoppedStack ==
    ASSUME NEW S, NEW stack \in Seq(S), stack # <<>>
    PROVE  /\ Popped(stack) \in Seq(S) /\ stack[Len(stack)] \in S
           /\ Held(stack) = Held(Popped(stack)) \cup {stack[Len(stack)].pv}
<1>1. Len(stack) \in Nat /\ Len(stack) >= 1
  BY EmptySeq, LenProperties
<1>2. PICK n \in Nat : Len(stack) = n + 1
  BY <1>1
<1>3. /\ Popped(stack) \in Seq(S) /\ Len(Popped(stack)) = n
      /\ \A i \in 1..n : Popped(stack)[i] = stack[i]
  BY <1>2, SubSeqProperties DEF Popped
<1>4. 1..(n + 1) = 1..n \cup {n + 1}
  OBVIOUS
<1>5. Held(stack) = Held(Popped(stack)) \cup {stack[n + 1].pv}
  BY <1>2, <1>3, <1>4 DEF Held
<1>6. stack[Len(stack)] \in S
  BY <1>1, ElementOfSeq
<1> QED
  BY <1>2, <1>3, <1>5, <1>6

\* The loop over m_notifiedVariables takes its next formula.
LEMMA NextNotified ==
    ASSUME NEW top \in Frames, top.todo # <<>>
    PROVE  /\ Head(top.todo) \in Calculated /\ top.pv \in Operands(Head(top.todo))
           /\ [top EXCEPT !.todo = Tail(@)] \in Frames /\ [top EXCEPT !.todo = Tail(@)].pv = top.pv
<1>1. /\ top \in [pv : Names, todo : Seq(Calculated)] /\ MayChange(top.pv)
      /\ \A j \in 1..Len(top.todo) : top.pv \in Operands(top.todo[j])
  BY DEF Frames
<1>2. PICK todo \in Seq(Calculated) : todo = top.todo
  BY <1>1
<1>3. /\ Head(todo) \in Calculated /\ Tail(todo) \in Seq(Calculated)
      /\ Len(todo) \in Nat \ {0} /\ Len(Tail(todo)) = Len(todo) - 1
      /\ \A j \in 1..Len(Tail(todo)) : Tail(todo)[j] = todo[j + 1]
  BY <1>2, HeadTailProperties, EmptySeq, LenProperties
<1>4. top.pv \in Operands(Head(todo))
  <2>1. 1 \in 1..Len(todo) /\ Head(todo) = todo[1]
    BY <1>2, <1>3
  <2> QED
    BY <1>1, <1>2, <2>1
<1>5. PICK g : g = [top EXCEPT !.todo = Tail(@)]
  OBVIOUS
<1>6. g.pv = top.pv /\ g.todo = Tail(todo) /\ g \in [pv : Names, todo : Seq(Calculated)]
  BY <1>1, <1>2, <1>3, <1>5
<1>7. \A j \in 1..Len(g.todo) : g.pv \in Operands(g.todo[j])
  <2>1. \A j \in 1..Len(Tail(todo)) : j + 1 \in 1..Len(todo)
    BY <1>3
  <2> QED
    BY <1>1, <1>2, <1>3, <1>6, <2>1
<1>8. g \in Frames
  BY <1>1, <1>6, <1>7 DEF Frames
<1> QED
  BY <1>2, <1>3, <1>4, <1>5, <1>6, <1>8, Zenon

-----------------------------------------------------------------------------
(* Steps of a setter.                                                      *)

\* Where a thread goes on after a nested setter has returned.
LEMMA ResumedGood ==
    ASSUME NEW stack \in Seq(Frames) PROVE GoodWork(Resumed(stack)) /\ Resumed(stack).stack = stack
  BY DEF GoodWork, Resumed, Idle, Work, Pcs

\* What a good state is depends on the configuration alone.
LEMMA SameRules ==
    ASSUME config' = config, DOMAIN work' = Threads, \A u \in Threads : GoodWork(work'[u])
    PROVE  WorkInv'
<1>1. Calculated' = Calculated /\ \A v : Operands(v)' = Operands(v)
  BY DEF Calculated, Operands, StatusOperands, HasStatus
<1>2. \A v : MayChange(v)' <=> MayChange(v)
  BY <1>1 DEF MayChange, IsConstant
<1>3. Frames' = Frames
  BY <1>1, <1>2 DEF Frames
<1>4. ASSUME NEW u \in Threads PROVE GoodWork(work[u])'
  <2>1. GoodWork(work'[u])
    OBVIOUS
  <2>2. \A v : v = work'[u].var => (MayChange(v)' <=> MayChange(v)) /\ Operands(v)' = Operands(v)
    BY <1>1, <1>2
  <2> QED
    BY <1>1, <1>3, <2>1, <2>2 DEF GoodWork, MayChange, IsConstant, Calculated, Operands,
                                  StatusOperands, HasStatus
<1> QED
  BY <1>4 DEF WorkInv

\* What one thread does keeps the invariant if its new state is good and it has
\* entered no setter, or one whose synchronizer nobody else owns.
LEMMA ThreadStep ==
    ASSUME Inv, phase = "running", UNCHANGED graphVars, NEW t \in Threads, NEW w,
           work' = [work EXCEPT ![t] = w], GoodWork(w),
           \/ Held(w.stack) \subseteq Held(work[t].stack)
           \/ \E v : Held(w.stack) = Held(work[t].stack) \cup {v} /\ Acquired(t, sync[v])
    PROVE  Inv'
<1>1. /\ config' = config /\ sync' = sync /\ notified' = notified /\ phase' = phase
      /\ DOMAIN work' = Threads /\ work'[t] = w /\ \A u \in Threads : u # t => work'[u] = work[u]
  BY DEF graphVars, Inv, WorkInv
<1>2. NotifiedInv'
  BY <1>1 DEF Inv, NotifiedInv, Calculated, Operands, StatusOperands, HasStatus
<1>3. \A u \in Threads : GoodWork(work'[u])
  BY <1>1 DEF Inv, WorkInv
<1>4. WorkInv'
  BY <1>1, <1>3, SameRules
<1>5. \A u \in Threads \ {t} : \A v \in Held(w.stack), x \in Held(work[u].stack) :
         sync[v] # None => sync[v] # sync[x]
  <2> SUFFICES ASSUME NEW u \in Threads \ {t}, NEW v \in Held(w.stack), NEW x \in Held(work[u].stack),
                      sync[v] # None
               PROVE  sync[v] # sync[x]
    OBVIOUS
  <2>1. CASE v \in Held(work[t].stack)
    BY <2>1 DEF Inv, ExclusiveInv
  <2>2. CASE Acquired(t, sync[v])
    BY <2>2 DEF Acquired, Owns, Held
  <2> QED
    BY <2>1, <2>2
<1>6. ExclusiveInv'
  <2> SUFFICES ASSUME NEW r \in Threads, NEW u \in Threads, r # u,
                      NEW v \in Held(work'[r].stack), NEW x \in Held(work'[u].stack), sync[v] # None
               PROVE  sync[v] # sync[x]
    BY <1>1 DEF ExclusiveInv, Held
  <2>1. CASE r = t
    BY <1>1, <1>5, <2>1
  <2>2. CASE u = t
    BY <1>1, <1>5, <2>2
  <2>3. CASE r # t /\ u # t
    BY <1>1, <2>3 DEF Inv, ExclusiveInv
  <2> QED
    BY <2>1, <2>2, <2>3
<1>7. QuietInv' /\ config' \in Configurations
  BY <1>1 DEF QuietInv, Inv
<1> QED
  BY <1>2, <1>4, <1>6, <1>7 DEF Inv

\* A thread inside a setter: the start-up has ended.
LEMMA BusyRunning == ASSUME Inv, NEW t \in Threads, work[t].pc # "idle" PROVE phase = "running"
  BY DEF Inv, QuietInv, Idle, Work

\* A store into the address space, from outside or of a result.
LEMMA StoredGood ==
    ASSUME Inv, phase = "running", UNCHANGED graphVars, NEW t \in Threads, NEW v \in Names, NEW d,
           MayChange(v), Stored(t, v, d, work[t].stack)
    PROVE  Inv'
<1>1. PICK stack : stack = work[t].stack
  OBVIOUS
<1>2. PICK w : w = IF Kept(v) THEN Work("listen", stack, v, d) ELSE Resumed(stack)
  OBVIOUS
<1>3. work' = [work EXCEPT ![t] = w]
  BY <1>1, <1>2 DEF Stored
<1>4. stack \in Seq(Frames)
  BY <1>1 DEF Inv, WorkInv, GoodWork
<1>5. GoodWork(w) /\ w.stack = stack
  <2>1. CASE Kept(v)
    BY <1>2, <1>4, <2>1 DEF GoodWork, Work, Pcs
  <2>2. CASE ~Kept(v)
    BY <1>2, <1>4, <2>2, ResumedGood
  <2> QED
    BY <2>1, <2>2
<1> QED
  BY <1>1, <1>3, <1>5, ThreadStep

\* The states of the operands are read: the calculation is on its way.
LEMMA StartGood ==
    ASSUME Inv, phase = "running", UNCHANGED graphVars, NEW t \in Threads, NEW cv \in Calculated,
           NEW stack \in Seq(Frames), Held(stack) \subseteq Held(work[t].stack),
           cv \in config.manual \/ (stack # <<>> /\ stack[Len(stack)].pv \in Operands(cv)),
           StartCalculation(t, cv, stack)
    PROVE  Inv'
<1>1. PICK w : w = IF NotGood(cv) # {} THEN Work("publish", stack, cv, Propagated(cv))
                                      ELSE Work("evaluate", stack, cv, Waiting)
  OBVIOUS
<1>2. work' = [work EXCEPT ![t] = w]
  BY <1>1 DEF StartCalculation
<1>3. w.stack = stack /\ w.var = cv /\ w.pc \in {"evaluate", "publish"}
  BY <1>1 DEF Work
<1>4. GoodWork(w)
  BY <1>3 DEF GoodWork, Pcs
<1> QED
  BY <1>2, <1>3, <1>4, ThreadStep

-----------------------------------------------------------------------------
(* Start-up.                                                               *)

\* parserVariableRequestHandler registers a formula with its operands only.
LEMMA AskedFormulas ==
    ASSUME NEW cv \in Calculated, NEW v
    PROVE  /\ Asked(cv, v) \in Seq(Calculated)
           /\ \A i \in 1..Len(Asked(cv, v)) : Asked(cv, v)[i] = cv /\ v \in Operands(cv)
<1>1. PICK A, B : /\ A = IF v \in Range(config.value[cv]) THEN <<cv>> ELSE <<>>
                  /\ B = IF v \in Range(StatusOperands(cv)) THEN <<cv>> ELSE <<>>
  OBVIOUS
<1>2. /\ A \in Seq(Calculated) /\ Len(A) \in Nat
      /\ \A i \in 1..Len(A) : A[i] = cv /\ v \in Operands(cv)
  BY <1>1 DEF Operands
<1>3. /\ B \in Seq(Calculated) /\ Len(B) \in Nat
      /\ \A i \in 1..Len(B) : B[i] = cv /\ v \in Operands(cv)
  BY <1>1 DEF Operands
<1>4. Asked(cv, v) = A \o B
  BY <1>1 DEF Asked
<1>5. /\ A \o B \in Seq(Calculated) /\ Len(A \o B) = Len(A) + Len(B)
      /\ \A i \in 1..(Len(A) + Len(B)) : (A \o B)[i] = IF i <= Len(A) THEN A[i] ELSE B[i - Len(A)]
  BY <1>2, <1>3, ConcatProperties
<1>6. \A i \in 1..(Len(A) + Len(B)) : i <= Len(A) => i \in 1..Len(A)
  BY <1>2, <1>3
<1>7. \A i \in 1..(Len(A) + Len(B)) : ~(i <= Len(A)) => i - Len(A) \in 1..Len(B)
  BY <1>2, <1>3
<1>8. \A i \in 1..Len(A \o B) : (A \o B)[i] = cv /\ v \in Operands(cv)
  BY <1>2, <1>3, <1>5, <1>6, <1>7
<1> QED
  BY <1>4, <1>5, <1>8

\* A new formula is appended to the lists of its operands.
LEMMA NotifiedGrows ==
    ASSUME NotifiedInv, NEW cv \in Calculated, UNCHANGED config,
           notified' = [v \in Names |-> notified[v] \o Asked(cv, v)]
    PROVE  NotifiedInv'
<1>2. ASSUME NEW v \in Names
      PROVE  /\ notified'[v] \in Seq(Calculated)
             /\ \A i \in 1..Len(notified'[v]) : v \in Operands(notified'[v][i])
  <2>1. PICK A, B : A = notified[v] /\ B = Asked(cv, v)
    OBVIOUS
  <2>2. A \in Seq(Calculated) /\ Len(A) \in Nat /\ \A i \in 1..Len(A) : v \in Operands(A[i])
    BY <2>1, LenProperties DEF NotifiedInv
  <2>3. B \in Seq(Calculated) /\ Len(B) \in Nat /\ \A i \in 1..Len(B) : v \in Operands(B[i])
    BY <2>1, AskedFormulas, LenProperties
  <2>4. notified'[v] = A \o B
    BY <2>1
  <2>5. /\ A \o B \in Seq(Calculated) /\ Len(A \o B) = Len(A) + Len(B)
        /\ \A i \in 1..(Len(A) + Len(B)) : (A \o B)[i] = IF i <= Len(A) THEN A[i] ELSE B[i - Len(A)]
    BY <2>2, <2>3, ConcatProperties
  <2>6. \A i \in 1..(Len(A) + Len(B)) : i <= Len(A) => i \in 1..Len(A)
    BY <2>2, <2>3
  <2>7. \A i \in 1..(Len(A) + Len(B)) : ~(i <= Len(A)) => i - Len(A) \in 1..Len(B)
    BY <2>2, <2>3
  <2>8. \A i \in 1..Len(A \o B) : v \in Operands((A \o B)[i])
    BY <2>2, <2>3, <2>5, <2>6, <2>7
  <2> QED
    BY <2>4, <2>5, <2>8
<1>3. notified' \in [Names -> Seq(Calculated)]
  BY <1>2
<1> QED
  BY <1>2, <1>3 DEF NotifiedInv, Calculated, Operands, StatusOperands, HasStatus

\* While the start-up thread works no setter runs.
LEMMA StartUpStep == ASSUME Inv, StartUp PROVE Inv'
<1>1. phase # "running" /\ UNCHANGED <<config, work>>
  BY DEF StartUp, RegisterVariable, InstantiateCalculatedVariable, InstantiateFails, Configured,
         Optimize, Optimized, SetupSynchronization, Synchronized, Configuring
<1>2. \A t \in Threads : work[t] = Idle /\ work'[t] = Idle
  BY <1>1 DEF Inv, QuietInv
<1>3. NotifiedInv'
  <2>1. ASSUME UNCHANGED notified PROVE NotifiedInv'
    BY <1>1, <2>1 DEF Inv, NotifiedInv, Calculated, Operands, StatusOperands, HasStatus
  <2>2. CASE InstantiateCalculatedVariable
    <3>1. PICK cv \in Calculated : cv = Next1
      BY <2>2 DEF InstantiateCalculatedVariable
    <3>2. notified' = [v \in Names |-> notified[v] \o Asked(cv, v)]
      BY <2>2, <3>1 DEF InstantiateCalculatedVariable
    <3> QED
      BY <1>1, <3>2, NotifiedGrows DEF Inv
  <2> QED
    BY <2>1, <2>2 DEF StartUp, RegisterVariable, InstantiateFails, Configured, Optimize, Optimized,
                      SetupSynchronization, Synchronized
<1>4. WorkInv'
  <2>1. DOMAIN work' = Threads /\ \A u \in Threads : GoodWork(work'[u])
    BY <1>1 DEF Inv, WorkInv
  <2> QED
    BY <1>1, <2>1, SameRules
<1>5. ExclusiveInv'
  <2>1. \A t \in Threads : Held(work'[t].stack) = {}
    BY <1>2 DEF Held, Idle, Work
  <2> QED
    BY <2>1 DEF ExclusiveInv, Held
<1> QED
  BY <1>1, <1>2, <1>3, <1>4, <1>5 DEF Inv, QuietInv

\* Every step of every thread keeps the invariant.
LEMMA InvStep == Inv /\ [Next]_vars => Inv'
<1> SUFFICES ASSUME Inv, [Next]_vars PROVE Inv'
  OBVIOUS
<1>0. Calculated \subseteq Names /\ config.manual \subseteq Calculated
  BY ConfigurationFacts DEF Inv
<1>1. CASE StartUp
  BY <1>1, StartUpStep
<1>2. ASSUME NEW t \in Threads, NEW v \in Names, NEW d \in Data, SetValue(t, v, d) PROVE Inv'
  <2>1. phase = "running" /\ UNCHANGED graphVars /\ Stored(t, v, d, <<>>) /\ v \notin Calculated
    BY <1>2 DEF SetValue, Plain
  <2>2. MayChange(v)
    BY <2>1 DEF MayChange, IsConstant
  <2>3. PICK w : w = IF Kept(v) THEN Work("listen", <<>>, v, d) ELSE Resumed(<<>>)
    OBVIOUS
  <2>4. work' = [work EXCEPT ![t] = w]
    BY <2>1, <2>3 DEF Stored
  <2>5. GoodWork(w) /\ w.stack = <<>>
    BY <2>2, <2>3 DEF GoodWork, Work, Pcs, Resumed, Idle
  <2>6. Held(w.stack) \subseteq Held(work[t].stack)
    BY <2>5 DEF Held
  <2> QED
    BY <2>1, <2>4, <2>5, <2>6, ThreadStep
<1>3. ASSUME NEW t \in Threads, Listen(t) PROVE Inv'
  <2>1. PICK v \in Names, stack \in Seq(Frames) :
            v = work[t].var /\ stack = work[t].stack /\ MayChange(v)
    BY <1>3 DEF Listen, Inv, WorkInv, GoodWork
  <2>2. PICK f : f = [pv |-> v, todo |-> notified[v]]
    OBVIOUS
  <2>3. f \in Frames
    BY <2>1, <2>2 DEF Frames, Inv, NotifiedInv
  <2>4. PICK w : w = Work("notify", Append(stack, f), None, Waiting)
    OBVIOUS
  <2>5. work' = [work EXCEPT ![t] = w] /\ Acquired(t, sync[v]) /\ UNCHANGED graphVars
    BY <1>3, <2>1, <2>2, <2>4 DEF Listen
  <2>6. /\ Append(stack, f) \in Seq(Frames) /\ Append(stack, f) # <<>>
        /\ Held(Append(stack, f)) = Held(stack) \cup {f.pv}
    BY <2>1, <2>3, Pushed
  <2>7. w.pc = "notify" /\ w.stack = Append(stack, f)
    BY <2>4 DEF Work
  <2>8. GoodWork(w)
    BY <2>6, <2>7 DEF GoodWork, Pcs
  <2>9. Held(w.stack) = Held(work[t].stack) \cup {v}
    BY <2>1, <2>2, <2>6, <2>7
  <2>10. phase = "running"
    BY <1>3, BusyRunning DEF Listen
  <2> QED
    BY <2>5, <2>8, <2>9, <2>10, ThreadStep
<1>4. ASSUME NEW t \in Threads, Update(t) PROVE Inv'
  <2>1. PICK stack \in Seq(Frames) : stack = work[t].stack /\ stack # <<>>
    BY <1>4 DEF Update, Inv, WorkInv, GoodWork
  <2>2. PICK top, rest : /\ top = stack[Len(stack)]
                         /\ rest = Append(Popped(stack), [top EXCEPT !.todo = Tail(@)])
    OBVIOUS
  <2>3. PICK cv : cv = Head(top.todo)
    OBVIOUS
  <2>4. /\ top.todo # <<>> /\ UNCHANGED graphVars
        /\ IF auto[cv] THEN StartCalculation(t, cv, rest)
                       ELSE work' = [work EXCEPT ![t] = Resumed(rest)]
    BY <1>4, <2>1, <2>2, <2>3 DEF Update, Top
  <2>5. /\ cv \in Calculated /\ rest \in Seq(Frames) /\ rest # <<>>
        /\ rest[Len(rest)].pv \in Operands(cv) /\ Held(rest) \subseteq Held(work[t].stack)
    <3>1. PICK under \in Seq(Frames) : /\ under = Popped(stack) /\ top \in Frames
                                       /\ Held(stack) = Held(under) \cup {top.pv}
      BY <2>1, <2>2, PoppedStack
    <3>2. PICK g \in Frames : g = [top EXCEPT !.todo = Tail(@)] /\ g.pv = top.pv
      BY <2>4, <3>1, NextNotified, Zenon
    <3>3. cv \in Calculated /\ top.pv \in Operands(cv)
      BY <2>3, <2>4, <3>1, NextNotified, Zenon
    <3>4. /\ Append(under, g) \in Seq(Frames) /\ Append(under, g) # <<>>
          /\ Append(under, g)[Len(Append(under, g))] = g
          /\ Held(Append(under, g)) = Held(under) \cup {g.pv}
      BY Pushed
    <3>5. rest = Append(under, g)
      BY <2>2, <3>1, <3>2, Zenon
    <3> QED
      BY <2>1, <3>1, <3>2, <3>3, <3>4, <3>5, Zenon
  <2>6. phase = "running"
    BY <1>4, BusyRunning DEF Update
  <2>7. CASE auto[cv]
    BY <2>4, <2>5, <2>6, <2>7, StartGood
  <2>8. CASE ~auto[cv]
    <3>1. PICK w : w = Resumed(rest)
      OBVIOUS
    <3>2. work' = [work EXCEPT ![t] = w] /\ GoodWork(w) /\ w.stack = rest
      BY <2>4, <2>5, <2>8, <3>1, ResumedGood
    <3> QED
      BY <2>4, <2>5, <2>6, <3>2, ThreadStep
  <2> QED
    BY <2>7, <2>8
<1>5. ASSUME NEW t \in Threads, Evaluate(t) PROVE Inv'
  <2>1. PICK w : w = Work("publish", work[t].stack, work[t].var, Evaluated(work[t].var))
    OBVIOUS
  <2>2. work' = [work EXCEPT ![t] = w] /\ UNCHANGED graphVars
    BY <1>5, <2>1 DEF Evaluate, Inv, WorkInv
  <2>3. GoodWork(w) /\ w.stack = work[t].stack
    BY <1>5, <2>1 DEF Evaluate, Inv, WorkInv, GoodWork, Work, Pcs
  <2>4. phase = "running"
    BY <1>5, BusyRunning DEF Evaluate
  <2> QED
    BY <2>2, <2>3, <2>4, ThreadStep
<1>6. ASSUME NEW t \in Threads, Publish(t) PROVE Inv'
  <2>1. PICK v \in Calculated : /\ v = work[t].var
                                /\ \/ v \in config.manual
                                   \/ \E u : u \in Operands(v)
    BY <1>6 DEF Publish, Inv, WorkInv, GoodWork
  <2>2. MayChange(v)
    BY <2>1 DEF MayChange, IsConstant
  <2>3. Stored(t, v, work[t].data, work[t].stack) /\ UNCHANGED graphVars
    BY <1>6, <2>1 DEF Publish
  <2>4. phase = "running"
    BY <1>6, BusyRunning DEF Publish
  <2> QED
    BY <1>0, <2>2, <2>3, <2>4, StoredGood
<1>7. ASSUME NEW t \in Threads, Return(t) PROVE Inv'
  <2>1. PICK stack \in Seq(Frames) : stack = work[t].stack /\ stack # <<>>
    BY <1>7 DEF Return, Inv, WorkInv, GoodWork
  <2>2. Popped(stack) \in Seq(Frames) /\ Held(Popped(stack)) \subseteq Held(stack)
    BY <2>1, PoppedStack
  <2>3. PICK w : w = Resumed(Popped(stack))
    OBVIOUS
  <2>4. GoodWork(w) /\ w.stack = Popped(stack)
    BY <2>2, <2>3, ResumedGood
  <2>5. work' = [work EXCEPT ![t] = w] /\ UNCHANGED graphVars
    BY <1>7, <2>1, <2>3 DEF Return, Inv, WorkInv
  <2>6. phase = "running"
    BY <1>7, BusyRunning DEF Return
  <2> QED
    BY <2>1, <2>2, <2>4, <2>5, <2>6, ThreadStep
<1>8. ASSUME NEW t \in Threads, NEW cv \in Names, TriggerRecalculation(t, cv) PROVE Inv'
  <2>1. /\ phase = "running" /\ UNCHANGED graphVars /\ cv \in config.manual
        /\ StartCalculation(t, cv, <<>>)
    BY <1>8 DEF TriggerRecalculation
  <2>2. <<>> \in Seq(Frames) /\ Held(<<>>) \subseteq Held(work[t].stack)
    BY DEF Held
  <2> QED
    BY <1>0, <2>1, <2>2, StartGood
<1>9. CASE UNCHANGED vars \/ \E cv \in Names : SetAutoUpdate(cv)
  <2>1. UNCHANGED <<config, phase, notified, sync, work>>
    BY <1>9 DEF vars, SetAutoUpdate, graphVars
  <2>2. NotifiedInv'
    BY <2>1 DEF Inv, NotifiedInv, Calculated, Operands, StatusOperands, HasStatus
  <2>3. WorkInv'
    <3>1. DOMAIN work' = Threads /\ \A u \in Threads : GoodWork(work'[u])
      BY <2>1 DEF Inv, WorkInv
    <3> QED
      BY <2>1, <3>1, SameRules
  <2>4. QuietInv' /\ config' \in Configurations
    BY <2>1 DEF Inv, QuietInv
  <2>5. ExclusiveInv'
    BY <2>1 DEF Inv, ExclusiveInv, Held
  <2> QED
    BY <2>2, <2>3, <2>4, <2>5 DEF Inv
<1> QED
  BY <1>1, <1>2, <1>3, <1>4, <1>5, <1>6, <1>7, <1>8, <1>9 DEF Next, Setter

-----------------------------------------------------------------------------
(* The graph that start-up builds.                                         *)

\* The variables configure() has dealt with.
Registered == IF phase \in {"configuring", "failed"} THEN Range(pvs) ELSE Variables

\* How far the loops over s_parserVariables are.
PvsInv ==
    /\ pvs \in Seq(Names)
    /\ phase \in {"configuring", "failed"} =>
        Len(pvs) <= Len(config.order) /\ \A i \in 1..Len(pvs) : pvs[i] = config.order[i]
    /\ phase = "optimizing" =>
        /\ it \in 1..(Len(pvs) + 1) /\ Range(pvs) \subseteq Variables
        /\ \A v \in Variables : ~Unused(v) => Kept(v)
        /\ \A i \in 1..(it - 1) : ~Unused(pvs[i])
    /\ phase \in {"synchronizing", "running"} =>
        it \in 0..Len(pvs) /\ \A v \in Names : Kept(v) <=> v \in Variables /\ ~Unused(v)
    /\ phase = "running" => it = 0

\* A registered formula is known to its operands, which were there before.
FormulaInv ==
    \A cv \in Calculated \cap Registered :
        /\ Operands(cv) \subseteq Registered
        /\ \A v \in Operands(cv) : Before(v, cv) /\ cv \in Range(notified[v])

\* Between two searches: a synchronizer never ends inside a connected part, is
\* named after a variable of that part, and is there for the variables that
\* the loop has passed.
SyncInv ==
    /\ sync \in [Names -> Names \cup {None}]
    /\ phase \notin {"synchronizing", "running"} => \A v \in Names : sync[v] = None
    /\ \A v \in Names : sync[v] # None =>
        sync[v] \in Variables /\ sync[sync[v]] = sync[v] /\ Joined(sync[v], v) /\ ~IsConstant(v)
    /\ phase \in {"synchronizing", "running"} =>
        /\ \A cv \in Calculated : Stays(cv) =>
            \A v \in Operands(cv) : ~IsConstant(v) => sync[v] = sync[cv]
        /\ \A i \in 1..Len(pvs) : i > it => ~NeedsSynchronizer(pvs[i])

GraphInv == PvsInv /\ FormulaInv /\ SyncInv

\* Once the server is configured, m_notifiedVariables of a variable are the
\* formulas that use it, so that what optimize keeps is what stays.
LEMMA NotifiedFormulas ==
    ASSUME Inv, FormulaInv, phase \notin {"configuring", "failed"}, NEW v \in Names
    PROVE  /\ \A cv : cv \in Range(notified[v]) <=> cv \in Calculated /\ v \in Operands(cv)
           /\ notified[v] # <<>> <=> Used(v)
           /\ Unused(v) <=> ~Stays(v)
           /\ \A cv \in Calculated : Operands(cv) \subseteq Variables
<1>1. /\ notified[v] \in Seq(Calculated)
      /\ \A i \in 1..Len(notified[v]) : v \in Operands(notified[v][i])
  BY DEF Inv, NotifiedInv
<1>2. Registered = Variables /\ Calculated \subseteq Variables
  BY ConfigurationFacts DEF Registered, Inv
<1>3. /\ \A cv \in Range(notified[v]) : \E i \in 1..Len(notified[v]) : notified[v][i] = cv
      /\ \A i \in 1..Len(notified[v]) : notified[v][i] \in Range(notified[v])
  BY <1>1, SeqElements
<1>4. Range(notified[v]) \subseteq Calculated /\ Len(notified[v]) \in Nat
  BY <1>1, SeqElements, LenProperties
<1>5. \A cv : cv \in Range(notified[v]) <=> cv \in Calculated /\ v \in Operands(cv)
  BY <1>1, <1>2, <1>3, <1>4 DEF FormulaInv
<1>6. notified[v] # <<>> <=> \E cv : cv \in Range(notified[v])
  <2>1. notified[v] # <<>> <=> Len(notified[v]) # 0
    BY <1>1, EmptySeq, LenProperties
  <2>2. PICK n \in Nat : n = Len(notified[v])
    BY <1>4
  <2>3. (n # 0 => 1 \in 1..n) /\ (\A i \in 1..n : n # 0)
    OBVIOUS
  <2> QED
    BY <1>3, <2>1, <2>2, <2>3, Zenon
<1>7. notified[v] # <<>> <=> Used(v)
  BY <1>5, <1>6 DEF Used
<1> QED
  BY <1>2, <1>5, <1>7 DEF Unused, Stays, FormulaInv

\* What a search sees: after optimize, the graph of the formulas.
LEMMA NeighboursAreEdges ==
    ASSUME Inv, GraphInv, phase = "synchronizing", NEW v \in Variables
    PROVE  /\ Neighbours(v) \subseteq Variables
           /\ \A u : u \in Neighbours(v) <=>
                \/ v \in Calculated /\ u \in Operands(v)
                \/ u \in Calculated /\ v \in Operands(u) /\ Stays(u)
<1>1. Variables \subseteq Names /\ Calculated \subseteq Variables
  BY ConfigurationFacts DEF Inv
<1>2. \A u \in Names : Kept(u) <=> u \in Variables /\ Stays(u)
  BY NotifiedFormulas DEF GraphInv, PvsInv
<1>3. \A u : u \in Range(notified[v]) <=> u \in Calculated /\ v \in Operands(u)
  BY <1>1, NotifiedFormulas DEF GraphInv
<1>4. \A u \in Calculated : Operands(u) \subseteq Variables
  BY <1>1, NotifiedFormulas DEF GraphInv
<1> QED
  BY <1>1, <1>2, <1>3, <1>4 DEF Neighbours

\* One search, from a variable that needs a synchronizer: it stays where none
\* was, goes across an edge from either end, and leaves no connected part.
LEMMA Search ==
    ASSUME Inv, GraphInv, phase = "synchronizing", NEW v \in Variables, NeedsSynchronizer(v)
    PROVE  /\ v \in Reached(v)
           /\ \A u \in Reached(v) : u \in Variables /\ sync[u] = None /\ ~IsConstant(u) /\ Joined(v, u)
           /\ \A cv \in Calculated : Stays(cv) =>
                \A a \in Operands(cv) : ~IsConstant(a) => (a \in Reached(v) <=> cv \in Reached(v))
<1> DEFINE Fresh == {u \in Variables : sync[u] = None /\ ~IsConstant(u) /\ Stays(u)}
           Closed(S) == \A w \in S : Open(w) \subseteq S
<1>1. Variables \subseteq Names /\ Calculated \subseteq Variables
  BY ConfigurationFacts DEF Inv
<1>2. v \in Fresh
  BY <1>1, NotifiedFormulas DEF NeedsSynchronizer, Stays, GraphInv
<1>3. ASSUME NEW w \in Fresh, NEW x \in Open(w)
      PROVE  /\ x \in Fresh /\ x \in Names
             /\ \/ w \in Calculated /\ x \in Operands(w)
                \/ x \in Calculated /\ w \in Operands(x)
  <2>1. x \in Neighbours(w) /\ sync[x] = None /\ ~IsConstant(x)
    BY <1>3 DEF Open
  <2>2. /\ x \in Variables
        /\ \/ w \in Calculated /\ x \in Operands(w)
           \/ x \in Calculated /\ w \in Operands(x) /\ Stays(x)
    BY <2>1, NeighboursAreEdges
  <2>3. Stays(x)
    BY <2>2 DEF Stays, Used
  <2> QED
    BY <1>1, <2>1, <2>2, <2>3
<1>4. v \in Names /\ Fresh \in SUBSET Names /\ Closed(Fresh)
  BY <1>1, <1>3
<1>5. \A S \in SUBSET Names : v \in S /\ Closed(S) => Reached(v) \subseteq S
  BY DEF Reached
<1>6. v \in Reached(v) /\ Reached(v) \subseteq Fresh
  BY <1>2, <1>4, <1>5 DEF Reached
<1>7. Closed(Reached(v))
  <2> SUFFICES ASSUME NEW w \in Reached(v), NEW x \in Open(w) PROVE x \in Reached(v)
    OBVIOUS
  <2>1. x \in Names
    BY <1>3, <1>6
  <2>2. \A S \in SUBSET Names : v \in S /\ Closed(S) => x \in S
    BY <1>5
  <2> QED
    BY <2>1, <2>2 DEF Reached
<1>8. ASSUME NEW u \in Reached(v) PROVE Joined(v, u)
  <2> SUFFICES ASSUME NEW S \in SUBSET Variables, v \in S, u \notin S, Whole(S) PROVE FALSE
    BY DEF Joined
  <2>1. ASSUME NEW w \in S \cap Fresh, NEW x \in Open(w) PROVE x \in S \cap Fresh
    BY <1>3, <2>1 DEF Whole
  <2>2. S \cap Fresh \in SUBSET Names /\ v \in S \cap Fresh /\ Closed(S \cap Fresh)
    BY <1>1, <1>2, <2>1
  <2> QED
    BY <1>5, <2>2
<1>9. ASSUME NEW cv \in Calculated, Stays(cv), NEW a \in Operands(cv), ~IsConstant(a)
      PROVE  a \in Reached(v) <=> cv \in Reached(v)
  <2>1. ~IsConstant(cv) /\ sync[a] = sync[cv] /\ cv \in Variables
    BY <1>1, <1>9 DEF IsConstant, GraphInv, SyncInv
  <2>2. a \in Variables
    BY <1>1, NotifiedFormulas DEF GraphInv
  <2>3. a \in Reached(v) => cv \in Reached(v)
    <3>1. cv \in Neighbours(a)
      BY <1>9, <2>2, NeighboursAreEdges
    <3> QED
      BY <1>6, <1>7, <2>1, <3>1 DEF Open
  <2>4. cv \in Reached(v) => a \in Reached(v)
    <3>1. a \in Neighbours(cv)
      BY <1>9, <2>1, NeighboursAreEdges
    <3> QED
      BY <1>6, <1>7, <1>9, <2>1, <3>1 DEF Open
  <2> QED
    BY <2>3, <2>4
<1> QED
  BY <1>6, <1>8, <1>9

\* setupSynchronization, one round.
LEMMA SyncStep == ASSUME Inv, GraphInv, SetupSynchronization PROVE SyncInv'
<1>1. /\ phase = "synchronizing" /\ phase' = phase /\ it > 0 /\ it' = it - 1
      /\ config' = config /\ pvs' = pvs /\ notified' = notified
  BY DEF SetupSynchronization
<1>2. pvs \in Seq(Names) /\ it \in 1..Len(pvs) /\ Len(pvs) \in Nat
  BY <1>1, LenProperties DEF GraphInv, PvsInv
<1>3. PICK v \in Names : v = pvs[it]
  BY <1>2, ElementOfSeq
<1>4. \A i \in 1..Len(pvs) : i > it - 1 => i > it \/ i = it
  BY <1>2
<1>5. CASE ~NeedsSynchronizer(v)
  <2>1. sync' = sync
    BY <1>3, <1>5 DEF SetupSynchronization
  <2>2. \A i \in 1..Len(pvs) : i > it - 1 => ~NeedsSynchronizer(pvs[i])
    BY <1>1, <1>3, <1>4, <1>5 DEF GraphInv, SyncInv
  <2>3. \A x : NeedsSynchronizer(x)' <=> NeedsSynchronizer(x)
    BY <1>1, <2>1, SameGraph DEF NeedsSynchronizer
  <2> QED
    BY <1>1, <2>1, <2>2, <2>3, SameGraph DEF GraphInv, SyncInv
<1>6. CASE NeedsSynchronizer(v)
  <2>1. sync' = [u \in Names |-> IF u \in Reached(v) THEN v ELSE sync[u]]
    BY <1>3, <1>6 DEF SetupSynchronization
  <2>2. v \in Variables
    <3>1. Kept(v)
      BY <1>2, <1>3, SeqElements DEF Kept
    <3> QED
      BY <1>1, <3>1 DEF GraphInv, PvsInv
  <2>3. /\ v \in Reached(v)
        /\ \A u \in Reached(v) : u \in Variables /\ sync[u] = None /\ ~IsConstant(u) /\ Joined(v, u)
        /\ \A cv \in Calculated : Stays(cv) =>
             \A a \in Operands(cv) : ~IsConstant(a) => (a \in Reached(v) <=> cv \in Reached(v))
    BY <1>1, <1>6, <2>2, Search
  <2>4. /\ sync \in [Names -> Names \cup {None}]
        /\ \A cv \in Calculated : Stays(cv) =>
             \A a \in Operands(cv) : ~IsConstant(a) => sync[a] = sync[cv]
        /\ \A u \in Names : sync[u] # None =>
             sync[u] \in Variables /\ sync[sync[u]] = sync[u] /\ Joined(sync[u], u) /\ ~IsConstant(u)
    BY <1>1 DEF GraphInv, SyncInv
  <2>5. v # None
    BY NoneAssumption
  <2>6. Variables \subseteq Names /\ Calculated \subseteq Variables
        /\ \A cv \in Calculated : Operands(cv) \subseteq Variables
    BY <1>1, ConfigurationFacts, NotifiedFormulas DEF Inv, GraphInv
  <2>7. sync' \in [Names -> Names \cup {None}]
    BY <2>1, <2>4
  <2>8. \A cv \in Calculated : Stays(cv) =>
            \A a \in Operands(cv) : ~IsConstant(a) => sync'[a] = sync'[cv]
    BY <2>1, <2>3, <2>4, <2>6
  <2>9. ASSUME NEW u \in Names, sync'[u] # None
        PROVE  /\ sync'[u] \in Variables /\ sync'[sync'[u]] = sync'[u] /\ Joined(sync'[u], u)
               /\ ~IsConstant(u)
    <3>1. CASE u \in Reached(v)
      BY <2>1, <2>2, <2>3, <3>1
    <3>2. CASE u \notin Reached(v)
      BY <2>1, <2>3, <2>4, <2>6, <2>9, <3>2
    <3> QED
      BY <3>1, <3>2
  <2>10. \A x \in Names : sync'[x] = None => sync[x] = None /\ x # v
    BY <2>1, <2>3, <2>5
  <2>11. \A i \in 1..Len(pvs) : i > it - 1 => ~NeedsSynchronizer(pvs[i])'
    <3> SUFFICES ASSUME NEW i \in 1..Len(pvs), i > it - 1 PROVE ~NeedsSynchronizer(pvs[i])'
      OBVIOUS
    <3>1. pvs[i] \in Names
      BY <1>2, ElementOfSeq
    <3>2. CASE i = it
      BY <1>1, <1>3, <2>10, <3>1, <3>2 DEF NeedsSynchronizer
    <3>3. CASE i > it
      <4>1. ~NeedsSynchronizer(pvs[i])
        BY <1>1, <3>3 DEF GraphInv, SyncInv
      <4> QED
        BY <1>1, <2>10, <3>1, <4>1, SameGraph DEF NeedsSynchronizer
    <3> QED
      BY <1>4, <3>2, <3>3
  <2>12. \A a, b : Joined(a, b)' <=> Joined(a, b)
    BY <1>1, SameGraph
  <2> QED
    BY <1>1, <2>7, <2>8, <2>9, <2>11, <2>12, SameGraph DEF SyncInv
<1> QED
  BY <1>5, <1>6

\* s_parserVariables without one element.
LEMMA ErasedElements ==
    ASSUME NEW s \in Seq(Names), NEW i \in 1..Len(s)
    PROVE  /\ Erased(s, i) \in Seq(Names) /\ Len(Erased(s, i)) = Len(s) - 1
           /\ \A j \in 1..(i - 1) : Erased(s, i)[j] = s[j]
           /\ \A j \in i..(Len(s) - 1) : Erased(s, i)[j] = s[j + 1]
           /\ Range(Erased(s, i)) \subseteq Range(s)
           /\ \A x \in Range(s) : x # s[i] => x \in Range(Erased(s, i))
<1>1. Len(s) \in Nat /\ i \in Int
  BY LenProperties
<1>2. PICK A, B : A = SubSeq(s, 1, i - 1) /\ B = SubSeq(s, i + 1, Len(s))
  OBVIOUS
<1>3. A \in Seq(Names) /\ Len(A) = i - 1 /\ \A j \in 1..(i - 1) : A[j] = s[j]
  BY <1>1, <1>2, SubSeqProperties
<1>4. B \in Seq(Names) /\ Len(B) = Len(s) - i /\ \A j \in 1..(Len(s) - i) : B[j] = s[i + j]
  BY <1>1, <1>2, SubSeqProperties
<1>5. PICK E : E = Erased(s, i)
  OBVIOUS
<1>6. /\ E \in Seq(Names) /\ Len(E) = Len(s) - 1
      /\ \A j \in 1..(Len(s) - 1) : E[j] = IF j <= i - 1 THEN A[j] ELSE B[j - (i - 1)]
  <2>1. E = A \o B
    BY <1>2, <1>5 DEF Erased
  <2>2. /\ A \o B \in Seq(Names) /\ Len(A \o B) = Len(A) + Len(B)
        /\ \A j \in 1..(Len(A) + Len(B)) : (A \o B)[j] = IF j <= Len(A) THEN A[j] ELSE B[j - Len(A)]
    BY <1>3, <1>4, ConcatProperties
  <2>3. Len(A) + Len(B) = Len(s) - 1
    BY <1>1, <1>3, <1>4
  <2> QED
    BY <1>3, <2>1, <2>2, <2>3
<1>7. \A j \in 1..(i - 1) : j \in 1..(Len(s) - 1) /\ E[j] = s[j]
  BY <1>1, <1>3, <1>6
<1>8. \A j \in i..(Len(s) - 1) : j \in 1..(Len(s) - 1) /\ E[j] = s[j + 1]
  BY <1>1, <1>4, <1>6
<1>9. ASSUME NEW x \in Range(E) PROVE x \in Range(s)
  <2>1. PICK j \in 1..(Len(s) - 1) : E[j] = x
    BY <1>6, SeqElements
  <2>2. j \in 1..(i - 1) \/ j \in i..(Len(s) - 1)
    BY <1>1
  <2>3. j \in 1..Len(s) /\ j + 1 \in 1..Len(s)
    BY <1>1
  <2> QED
    BY <1>7, <1>8, <2>1, <2>2, <2>3, SeqElements
<1>10. ASSUME NEW x \in Range(s), x # s[i] PROVE x \in Range(E)
  <2>1. PICK j \in 1..Len(s) : s[j] = x
    BY SeqElements
  <2>2. j \in 1..(i - 1) \/ j - 1 \in i..(Len(s) - 1)
    BY <1>1, <1>10, <2>1
  <2>3. \A k \in 1..(Len(s) - 1) : E[k] \in Range(E)
    BY <1>6, SeqElements
  <2>4. CASE j \in 1..(i - 1)
    BY <1>7, <2>1, <2>3, <2>4
  <2>5. CASE j - 1 \in i..(Len(s) - 1)
    <3>1. PICK k \in i..(Len(s) - 1) : k = j - 1
      BY <2>5
    <3>2. j = k + 1
      BY <1>1, <3>1
    <3> QED
      BY <1>8, <2>1, <2>3, <3>2
  <2> QED
    BY <2>2, <2>4, <2>5
<1> QED
  BY <1>5, <1>6, <1>7, <1>8, <1>9, <1>10

\* configure() registers a variable it has not seen yet.
LEMMA Registering ==
    ASSUME Inv, PvsInv, Configuring, UNCHANGED <<config, phase>>, pvs' = Append(pvs, Next1)
    PROVE  /\ PvsInv' /\ Next1 \in Variables /\ Next1 \notin Registered
           /\ Registered' = Registered \cup {Next1} /\ Registered = Range(pvs)
           /\ \A v \in Registered : Before(v, Next1)
<1>1. /\ phase = "configuring" /\ pvs \in Seq(Names) /\ Len(pvs) \in Nat
      /\ Len(config.order) \in Nat /\ Len(pvs) < Len(config.order)
      /\ config.order \in Seq(Names)
      /\ \A i \in 1..Len(pvs) : pvs[i] = config.order[i]
  BY ConfigurationFacts, LenProperties DEF Configuring, PvsInv, Inv
<1>2. PICK n \in Nat : n = Len(pvs)
  BY <1>1
<1>3. n + 1 \in 1..Len(config.order) /\ Next1 = config.order[n + 1]
  BY <1>1, <1>2 DEF Next1
<1>4. PICK x \in Names : x = Next1
  BY <1>1, <1>3, ElementOfSeq
<1>5. /\ pvs' \in Seq(Names) /\ Len(pvs') = n + 1 /\ pvs'[n + 1] = x
      /\ \A i \in 1..n : pvs'[i] = pvs[i]
  BY <1>1, <1>2, <1>4, AppendProperties
<1>6. \A i \in 1..(n + 1) : pvs'[i] = config.order[i]
  <2>1. \A i \in 1..(n + 1) : i \in 1..n \/ i = n + 1
    OBVIOUS
  <2> QED
    BY <1>1, <1>2, <1>3, <1>4, <1>5, <2>1
<1>7. PvsInv'
  BY <1>1, <1>2, <1>5, <1>6 DEF PvsInv
<1>8. x \in Variables
  BY <1>1, <1>3, <1>4, SeqElements DEF Variables
<1>9. x \notin Range(pvs)
  <2> SUFFICES ASSUME x \in Range(pvs) PROVE FALSE
    OBVIOUS
  <2>1. PICK i \in 1..n : pvs[i] = x
    BY <1>1, <1>2, SeqElements
  <2>2. i \in 1..Len(config.order) /\ i # n + 1
    BY <1>1, <1>2
  <2>3. config.order[i] = config.order[n + 1]
    BY <1>1, <1>2, <1>3, <1>4, <2>1
  <2> QED
    BY <1>3, <2>2, <2>3, ConfigurationFacts DEF Inv
<1>10. Range(pvs') = Range(pvs) \cup {x}
  <2>1. ASSUME NEW y \in Range(pvs') PROVE y \in Range(pvs) \cup {x}
    <3>1. PICK i \in 1..(n + 1) : pvs'[i] = y
      BY <1>5, SeqElements
    <3>2. i \in 1..n \/ i = n + 1
      OBVIOUS
    <3> QED
      BY <1>1, <1>2, <1>5, <3>1, <3>2, SeqElements
  <2>2. ASSUME NEW y \in Range(pvs) PROVE y \in Range(pvs')
    <3>1. PICK i \in 1..n : pvs[i] = y
      BY <1>1, <1>2, SeqElements
    <3>2. i \in 1..(n + 1)
      OBVIOUS
    <3> QED
      BY <1>5, <3>1, <3>2, SeqElements
  <2>3. x \in Range(pvs')
    <3>1. n + 1 \in 1..(n + 1)
      OBVIOUS
    <3> QED
      BY <1>5, <3>1, SeqElements
  <2> QED
    BY <2>1, <2>2, <2>3
<1>11. ASSUME NEW v \in Range(pvs) PROVE Before(v, x)
  <2>1. PICK i \in 1..n : pvs[i] = v
    BY <1>1, <1>2, SeqElements
  <2>2. i \in 1..Len(config.order) /\ i < n + 1 /\ config.order[i] = v
    BY <1>1, <1>2, <2>1
  <2> QED
    BY <1>3, <1>4, <2>2 DEF Before
<1> QED
  BY <1>1, <1>4, <1>7, <1>8, <1>9, <1>10, <1>11 DEF Registered

\* configure() and optimize() leave what later loops rely on.
LEMMA PvsStep == ASSUME Inv, GraphInv, StartUp PROVE PvsInv'
<1>1. pvs \in Seq(Names) /\ Len(pvs) \in Nat /\ config' = config
  BY LenProperties
     DEF GraphInv, PvsInv, StartUp, RegisterVariable, InstantiateCalculatedVariable, InstantiateFails,
         Configured, Optimize, Optimized, SetupSynchronization, Synchronized
<1>2. CASE RegisterVariable \/ InstantiateCalculatedVariable
  BY <1>2, Registering DEF RegisterVariable, InstantiateCalculatedVariable, GraphInv
<1>3. CASE InstantiateFails
  BY <1>3 DEF InstantiateFails, Configuring, GraphInv, PvsInv
<1>4. ASSUME notified' = notified PROVE \A v : Unused(v)' <=> Unused(v)
  BY <1>1, <1>4 DEF Unused
<1>5. CASE Configured
  <2>1. /\ Len(pvs) = Len(config.order) /\ phase' = "optimizing" /\ it' = 1 /\ pvs' = pvs
        /\ \A i \in 1..Len(pvs) : pvs[i] = config.order[i]
        /\ config.order \in Seq(Names)
    BY <1>5, ConfigurationFacts DEF Configured, GraphInv, PvsInv, Inv
  <2>2. Range(pvs) \subseteq Variables
    BY <1>1, <2>1, SeqElements DEF Variables
  <2>3. Variables \subseteq Range(pvs)
    BY <1>1, <2>1, SeqElements DEF Variables
  <2>4. 1 \in 1..(Len(pvs) + 1) /\ 1..(1 - 1) = {}
    BY <1>1
  <2> QED
    BY <1>1, <2>1, <2>2, <2>3, <2>4, SameGraph DEF PvsInv, Kept
<1>6. CASE Optimize
  <2>1. /\ phase = "optimizing" /\ phase' = phase /\ notified' = notified
        /\ it \in 1..Len(pvs) /\ Range(pvs) \subseteq Variables
        /\ \A v \in Variables : ~Unused(v) => Kept(v)
        /\ \A i \in 1..(it - 1) : ~Unused(pvs[i])
    BY <1>1, <1>6 DEF Optimize, GraphInv, PvsInv
  <2>2. CASE Unused(pvs[it])
    <3>1. pvs' = Erased(pvs, it) /\ it' = it
      BY <1>6, <2>2 DEF Optimize
    <3>2. /\ pvs' \in Seq(Names) /\ Len(pvs') = Len(pvs) - 1
          /\ \A j \in 1..(it - 1) : pvs'[j] = pvs[j]
          /\ Range(pvs') \subseteq Range(pvs)
          /\ \A x \in Range(pvs) : x # pvs[it] => x \in Range(pvs')
      BY <1>1, <2>1, <3>1, ErasedElements
    <3>3. \A v \in Variables : ~Unused(v) => v \in Range(pvs')
      BY <2>1, <2>2, <3>2 DEF Kept
    <3>4. \A i \in 1..(it - 1) : ~Unused(pvs'[i])
      BY <2>1, <3>2
    <3>5. it' \in 1..(Len(pvs') + 1)
      BY <1>1, <2>1, <3>1, <3>2
    <3> QED
      BY <1>1, <1>4, <2>1, <3>1, <3>2, <3>3, <3>4, <3>5, SameGraph DEF PvsInv, Kept
  <2>3. CASE ~Unused(pvs[it])
    <3>1. pvs' = pvs /\ it' = it + 1
      BY <1>6, <2>3 DEF Optimize
    <3>2. it' \in 1..(Len(pvs) + 1) /\ \A i \in 1..(it' - 1) : i \in 1..(it - 1) \/ i = it
      BY <1>1, <2>1, <3>1
    <3>3. \A i \in 1..(it' - 1) : ~Unused(pvs[i])
      BY <2>1, <2>3, <3>2
    <3> QED
      BY <1>1, <1>4, <2>1, <3>1, <3>2, <3>3, SameGraph DEF PvsInv, Kept
  <2> QED
    BY <2>2, <2>3
<1>7. CASE Optimized
  <2>1. /\ phase' = "synchronizing" /\ it' = Len(pvs) /\ pvs' = pvs /\ notified' = notified
        /\ it = Len(pvs) + 1 /\ Range(pvs) \subseteq Variables
        /\ \A v \in Variables : ~Unused(v) => Kept(v)
        /\ \A i \in 1..(it - 1) : ~Unused(pvs[i])
    BY <1>1, <1>7 DEF Optimized, GraphInv, PvsInv
  <2>2. \A i \in 1..Len(pvs) : i \in 1..(it - 1)
    BY <1>1, <2>1
  <2>3. \A v \in Range(pvs) : ~Unused(v)
    BY <1>1, <2>1, <2>2, SeqElements
  <2>4. it' \in 0..Len(pvs)
    BY <1>1, <2>1
  <2>5. \A v \in Names : Kept(v) <=> v \in Variables /\ ~Unused(v)
    BY <2>1, <2>3 DEF Kept
  <2> QED
    BY <1>1, <1>4, <2>1, <2>4, <2>5, SameGraph DEF PvsInv, Kept
<1>8. CASE SetupSynchronization \/ Synchronized
  <2>1. /\ phase = "synchronizing" /\ phase' \in {"synchronizing", "running"}
        /\ pvs' = pvs /\ notified' = notified /\ it \in 0..Len(pvs)
        /\ \A v \in Names : Kept(v) <=> v \in Variables /\ ~Unused(v)
    BY <1>8 DEF SetupSynchronization, Synchronized, GraphInv, PvsInv
  <2>2. it' \in 0..Len(pvs) /\ (phase' = "running" => it' = 0)
    BY <1>1, <1>8, <2>1 DEF SetupSynchronization, Synchronized
  <2> QED
    BY <1>1, <1>4, <2>1, <2>2, SameGraph DEF PvsInv, Kept
<1> QED
  BY <1>2, <1>3, <1>5, <1>6, <1>7, <1>8 DEF StartUp

\* A list of formulas keeps what it has and gains the formula that asks.
LEMMA AskedRange ==
    ASSUME Inv, NEW cv \in Calculated, NEW v \in Names
    PROVE  /\ Range(notified[v]) \subseteq Range(notified[v] \o Asked(cv, v))
           /\ v \in Operands(cv) => cv \in Range(notified[v] \o Asked(cv, v))
<1>1. notified[v] \in Seq(Calculated) /\ Asked(cv, v) \in Seq(Calculated)
  BY AskedFormulas DEF Inv, NotifiedInv
<1>2. Range(notified[v] \o Asked(cv, v)) = Range(notified[v]) \cup Range(Asked(cv, v))
  BY <1>1, RangeConcatenation
<1>3. ASSUME v \in Operands(cv) PROVE cv \in Range(Asked(cv, v))
  <2>1. 1 \in 1..Len(Asked(cv, v)) /\ Asked(cv, v)[1] = cv
    BY <1>3 DEF Asked, Operands
  <2> QED
    BY <1>1, <2>1, SeqElements
<1> QED
  BY <1>2, <1>3

\* After configure() everything is registered.
LEMMA RegisteredSame ==
    ASSUME Inv, GraphInv, StartUp, ~(RegisterVariable \/ InstantiateCalculatedVariable)
    PROVE  Registered' = Registered /\ notified' = notified
<1>1. config' = config /\ notified' = notified /\ Variables' = Variables
  BY SameGraph DEF StartUp, InstantiateFails, Configured, Optimize, Optimized, SetupSynchronization,
                   Synchronized
<1>2. CASE InstantiateFails
  BY <1>1, <1>2 DEF InstantiateFails, Configuring, Registered
<1>3. CASE Configured
  <2>1. Registered = Range(pvs) /\ Registered' = Variables
    BY <1>1, <1>3 DEF Configured, Registered
  <2>2. /\ pvs \in Seq(Names) /\ config.order \in Seq(Names) /\ Len(pvs) = Len(config.order)
        /\ \A i \in 1..Len(pvs) : pvs[i] = config.order[i]
    BY <1>3, ConfigurationFacts DEF Configured, GraphInv, PvsInv, Inv
  <2>3. Variables \subseteq Range(pvs)
    BY <2>2, SeqElements, SMTT(30) DEF Variables
  <2>4. Range(pvs) \subseteq Variables
    BY <2>2, SeqElements DEF Variables
  <2> QED
    BY <1>1, <2>1, <2>3, <2>4
<1>4. CASE Optimize \/ Optimized \/ SetupSynchronization \/ Synchronized
  <2>1. phase \notin {"configuring", "failed"} /\ phase' \notin {"configuring", "failed"}
    BY <1>4 DEF Optimize, Optimized, SetupSynchronization, Synchronized
  <2> QED
    BY <1>1, <2>1 DEF Registered
<1> QED
  BY <1>2, <1>3, <1>4 DEF StartUp

\* Nothing comes back once it is optimized out.
LEMMA KeptShrinks ==
    ASSUME Inv, GraphInv, StartUp, ~(RegisterVariable \/ InstantiateCalculatedVariable)
    PROVE  \A v : Kept(v)' => Kept(v)
<1>1. CASE Optimize /\ Unused(pvs[it])
  <2>1. pvs' = Erased(pvs, it) /\ pvs \in Seq(Names) /\ it \in 1..Len(pvs)
    BY <1>1, LenProperties DEF Optimize, GraphInv, PvsInv
  <2>2. Range(pvs') \subseteq Range(pvs)
    BY <2>1, ErasedElements
  <2> QED
    BY <2>2 DEF Kept
<1>2. CASE pvs' = pvs
  BY <1>2 DEF Kept
<1> QED
  BY <1>1, <1>2 DEF StartUp, InstantiateFails, Configured, Optimize, Optimized, SetupSynchronization,
                    Synchronized

\* A formula is registered after its operands, and with them.
LEMMA FormulaStep == ASSUME Inv, GraphInv, StartUp PROVE FormulaInv'
<1>1. /\ config' = config /\ Calculated' = Calculated
      /\ \A v : Operands(v)' = Operands(v)
      /\ \A v, w : Before(v, w)' <=> Before(v, w)
  BY SameGraph
     DEF StartUp, RegisterVariable, InstantiateCalculatedVariable, InstantiateFails,
         Configured, Optimize, Optimized, SetupSynchronization, Synchronized
<1>2. ASSUME Registered' = Registered, notified' = notified PROVE FormulaInv'
  BY <1>1, <1>2 DEF GraphInv, FormulaInv
<1>3. CASE RegisterVariable
  <2>1. /\ Registered' = Registered \cup {Next1} /\ notified' = notified
        /\ Next1 \notin Calculated
    BY <1>3, Registering DEF RegisterVariable, GraphInv, Plain
  <2> QED
    BY <1>1, <2>1 DEF GraphInv, FormulaInv
<1>4. CASE InstantiateCalculatedVariable
  <2>1. PICK x \in Calculated : x = Next1
    BY <1>4 DEF InstantiateCalculatedVariable
  <2>2. /\ Registered' = Registered \cup {x} /\ Operands(x) \subseteq Registered
        /\ Registered \subseteq Names /\ \A v \in Registered : Before(v, x)
        /\ notified' = [v \in Names |-> notified[v] \o Asked(x, v)]
    <3>1. /\ Registered' = Registered \cup {x} /\ Registered = Range(pvs)
          /\ \A v \in Registered : Before(v, x)
      BY <1>4, <2>1, Registering DEF InstantiateCalculatedVariable, GraphInv
    <3>2. Range(pvs) \subseteq Names
      BY SeqElements DEF GraphInv, PvsInv
    <3> QED
      BY <1>4, <2>1, <3>1, <3>2 DEF InstantiateCalculatedVariable
  <2>3. \A v \in Names : /\ Range(notified[v]) \subseteq Range(notified'[v])
                         /\ v \in Operands(x) => x \in Range(notified'[v])
    BY <2>2, AskedRange
  <2>4. ASSUME NEW cv \in Calculated \cap (Registered \cup {x})
        PROVE  /\ Operands(cv) \subseteq Registered \cup {x}
               /\ \A v \in Operands(cv) : Before(v, cv) /\ cv \in Range(notified'[v])
    BY <2>2, <2>3, <2>4 DEF GraphInv, FormulaInv
  <2> QED
    BY <1>1, <2>2, <2>4 DEF FormulaInv
<1>5. CASE ~(RegisterVariable \/ InstantiateCalculatedVariable)
  BY <1>2, <1>5, RegisteredSame
<1> QED
  BY <1>3, <1>4, <1>5 DEF StartUp

\* Setters change nothing of the graph.
LEMMA GraphStep == ASSUME Inv, GraphInv, [Next]_vars PROVE GraphInv'
<1>1. CASE StartUp
  <2>1. PvsInv' /\ FormulaInv'
    BY <1>1, PvsStep, FormulaStep
  <2>2. CASE SetupSynchronization
    BY <2>1, <2>2, SyncStep DEF GraphInv
  <2>3. CASE ~SetupSynchronization
    <3>1. /\ config' = config /\ sync' = sync
          /\ phase \in {"synchronizing", "running"} => phase' \in {"synchronizing", "running"}
          /\ phase' \in {"synchronizing", "running"} =>
               \/ it' = Len(pvs')
               \/ phase = "synchronizing" /\ UNCHANGED <<pvs, it, notified>>
      BY <1>1, <2>3 DEF StartUp, RegisterVariable, InstantiateCalculatedVariable, InstantiateFails,
         Configured, Optimize, Optimized, Synchronized, Configuring
    <3>2. Len(pvs') \in Nat
      BY <2>1, LenProperties DEF PvsInv
    <3>3. \A i \in 1..Len(pvs') : ~(i > Len(pvs'))
      BY <3>2
    <3>4. phase' \in {"synchronizing", "running"} =>
            \A i \in 1..Len(pvs') : i > it' => ~NeedsSynchronizer(pvs[i])'
      <4>1. CASE it' = Len(pvs')
        BY <3>3, <4>1
      <4>2. CASE phase = "synchronizing" /\ UNCHANGED <<pvs, it, notified>>
        <5>1. \A i \in 1..Len(pvs) : i > it => ~NeedsSynchronizer(pvs[i])
          BY <4>2 DEF GraphInv, SyncInv
        <5>2. \A v : NeedsSynchronizer(v)' <=> NeedsSynchronizer(v)
          BY <3>1, <4>2, SameGraph DEF NeedsSynchronizer
        <5> QED
          BY <4>2, <5>1, <5>2
      <4> QED
        BY <3>1, <4>1, <4>2
    <3>5. phase' \in {"synchronizing", "running"} =>
            \A cv \in Calculated : Stays(cv) =>
                \A v \in Operands(cv) : ~IsConstant(v) => sync[v] = sync[cv]
      <4>1. CASE phase = "synchronizing"
        BY <4>1 DEF GraphInv, SyncInv
      <4>2. CASE Optimized
        <5>1. /\ \A v \in Names : sync[v] = None
              /\ phase = "optimizing"
          BY <4>2 DEF GraphInv, SyncInv, Optimized
        <5>2. Variables \subseteq Names /\ \A cv \in Calculated : cv \in Variables
          BY ConfigurationFacts DEF Inv
        <5>3. \A cv \in Calculated : Operands(cv) \subseteq Variables
          BY <5>1, <5>2, NotifiedFormulas DEF GraphInv
        <5> QED
          BY <5>1, <5>2, <5>3
      <4> QED
        BY <1>1, <2>3, <4>1, <4>2
           DEF StartUp, RegisterVariable, InstantiateCalculatedVariable, InstantiateFails,
               Configured, Optimize, Synchronized, Configuring
    <3> QED
      BY <2>1, <3>1, <3>4, <3>5, SameGraph DEF GraphInv, SyncInv
  <2> QED
    BY <2>2, <2>3
<1>2. CASE UNCHANGED graphVars
  <2>1. UNCHANGED <<config, phase, pvs, it, notified, sync>>
    BY <1>2 DEF graphVars
  <2>2. Registered' = Registered /\ \A v : Unused(v)' <=> Unused(v)
    BY <2>1, SameGraph DEF Registered, Unused
  <2>3. \A v : (Kept(v)' <=> Kept(v)) /\ (NeedsSynchronizer(v)' <=> NeedsSynchronizer(v))
    BY <2>1, SameGraph DEF Kept, NeedsSynchronizer
  <2>4. PvsInv'
    BY <2>1, <2>2, <2>3, SameGraph DEF GraphInv, PvsInv
  <2>5. FormulaInv'
    BY <2>1, <2>2, SameGraph DEF GraphInv, FormulaInv
  <2>6. SyncInv'
    BY <2>1, <2>3, SameGraph DEF GraphInv, SyncInv
  <2> QED
    BY <2>4, <2>5, <2>6 DEF GraphInv
<1> QED
  BY <1>1, <1>2 DEF Next, Setter, SetValue, Listen, Update, Evaluate, Publish, Return,
                    TriggerRecalculation, SetAutoUpdate, vars, graphVars

\* What is left of the variables without whole parts is whole.
LEMMA Complement ==
    ASSUME NEW S, Whole(S), \A cv \in Calculated : cv \in Variables /\ Operands(cv) \subseteq Variables
    PROVE  Whole(Variables \ S)
  BY DEF Whole

\* The searches have been everywhere and kept the parts apart.
LEMMA Matched == ASSUME Inv, GraphInv PROVE SynchronizersMatchGraph
<1> SUFFICES ASSUME phase = "running", NEW v \in Variables, Used(v), ~IsConstant(v)
             PROVE  /\ sync[v] # None
                    /\ \A w \in Variables : sync[w] = sync[v] <=> Joined(v, w)
  BY DEF SynchronizersMatchGraph
<1>1. /\ Variables \subseteq Names /\ Calculated \subseteq Variables
      /\ \A cv \in Calculated : Operands(cv) \subseteq Variables
  BY ConfigurationFacts, NotifiedFormulas DEF Inv, GraphInv
<1>2. /\ \A cv \in Calculated : Stays(cv) =>
            \A a \in Operands(cv) : ~IsConstant(a) => sync[a] = sync[cv]
      /\ \A u \in Names : sync[u] # None => sync[u] \in Variables /\ Joined(sync[u], u)
  BY DEF GraphInv, SyncInv
<1>3. sync[v] # None
  <2>1. notified[v] # <<>> /\ Stays(v) /\ ~Unused(v)
    BY <1>1, NotifiedFormulas DEF GraphInv, Stays
  <2>2. v \in Range(pvs) /\ pvs \in Seq(Names) /\ it = 0 /\ Len(pvs) \in Nat
    BY <1>1, <2>1, LenProperties DEF GraphInv, PvsInv, Kept
  <2>3. PICK i \in 1..Len(pvs) : pvs[i] = v
    BY <2>2, SeqElements
  <2>4. i > it
    BY <2>2
  <2> QED
    BY <2>1, <2>3, <2>4 DEF GraphInv, SyncInv, NeedsSynchronizer
<1>4. ASSUME NEW w \in Variables, sync[w] = sync[v] PROVE Joined(v, w)
  <2> SUFFICES ASSUME NEW S \in SUBSET Variables, v \in S, w \notin S, Whole(S) PROVE FALSE
    BY DEF Joined
  <2>1. PICK n \in Variables : n = sync[v] /\ Joined(n, v) /\ Joined(n, w)
    BY <1>1, <1>2, <1>3, <1>4
  <2>2. n \notin S
    BY <2>1 DEF Joined
  <2>3. Whole(Variables \ S) /\ Variables \ S \in SUBSET Variables
    BY <1>1, Complement
  <2> QED
    BY <2>1, <2>2, <2>3 DEF Joined
<1>5. ASSUME NEW w \in Variables, Joined(v, w) PROVE sync[w] = sync[v]
  <2>1. PICK S \in SUBSET Variables : S = {u \in Variables : sync[u] = sync[v]}
    OBVIOUS
  <2>2. Whole(S)
    BY <1>1, <1>2, <2>1 DEF Whole
  <2> QED
    BY <1>5, <2>1, <2>2 DEF Joined
<1> QED
  BY <1>3, <1>4, <1>5

\* Before anything is configured.
LEMMA Initially == Init => Inv /\ GraphInv
<1> SUFFICES ASSUME Init PROVE Inv /\ GraphInv
  OBVIOUS
<1>1. NotifiedInv
  BY DEF Init, NotifiedInv
<1>2. WorkInv
  <2>1. DOMAIN work = Threads /\ \A t \in Threads : work[t] = Idle
    BY DEF Init
  <2>2. Idle.pc = "idle" /\ Idle.stack = <<>>
    BY DEF Idle, Work
  <2>3. GoodWork(Idle)
    BY <2>2 DEF GoodWork, Pcs
  <2> QED
    BY <2>1, <2>3 DEF WorkInv
<1>3. ExclusiveInv
  BY DEF Init, ExclusiveInv, Held, Idle, Work
<1>4. QuietInv /\ config \in Configurations
  BY DEF Init, QuietInv
<1>5. Inv
  BY <1>1, <1>2, <1>3, <1>4 DEF Inv
<1>6. PvsInv
  <2>1. pvs = <<>> /\ phase = "configuring" /\ Len(config.order) \in Nat
    BY <1>4, ConfigurationFacts, LenProperties DEF Init
  <2> QED
    BY <2>1 DEF PvsInv
<1>7. FormulaInv
  <2>1. Registered = {}
    BY DEF Init, Registered, Range
  <2> QED
    BY <2>1 DEF FormulaInv
<1>8. SyncInv
  <2>1. \A v \in Names : sync[v] = None
    BY DEF Init
  <2>2. sync \in [Names -> Names \cup {None}] /\ phase = "configuring"
    BY DEF Init
  <2> QED
    BY <2>1, <2>2 DEF SyncInv
<1> QED
  BY <1>5, <1>6, <1>7, <1>8 DEF GraphInv

\* For every configuration, whatever its formulas and the order of registration:
\* the searches of setupSynchronization give each connected part a synchronizer
\* of its own.
THEOREM SynchronizersMatch == Spec => []SynchronizersMatchGraph
<1>1. Inv /\ GraphInv /\ [Next]_vars => Inv' /\ GraphInv'
  BY InvStep, GraphStep
<1>2. Inv /\ GraphInv => SynchronizersMatchGraph
  BY Matched
<1> QED
  BY Initially, <1>1, <1>2, PTL DEF Spec

-----------------------------------------------------------------------------
(* Setters and calculations exclude each other.                            *)

\* OperandsJoined is about the configuration.
LEMMA JoinedStays == ASSUME Inv, OperandsJoined, [Next]_vars PROVE OperandsJoined'
<1>1. config' = config
  BY DEF Next, StartUp, RegisterVariable, InstantiateCalculatedVariable, InstantiateFails, Configured,
         Optimize, Optimized, SetupSynchronization, Synchronized, Setter, SetValue, Listen, Update,
         Evaluate, Publish, Return, TriggerRecalculation, SetAutoUpdate, vars, graphVars
<1>2. \A cv : ChangingOperands(cv)' = ChangingOperands(cv)
  BY <1>1, SameGraph DEF ChangingOperands
<1> QED
  BY <1>1, <1>2, SameGraph DEF OperandsJoined

\* Where a configuration joins the operands of a formula, start-up has put
\* them under one synchronizer.
LEMMA OneSynchronizer ==
    ASSUME Inv, GraphInv, OperandsJoined, phase = "running", NEW cv \in Calculated \ config.manual,
           NEW v \in ChangingOperands(cv), NEW w \in ChangingOperands(cv)
    PROVE  sync[v] = sync[w] /\ sync[v] # None
<1>1. v \in Operands(cv) /\ w \in Operands(cv) /\ ~IsConstant(v) /\ Joined(v, w)
  BY DEF OperandsJoined, ChangingOperands
<1>2. Variables \subseteq Names /\ Calculated \subseteq Names
  BY ConfigurationFacts DEF Inv
<1>3. v \in Variables /\ w \in Variables
  BY <1>1, <1>2, NotifiedFormulas DEF GraphInv
<1>4. Used(v)
  BY <1>1 DEF Used
<1> QED
  BY <1>1, <1>3, <1>4, Matched DEF SynchronizersMatchGraph

\* Two threads at one formula would own its operands' synchronizer both.
LEMMA Excluded == ASSUME Inv, GraphInv, OperandsJoined PROVE CalculationExclusive
<1> SUFFICES ASSUME NEW t \in Threads, NEW u \in Threads,
                    NEW cv \in Calculated \ config.manual, t # u, Calculating(t, cv)
             PROVE  ~Calculating(u, cv) /\ \A v \in Operands(cv) : ~Storing(u, v)
  BY DEF CalculationExclusive
\* A thread that calculates cv is inside the setter of an operand.
<1>1. ASSUME NEW r \in Threads, Calculating(r, cv)
      PROVE  \E v \in Operands(cv) : v \in Held(work[r].stack)
  <2>1. PICK stack \in Seq(Frames) : stack = work[r].stack /\ stack # <<>>
                                    /\ stack[Len(stack)].pv \in Operands(cv)
    BY <1>1 DEF Calculating, Inv, WorkInv, GoodWork
  <2>2. Len(stack) \in 1..Len(stack)
    BY <2>1, EmptySeq, LenProperties
  <2> QED
    BY <2>1, <2>2 DEF Held
\* Such an operand may change.
<1>2. ASSUME NEW r \in Threads, NEW v \in Operands(cv), v \in Held(work[r].stack)
      PROVE  v \in ChangingOperands(cv)
  <2>1. PICK i \in 1..Len(work[r].stack) : work[r].stack[i].pv = v
    BY <1>2 DEF Held
  <2>2. work[r].stack[i] \in Frames
    BY <2>1, ElementOfSeq DEF Inv, WorkInv, GoodWork
  <2> QED
    BY <2>1, <2>2 DEF Frames, MayChange, ChangingOperands
<1>3. phase = "running"
  BY BusyRunning DEF Calculating
<1>4. PICK v \in Operands(cv) : v \in Held(work[t].stack)
  BY <1>1
<1>5. ASSUME NEW w \in Operands(cv), w \in Held(work[u].stack) PROVE FALSE
  <2>1. sync[v] = sync[w] /\ sync[v] # None
    <3>1. v \in ChangingOperands(cv) /\ w \in ChangingOperands(cv)
      BY <1>2, <1>4, <1>5
    <3> QED
      BY <1>3, <3>1, OneSynchronizer
  <2> QED
    BY <1>4, <1>5, <2>1 DEF Inv, ExclusiveInv
<1>6. \A w \in Operands(cv) : ~Storing(u, w)
  BY <1>5 DEF Storing, Held
<1> QED
  BY <1>1, <1>5, <1>6

\* For any number of threads, any nesting of setters and any manual updates: in
\* a configuration whose formulas have their changing operands in one connected
\* part, a calculation has its formula and its operands to itself. In the run
\* calculated_domains the hypothesis fails, and the conclusion with it.
THEOREM CalculationsExclude == Spec /\ OperandsJoined => []CalculationExclusive
<1>1. Inv /\ GraphInv /\ OperandsJoined /\ [Next]_vars => Inv' /\ GraphInv' /\ OperandsJoined'
  BY InvStep, GraphStep, JoinedStays
<1>2. Inv /\ GraphInv /\ OperandsJoined => CalculationExclusive
  BY Excluded
<1> QED
  BY Initially, <1>1, <1>2, PTL DEF Spec

-----------------------------------------------------------------------------
(* Nothing stale is left behind. The argument is about one formula at a    *)
(* time: its result is up to date, or some thread has still to see to it.  *)

Automatic == Calculated \ config.manual

\* The formulas that the calls nested in a stack have still to update.
Todo(stack) == UNION {Range(stack[i].todo) : i \in 1..Len(stack)}

Calculates(w, cv) == w.pc \in {"evaluate", "publish"} /\ w.var = cv
Listens(w, v) == w.pc = "listen" /\ w.var = v
Sees(w, cv) == Calculates(w, cv) \/ cv \in Todo(w.stack)

ShapeInv ==
    /\ DOMAIN pv = Names /\ DOMAIN published = Names /\ DOMAIN auto = Names
    /\ \A t \in Threads : work[t].pc = "idle" => work[t].stack = <<>>

\* Only the user switches automatic updates off.
AutoInv == \A cv \in Automatic : auto[cv]

FreshInv ==
    \A cv \in Automatic \cap Registered :
        \/ published[cv] = Calculation(cv)
        \/ cv \in DOMAIN config.initial /\ published[cv] = config.initial[cv]
        \/ \E t \in Threads : Sees(work[t], cv)

\* What a thread has read of the operands stays true until it publishes.
CalcInv ==
    \A t \in Threads, cv \in Automatic : Calculates(work[t], cv) =>
        /\ work[t].pc = "evaluate" => NotGood(cv) = {}
        /\ work[t].pc = "publish" => work[t].data = Calculation(cv)

\* A result is seen by other formulas as it is published, or will be: the one
\* thread that is about to store it has the published value.
SeenInv ==
    \A cv \in Automatic \cap Registered :
        /\ Kept(cv) => pv[cv] = Converted(published[cv]) \/ \E t \in Threads : Listens(work[t], cv)
        /\ \A t \in Threads : Listens(work[t], cv) => work[t].data = published[cv]

\* Such a thread is inside the setter of an operand.
ListenInv ==
    \A t \in Threads, cv \in Automatic : Listens(work[t], cv) => \E v \in Operands(cv) : Storing(t, v)

DataInv == ShapeInv /\ AutoInv /\ FreshInv /\ CalcInv /\ SeenInv /\ ListenInv

\* The first operand that is not good exists.
LEMMA FirstOf ==
    ASSUME NEW S \in SUBSET Nat, S # {}
    PROVE  (CHOOSE i \in S : \A j \in S : i <= j) \in S
<1>1. IsWellFoundedOn(OpToRel(<, Nat), Nat)
  BY NatLessThanWellFounded, Zenon
<1>2. PICK i \in S : \A j \in S : ~(<<j, i>> \in OpToRel(<, Nat))
  BY <1>1, WFMin, Zenon
<1>3. ASSUME NEW j \in S, j < i PROVE <<j, i>> \in OpToRel(<, Nat)
  BY <1>3, Zenon DEF OpToRel
<1>4. \A j \in S : ~(j < i)
  BY <1>2, <1>3, Zenon
<1>5. \A j \in S : i <= j
  BY <1>4, SMT
<1> QED
  BY <1>5, Zenon

\* A calculation is a function of the formula's own operands.
LEMMA SameCalculation ==
    ASSUME config \in Configurations, UNCHANGED config, NEW cv \in Calculated,
           \A v \in Operands(cv) : pv'[v] = pv[v]
    PROVE  NotGood(cv)' = NotGood(cv) /\ Calculation(cv)' = Calculation(cv)
<1>1. /\ HasStatus(cv)' = HasStatus(cv) /\ Operands(cv)' = Operands(cv)
      /\ config'.value[cv] = config.value[cv]
  BY DEF HasStatus, Operands, StatusOperands
<1>2. \A i \in DOMAIN config.value[cv] : config.value[cv][i] \in Operands(cv)
  BY DEF Operands, Range
<1>3. NotGood(cv)' = NotGood(cv)
  BY <1>1, <1>2 DEF NotGood
<1>4. ASSUME NotGood(cv) # {} PROVE Propagated(cv)' = Propagated(cv)
  <2>1. PICK first : first = CHOOSE i \in NotGood(cv) : \A j \in NotGood(cv) : i <= j
    OBVIOUS
  <2>2. first = CHOOSE i \in NotGood(cv)' : \A j \in NotGood(cv)' : i <= j
    BY <1>3, <2>1
  <2>3. config.value[cv] \in Seq(Names)
    BY ConfigurationAssumption DEF Calculated
  <2>4. NotGood(cv) \in SUBSET Nat
    BY <2>3, LenProperties DEF NotGood
  <2>5. first \in NotGood(cv)
    BY <1>4, <2>1, <2>4, FirstOf
  <2>6. config.value[cv][first] \in Operands(cv)
    BY <1>2, <2>5 DEF NotGood
  <2>7. Propagated(cv) = [status |-> pv[config.value[cv][first]].state, value |-> Null]
    BY <2>1 DEF Propagated
  <2>8. Propagated(cv)' = [status |-> pv'[config'.value[cv][first]].state, value |-> Null]
    BY <2>2 DEF Propagated
  <2> QED
    BY <1>1, <2>6, <2>7, <2>8
<1>5. Evaluated(cv)' = Evaluated(cv)
  BY <1>1 DEF Evaluated
<1> QED
  BY <1>3, <1>4, <1>5 DEF Calculation

\* Entering and leaving a setter, and taking the next formula: what is left to do.
LEMMA PushedTodo ==
    ASSUME NEW stack \in Seq(Frames), NEW f \in Frames
    PROVE  Todo(Append(stack, f)) = Todo(stack) \cup Range(f.todo)
<1>1. /\ Len(Append(stack, f)) = Len(stack) + 1 /\ Len(stack) \in Nat
      /\ \A i \in 1..Len(stack) : Append(stack, f)[i] = stack[i]
      /\ Append(stack, f)[Len(stack) + 1] = f
  BY AppendProperties, LenProperties
<1>2. 1..(Len(stack) + 1) = 1..Len(stack) \cup {Len(stack) + 1}
  BY <1>1
<1> QED
  BY <1>1, <1>2 DEF Todo

LEMMA PoppedTodo ==
    ASSUME NEW stack \in Seq(Frames), stack # <<>>
    PROVE  Todo(stack) = Todo(Popped(stack)) \cup Range(stack[Len(stack)].todo)
<1>1. Len(stack) \in Nat /\ Len(stack) >= 1
  BY EmptySeq, LenProperties
<1>2. PICK n \in Nat : Len(stack) = n + 1
  BY <1>1
<1>3. Len(Popped(stack)) = n /\ \A i \in 1..n : Popped(stack)[i] = stack[i]
  BY <1>2, SubSeqProperties DEF Popped
<1>4. 1..(n + 1) = 1..n \cup {n + 1}
  OBVIOUS
<1> QED
  BY <1>2, <1>3, <1>4 DEF Todo

LEMMA NextTodo ==
    ASSUME NEW todo \in Seq(Calculated), todo # <<>>
    PROVE  Range(todo) = {Head(todo)} \cup Range(Tail(todo))
<1>1. /\ Tail(todo) \in Seq(Calculated) /\ Len(todo) \in Nat \ {0} /\ Len(Tail(todo)) = Len(todo) - 1
      /\ \A j \in 1..Len(Tail(todo)) : Tail(todo)[j] = todo[j + 1]
      /\ Head(todo) = todo[1]
  BY HeadTailProperties, EmptySeq, LenProperties
<1>2. ASSUME NEW x \in Range(todo) PROVE x = Head(todo) \/ x \in Range(Tail(todo))
  <2>1. PICK i \in 1..Len(todo) : todo[i] = x
    BY SeqElements
  <2>2. CASE i = 1
    BY <1>1, <2>1, <2>2
  <2>3. CASE i # 1
    <3>1. PICK j \in 1..Len(Tail(todo)) : i = j + 1
      <4>1. i - 1 \in 1..Len(Tail(todo)) /\ i = (i - 1) + 1
        BY <1>1, <2>3
      <4> QED
        BY <4>1
    <3> QED
      BY <1>1, <2>1, <3>1, SeqElements
  <2> QED
    BY <2>2, <2>3
<1>3. Head(todo) \in Range(todo)
  BY <1>1, SeqElements
<1>4. ASSUME NEW x \in Range(Tail(todo)) PROVE x \in Range(todo)
  <2>0. PICK rest \in Seq(Calculated) : rest = Tail(todo)
    BY <1>1
  <2>1. PICK j \in 1..Len(rest) : rest[j] = x
    BY <1>4, <2>0, SeqElements, ZenonT(30)
  <2>2. j + 1 \in 1..Len(todo)
    BY <1>1, <2>0
  <2> QED
    BY <1>1, <2>0, <2>1, <2>2, SeqElements
<1> QED
  BY <1>2, <1>3, <1>4

\* A thread that stores nothing keeps the invariant if it still sees to the
\* formulas it had to see to, and calculates from what it has read.
LEMMA QuietStep ==
    ASSUME Inv, GraphInv, DataInv, UNCHANGED graphVars, UNCHANGED <<pv, published, auto>>,
           NEW t \in Threads, NEW w, work' = [work EXCEPT ![t] = w],
           work[t].pc # "listen", w.pc # "listen", w.pc = "idle" => w.stack = <<>>,
           \A cv \in Automatic : Sees(work[t], cv) => Sees(w, cv),
           \A cv \in Automatic : Calculates(w, cv) =>
                /\ w.pc = "evaluate" => NotGood(cv) = {}
                /\ w.pc = "publish" => w.data = Calculation(cv)
    PROVE  DataInv'
<1>1. /\ config' = config /\ phase' = phase /\ pvs' = pvs /\ DOMAIN work = Threads
      /\ work'[t] = w /\ \A u \in Threads : u # t => work'[u] = work[u]
  BY DEF graphVars, Inv, WorkInv
<1>2. /\ Automatic' = Automatic /\ Registered' = Registered
      /\ \A v : (Kept(v)' <=> Kept(v)) /\ Operands(v)' = Operands(v)
  BY <1>1, SameGraph DEF Automatic, Registered, Kept
<1>3. \A cv \in Automatic : NotGood(cv)' = NotGood(cv) /\ Calculation(cv)' = Calculation(cv)
  BY <1>1, SameCalculation DEF Inv, Automatic
<1>4. ShapeInv'
  BY <1>1 DEF DataInv, ShapeInv
<1>5. AutoInv'
  BY <1>1, <1>2 DEF DataInv, AutoInv
<1>6. FreshInv'
  <2> SUFFICES ASSUME NEW cv \in Automatic \cap Registered
               PROVE  \/ published[cv] = Calculation(cv)
                      \/ cv \in DOMAIN config.initial /\ published[cv] = config.initial[cv]
                      \/ \E u \in Threads : Sees(work'[u], cv)
    BY <1>1, <1>2, <1>3 DEF FreshInv, Sees, Calculates, Todo
  <2>1. ASSUME NEW u \in Threads, Sees(work[u], cv) PROVE Sees(work'[u], cv)
    BY <1>1, <2>1
  <2> QED
    BY <2>1 DEF DataInv, FreshInv
<1>7. CalcInv'
  <2>1. ASSUME NEW u \in Threads, NEW cv \in Automatic, Calculates(work'[u], cv)
        PROVE  /\ work'[u].pc = "evaluate" => NotGood(cv) = {}
               /\ work'[u].pc = "publish" => work'[u].data = Calculation(cv)
    BY <1>1, <2>1 DEF DataInv, CalcInv
  <2> QED
    BY <1>2, <1>3, <2>1 DEF CalcInv, Calculates
<1>8. \A u \in Threads : \A v : Listens(work'[u], v) <=> Listens(work[u], v) /\ u # t
  BY <1>1 DEF Listens
<1>9. \A v : ~Listens(work[t], v)
  BY DEF Listens
<1>10. SeenInv'
  BY <1>1, <1>2, <1>8, <1>9 DEF DataInv, SeenInv, Listens, Converted
<1>11. ListenInv'
  BY <1>1, <1>2, <1>8, <1>9 DEF DataInv, ListenInv, Storing, Listens
<1> QED
  BY <1>4, <1>5, <1>6, <1>7, <1>10, <1>11 DEF DataInv

\* A store into the address space. Nobody else listens for a result that is
\* being published, and its calculation is still right.
LEMMA StoreStep ==
    ASSUME Inv, GraphInv, DataInv, CalculationExclusive, UNCHANGED graphVars, UNCHANGED <<pv, auto>>,
           phase = "running", NEW t \in Threads, NEW v \in Names, NEW d, work[t].pc # "listen",
           Stored(t, v, d, work[t].stack),
           \A cv \in Automatic : Calculates(work[t], cv) => v = cv,
           v \in Automatic => Calculates(work[t], v) /\ d = Calculation(v)
    PROVE  DataInv'
<1>1. /\ config' = config /\ phase' = phase /\ pvs' = pvs /\ DOMAIN work = Threads
  BY DEF graphVars, Inv, WorkInv
<1>2. PICK stack : stack = work[t].stack
  OBVIOUS
<1>3. PICK w : w = IF Kept(v) THEN Work("listen", stack, v, d) ELSE Resumed(stack)
  OBVIOUS
<1>4. /\ work'[t] = w /\ \A u \in Threads : u # t => work'[u] = work[u]
      /\ DOMAIN work' = Threads /\ published' = [published EXCEPT ![v] = d]
  BY <1>1, <1>2, <1>3 DEF Stored
<1>5. /\ w.stack = stack /\ w.pc \in {"listen", "idle", "notify"} /\ (w.pc = "idle" => stack = <<>>)
      /\ w.pc = "listen" <=> Kept(v)
      /\ w.pc = "listen" => w.var = v /\ w.data = d
  BY <1>3 DEF Work, Resumed, Idle
<1>6. /\ Automatic' = Automatic /\ Registered' = Registered /\ Registered = Variables
      /\ \A x : (Kept(x)' <=> Kept(x)) /\ Operands(x)' = Operands(x)
  BY <1>1, SameGraph DEF Automatic, Registered, Kept
<1>7. \A cv \in Automatic : NotGood(cv)' = NotGood(cv) /\ Calculation(cv)' = Calculation(cv)
  BY <1>1, SameCalculation DEF Inv, Automatic
<1>8. DOMAIN published = Names /\ Automatic \subseteq Names
  BY ConfigurationFacts DEF DataInv, ShapeInv, Automatic, Inv
<1>9. ShapeInv'
  BY <1>2, <1>4, <1>5, <1>8 DEF DataInv, ShapeInv
<1>10. AutoInv'
  BY <1>6 DEF DataInv, AutoInv
<1>11. published'[v] = d /\ \A cv \in Automatic : cv # v => published'[cv] = published[cv]
  BY <1>4, <1>8
<1>12. FreshInv'
  <2> SUFFICES ASSUME NEW cv \in Automatic \cap Registered
               PROVE  \/ published'[cv] = Calculation(cv)
                      \/ cv \in DOMAIN config.initial /\ published'[cv] = config.initial[cv]
                      \/ \E u \in Threads : Sees(work'[u], cv)
    BY <1>1, <1>6, <1>7 DEF FreshInv, Sees, Calculates, Todo
  <2>1. CASE cv = v
    BY <1>11, <2>1
  <2>2. CASE cv # v
    <3>1. ASSUME NEW u \in Threads, Sees(work[u], cv) PROVE Sees(work'[u], cv)
      BY <1>2, <1>4, <1>5, <2>2, <3>1 DEF Sees
    <3> QED
      BY <1>11, <2>2, <3>1 DEF DataInv, FreshInv
  <2> QED
    BY <2>1, <2>2
<1>13. CalcInv'
  <2>1. ASSUME NEW u \in Threads, NEW cv \in Automatic, Calculates(work'[u], cv)
        PROVE  /\ work'[u].pc = "evaluate" => NotGood(cv) = {}
               /\ work'[u].pc = "publish" => work'[u].data = Calculation(cv)
    <3>1. u # t
      BY <1>4, <1>5, <2>1 DEF Calculates
    <3> QED
      BY <1>4, <2>1, <3>1 DEF DataInv, CalcInv
  <2> QED
    BY <1>6, <1>7, <2>1 DEF CalcInv, Calculates
<1>14. ASSUME NEW u \in Threads, NEW cv \in Automatic, Listens(work[u], cv)
       PROVE  u # t /\ cv # v
  <2>1. u # t
    BY <1>14 DEF Listens
  <2>2. \E x \in Operands(cv) : Storing(u, x)
    BY <1>14 DEF DataInv, ListenInv
  <2>3. cv # v
    BY <2>1, <2>2 DEF CalculationExclusive, Automatic, Calculating, Calculates
  <2> QED
    BY <2>1, <2>3
<1>15. \A u \in Threads : \A x :
          Listens(work'[u], x) <=> (u # t /\ Listens(work[u], x)) \/ (u = t /\ Kept(v) /\ x = v)
  BY <1>4, <1>5 DEF Listens
<1>16. SeenInv'
  <2> SUFFICES ASSUME NEW cv \in Automatic \cap Registered
               PROVE  /\ Kept(cv) => pv[cv] = Converted(published'[cv])
                                     \/ \E u \in Threads : Listens(work'[u], cv)
                      /\ \A u \in Threads : Listens(work'[u], cv) => work'[u].data = published'[cv]
    BY <1>6 DEF SeenInv, Listens, Converted
  <2>1. CASE cv = v
    BY <1>4, <1>5, <1>11, <1>14, <1>15, <2>1
  <2>2. CASE cv # v
    <3>1. \A u \in Threads : Listens(work'[u], cv) <=> Listens(work[u], cv)
      BY <1>14, <1>15, <2>2
    <3>2. \A u \in Threads : Listens(work[u], cv) => work'[u] = work[u]
      BY <1>4, <1>14
    <3> QED
      BY <1>11, <2>2, <3>1, <3>2 DEF DataInv, SeenInv
  <2> QED
    BY <2>1, <2>2
<1>17. \A u \in Threads : \A x : Storing(u, x)' <=> Storing(u, x)
  BY <1>2, <1>4, <1>5 DEF Storing
<1>18. ListenInv'
  <2> SUFFICES ASSUME NEW u \in Threads, NEW cv \in Automatic, Listens(work'[u], cv)
               PROVE  \E x \in Operands(cv) : Storing(u, x)
    BY <1>6, <1>17 DEF ListenInv, Listens
  <2>1. CASE Listens(work[u], cv)
    BY <2>1 DEF DataInv, ListenInv
  <2>2. CASE u = t /\ cv = v
    <3>1. Calculates(work[t], v)
      BY <2>2
    <3>2. stack \in Seq(Frames) /\ stack # <<>> /\ stack[Len(stack)].pv \in Operands(v)
      BY <1>2, <2>2, <3>1 DEF Calculates, Automatic, Inv, WorkInv, GoodWork
    <3>3. Len(stack) \in 1..Len(stack)
      BY <3>2, EmptySeq, LenProperties
    <3> QED
      BY <1>2, <2>2, <3>2, <3>3 DEF Storing
  <2> QED
    BY <1>15, <2>1, <2>2
<1> QED
  BY <1>9, <1>10, <1>12, <1>13, <1>16, <1>18 DEF DataInv

\* An operand is stored. Every formula over it is now to be seen to, and none of
\* them is being calculated by somebody else.
LEMMA ListenStep ==
    ASSUME Inv, GraphInv, DataInv, CalculationExclusive', phase = "running", NEW t \in Threads, Listen(t)
    PROVE  DataInv'
<1>1. PICK v \in Names, stack \in Seq(Frames) :
          v = work[t].var /\ stack = work[t].stack /\ MayChange(v)
  BY DEF Listen, Inv, WorkInv, GoodWork
<1>2. PICK f : f = [pv |-> v, todo |-> notified[v]]
  OBVIOUS
<1>3. f \in Frames
  BY <1>1, <1>2 DEF Frames, Inv, NotifiedInv
<1>4. PICK w : w = Work("notify", Append(stack, f), None, Waiting)
  OBVIOUS
<1>5. /\ work' = [work EXCEPT ![t] = w] /\ UNCHANGED graphVars /\ UNCHANGED <<published, auto>>
      /\ pv' = [pv EXCEPT ![v] = Converted(work[t].data)] /\ work[t].pc = "listen"
  BY <1>1, <1>2, <1>4 DEF Listen
<1>6. /\ config' = config /\ phase' = phase /\ pvs' = pvs /\ DOMAIN work = Threads
      /\ work'[t] = w /\ \A u \in Threads : u # t => work'[u] = work[u]
  BY <1>5 DEF graphVars, Inv, WorkInv
<1>7. /\ w.pc = "notify" /\ w.stack = Append(stack, f)
      /\ Todo(w.stack) = Todo(stack) \cup Range(notified[v])
      /\ Held(w.stack) = Held(stack) \cup {v}
  BY <1>1, <1>2, <1>3, <1>4, Pushed, PushedTodo DEF Work
<1>8. /\ Automatic' = Automatic /\ Registered' = Registered /\ Registered = Variables
      /\ \A x : (Kept(x)' <=> Kept(x)) /\ Operands(x)' = Operands(x)
  BY <1>6, SameGraph DEF Automatic, Registered, Kept
<1>9. Automatic \subseteq Names /\ Automatic \subseteq Calculated /\ DOMAIN pv = Names
  BY ConfigurationFacts DEF DataInv, ShapeInv, Automatic, Inv
<1>10. \A cv \in Automatic : v \notin Operands(cv) =>
          NotGood(cv)' = NotGood(cv) /\ Calculation(cv)' = Calculation(cv)
  <2> SUFFICES ASSUME NEW cv \in Automatic, v \notin Operands(cv)
               PROVE  NotGood(cv)' = NotGood(cv) /\ Calculation(cv)' = Calculation(cv)
    OBVIOUS
  <2>1. Operands(cv) \subseteq Names
    BY <1>1, <1>9, ConfigurationFacts, NotifiedFormulas DEF GraphInv, Inv
  <2>2. \A x \in Operands(cv) : pv'[x] = pv[x]
    BY <1>5, <1>9, <2>1
  <2> QED
    BY <1>6, <1>9, <2>2, SameCalculation DEF Inv
<1>11. \A cv \in Automatic : v \in Operands(cv) => cv \in Todo(w.stack)
  BY <1>1, <1>7, <1>9, NotifiedFormulas DEF GraphInv
<1>12. ShapeInv'
  BY <1>5, <1>6, <1>7, <1>9 DEF DataInv, ShapeInv
<1>13. AutoInv'
  BY <1>5, <1>8 DEF DataInv, AutoInv
<1>14. FreshInv'
  <2> SUFFICES ASSUME NEW cv \in Automatic \cap Registered, v \notin Operands(cv)
               PROVE  \/ published[cv] = Calculation(cv)
                      \/ cv \in DOMAIN config.initial /\ published[cv] = config.initial[cv]
                      \/ \E u \in Threads : Sees(work'[u], cv)
    <3>1. \A cv \in Automatic : v \in Operands(cv) => Sees(work'[t], cv)
      BY <1>6, <1>11 DEF Sees
    <3> QED
      BY <1>5, <1>6, <1>8, <1>10, <3>1 DEF FreshInv, Sees, Calculates, Todo
  <2>1. ASSUME NEW u \in Threads, Sees(work[u], cv) PROVE Sees(work'[u], cv)
    BY <1>1, <1>5, <1>6, <1>7, <2>1 DEF Sees, Calculates
  <2> QED
    BY <2>1 DEF DataInv, FreshInv
<1>15. CalcInv'
  <2> SUFFICES ASSUME NEW u \in Threads, NEW cv \in Automatic, Calculates(work'[u], cv)
               PROVE  /\ work'[u].pc = "evaluate" => NotGood(cv)' = {}
                      /\ work'[u].pc = "publish" => work'[u].data = Calculation(cv)'
    BY <1>8 DEF CalcInv, Calculates
  <2>1. u # t
    BY <1>6, <1>7 DEF Calculates
  <2>2. v \notin Operands(cv)
    <3>1. Storing(t, v)'
      BY <1>6, <1>7 DEF Storing, Held
    <3>2. Calculating(u, cv)'
      BY DEF Calculating, Calculates
    <3>3. cv \in (Calculated \ config.manual)' /\ Operands(cv)' = Operands(cv)
      BY <1>8 DEF Automatic
    <3> QED
      BY <2>1, <3>1, <3>2, <3>3 DEF CalculationExclusive
  <2> QED
    BY <1>6, <1>10, <2>1, <2>2 DEF DataInv, CalcInv
<1>16. \A u \in Threads : \A x : Listens(work'[u], x) <=> u # t /\ Listens(work[u], x)
  BY <1>6, <1>7 DEF Listens
<1>17. SeenInv'
  <2> SUFFICES ASSUME NEW cv \in Automatic \cap Registered
               PROVE  /\ Kept(cv) => pv'[cv] = Converted(published[cv])
                                     \/ \E u \in Threads : Listens(work'[u], cv)
                      /\ \A u \in Threads : Listens(work'[u], cv) => work'[u].data = published[cv]
    <3>1. published' = published
      BY <1>5
    <3> QED
      BY <1>8, <3>1 DEF SeenInv, Listens, Converted
  <2>1. CASE cv = v
    <3>1. Listens(work[t], cv)
      BY <1>1, <1>5, <2>1 DEF Listens
    <3>2. work[t].data = published[cv]
      BY <3>1 DEF DataInv, SeenInv
    <3>3. pv'[cv] = Converted(published[cv])
      BY <1>5, <1>9, <2>1, <3>2
    <3>4. \A u \in Threads : Listens(work'[u], cv) => work'[u].data = published[cv]
      BY <1>6, <1>16 DEF DataInv, SeenInv
    <3> QED
      BY <3>3, <3>4
  <2>2. CASE cv # v
    <3>1. \A u \in Threads : Listens(work[u], cv) => u # t
      BY <1>1, <2>2 DEF Listens
    <3>2. pv'[cv] = pv[cv]
      BY <1>5, <1>9, <2>2
    <3> QED
      BY <1>6, <1>16, <3>1, <3>2 DEF DataInv, SeenInv
  <2> QED
    BY <2>1, <2>2
<1>18. ListenInv'
  <2> SUFFICES ASSUME NEW u \in Threads, NEW cv \in Automatic, Listens(work'[u], cv)
               PROVE  \E x \in Operands(cv) : Storing(u, x)'
    BY <1>8 DEF ListenInv, Listens
  <2>1. u # t /\ Listens(work[u], cv)
    BY <1>16
  <2>2. work'[u] = work[u]
    BY <1>6, <2>1
  <2> QED
    BY <2>1, <2>2 DEF DataInv, ListenInv, Storing
<1> QED
  BY <1>12, <1>13, <1>14, <1>15, <1>17, <1>18 DEF DataInv

\* Start-up: initial values and first calculations. What is registered later does
\* not touch what was registered before.
LEMMA StartUpData == ASSUME Inv, GraphInv, DataInv, StartUp PROVE DataInv'
<1>1. phase # "running" /\ UNCHANGED <<config, work, auto>>
  BY DEF StartUp, RegisterVariable, InstantiateCalculatedVariable, InstantiateFails, Configured,
         Optimize, Optimized, SetupSynchronization, Synchronized, Configuring
<1>2. Idle.pc = "idle" /\ Idle.stack = <<>>
  BY DEF Idle, Work
<1>3. \A t \in Threads : /\ work[t].pc = "idle" /\ work'[t].pc = "idle"
                         /\ work[t].stack = <<>> /\ work'[t].stack = <<>>
  BY <1>1, <1>2 DEF Inv, QuietInv
<1>4. \A t \in Threads : \A v : /\ ~Calculates(work[t], v) /\ ~Calculates(work'[t], v)
                                /\ ~Listens(work[t], v) /\ ~Listens(work'[t], v)
                                /\ ~Sees(work[t], v)
  BY <1>3 DEF Calculates, Listens, Sees, Todo
<1>5. Automatic' = Automatic /\ Automatic \subseteq Calculated /\ Automatic \subseteq Names
      /\ \A v : Operands(v)' = Operands(v)
  BY <1>1, SameGraph, ConfigurationFacts DEF Automatic, Inv
<1>6. AutoInv'
  BY <1>1, <1>5 DEF DataInv, AutoInv
<1>7. CalcInv'
  BY <1>4 DEF CalcInv, Calculates
<1>8. ListenInv'
  BY <1>4 DEF ListenInv, Listens
<1>9. /\ DOMAIN pv = Names /\ DOMAIN published = Names /\ DOMAIN auto = Names
      /\ \A cv \in Automatic \cap Registered :
            /\ \/ published[cv] = Calculation(cv)
               \/ cv \in DOMAIN config.initial /\ published[cv] = config.initial[cv]
            /\ Kept(cv) => pv[cv] = Converted(published[cv])
  BY <1>4 DEF DataInv, ShapeInv, FreshInv, SeenInv
\* It is enough that every formula registered is up to date.
<1>10. ASSUME DOMAIN pv' = Names, DOMAIN published' = Names,
              \A cv \in Automatic \cap Registered' :
                  /\ \/ published'[cv] = Calculation(cv)'
                     \/ cv \in DOMAIN config.initial /\ published'[cv] = config.initial[cv]
                  /\ Kept(cv)' => pv'[cv] = Converted(published'[cv])
       PROVE  DataInv'
  <2>1. ShapeInv'
    BY <1>1, <1>3, <1>9, <1>10 DEF ShapeInv
  <2>2. FreshInv'
    BY <1>1, <1>5, <1>10 DEF FreshInv
  <2>3. SeenInv'
    BY <1>4, <1>5, <1>10 DEF SeenInv, Listens, Converted
  <2> QED
    BY <1>6, <1>7, <1>8, <2>1, <2>2, <2>3 DEF DataInv
\* Registering x with value d.
<1>11. ASSUME NEW x \in Names, NEW d, x \notin Registered, Registered' = Registered \cup {x},
              Registered = Range(pvs), published' = [published EXCEPT ![x] = d],
              pv' = [pv EXCEPT ![x] = Converted(d)], Registered \subseteq Names,
              x \in Automatic => /\ d = Calculation(x) \/ (x \in DOMAIN config.initial /\ d = config.initial[x])
                                 /\ Operands(x) \subseteq Registered
       PROVE  DataInv'
  <2>1. ASSUME NEW cv \in Automatic, Operands(cv) \subseteq Registered
        PROVE  Calculation(cv)' = Calculation(cv)
    <3>1. \A v \in Operands(cv) : pv'[v] = pv[v]
      BY <1>9, <1>11, <2>1
    <3> QED
      BY <1>1, <1>5, <3>1, SameCalculation DEF Inv
  <2>2. /\ published'[x] = d /\ pv'[x] = Converted(d)
        /\ \A v \in Registered : published'[v] = published[v] /\ pv'[v] = pv[v]
        /\ DOMAIN pv' = Names /\ DOMAIN published' = Names
    BY <1>9, <1>11
  <2>3. ASSUME NEW cv \in Automatic \cap Registered'
        PROVE  /\ \/ published'[cv] = Calculation(cv)'
                  \/ cv \in DOMAIN config.initial /\ published'[cv] = config.initial[cv]
               /\ Kept(cv)' => pv'[cv] = Converted(published'[cv])
    <3>1. CASE cv = x
      BY <1>11, <2>1, <2>2, <3>1
    <3>2. CASE cv # x
      <4>1. cv \in Registered /\ Kept(cv)
        BY <1>11, <3>2 DEF Kept
      <4>2. Operands(cv) \subseteq Registered
        BY <1>5, <4>1 DEF GraphInv, FormulaInv
      <4> QED
        BY <1>9, <2>1, <2>2, <4>1, <4>2
    <3> QED
      BY <3>1, <3>2
  <2> QED
    BY <1>10, <2>2, <2>3
<1>12. CASE RegisterVariable \/ InstantiateCalculatedVariable
  <2>1. /\ Next1 \in Names /\ Next1 \notin Registered /\ Registered' = Registered \cup {Next1}
        /\ Registered = Range(pvs) /\ Registered \subseteq Names
    <3>1. /\ Next1 \in Variables /\ Next1 \notin Registered /\ Registered' = Registered \cup {Next1}
          /\ Registered = Range(pvs)
      BY <1>12, Registering DEF RegisterVariable, InstantiateCalculatedVariable, GraphInv
    <3>2. Range(pvs) \subseteq Names /\ Variables \subseteq Names
      BY SeqElements, ConfigurationFacts DEF GraphInv, PvsInv, Inv
    <3> QED
      BY <3>1, <3>2
  <2>2. PICK x \in Names : x = Next1
    BY <2>1
  <2>3. CASE RegisterVariable
    <3>1. /\ published' = [published EXCEPT ![x] = config.initial[x]]
          /\ pv' = [pv EXCEPT ![x] = Converted(config.initial[x])] /\ x \notin Automatic
      BY <2>2, <2>3 DEF RegisterVariable, Plain, Automatic
    <3> QED
      BY <1>11, <2>1, <2>2, <3>1
  <2>4. CASE InstantiateCalculatedVariable
    <3>1. PICK d : d = IF x \in DOMAIN config.initial THEN config.initial[x] ELSE Calculation(x)
      OBVIOUS
    <3>2. /\ published' = [published EXCEPT ![x] = d]
          /\ pv' = [pv EXCEPT ![x] = Converted(d)] /\ Operands(x) \subseteq Registered
      BY <2>1, <2>2, <2>4, <3>1 DEF InstantiateCalculatedVariable
    <3>3. d = Calculation(x) \/ (x \in DOMAIN config.initial /\ d = config.initial[x])
      BY <3>1
    <3> QED
      BY <1>11, <2>1, <2>2, <3>2, <3>3
  <2> QED
    BY <1>12, <2>3, <2>4
<1>13. CASE ~(RegisterVariable \/ InstantiateCalculatedVariable)
  <2>1. UNCHANGED <<pv, published>>
    BY <1>13 DEF StartUp, InstantiateFails, Configured,
         Optimize, Optimized, SetupSynchronization, Synchronized
  <2>2. \A cv \in Automatic : Calculation(cv)' = Calculation(cv)
    BY <1>1, <1>5, <2>1, SameCalculation DEF Inv
  <2>3. Registered' = Registered
    BY <1>13, RegisteredSame
  <2>4. \A v : Kept(v)' => Kept(v)
    BY <1>13, KeptShrinks
  <2> QED
    BY <1>9, <1>10, <2>1, <2>2, <2>3, <2>4
<1> QED
  BY <1>12, <1>13

\* Every step leaves each formula up to date or somebody to see to it.
LEMMA DataStep ==
    ASSUME Inv, GraphInv, DataInv, CalculationExclusive, CalculationExclusive', [Next]_vars
    PROVE  DataInv'
<1>0. Calculated \subseteq Names /\ config.manual \subseteq Calculated
  BY ConfigurationFacts DEF Inv
<1>1. CASE StartUp
  BY <1>1, StartUpData
<1>2. ASSUME NEW t \in Threads, NEW v \in Names, NEW d \in Data, SetValue(t, v, d) PROVE DataInv'
  <2>1. /\ phase = "running" /\ UNCHANGED graphVars /\ UNCHANGED <<pv, auto>>
        /\ Stored(t, v, d, <<>>) /\ v \notin Automatic /\ work[t].pc = "idle"
    BY <1>2 DEF SetValue, Plain, Automatic
  <2>2. work[t].stack = <<>>
    BY <2>1 DEF DataInv, ShapeInv
  <2>3. \A cv \in Automatic : ~Calculates(work[t], cv)
    BY <2>1 DEF Calculates
  <2>4. work[t].pc # "listen" /\ Stored(t, v, d, work[t].stack)
    BY <2>1, <2>2
  <2> QED
    BY <2>1, <2>3, <2>4, StoreStep
<1>3. ASSUME NEW t \in Threads, Listen(t) PROVE DataInv'
  BY <1>3, BusyRunning, ListenStep DEF Listen
<1>4. ASSUME NEW t \in Threads, Update(t) PROVE DataInv'
  <2>1. PICK stack \in Seq(Frames) : stack = work[t].stack /\ stack # <<>>
    BY <1>4 DEF Update, Inv, WorkInv, GoodWork
  <2>2. PICK under \in Seq(Frames), top \in Frames : under = Popped(stack) /\ top = stack[Len(stack)]
    BY <2>1, PoppedStack
  <2>3. top.todo # <<>> /\ work[t].pc = "notify" /\ UNCHANGED graphVars
        /\ UNCHANGED <<pv, published, auto>>
    BY <1>4, <2>1, <2>2 DEF Update, Top
  <2>4. PICK g \in Frames : g = [top EXCEPT !.todo = Tail(@)]
    BY <2>3, NextNotified, Zenon
  <2>5. PICK cv \in Calculated : cv = Head(top.todo)
    BY <2>3, NextNotified, Zenon
  <2>6. PICK rest \in Seq(Frames) : rest = Append(under, g) /\ rest # <<>>
    BY Pushed
  <2>7. IF auto[cv] THEN StartCalculation(t, cv, rest)
                    ELSE work' = [work EXCEPT ![t] = Resumed(rest)]
    BY <1>4, <2>1, <2>2, <2>4, <2>5, <2>6 DEF Update, Top
  <2>8. Todo(stack) \subseteq {cv} \cup Todo(rest)
    <3>1. Todo(stack) = Todo(under) \cup Range(top.todo)
      BY <2>1, <2>2, PoppedTodo
    <3>2. Todo(rest) = Todo(under) \cup Range(g.todo)
      BY <2>6, PushedTodo
    <3>3. top.todo \in Seq(Calculated) /\ g.todo = Tail(top.todo)
      BY <2>4 DEF Frames
    <3>4. Range(top.todo) = {cv} \cup Range(g.todo)
      BY <2>3, <2>5, <3>3, NextTodo
    <3> QED
      BY <3>1, <3>2, <3>4
  <2>9. ASSUME NEW w, work' = [work EXCEPT ![t] = w], w.stack = rest, w.pc \notin {"listen", "idle"},
               cv \in Automatic => Calculates(w, cv),
               \A c \in Automatic : Calculates(w, c) =>
                    /\ w.pc = "evaluate" => NotGood(c) = {}
                    /\ w.pc = "publish" => w.data = Calculation(c)
        PROVE  DataInv'
    <3>1. \A c \in Automatic : Sees(work[t], c) => Sees(w, c)
      BY <2>1, <2>3, <2>8, <2>9 DEF Sees, Calculates
    <3> QED
      BY <2>3, <2>9, <3>1, QuietStep
  <2>10. CASE auto[cv]
    <3>1. PICK w : w = IF NotGood(cv) # {} THEN Work("publish", rest, cv, Propagated(cv))
                                          ELSE Work("evaluate", rest, cv, Waiting)
      OBVIOUS
    <3>2. work' = [work EXCEPT ![t] = w]
      BY <2>7, <2>10, <3>1 DEF StartCalculation
    <3>3. /\ w.stack = rest /\ w.var = cv /\ w.pc \in {"evaluate", "publish"}
          /\ w.pc = "evaluate" => NotGood(cv) = {}
          /\ w.pc = "publish" => w.data = Calculation(cv)
      BY <3>1 DEF Work, Calculation
    <3>4. Calculates(w, cv) /\ \A c : Calculates(w, c) => c = cv
      BY <3>3 DEF Calculates
    <3> QED
      BY <2>9, <3>2, <3>3, <3>4
  <2>11. CASE ~auto[cv]
    <3>1. cv \notin Automatic
      BY <2>11 DEF DataInv, AutoInv
    <3>2. PICK w : w = Resumed(rest)
      OBVIOUS
    <3>3. work' = [work EXCEPT ![t] = w] /\ w.stack = rest /\ w.pc = "notify"
      BY <2>6, <2>7, <2>11, <3>2 DEF Resumed, Work
    <3>4. \A c : ~Calculates(w, c)
      BY <3>3 DEF Calculates
    <3> QED
      BY <2>9, <3>1, <3>3, <3>4
  <2> QED
    BY <2>10, <2>11
<1>5. ASSUME NEW t \in Threads, Evaluate(t) PROVE DataInv'
  <2>1. PICK w : w = Work("publish", work[t].stack, work[t].var, Evaluated(work[t].var))
    OBVIOUS
  <2>2. /\ work' = [work EXCEPT ![t] = w] /\ UNCHANGED graphVars /\ work[t].pc = "evaluate"
        /\ UNCHANGED <<pv, published, auto>>
    BY <1>5, <2>1 DEF Evaluate, Inv, WorkInv
  <2>3. /\ w.stack = work[t].stack /\ w.var = work[t].var /\ w.pc = "publish"
        /\ w.data = Evaluated(work[t].var)
    BY <2>1 DEF Work
  <2>4. \A cv \in Automatic : Calculates(w, cv) => w.data = Calculation(cv)
    BY <2>2, <2>3 DEF DataInv, CalcInv, Calculates, Calculation
  <2>5. \A cv \in Automatic : Sees(work[t], cv) => Sees(w, cv)
    BY <2>3 DEF Sees, Calculates
  <2> QED
    BY <2>2, <2>3, <2>4, <2>5, QuietStep
<1>6. ASSUME NEW t \in Threads, Publish(t) PROVE DataInv'
  <2>1. PICK v \in Calculated : v = work[t].var
    BY <1>6 DEF Publish, Inv, WorkInv, GoodWork
  <2>2. /\ Stored(t, v, work[t].data, work[t].stack) /\ UNCHANGED graphVars /\ work[t].pc = "publish"
        /\ UNCHANGED <<pv, auto>>
    BY <1>6, <2>1 DEF Publish
  <2>3. phase = "running"
    BY <2>2, BusyRunning
  <2>4. Calculates(work[t], v) /\ \A cv : Calculates(work[t], cv) => v = cv
    BY <2>1, <2>2 DEF Calculates
  <2>5. v \in Automatic => work[t].data = Calculation(v)
    BY <2>2, <2>4 DEF DataInv, CalcInv
  <2>6. v \in Names /\ work[t].pc # "listen"
    BY <1>0, <2>2
  <2> QED
    BY <2>2, <2>3, <2>4, <2>5, <2>6, StoreStep
<1>7. ASSUME NEW t \in Threads, Return(t) PROVE DataInv'
  <2>1. PICK stack \in Seq(Frames) : stack = work[t].stack /\ stack # <<>>
    BY <1>7 DEF Return, Inv, WorkInv, GoodWork
  <2>2. /\ stack[Len(stack)].todo = <<>> /\ work[t].pc = "notify"
        /\ UNCHANGED graphVars /\ UNCHANGED <<pv, published, auto>>
    BY <1>7, <2>1 DEF Return, Top
  <2>3. Todo(stack) = Todo(Popped(stack))
    <3>1. Range(stack[Len(stack)].todo) = {}
      BY <2>2 DEF Range
    <3> QED
      BY <2>1, <3>1, PoppedTodo
  <2>4. PICK w : w = Resumed(Popped(stack))
    OBVIOUS
  <2>5. work' = [work EXCEPT ![t] = w]
    BY <1>7, <2>1, <2>4 DEF Return, Inv, WorkInv
  <2>6. w.stack = Popped(stack) /\ w.pc \in {"idle", "notify"} /\ (w.pc = "idle" => w.stack = <<>>)
    BY <2>4 DEF Resumed, Idle, Work
  <2>7. \A cv \in Automatic : Sees(work[t], cv) => Sees(w, cv)
    BY <2>1, <2>2, <2>3, <2>6 DEF Sees, Calculates
  <2>8. \A cv : ~Calculates(w, cv)
    BY <2>6 DEF Calculates
  <2>9. w.pc # "listen" /\ work[t].pc # "listen"
    BY <2>2, <2>6
  <2> QED
    BY <2>2, <2>5, <2>6, <2>7, <2>8, <2>9, QuietStep
<1>8. ASSUME NEW t \in Threads, NEW cv \in Names, TriggerRecalculation(t, cv) PROVE DataInv'
  <2>1. /\ UNCHANGED graphVars /\ UNCHANGED <<pv, published, auto>> /\ cv \notin Automatic
        /\ StartCalculation(t, cv, <<>>) /\ work[t].pc = "idle"
    BY <1>8 DEF TriggerRecalculation, Automatic
  <2>2. PICK w : w = IF NotGood(cv) # {} THEN Work("publish", <<>>, cv, Propagated(cv))
                                        ELSE Work("evaluate", <<>>, cv, Waiting)
    OBVIOUS
  <2>3. work' = [work EXCEPT ![t] = w]
    BY <2>1, <2>2 DEF StartCalculation
  <2>4. w.stack = <<>> /\ w.var = cv /\ w.pc \in {"evaluate", "publish"}
    BY <2>2 DEF Work
  <2>5. \A c \in Automatic : ~Calculates(w, c)
    BY <2>1, <2>4 DEF Calculates
  <2>6. \A c \in Automatic : ~Sees(work[t], c)
    <3>1. work[t].stack = <<>>
      BY <2>1 DEF DataInv, ShapeInv
    <3> QED
      BY <2>1, <3>1 DEF Sees, Calculates, Todo
  <2>7. w.pc # "listen" /\ w.pc # "idle" /\ work[t].pc # "listen"
    BY <2>1, <2>4
  <2> QED
    BY <2>1, <2>3, <2>5, <2>6, <2>7, QuietStep
<1>9. CASE UNCHANGED vars \/ \E cv \in Names : SetAutoUpdate(cv)
  <2>1. UNCHANGED <<config, phase, pvs, work, pv, published>>
    BY <1>9 DEF vars, SetAutoUpdate, graphVars
  <2>2. /\ Automatic' = Automatic /\ Registered' = Registered
        /\ \A v : (Kept(v)' <=> Kept(v)) /\ Operands(v)' = Operands(v)
    BY <2>1, SameGraph DEF Automatic, Registered, Kept
  <2>3. \A cv \in Automatic : NotGood(cv)' = NotGood(cv) /\ Calculation(cv)' = Calculation(cv)
    BY <2>1, SameCalculation DEF Inv, Automatic
  <2>4. DOMAIN auto' = Names /\ \A cv \in Automatic : auto'[cv] = auto[cv]
    BY <1>0, <1>9 DEF vars, SetAutoUpdate, DataInv, ShapeInv, Automatic
  <2>5. ShapeInv' /\ AutoInv'
    BY <2>1, <2>2, <2>4 DEF DataInv, ShapeInv, AutoInv
  <2>6. FreshInv'
    BY <2>1, <2>2, <2>3 DEF DataInv, FreshInv, Sees, Calculates, Todo
  <2>7. CalcInv'
    BY <2>1, <2>2, <2>3 DEF DataInv, CalcInv, Calculates
  <2>8. SeenInv'
    BY <2>1, <2>2 DEF DataInv, SeenInv, Listens, Converted
  <2>9. ListenInv'
    BY <2>1, <2>2 DEF DataInv, ListenInv, Listens, Storing
  <2> QED
    BY <2>5, <2>6, <2>7, <2>8, <2>9 DEF DataInv
<1> QED
  BY <1>1, <1>2, <1>3, <1>4, <1>5, <1>6, <1>7, <1>8, <1>9 DEF Next, Setter

\* When nobody is left to see to a formula, it is up to date.
LEMMA Settled == ASSUME Inv, GraphInv, DataInv PROVE SettledConsistent
<1> SUFFICES ASSUME phase = "running", \A t \in Threads : work[t] = Idle, NEW cv \in Automatic
             PROVE  /\ \/ published[cv] = Calculation(cv)
                       \/ cv \in DOMAIN config.initial /\ published[cv] = config.initial[cv]
                    /\ \A v \in Operands(cv) : Kept(v)
                    /\ Kept(cv) => pv[cv] = Converted(published[cv])
  BY DEF SettledConsistent, Automatic
<1>1. \A t \in Threads : ~Sees(work[t], cv) /\ ~Listens(work[t], cv)
  BY DEF Idle, Work, Sees, Calculates, Todo, Listens
<1>2. cv \in Calculated /\ cv \in Registered /\ Variables \subseteq Names
  BY ConfigurationFacts DEF Automatic, Registered, Inv
<1>3. ASSUME NEW v \in Operands(cv) PROVE Kept(v)
  <2>1. cv \in Names
    BY <1>2, ConfigurationFacts DEF Inv
  <2>2. v \in Variables /\ v \in Names
    BY <1>2, <2>1, NotifiedFormulas DEF GraphInv
  <2>3. ~Unused(v)
    BY <1>2, <2>2, NotifiedFormulas DEF GraphInv, Stays, Used
  <2> QED
    BY <2>2, <2>3 DEF GraphInv, PvsInv
<1> QED
  BY <1>1, <1>2, <1>3 DEF DataInv, FreshInv, SeenInv

\* For any number of threads and any order of their setters, results that
\* nobody switches to manual updates are those of the operands as they are, as
\* soon as all setters have returned.
THEOREM NothingStale == Spec /\ OperandsJoined => []SettledConsistent
<1>1. Init => DataInv
  <2> SUFFICES ASSUME Init PROVE DataInv
    OBVIOUS
  <2>1. Registered = {}
    BY DEF Init, Registered, Range
  <2>2. Idle.pc = "idle" /\ Idle.stack = <<>>
    BY DEF Idle, Work
  <2>3. \A t \in Threads : work[t] = Idle
    BY DEF Init
  <2>4. ShapeInv
    BY <2>2, <2>3 DEF Init, ShapeInv
  <2>5. AutoInv
    BY ConfigurationFacts DEF Init, AutoInv, Automatic
  <2>6. FreshInv /\ SeenInv
    BY <2>1 DEF FreshInv, SeenInv
  <2>7. CalcInv /\ ListenInv
    BY <2>2, <2>3 DEF CalcInv, ListenInv, Calculates, Listens
  <2> QED
    BY <2>4, <2>5, <2>6, <2>7 DEF DataInv
<1>2. Inv /\ GraphInv /\ OperandsJoined /\ [Next]_vars => Inv' /\ GraphInv' /\ OperandsJoined'
  BY InvStep, GraphStep, JoinedStays
<1>3. Inv /\ GraphInv /\ OperandsJoined => CalculationExclusive
  BY Excluded
<1>4. Inv /\ GraphInv /\ DataInv /\ CalculationExclusive /\ CalculationExclusive' /\ [Next]_vars => DataInv'
  BY DataStep
<1>5. Inv /\ GraphInv /\ DataInv => SettledConsistent
  BY Settled
<1> QED
  BY Initially, <1>1, <1>2, <1>3, <1>4, <1>5, PTL DEF Spec

-----------------------------------------------------------------------------
(* Nested setters: they end, and they do not wait for each other.          *)

\* Setters nest from operands to results, along the order of registration, and
\* all under one synchronizer; only the outermost may be that of a constant,
\* which has none.
Nested(stack) ==
    \A i, j \in 1..Len(stack) :
        /\ i < j => Before(stack[i].pv, stack[j].pv) /\ ~IsConstant(stack[j].pv)
        /\ ~IsConstant(stack[i].pv) /\ ~IsConstant(stack[j].pv) => sync[stack[i].pv] = sync[stack[j].pv]

\* The next setter is that of a result of the innermost.
GoodNext(w) ==
    /\ Nested(w.stack)
    /\ w.pc \in {"listen", "evaluate", "publish"} /\ w.stack # <<>> =>
        w.var \in Calculated /\ w.stack[Len(w.stack)].pv \in Operands(w.var)
    /\ w.pc = "listen" => Kept(w.var)

NestInv == \A t \in Threads : GoodNext(work[t])

\* Registration is an order.
LEMMA BeforeOrders ==
    ASSUME config \in Configurations
    PROVE  /\ \A u, v, w : Before(u, v) /\ Before(v, w) => Before(u, w)
           /\ \A v : ~Before(v, v)
<1>1. /\ \A i, j \in 1..Len(config.order) : config.order[i] = config.order[j] => i = j
      /\ Len(config.order) \in Nat
  BY ConfigurationFacts, LenProperties
<1>2. ASSUME NEW u, NEW v, NEW w, Before(u, v), Before(v, w) PROVE Before(u, w)
  <2>1. PICK i, j \in 1..Len(config.order) : i < j /\ config.order[i] = u /\ config.order[j] = v
    BY <1>2 DEF Before
  <2>2. PICK k, l \in 1..Len(config.order) : k < l /\ config.order[k] = v /\ config.order[l] = w
    BY <1>2 DEF Before
  <2>3. j = k
    BY <1>1, <2>1, <2>2
  <2>4. i < l
    BY <1>1, <2>1, <2>2, <2>3
  <2> QED
    BY <2>1, <2>2, <2>4 DEF Before
<1>3. ASSUME NEW v, Before(v, v) PROVE FALSE
  <2>1. PICK i, j \in 1..Len(config.order) : i < j /\ config.order[i] = v /\ config.order[j] = v
    BY <1>3 DEF Before
  <2> QED
    BY <1>1, <2>1
<1> QED
  BY <1>2, <1>3

\* Leaving a setter, or taking its next formula.
LEMMA NestedPrefix ==
    ASSUME NEW s1, NEW s2, Nested(s1), Len(s1) \in Nat, Len(s2) \in Nat, Len(s2) <= Len(s1),
           \A i \in 1..Len(s2) : s2[i].pv = s1[i].pv
    PROVE  Nested(s2)
<1>1. \A i \in 1..Len(s2) : i \in 1..Len(s1)
  OBVIOUS
<1> QED
  BY <1>1 DEF Nested

\* Entering the setter of a result.
LEMMA NestedPush ==
    ASSUME Inv, GraphInv, phase = "running", NEW stack \in Seq(Frames), NEW f \in Frames, Nested(stack),
           Kept(f.pv), stack # <<>> => f.pv \in Calculated /\ stack[Len(stack)].pv \in Operands(f.pv)
    PROVE  Nested(Append(stack, f))
<1>1. PICK n \in Nat : n = Len(stack)
  BY LenProperties
<1>2. PICK s : s = Append(stack, f)
  OBVIOUS
<1>3. Len(s) = n + 1 /\ s[n + 1] = f /\ \A i \in 1..n : s[i] = stack[i]
  BY <1>1, <1>2, AppendProperties
<1>4. \A i \in 1..(n + 1) : i \in 1..n \/ i = n + 1
  OBVIOUS
<1>5. ASSUME NEW i \in 1..n
      PROVE  /\ Before(stack[i].pv, f.pv) /\ ~IsConstant(f.pv)
             /\ ~IsConstant(stack[i].pv) => sync[stack[i].pv] = sync[f.pv]
  <2>1. n \in 1..n /\ n >= i /\ stack # <<>>
    BY <1>1, EmptySeq
  <2>2. f.pv \in Calculated /\ stack[n].pv \in Operands(f.pv)
    BY <1>1, <2>1
  <2>3. f.pv \in Names /\ Calculated \subseteq Variables /\ Calculated \subseteq Names
    BY ConfigurationFacts DEF Frames, Inv
  <2>4. Before(stack[n].pv, f.pv) /\ ~IsConstant(f.pv)
    <3>1. f.pv \in Registered
      BY <2>2, <2>3 DEF Registered
    <3> QED
      BY <2>2, <3>1 DEF GraphInv, FormulaInv, IsConstant
  <2>5. ~IsConstant(stack[n].pv) => sync[stack[n].pv] = sync[f.pv]
    <3>1. Stays(f.pv)
      BY <2>3, NotifiedFormulas DEF GraphInv, PvsInv
    <3> QED
      BY <2>2, <3>1 DEF GraphInv, SyncInv
  <2>6. CASE i = n
    BY <2>4, <2>5, <2>6
  <2>7. CASE i # n
    <3>1. i < n
      BY <2>1, <2>7
    <3>2. /\ Before(stack[i].pv, stack[n].pv) /\ ~IsConstant(stack[n].pv)
          /\ ~IsConstant(stack[i].pv) => sync[stack[i].pv] = sync[stack[n].pv]
      BY <1>1, <2>1, <3>1 DEF Nested
    <3>3. Before(stack[i].pv, f.pv)
      BY <2>4, <3>2, BeforeOrders DEF Inv
    <3> QED
      BY <2>4, <2>5, <3>2, <3>3
  <2> QED
    BY <2>6, <2>7
<1>6. ASSUME NEW i \in 1..(n + 1), NEW j \in 1..(n + 1)
      PROVE  /\ i < j => Before(s[i].pv, s[j].pv) /\ ~IsConstant(s[j].pv)
             /\ ~IsConstant(s[i].pv) /\ ~IsConstant(s[j].pv) => sync[s[i].pv] = sync[s[j].pv]
  <2>1. CASE i \in 1..n /\ j \in 1..n
    BY <1>1, <1>3, <2>1 DEF Nested
  <2>2. CASE i \in 1..n /\ j = n + 1
    BY <1>3, <1>5, <2>2
  <2>3. CASE i = n + 1 /\ j \in 1..n
    <3>1. ~(i < j)
      BY <2>3
    <3> QED
      BY <1>3, <1>5, <2>3, <3>1
  <2>4. CASE i = n + 1 /\ j = n + 1
    BY <2>4
  <2> QED
    BY <1>4, <2>1, <2>2, <2>3, <2>4
<1> QED
  BY <1>2, <1>3, <1>6 DEF Nested

\* What good nesting is depends on the graph alone.
LEMMA SameNesting ==
    ASSUME UNCHANGED graphVars, \A u \in Threads : GoodNext(work'[u])
    PROVE  NestInv'
<1>1. config' = config /\ sync' = sync /\ pvs' = pvs
  BY DEF graphVars
<1>2. /\ Calculated' = Calculated /\ \A v : Operands(v)' = Operands(v)
      /\ \A v : (IsConstant(v)' <=> IsConstant(v)) /\ (Kept(v)' <=> Kept(v))
      /\ \A v, x : Before(v, x)' <=> Before(v, x)
  BY <1>1, SameGraph DEF Kept
<1>3. ASSUME NEW u \in Threads PROVE GoodNext(work[u])'
  <2>1. PICK y : y = work'[u] /\ GoodNext(y)
    OBVIOUS
  <2>2. Nested(work[u].stack)'
    BY <1>1, <1>2, <2>1 DEF GoodNext, Nested
  <2> QED
    BY <1>1, <1>2, <2>1, <2>2 DEF GoodNext
<1> QED
  BY <1>3 DEF NestInv

\* One thread moves.
LEMMA NestMove ==
    ASSUME Inv, NestInv, UNCHANGED graphVars, NEW t \in Threads, NEW w, work' = [work EXCEPT ![t] = w],
           GoodNext(w)
    PROVE  NestInv'
<1>1. work'[t] = w /\ \A u \in Threads : u # t => work'[u] = work[u]
  BY DEF Inv, WorkInv
<1>2. \A u \in Threads : GoodNext(work'[u])
  BY <1>1 DEF NestInv
<1> QED
  BY <1>2, SameNesting

\* Every step keeps the nesting.
LEMMA NestStep == ASSUME Inv, GraphInv, NestInv, [Next]_vars PROVE NestInv'
<1>0. Nested(<<>>)
  BY DEF Nested
<1>1. CASE StartUp
  <2>1. \A t \in Threads : work'[t] = Idle
    BY <1>1 DEF StartUp, RegisterVariable, InstantiateCalculatedVariable, InstantiateFails, Configured,
         Optimize, Optimized, SetupSynchronization, Synchronized, Configuring, Inv, QuietInv
  <2>2. \A t \in Threads : work'[t].pc = "idle" /\ work'[t].stack = <<>>
    BY <2>1 DEF Idle, Work
  <2> QED
    BY <2>2 DEF NestInv, GoodNext, Nested
<1>2. ASSUME NEW t \in Threads, NEW v \in Names, NEW d \in Data, SetValue(t, v, d) PROVE NestInv'
  <2>1. PICK w : w = IF Kept(v) THEN Work("listen", <<>>, v, d) ELSE Resumed(<<>>)
    OBVIOUS
  <2>2. work' = [work EXCEPT ![t] = w] /\ UNCHANGED graphVars
    BY <1>2, <2>1 DEF SetValue, Stored
  <2>3. w.stack = <<>> /\ (w.pc = "listen" => Kept(w.var))
    BY <2>1 DEF Work, Resumed, Idle
  <2>4. GoodNext(w)
    BY <1>0, <2>3 DEF GoodNext
  <2> QED
    BY <2>2, <2>4, NestMove
<1>3. ASSUME NEW t \in Threads, Listen(t) PROVE NestInv'
  <2>1. PICK v \in Names, stack \in Seq(Frames) :
            v = work[t].var /\ stack = work[t].stack /\ MayChange(v)
    BY <1>3 DEF Listen, Inv, WorkInv, GoodWork
  <2>2. PICK f : f = [pv |-> v, todo |-> notified[v]]
    OBVIOUS
  <2>3. f \in Frames /\ f.pv = v
    BY <2>1, <2>2 DEF Frames, Inv, NotifiedInv
  <2>4. PICK w : w = Work("notify", Append(stack, f), None, Waiting)
    OBVIOUS
  <2>5. work' = [work EXCEPT ![t] = w] /\ UNCHANGED graphVars /\ work[t].pc = "listen"
    BY <1>3, <2>1, <2>2, <2>4 DEF Listen
  <2>6. /\ Nested(stack) /\ Kept(f.pv)
        /\ stack # <<>> => f.pv \in Calculated /\ stack[Len(stack)].pv \in Operands(f.pv)
    BY <2>1, <2>3, <2>5 DEF NestInv, GoodNext
  <2>7. Nested(Append(stack, f))
    BY <2>3, <2>5, <2>6, BusyRunning, NestedPush
  <2>8. GoodNext(w)
    BY <2>4, <2>7 DEF GoodNext, Work
  <2> QED
    BY <2>5, <2>8, NestMove
<1>4. ASSUME NEW t \in Threads, Update(t) PROVE NestInv'
  <2>1. PICK stack \in Seq(Frames) : stack = work[t].stack /\ stack # <<>> /\ Nested(stack)
    BY <1>4 DEF Update, Inv, WorkInv, GoodWork, NestInv, GoodNext
  <2>2. PICK under \in Seq(Frames), top \in Frames : under = Popped(stack) /\ top = stack[Len(stack)]
    BY <2>1, PoppedStack
  <2>3. top.todo # <<>> /\ UNCHANGED graphVars
    BY <1>4, <2>1, <2>2 DEF Update, Top
  <2>4. PICK g \in Frames : g = [top EXCEPT !.todo = Tail(@)] /\ g.pv = top.pv
    BY <2>3, NextNotified, Zenon
  <2>5. PICK cv \in Calculated : cv = Head(top.todo) /\ top.pv \in Operands(cv)
    BY <2>3, NextNotified, Zenon
  <2>6. PICK rest : rest = Append(under, g)
    OBVIOUS
  <2>7. IF auto[cv] THEN StartCalculation(t, cv, rest)
                    ELSE work' = [work EXCEPT ![t] = Resumed(rest)]
    BY <1>4, <2>1, <2>2, <2>4, <2>5, <2>6 DEF Update, Top
  <2>8. Nested(rest) /\ rest[Len(rest)] = g /\ rest # <<>>
    <3>1. PICK n \in Nat : Len(stack) = n + 1
      <4>1. Len(stack) \in Nat /\ Len(stack) # 0
        BY <2>1, EmptySeq, LenProperties
      <4>2. Len(stack) - 1 \in Nat /\ Len(stack) = (Len(stack) - 1) + 1
        BY <4>1
      <4> QED
        BY <4>2
    <3>2. Len(under) = n /\ \A i \in 1..n : under[i] = stack[i]
      BY <2>2, <3>1, SubSeqProperties DEF Popped
    <3>3. Len(rest) = n + 1 /\ rest[n + 1] = g /\ \A i \in 1..n : rest[i] = under[i]
      BY <2>6, <3>2, AppendProperties
    <3>4. \A i \in 1..(n + 1) : i \in 1..n \/ i = n + 1
      OBVIOUS
    <3>5. \A i \in 1..(n + 1) : rest[i].pv = stack[i].pv
      BY <2>2, <2>4, <3>1, <3>2, <3>3, <3>4, ZenonT(30)
    <3>6. Nested(rest)
      <4>1. /\ Len(stack) \in Nat /\ Len(rest) \in Nat /\ Len(rest) <= Len(stack)
            /\ \A i \in 1..Len(rest) : rest[i].pv = stack[i].pv
        BY <3>1, <3>3, <3>5
      <4> QED
        BY <2>1, <4>1, NestedPrefix
    <3>7. rest # <<>>
      BY <2>6, Pushed
    <3> QED
      BY <3>3, <3>6, <3>7
  <2>9. PICK w : w = IF auto[cv] THEN IF NotGood(cv) # {} THEN Work("publish", rest, cv, Propagated(cv))
                                                          ELSE Work("evaluate", rest, cv, Waiting)
                                 ELSE Work("notify", rest, None, Waiting)
    OBVIOUS
  <2>10. work' = [work EXCEPT ![t] = w]
    BY <2>7, <2>8, <2>9 DEF StartCalculation, Resumed
  <2>11. w.stack = rest /\ w.pc # "listen" /\ (w.pc \in {"evaluate", "publish"} => w.var = cv)
    BY <2>9 DEF Work
  <2>12. GoodNext(w)
    BY <2>4, <2>5, <2>8, <2>11 DEF GoodNext
  <2> QED
    BY <2>3, <2>10, <2>12, NestMove
<1>5. ASSUME NEW t \in Threads, Evaluate(t) PROVE NestInv'
  <2>1. PICK w : w = Work("publish", work[t].stack, work[t].var, Evaluated(work[t].var))
    OBVIOUS
  <2>2. work' = [work EXCEPT ![t] = w] /\ UNCHANGED graphVars /\ work[t].pc = "evaluate"
    BY <1>5, <2>1 DEF Evaluate, Inv, WorkInv
  <2>3. w.stack = work[t].stack /\ w.var = work[t].var /\ w.pc = "publish"
    BY <2>1 DEF Work
  <2>4. GoodNext(w)
    BY <2>2, <2>3 DEF NestInv, GoodNext
  <2> QED
    BY <2>2, <2>4, NestMove
<1>6. ASSUME NEW t \in Threads, Publish(t) PROVE NestInv'
  <2>1. PICK v, stack : v = work[t].var /\ stack = work[t].stack
    OBVIOUS
  <2>2. PICK w : w = IF Kept(v) THEN Work("listen", stack, v, work[t].data) ELSE Resumed(stack)
    OBVIOUS
  <2>3. work' = [work EXCEPT ![t] = w] /\ UNCHANGED graphVars /\ work[t].pc = "publish"
    BY <1>6, <2>1, <2>2 DEF Publish, Stored
  <2>4. /\ w.stack = stack /\ w.pc \in {"listen", "notify", "idle"}
        /\ w.pc = "listen" => w.var = v /\ Kept(v)
    BY <2>2 DEF Work, Resumed, Idle
  <2>5. GoodNext(w)
    BY <2>1, <2>3, <2>4 DEF NestInv, GoodNext
  <2> QED
    BY <2>3, <2>5, NestMove
<1>7. ASSUME NEW t \in Threads, Return(t) PROVE NestInv'
  <2>1. PICK stack \in Seq(Frames) : stack = work[t].stack /\ stack # <<>> /\ Nested(stack)
    BY <1>7 DEF Return, Inv, WorkInv, GoodWork, NestInv, GoodNext
  <2>2. Nested(Popped(stack))
    <3>1. Len(stack) \in Nat /\ Len(stack) # 0
      BY <2>1, EmptySeq, LenProperties
    <3>2. PICK n \in Nat : Len(stack) = n + 1
      <4>1. Len(stack) - 1 \in Nat /\ Len(stack) = (Len(stack) - 1) + 1
        BY <3>1
      <4> QED
        BY <4>1
    <3>3. Len(Popped(stack)) = n /\ \A i \in 1..n : Popped(stack)[i] = stack[i]
      BY <3>2, SubSeqProperties DEF Popped
    <3>4. /\ Len(Popped(stack)) \in Nat /\ Len(Popped(stack)) <= Len(stack)
          /\ \A i \in 1..Len(Popped(stack)) : Popped(stack)[i].pv = stack[i].pv
      BY <3>2, <3>3
    <3> QED
      BY <2>1, <3>1, <3>4, NestedPrefix
  <2>3. PICK w : w = Resumed(Popped(stack))
    OBVIOUS
  <2>4. work' = [work EXCEPT ![t] = w] /\ UNCHANGED graphVars
    BY <1>7, <2>1, <2>3 DEF Return, Inv, WorkInv
  <2>5. w.stack = Popped(stack) /\ w.pc \in {"idle", "notify"}
    BY <2>3 DEF Resumed, Idle, Work
  <2>6. GoodNext(w)
    BY <2>2, <2>5 DEF GoodNext
  <2> QED
    BY <2>4, <2>6, NestMove
<1>8. ASSUME NEW t \in Threads, NEW cv \in Names, TriggerRecalculation(t, cv) PROVE NestInv'
  <2>1. UNCHANGED graphVars /\ StartCalculation(t, cv, <<>>)
    BY <1>8 DEF TriggerRecalculation
  <2>2. PICK w : w = IF NotGood(cv) # {} THEN Work("publish", <<>>, cv, Propagated(cv))
                                        ELSE Work("evaluate", <<>>, cv, Waiting)
    OBVIOUS
  <2>3. work' = [work EXCEPT ![t] = w]
    BY <2>1, <2>2 DEF StartCalculation
  <2>4. w.stack = <<>> /\ w.pc \in {"evaluate", "publish"}
    BY <2>2 DEF Work
  <2>5. GoodNext(w)
    BY <1>0, <2>4 DEF GoodNext
  <2> QED
    BY <2>1, <2>3, <2>5, NestMove
<1>9. CASE UNCHANGED vars \/ \E cv \in Names : SetAutoUpdate(cv)
  <2>1. UNCHANGED graphVars /\ work' = work
    BY <1>9 DEF vars, SetAutoUpdate, graphVars
  <2> QED
    BY <2>1, SameNesting DEF NestInv
<1> QED
  BY <1>1, <1>2, <1>3, <1>4, <1>5, <1>6, <1>7, <1>8, <1>9 DEF Next, Setter

LEMMA NestInitially == Init => NestInv
<1> SUFFICES ASSUME Init PROVE NestInv
  OBVIOUS
<1>1. \A t \in Threads : work[t].pc = "idle" /\ work[t].stack = <<>>
  BY DEF Init, Idle, Work
<1> QED
  BY <1>1 DEF NestInv, GoodNext, Nested

\* A thread that owns a synchronizer gets every other one it asks for.
OwnersNeverWait ==
    \A t \in Threads :
        work[t].pc = "listen" /\ (\E s \in Names : Owns(t, s)) => Acquired(t, sync[work[t].var])

\* The synchronizers of nested setters are one.
LEMMA OwnersGoOn == ASSUME Inv, GraphInv, NestInv PROVE OwnersNeverWait
<1> SUFFICES ASSUME NEW t \in Threads, work[t].pc = "listen", NEW s \in Names, Owns(t, s)
             PROVE  Acquired(t, sync[work[t].var])
  BY DEF OwnersNeverWait
<1>1. PICK v \in Names, stack \in Seq(Frames) : v = work[t].var /\ stack = work[t].stack
  BY DEF Inv, WorkInv, GoodWork
<1>2. PICK i \in 1..Len(stack) : sync[stack[i].pv] = s
  BY <1>1 DEF Owns
<1>3. PICK n \in Nat : n = Len(stack)
  BY <1>1, LenProperties
<1>4. n \in 1..n /\ i <= n /\ stack # <<>>
  BY <1>2, <1>3, EmptySeq
<1>5. /\ Nested(stack) /\ Kept(v) /\ v \in Calculated /\ stack[n].pv \in Operands(v)
  BY <1>1, <1>3, <1>4 DEF NestInv, GoodNext
<1>6. stack[i].pv \in Names
  BY <1>1, <1>2, ElementOfSeq DEF Frames
<1>7. s # None /\ ~IsConstant(stack[i].pv)
  BY <1>2, <1>6, NoneAssumption DEF GraphInv, SyncInv
<1>8. ~IsConstant(stack[n].pv) /\ sync[stack[n].pv] = s
  <2>1. CASE i = n
    BY <1>2, <1>7, <2>1
  <2>2. CASE i # n
    <3>1. i < n
      BY <1>4, <2>2
    <3>2. ~IsConstant(stack[n].pv)
      BY <1>2, <1>3, <1>4, <1>5, <3>1 DEF Nested
    <3>3. sync[stack[i].pv] = sync[stack[n].pv]
      BY <1>2, <1>3, <1>4, <1>5, <1>7, <3>2 DEF Nested
    <3> QED
      BY <1>2, <3>2, <3>3
  <2> QED
    BY <2>1, <2>2
<1>9. phase = "running"
  BY BusyRunning
<1>10. sync[v] = s
  <2>1. Stays(v)
    BY <1>5, <1>9, NotifiedFormulas DEF GraphInv, PvsInv
  <2> QED
    BY <1>5, <1>8, <1>9, <2>1 DEF GraphInv, SyncInv
<1>11. ASSUME NEW u \in Threads \ {t}, Owns(u, s) PROVE FALSE
  <2>1. PICK x \in Held(work[u].stack) : sync[x] = s
    BY <1>11 DEF Owns, Held
  <2>2. stack[i].pv \in Held(work[t].stack)
    BY <1>1, <1>2 DEF Held
  <2> QED
    BY <1>2, <1>7, <2>1, <2>2 DEF Inv, ExclusiveInv
<1> QED
  BY <1>1, <1>10, <1>11 DEF Acquired

\* Setters that wait hold nothing, in any configuration: a synchronizer a
\* thread asks for while it holds one is the same one. So there is always
\* a setter that goes on, whoever else waits, and no two of them wait for
\* each other.
THEOREM OwnersProceed == Spec => []OwnersNeverWait
<1>1. Inv /\ GraphInv /\ NestInv /\ [Next]_vars => Inv' /\ GraphInv' /\ NestInv'
  BY InvStep, GraphStep, NestStep
<1>2. Inv /\ GraphInv /\ NestInv => OwnersNeverWait
  BY OwnersGoOn
<1> QED
  BY Initially, NestInitially, <1>1, <1>2, PTL DEF Spec

\* No thread is twice inside the setter of one ParserVariable.
SettersNest ==
    \A t \in Threads : \A i, j \in 1..Len(work[t].stack) :
        i # j => work[t].stack[i].pv # work[t].stack[j].pv

\* The order of registration does not come back.
LEMMA NestOnce == ASSUME Inv, NestInv PROVE SettersNest
<1> SUFFICES ASSUME NEW t \in Threads, NEW i \in 1..Len(work[t].stack), NEW j \in 1..Len(work[t].stack),
                    i < j, work[t].stack[i].pv = work[t].stack[j].pv
             PROVE  FALSE
  <2>1. \A t \in Threads : Len(work[t].stack) \in Nat
    BY LenProperties DEF Inv, WorkInv, GoodWork
  <2> QED
    BY <2>1 DEF SettersNest
<1>1. Before(work[t].stack[i].pv, work[t].stack[j].pv)
  BY DEF NestInv, GoodNext, Nested
<1> QED
  BY <1>1, BeforeOrders DEF Inv

\* A cascade of setters does not come back to where it is, in any configuration:
\* the loop over m_notifiedVariables is not entered again while it runs, and a
\* variable is at most once on a stack.
THEOREM CascadesEnd == Spec => []SettersNest
<1>1. Inv /\ GraphInv /\ NestInv /\ [Next]_vars => Inv' /\ GraphInv' /\ NestInv'
  BY InvStep, GraphStep, NestStep
<1>2. Inv /\ NestInv => SettersNest
  BY NestOnce
<1> QED
  BY Initially, NestInitially, <1>1, <1>2, PTL DEF Spec

-----------------------------------------------------------------------------
(* Stores outside the synchronizer.                                        *)

\* No two threads are between the store of a variable and its listener.
OneWriter ==
    \A t, u \in Threads : t # u /\ work[t].pc = "listen" /\ work[u].pc = "listen" => work[t].var # work[u].var

\* When all setters have returned, formulas see every variable as it is in the
\* address space.
OperandsFollow ==
    phase = "running" /\ (\A t \in Threads : work[t] = Idle) =>
        \A v \in Variables : Kept(v) => pv[v] = Converted(published[v])

FollowInv ==
    /\ DOMAIN pv = Names /\ DOMAIN published = Names
    /\ \A t \in Threads, v \in Names : Listens(work[t], v) => work[t].data = published[v]
    /\ \A v \in Names : Kept(v) =>
        pv[v] = Converted(published[v]) \/ \E t \in Threads : Listens(work[t], v)

\* A store, from outside or of a result.
LEMMA StoreFollows ==
    ASSUME Inv, NestInv, FollowInv, OneWriter', UNCHANGED graphVars, UNCHANGED pv, NEW t \in Threads,
           NEW v \in Names, NEW d, NEW stack, Stored(t, v, d, stack), work[t].pc # "listen"
    PROVE  FollowInv'
<1>1. PICK w : w = IF Kept(v) THEN Work("listen", stack, v, d) ELSE Resumed(stack)
  OBVIOUS
<1>2. /\ work'[t] = w /\ \A u \in Threads : u # t => work'[u] = work[u]
      /\ published' = [published EXCEPT ![v] = d]
  BY <1>1 DEF Stored, Inv, WorkInv
<1>3. (w.pc = "listen" <=> Kept(v)) /\ (w.pc = "listen" => w.var = v /\ w.data = d)
  BY <1>1 DEF Work, Resumed, Idle
<1>4. published'[v] = d /\ \A x \in Names : x # v => published'[x] = published[x]
  BY <1>2 DEF FollowInv
<1>5. \A x : Kept(x)' <=> Kept(x)
  BY DEF graphVars, Kept
<1>6. ASSUME NEW u \in Threads, u # t PROVE ~Listens(work[u], v)
  <2> SUFFICES ASSUME work[u].pc = "listen", work[u].var = v PROVE FALSE
    BY DEF Listens
  <2>1. Kept(v)
    BY DEF NestInv, GoodNext
  <2> QED
    BY <1>2, <1>3, <1>6, <2>1 DEF OneWriter
<1>7. \A u \in Threads, x \in Names : Listens(work'[u], x) => work'[u].data = published'[x]
  <2> SUFFICES ASSUME NEW u \in Threads, NEW x \in Names, Listens(work'[u], x)
               PROVE  work'[u].data = published'[x]
    OBVIOUS
  <2>1. CASE u = t
    BY <1>2, <1>3, <1>4, <2>1 DEF Listens
  <2>2. CASE u # t
    BY <1>2, <1>4, <1>6, <2>2 DEF FollowInv
  <2> QED
    BY <2>1, <2>2
<1>8. ASSUME NEW x \in Names, Kept(x)
      PROVE  pv[x] = Converted(published'[x]) \/ \E u \in Threads : Listens(work'[u], x)
  <2>1. CASE x = v
    BY <1>2, <1>3, <1>8, <2>1 DEF Listens
  <2>2. CASE x # v
    <3>1. \A u \in Threads : Listens(work[u], x) => work'[u] = work[u]
      BY <1>2 DEF Listens
    <3> QED
      BY <1>4, <1>8, <2>2, <3>1 DEF FollowInv
  <2> QED
    BY <2>1, <2>2
<1>9. DOMAIN pv' = Names /\ DOMAIN published' = Names
  BY <1>2 DEF FollowInv
<1> QED
  BY <1>5, <1>7, <1>8, <1>9 DEF FollowInv, Listens, Converted

\* The listener.
LEMMA ListenFollows ==
    ASSUME Inv, FollowInv, NEW t \in Threads, Listen(t)
    PROVE  FollowInv'
<1>1. PICK v \in Names : v = work[t].var
  BY DEF Listen, Inv, WorkInv, GoodWork
<1>2. /\ pv' = [pv EXCEPT ![v] = Converted(work[t].data)] /\ published' = published
      /\ work[t].pc = "listen" /\ UNCHANGED graphVars
  BY <1>1 DEF Listen
<1>3. work'[t].pc = "notify" /\ \A u \in Threads : u # t => work'[u] = work[u]
  BY DEF Listen, Inv, WorkInv, Work
<1>4. \A u \in Threads : \A x : Listens(work'[u], x) <=> u # t /\ Listens(work[u], x)
  BY <1>3 DEF Listens
<1>5. pv'[v] = Converted(published[v]) /\ \A x \in Names : x # v => pv'[x] = pv[x]
  BY <1>1, <1>2 DEF FollowInv, Listens
<1>6. \A x : Kept(x)' <=> Kept(x)
  BY <1>2 DEF graphVars, Kept
<1>7. ASSUME NEW x \in Names, Kept(x)
      PROVE  pv'[x] = Converted(published[x]) \/ \E u \in Threads : Listens(work'[u], x)
  <2>1. CASE x = v
    BY <1>5, <2>1
  <2>2. CASE x # v
    <3>1. \A u \in Threads : Listens(work[u], x) => u # t
      BY <1>1, <2>2 DEF Listens
    <3> QED
      BY <1>4, <1>5, <1>7, <2>2, <3>1 DEF FollowInv
  <2> QED
    BY <2>1, <2>2
<1>8. \A u \in Threads, x \in Names : Listens(work'[u], x) => work'[u].data = published[x]
  BY <1>3, <1>4 DEF FollowInv
<1>9. DOMAIN pv' = Names /\ DOMAIN published' = Names
  BY <1>2 DEF FollowInv
<1> QED
  BY <1>2, <1>6, <1>7, <1>8, <1>9 DEF FollowInv, Listens, Converted

\* Other steps neither store nor listen.
LEMMA FollowStep ==
    ASSUME Inv, GraphInv, NestInv, FollowInv, OneWriter', [Next]_vars
    PROVE  FollowInv'
<1>0. Calculated \subseteq Names
  BY ConfigurationFacts DEF Inv
\* What keeps the stores and the listeners.
<1>1. ASSUME UNCHANGED <<pv, published>>, \A v : Kept(v)' => Kept(v),
             \A u \in Threads : \/ work'[u] = work[u]
                                \/ work[u].pc # "listen" /\ work'[u].pc # "listen"
      PROVE  FollowInv'
  <2>1. \A u \in Threads : \A x : Listens(work'[u], x) <=> Listens(work[u], x)
    BY <1>1 DEF Listens
  <2>2. \A u \in Threads : \A x : Listens(work[u], x) => work'[u] = work[u]
    BY <1>1 DEF Listens
  <2> QED
    BY <1>1, <2>1, <2>2 DEF FollowInv, Listens, Converted
<1>2. ASSUME NEW t \in Threads, UNCHANGED graphVars, UNCHANGED <<pv, published>>, NEW w,
             work' = [work EXCEPT ![t] = w], work[t].pc # "listen", w.pc # "listen"
      PROVE  FollowInv'
  <2>1. \A v : Kept(v)' <=> Kept(v)
    BY <1>2 DEF graphVars, Kept
  <2>2. work'[t] = w /\ \A u \in Threads : u # t => work'[u] = work[u]
    BY <1>2 DEF Inv, WorkInv
  <2>3. \A u \in Threads : \/ work'[u] = work[u]
                           \/ work[u].pc # "listen" /\ work'[u].pc # "listen"
    BY <1>2, <2>2
  <2> QED
    BY <1>1, <1>2, <2>1, <2>3
<1>3. CASE StartUp
  <2>1. phase # "running" /\ UNCHANGED work
    BY <1>3 DEF StartUp, RegisterVariable, InstantiateCalculatedVariable, InstantiateFails, Configured,
         Optimize, Optimized, SetupSynchronization, Synchronized, Configuring
  <2>2. \A t \in Threads : work'[t] = work[t] /\ work[t].pc = "idle"
    BY <2>1 DEF Inv, QuietInv, Idle, Work
  <2>3. ASSUME NEW x \in Names, NEW d, Range(pvs') = Range(pvs) \cup {x},
               published' = [published EXCEPT ![x] = d], pv' = [pv EXCEPT ![x] = Converted(d)]
        PROVE  FollowInv'
    <3>1. /\ pv'[x] = Converted(d) /\ published'[x] = d
          /\ \A v \in Names : v # x => pv'[v] = pv[v] /\ published'[v] = published[v]
          /\ DOMAIN pv' = Names /\ DOMAIN published' = Names
      BY <2>3 DEF FollowInv
    <3>2. \A v \in Names : Kept(v)' => v = x \/ Kept(v)
      BY <2>3 DEF Kept
    <3>3. \A t \in Threads : \A v : ~Listens(work[t], v) /\ ~Listens(work'[t], v)
      BY <2>2 DEF Listens
    <3>4. \A v \in Names : Kept(v)' => pv'[v] = Converted(published'[v])
      BY <3>1, <3>2, <3>3 DEF FollowInv
    <3> QED
      BY <3>1, <3>3, <3>4 DEF FollowInv, Listens, Converted
  <2>4. CASE RegisterVariable \/ InstantiateCalculatedVariable
    <3>1. Range(pvs') = Range(pvs) \cup {Next1} /\ Next1 \in Names
      <4>1. /\ Next1 \in Variables /\ Registered' = Registered \cup {Next1} /\ Registered = Range(pvs)
            /\ phase = "configuring" /\ phase' = phase
        BY <2>4, Registering DEF RegisterVariable, InstantiateCalculatedVariable, GraphInv, Configuring
      <4>2. Registered' = Range(pvs')
        BY <4>1 DEF Registered
      <4> QED
        BY <4>1, <4>2, ConfigurationFacts DEF Inv
    <3>2. PICK d : published' = [published EXCEPT ![Next1] = d] /\ pv' = [pv EXCEPT ![Next1] = Converted(d)]
      BY <2>4 DEF RegisterVariable, InstantiateCalculatedVariable
    <3> QED
      BY <2>3, <3>1, <3>2
  <2>5. CASE ~(RegisterVariable \/ InstantiateCalculatedVariable)
    <3>1. UNCHANGED <<pv, published>>
      BY <1>3, <2>5 DEF StartUp, InstantiateFails, Configured,
           Optimize, Optimized, SetupSynchronization, Synchronized
    <3>2. \A v : Kept(v)' => Kept(v)
      BY <1>3, <2>5, KeptShrinks
    <3> QED
      BY <1>1, <2>2, <3>1, <3>2
  <2> QED
    BY <2>4, <2>5
<1>4. ASSUME NEW t \in Threads, NEW v \in Names, NEW d \in Data, SetValue(t, v, d) PROVE FollowInv'
  <2>1. /\ Stored(t, v, d, <<>>) /\ UNCHANGED graphVars /\ UNCHANGED pv /\ work[t].pc # "listen"
    BY <1>4 DEF SetValue
  <2> QED
    BY <2>1, StoreFollows
<1>5. ASSUME NEW t \in Threads, Listen(t) PROVE FollowInv'
  BY <1>5, ListenFollows
<1>6. ASSUME NEW t \in Threads, Publish(t) PROVE FollowInv'
  <2>1. PICK v \in Names : v = work[t].var
    BY <1>0, <1>6 DEF Publish, Inv, WorkInv, GoodWork
  <2>2. /\ Stored(t, v, work[t].data, work[t].stack) /\ UNCHANGED graphVars /\ UNCHANGED pv
        /\ work[t].pc # "listen"
    BY <1>6, <2>1 DEF Publish
  <2> QED
    BY <2>2, StoreFollows
<1>7. ASSUME NEW t \in Threads, NEW cv, NEW stack, StartCalculation(t, cv, stack), UNCHANGED graphVars,
             UNCHANGED <<pv, published>>, work[t].pc # "listen"
      PROVE  FollowInv'
  <2>1. PICK w : w = IF NotGood(cv) # {} THEN Work("publish", stack, cv, Propagated(cv))
                                        ELSE Work("evaluate", stack, cv, Waiting)
    OBVIOUS
  <2>2. work' = [work EXCEPT ![t] = w] /\ w.pc # "listen"
    BY <1>7, <2>1 DEF StartCalculation, Work
  <2> QED
    BY <1>2, <1>7, <2>2
<1>8. ASSUME NEW t \in Threads, NEW stack, work' = [work EXCEPT ![t] = Resumed(stack)],
             UNCHANGED graphVars, UNCHANGED <<pv, published>>, work[t].pc # "listen"
      PROVE  FollowInv'
  <2>1. PICK w : w = Resumed(stack)
    OBVIOUS
  <2>2. work' = [work EXCEPT ![t] = w] /\ w.pc # "listen"
    BY <1>8, <2>1 DEF Resumed, Idle, Work
  <2> QED
    BY <1>2, <1>8, <2>2
<1>9. ASSUME NEW t \in Threads, Update(t) PROVE FollowInv'
  <2>1. PICK cv, rest : /\ UNCHANGED graphVars /\ UNCHANGED <<pv, published>> /\ work[t].pc # "listen"
                        /\ IF auto[cv] THEN StartCalculation(t, cv, rest)
                                       ELSE work' = [work EXCEPT ![t] = Resumed(rest)]
    BY <1>9 DEF Update
  <2> QED
    BY <1>7, <1>8, <2>1
<1>10. ASSUME NEW t \in Threads, Evaluate(t) PROVE FollowInv'
  <2>1. PICK w : w = Work("publish", work[t].stack, work[t].var, Evaluated(work[t].var))
    OBVIOUS
  <2>2. /\ work' = [work EXCEPT ![t] = w] /\ UNCHANGED graphVars /\ work[t].pc # "listen"
        /\ w.pc # "listen" /\ UNCHANGED <<pv, published>>
    BY <1>10, <2>1 DEF Evaluate, Inv, WorkInv, Work
  <2> QED
    BY <1>2, <2>2
<1>11. ASSUME NEW t \in Threads, Return(t) PROVE FollowInv'
  <2>1. /\ work' = [work EXCEPT ![t] = Resumed(Popped(work[t].stack))] /\ UNCHANGED graphVars
        /\ work[t].pc # "listen" /\ UNCHANGED <<pv, published>>
    BY <1>11 DEF Return, Inv, WorkInv
  <2> QED
    BY <1>8, <2>1
<1>12. ASSUME NEW t \in Threads, NEW cv \in Names, TriggerRecalculation(t, cv) PROVE FollowInv'
  <2>1. /\ StartCalculation(t, cv, <<>>) /\ UNCHANGED graphVars /\ UNCHANGED <<pv, published>>
        /\ work[t].pc # "listen"
    BY <1>12 DEF TriggerRecalculation
  <2> QED
    BY <1>7, <2>1
<1>13. CASE UNCHANGED vars \/ \E cv \in Names : SetAutoUpdate(cv)
  <2>1. UNCHANGED <<pv, published, work, pvs>>
    BY <1>13 DEF vars, SetAutoUpdate, graphVars
  <2>2. \A v : Kept(v)' => Kept(v)
    BY <2>1 DEF Kept
  <2> QED
    BY <1>1, <2>1, <2>2
<1> QED
  BY <1>3, <1>4, <1>5, <1>6, <1>9, <1>10, <1>11, <1>12, <1>13 DEF Next, Setter

\* ChangeNotifyingVariable::setValue stores before its listener takes the
\* synchronizer. That is harmless as long as no two threads are in between for one
\* variable: then, calculated or not and updated manually or not, no operand
\* ends up other than the address space shows it.
THEOREM OneWriterFollows == Spec /\ []OneWriter => []OperandsFollow
<1>1. Init => FollowInv
  <2> SUFFICES ASSUME Init PROVE FollowInv
    OBVIOUS
  <2>1. \A t \in Threads : work[t].pc = "idle"
    BY DEF Init, Idle, Work
  <2>2. \A v : ~Kept(v)
    BY DEF Init, Kept, Range
  <2> QED
    BY <2>1, <2>2 DEF Init, FollowInv, Listens
<1>2. Inv /\ GraphInv /\ NestInv /\ [Next]_vars => Inv' /\ GraphInv' /\ NestInv'
  BY InvStep, GraphStep, NestStep
<1>3. Inv /\ GraphInv /\ NestInv /\ FollowInv /\ OneWriter' /\ [Next]_vars => FollowInv'
  BY FollowStep
<1>4. Inv /\ FollowInv => OperandsFollow
  <2> SUFFICES ASSUME Inv, FollowInv, \A t \in Threads : work[t] = Idle, NEW v \in Variables, Kept(v)
               PROVE  pv[v] = Converted(published[v])
    BY DEF OperandsFollow
  <2>1. \A t \in Threads : ~Listens(work[t], v)
    BY DEF Idle, Work, Listens
  <2>2. v \in Names
    BY ConfigurationFacts DEF Inv
  <2> QED
    BY <2>1, <2>2 DEF FollowInv
<1> QED
  BY Initially, NestInitially, <1>1, <1>2, <1>3, <1>4, PTL DEF Spec

-----------------------------------------------------------------------------
(* Kinds of the state.                                                     *)

\* A formula gives a number for numbers.
FormulasCompute ==
    \A cv \in Names, S \in SUBSET Names : \A operands \in [S -> Int] : ValueFormula(cv, operands) \in Int

Operand == [state : {"waiting", "good", "bad"}, value : Int]

ValuesInv ==
    /\ pv \in [Names -> Operand]
    /\ published \in [Names -> Results]
    /\ auto \in [Names -> BOOLEAN]
    /\ \A t \in Threads : work[t].var \in Names \cup {None} /\ work[t].data \in Results

\* No variable is registered twice.
OnceInv == Range(pvs) \subseteq Variables /\ \A i, j \in 1..Len(pvs) : pvs[i] = pvs[j] => i = j

Phases == {"configuring", "failed", "optimizing", "synchronizing", "running"}

\* What an operand becomes is a number.
LEMMA ConvertedTyped == ASSUME NEW d \in Results PROVE Converted(d) \in Operand
  BY DEF Results, Converted, Operand

\* What calculate() publishes.
LEMMA CalculationTyped ==
    ASSUME FormulasCompute, config \in Configurations, pv \in [Names -> Operand],
           NEW cv \in Calculated, Operands(cv) \subseteq Names
    PROVE  /\ NotGood(cv) # {} => Propagated(cv) \in Results
           /\ Evaluated(cv) \in Results /\ Calculation(cv) \in Results
<1>1. ASSUME NotGood(cv) # {} PROVE Propagated(cv) \in Results
  <2>1. PICK first : first = CHOOSE i \in NotGood(cv) : \A j \in NotGood(cv) : i <= j
    OBVIOUS
  <2>2. config.value[cv] \in Seq(Names)
    BY ConfigurationAssumption DEF Calculated
  <2>3. NotGood(cv) \in SUBSET Nat
    BY <2>2, LenProperties DEF NotGood
  <2>4. first \in NotGood(cv)
    BY <1>1, <2>1, <2>3, FirstOf
  <2>5. PICK u \in Names : u = config.value[cv][first]
    BY <2>2, <2>4, LenProperties DEF NotGood
  <2>6. pv[u].state \in {"waiting", "good", "bad"}
    BY DEF Operand
  <2>7. Propagated(cv) = [status |-> pv[u].state, value |-> Null]
    BY <2>1, <2>5 DEF Propagated
  <2> QED
    BY <2>6, <2>7 DEF Results
<1>2. Evaluated(cv) \in Results
  <2>1. PICK operands : operands = [v \in Operands(cv) |-> pv[v].value]
    OBVIOUS
  <2>2. operands \in [Operands(cv) -> Int]
    BY <2>1 DEF Operand
  <2>3. cv \in Names
    BY ConfigurationFacts
  <2>4. ValueFormula(cv, operands) \in Int
    BY <2>2, <2>3 DEF FormulasCompute
  <2>5. PICK status \in {"bad", "good"} : Evaluated(cv) = [status |-> status, value |-> ValueFormula(cv, operands)]
    BY <2>1 DEF Evaluated
  <2> QED
    BY <2>4, <2>5 DEF Results
<1> QED
  BY <1>1, <1>2 DEF Calculation

\* A thread moves on and no value changes.
LEMMA WorkTyped ==
    ASSUME Inv, ValuesInv, NEW t \in Threads, NEW w, work' = [work EXCEPT ![t] = w],
           w.var \in Names \cup {None}, w.data \in Results
    PROVE  \A u \in Threads : work'[u].var \in Names \cup {None} /\ work'[u].data \in Results
<1>1. work'[t] = w /\ \A u \in Threads : u # t => work'[u] = work[u]
  BY DEF Inv, WorkInv
<1> QED
  BY <1>1 DEF ValuesInv

\* The kinds of what threads start and resume with.
LEMMA WaitingTyped == Waiting \in Results
  BY DEF Waiting, Results

\* Also where a setter returns.
LEMMA ResumedTyped ==
    ASSUME NEW stack
    PROVE  Resumed(stack).var \in Names \cup {None} /\ Resumed(stack).data \in Results
  BY WaitingTyped DEF Resumed, Idle, Work

\* A store, from outside or of a result.
LEMMA StoreTyped ==
    ASSUME Inv, ValuesInv, UNCHANGED <<pv, auto>>, NEW t \in Threads, NEW v \in Names, NEW d \in Results,
           NEW stack, Stored(t, v, d, stack)
    PROVE  ValuesInv'
<1>1. PICK w : w = IF Kept(v) THEN Work("listen", stack, v, d) ELSE Resumed(stack)
  OBVIOUS
<1>2. work' = [work EXCEPT ![t] = w] /\ published' = [published EXCEPT ![v] = d]
  BY <1>1 DEF Stored
<1>3. w.var \in Names \cup {None} /\ w.data \in Results
  BY <1>1, ResumedTyped DEF Work
<1>4. published' \in [Names -> Results]
  BY <1>2 DEF ValuesInv
<1> QED
  BY <1>2, <1>3, <1>4, WorkTyped DEF ValuesInv

\* Operands of a formula that can be calculated are variables.
LEMMA OperandsKnown ==
    ASSUME Inv, GraphInv, phase = "running", NEW cv \in Calculated PROVE Operands(cv) \subseteq Names
<1>1. cv \in Calculated \cap Registered /\ Registered = Variables
  BY ConfigurationFacts DEF Inv, Registered
<1> QED
  BY <1>1, ConfigurationFacts DEF Inv, GraphInv, FormulaInv

\* One step, by action.
LEMMA ValuesStep == ASSUME FormulasCompute, Inv, GraphInv, ValuesInv, [Next]_vars PROVE ValuesInv'
<1>0. Calculated \subseteq Names /\ config.manual \subseteq Calculated /\ Variables \subseteq Names
  BY ConfigurationFacts DEF Inv
<1>1. ASSUME NEW t \in Threads, UNCHANGED <<pv, published, auto>>, NEW w, work' = [work EXCEPT ![t] = w],
             w.var \in Names \cup {None}, w.data \in Results
      PROVE  ValuesInv'
  BY <1>1, WorkTyped DEF ValuesInv
<1>2. ASSUME NEW t \in Threads, UNCHANGED <<pv, published, auto>>, NEW cv \in Calculated, NEW stack,
             StartCalculation(t, cv, stack), phase = "running"
      PROVE  ValuesInv'
  <2>1. PICK w : w = IF NotGood(cv) # {} THEN Work("publish", stack, cv, Propagated(cv))
                                        ELSE Work("evaluate", stack, cv, Waiting)
    OBVIOUS
  <2>2. work' = [work EXCEPT ![t] = w]
    BY <1>2, <2>1 DEF StartCalculation
  <2>3. NotGood(cv) # {} => Propagated(cv) \in Results
    BY <1>2, OperandsKnown, CalculationTyped DEF Inv, ValuesInv
  <2>4. w.var \in Names \cup {None} /\ w.data \in Results
    BY <1>0, <2>1, <2>3, WaitingTyped DEF Work
  <2> QED
    BY <1>1, <1>2, <2>2, <2>4
<1>3. CASE StartUp
  <2>1. ASSUME NEW v \in Names, NEW d \in Results, UNCHANGED <<auto, work>>,
               published' = [published EXCEPT ![v] = d], pv' = [pv EXCEPT ![v] = Converted(d)]
        PROVE  ValuesInv'
    <3>1. Converted(d) \in Operand
      BY ConvertedTyped
    <3>2. pv' \in [Names -> Operand] /\ published' \in [Names -> Results]
      BY <2>1, <3>1 DEF ValuesInv
    <3> QED
      BY <2>1, <3>2 DEF ValuesInv
  <2>2. CASE Configuring
    <3>1. Next1 \in Names
      <4>1. Len(pvs) + 1 \in 1..Len(config.order)
        BY <2>2, ConfigurationFacts, LenProperties DEF Configuring, GraphInv, PvsInv, Inv
      <4> QED
        BY <4>1, ConfigurationFacts DEF Next1, Inv
    <3>2. CASE RegisterVariable
      <4>1. config.initial[Next1] \in Results
        BY <3>2, DataAssumption DEF RegisterVariable, Plain, Calculated, Inv
      <4> QED
        BY <2>1, <3>1, <3>2, <4>1 DEF RegisterVariable
    <3>3. CASE InstantiateCalculatedVariable
      <4>1. PICK d : d = IF Next1 \in DOMAIN config.initial THEN config.initial[Next1] ELSE Calculation(Next1)
        OBVIOUS
      <4>2. Next1 \in Calculated /\ Operands(Next1) \subseteq Range(pvs) /\ Range(pvs) \subseteq Names
        BY <3>3, SeqElements DEF InstantiateCalculatedVariable, GraphInv, PvsInv
      <4>3. Calculation(Next1) \in Results
        BY <4>2, CalculationTyped DEF Inv, ValuesInv
      <4>4. d \in Results
        BY <4>1, <4>3, DataAssumption DEF Inv
      <4> QED
        BY <2>1, <3>1, <3>3, <4>1, <4>4 DEF InstantiateCalculatedVariable
    <3>4. CASE ~(RegisterVariable \/ InstantiateCalculatedVariable)
      BY <1>3, <3>4 DEF StartUp, InstantiateFails, Configured, Optimize, Optimized, SetupSynchronization,
                        Synchronized, ValuesInv
    <3> QED
      BY <3>2, <3>3, <3>4
  <2>3. CASE ~Configuring
    BY <1>3, <2>3 DEF StartUp, RegisterVariable, InstantiateCalculatedVariable, InstantiateFails, Configured,
                      Optimize, Optimized, SetupSynchronization, Synchronized, ValuesInv
  <2> QED
    BY <2>2, <2>3
<1>4. ASSUME NEW t \in Threads, NEW v \in Names, NEW d \in Data, SetValue(t, v, d) PROVE ValuesInv'
  <2>1. d \in Results /\ Stored(t, v, d, <<>>) /\ UNCHANGED <<pv, auto>>
    BY <1>4, DataAssumption DEF SetValue
  <2> QED
    BY <2>1, StoreTyped
<1>5. ASSUME NEW t \in Threads, Listen(t) PROVE ValuesInv'
  <2>1. PICK v \in Names : v = work[t].var
    BY <1>5 DEF Listen, Inv, WorkInv, GoodWork
  <2>2. PICK w : w = Work("notify", Append(work[t].stack, [pv |-> v, todo |-> notified[v]]), None, Waiting)
    OBVIOUS
  <2>3. /\ work' = [work EXCEPT ![t] = w] /\ pv' = [pv EXCEPT ![v] = Converted(work[t].data)]
        /\ UNCHANGED <<published, auto>>
    BY <1>5, <2>1, <2>2 DEF Listen
  <2>4. w.var \in Names \cup {None} /\ w.data \in Results
    BY <2>2, WaitingTyped DEF Work
  <2>5. Converted(work[t].data) \in Operand
    BY ConvertedTyped DEF ValuesInv
  <2>6. pv' \in [Names -> Operand]
    BY <2>3, <2>5 DEF ValuesInv
  <2> QED
    BY <2>3, <2>4, <2>6, WorkTyped DEF ValuesInv
<1>6. ASSUME NEW t \in Threads, Update(t) PROVE ValuesInv'
  <2>1. phase = "running" /\ UNCHANGED <<pv, published, auto>>
    BY <1>6, BusyRunning DEF Update
  <2>2. PICK cv, rest : /\ cv = Head(Top(t).todo)
                        /\ IF auto[cv] THEN StartCalculation(t, cv, rest)
                                       ELSE work' = [work EXCEPT ![t] = Resumed(rest)]
    BY <1>6 DEF Update
  <2>3. cv \in Calculated
    <3>1. Top(t) \in Frames
      BY <1>6, PoppedStack DEF Update, Top, Inv, WorkInv, GoodWork
    <3> QED
      BY <1>6, <2>2, <3>1, NextNotified DEF Update
  <2>4. CASE auto[cv]
    BY <1>2, <2>1, <2>2, <2>3, <2>4
  <2>5. CASE ~auto[cv]
    BY <1>1, <2>1, <2>2, <2>5, ResumedTyped
  <2> QED
    BY <2>4, <2>5
<1>7. ASSUME NEW t \in Threads, Evaluate(t) PROVE ValuesInv'
  <2>1. phase = "running" /\ UNCHANGED <<pv, published, auto>>
    BY <1>7, BusyRunning DEF Evaluate
  <2>2. PICK cv \in Calculated : cv = work[t].var
    BY <1>7 DEF Evaluate, Inv, WorkInv, GoodWork
  <2>3. PICK w : w = Work("publish", work[t].stack, cv, Evaluated(cv))
    OBVIOUS
  <2>4. work' = [work EXCEPT ![t] = w]
    BY <1>7, <2>2, <2>3 DEF Evaluate, Inv, WorkInv
  <2>5. Evaluated(cv) \in Results
    BY <2>1, OperandsKnown, CalculationTyped DEF Inv, ValuesInv
  <2>6. w.var \in Names \cup {None} /\ w.data \in Results
    BY <1>0, <2>3, <2>5 DEF Work
  <2> QED
    BY <1>1, <2>1, <2>4, <2>6
<1>8. ASSUME NEW t \in Threads, Publish(t) PROVE ValuesInv'
  <2>1. PICK v \in Names : v = work[t].var
    BY <1>0, <1>8 DEF Publish, Inv, WorkInv, GoodWork
  <2>2. Stored(t, v, work[t].data, work[t].stack) /\ UNCHANGED <<pv, auto>> /\ work[t].data \in Results
    BY <1>8, <2>1 DEF Publish, ValuesInv
  <2> QED
    BY <2>2, StoreTyped
<1>9. ASSUME NEW t \in Threads, Return(t) PROVE ValuesInv'
  <2>1. /\ work' = [work EXCEPT ![t] = Resumed(Popped(work[t].stack))] /\ UNCHANGED <<pv, published, auto>>
    BY <1>9 DEF Return, Inv, WorkInv
  <2> QED
    BY <1>1, <2>1, ResumedTyped
<1>10. ASSUME NEW t \in Threads, NEW cv \in Names, TriggerRecalculation(t, cv) PROVE ValuesInv'
  <2>1. /\ cv \in Calculated /\ StartCalculation(t, cv, <<>>) /\ UNCHANGED <<pv, published, auto>>
        /\ phase = "running"
    BY <1>0, <1>10 DEF TriggerRecalculation
  <2> QED
    BY <1>2, <2>1
<1>11. ASSUME NEW cv \in Names, SetAutoUpdate(cv) PROVE ValuesInv'
  BY <1>11 DEF SetAutoUpdate, ValuesInv
<1>12. CASE UNCHANGED vars
  BY <1>12 DEF vars, ValuesInv
<1> QED
  BY <1>3, <1>4, <1>5, <1>6, <1>7, <1>8, <1>9, <1>10, <1>11, <1>12 DEF Next, Setter

\* Registration goes through an order without repetitions, and erasing keeps it.
LEMMA OnceStep == ASSUME Inv, GraphInv, GraphInv', OnceInv, [Next]_vars PROVE OnceInv'
<1>1. pvs \in Seq(Names) /\ Len(pvs) \in Nat /\ pvs' \in Seq(Names) /\ Len(pvs') \in Nat
  BY LenProperties DEF GraphInv, PvsInv
<1>2. config' = config /\ Variables' = Variables
  BY DEF Next, StartUp, RegisterVariable, InstantiateCalculatedVariable, InstantiateFails, Configured,
         Optimize, Optimized, SetupSynchronization, Synchronized, Setter, SetValue, Listen, Update,
         Evaluate, Publish, Return, TriggerRecalculation, SetAutoUpdate, vars, graphVars, Variables
<1>3. CASE phase' \in {"configuring", "failed"}
  <2>1. Len(pvs') <= Len(config.order) /\ \A i \in 1..Len(pvs') : pvs'[i] = config.order[i]
    BY <1>2, <1>3 DEF GraphInv, PvsInv
  <2>2. /\ config.order \in Seq(Names) /\ Len(config.order) \in Nat
        /\ \A i, j \in 1..Len(config.order) : config.order[i] = config.order[j] => i = j
    BY ConfigurationFacts, LenProperties DEF Inv
  <2>3. \A i \in 1..Len(pvs') : i \in 1..Len(config.order) /\ pvs'[i] \in Variables
    <3>1. \A i \in 1..Len(config.order) : config.order[i] \in Variables
      BY <2>2, SeqElements DEF Variables
    <3> QED
      BY <1>1, <2>1, <2>2, <3>1
  <2>4. Range(pvs') \subseteq Variables
    BY <1>1, <2>3, SeqElements
  <2>5. \A i, j \in 1..Len(pvs') : pvs'[i] = pvs'[j] => i = j
    BY <2>1, <2>2, <2>3
  <2> QED
    BY <1>2, <2>4, <2>5 DEF OnceInv
<1>4. CASE Optimize /\ Unused(pvs[it])
  <2>1. PICK i \in 1..Len(pvs) : i = it /\ pvs' = Erased(pvs, i)
    BY <1>1, <1>4 DEF Optimize, GraphInv, PvsInv
  <2>2. PICK s : s = Erased(pvs, i)
    OBVIOUS
  <2>3. /\ Len(s) = Len(pvs) - 1 /\ Range(s) \subseteq Range(pvs)
        /\ \A j \in 1..(i - 1) : s[j] = pvs[j]
        /\ \A j \in i..(Len(pvs) - 1) : s[j] = pvs[j + 1]
    BY <1>1, <2>2, ErasedElements
  <2>4. ASSUME NEW j \in 1..Len(s), NEW l \in 1..Len(s), s[j] = s[l] PROVE j = l
    <3>1. PICK p \in 1..Len(pvs) : s[j] = pvs[p] /\ p = IF j < i THEN j ELSE j + 1
      BY <1>1, <2>3
    <3>2. PICK q \in 1..Len(pvs) : s[l] = pvs[q] /\ q = IF l < i THEN l ELSE l + 1
      BY <1>1, <2>3
    <3>3. p = q
      BY <2>4, <3>1, <3>2 DEF OnceInv
    <3> QED
      BY <1>1, <2>3, <3>1, <3>2, <3>3
  <2> QED
    BY <1>2, <2>1, <2>2, <2>3, <2>4 DEF OnceInv
<1>5. CASE phase' \notin {"configuring", "failed"} /\ ~(Optimize /\ Unused(pvs[it]))
  <2>1. pvs' = pvs
    BY <1>5 DEF Next, StartUp, RegisterVariable, InstantiateCalculatedVariable, InstantiateFails, Configured,
         Optimize, Optimized, SetupSynchronization, Synchronized, Setter, SetValue, Listen, Update, Configuring,
         Evaluate, Publish, Return, TriggerRecalculation, SetAutoUpdate, vars, graphVars
  <2> QED
    BY <1>2, <2>1 DEF OnceInv
<1> QED
  BY <1>3, <1>4, <1>5

\* The parts of the type invariant.
LEMMA Typed == ASSUME Inv, GraphInv, NestInv, ValuesInv, OnceInv, phase \in Phases PROVE TypeOK
<1>1. config \in Configurations /\ notified \in [Names -> Seq(Calculated)] /\ sync \in [Names -> Names \cup {None}]
  BY DEF Inv, NotifiedInv, GraphInv, SyncInv
<1>2. Range(pvs) \subseteq Variables /\ IsInjective(pvs)
  <2>1. DOMAIN pvs = 1..Len(pvs)
    BY LenProperties DEF GraphInv, PvsInv
  <2> QED
    BY <2>1 DEF OnceInv, IsInjective
<1>3. ASSUME NEW t \in Threads
      PROVE  work[t].pc \in {"idle", "listen", "notify", "evaluate", "publish"} /\ work[t].stack \in Seq(Call)
  <2>1. work[t].stack \in Seq(Frames) /\ work[t].pc \in Pcs
    BY DEF Inv, WorkInv, GoodWork
  <2>2. Frames \subseteq Call
    <3>1. Calculated \subseteq Names
      BY ConfigurationFacts DEF Inv
    <3>2. Seq(Calculated) \subseteq Seq(Names)
      BY <3>1, ElementOfSeq, IsASeq
    <3> QED
      BY <3>2 DEF Frames, Call
  <2>3. Seq(Frames) \subseteq Seq(Call)
    BY <2>2, ElementOfSeq, IsASeq
  <2> QED
    BY <2>1, <2>3 DEF Pcs
<1>4. ASSUME NEW t \in Threads
      PROVE  \A i, k \in 1..Len(work[t].stack) : i # k => work[t].stack[i].pv # work[t].stack[k].pv
  BY NestOnce DEF SettersNest
<1>5. ASSUME NEW t \in Threads PROVE work[t].var \in Names \cup {None} /\ work[t].data \in Results
  BY DEF ValuesInv
<1>6. /\ pv \in [Names -> [state : {"waiting", "good", "bad"}, value : Int]]
      /\ published \in [Names -> Results] /\ auto \in [Names -> BOOLEAN]
  BY DEF ValuesInv, Operand
<1> QED
  BY <1>1, <1>2, <1>3, <1>4, <1>5, <1>6, Zenon DEF TypeOK, Phases

\* For formulas that give numbers for numbers: whatever the address space is
\* given, an operand that muParser reads is a number, a result is a number, bad
\* or waiting, and no ParserVariable is registered twice.
THEOREM TypeCorrect == ASSUME FormulasCompute PROVE Spec => []TypeOK
<1>1. Init => ValuesInv /\ OnceInv
  <2> SUFFICES ASSUME Init PROVE ValuesInv /\ OnceInv
    OBVIOUS
  <2>1. \A t \in Threads : work[t].var \in Names \cup {None} /\ work[t].data \in Results
    BY WaitingTyped DEF Init, Idle, Work
  <2>2. ValuesInv
    BY <2>1, WaitingTyped DEF Init, ValuesInv, Operand
  <2>3. OnceInv
    BY DEF Init, OnceInv, Range
  <2> QED
    BY <2>2, <2>3
<1>2. Inv /\ GraphInv /\ NestInv /\ [Next]_vars => Inv' /\ GraphInv' /\ NestInv'
  BY InvStep, GraphStep, NestStep
<1>3. (Init => phase \in Phases) /\ (phase \in Phases /\ [Next]_vars => (phase \in Phases)')
  BY DEF Init, Next, StartUp, RegisterVariable, InstantiateCalculatedVariable, InstantiateFails, Configured,
         Optimize, Optimized, SetupSynchronization, Synchronized, Setter, SetValue, Listen, Update,
         Evaluate, Publish, Return, TriggerRecalculation, SetAutoUpdate, vars, graphVars, Phases
<1>4. Inv /\ GraphInv /\ GraphInv' /\ ValuesInv /\ OnceInv /\ [Next]_vars => ValuesInv' /\ OnceInv'
  BY ValuesStep, OnceStep
<1>5. Inv /\ GraphInv /\ NestInv /\ ValuesInv /\ OnceInv /\ phase \in Phases => TypeOK
  BY Typed
<1> QED
  BY Initially, NestInitially, <1>1, <1>2, <1>3, <1>4, <1>5, PTL DEF Spec
=============================================================================
