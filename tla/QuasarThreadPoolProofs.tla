----------------------- MODULE QuasarThreadPoolProofs -----------------------
(***************************************************************************)
(* Safety of the worker pool for any number of threads, users, mutexes and *)
(* jobs (the jobs need not even be finitely many). The counters of the     *)
(* pool account for every job because the queue holds each pending job     *)
(* exactly once and each job taken has exactly one worker: Inv says that.  *)
(***************************************************************************)
EXTENDS QuasarThreadPool, FiniteSetTheorems, TLAPS

InRange(s) == {s[i] : i \in 1..Len(s)}
Distinct(s) == \A i, k \in 1..Len(s) : s[i] = s[k] => i = k

-----------------------------------------------------------------------------
(* The queue as a sequence without repetitions.                            *)

\* A sequence without repetitions has as many elements as it is long.
LEMMA DistinctCardinality ==
    ASSUME NEW S, NEW s \in Seq(S), Distinct(s)
    PROVE  IsFiniteSet(InRange(s)) /\ Cardinality(InRange(s)) = Len(s)
<1>1. Len(s) \in Nat
  OBVIOUS
<1>2. IsFiniteSet(1..Len(s)) /\ Cardinality(1..Len(s)) = Len(s)
  BY <1>1, FS_Interval, SMTT(30)
<1> DEFINE f == [i \in 1..Len(s) |-> s[i]]
<1>3. f \in Bijection(1..Len(s), InRange(s))
  BY DEF Bijection, Injection, Surjection, IsInjective, InRange, Distinct
<1>4. ExistsBijection(1..Len(s), InRange(s))
  BY <1>3 DEF ExistsBijection
<1> QED
  BY <1>2, <1>4, FS_Bijection

\* addJob: a job that is not in the queue is appended.
LEMMA AppendDistinct ==
    ASSUME NEW S, NEW s \in Seq(S), NEW x \in S, Distinct(s), x \notin InRange(s)
    PROVE  /\ Append(s, x) \in Seq(S)
           /\ Len(Append(s, x)) = Len(s) + 1
           /\ InRange(Append(s, x)) = InRange(s) \cup {x}
           /\ Distinct(Append(s, x))
<1> DEFINE t == Append(s, x)
<1>1. t \in Seq(S) /\ Len(t) = Len(s) + 1 /\ t[Len(s) + 1] = x
      /\ \A i \in 1..Len(s) : t[i] = s[i]
  OBVIOUS
<1>2. \A i \in 1..Len(t) : i \in 1..Len(s) \/ i = Len(s) + 1
  BY <1>1
<1>3. InRange(t) = InRange(s) \cup {x}
  <2>1. ASSUME NEW y \in InRange(t) PROVE y \in InRange(s) \cup {x}
    BY <1>1, <1>2, <2>1 DEF InRange
  <2>2. ASSUME NEW y \in InRange(s) \cup {x} PROVE y \in InRange(t)
    <3>1. CASE y = x
      BY <1>1, <3>1 DEF InRange
    <3>2. CASE y \in InRange(s)
      <4>1. PICK i \in 1..Len(s) : y = s[i]
        BY <3>2 DEF InRange
      <4>2. i \in 1..Len(t) /\ t[i] = y
        BY <1>1, <4>1
      <4> QED
        BY <4>2 DEF InRange
    <3> QED
      BY <2>2, <3>1, <3>2
  <2> QED
    BY <2>1, <2>2
<1>4. Distinct(t)
  BY <1>1, <1>2 DEF Distinct, InRange
<1> QED
  BY <1>1, <1>3, <1>4

\* findSomeDuty: the job at position i is erased, the others stay.
LEMMA WithoutDistinct ==
    ASSUME NEW S, NEW s \in Seq(S), NEW i \in 1..Len(s), Distinct(s)
    PROVE  /\ Without(s, i) \in Seq(S)
           /\ Len(Without(s, i)) = Len(s) - 1
           /\ InRange(Without(s, i)) = InRange(s) \ {s[i]}
           /\ Distinct(Without(s, i))
<1> DEFINE n == Len(s)
           a == SubSeq(s, 1, i - 1)
           b == SubSeq(s, i + 1, n)
           t == Without(s, i)
           old(k) == IF k < i THEN k ELSE k + 1
<1>1. n \in Nat /\ i \in 1..n
  OBVIOUS
<1>2. a \in Seq(S) /\ Len(a) = i - 1 /\ \A k \in 1..(i - 1) : a[k] = s[k]
  BY <1>1
<1>3. b \in Seq(S) /\ Len(b) = n - i /\ \A k \in 1..(n - i) : b[k] = s[i + k]
  BY <1>1
<1>a. t = a \o b
  BY DEF Without
<1> HIDE DEF a, b, t
<1>b. /\ t \in Seq(S) /\ Len(t) = Len(a) + Len(b)
      /\ \A k \in 1..Len(a) : t[k] = a[k]
      /\ \A k \in 1..Len(b) : t[Len(a) + k] = b[k]
  <2>1. a \in Seq(S) /\ b \in Seq(S)
    BY <1>2, <1>3
  <2>2. /\ a \o b \in Seq(S) /\ Len(a \o b) = Len(a) + Len(b)
        /\ \A k \in 1..Len(a) : (a \o b)[k] = a[k]
        /\ \A k \in 1..Len(b) : (a \o b)[Len(a) + k] = b[k]
    BY <2>1
  <2> QED
    BY <1>a, <2>2, Zenon
<1>4. t \in Seq(S) /\ Len(t) = n - 1
  BY <1>1, <1>2, <1>3, <1>b
<1>5. ASSUME NEW k \in 1..(n - 1) PROVE t[k] = s[old(k)] /\ old(k) \in 1..n /\ old(k) # i
  <2>1. CASE k < i
    BY <1>1, <1>2, <1>b, <2>1
  <2>2. CASE ~(k < i)
    <3>1. k - (i - 1) \in 1..(n - i) /\ i + (k - (i - 1)) = k + 1 /\ Len(a) + (k - (i - 1)) = k
      BY <1>1, <1>2, <2>2
    <3>2. t[Len(a) + (k - (i - 1))] = b[k - (i - 1)]
      BY <1>3, <1>b, <3>1
    <3>3. b[k - (i - 1)] = s[i + (k - (i - 1))]
      BY <1>3, <3>1
    <3> QED
      BY <1>1, <2>2, <3>1, <3>2, <3>3
  <2> QED
    BY <2>1, <2>2
<1>6. ASSUME NEW k \in 1..n, k # i PROVE \E m \in 1..(n - 1) : old(m) = k
  <2>1. CASE k < i
    BY <1>1, <2>1
  <2>2. CASE ~(k < i)
    <3>1. k - 1 \in 1..(n - 1) /\ old(k - 1) = k
      BY <1>1, <1>6, <2>2
    <3> QED
      BY <3>1
  <2> QED
    BY <2>1, <2>2
<1>7. InRange(t) = InRange(s) \ {s[i]}
  <2>1. ASSUME NEW y \in InRange(t) PROVE y \in InRange(s) \ {s[i]}
    BY <1>4, <1>5, <2>1, SMTT(30) DEF InRange, Distinct
  <2>2. ASSUME NEW y \in InRange(s) \ {s[i]} PROVE y \in InRange(t)
    <3>1. PICK k \in 1..n : y = s[k] /\ k # i
      BY <2>2 DEF InRange
    <3>2. PICK m \in 1..(n - 1) : old(m) = k
      BY <1>6, <3>1
    <3>3. t[m] = y
      BY <1>5, <3>1, <3>2
    <3> QED
      BY <1>4, <3>3 DEF InRange
  <2> QED
    BY <2>1, <2>2
<1>8. Distinct(t)
  <2> SUFFICES ASSUME NEW k \in 1..(n - 1), NEW m \in 1..(n - 1), t[k] = t[m]
               PROVE  k = m
    BY <1>4 DEF Distinct
  <2>1. s[old(k)] = s[old(m)] /\ old(k) \in 1..n /\ old(m) \in 1..n
    BY <1>5
  <2>2. old(k) = old(m)
    BY <2>1 DEF Distinct
  <2> QED
    BY <2>2, <1>1
<1> QED
  BY <1>4, <1>7, <1>8 DEF t

-----------------------------------------------------------------------------
(* The inductive invariant.                                                *)

Busy == {"execute", "unlock", "count", "drop"}

\* The queue holds every pending job once and no other.
QueueExact ==
    /\ Distinct(pending)
    /\ InRange(pending) = InState("pending")
    /\ Len(pending) <= MaxJobs

\* A worker has a job exactly while it is busy with one; the job runs until
\* execute() returned; no two workers have the same job, and a running job has
\* a worker.
DutiesExact ==
    /\ \A w \in Workers : at[w] \in Busy <=> duty[w] # None
    /\ \A w \in Workers : at[w] = "execute" => state[duty[w]] = "running"
    /\ \A w \in Workers : at[w] \in {"unlock", "count", "drop"} => state[duty[w]] = "done"
    /\ \A w \in Workers : at[w] = "unlock" => JobMutex[duty[w]] # None
    /\ \A v, w \in Workers : duty[v] = duty[w] /\ duty[v] # None => v = w
    /\ \A j \in Jobs : state[j] = "running" => \E w \in Workers : at[w] = "execute" /\ duty[w] = j

\* addJob counts a job late, never one that was refused.
CountingAccepted ==
    /\ IsFiniteSet(counting)
    /\ \A j \in counting : state[j] \notin {"new", "rejected"}

\* The counters' equation.
Balance ==
    /\ IsFiniteSet(InState("dropped"))
    /\ accepted + Cardinality(counting)
         = Len(pending) + Cardinality(Uncounted) + finished + Cardinality(InState("dropped"))

\* The destructor returns to a pool without workers and without a queue.
DestroyedEmpty ==
    pool = "destroyed" => pending = <<>> /\ \A w \in Workers : at[w] = "gone"

Inv ==
    /\ TypeOK
    /\ QueueExact
    /\ DutiesExact
    /\ CountingAccepted
    /\ Balance
    /\ DestroyedEmpty

\* The initial state satisfies the invariant.
LEMMA InitInv == Init => Inv
<1> SUFFICES ASSUME Init PROVE Inv
  OBVIOUS
<1>1. TypeOK
  <2>1. quit \in BOOLEAN /\ held \in [Mutexes -> BOOLEAN]
    BY DEF Init
  <2>2. pending \in Seq(Jobs) /\ state \in [Jobs -> JobStates] /\ counting \subseteq Jobs
    BY DEF Init, JobStates
  <2>3. /\ at \in [Workers -> Places] /\ duty \in [Workers -> Jobs \cup {None}]
        /\ user \in [Users -> Mutexes \cup {None}]
        /\ \A w \in Workers : at[w] \in {"execute", "unlock", "count", "drop"} => duty[w] \in Jobs
    BY DEF Init, Places
  <2> QED
    BY <2>1, <2>2, <2>3 DEF Init, TypeOK
<1>2. InState("pending") = {} /\ InState("dropped") = {} /\ Uncounted = {} /\ counting = {}
  BY DEF Init, InState, Uncounted
<1>3. QueueExact
  BY <1>2, PoolAssumption DEF Init, QueueExact, Distinct, InRange
<1>4. DutiesExact
  BY DEF Init, DutiesExact, Busy
<1>5. CountingAccepted /\ Balance
  <2>1. /\ IsFiniteSet(counting) /\ IsFiniteSet(InState("dropped"))
        /\ Cardinality(counting) = 0 /\ Cardinality(Uncounted) = 0
        /\ Cardinality(InState("dropped")) = 0
    BY <1>2, FS_EmptySet
  <2>2. accepted = 0 /\ finished = 0 /\ Len(pending) = 0 /\ counting = {}
    BY DEF Init
  <2> QED
    BY <2>1, <2>2 DEF CountingAccepted, Balance
<1>6. DestroyedEmpty
  BY DEF Init, DestroyedEmpty
<1> QED
  BY <1>1, <1>3, <1>4, <1>5, <1>6 DEF Inv

\* The workers that owe m_jobsFinishedCounter an increment are finitely many.
LEMMA UncountedFinite == IsFiniteSet(Uncounted) /\ Cardinality(Uncounted) \in Nat
<1>1. Uncounted \in SUBSET Workers
  BY DEF Uncounted
<1> QED
  BY <1>1, PoolAssumption, FS_Subset, FS_CardinalityType

\* A worker that moves between places of the same side keeps Uncounted.
LEMMA UncountedSame ==
    ASSUME TypeOK, NEW w \in Workers, NEW p \in Places, at' = [at EXCEPT ![w] = p],
           at[w] \in {"execute", "unlock", "count"} <=> p \in {"execute", "unlock", "count"}
    PROVE  Uncounted' = Uncounted
  BY DEF TypeOK, Uncounted

\* addJob within m_accessLock preserves the invariant: the new job enters the
\* queue and is counted as under way.
LEMMA AddJobInv == ASSUME Inv, NEW j \in Jobs, AddJob(j) PROVE Inv'
<1> USE DEF Inv
<1>1. state[j] \in {"new", "rejected"} /\ j \notin counting /\ j \notin InRange(pending)
  BY DEF AddJob, Offered, CountingAccepted, QueueExact, InState
<1>2. /\ pending' \in Seq(Jobs) /\ Len(pending') = Len(pending) + 1
      /\ InRange(pending') = InRange(pending) \cup {j} /\ Distinct(pending')
  BY <1>1, AppendDistinct DEF TypeOK, QueueExact, AddJob
<1>3. /\ InState("pending")' = InState("pending") \cup {j}
      /\ InState("dropped")' = InState("dropped") /\ Uncounted' = Uncounted
  BY <1>1 DEF AddJob, TypeOK, InState, Uncounted, workerVars
<1>4. TypeOK'
  BY <1>2 DEF AddJob, TypeOK, JobStates, workerVars
<1>5. QueueExact'
  <2>1. Len(pending) \in Nat /\ Len(pending) < MaxJobs
    BY DEF AddJob, TypeOK
  <2>2. InRange(pending)' = InState("pending")'
    BY <1>2, <1>3 DEF QueueExact, InRange
  <2>3. Distinct(pending)'
    BY <1>2 DEF Distinct
  <2> QED
    BY <1>2, <2>1, <2>2, <2>3, PoolAssumption DEF QueueExact
<1>6. DutiesExact'
  <2>1. \A w \in Workers : duty[w] # None => duty[w] # j
    BY <1>1 DEF DutiesExact, Busy
  <2> QED
    BY <1>1, <2>1 DEF AddJob, TypeOK, DutiesExact, Busy, workerVars
<1>7. CountingAccepted' /\ Cardinality(counting') = Cardinality(counting) + 1
  <2>1. IsFiniteSet(counting') /\ Cardinality(counting') = Cardinality(counting) + 1
    BY <1>1, FS_AddElement DEF AddJob, CountingAccepted
  <2> QED
    BY <1>1, <2>1 DEF AddJob, TypeOK, CountingAccepted
<1>8. Balance'
  <2>1. Cardinality(counting) \in Nat /\ Cardinality(InState("dropped")) \in Nat /\ Len(pending) \in Nat
    BY FS_CardinalityType DEF CountingAccepted, Balance, TypeOK
  <2>2. accepted' = accepted /\ finished' = finished
    BY DEF AddJob
  <2>3. Cardinality(counting') = Cardinality(counting) + 1 /\ Len(pending') = Len(pending) + 1
    BY <1>2, <1>7
  <2>4. accepted \in Nat /\ finished \in Nat
    BY DEF TypeOK
  <2>5. InState("dropped")' = InState("dropped") /\ Uncounted' = Uncounted
    BY <1>3
  <2>6. accepted + Cardinality(counting)
          = Len(pending) + Cardinality(Uncounted) + finished + Cardinality(InState("dropped"))
    BY DEF Balance
  <2>7. accepted' + Cardinality(counting')
          = Len(pending') + Cardinality(Uncounted) + finished' + Cardinality(InState("dropped"))
    <3> DEFINE n == Len(pending)
               m == Len(pending')
               c == Cardinality(counting)
               d == Cardinality(counting')
               u == Cardinality(Uncounted)
               e == Cardinality(InState("dropped"))
    <3>1. m = n + 1 /\ d = c + 1 /\ n \in Nat /\ c \in Nat /\ u \in Nat /\ e \in Nat
      BY <2>1, <2>3, UncountedFinite
    <3>2. accepted + c = n + u + finished + e
      BY <2>6
    <3> HIDE DEF n, m, c, d, u, e
    <3>3. accepted' + d = m + u + finished' + e
      BY <2>2, <2>4, <3>1, <3>2
    <3> QED
      BY <3>3 DEF n, m, c, d, u, e
  <2> QED
    BY <2>5, <2>7 DEF Balance
<1>9. DestroyedEmpty'
  BY DEF AddJob, DestroyedEmpty
<1> QED
  BY <1>4, <1>5, <1>6, <1>7, <1>8, <1>9

\* The late increment of m_jobsAcceptedCounter preserves the invariant.
LEMMA CountAcceptedInv == ASSUME Inv, NEW j \in Jobs, CountAccepted(j) PROVE Inv'
<1> USE DEF Inv
<1>1. /\ InState("pending")' = InState("pending")
      /\ InState("dropped")' = InState("dropped") /\ Uncounted' = Uncounted
  BY DEF CountAccepted, InState, Uncounted, workerVars
<1>2. TypeOK' /\ DutiesExact' /\ DestroyedEmpty' /\ QueueExact'
  BY <1>1 DEF CountAccepted, TypeOK, DutiesExact, DestroyedEmpty, QueueExact, Distinct, InRange, workerVars
<1>3. IsFiniteSet(counting') /\ Cardinality(counting') = Cardinality(counting) - 1
  BY FS_RemoveElement DEF CountAccepted, CountingAccepted
<1>4. CountingAccepted'
  BY <1>3 DEF CountAccepted, CountingAccepted
<1>5. Balance'
  <2>1. Cardinality(counting) \in Nat /\ Cardinality(InState("dropped")) \in Nat /\ Len(pending) \in Nat
    BY FS_CardinalityType DEF CountingAccepted, Balance, TypeOK
  <2>2. accepted' = accepted + 1 /\ finished' = finished /\ pending' = pending
    BY DEF CountAccepted
  <2> QED
    BY <1>1, <1>3, <2>1, <2>2, UncountedFinite DEF TypeOK, Balance
<1> QED
  BY <1>2, <1>4, <1>5

\* findSomeDuty preserves the invariant: the job leaves the queue for exactly
\* one worker.
LEMMA FindSomeDutyInv == ASSUME Inv, NEW w \in Workers, FindSomeDuty(w) PROVE Inv'
<1> USE DEF Inv
<1>1. PICK i \in 1..Len(pending) :
        /\ duty' = [duty EXCEPT ![w] = pending[i]]
        /\ state' = [state EXCEPT ![pending[i]] = "running"]
        /\ held' = IF JobMutex[pending[i]] = None THEN held
                   ELSE [held EXCEPT ![JobMutex[pending[i]]] = TRUE]
        /\ pending' = Without(pending, i)
  BY DEF FindSomeDuty
<1> DEFINE j == pending[i]
<1>2. j \in Jobs /\ j \in InRange(pending)
  BY <1>1 DEF TypeOK, InRange
<1>3. state[j] = "pending"
  BY <1>2 DEF QueueExact, InState
<1>4. /\ pending' \in Seq(Jobs) /\ Len(pending') = Len(pending) - 1
      /\ InRange(pending') = InRange(pending) \ {j} /\ Distinct(pending')
  BY <1>1, WithoutDistinct DEF TypeOK, QueueExact
<1>5. at[w] = "seek" /\ at' = [at EXCEPT ![w] = "execute"]
      /\ UNCHANGED <<pool, quit, counting, accepted, finished, user>>
  BY DEF FindSomeDuty
<1> HIDE DEF j
<1>a. duty' = [duty EXCEPT ![w] = j] /\ state' = [state EXCEPT ![j] = "running"]
      /\ held' = IF JobMutex[j] = None THEN held ELSE [held EXCEPT ![JobMutex[j]] = TRUE]
  BY <1>1 DEF j
<1>6. TypeOK'
  <2>1. held' \in [Mutexes -> BOOLEAN]
    BY <1>a, <1>2, PoolAssumption DEF TypeOK
  <2> QED
    BY <1>2, <1>4, <1>5, <1>a, <2>1 DEF TypeOK, JobStates, Places
<1>7. /\ InState("pending")' = InState("pending") \ {j}
      /\ InState("dropped")' = InState("dropped")
  BY <1>2, <1>3, <1>a DEF TypeOK, InState
<1>8. QueueExact'
  <2>1. InRange(pending)' = InState("pending")'
    BY <1>4, <1>7 DEF QueueExact, InRange
  <2>2. Distinct(pending)'
    BY <1>4 DEF Distinct
  <2>3. Len(pending') <= MaxJobs
    BY <1>4, PoolAssumption DEF QueueExact, TypeOK
  <2> QED
    BY <2>1, <2>2, <2>3 DEF QueueExact
<1>9. DutiesExact'
  <2>1. \A v \in Workers : duty[v] # j
    BY <1>2, <1>3, PoolAssumption DEF DutiesExact, Busy
  <2>2. j # None
    BY <1>2, PoolAssumption
  <2> QED
    BY <1>2, <1>3, <1>5, <1>a, <2>1, <2>2 DEF TypeOK, DutiesExact, Busy
<1>10. CountingAccepted'
  BY <1>2, <1>5, <1>a DEF TypeOK, CountingAccepted
<1>11. Uncounted' = Uncounted \cup {w} /\ w \notin Uncounted
  BY <1>5 DEF TypeOK, Uncounted
<1>12. Balance'
  <2>1. Cardinality(Uncounted') = Cardinality(Uncounted) + 1
    BY <1>11, UncountedFinite, FS_AddElement
  <2>2. Len(pending) \in Nat /\ Cardinality(InState("dropped")) \in Nat
    BY FS_CardinalityType DEF Balance, TypeOK
  <2> QED
    BY <1>4, <1>5, <1>7, <2>1, <2>2, UncountedFinite DEF TypeOK, Balance
<1>13. DestroyedEmpty'
  BY <1>5 DEF DestroyedEmpty
<1> QED
  BY <1>6, <1>8, <1>9, <1>10, <1>12, <1>13

\* The steps of a worker that change neither the queue nor a job's state
\* preserve the invariant.
LEMMA IdleStepInv ==
    ASSUME Inv, NEW w \in Workers, FindNothing(w) \/ WaitEnds(w) \/ Leave(w)
    PROVE  Inv'
<1> USE DEF Inv
<1>1. PICK p \in {"wait", "seek", "gone"} :
        /\ at[w] \in {"seek", "wait"} /\ at' = [at EXCEPT ![w] = p]
        /\ UNCHANGED <<pool, quit, pending, state, counting, accepted, finished, duty, held, user>>
  BY DEF FindNothing, WaitEnds, Leave, jobVars
<1>2. Uncounted' = Uncounted
  BY <1>1, UncountedSame DEF Places
<1>3. /\ InState("pending")' = InState("pending")
      /\ InState("dropped")' = InState("dropped")
  BY <1>1 DEF InState
<1>4. TypeOK' /\ DutiesExact'
  BY <1>1 DEF TypeOK, DutiesExact, Busy, Places
<1>5. QueueExact' /\ CountingAccepted' /\ Balance'
  BY <1>1, <1>2, <1>3 DEF QueueExact, CountingAccepted, Balance, Distinct, InRange
<1>6. DestroyedEmpty'
  BY <1>1 DEF DestroyedEmpty
<1> QED
  BY <1>4, <1>5, <1>6

\* The end of execute() preserves the invariant.
LEMMA ExecuteInv == ASSUME Inv, NEW w \in Workers, Execute(w) PROVE Inv'
<1> USE DEF Inv
<1> DEFINE j == duty[w]
           p == IF JobMutex[j] = None THEN "count" ELSE "unlock"
<1>1. j \in Jobs /\ state[j] = "running" /\ j # None
  BY PoolAssumption DEF Execute, TypeOK, DutiesExact
<1>2. /\ at[w] = "execute" /\ p \in {"count", "unlock"} /\ at' = [at EXCEPT ![w] = p]
      /\ state' = [state EXCEPT ![j] = "done"]
      /\ UNCHANGED <<pool, quit, pending, counting, accepted, finished, duty, held, user>>
  BY DEF Execute
<1>3. Uncounted' = Uncounted
  BY <1>2, UncountedSame DEF Places
<1>4. /\ InState("pending")' = InState("pending")
      /\ InState("dropped")' = InState("dropped")
  BY <1>1, <1>2 DEF TypeOK, InState
<1>5. TypeOK'
  BY <1>1, <1>2 DEF TypeOK, Places, JobStates
<1>6. DutiesExact'
  BY <1>1, <1>2 DEF TypeOK, DutiesExact, Busy
<1>7. QueueExact' /\ CountingAccepted' /\ Balance'
  BY <1>1, <1>2, <1>3, <1>4 DEF TypeOK, QueueExact, CountingAccepted, Balance, Distinct, InRange
<1>8. DestroyedEmpty'
  BY <1>2 DEF DestroyedEmpty
<1> QED
  BY <1>5, <1>6, <1>7, <1>8

\* The manual unlock after execute() preserves the invariant.
LEMMA UnlockInv == ASSUME Inv, NEW w \in Workers, Unlock(w) PROVE Inv'
<1> USE DEF Inv
<1>1. /\ at[w] = "unlock" /\ at' = [at EXCEPT ![w] = "count"]
      /\ UNCHANGED <<pool, quit, pending, state, counting, accepted, finished, duty, user>>
  BY DEF Unlock, jobVars
<1>2. held' \in [Mutexes -> BOOLEAN]
  BY DEF Unlock, TypeOK
<1>3. Uncounted' = Uncounted
  BY <1>1, UncountedSame DEF Places
<1>4. /\ InState("pending")' = InState("pending")
      /\ InState("dropped")' = InState("dropped")
  BY <1>1 DEF InState
<1>5. TypeOK'
  BY <1>1, <1>2 DEF TypeOK, Places
<1>6. DutiesExact'
  BY <1>1 DEF TypeOK, DutiesExact, Busy
<1>7. QueueExact' /\ CountingAccepted' /\ Balance'
  BY <1>1, <1>3, <1>4 DEF QueueExact, CountingAccepted, Balance, Distinct, InRange
<1>8. DestroyedEmpty'
  BY <1>1 DEF DestroyedEmpty
<1> QED
  BY <1>5, <1>6, <1>7, <1>8

\* The increment of m_jobsFinishedCounter preserves the invariant.
LEMMA CountFinishedInv == ASSUME Inv, NEW w \in Workers, CountFinished(w) PROVE Inv'
<1> USE DEF Inv
<1>1. /\ at[w] = "count" /\ at' = [at EXCEPT ![w] = "drop"] /\ finished' = finished + 1
      /\ UNCHANGED <<pool, quit, pending, state, counting, accepted, duty, held, user>>
  BY DEF CountFinished
<1>2. /\ InState("pending")' = InState("pending")
      /\ InState("dropped")' = InState("dropped")
  BY <1>1 DEF InState
<1>3. Uncounted' = Uncounted \ {w} /\ w \in Uncounted
  BY <1>1 DEF TypeOK, Uncounted
<1>4. TypeOK'
  BY <1>1 DEF TypeOK, Places
<1>5. DutiesExact'
  BY <1>1 DEF TypeOK, DutiesExact, Busy
<1>6. QueueExact' /\ CountingAccepted'
  BY <1>1, <1>2 DEF QueueExact, CountingAccepted, Distinct, InRange
<1>7. Balance'
  <2>1. Cardinality(Uncounted') = Cardinality(Uncounted) - 1
    BY <1>3, UncountedFinite, FS_RemoveElement
  <2>2. Cardinality(counting) \in Nat /\ Cardinality(InState("dropped")) \in Nat /\ Len(pending) \in Nat
    BY FS_CardinalityType DEF CountingAccepted, Balance, TypeOK
  <2>3. accepted \in Nat /\ finished \in Nat
    BY DEF TypeOK
  <2>4. accepted' = accepted /\ finished' = finished + 1 /\ pending' = pending /\ counting' = counting
    BY <1>1
  <2> QED
    BY <1>2, <2>1, <2>2, <2>3, <2>4, UncountedFinite DEF Balance
<1>8. DestroyedEmpty'
  BY <1>1 DEF DestroyedEmpty
<1> QED
  BY <1>4, <1>5, <1>6, <1>7, <1>8

\* The destruction of duty, with its second unlock, preserves the invariant:
\* whatever it does to the mutex, it does nothing to the jobs.
LEMMA DropDutyInv == ASSUME Inv, NEW w \in Workers, DropDuty(w) PROVE Inv'
<1> USE DEF Inv
<1>1. /\ at[w] = "drop" /\ at' = [at EXCEPT ![w] = "seek"] /\ duty' = [duty EXCEPT ![w] = None]
      /\ UNCHANGED <<pool, quit, pending, state, counting, accepted, finished, user>>
  BY DEF DropDuty, jobVars
<1>2. held' \in [Mutexes -> BOOLEAN]
  BY DEF DropDuty, TypeOK
<1>3. Uncounted' = Uncounted
  BY <1>1, UncountedSame DEF Places
<1>4. /\ InState("pending")' = InState("pending")
      /\ InState("dropped")' = InState("dropped")
  BY <1>1 DEF InState
<1>5. TypeOK'
  BY <1>1, <1>2 DEF TypeOK, Places
<1>6. DutiesExact'
  BY <1>1 DEF TypeOK, DutiesExact, Busy
<1>7. QueueExact' /\ CountingAccepted' /\ Balance'
  BY <1>1, <1>3, <1>4 DEF QueueExact, CountingAccepted, Balance, Distinct, InRange
<1>8. DestroyedEmpty'
  BY <1>1 DEF DestroyedEmpty
<1> QED
  BY <1>5, <1>6, <1>7, <1>8

\* The end of the destructor preserves the invariant: what is left in the queue
\* is dropped, each job once.
LEMMA FinishDestroyInv == ASSUME Inv, FinishDestroy PROVE Inv'
<1> USE DEF Inv
<1>1. /\ \A w \in Workers : at[w] = "gone"
      /\ pool' = "destroyed" /\ pending' = <<>>
      /\ state' = [j \in Jobs |-> IF state[j] = "pending" THEN "dropped" ELSE state[j]]
      /\ UNCHANGED <<quit, counting, accepted, finished, at, duty, held, user>>
  BY DEF FinishDestroy, workerVars
<1>2. /\ InState("pending")' = {}
      /\ InState("dropped")' = InState("dropped") \cup InState("pending")
      /\ InState("dropped") \cap InState("pending") = {}
      /\ Uncounted' = Uncounted
  BY <1>1 DEF TypeOK, InState, Uncounted
<1>3. TypeOK'
  BY <1>1 DEF TypeOK, JobStates
<1>4. DutiesExact'
  BY <1>1 DEF TypeOK, DutiesExact, Busy
<1>5. QueueExact'
  BY <1>1, <1>2, PoolAssumption DEF QueueExact, Distinct, InRange
<1>6. CountingAccepted'
  BY <1>1 DEF TypeOK, CountingAccepted
<1>7. Balance'
  <2>1. IsFiniteSet(InState("pending")) /\ Cardinality(InState("pending")) = Len(pending)
    BY DistinctCardinality DEF TypeOK, QueueExact
  <2>2. IsFiniteSet(InState("dropped"))
    BY DEF Balance
  <2>3. /\ IsFiniteSet(InState("dropped")')
        /\ Cardinality(InState("dropped")')
             = Cardinality(InState("dropped")) + Len(pending) - Cardinality({})
    BY <1>2, <2>1, <2>2, FS_Union
  <2>4. Cardinality({}) = 0
    BY FS_EmptySet
  <2>5. Len(pending') = 0 /\ Len(pending) \in Nat /\ Cardinality(InState("dropped")) \in Nat
        /\ Cardinality(counting) \in Nat
    BY <1>1, FS_CardinalityType DEF CountingAccepted, Balance, TypeOK
  <2>6. accepted' = accepted /\ finished' = finished /\ counting' = counting
    BY <1>1
  <2> QED
    BY <1>2, <2>3, <2>4, <2>5, <2>6, UncountedFinite DEF TypeOK, Balance
<1>8. DestroyedEmpty'
  BY <1>1 DEF DestroyedEmpty
<1> QED
  BY <1>3, <1>4, <1>5, <1>6, <1>7, <1>8

\* A refused job, the start of the destructor and the other users of the
\* mutexes touch nothing the accounting is about.
LEMMA OtherStepInv ==
    ASSUME Inv,
           \/ \E j \in Jobs : RejectJob(j)
           \/ Destroy
           \/ \E u \in Users : UserLock(u) \/ UserUnlock(u)
           \/ UNCHANGED vars
    PROVE  Inv'
<1> USE DEF Inv
<1>1. ASSUME NEW j \in Jobs, RejectJob(j) PROVE Inv'
  <2>1. /\ state[j] \in {"new", "rejected"} /\ state' = [state EXCEPT ![j] = "rejected"]
        /\ UNCHANGED <<pool, quit, pending, counting, accepted, finished, at, duty, held, user>>
    BY <1>1 DEF RejectJob, Offered, workerVars
  <2>2. /\ InState("pending")' = InState("pending")
        /\ InState("dropped")' = InState("dropped") /\ Uncounted' = Uncounted
    BY <2>1 DEF TypeOK, InState, Uncounted
  <2>3. TypeOK'
    BY <2>1 DEF TypeOK, JobStates
  <2>4. DutiesExact'
    BY <2>1 DEF TypeOK, DutiesExact, Busy
  <2>5. QueueExact' /\ CountingAccepted' /\ Balance' /\ DestroyedEmpty'
    BY <2>1, <2>2 DEF TypeOK, QueueExact, CountingAccepted, Balance, DestroyedEmpty, Distinct, InRange
  <2> QED
    BY <2>3, <2>4, <2>5
<1>2. ASSUME UNCHANGED <<jobVars, workerVars>>, TypeOK', DestroyedEmpty' PROVE Inv'
  <2>1. /\ InState("pending")' = InState("pending")
        /\ InState("dropped")' = InState("dropped") /\ Uncounted' = Uncounted
    BY <1>2 DEF InState, Uncounted, jobVars, workerVars
  <2>2. QueueExact' /\ CountingAccepted' /\ Balance' /\ DutiesExact'
    BY <1>2, <2>1 DEF jobVars, workerVars, QueueExact, CountingAccepted, Balance, DutiesExact,
                      Distinct, InRange
  <2> QED
    BY <1>2, <2>2
<1>3. CASE Destroy
  <2>1. quit' \in BOOLEAN
    BY <1>3 DEF Destroy
  <2>2. TypeOK' /\ DestroyedEmpty'
    BY <1>3, <2>1 DEF Destroy, TypeOK, DestroyedEmpty, jobVars, workerVars
  <2> QED
    BY <1>2, <1>3, <2>2 DEF Destroy
<1>4. ASSUME NEW u \in Users, UserLock(u) \/ UserUnlock(u) PROVE Inv'
  <2>1. held' \in [Mutexes -> BOOLEAN] /\ user' \in [Users -> Mutexes \cup {None}]
    BY <1>4 DEF UserLock, UserUnlock, TypeOK
  <2>2. UNCHANGED <<pool, quit, jobVars, workerVars>>
    BY <1>4 DEF UserLock, UserUnlock
  <2>3. TypeOK' /\ DestroyedEmpty'
    BY <2>1, <2>2 DEF TypeOK, DestroyedEmpty, jobVars, workerVars
  <2> QED
    BY <1>2, <2>2, <2>3
<1>5. CASE UNCHANGED vars
  <2>1. TypeOK' /\ DestroyedEmpty'
    BY <1>5 DEF vars, TypeOK, DestroyedEmpty
  <2> QED
    BY <1>2, <1>5, <2>1 DEF vars, jobVars, workerVars
<1> QED
  BY <1>1, <1>3, <1>4, <1>5

\* Every step preserves the invariant.
LEMMA StepInv == Inv /\ [Next]_vars => Inv'
  BY AddJobInv, CountAcceptedInv, FindSomeDutyInv, IdleStepInv, ExecuteInv, UnlockInv,
     CountFinishedInv, DropDutyInv, FinishDestroyInv, OtherStepInv
     DEF Next, WorkerStep

-----------------------------------------------------------------------------

\* Every variable of the pool keeps its kind, and a worker past findSomeDuty
\* has a job to execute, unlock and count (QuasarThreadPool::work).
THEOREM TypeCorrect == Spec => []TypeOK
<1>1. Inv => TypeOK
  BY DEF Inv
<1> QED
  BY <1>1, InitInv, StepInv, PTL DEF Spec

\* Whatever the order of addJob, its late counter, the workers and the
\* destructor, the pool's counters and its queue account for every accepted job,
\* and the queue never exceeds m_maxJobs (QuasarThreadPool::addJob, work and the
\* destructor).
THEOREM PoolConserves == Spec => []JobsConserved
<1>1. Inv => JobsConserved
  <2> SUFFICES ASSUME Inv PROVE JobsConserved
    OBVIOUS
  <2>1. Cardinality(InState("pending")) = Len(pending)
    BY DistinctCardinality DEF Inv, TypeOK, QueueExact
  <2> QED
    BY <2>1 DEF Inv, JobsConserved, QueueExact, Balance, InRange
<1> QED
  BY <1>1, InitInv, StepInv, PTL DEF Spec

\* After the destructor no worker, no queue and no running job is left, and at
\* no time do two workers have the same job (~QuasarThreadPool, findSomeDuty).
THEOREM DestroyedForGood == Spec => []NothingSurvives
<1>1. Inv => NothingSurvives
  <2> SUFFICES ASSUME Inv PROVE NothingSurvives
    OBVIOUS
  <2>1. ASSUME pool = "destroyed", NEW j \in Jobs PROVE state[j] \notin {"pending", "running"}
    <3>1. pending = <<>> /\ \A w \in Workers : at[w] = "gone"
      BY <2>1 DEF Inv, DestroyedEmpty
    <3>2. InState("pending") = {}
      BY <3>1 DEF Inv, QueueExact, InRange
    <3> QED
      BY <3>1, <3>2 DEF Inv, DutiesExact, InState
  <2> QED
    BY <2>1 DEF Inv, DestroyedEmpty, DutiesExact, NothingSurvives
<1> QED
  BY <1>1, InitInv, StepInv, PTL DEF Spec
=============================================================================
