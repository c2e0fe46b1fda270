-------------------------- MODULE QuasarThreadPool --------------------------
(***************************************************************************)
(* The worker pool for source variables and asynchronous methods           *)
(* (src/Common/src/QuasarThreadPool.cpp), with the other users of the      *)
(* mutexes its jobs carry: synchronous source variables and device logic   *)
(* lock the same std::mutex themselves (src/AddressSpace/include/          *)
(* ASSourceVariable.h).                                                    *)
(*                                                                         *)
(* m_accessLock protects sections without a blocking call in them, so each *)
(* section is one action. A worker that finds nothing waits at most 100 ms *)
(* on the condition variable: notifications only shorten the wait, and a   *)
(* lost one is made up by the timeout, so the model has the timeout alone. *)
(*                                                                         *)
(* A std::mutex is the Boolean "held": who unlocks it is not checked.      *)
(***************************************************************************)
EXTENDS Naturals, FiniteSets, Sequences

CONSTANTS
    Workers,   \* the pool's threads
    Users,     \* other threads that lock the jobs' mutexes directly
    Jobs,      \* the jobs that will ever be offered to the pool
    Mutexes,
    JobMutex,  \* JobMutex[j]: the job's associatedMutex(), or None
    MaxJobs,   \* m_maxJobs
    None

ASSUME PoolAssumption ==
    /\ JobMutex \in [Jobs -> Mutexes \cup {None}]
    /\ MaxJobs \in Nat
    /\ None \notin Mutexes \cup Jobs
    /\ IsFiniteSet(Workers)   \* m_workers: as many threads as the constructor was told

VARIABLES
    pool,      \* "live", "joining" (in the destructor) or "destroyed"
    quit,      \* m_quit
    pending,   \* m_pendingJobs
    state,     \* state[j]: what became of job j
    counting,  \* accepted jobs whose addJob has not yet counted them
    accepted,  \* m_jobsAcceptedCounter
    finished,  \* m_jobsFinishedCounter
    at,        \* at[w]: where worker w is in work()
    duty,      \* duty[w].job
    held,      \* held[m]: mutex m is locked
    user       \* user[u]: the mutex u holds, or None

vars == <<pool, quit, pending, state, counting, accepted, finished, at, duty, held, user>>
jobVars == <<pending, state, counting, accepted, finished>>
workerVars == <<at, duty>>

JobStates == {"new", "rejected", "pending", "running", "done", "dropped"}
Places == {"seek", "wait", "execute", "unlock", "count", "drop", "gone"}

Without(s, i) == SubSeq(s, 1, i - 1) \o SubSeq(s, i + 1, Len(s))

-----------------------------------------------------------------------------
(* addJob, by any thread that still has the pool's address. The pointer is *)
(* reset only after the destructor returned, so jobs may come in while it  *)
(* joins.                                                                  *)

Offered(j) == state[j] \in {"new", "rejected"}

\* Faulty variant of AddJob: off by one at the limit.
AddJobAtLimit(j) ==
    /\ Offered(j) /\ pool # "destroyed"
    /\ Len(pending) <= MaxJobs
    /\ pending' = Append(pending, j)
    /\ state' = [state EXCEPT ![j] = "pending"]
    /\ counting' = counting \cup {j}
    /\ UNCHANGED <<pool, quit, accepted, finished, workerVars, held, user>>

AddJob(j) ==
    /\ Offered(j) /\ pool # "destroyed"
    /\ Len(pending) < MaxJobs
    /\ pending' = Append(pending, j)
    /\ state' = [state EXCEPT ![j] = "pending"]
    /\ counting' = counting \cup {j}
    /\ UNCHANGED <<pool, quit, accepted, finished, workerVars, held, user>>

\* m_jobsAcceptedCounter++ after m_accessLock was released.
CountAccepted(j) ==
    /\ j \in counting
    /\ counting' = counting \ {j}
    /\ accepted' = accepted + 1
    /\ UNCHANGED <<pool, quit, pending, state, finished, workerVars, held, user>>

\* BadResourceUnavailable from a full pool, BadOutOfService without one.
RejectJob(j) ==
    /\ Offered(j)
    /\ Len(pending) >= MaxJobs \/ pool = "destroyed"
    /\ state' = [state EXCEPT ![j] = "rejected"]
    /\ UNCHANGED <<pool, quit, pending, counting, accepted, finished, workerVars, held, user>>

-----------------------------------------------------------------------------
(* work()                                                                  *)

\* Faulty variant of Takeable: a blocked job at the head stops the search.
TakeableAtHead(i) == i = 1 /\ (JobMutex[pending[i]] # None => ~held[JobMutex[pending[i]]])

\* findSomeDuty takes the first job without a mutex or with a free one.
Takeable(i) == JobMutex[pending[i]] # None => ~held[JobMutex[pending[i]]]

FindSomeDuty(w) ==
    /\ at[w] = "seek" /\ ~quit
    /\ \E i \in 1..Len(pending) :
        /\ Takeable(i)
        /\ \A k \in 1..(i - 1) : ~Takeable(k)
        /\ LET j == pending[i]
           IN /\ duty' = [duty EXCEPT ![w] = j]
              /\ state' = [state EXCEPT ![j] = "running"]
              /\ held' = IF JobMutex[j] = None THEN held ELSE [held EXCEPT ![JobMutex[j]] = TRUE]
        /\ pending' = Without(pending, i)
    /\ at' = [at EXCEPT ![w] = "execute"]
    /\ UNCHANGED <<pool, quit, counting, accepted, finished, user>>

FindNothing(w) ==
    /\ at[w] = "seek" /\ ~quit
    /\ \A i \in 1..Len(pending) : ~Takeable(i)
    /\ at' = [at EXCEPT ![w] = "wait"]
    /\ UNCHANGED <<pool, quit, jobVars, duty, held, user>>

\* Faulty variant of WaitEnds: wait in place of wait_for; only addJob and the
\* destructor notify.
WaitsForNotify(w) ==
    /\ at[w] = "wait"
    /\ counting # {} \/ quit
    /\ at' = [at EXCEPT ![w] = "seek"]
    /\ UNCHANGED <<pool, quit, jobVars, duty, held, user>>

WaitEnds(w) ==
    /\ at[w] = "wait"
    /\ at' = [at EXCEPT ![w] = "seek"]
    /\ UNCHANGED <<pool, quit, jobVars, duty, held, user>>

\* Faulty variant of Leave: the worker stays until the queue is drained.
LeaveWhenDrained(w) ==
    /\ at[w] = "seek" /\ quit
    /\ pending = <<>>
    /\ at' = [at EXCEPT ![w] = "gone"]
    /\ UNCHANGED <<pool, quit, jobVars, duty, held, user>>

\* The m_quit check at the head of the loop.
Leave(w) ==
    /\ at[w] = "seek" /\ quit
    /\ at' = [at EXCEPT ![w] = "gone"]
    /\ UNCHANGED <<pool, quit, jobVars, duty, held, user>>

\* execute() returns or throws; either way the worker goes on.
Execute(w) ==
    /\ at[w] = "execute"
    /\ state' = [state EXCEPT ![duty[w]] = "done"]
    /\ at' = [at EXCEPT ![w] = IF JobMutex[duty[w]] = None THEN "count" ELSE "unlock"]
    /\ UNCHANGED <<pool, quit, pending, counting, accepted, finished, duty, held, user>>

\* associatedMutex()->unlock() within m_accessLock.
Unlock(w) ==
    /\ at[w] = "unlock"
    /\ held' = [held EXCEPT ![JobMutex[duty[w]]] = FALSE]
    /\ at' = [at EXCEPT ![w] = "count"]
    /\ UNCHANGED <<pool, quit, jobVars, duty, user>>

CountFinished(w) ==
    /\ at[w] = "count"
    /\ finished' = finished + 1
    /\ at' = [at EXCEPT ![w] = "drop"]
    /\ UNCHANGED <<pool, quit, pending, state, counting, accepted, duty, held, user>>

\* The end of the loop body destroys duty, whose unique_lock still owns the
\* mutex that was unlocked above by hand: it unlocks it again, outside
\* m_accessLock. Undefined behaviour: with the mutexes of glibc it frees the
\* mutex whoever holds it now, a mutex that checks its owner stays as it is.
DropDuty(w) ==
    /\ at[w] = "drop"
    /\ \/ UNCHANGED held
       \/ /\ JobMutex[duty[w]] # None
          /\ held' = [held EXCEPT ![JobMutex[duty[w]]] = FALSE]
    /\ duty' = [duty EXCEPT ![w] = None]
    /\ at' = [at EXCEPT ![w] = "seek"]
    /\ UNCHANGED <<pool, quit, jobVars, user>>

-----------------------------------------------------------------------------
(* The destructor: SourceVariables_destroySourceVariablesThreadPool.       *)

Destroy ==
    /\ pool = "live"
    /\ pool' = "joining"
    /\ quit' = TRUE
    /\ UNCHANGED <<jobVars, workerVars, held, user>>

\* Faulty variant of FinishDestroy: the workers are not joined.
FinishWithoutJoin ==
    /\ pool = "joining"
    /\ pool' = "destroyed"
    /\ pending' = <<>>
    /\ state' = [j \in Jobs |-> IF state[j] = "pending" THEN "dropped" ELSE state[j]]
    /\ UNCHANGED <<quit, counting, accepted, finished, workerVars, held, user>>

\* All workers joined: what is left in the queue is dropped with a log line.
FinishDestroy ==
    /\ pool = "joining"
    /\ \A w \in Workers : at[w] = "gone"
    /\ pool' = "destroyed"
    /\ pending' = <<>>
    /\ state' = [j \in Jobs |-> IF state[j] = "pending" THEN "dropped" ELSE state[j]]
    /\ UNCHANGED <<quit, counting, accepted, finished, workerVars, held, user>>

-----------------------------------------------------------------------------
(* Synchronous source variables and device logic.                          *)

UserLock(u) ==
    /\ user[u] = None
    /\ \E m \in Mutexes : /\ ~held[m]
                          /\ user' = [user EXCEPT ![u] = m]
                          /\ held' = [held EXCEPT ![m] = TRUE]
    /\ UNCHANGED <<pool, quit, jobVars, workerVars>>

UserUnlock(u) ==
    /\ user[u] # None
    /\ held' = [held EXCEPT ![user[u]] = FALSE]
    /\ user' = [user EXCEPT ![u] = None]
    /\ UNCHANGED <<pool, quit, jobVars, workerVars>>

-----------------------------------------------------------------------------

Init ==
    /\ pool = "live"
    /\ quit = FALSE
    /\ pending = <<>>
    /\ state = [j \in Jobs |-> "new"]
    /\ counting = {}
    /\ accepted = 0
    /\ finished = 0
    /\ at = [w \in Workers |-> "seek"]
    /\ duty = [w \in Workers |-> None]
    /\ held = [m \in Mutexes |-> FALSE]
    /\ user = [u \in Users |-> None]

WorkerStep(w) ==
    \/ FindSomeDuty(w) \/ FindNothing(w) \/ WaitEnds(w) \/ Leave(w)
    \/ Execute(w) \/ Unlock(w) \/ CountFinished(w) \/ DropDuty(w)

Next ==
    \/ \E j \in Jobs : AddJob(j) \/ CountAccepted(j) \/ RejectJob(j)
    \/ \E w \in Workers : WorkerStep(w)
    \/ Destroy \/ FinishDestroy
    \/ \E u \in Users : UserLock(u) \/ UserUnlock(u)

Spec == Init /\ [][Next]_vars

\* Threads are scheduled and jobs terminate; nobody has to offer a job, to
\* lock a mutex or to destroy the pool, and a user may keep a mutex.
FairSpec ==
    /\ Spec
    /\ \A w \in Workers : WF_vars(WorkerStep(w))
    /\ WF_vars(FinishDestroy)

-----------------------------------------------------------------------------
(* Properties.                                                             *)

\* Every variable holds a value of its kind, and a worker past findSomeDuty
\* has a job.
TypeOK ==
    /\ pool \in {"live", "joining", "destroyed"}
    /\ quit \in BOOLEAN
    /\ pending \in Seq(Jobs)
    /\ state \in [Jobs -> JobStates]
    /\ counting \subseteq Jobs
    /\ accepted \in Nat /\ finished \in Nat
    /\ at \in [Workers -> Places]
    /\ duty \in [Workers -> Jobs \cup {None}]
    /\ \A w \in Workers : at[w] \in {"execute", "unlock", "count", "drop"} => duty[w] \in Jobs
    /\ held \in [Mutexes -> BOOLEAN]
    /\ user \in [Users -> Mutexes \cup {None}]

InState(s) == {j \in Jobs : state[j] = s}
Uncounted == {w \in Workers : at[w] \in {"execute", "unlock", "count"}}

\* No accepted job is lost, executed twice or counted twice, whatever the order
\* of addJob, its late counter, the workers and the destructor: the counters
\* and the queue account for every accepted job, and the queue never exceeds
\* m_maxJobs.
JobsConserved ==
    /\ accepted + Cardinality(counting)
         = Len(pending) + Cardinality(Uncounted) + finished + Cardinality(InState("dropped"))
    /\ {pending[i] : i \in 1..Len(pending)} = InState("pending")
    /\ Cardinality(InState("pending")) = Len(pending)
    /\ Len(pending) <= MaxJobs

\* Once the destructor has returned nothing is left of the pool: no worker,
\* no job waiting or running, and no job was touched by two workers.
NothingSurvives ==
    /\ pool = "destroyed" => /\ \A w \in Workers : at[w] = "gone"
                             /\ pending = <<>>
                             /\ \A j \in Jobs : state[j] \notin {"pending", "running"}
    /\ \A v, w \in Workers : duty[v] = duty[w] /\ duty[v] # None => v = w

\* The destructor ends: every worker sees m_quit after at most one more job.
DestructorReturns == pool = "joining" ~> pool = "destroyed"

\* A job without a mutex is served (or dropped by the destructor) even if every
\* mutex stays locked: jobs that cannot run do not block the queue behind them.
NoHeadOfLineBlocking ==
    \A j \in Jobs : JobMutex[j] = None =>
        (state[j] = "pending" ~> state[j] \in {"done", "dropped"})

\* A job whose mutex is no longer taken by other users is served: the worker
\* that skipped it looks again after the wait.
MutexJobServed ==
    \A j \in Jobs :
        <>[](\A u \in Users : user[u] # JobMutex[j])
        => (state[j] = "pending" ~> state[j] \in {"done", "dropped"})

-----------------------------------------------------------------------------
(* What the documentation says of the pool and the code does not do.       *)

Inside(m) == {w \in Workers : at[w] = "execute" /\ JobMutex[duty[w]] = m}
             \cup {u \in Users : user[u] = m}

\* FeatureParity.rst: "a configured mutex is held while the device delegate
\* runs (inline for sync, inside the worker for async) so serialization
\* matches". The second unlock of DropDuty takes the mutex from its holder.
MutualExclusion == \A m \in Mutexes : Cardinality(Inside(m)) <= 1
=============================================================================
