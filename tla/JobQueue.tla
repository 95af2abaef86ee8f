------------------------------ MODULE JobQueue ------------------------------
(***************************************************************************)
(* The job queue (src/common/core/impl/JobQueue.cpp): typed jobs, a limit  *)
(* of concurrently running jobs per type, and a pool of worker threads     *)
(* that is told, by one semaphore unit per runnable job, when to call      *)
(* processTask.  A type's number is its priority: the greatest runs first. *)
(*                                                                         *)
(* Jobs of one type leave the ordered m_jobSet in the order of their index *)
(* and are otherwise alike, so the set is kept as a count per type.  Each  *)
(* action is one critical section of m_mutex, or one unlocked read.        *)
(***************************************************************************)
EXTENDS Integers, FiniteSets

CONSTANTS
    JobType,      \* the job types (JobTypes.h), numbered by priority
    limit,        \* limit[t]: how many jobs of type t may run at once
    skip,         \* the types dropped once the queue is stopping
    Threads,      \* the worker threads
    Children,     \* threads of Stoppable children of the queue
    MaxWaiting    \* bound: no caller starts to add beyond this many

jtINVALID == -1

ASSUME JobTypeAssumption == JobType \subseteq Nat
ASSUME LimitAssumption == limit \in [JobType -> Nat \ {0}]
ASSUME SkipAssumption == skip \subseteq JobType
ASSUME ThreadsAssumption == IsFiniteSet(Threads) /\ Threads \cap Children = {}
ASSUME MaxWaitingAssumption == MaxWaiting \in Nat

VARIABLES
    jobSet,           \* m_jobSet: jobs of each type in the set
    waiting,          \* JobTypeData::waiting
    running,          \* JobTypeData::running
    deferred,         \* JobTypeData::deferred
    processCount,     \* m_processCount
    tasks,            \* units in the Workers semaphore
    pc,               \* where each worker thread is in processTask
    job,              \* the job a thread holds (m_threadIds)
    adding,           \* the type a caller is between the two locks of addJob with
    stopping,         \* Stoppable::isStopping
    childrenStopped,  \* Stoppable::areChildrenStopped
    stopped           \* stopped() was signalled

counts == <<jobSet, waiting, running, deferred>>
workers == <<pc, job, processCount>>
service == <<stopping, childrenStopped, stopped>>
vars == <<counts, tasks, workers, adding, service>>

Callers == Threads \cup Children

PC == {"idle", "task", "picked", "job", "skipped"}

\* Type invariant: the counters of JobTypeData never go below zero.
TypeOK ==
    /\ jobSet \in [JobType -> Nat]
    /\ waiting \in [JobType -> Nat]
    /\ running \in [JobType -> Nat]
    /\ deferred \in [JobType -> Nat]
    /\ processCount \in Nat
    /\ tasks \in Nat
    /\ pc \in [Threads -> PC]
    /\ job \in [Threads -> JobType \cup {jtINVALID}]
    /\ adding \in [Callers -> JobType \cup {jtINVALID}]
    /\ stopping \in BOOLEAN
    /\ childrenStopped \in BOOLEAN
    /\ stopped \in BOOLEAN

Init ==
    /\ jobSet = [t \in JobType |-> 0]
    /\ waiting = [t \in JobType |-> 0]
    /\ running = [t \in JobType |-> 0]
    /\ deferred = [t \in JobType |-> 0]
    /\ processCount = 0
    /\ tasks = 0
    /\ pc = [w \in Threads |-> "idle"]
    /\ job = [w \in Threads |-> jtINVALID]
    /\ adding = [c \in Callers |-> jtINVALID]
    /\ stopping = FALSE
    /\ childrenStopped = FALSE
    /\ stopped = FALSE

-----------------------------------------------------------------------------
(* addJob *)

\* Who may call addJob under the Stoppable rules its comment states: a job
\* that is executing, or a child of the queue that has not stopped.
MayAdd(c) == IF c \in Threads THEN pc[c] = "job" ELSE ~childrenStopped

\* First part of addJob: a stopping queue takes no job of a skipped type.
StartAdd(c, t) ==
    /\ MayAdd(c)
    /\ adding[c] = jtINVALID
    /\ waiting[t] < MaxWaiting
    /\ ~(stopping /\ t \in skip)
    /\ adding' = [adding EXCEPT ![c] = t]
    /\ UNCHANGED <<counts, tasks, workers, service>>

\* Mutant: the limit is off by one.
queueJob_offByOne(t) ==
    /\ IF waiting[t] + running[t] <= limit[t]
       THEN tasks' = tasks + 1 /\ UNCHANGED deferred
       ELSE deferred' = [deferred EXCEPT ![t] = @ + 1] /\ UNCHANGED tasks
    /\ waiting' = [waiting EXCEPT ![t] = @ + 1]

\* queueJob: a job within the limit is signalled to the workers, one beyond
\* it is deferred until a running job of its type finishes.
queueJob(t) ==
    /\ IF waiting[t] + running[t] < limit[t]
       THEN tasks' = tasks + 1 /\ UNCHANGED deferred
       ELSE deferred' = [deferred EXCEPT ![t] = @ + 1] /\ UNCHANGED tasks
    /\ waiting' = [waiting EXCEPT ![t] = @ + 1]

\* Second part of addJob: insert into m_jobSet and queueJob, under the lock.
InsertJob(c) ==
    /\ adding[c] # jtINVALID
    /\ jobSet' = [jobSet EXCEPT ![adding[c]] = @ + 1]
    /\ queueJob(adding[c])
    /\ adding' = [adding EXCEPT ![c] = jtINVALID]
    /\ UNCHANGED <<running, workers, service>>

-----------------------------------------------------------------------------
(* processTask *)

\* Workers::Worker::run: an idle worker takes a unit of the semaphore.
TakeTask(w) ==
    /\ pc[w] = "idle"
    /\ tasks > 0
    /\ tasks' = tasks - 1
    /\ pc' = [pc EXCEPT ![w] = "task"]
    /\ UNCHANGED <<counts, job, processCount, adding, service>>

Runnable(t) == jobSet[t] > 0 /\ running[t] < limit[t]

\* getNextJob: the first job of the set whose type is below its limit.
getNextJob(w) ==
    /\ pc[w] = "task"
    /\ \E t \in JobType :
        /\ Runnable(t)
        /\ \A u \in JobType : Runnable(u) => u <= t
        /\ jobSet' = [jobSet EXCEPT ![t] = @ - 1]
        /\ waiting' = [waiting EXCEPT ![t] = @ - 1]
        /\ running' = [running EXCEPT ![t] = @ + 1]
        /\ job' = [job EXCEPT ![w] = t]
    /\ processCount' = processCount + 1
    /\ pc' = [pc EXCEPT ![w] = "picked"]
    /\ UNCHANGED <<deferred, tasks, adding, service>>

\* Between the locks processTask reads isStopping to run the job or skip it.
doJob(w) ==
    /\ pc[w] = "picked"
    /\ pc' = [pc EXCEPT ![w] = IF stopping /\ job[w] \in skip
                               THEN "skipped" ELSE "job"]
    /\ UNCHANGED <<counts, tasks, job, processCount, adding, service>>

\* checkStopped, on the values the caller has just written.
checkStopped(children) ==
    stopped' = (stopped \/ /\ stopping
                           /\ children
                           /\ processCount' = 0
                           /\ \A t \in JobType : jobSet[t] = 0)

\* Mutant: the count goes down with no task signalled.
releaseDeferred_lost(t) ==
    /\ deferred' = IF deferred[t] > 0
                   THEN [deferred EXCEPT ![t] = @ - 1] ELSE deferred
    /\ UNCHANGED tasks

\* finishJob: a deferred job takes the place of the one that ends.
releaseDeferred(t) ==
    IF deferred[t] > 0
    THEN /\ deferred' = [deferred EXCEPT ![t] = @ - 1]
         /\ tasks' = tasks + 1
    ELSE UNCHANGED <<deferred, tasks>>

\* finishJob and the end of processTask, which may find the queue stopped.
finishJob(w) ==
    /\ pc[w] \in {"job", "skipped"}
    /\ adding[w] = jtINVALID
    /\ releaseDeferred(job[w])
    /\ running' = [running EXCEPT ![job[w]] = @ - 1]
    /\ job' = [job EXCEPT ![w] = jtINVALID]
    /\ pc' = [pc EXCEPT ![w] = "idle"]
    /\ processCount' = processCount - 1
    /\ checkStopped(childrenStopped)
    /\ UNCHANGED <<jobSet, waiting, adding, stopping, childrenStopped>>

-----------------------------------------------------------------------------
(* Stopping (src/common/beast/beast/threads/impl/Stoppable.cpp) *)

\* RootStoppable::stopAsync; JobQueueImp::onStop does nothing.
stopAsync ==
    /\ ~stopping
    /\ stopping' = TRUE
    /\ UNCHANGED <<counts, tasks, workers, adding, childrenStopped, stopped>>

\* stopRecursive: every child has stopped, and so is in no call of addJob.
onChildrenStopped ==
    /\ stopping
    /\ ~childrenStopped
    /\ \A c \in Children : adding[c] = jtINVALID
    /\ childrenStopped' = TRUE
    /\ UNCHANGED processCount
    /\ checkStopped(TRUE)
    /\ UNCHANGED <<counts, tasks, pc, job, adding, stopping>>

Next ==
    \/ \E c \in Callers, t \in JobType : StartAdd(c, t)
    \/ \E c \in Callers : InsertJob(c)
    \/ \E w \in Threads : \/ TakeTask(w)
                          \/ getNextJob(w)
                          \/ doJob(w)
                          \/ finishJob(w)
    \/ stopAsync
    \/ onChildrenStopped

Spec == Init /\ [][Next]_vars

\* Threads keep running: a call of addJob returns, a worker acts on its task,
\* every job ends even if it adds others, and the children of a stopping queue
\* stop.
Fairness ==
    /\ \A c \in Callers : WF_vars(InsertJob(c))
    /\ \A w \in Threads : /\ WF_vars(TakeTask(w))
                          /\ WF_vars(getNextJob(w))
                          /\ WF_vars(doJob(w))
                          /\ SF_vars(finishJob(w))
    /\ WF_vars(onChildrenStopped)

FairSpec == Spec /\ Fairness

-----------------------------------------------------------------------------
(* Properties *)

Holding(t) == {w \in Threads : job[w] = t}

\* The three counters of a type describe the set and the threads exactly, a
\* type never runs beyond its limit, and what is deferred is what exceeds the
\* limit: the asserts of getNextJob and finishJob, at every moment.
AccountingExact ==
    \A t \in JobType :
        /\ waiting[t] = jobSet[t]
        /\ running[t] = Cardinality(Holding(t))
        /\ running[t] <= limit[t]
        /\ deferred[t] = IF waiting[t] + running[t] > limit[t]
                         THEN waiting[t] + running[t] - limit[t] ELSE 0

\* The pre-condition of getNextJob and processTask: whenever a worker has
\* been woken, m_jobSet holds a job whose type is below its limit, whatever
\* the other workers and callers did since the task was signalled.
RunnableJobExists ==
    \A w \in Threads :
        pc[w] = "task" => \E t \in JobType : jobSet[t] > 0 /\ running[t] < limit[t]

\* Once checkStopped has signalled, nothing is queued, executing, signalled or
\* on its way in: the comment on addJob's assert, although addJob lets go of
\* the lock between that assert and the insertion.
StoppedIsQuiet ==
    stopped =>
        /\ \A t \in JobType : jobSet[t] = 0 /\ running[t] = 0
        /\ tasks = 0
        /\ \A w \in Threads : pc[w] = "idle"
        /\ \A c \in Callers : adding[c] = jtINVALID

Quiet == \A c \in Callers : adding[c] = jtINVALID

\* When no more jobs arrive, every job queued, deferred ones included, is
\* eventually taken and the workers go idle.
QueueDrains ==
    <>[]Quiet => <>[](\A t \in JobType : jobSet[t] = 0 /\ running[t] = 0)

\* A stop completes: if jobs cease to add jobs, stopped() is signalled.
StopCompletes == (<>stopping /\ <>[]Quiet) => <>stopped

\* Neither a job nor a stop is left waiting by the limits and their semaphore.
Completes == QueueDrains /\ StopCompletes

=============================================================================
