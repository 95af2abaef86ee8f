--------------------------- MODULE JobQueueProofs ---------------------------
(***************************************************************************)
(* Proofs about JobQueue, for every set of job types, limits and threads.  *)
(*                                                                         *)
(* That a woken worker finds a runnable job is a fact about all types at   *)
(* once: the semaphore does not say for which job it was signalled.  The   *)
(* invariant that carries it counts, over all types, the jobs that could   *)
(* start now (SlotSet) and equates them with the signals not yet used.     *)
(***************************************************************************)
EXTENDS JobQueue, FiniteSetTheorems, TLAPS

USE ZenonT(10), SMTT(30)

Busy == {w \in Threads : pc[w] \in {"picked", "job", "skipped"}}
Woken == {w \in Threads : pc[w] = "task"}

\* How many jobs of each type could start, if w wait and r run.
OpenOf(w, r) == [t \in JobType |-> IF w[t] < limit[t] - r[t]
                                   THEN w[t] ELSE limit[t] - r[t]]

open == OpenOf(waiting, running)

\* A finite set with n[t] elements for each type t.
SlotSet(n) == UNION {{t} \X (1..n[t]) : t \in JobType}

\* A thread holds a job exactly while it is between getNextJob and finishJob,
\* and adds jobs only from within one.
ThreadsConsistent ==
    /\ \A w \in Threads : job[w] \in JobType <=> w \in Busy
    /\ \A w \in Threads : adding[w] # jtINVALID => pc[w] = "job"
    /\ processCount = Cardinality(Busy)

\* Every signal not yet used stands for one job that could start now.
TasksExact ==
    /\ IsFiniteSet(SlotSet(open))
    /\ tasks + Cardinality(Woken) = Cardinality(SlotSet(open))

ChildrenDone ==
    /\ childrenStopped => \A c \in Children : adding[c] = jtINVALID
    /\ stopped => childrenStopped

IInv ==
    /\ TypeOK
    /\ AccountingExact
    /\ ThreadsConsistent
    /\ TasksExact
    /\ ChildrenDone
    /\ StoppedIsQuiet

-----------------------------------------------------------------------------
(* Facts about SlotSet and about counting threads *)

LEMMA SlotSetMember ==
    ASSUME NEW n \in [JobType -> Nat], NEW x
    PROVE  x \in SlotSet(n) <=>
             \E t \in JobType, i \in Int : i \in 1..n[t] /\ x = <<t, i>>
BY DEF SlotSet

LEMMA SlotSetGrow ==
    ASSUME NEW n \in [JobType -> Nat], NEW t \in JobType, IsFiniteSet(SlotSet(n)),
           NEW m \in [JobType -> Nat], m[t] = n[t] + 1,
           \A u \in JobType \ {t} : m[u] = n[u]
    PROVE  /\ IsFiniteSet(SlotSet(m))
           /\ Cardinality(SlotSet(m)) = Cardinality(SlotSet(n)) + 1
<1> DEFINE e == <<t, n[t] + 1>>
<1>1. e \notin SlotSet(n)
  BY SlotSetMember
<1>2. SlotSet(m) = SlotSet(n) \cup {e}
  <2>1. ASSUME NEW x PROVE x \in SlotSet(m) <=> x \in SlotSet(n) \/ x = e
    <3>1. \A u \in JobType : u # t => m[u] = n[u]
      OBVIOUS
    <3>2. ASSUME NEW i
          PROVE  i \in 1..m[t] <=> i \in 1..n[t] \/ i = n[t] + 1
      OBVIOUS
    <3>3. ASSUME x \in SlotSet(m) PROVE x \in SlotSet(n) \/ x = e
      <4>1. PICK u \in JobType, i \in Int : i \in 1..m[u] /\ x = <<u, i>>
        BY <3>3, SlotSetMember
      <4> QED BY <4>1, <3>1, <3>2, SlotSetMember
    <3>4. ASSUME x \in SlotSet(n) \/ x = e PROVE x \in SlotSet(m)
      <4>1. PICK u \in JobType, i \in Int :
              x = <<u, i>> /\ (i \in 1..n[u] \/ (u = t /\ i = n[t] + 1))
        BY <3>4, SlotSetMember
      <4>2. i \in 1..m[u]
        BY <4>1, <3>1, <3>2
      <4> QED BY <4>1, <4>2, SlotSetMember
    <3> QED BY <3>3, <3>4
  <2> QED BY <2>1
<1> HIDE DEF e
<1>3. /\ IsFiniteSet(SlotSet(n) \cup {e})
      /\ Cardinality(SlotSet(n) \cup {e}) = Cardinality(SlotSet(n)) + 1
  BY <1>1, FS_AddElement, Zenon
<1> QED BY <1>2, <1>3, Zenon

LEMMA SlotSetShrink ==
    ASSUME NEW n \in [JobType -> Nat], NEW t \in JobType, IsFiniteSet(SlotSet(n)),
           NEW m \in [JobType -> Nat], n[t] > 0, m[t] = n[t] - 1,
           \A u \in JobType \ {t} : m[u] = n[u]
    PROVE  /\ IsFiniteSet(SlotSet(m))
           /\ Cardinality(SlotSet(m)) = Cardinality(SlotSet(n)) - 1
<1> DEFINE e == <<t, n[t]>>
<1>1. e \in SlotSet(n)
  BY SlotSetMember
<1>2. SlotSet(m) = SlotSet(n) \ {e}
  <2>1. ASSUME NEW x PROVE x \in SlotSet(m) <=> x \in SlotSet(n) /\ x # e
    <3>1. \A u \in JobType : u # t => m[u] = n[u]
      OBVIOUS
    <3>2. ASSUME NEW i
          PROVE  i \in 1..m[t] <=> i \in 1..n[t] /\ i # n[t]
      OBVIOUS
    <3>3. ASSUME x \in SlotSet(m) PROVE x \in SlotSet(n) /\ x # e
      <4>1. PICK u \in JobType, i \in Int : i \in 1..m[u] /\ x = <<u, i>>
        BY <3>3, SlotSetMember
      <4> QED BY <4>1, <3>1, <3>2, SlotSetMember
    <3>4. ASSUME x \in SlotSet(n) /\ x # e PROVE x \in SlotSet(m)
      <4>1. PICK u \in JobType, i \in Int :
              x = <<u, i>> /\ i \in 1..n[u] /\ <<u, i>> # <<t, n[t]>>
        BY <3>4, SlotSetMember
      <4>2. i \in 1..m[u]
        BY <4>1, <3>1, <3>2
      <4> QED BY <4>1, <4>2, SlotSetMember
    <3> QED BY <3>3, <3>4
  <2> QED BY <2>1
<1> HIDE DEF e
<1>3. /\ IsFiniteSet(SlotSet(n) \ {e})
      /\ Cardinality(SlotSet(n) \ {e}) = Cardinality(SlotSet(n)) - 1
  BY <1>1, FS_RemoveElement, Zenon
<1> QED BY <1>2, <1>3, Zenon

LEMMA SlotSetEmpty ==
    ASSUME NEW n \in [JobType -> Nat], IsFiniteSet(SlotSet(n))
    PROVE  /\ Cardinality(SlotSet(n)) \in Nat
           /\ Cardinality(SlotSet(n)) > 0 => \E t \in JobType : n[t] > 0
           /\ (\A t \in JobType : n[t] = 0) => Cardinality(SlotSet(n)) = 0
<1>1. Cardinality(SlotSet(n)) \in Nat
  BY FS_CardinalityType
<1>2. (\A t \in JobType : n[t] = 0) => SlotSet(n) = {}
  BY SlotSetMember
<1>3. (\A t \in JobType : ~(n[t] > 0)) => \A t \in JobType : n[t] = 0
  OBVIOUS
<1> QED BY <1>1, <1>2, <1>3, FS_EmptySet

LEMMA ThreadSetsFinite ==
    ASSUME NEW S \in SUBSET Threads
    PROVE  IsFiniteSet(S) /\ Cardinality(S) \in Nat
BY ThreadsAssumption, FS_Subset, FS_CardinalityType

LEMMA ThreadJoins ==
    ASSUME NEW S \in SUBSET Threads, NEW T, NEW w \in Threads,
           w \notin S, T = S \cup {w}
    PROVE  Cardinality(T) = Cardinality(S) + 1
BY ThreadSetsFinite, FS_AddElement

LEMMA ThreadLeaves ==
    ASSUME NEW S \in SUBSET Threads, NEW T, NEW w \in Threads,
           w \in S, T = S \ {w}
    PROVE  Cardinality(T) = Cardinality(S) - 1
BY ThreadSetsFinite, FS_RemoveElement

LEMMA OpenType ==
    ASSUME NEW w \in [JobType -> Nat], NEW r \in [JobType -> Nat],
           \A t \in JobType : r[t] <= limit[t]
    PROVE  /\ OpenOf(w, r) \in [JobType -> Nat]
           /\ \A t \in JobType : OpenOf(w, r)[t] > 0 <=> w[t] > 0 /\ r[t] < limit[t]
<1>1. ASSUME NEW t \in JobType
      PROVE  /\ OpenOf(w, r)[t] \in Nat
             /\ OpenOf(w, r)[t] > 0 <=> w[t] > 0 /\ r[t] < limit[t]
  <2>1. w[t] \in Nat /\ r[t] \in Nat /\ limit[t] \in Nat /\ r[t] <= limit[t]
    BY LimitAssumption
  <2>2. OpenOf(w, r)[t] = IF w[t] < limit[t] - r[t] THEN w[t] ELSE limit[t] - r[t]
    BY DEF OpenOf
  <2> QED BY <2>1, <2>2
<1> QED BY <1>1 DEF OpenOf

-----------------------------------------------------------------------------
(* Each action preserves the invariant *)

LEMMA StartAddInv ==
    ASSUME IInv, NEW c \in Callers, NEW t \in JobType, StartAdd(c, t)
    PROVE  IInv'
<1>1. t # jtINVALID
  BY JobTypeAssumption DEF jtINVALID
<1>2. TypeOK'
  BY DEF IInv, TypeOK, StartAdd, counts, workers, service, Callers
<1>3. AccountingExact'
  BY DEF IInv, AccountingExact, StartAdd, counts, workers, Holding
<1>4. ThreadsConsistent'
  <2>1. Busy' = Busy
    BY DEF Busy, StartAdd, workers
  <2> QED BY <2>1 DEF IInv, TypeOK, ThreadsConsistent, StartAdd, MayAdd, workers, Callers
<1>5. TasksExact'
  BY DEF IInv, TasksExact, StartAdd, counts, workers, open, OpenOf, Woken, SlotSet
<1>6. ChildrenDone'
  BY ThreadsAssumption
  DEF IInv, TypeOK, ChildrenDone, StartAdd, MayAdd, service, Callers
<1>7. StoppedIsQuiet'
  BY DEF IInv, StoppedIsQuiet, ChildrenDone, StartAdd, MayAdd, service, Callers
<1> QED BY <1>2, <1>3, <1>4, <1>5, <1>6, <1>7 DEF IInv

LEMMA InsertJobInv ==
    ASSUME IInv, NEW c \in Callers, InsertJob(c)
    PROVE  IInv'
<1> DEFINE a == adding[c]
<1>0. a \in JobType /\ ~stopped
  BY DEF IInv, TypeOK, InsertJob, StoppedIsQuiet
<1>1. /\ waiting[a] \in Nat /\ running[a] \in Nat /\ deferred[a] \in Nat
      /\ jobSet[a] \in Nat /\ tasks \in Nat /\ limit[a] \in Nat
  BY <1>0, LimitAssumption DEF IInv, TypeOK
<1>2. TypeOK'
  <2>1. tasks' \in Nat /\ deferred' \in [JobType -> Nat]
    BY <1>0, <1>1 DEF IInv, TypeOK, InsertJob, queueJob
  <2>2. waiting' \in [JobType -> Nat] /\ jobSet' \in [JobType -> Nat]
    BY <1>0, <1>1 DEF IInv, TypeOK, InsertJob, queueJob
  <2> QED BY <2>1, <2>2 DEF IInv, TypeOK, InsertJob, workers, service
<1>3. AccountingExact'
  <2>1. ASSUME NEW t \in JobType
        PROVE  /\ Holding(t)' = Holding(t)
               /\ running'[t] = running[t]
               /\ jobSet'[t] = IF t = a THEN jobSet[t] + 1 ELSE jobSet[t]
               /\ waiting'[t] = IF t = a THEN waiting[t] + 1 ELSE waiting[t]
               /\ deferred'[t] = IF t = a /\ waiting[a] + running[a] >= limit[a]
                                 THEN deferred[t] + 1 ELSE deferred[t]
    BY <1>1 DEF IInv, TypeOK, InsertJob, queueJob, workers, Holding
  <2>2. ASSUME NEW t \in JobType
        PROVE  limit[t] \in Nat /\ waiting[t] \in Nat /\ running[t] \in Nat
    BY LimitAssumption DEF IInv, TypeOK
  <2> QED BY <2>1, <2>2 DEF IInv, AccountingExact
<1>4. ThreadsConsistent'
  <2>1. Busy' = Busy
    BY DEF Busy, InsertJob, workers
  <2> QED BY <2>1 DEF IInv, TypeOK, ThreadsConsistent, InsertJob, workers, Callers
<1>5. TasksExact'
  <2>1. Woken' = Woken
    BY DEF Woken, InsertJob, workers
  <2>2. open \in [JobType -> Nat]
    BY OpenType DEF IInv, TypeOK, AccountingExact, open
  <2>3. open' \in [JobType -> Nat]
    BY <1>2, <1>3, OpenType DEF TypeOK, AccountingExact, open
  <2>4. /\ \A u \in JobType \ {a} : open'[u] = open[u]
        /\ waiting'[a] = waiting[a] + 1 /\ running'[a] = running[a]
    BY <1>0 DEF IInv, TypeOK, InsertJob, queueJob, open, OpenOf
  <2>5. CASE waiting[a] + running[a] < limit[a]
    <3>1. open'[a] = open[a] + 1
      BY <1>0, <1>1, <2>4, <2>5 DEF open, OpenOf
    <3>2. tasks' = tasks + 1
      BY <2>5 DEF InsertJob, queueJob
    <3>3. /\ IsFiniteSet(SlotSet(open'))
          /\ Cardinality(SlotSet(open')) = Cardinality(SlotSet(open)) + 1
      BY <1>0, <2>2, <2>3, <2>4, <3>1, SlotSetGrow DEF IInv, TasksExact
    <3>4. Cardinality(Woken) \in Nat
      BY ThreadSetsFinite DEF Woken
    <3> QED BY <1>1, <2>1, <3>2, <3>3, <3>4 DEF IInv, TasksExact
  <2>6. CASE ~(waiting[a] + running[a] < limit[a])
    <3>1. open'[a] = open[a]
      BY <1>0, <1>1, <2>4, <2>6 DEF open, OpenOf
    <3>2. open' = open
      BY <2>2, <2>3, <2>4, <3>1
    <3>3. tasks' = tasks
      BY <2>6 DEF InsertJob, queueJob
    <3> QED BY <2>1, <3>2, <3>3 DEF IInv, TasksExact, SlotSet
  <2> QED BY <2>5, <2>6
<1>6. ChildrenDone'
  BY DEF IInv, TypeOK, ChildrenDone, InsertJob, service, Callers
<1>7. StoppedIsQuiet'
  BY <1>0 DEF StoppedIsQuiet, InsertJob, service
<1> QED BY <1>2, <1>3, <1>4, <1>5, <1>6, <1>7 DEF IInv

LEMMA TakeTaskInv ==
    ASSUME IInv, NEW w \in Threads, TakeTask(w)
    PROVE  IInv'
<1>0. ~stopped /\ tasks \in Nat /\ tasks > 0
  BY DEF IInv, TypeOK, TakeTask, StoppedIsQuiet
<1>1. TypeOK'
  BY <1>0 DEF IInv, TypeOK, TakeTask, counts, service, PC
<1>2. AccountingExact'
  BY DEF IInv, AccountingExact, TakeTask, counts, Holding
<1>3. ThreadsConsistent'
  <2>1. Busy' = Busy
    BY DEF IInv, TypeOK, Busy, TakeTask
  <2> QED BY <2>1 DEF IInv, TypeOK, ThreadsConsistent, TakeTask, Busy
<1>4. TasksExact'
  <2>1. w \notin Woken /\ Woken' = Woken \cup {w} /\ Woken \in SUBSET Threads
    BY DEF IInv, TypeOK, Woken, TakeTask
  <2>2. Cardinality(Woken') = Cardinality(Woken) + 1
    BY <2>1, ThreadJoins
  <2>3. Cardinality(Woken) \in Nat
    BY <2>1, ThreadSetsFinite
  <2>4. tasks' = tasks - 1 /\ open' = open
    BY DEF TakeTask, counts, open, OpenOf
  <2> QED BY <1>0, <2>2, <2>3, <2>4 DEF IInv, TasksExact, SlotSet
<1>5. ChildrenDone'
  BY DEF IInv, ChildrenDone, TakeTask, service
<1>6. StoppedIsQuiet'
  BY <1>0 DEF StoppedIsQuiet, TakeTask, service
<1> QED BY <1>1, <1>2, <1>3, <1>4, <1>5, <1>6 DEF IInv

LEMMA getNextJobInv ==
    ASSUME IInv, NEW w \in Threads, getNextJob(w)
    PROVE  IInv'
<1>0. ~stopped
  BY DEF IInv, getNextJob, StoppedIsQuiet
<1>1. PICK t \in JobType :
        /\ Runnable(t)
        /\ jobSet' = [jobSet EXCEPT ![t] = @ - 1]
        /\ waiting' = [waiting EXCEPT ![t] = @ - 1]
        /\ running' = [running EXCEPT ![t] = @ + 1]
        /\ job' = [job EXCEPT ![w] = t]
  BY DEF getNextJob
<1>2. /\ waiting[t] \in Nat /\ running[t] \in Nat /\ limit[t] \in Nat
      /\ jobSet[t] > 0 /\ waiting[t] > 0 /\ running[t] < limit[t]
      /\ processCount \in Nat
  BY <1>1, LimitAssumption DEF IInv, TypeOK, AccountingExact, Runnable
<1>3. TypeOK'
  <2>1. /\ jobSet' \in [JobType -> Nat] /\ waiting' \in [JobType -> Nat]
        /\ running' \in [JobType -> Nat]
    BY <1>1, <1>2 DEF IInv, TypeOK
  <2>2. job' \in [Threads -> JobType \cup {jtINVALID}] /\ pc' \in [Threads -> PC]
    BY <1>1 DEF IInv, TypeOK, getNextJob, PC
  <2> QED BY <1>2, <2>1, <2>2 DEF IInv, TypeOK, getNextJob, service
<1>4. job[w] \notin JobType /\ w \notin Busy
  BY DEF IInv, ThreadsConsistent, getNextJob, Busy
<1>5. AccountingExact'
  <2>1. ASSUME NEW u \in JobType, u # t
        PROVE  /\ waiting'[u] = waiting[u] /\ running'[u] = running[u]
               /\ jobSet'[u] = jobSet[u] /\ deferred'[u] = deferred[u]
               /\ Holding(u)' = Holding(u)
    BY <1>1, <1>4, <2>1 DEF IInv, TypeOK, getNextJob, Holding
  <2>2. /\ waiting'[t] = waiting[t] - 1 /\ running'[t] = running[t] + 1
        /\ jobSet'[t] = jobSet[t] - 1 /\ deferred'[t] = deferred[t]
    BY <1>1 DEF IInv, TypeOK, getNextJob
  <2>3. Cardinality(Holding(t)') = Cardinality(Holding(t)) + 1
    <3>1. /\ Holding(t) \in SUBSET Threads /\ w \notin Holding(t)
          /\ Holding(t)' = Holding(t) \cup {w}
      BY <1>1, <1>4 DEF IInv, TypeOK, Holding
    <3> QED BY <3>1, ThreadJoins
  <2>4. /\ waiting[t] = jobSet[t] /\ running[t] = Cardinality(Holding(t))
        /\ deferred[t] = IF waiting[t] + running[t] > limit[t]
                         THEN waiting[t] + running[t] - limit[t] ELSE 0
    BY DEF IInv, AccountingExact
  <2>5. /\ waiting'[t] = jobSet'[t] /\ running'[t] = Cardinality(Holding(t)')
        /\ running'[t] <= limit[t]
        /\ deferred'[t] = IF waiting'[t] + running'[t] > limit[t]
                          THEN waiting'[t] + running'[t] - limit[t] ELSE 0
    BY <1>2, <2>2, <2>3, <2>4
  <2> QED BY <2>1, <2>5 DEF IInv, AccountingExact
<1>6. ThreadsConsistent'
  <2>1. Busy' = Busy \cup {w} /\ Busy \in SUBSET Threads
    BY DEF IInv, TypeOK, Busy, getNextJob
  <2>2. Cardinality(Busy') = Cardinality(Busy) + 1
    BY <1>4, <2>1, ThreadJoins
  <2>3. \A v \in Threads : job'[v] \in JobType <=> v \in Busy'
    BY <1>1, <2>1 DEF IInv, TypeOK, ThreadsConsistent
  <2>4. \A v \in Threads : adding'[v] # jtINVALID => pc'[v] = "job"
    BY DEF IInv, TypeOK, ThreadsConsistent, getNextJob
  <2>5. processCount' = Cardinality(Busy')
    BY <2>2 DEF IInv, ThreadsConsistent, getNextJob
  <2> QED BY <2>3, <2>4, <2>5 DEF ThreadsConsistent
<1>7. TasksExact'
  <2>1. w \in Woken /\ Woken' = Woken \ {w} /\ Woken \in SUBSET Threads
    BY DEF IInv, TypeOK, Woken, getNextJob
  <2>2. Cardinality(Woken') = Cardinality(Woken) - 1 /\ Cardinality(Woken) \in Nat
    BY <2>1, ThreadLeaves, ThreadSetsFinite
  <2>3. open \in [JobType -> Nat] /\ open[t] > 0
    BY <1>2, OpenType DEF IInv, TypeOK, AccountingExact, open
  <2>4. open' \in [JobType -> Nat]
    BY <1>3, <1>5, OpenType DEF TypeOK, AccountingExact, open
  <2>5. \A u \in JobType \ {t} : open'[u] = open[u]
    BY <1>1 DEF IInv, TypeOK, open, OpenOf
  <2>6. open'[t] = open[t] - 1
    <3>1. waiting'[t] = waiting[t] - 1 /\ running'[t] = running[t] + 1
      BY <1>1 DEF IInv, TypeOK
    <3> QED BY <1>2, <3>1 DEF open, OpenOf
  <2>7. /\ IsFiniteSet(SlotSet(open'))
        /\ Cardinality(SlotSet(open')) = Cardinality(SlotSet(open)) - 1
    BY <2>3, <2>4, <2>5, <2>6, SlotSetShrink DEF IInv, TasksExact
  <2>8. tasks' = tasks /\ tasks \in Nat
    BY DEF IInv, TypeOK, getNextJob
  <2> QED BY <2>2, <2>7, <2>8 DEF IInv, TasksExact
<1>8. ChildrenDone'
  BY DEF IInv, ChildrenDone, getNextJob, service
<1>9. StoppedIsQuiet'
  BY <1>0 DEF StoppedIsQuiet, getNextJob, service
<1> QED BY <1>3, <1>5, <1>6, <1>7, <1>8, <1>9 DEF IInv

LEMMA doJobInv ==
    ASSUME IInv, NEW w \in Threads, doJob(w)
    PROVE  IInv'
<1>0. ~stopped
  BY DEF IInv, doJob, StoppedIsQuiet
<1>1. TypeOK'
  BY DEF IInv, TypeOK, doJob, counts, service, PC
<1>2. AccountingExact'
  BY DEF IInv, AccountingExact, doJob, counts, Holding
<1>3. Busy' = Busy /\ Woken' = Woken
  BY DEF IInv, TypeOK, Busy, Woken, doJob
<1>4. ThreadsConsistent'
  BY <1>3 DEF IInv, TypeOK, ThreadsConsistent, doJob
<1>5. TasksExact'
  BY <1>3 DEF IInv, TasksExact, doJob, counts, open, OpenOf, SlotSet
<1>6. ChildrenDone'
  BY DEF IInv, ChildrenDone, doJob, service
<1>7. StoppedIsQuiet'
  BY <1>0 DEF StoppedIsQuiet, doJob, service
<1> QED BY <1>1, <1>2, <1>4, <1>5, <1>6, <1>7 DEF IInv

\* When the condition of checkStopped holds, the queue is quiet.
NothingLeft ==
    childrenStopped /\ processCount = 0 /\ \A t \in JobType : jobSet[t] = 0

LEMMA QuietWhenEmpty ==
    TypeOK /\ AccountingExact /\ ThreadsConsistent /\ TasksExact /\ ChildrenDone
      /\ NothingLeft => StoppedIsQuiet
<1> SUFFICES ASSUME TypeOK, AccountingExact, ThreadsConsistent, TasksExact,
                    ChildrenDone, childrenStopped, processCount = 0,
                    \A t \in JobType : jobSet[t] = 0
             PROVE  StoppedIsQuiet
  BY DEF NothingLeft
<1>1. Busy = {}
  <2>1. IsFiniteSet(Busy)
    BY ThreadSetsFinite DEF Busy
  <2> QED BY <2>1, FS_EmptySet DEF ThreadsConsistent
<1>2. \A t \in JobType : running[t] = 0
  <2>1. \A t \in JobType : Holding(t) = {}
    BY <1>1 DEF ThreadsConsistent, Holding
  <2> QED BY <2>1, FS_EmptySet DEF AccountingExact
<1>3. tasks = 0 /\ Woken = {}
  <2>1. open \in [JobType -> Nat] /\ \A t \in JobType : ~(open[t] > 0)
    <3>1. \A t \in JobType : ~(waiting[t] > 0)
      BY DEF AccountingExact
    <3> QED BY <3>1, OpenType DEF TypeOK, AccountingExact, open
  <2>2. \A t \in JobType : open[t] = 0
    BY <2>1
  <2>3. Cardinality(SlotSet(open)) = 0
    BY <2>1, <2>2, SlotSetEmpty DEF TasksExact
  <2>4. IsFiniteSet(Woken) /\ Cardinality(Woken) \in Nat
    BY ThreadSetsFinite DEF Woken
  <2>5. tasks = 0 /\ Cardinality(Woken) = 0
    BY <2>3, <2>4 DEF TasksExact, TypeOK
  <2> QED BY <2>4, <2>5, FS_EmptySet
<1>4. \A w \in Threads : pc[w] = "idle"
  BY <1>1, <1>3 DEF TypeOK, PC, Busy, Woken
<1>5. \A c \in Callers : adding[c] = jtINVALID
  BY <1>4 DEF ThreadsConsistent, ChildrenDone, Callers
<1> QED BY <1>2, <1>3, <1>4, <1>5 DEF StoppedIsQuiet

LEMMA finishJobInv ==
    ASSUME IInv, NEW w \in Threads, finishJob(w)
    PROVE  IInv'
<1>0. ~stopped /\ w \in Busy
  BY DEF IInv, finishJob, StoppedIsQuiet, Busy
<1>1. PICK t \in JobType : t = job[w]
  BY <1>0 DEF IInv, ThreadsConsistent
<1>2. Busy \in SUBSET Threads /\ Busy' = Busy \ {w} /\ Woken' = Woken
  BY <1>0 DEF IInv, TypeOK, Busy, Woken, finishJob
<1>3. /\ Holding(t) \in SUBSET Threads /\ w \in Holding(t)
      /\ Holding(t)' = Holding(t) \ {w}
      /\ \A u \in JobType : u # t => Holding(u)' = Holding(u)
  BY <1>1, JobTypeAssumption DEF IInv, TypeOK, Holding, finishJob, jtINVALID
<1>4. /\ Cardinality(Holding(t)') = Cardinality(Holding(t)) - 1
      /\ Cardinality(Busy') = Cardinality(Busy) - 1
      /\ Cardinality(Holding(t)) \in Nat /\ Cardinality(Holding(t)') \in Nat
      /\ Cardinality(Busy) \in Nat /\ Cardinality(Busy') \in Nat
  BY <1>0, <1>2, <1>3, ThreadLeaves, ThreadSetsFinite
<1>5. /\ waiting[t] \in Nat /\ running[t] \in Nat /\ limit[t] \in Nat
      /\ deferred[t] \in Nat /\ tasks \in Nat
      /\ running[t] = Cardinality(Holding(t)) /\ running[t] <= limit[t]
      /\ waiting[t] = jobSet[t]
      /\ deferred[t] = IF waiting[t] + running[t] > limit[t]
                       THEN waiting[t] + running[t] - limit[t] ELSE 0
  BY <1>1, LimitAssumption DEF IInv, TypeOK, AccountingExact
<1>6. /\ jobSet' = jobSet /\ waiting' = waiting
      /\ running' = [running EXCEPT ![t] = @ - 1]
      /\ processCount' = processCount - 1
      /\ releaseDeferred(t)
  BY <1>1 DEF finishJob
<1>7. TypeOK'
  <2>1. running' \in [JobType -> Nat]
    BY <1>1, <1>4, <1>5, <1>6 DEF IInv, TypeOK
  <2>2. deferred' \in [JobType -> Nat] /\ tasks' \in Nat
    BY <1>5, <1>6 DEF IInv, TypeOK, releaseDeferred
  <2>3. processCount' \in Nat
    BY <1>4, <1>6 DEF IInv, ThreadsConsistent
  <2>4. pc' \in [Threads -> PC] /\ job' \in [Threads -> JobType \cup {jtINVALID}]
    BY DEF IInv, TypeOK, finishJob, PC
  <2>5. stopped' \in BOOLEAN /\ UNCHANGED <<adding, stopping, childrenStopped>>
    BY DEF finishJob, checkStopped
  <2> QED BY <1>6, <2>1, <2>2, <2>3, <2>4, <2>5 DEF IInv, TypeOK
<1>8. AccountingExact'
  <2>1. ASSUME NEW u \in JobType, u # t
        PROVE  running'[u] = running[u] /\ deferred'[u] = deferred[u]
    BY <1>6, <2>1 DEF IInv, TypeOK, releaseDeferred
  <2>2. /\ running'[t] = running[t] - 1
        /\ deferred'[t] = IF deferred[t] > 0 THEN deferred[t] - 1 ELSE deferred[t]
    BY <1>1, <1>6 DEF IInv, TypeOK, releaseDeferred
  <2>3. /\ waiting'[t] = jobSet'[t] /\ running'[t] = Cardinality(Holding(t)')
        /\ running'[t] <= limit[t]
        /\ deferred'[t] = IF waiting'[t] + running'[t] > limit[t]
                          THEN waiting'[t] + running'[t] - limit[t] ELSE 0
    BY <1>4, <1>5, <1>6, <2>2
  <2> QED BY <1>3, <1>6, <2>1, <2>3 DEF IInv, AccountingExact
<1>9. ThreadsConsistent'
  <2>1. jtINVALID \notin JobType
    BY JobTypeAssumption DEF jtINVALID
  <2>2. \A v \in Threads : job'[v] \in JobType <=> v \in Busy'
    BY <1>2, <2>1 DEF IInv, TypeOK, ThreadsConsistent, finishJob
  <2>3. \A v \in Threads : adding'[v] # jtINVALID => pc'[v] = "job"
    BY DEF IInv, TypeOK, ThreadsConsistent, finishJob
  <2> QED BY <1>4, <1>6, <2>2, <2>3 DEF IInv, ThreadsConsistent
<1>10. TasksExact'
  <2>1. open \in [JobType -> Nat]
    BY OpenType DEF IInv, TypeOK, AccountingExact, open
  <2>2. open' \in [JobType -> Nat]
    BY <1>7, <1>8, OpenType DEF TypeOK, AccountingExact, open
  <2>3. /\ running'[t] = running[t] - 1
        /\ \A u \in JobType \ {t} : open'[u] = open[u]
    BY <1>1, <1>6 DEF IInv, TypeOK, open, OpenOf
  <2>4. CASE deferred[t] > 0
    <3>1. open'[t] = open[t] + 1
      BY <1>1, <1>5, <1>6, <2>3, <2>4 DEF open, OpenOf
    <3>2. tasks' = tasks + 1
      BY <1>6, <2>4 DEF releaseDeferred
    <3>3. /\ IsFiniteSet(SlotSet(open'))
          /\ Cardinality(SlotSet(open')) = Cardinality(SlotSet(open)) + 1
      BY <1>1, <2>1, <2>2, <2>3, <3>1, SlotSetGrow DEF IInv, TasksExact
    <3>4. Cardinality(Woken) \in Nat
      BY ThreadSetsFinite DEF Woken
    <3> QED BY <1>2, <1>5, <3>2, <3>3, <3>4 DEF IInv, TasksExact
  <2>5. CASE ~(deferred[t] > 0)
    <3>1. open'[t] = open[t]
      BY <1>1, <1>5, <1>6, <2>3, <2>5 DEF open, OpenOf
    <3>2. open' = open
      BY <2>1, <2>2, <2>3, <3>1
    <3>3. tasks' = tasks
      BY <1>6, <2>5 DEF releaseDeferred
    <3> QED BY <1>2, <3>2, <3>3 DEF IInv, TasksExact, SlotSet
  <2> QED BY <2>4, <2>5
<1>11. ChildrenDone'
  BY DEF IInv, ChildrenDone, finishJob, checkStopped
<1>12. StoppedIsQuiet'
  <2>1. CASE stopped'
    <3>1. NothingLeft'
      BY <1>0, <2>1 DEF finishJob, checkStopped, NothingLeft
    <3> QED BY <3>1, <1>7, <1>8, <1>9, <1>10, <1>11, QuietWhenEmpty, PTL
  <2>2. CASE ~stopped'
    BY <2>2 DEF StoppedIsQuiet
  <2> QED BY <2>1, <2>2
<1> QED BY <1>7, <1>8, <1>9, <1>10, <1>11, <1>12 DEF IInv

LEMMA stopAsyncInv ==
    ASSUME IInv, stopAsync
    PROVE  IInv'
<1> USE DEF IInv, stopAsync
<1>1. TypeOK' /\ AccountingExact' /\ ChildrenDone' /\ StoppedIsQuiet'
  BY DEF counts, workers, TypeOK, AccountingExact, Holding, ChildrenDone,
         StoppedIsQuiet
<1>2. ThreadsConsistent' /\ TasksExact'
  BY DEF counts, workers, ThreadsConsistent, Busy, TasksExact, Woken, open,
         OpenOf, SlotSet
<1> QED BY <1>1, <1>2

LEMMA onChildrenStoppedInv ==
    ASSUME IInv, onChildrenStopped
    PROVE  IInv'
<1>1. TypeOK'
  BY DEF IInv, TypeOK, onChildrenStopped, checkStopped, counts
<1>2. AccountingExact'
  BY DEF IInv, AccountingExact, onChildrenStopped, counts, Holding
<1>3. ThreadsConsistent'
  BY DEF IInv, ThreadsConsistent, onChildrenStopped, Busy
<1>4. TasksExact'
  BY DEF IInv, TasksExact, onChildrenStopped, counts, Woken, open, OpenOf, SlotSet
<1>5. ChildrenDone'
  BY DEF IInv, ChildrenDone, onChildrenStopped, checkStopped
<1>6. StoppedIsQuiet'
  <2>1. CASE stopped'
    <3>1. ~stopped
      BY DEF IInv, ChildrenDone, onChildrenStopped
    <3>2. NothingLeft'
      BY <2>1, <3>1 DEF onChildrenStopped, checkStopped, counts, NothingLeft
    <3> QED BY <3>2, <1>1, <1>2, <1>3, <1>4, <1>5, QuietWhenEmpty, PTL
  <2>2. CASE ~stopped'
    BY <2>2 DEF StoppedIsQuiet
  <2> QED BY <2>1, <2>2
<1> QED BY <1>1, <1>2, <1>3, <1>4, <1>5, <1>6 DEF IInv

LEMMA InitInv == Init => IInv
<1> SUFFICES ASSUME Init PROVE IInv
  OBVIOUS
<1>0. jtINVALID \notin JobType
  BY JobTypeAssumption DEF jtINVALID
<1>1. TypeOK
  BY DEF Init, TypeOK, PC
<1>2. Busy = {} /\ Woken = {} /\ \A t \in JobType : Holding(t) = {}
  BY <1>0 DEF Init, Busy, Woken, Holding
<1>3. AccountingExact
  <2>1. \A t \in JobType : Cardinality(Holding(t)) = 0
    BY <1>2, FS_EmptySet
  <2>2. \A t \in JobType : limit[t] \in Nat /\ limit[t] >= 0
    BY LimitAssumption
  <2> QED BY <2>1, <2>2 DEF Init, AccountingExact
<1>4. ThreadsConsistent
  BY <1>0, <1>2, FS_EmptySet DEF Init, ThreadsConsistent, Callers
<1>5. TasksExact
  <2>1. \A t \in JobType : open[t] = 0
    BY LimitAssumption DEF Init, open, OpenOf
  <2>2. SlotSet(open) = {}
    BY <2>1 DEF SlotSet
  <2> QED BY <1>2, <2>2, FS_EmptySet DEF Init, TasksExact
<1> QED BY <1>1, <1>3, <1>4, <1>5 DEF Init, IInv, ChildrenDone, StoppedIsQuiet

-----------------------------------------------------------------------------
(* The theorems *)

\* Every step of the queue preserves the invariant.
LEMMA NextInv == IInv /\ [Next]_vars => IInv'
<1> SUFFICES ASSUME IInv, [Next]_vars PROVE IInv'
  OBVIOUS
<1>1. ASSUME NEW c \in Callers, NEW t \in JobType, StartAdd(c, t) PROVE IInv'
  BY <1>1, StartAddInv
<1>2. ASSUME NEW c \in Callers, InsertJob(c) PROVE IInv'
  BY <1>2, InsertJobInv
<1>3. ASSUME NEW w \in Threads, TakeTask(w) PROVE IInv'
  BY <1>3, TakeTaskInv
<1>4. ASSUME NEW w \in Threads, getNextJob(w) PROVE IInv'
  BY <1>4, getNextJobInv
<1>5. ASSUME NEW w \in Threads, doJob(w) PROVE IInv'
  BY <1>5, doJobInv
<1>6. ASSUME NEW w \in Threads, finishJob(w) PROVE IInv'
  BY <1>6, finishJobInv
<1>7. CASE stopAsync
  BY <1>7, stopAsyncInv
<1>8. CASE onChildrenStopped
  BY <1>8, onChildrenStoppedInv
<1>9. CASE UNCHANGED vars
  <2> USE <1>9 DEF IInv, vars, counts, workers, service
  <2>1. TypeOK' /\ AccountingExact' /\ ChildrenDone' /\ StoppedIsQuiet'
    BY DEF TypeOK, AccountingExact, Holding, ChildrenDone, StoppedIsQuiet
  <2>2. ThreadsConsistent' /\ TasksExact'
    BY DEF ThreadsConsistent, Busy, TasksExact, Woken, open, OpenOf, SlotSet
  <2> QED BY <2>1, <2>2
<1> QED BY <1>1, <1>2, <1>3, <1>4, <1>5, <1>6, <1>7, <1>8, <1>9 DEF Next

\* The inductive invariant holds throughout, for any types, limits and threads.
THEOREM Invariance == Spec => []IInv
BY InitInv, NextInv, PTL DEF Spec

\* The counters of JobTypeData are never negative.
THEOREM TypeCorrect == Spec => []TypeOK
<1>1. IInv => TypeOK
  BY DEF IInv
<1> QED BY <1>1, Invariance, PTL

\* waiting, running and deferred describe the job set and the threads exactly,
\* and no type ever runs beyond its limit (the asserts of getNextJob and
\* finishJob cannot fail).
THEOREM Accounting == Spec => []AccountingExact
<1>1. IInv => AccountingExact
  BY DEF IInv
<1> QED BY <1>1, Invariance, PTL

\* A worker that was woken always finds a runnable job: the pre-condition of
\* getNextJob, whose last assert guards the dereference of the iterator.
THEOREM WokenFindsJob == Spec => []RunnableJobExists
<1>1. IInv => RunnableJobExists
  <2> SUFFICES ASSUME IInv, NEW w \in Threads, pc[w] = "task"
               PROVE  \E t \in JobType : jobSet[t] > 0 /\ running[t] < limit[t]
    BY DEF RunnableJobExists
  <2>1. open \in [JobType -> Nat]
    BY OpenType DEF IInv, TypeOK, AccountingExact, open
  <2>2. Cardinality(Woken) > 0 /\ Cardinality(Woken) \in Nat
    <3>1. w \in Woken /\ IsFiniteSet(Woken) /\ Cardinality(Woken) \in Nat
      BY ThreadSetsFinite DEF Woken
    <3>2. Cardinality(Woken) # 0
      BY <3>1, FS_EmptySet
    <3> QED BY <3>1, <3>2
  <2>3. Cardinality(SlotSet(open)) > 0
    BY <2>2 DEF IInv, TypeOK, TasksExact
  <2>4. PICK t \in JobType : open[t] > 0
    BY <2>1, <2>3, SlotSetEmpty DEF IInv, TasksExact
  <2>5. waiting[t] > 0 /\ running[t] < limit[t]
    BY <2>4, OpenType DEF IInv, TypeOK, AccountingExact, open
  <2> QED BY <2>5 DEF IInv, AccountingExact
<1> QED BY <1>1, Invariance, PTL

\* After stopped() the queue is empty and idle for good.
THEOREM StopIsFinal == Spec => []StoppedIsQuiet
<1>1. IInv => StoppedIsQuiet
  BY DEF IInv
<1> QED BY <1>1, Invariance, PTL

=============================================================================
