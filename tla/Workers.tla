------------------------------ MODULE Workers ------------------------------
(***************************************************************************)
(* The pool of threads that runs the jobs (beast Workers.cpp).  Each read  *)
(* or write of an atomic counter, of the semaphore or of an event is an    *)
(* action of the worker that makes it.  The owner is one thread: it makes  *)
(* the calls of setNumberOfThreads in Calls and then destroys the object.  *)
(* addTask comes from anywhere, until then.                                *)
(***************************************************************************)
EXTENDS Integers, Sequences, FiniteSets

CONSTANTS
    Worker,     \* the workers that may be created
    Calls,      \* the arguments of setNumberOfThreads, in order
    MaxTasks    \* bound: calls of addTask

ASSUME CallsAssumption ==
    /\ IsFiniteSet(Worker)
    /\ Calls \in Seq(0 .. Cardinality(Worker))
    /\ MaxTasks \in Nat

VARIABLES
    pc,             \* where each worker is in run()
    event,          \* the event of its Thread, which wait() resets
    shouldExit,     \* its threadShouldExit()
    m,              \* the members the threads share: semaphore, counters, m_allPaused
    paused,         \* the stack m_paused
    everyone,       \* the stack m_everyone: its head and the links of the nodes
    owner,          \* the owner's place, call, and what is left of it
    added,          \* calls of addTask
    started         \* calls of processTask

thread == <<event, shouldExit>>
stacks == <<paused, everyone>>
counts == <<added, started>>
vars == <<pc, thread, m, stacks, owner, counts>>

Nil == "nil"

Place == {"none", "loop", "enter", "reset", "wait", "look", "decrement", "undo", "start",
          "running", "push", "leave", "signal", "blocked", "gone"}

N == Cardinality(Worker)

\* No more than N workers are active or run a task, and m_pauseCount falls below zero by at
\* most the workers that must undo their decrement.
TypeOK ==
    /\ pc \in [Worker -> Place]
    /\ event \in [Worker -> BOOLEAN]
    /\ shouldExit \in [Worker -> BOOLEAN]
    /\ m \in [semaphore : 0 .. MaxTasks + N, activeCount : 0 .. N, pauseCount : 1 - N .. N,
              runningTaskCount : 0 .. N, allPaused : BOOLEAN]
    /\ paused \in Seq(Worker)
    /\ everyone \in [head : Worker \cup {Nil}, next : [Worker -> Worker \cup {Nil}]]
    /\ owner \in [pc : {"ready", "grow", "pause", "signal", "allPaused", "delete", "join", "done"},
                  call : 1 .. Len(Calls) + 1, left : 0 .. N, threads : 0 .. N]
    /\ added \in 0 .. MaxTasks /\ started \in Nat

Init ==
    /\ pc = [w \in Worker |-> "none"]
    /\ event = [w \in Worker |-> FALSE]
    /\ shouldExit = [w \in Worker |-> FALSE]
    /\ m = [semaphore |-> 0, activeCount |-> 0, pauseCount |-> 0, runningTaskCount |-> 0,
            allPaused |-> TRUE]
    /\ paused = <<>>
    /\ everyone = [head |-> Nil, next |-> [w \in Worker |-> Nil]]
    /\ owner = [pc |-> "ready", call |-> 1, left |-> 0, threads |-> 0]
    /\ added = 0
    /\ started = 0

-----------------------------------------------------------------------------
(* The owner *)

\* The destructor runs, after the last of the calls.
Destroying == owner.call > Len(Calls) /\ owner.pc # "ready"

\* addTask, not on an object that is being destroyed.
addTask ==
    /\ added < MaxTasks
    /\ ~Destroying
    /\ added' = added + 1
    /\ m' = [m EXCEPT !.semaphore = @ + 1]
    /\ UNCHANGED <<pc, thread, stacks, owner, started>>

\* The owner when a call of setNumberOfThreads has done all it had to: in the destructor
\* pauseAllThreadsAndWait goes on to wait.
Returned(o) ==
    IF o.call > Len(Calls)
    THEN [o EXCEPT !.pc = "allPaused", !.left = 0]
    ELSE [o EXCEPT !.pc = "ready", !.call = @ + 1, !.left = 0]

OneLess(o) == IF o.left = 1 THEN Returned(o) ELSE [o EXCEPT !.left = @ - 1]

setNumberOfThreads ==
    LET threads == IF owner.call > Len(Calls) THEN 0 ELSE Calls[owner.call]
        o == [owner EXCEPT !.threads = threads]
    IN /\ owner.pc = "ready"
       /\ owner' = CASE threads > owner.threads ->
                           [o EXCEPT !.pc = "grow", !.left = threads - owner.threads]
                     [] threads < owner.threads ->
                           [o EXCEPT !.pc = "pause", !.left = owner.threads - threads]
                     [] OTHER -> Returned(o)
       /\ UNCHANGED <<pc, thread, m, stacks, counts>>

\* A paused worker is taken up again, or a new one created.
activate(w) ==
    /\ owner.pc = "grow"
    /\ IF paused # <<>>
       THEN /\ w = Head(paused)
            /\ paused' = Tail(paused)
            /\ event' = [event EXCEPT ![w] = TRUE]
            /\ pc' = pc
       ELSE /\ pc[w] = "none"
            /\ pc' = [pc EXCEPT ![w] = "loop"]
            /\ UNCHANGED <<paused, event>>
    /\ everyone' = [head |-> w, next |-> [everyone.next EXCEPT ![w] = everyone.head]]
    /\ owner' = OneLess(owner)
    /\ UNCHANGED <<shouldExit, m, counts>>

requestPause ==
    /\ owner.pc = "pause"
    /\ m' = [m EXCEPT !.pauseCount = @ + 1]
    /\ owner' = [owner EXCEPT !.pc = "signal"]
    /\ UNCHANGED <<pc, thread, stacks, counts>>

signalPause ==
    /\ owner.pc = "signal"
    /\ m' = [m EXCEPT !.semaphore = @ + 1]
    /\ owner' = OneLess([owner EXCEPT !.pc = "pause"])
    /\ UNCHANGED <<pc, thread, stacks, counts>>

waitAllPaused ==
    /\ owner.pc = "allPaused"
    /\ m.allPaused
    /\ owner' = [owner EXCEPT !.pc = "delete"]
    /\ UNCHANGED <<pc, thread, m, stacks, counts>>

\* deleteWorkers pops a worker and stopThread tells it to exit; the next step waits for that.
deleteWorker ==
    LET w == everyone.head
    IN /\ owner.pc = "delete"
       /\ IF w = Nil
          THEN /\ owner' = [owner EXCEPT !.pc = "done"]
               /\ UNCHANGED thread
          ELSE /\ owner' = [owner EXCEPT !.pc = "join"]
               /\ shouldExit' = [shouldExit EXCEPT ![w] = TRUE]
               /\ event' = [event EXCEPT ![w] = TRUE]
       /\ UNCHANGED <<pc, m, stacks, counts>>

joinWorker ==
    /\ owner.pc = "join"
    /\ pc[everyone.head] = "gone"
    /\ everyone' = [everyone EXCEPT !.head = everyone.next[everyone.head]]
    /\ owner' = [owner EXCEPT !.pc = "delete"]
    /\ UNCHANGED <<pc, thread, m, paused, counts>>

-----------------------------------------------------------------------------
(* A worker *)

\* w goes on in run(), one operation on a shared member done.
Moves(w, from, to, members) ==
    /\ pc[w] = from
    /\ pc' = [pc EXCEPT ![w] = to]
    /\ m' = members
    /\ UNCHANGED owner

checkExit(w) ==
    /\ Moves(w, "loop", IF shouldExit[w] THEN "gone" ELSE "enter", m)
    /\ UNCHANGED <<thread, stacks, counts>>

enter(w) ==
    /\ Moves(w, "enter", IF m.activeCount = 0 THEN "reset" ELSE "wait",
             [m EXCEPT !.activeCount = @ + 1])
    /\ UNCHANGED <<thread, stacks, counts>>

resetAllPaused(w) ==
    /\ Moves(w, "reset", "wait", [m EXCEPT !.allPaused = FALSE])
    /\ UNCHANGED <<thread, stacks, counts>>

acquire(w) ==
    /\ m.semaphore > 0
    /\ Moves(w, "wait", "look", [m EXCEPT !.semaphore = @ - 1])
    /\ UNCHANGED <<thread, stacks, counts>>

look_never(w) ==
    /\ Moves(w, "look", "start", m)
    /\ UNCHANGED <<thread, stacks, counts>>

look(w) ==
    /\ Moves(w, "look", IF m.pauseCount > 0 THEN "decrement" ELSE "start", m)
    /\ UNCHANGED <<thread, stacks, counts>>

decrement_passesOn(w) ==
    /\ Moves(w, "decrement", "wait", [m EXCEPT !.semaphore = @ + 1])
    /\ UNCHANGED <<thread, stacks, counts>>

decrement(w) ==
    /\ Moves(w, "decrement", IF m.pauseCount - 1 >= 0 THEN "push" ELSE "undo",
             [m EXCEPT !.pauseCount = @ - 1])
    /\ UNCHANGED <<thread, stacks, counts>>

undo_waits(w) ==
    /\ Moves(w, "undo", "wait", [m EXCEPT !.pauseCount = @ + 1])
    /\ UNCHANGED <<thread, stacks, counts>>

undo(w) ==
    /\ Moves(w, "undo", "start", [m EXCEPT !.pauseCount = @ + 1])
    /\ UNCHANGED <<thread, stacks, counts>>

startTask(w) ==
    /\ Moves(w, "start", "running", [m EXCEPT !.runningTaskCount = @ + 1])
    /\ started' = started + 1
    /\ UNCHANGED <<thread, stacks, added>>

finishTask(w) ==
    /\ Moves(w, "running", "wait", [m EXCEPT !.runningTaskCount = @ - 1])
    /\ UNCHANGED <<thread, stacks, counts>>

push(w) ==
    /\ Moves(w, "push", "leave", m)
    /\ paused' = <<w>> \o paused
    /\ UNCHANGED <<thread, everyone, counts>>

leave(w) ==
    /\ Moves(w, "leave", IF m.activeCount = 1 THEN "signal" ELSE "blocked",
             [m EXCEPT !.activeCount = @ - 1])
    /\ UNCHANGED <<thread, stacks, counts>>

signalAllPaused(w) ==
    /\ Moves(w, "signal", "blocked", [m EXCEPT !.allPaused = TRUE])
    /\ UNCHANGED <<thread, stacks, counts>>

wake(w) ==
    /\ event[w]
    /\ Moves(w, "blocked", "loop", m)
    /\ event' = [event EXCEPT ![w] = FALSE]
    /\ UNCHANGED <<shouldExit, stacks, counts>>

\* One step of run().
Step(w) ==
    \/ checkExit(w) \/ enter(w) \/ resetAllPaused(w)
    \/ acquire(w) \/ look(w) \/ decrement(w) \/ undo(w)
    \/ startTask(w) \/ finishTask(w)
    \/ push(w) \/ leave(w) \/ signalAllPaused(w) \/ wake(w)

\* What the owner does in the middle of a call.
Continue ==
    \/ \E w \in Worker : activate(w)
    \/ requestPause \/ signalPause \/ waitAllPaused \/ deleteWorker \/ joinWorker

Destroyed == owner.pc = "done" /\ UNCHANGED vars

Next ==
    \/ addTask
    \/ setNumberOfThreads
    \/ Continue
    \/ \E w \in Worker : Step(w)
    \/ Destroyed

Spec == Init /\ [][Next]_vars

\* Threads that can run do, tasks end, and the owner completes a call it has begun; it need
\* not make one, nor does anyone have to add a task.
FairSpec == Spec /\ WF_vars(Continue) /\ \A w \in Worker : WF_vars(Step(w))

-----------------------------------------------------------------------------
Pool == INSTANCE TaskPool WITH tasks <- added - started, running <- m.runningTaskCount

\* Workers.h: "Each call to addTask will result in exactly one call to processTask."  Pause
\* requests share the semaphore with the tasks and are told apart by m_pauseCount alone,
\* which a worker decrements before it knows whether it may.
ExactlyOneCall == Pool!Spec

\* The same as a state predicate: no worker is in processTask without a task.
CallsHaveTasks == started <= added

\* Workers.h: "Every call to addTask will eventually result in a call to processTask unless
\* the Workers object is destroyed or the number of threads is never set above zero."
EveryTaskProcessed == started < added ~> (started >= added \/ Destroying \/ owner.threads = 0)

\* The destructor returns: every thread that was told to pause does so, in whatever order
\* pauses, tasks and the start of the threads come.
DestructorReturns == Destroying /\ owner.pc = "allPaused" ~> owner.pc = "done"

=============================================================================
