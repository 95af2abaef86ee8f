------------------------------ MODULE TaskPool ------------------------------
(***************************************************************************)
(* What Workers promises to its callback (Workers.h): each call of addTask *)
(* gives exactly one call of processTask.  JobQueue relies on it: a worker *)
(* in processTask expects a runnable job.                                  *)
(***************************************************************************)
EXTENDS Naturals

VARIABLES
    tasks,      \* calls of addTask without their call of processTask
    running     \* calls of processTask in progress

Init == tasks = 0 /\ running = 0

addTask == tasks' = tasks + 1 /\ UNCHANGED running

startTask == tasks > 0 /\ tasks' = tasks - 1 /\ running' = running + 1

finishTask == running > 0 /\ running' = running - 1 /\ UNCHANGED tasks

Next == addTask \/ startTask \/ finishTask

Spec == Init /\ [][Next]_<<tasks, running>>

=============================================================================
