------------------------------ MODULE CondPool ------------------------------
(***************************************************************************)
(* ThreadPool of 04_thread/main.cpp: a queue of tasks guarded by a mutex   *)
(* and a condition variable.  The thread that owns the pool (Main) adds    *)
(* tasks and then destroys it; ~ThreadPool sets shutdown without the       *)
(* mutex.  A step is one access to the shared state, or a critical section *)
(* no other access can interrupt.                                          *)
(***************************************************************************)
EXTENDS Naturals, Sequences, FiniteSets

CONSTANTS
    CondWorkers, \* the max_thread_num threads
    Tasks,       \* each is added at most once
    Main,        \* the owner of the pool
    NoTask,
    NoHolder     \* owner of a mutex that is free

CondThreads == CondWorkers \cup {Main}

ASSUME CondPoolAssumption == /\ IsFiniteSet(CondWorkers) /\ CondWorkers # {}
                             /\ IsFiniteSet(Tasks) /\ NoTask \notin Tasks
                             /\ Main \notin CondWorkers /\ NoHolder \notin CondThreads

VARIABLES
    list,       \* workers, the list
    size,       \* cur_queue_size
    shutdown,
    holder,     \* of queue_lock
    at,         \* a worker at "asleep" is in the wait set of queue_ready
    task,       \* the task a thread has in hand
    added,      \* history: the tasks that have been added
    missed      \* history: a worker was not yet asleep at the broadcast

condVars == <<list, size, shutdown, holder, at, task, added, missed>>

MainAt   == {"main", "push", "signal", "broadcast", "join", "done"}
CondWorkerAt == {"lock", "test", "wait", "asleep", "woken", "leave", "run",
                 "exited"}

(***************************************************************************)
(* Every variable keeps its type; in particular the counter is the length  *)
(* of the list it counts.                                                  *)
(***************************************************************************)
CondTypeOK ==
    /\ list \in Seq(Tasks)
    /\ size = Len(list)
    /\ shutdown \in BOOLEAN /\ missed \in BOOLEAN
    /\ holder \in CondWorkers \cup {NoHolder}
    /\ at \in [CondThreads -> MainAt \cup CondWorkerAt]
    /\ at[Main] \in MainAt /\ \A w \in CondWorkers : at[w] \in CondWorkerAt
    /\ task \in [CondThreads -> Tasks \cup {NoTask}]
    /\ added \subseteq Tasks

CondInit ==
    /\ list = <<>> /\ size = 0 /\ shutdown = FALSE /\ holder = NoHolder
    /\ at = [t \in CondThreads |-> IF t = Main THEN "main" ELSE "lock"]
    /\ task = [t \in CondThreads |-> NoTask]
    /\ added = {} /\ missed = FALSE

CondGoto(t, l) == at' = [at EXCEPT ![t] = l]
Asleep     == {w \in CondWorkers : at[w] = "asleep"}

-----------------------------------------------------------------------------
(***************************************************************************)
(* pool_add_worker                                                         *)
(***************************************************************************)
AddWorker(t) ==
    /\ at[Main] = "main"
    /\ t \notin added
    /\ added' = added \cup {t}
    /\ task' = [task EXCEPT ![Main] = t]
    /\ CondGoto(Main, "push")
    /\ UNCHANGED <<list, size, shutdown, holder, missed>>

\* lock, push_back, cur_queue_size++, unlock
AddPush ==
    /\ at[Main] = "push"
    /\ holder = NoHolder
    /\ list' = Append(list, task[Main])
    /\ size' = size + 1
    /\ task' = [task EXCEPT ![Main] = NoTask]
    /\ CondGoto(Main, "signal")
    /\ UNCHANGED <<shutdown, holder, added, missed>>

\* mutant: no one is woken
AddSignalNobody ==
    /\ at[Main] = "signal"
    /\ CondGoto(Main, "main")
    /\ UNCHANGED <<list, size, shutdown, holder, task, added, missed>>

\* pthread_cond_signal wakes one of the threads that wait
AddSignal ==
    /\ at[Main] = "signal"
    /\ IF Asleep = {}
         THEN CondGoto(Main, "main")
         ELSE \E w \in Asleep :
                at' = [at EXCEPT ![Main] = "main", ![w] = "woken"]
    /\ UNCHANGED <<list, size, shutdown, holder, task, added, missed>>

-----------------------------------------------------------------------------
(***************************************************************************)
(* ~ThreadPool                                                             *)
(***************************************************************************)
SetShutdown ==
    /\ at[Main] = "main"
    /\ shutdown' = TRUE
    /\ CondGoto(Main, "broadcast")
    /\ UNCHANGED <<list, size, holder, task, added, missed>>

\* mutant: wakes one thread
BroadcastOne ==
    /\ at[Main] = "broadcast"
    /\ \/ Asleep = {} /\ CondGoto(Main, "join")
       \/ \E w \in Asleep :
            at' = [at EXCEPT ![Main] = "join", ![w] = "woken"]
    /\ missed' = \E w \in CondWorkers : at[w] = "wait"
    /\ UNCHANGED <<list, size, shutdown, holder, task, added>>

Broadcast ==
    /\ at[Main] = "broadcast"
    /\ at' = [t \in CondThreads |-> IF t = Main THEN "join"
                                    ELSE IF t \in Asleep THEN "woken" ELSE at[t]]
    /\ missed' = \E w \in CondWorkers : at[w] = "wait"
    /\ UNCHANGED <<list, size, shutdown, holder, task, added>>

\* pthread_join of every thread; what is left in the list is not run
Join ==
    /\ at[Main] = "join"
    /\ \A w \in CondWorkers : at[w] = "exited"
    /\ CondGoto(Main, "done")
    /\ UNCHANGED <<list, size, shutdown, holder, task, added, missed>>

-----------------------------------------------------------------------------
(***************************************************************************)
(* thread_routine                                                          *)
(***************************************************************************)
\* mutant: the condition is tested once: `if' instead of `while'
LockIf(w) ==
    /\ at[w] \in {"lock", "woken"}
    /\ holder = NoHolder /\ holder' = w
    /\ CondGoto(w, IF at[w] = "lock" THEN "test" ELSE "leave")
    /\ UNCHANGED <<list, size, shutdown, task, added, missed>>

\* pthread_mutex_lock, or the return of pthread_cond_wait
CondLock(w) ==
    /\ at[w] \in {"lock", "woken"}
    /\ holder = NoHolder /\ holder' = w
    /\ CondGoto(w, "test")
    /\ UNCHANGED <<list, size, shutdown, task, added, missed>>

\* while (cur_queue_size == 0 && !shutdown)
Test(w) ==
    /\ at[w] = "test"
    /\ CondGoto(w, IF size = 0 /\ ~shutdown THEN "wait" ELSE "leave")
    /\ UNCHANGED <<list, size, shutdown, holder, task, added, missed>>

\* pthread_cond_wait releases the mutex and sleeps, in one step
CondWait(w) ==
    /\ at[w] = "wait"
    /\ holder' = NoHolder
    /\ CondGoto(w, "asleep")
    /\ UNCHANGED <<list, size, shutdown, task, added, missed>>

\* pthread_cond_wait may return without a signal
Spurious(w) ==
    /\ at[w] = "asleep"
    /\ CondGoto(w, "woken")
    /\ UNCHANGED <<list, size, shutdown, holder, task, added, missed>>

Quit(w) ==
    /\ at[w] = "leave" /\ shutdown
    /\ holder' = NoHolder
    /\ CondGoto(w, "exited")
    /\ UNCHANGED <<list, size, shutdown, task, added, missed>>

\* mutant: the task is copied from the list and not removed
TakeKeeps(w) ==
    /\ at[w] = "leave" /\ ~shutdown
    /\ task' = [task EXCEPT ![w] = Head(list)]
    /\ holder' = NoHolder
    /\ CondGoto(w, "run")
    /\ UNCHANGED <<list, size, shutdown, added, missed>>

\* cur_queue_size--, front, pop_front, unlock
Take(w) ==
    /\ at[w] = "leave" /\ ~shutdown
    /\ task' = [task EXCEPT ![w] = Head(list)]
    /\ list' = Tail(list)
    /\ size' = size - 1
    /\ holder' = NoHolder
    /\ CondGoto(w, "run")
    /\ UNCHANGED <<shutdown, added, missed>>

\* work->process(work->arg) has returned
Run(w) ==
    /\ at[w] = "run"
    /\ task' = [task EXCEPT ![w] = NoTask]
    /\ CondGoto(w, "lock")
    /\ UNCHANGED <<list, size, shutdown, holder, added, missed>>

MainStep ==
    \/ AddPush \/ AddSignal \/ Broadcast \/ Join

CondWorkerStep(w) ==
    CondLock(w) \/ Test(w) \/ CondWait(w) \/ Quit(w) \/ Take(w) \/ Run(w)

CondNext ==
    \/ \E t \in Tasks : AddWorker(t)
    \/ SetShutdown
    \/ MainStep
    \/ \E w \in CondWorkers : CondWorkerStep(w) \/ Spurious(w)

CondSpec == CondInit /\ [][CondNext]_condVars

(***************************************************************************)
(* Threads keep running; nobody waits for ever for a mutex that is         *)
(* released again and again.  A spurious wake-up cannot be relied on.      *)
(***************************************************************************)
CondFairness ==
    /\ WF_condVars(MainStep) /\ SF_condVars(AddPush)
    /\ \A w \in CondWorkers : WF_condVars(CondWorkerStep(w)) /\ SF_condVars(CondLock(w))

CondFairSpec == CondSpec /\ CondFairness

-----------------------------------------------------------------------------
(***************************************************************************)
(* A worker that leaves the while loop and is not told to stop finds a     *)
(* task, although wake-ups can be spurious and another worker can have     *)
(* taken the task it was woken for (lines 629-642).                        *)
(***************************************************************************)
TakeFindsTask ==
    \A w \in CondWorkers : at[w] = "leave" /\ ~shutdown => list # <<>>

(***************************************************************************)
(* The pool is the same queue as the one of 85: tasks are run once, in the *)
(* order they were added.  It has no limit, so it refuses nothing.         *)
(***************************************************************************)
TaskRunning == [w \in CondWorkers |-> IF at[w] = "run" THEN task[w] ELSE NoTask]

CondQ == INSTANCE WorkQueue
          WITH waiting <- list, busy <- TaskRunning, Requests <- Tasks,
               Workers <- CondWorkers,
               Capacity <- Cardinality(Tasks) + 1, Nothing <- NoTask

CondImplementsQueue == CondQ!Spec

(***************************************************************************)
(* A task that was added is run, unless the pool is destroyed: the signal, *)
(* sent after the mutex is released, is never needed by a worker that      *)
(* misses it.                                                              *)
(***************************************************************************)
TaskQueued(t)  == \E i \in 1..Len(list) : list[i] = t
TaskStarted(t) == \E w \in CondWorkers : at[w] = "run" /\ task[w] = t

EveryTaskRuns == \A t \in Tasks : TaskQueued(t) ~> (TaskStarted(t) \/ shutdown)

(***************************************************************************)
(* ~ThreadPool wakes every thread and returns (line 691); unless a worker  *)
(* had tested shutdown and was not asleep yet when the broadcast was sent. *)
(***************************************************************************)
DestroyEnds == shutdown ~> (at[Main] = "done" \/ missed)
=============================================================================
