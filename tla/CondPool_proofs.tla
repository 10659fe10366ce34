--------------------------- MODULE CondPool_proofs ---------------------------
(***************************************************************************)
(* Proofs about CondPool, for any number of workers and tasks: a worker    *)
(* that leaves the while loop finds a task, and the pool implements        *)
(* WorkQueue.                                                              *)
(***************************************************************************)
EXTENDS CondPool, FiniteSetTheorems, TLAPS

\* where a worker is between lock and unlock in thread_routine
Inside == {"test", "wait", "leave"}

Guarded == \A w \in CondWorkers : at[w] \in Inside <=> holder = w

InHand == /\ at[Main] = "push" => task[Main] \in Tasks
          /\ \A w \in CondWorkers : at[w] = "run" => task[w] \in Tasks

\* a task that is being added has been counted and is not yet in the queue
Pending == IF at[Main] = "push" THEN 1 ELSE 0

Counted == Len(list) + Pending <= Cardinality(added)

(***************************************************************************)
(* TakeFindsTask is not inductive by itself: a worker that has found the   *)
(* queue not empty must know that no other worker can empty it before it   *)
(* takes its task (Guarded).                                               *)
(***************************************************************************)
CondInv == CondTypeOK /\ Guarded /\ TakeFindsTask /\ InHand /\ Counted

LEMMA MainIsNoWorker == Main \in CondThreads /\ Main \notin CondWorkers
BY CondPoolAssumption DEF CondThreads

LEMMA WorkerIsThread == \A w \in CondWorkers : w \in CondThreads
BY DEF CondThreads

LEMMA AddedFinite ==
    ASSUME CondTypeOK
    PROVE  /\ IsFiniteSet(added)
           /\ Cardinality(added) \in Nat
           /\ Cardinality(added) <= Cardinality(Tasks)
           /\ Cardinality(Tasks) \in Nat
<1>1. IsFiniteSet(added) /\ Cardinality(added) <= Cardinality(Tasks)
  BY CondPoolAssumption, FS_Subset DEF CondTypeOK
<1> QED
  BY <1>1, CondPoolAssumption, FS_CardinalityType

(***************************************************************************)
(* Goto moves one thread and leaves the others where they are.             *)
(***************************************************************************)
LEMMA GotoWorker ==
    ASSUME CondTypeOK, NEW w \in CondWorkers, NEW l \in CondWorkerAt, CondGoto(w, l)
    PROVE  /\ at' \in [CondThreads -> MainAt \cup CondWorkerAt]
           /\ at'[w] = l
           /\ \A v \in CondWorkers \ {w} : at'[v] = at[v]
           /\ at'[Main] = at[Main]
BY MainIsNoWorker, WorkerIsThread DEF CondGoto, CondTypeOK

LEMMA GotoMain ==
    ASSUME CondTypeOK, NEW l \in MainAt, CondGoto(Main, l)
    PROVE  /\ at' \in [CondThreads -> MainAt \cup CondWorkerAt]
           /\ at'[Main] = l
           /\ \A w \in CondWorkers : at'[w] = at[w]
BY MainIsNoWorker, WorkerIsThread DEF CondGoto, CondTypeOK

LEMMA InitIInv == CondInit => CondInv
<1> SUFFICES ASSUME CondInit PROVE CondInv
  OBVIOUS
<1>1. /\ at \in [CondThreads -> MainAt \cup CondWorkerAt]
      /\ at[Main] = "main"
      /\ \A w \in CondWorkers : at[w] = "lock"
  BY CondPoolAssumption DEF CondInit, CondThreads, MainAt, CondWorkerAt
<1>2. CondTypeOK
  <2>1. list \in Seq(Tasks) /\ size = Len(list)
    BY DEF CondInit
  <2>2. task \in [CondThreads -> Tasks \cup {NoTask}] /\ added \subseteq Tasks
    BY DEF CondInit
  <2>3. at[Main] \in MainAt /\ \A w \in CondWorkers : at[w] \in CondWorkerAt
    BY <1>1 DEF MainAt, CondWorkerAt
  <2> QED
    BY <1>1, <2>1, <2>2, <2>3 DEF CondInit, CondTypeOK
<1>3. Guarded
  BY <1>1, CondPoolAssumption DEF CondInit, Guarded, Inside, CondThreads
<1>4. TakeFindsTask /\ InHand
  BY <1>1 DEF TakeFindsTask, InHand
<1>5. Counted
  BY <1>1, FS_EmptySet DEF CondInit, Counted, Pending
<1> QED
  BY <1>2, <1>3, <1>4, <1>5 DEF CondInv

-----------------------------------------------------------------------------
(***************************************************************************)
(* The steps of the owner.  None of them moves a worker into or out of the *)
(* critical section; AddPush only makes the queue longer.                  *)
(***************************************************************************)
LEMMA AddWorkerStep ==
    ASSUME CondInv, NEW t \in Tasks, AddWorker(t)
    PROVE  CondInv'
<1> USE DEF CondInv
<1>1. /\ at' \in [CondThreads -> MainAt \cup CondWorkerAt]
      /\ at'[Main] = "push"
      /\ \A w \in CondWorkers : at'[w] = at[w]
  BY GotoMain DEF AddWorker, MainAt
<1>2. CondTypeOK'
  BY <1>1, MainIsNoWorker DEF AddWorker, CondTypeOK, MainAt
<1>3. Guarded' /\ TakeFindsTask'
  BY <1>1 DEF AddWorker, Guarded, TakeFindsTask
<1>4. InHand'
  BY <1>1, MainIsNoWorker, WorkerIsThread DEF AddWorker, InHand, CondTypeOK
<1>5. Counted'
  <2>1. Cardinality(added') = Cardinality(added) + 1
    BY AddedFinite, FS_AddElement DEF AddWorker
  <2> QED
    BY <2>1, <1>1, AddedFinite DEF AddWorker, Counted, Pending, CondTypeOK
<1> QED
  BY <1>2, <1>3, <1>4, <1>5

LEMMA AddPushStep ==
    ASSUME CondInv, AddPush
    PROVE  CondInv'
<1> USE DEF CondInv
<1>1. /\ at' \in [CondThreads -> MainAt \cup CondWorkerAt]
      /\ at'[Main] = "signal"
      /\ \A w \in CondWorkers : at'[w] = at[w]
  BY GotoMain DEF AddPush, MainAt
<1>2. /\ list' \in Seq(Tasks) /\ Len(list') = Len(list) + 1
      /\ list' # <<>>
  BY DEF AddPush, InHand, CondTypeOK
<1>3. CondTypeOK'
  BY <1>1, <1>2, MainIsNoWorker DEF AddPush, CondTypeOK, MainAt
<1>4. Guarded'
  BY <1>1 DEF AddPush, Guarded
<1>5. TakeFindsTask'
  BY <1>2 DEF TakeFindsTask
<1>6. InHand'
  BY <1>1, MainIsNoWorker, WorkerIsThread DEF AddPush, InHand, CondTypeOK
<1>7. Counted'
  BY <1>1, <1>2, AddedFinite DEF AddPush, Counted, Pending, CondTypeOK
<1> QED
  BY <1>3, <1>4, <1>5, <1>6, <1>7

\* what AddSignal and Broadcast do to the workers: sleepers may wake
Wakes == \A w \in CondWorkers : \/ at'[w] = at[w]
                                \/ at[w] = "asleep" /\ at'[w] = "woken"

LEMMA WakingStep ==
    ASSUME CondInv, Wakes, at' \in [CondThreads -> MainAt \cup CondWorkerAt],
           at'[Main] \in MainAt \ {"push"}, at[Main] # "push",
           missed' \in BOOLEAN, shutdown' \in BOOLEAN, shutdown => shutdown',
           UNCHANGED <<list, size, holder, task, added>>
    PROVE  CondInv'
<1> USE DEF CondInv
<1>1. CondTypeOK'
  BY DEF CondTypeOK, Wakes, CondWorkerAt
<1>2. Guarded'
  BY DEF Guarded, Wakes, Inside
<1>3. TakeFindsTask' /\ InHand'
  BY DEF TakeFindsTask, InHand, Wakes
<1>4. Counted'
  BY DEF Counted, Pending
<1> QED
  BY <1>1, <1>2, <1>3, <1>4

LEMMA AddSignalStep ==
    ASSUME CondInv, AddSignal
    PROVE  CondInv'
<1>1. at[Main] = "signal" /\ CondTypeOK
  BY DEF AddSignal, CondInv
<1>2. /\ Wakes
      /\ at' \in [CondThreads -> MainAt \cup CondWorkerAt]
      /\ at'[Main] = "main"
  <2>1. CASE Asleep = {}
    BY <1>1, <2>1, GotoMain DEF AddSignal, MainAt, Wakes
  <2>2. CASE Asleep # {}
    <3>1. PICK w \in Asleep :
            at' = [at EXCEPT ![Main] = "main", ![w] = "woken"]
      BY <2>2 DEF AddSignal
    <3>2. w \in CondWorkers /\ at[w] = "asleep"
      BY DEF Asleep
    <3> QED
      BY <1>1, <3>1, <3>2, MainIsNoWorker, WorkerIsThread
         DEF CondTypeOK, MainAt, CondWorkerAt, Wakes
  <2> QED
    BY <2>1, <2>2
<1> QED
  BY <1>1, <1>2, WakingStep DEF AddSignal, CondTypeOK, MainAt

LEMMA BroadcastStep ==
    ASSUME CondInv, Broadcast
    PROVE  CondInv'
<1>1. at[Main] = "broadcast" /\ CondTypeOK
  BY DEF Broadcast, CondInv
<1>2. /\ Wakes
      /\ at' \in [CondThreads -> MainAt \cup CondWorkerAt]
      /\ at'[Main] = "join"
  BY <1>1, MainIsNoWorker, WorkerIsThread
     DEF Broadcast, Asleep, CondTypeOK, MainAt, CondWorkerAt, Wakes
<1> QED
  BY <1>1, <1>2, WakingStep DEF Broadcast, CondTypeOK, MainAt

LEMMA SetShutdownStep ==
    ASSUME CondInv, SetShutdown
    PROVE  CondInv'
<1>1. /\ at' \in [CondThreads -> MainAt \cup CondWorkerAt]
      /\ at'[Main] = "broadcast"
      /\ Wakes
  BY GotoMain DEF SetShutdown, MainAt, CondInv, Wakes
<1> QED
  BY <1>1, WakingStep DEF SetShutdown, CondInv, CondTypeOK, MainAt

LEMMA JoinStep ==
    ASSUME CondInv, Join
    PROVE  CondInv'
<1>1. /\ at' \in [CondThreads -> MainAt \cup CondWorkerAt]
      /\ at'[Main] = "done"
      /\ Wakes
  BY GotoMain DEF Join, MainAt, CondInv, Wakes
<1> QED
  BY <1>1, WakingStep DEF Join, CondInv, CondTypeOK, MainAt

-----------------------------------------------------------------------------
(***************************************************************************)
(* The steps of a worker.  What the others may count on is what the owner  *)
(* of the mutex may change: LockStep lets a worker in, the steps after it  *)
(* are taken inside, and no other worker is.                               *)
(***************************************************************************)
LEMMA LockStep ==
    ASSUME CondInv, NEW w \in CondWorkers, CondLock(w)
    PROVE  CondInv'
<1> USE DEF CondInv
<1>1. /\ at' \in [CondThreads -> MainAt \cup CondWorkerAt]
      /\ at'[w] = "test"
      /\ \A v \in CondWorkers \ {w} : at'[v] = at[v]
      /\ at'[Main] = at[Main]
  BY GotoWorker DEF CondLock, CondWorkerAt
<1>2. CondTypeOK'
  BY <1>1 DEF CondLock, CondTypeOK, CondWorkerAt
<1>3. Guarded'
  BY <1>1, CondPoolAssumption DEF CondLock, Guarded, Inside, CondThreads
<1>4. TakeFindsTask' /\ InHand' /\ Counted'
  BY <1>1 DEF CondLock, TakeFindsTask, InHand, Counted, Pending
<1> QED
  BY <1>2, <1>3, <1>4

LEMMA TestStep ==
    ASSUME CondInv, NEW w \in CondWorkers, Test(w)
    PROVE  CondInv'
<1> USE DEF CondInv
<1>1. /\ at' \in [CondThreads -> MainAt \cup CondWorkerAt]
      /\ at'[w] = IF size = 0 /\ ~shutdown THEN "wait" ELSE "leave"
      /\ \A v \in CondWorkers \ {w} : at'[v] = at[v]
      /\ at'[Main] = at[Main]
  BY GotoWorker DEF Test, CondWorkerAt
<1>2. CondTypeOK'
  BY <1>1 DEF Test, CondTypeOK, CondWorkerAt
<1>3. Guarded'
  BY <1>1 DEF Test, Guarded, Inside
<1>4. TakeFindsTask'
  BY <1>1 DEF Test, TakeFindsTask, CondTypeOK
<1>5. InHand' /\ Counted'
  BY <1>1 DEF Test, InHand, Counted, Pending
<1> QED
  BY <1>2, <1>3, <1>4, <1>5

LEMMA CondWaitStep ==
    ASSUME CondInv, NEW w \in CondWorkers, CondWait(w)
    PROVE  CondInv'
<1> USE DEF CondInv
<1>1. /\ at' \in [CondThreads -> MainAt \cup CondWorkerAt]
      /\ at'[w] = "asleep"
      /\ \A v \in CondWorkers \ {w} : at'[v] = at[v]
      /\ at'[Main] = at[Main]
  BY GotoWorker DEF CondWait, CondWorkerAt
<1>2. CondTypeOK'
  BY <1>1 DEF CondWait, CondTypeOK, CondWorkerAt
<1>3. Guarded'
  BY <1>1, CondPoolAssumption DEF CondWait, Guarded, Inside, CondThreads
<1>4. TakeFindsTask' /\ InHand' /\ Counted'
  BY <1>1 DEF CondWait, TakeFindsTask, InHand, Counted, Pending
<1> QED
  BY <1>2, <1>3, <1>4

LEMMA SpuriousStep ==
    ASSUME CondInv, NEW w \in CondWorkers, Spurious(w)
    PROVE  CondInv'
<1>1. /\ at' \in [CondThreads -> MainAt \cup CondWorkerAt]
      /\ at'[Main] = at[Main]
      /\ Wakes
  BY GotoWorker DEF Spurious, CondWorkerAt, CondInv, Wakes
<1> USE DEF CondInv
<1>2. CondTypeOK'
  BY <1>1 DEF Spurious, CondTypeOK, Wakes, CondWorkerAt
<1>3. Guarded'
  BY <1>1 DEF Spurious, Guarded, Wakes, Inside
<1>4. TakeFindsTask' /\ InHand' /\ Counted'
  BY <1>1 DEF Spurious, TakeFindsTask, InHand, Wakes, Counted, Pending
<1> QED
  BY <1>2, <1>3, <1>4

LEMMA QuitStep ==
    ASSUME CondInv, NEW w \in CondWorkers, Quit(w)
    PROVE  CondInv'
<1> USE DEF CondInv
<1>1. /\ at' \in [CondThreads -> MainAt \cup CondWorkerAt]
      /\ at'[w] = "exited"
      /\ \A v \in CondWorkers \ {w} : at'[v] = at[v]
      /\ at'[Main] = at[Main]
  BY GotoWorker DEF Quit, CondWorkerAt
<1>2. CondTypeOK'
  BY <1>1 DEF Quit, CondTypeOK, CondWorkerAt
<1>3. Guarded'
  BY <1>1, CondPoolAssumption DEF Quit, Guarded, Inside, CondThreads
<1>4. TakeFindsTask' /\ InHand' /\ Counted'
  BY <1>1 DEF Quit, TakeFindsTask, InHand, Counted, Pending
<1> QED
  BY <1>2, <1>3, <1>4

\* the other workers are outside: none of them was promised the task taken
LEMMA TakeStep ==
    ASSUME CondInv, NEW w \in CondWorkers, Take(w)
    PROVE  CondInv'
<1> USE DEF CondInv
<1>1. /\ at' \in [CondThreads -> MainAt \cup CondWorkerAt]
      /\ at'[w] = "run"
      /\ \A v \in CondWorkers \ {w} : at'[v] = at[v]
      /\ at'[Main] = at[Main]
  BY GotoWorker DEF Take, CondWorkerAt
<1>2. /\ list # <<>> /\ Head(list) \in Tasks
      /\ Tail(list) \in Seq(Tasks) /\ Len(Tail(list)) = Len(list) - 1
  BY DEF Take, TakeFindsTask, CondTypeOK
<1>3. CondTypeOK'
  BY <1>1, <1>2, WorkerIsThread DEF Take, CondTypeOK, CondWorkerAt
<1>4. Guarded'
  BY <1>1, CondPoolAssumption DEF Take, Guarded, Inside, CondThreads
<1>5. TakeFindsTask'
  <2>1. \A v \in CondWorkers : at[v] = "leave" => v = w
    BY DEF Take, Guarded, Inside
  <2> QED
    BY <1>1, <2>1 DEF Take, TakeFindsTask
<1>6. InHand'
  BY <1>1, <1>2, MainIsNoWorker, WorkerIsThread DEF Take, InHand, CondTypeOK
<1>7. Counted'
  BY <1>1, <1>2, AddedFinite DEF Take, Counted, Pending, CondTypeOK
<1> QED
  BY <1>3, <1>4, <1>5, <1>6, <1>7

LEMMA RunStep ==
    ASSUME CondInv, NEW w \in CondWorkers, Run(w)
    PROVE  CondInv'
<1> USE DEF CondInv
<1>1. /\ at' \in [CondThreads -> MainAt \cup CondWorkerAt]
      /\ at'[w] = "lock"
      /\ \A v \in CondWorkers \ {w} : at'[v] = at[v]
      /\ at'[Main] = at[Main]
  BY GotoWorker DEF Run, CondWorkerAt
<1>2. CondTypeOK'
  BY <1>1, WorkerIsThread DEF Run, CondTypeOK, CondWorkerAt
<1>3. Guarded'
  BY <1>1 DEF Run, Guarded, Inside
<1>4. TakeFindsTask' /\ Counted'
  BY <1>1 DEF Run, TakeFindsTask, Counted, Pending
<1>5. InHand'
  BY <1>1, MainIsNoWorker, WorkerIsThread DEF Run, InHand, CondTypeOK
<1> QED
  BY <1>2, <1>3, <1>4, <1>5

LEMMA NextIInv == CondInv /\ [CondNext]_condVars => CondInv'
<1> SUFFICES ASSUME CondInv, [CondNext]_condVars PROVE CondInv'
  OBVIOUS
<1>1. CASE \E t \in Tasks : AddWorker(t)
  BY <1>1, AddWorkerStep
<1>2. CASE SetShutdown \/ MainStep
  BY <1>2, SetShutdownStep, AddPushStep, AddSignalStep, BroadcastStep, JoinStep
     DEF MainStep
<1>3. CASE \E w \in CondWorkers : CondWorkerStep(w) \/ Spurious(w)
  BY <1>3, LockStep, TestStep, CondWaitStep, SpuriousStep, QuitStep, TakeStep,
     RunStep DEF CondWorkerStep
<1>4. CASE UNCHANGED condVars
  BY <1>4 DEF condVars, CondInv, CondTypeOK, Guarded, TakeFindsTask, InHand, Counted,
     Pending
<1> QED
  BY <1>1, <1>2, <1>3, <1>4 DEF CondNext

(***************************************************************************)
(* The invariant holds in every reachable state.                           *)
(***************************************************************************)
THEOREM Invariance == CondSpec => []CondInv
<1> QED
  BY InitIInv, NextIInv, PTL DEF CondSpec

(***************************************************************************)
(* Type correctness; cur_queue_size is the length of the list.             *)
(***************************************************************************)
THEOREM TypeCorrect == CondSpec => []CondTypeOK
<1>1. CondInv => CondTypeOK
  BY DEF CondInv
<1> QED
  BY <1>1, Invariance, PTL

(***************************************************************************)
(* front() and pop_front() of line 643 are never called on an empty list.  *)
(***************************************************************************)
THEOREM WorkerFindsTask == CondSpec => []TakeFindsTask
<1>1. CondInv => TakeFindsTask
  BY DEF CondInv
<1> QED
  BY <1>1, Invariance, PTL

-----------------------------------------------------------------------------
(***************************************************************************)
(* Refinement: a task is appended at the push, taken at the pop, finished  *)
(* when its function returns; every other step is invisible.               *)
(***************************************************************************)
LEMMA InitRefines == CondInit => CondQ!Init
BY CondPoolAssumption DEF CondInit, CondQ!Init, TaskRunning, CondThreads

\* a step that keeps every worker that runs, and its task, where it is
LEMMA RunningUnchanged ==
    ASSUME \A w \in CondWorkers : /\ at'[w] = "run" <=> at[w] = "run"
                                  /\ at[w] = "run" => task'[w] = task[w]
    PROVE  TaskRunning' = TaskRunning
BY DEF TaskRunning

LEMMA OwnerRefines ==
    ASSUME CondInv, \/ \E t \in Tasks : AddWorker(t)
                    \/ SetShutdown \/ MainStep
    PROVE  [CondQ!Next]_<<list, TaskRunning>>
<1> USE DEF CondInv
<1>1. ASSUME NEW t \in Tasks, AddWorker(t)
      PROVE  UNCHANGED <<list, TaskRunning>>
  <2>1. \A w \in CondWorkers : at'[w] = at[w] /\ task'[w] = task[w]
    BY <1>1, GotoMain, MainIsNoWorker, WorkerIsThread
       DEF AddWorker, MainAt, CondTypeOK
  <2> QED
    BY <1>1, <2>1, RunningUnchanged DEF AddWorker
<1>2. ASSUME AddPush
      PROVE  CondQ!Append1(task[Main]) /\ task[Main] \in Tasks
  <2>1. \A w \in CondWorkers : at'[w] = at[w] /\ task'[w] = task[w]
    BY <1>2, GotoMain, MainIsNoWorker, WorkerIsThread
       DEF AddPush, MainAt, CondTypeOK
  <2>2. TaskRunning' = TaskRunning
    BY <2>1, RunningUnchanged
  <2>3. Len(list) <= Cardinality(Tasks)
    BY <1>2, AddedFinite DEF AddPush, Counted, Pending, CondTypeOK
  <2>4. Len(list) < Cardinality(Tasks) + 1
    BY <2>3, AddedFinite
  <2> QED
    BY <1>2, <2>2, <2>4 DEF AddPush, InHand, CondQ!Append1, CondQ!HasRoom
<1>3. ASSUME AddSignal
      PROVE  UNCHANGED <<list, TaskRunning>>
  <2>1. CASE Asleep = {}
    <3>1. \A w \in CondWorkers : at'[w] = at[w]
      BY <1>3, <2>1, GotoMain DEF AddSignal, MainAt
    <3> QED
      BY <1>3, <3>1, RunningUnchanged DEF AddSignal
  <2>2. CASE Asleep # {}
    <3>1. PICK v \in Asleep :
            at' = [at EXCEPT ![Main] = "main", ![v] = "woken"]
      BY <1>3, <2>2 DEF AddSignal
    <3>2. \A w \in CondWorkers : at'[w] = "run" <=> at[w] = "run"
      BY <3>1, MainIsNoWorker, WorkerIsThread DEF Asleep, CondTypeOK
    <3> QED
      BY <1>3, <3>2, RunningUnchanged DEF AddSignal
  <2> QED
    BY <2>1, <2>2
<1>4. ASSUME Broadcast
      PROVE  UNCHANGED <<list, TaskRunning>>
  <2>1. \A w \in CondWorkers : at'[w] = "run" <=> at[w] = "run"
    BY <1>4, MainIsNoWorker, WorkerIsThread DEF Broadcast, Asleep
  <2> QED
    BY <1>4, <2>1, RunningUnchanged DEF Broadcast
<1>5. ASSUME SetShutdown \/ Join
      PROVE  UNCHANGED <<list, TaskRunning>>
  <2>1. \A w \in CondWorkers : at'[w] = at[w]
    BY <1>5, GotoMain DEF SetShutdown, Join, MainAt
  <2> QED
    BY <1>5, <2>1, RunningUnchanged DEF SetShutdown, Join
<1> QED
  BY <1>1, <1>2, <1>3, <1>4, <1>5 DEF MainStep, CondQ!Next

LEMMA WorkerRefines ==
    ASSUME CondInv, NEW w \in CondWorkers, CondWorkerStep(w) \/ Spurious(w)
    PROVE  [CondQ!Next]_<<list, TaskRunning>>
<1> USE DEF CondInv
<1>1. ASSUME CondLock(w) \/ Test(w) \/ CondWait(w) \/ Spurious(w) \/ Quit(w)
      PROVE  UNCHANGED <<list, TaskRunning>>
  <2>1. at[w] # "run" /\ at'[w] # "run"
    BY <1>1, WorkerIsThread
       DEF CondLock, Test, CondWait, Spurious, Quit, CondGoto, CondTypeOK
  <2>2. \A v \in CondWorkers \ {w} : at'[v] = at[v]
    BY <1>1, WorkerIsThread
       DEF CondLock, Test, CondWait, Spurious, Quit, CondGoto, CondTypeOK
  <2>3. UNCHANGED <<list, task>>
    BY <1>1 DEF CondLock, Test, CondWait, Spurious, Quit
  <2> QED
    BY <2>1, <2>2, <2>3, RunningUnchanged
<1>2. ASSUME Take(w)
      PROVE  CondQ!Take(w)
  <2>1. /\ at[w] = "leave" /\ at'[w] = "run"
        /\ \A v \in CondWorkers \ {w} : at'[v] = at[v]
    BY <1>2, GotoWorker DEF Take, CondWorkerAt
  <2>2. /\ task'[w] = Head(list)
        /\ \A v \in CondWorkers \ {w} : task'[v] = task[v]
    BY <1>2, WorkerIsThread DEF Take, CondTypeOK
  <2>3. TaskRunning' = [TaskRunning EXCEPT ![w] = Head(list)]
    BY <2>1, <2>2 DEF TaskRunning
  <2> QED
    BY <1>2, <2>1, <2>3 DEF Take, TakeFindsTask, TaskRunning, CondQ!Take
<1>3. ASSUME Run(w)
      PROVE  CondQ!Finish(w)
  <2>1. /\ at[w] = "run" /\ at'[w] = "lock"
        /\ \A v \in CondWorkers \ {w} : at'[v] = at[v]
    BY <1>3, GotoWorker DEF Run, CondWorkerAt
  <2>2. \A v \in CondWorkers \ {w} : task'[v] = task[v]
    BY <1>3, WorkerIsThread DEF Run, CondTypeOK
  <2>3. TaskRunning' = [TaskRunning EXCEPT ![w] = NoTask]
    BY <2>1, <2>2 DEF TaskRunning
  <2>4. TaskRunning[w] # NoTask
    BY <2>1, CondPoolAssumption DEF TaskRunning, InHand
  <2> QED
    BY <1>3, <2>3, <2>4 DEF Run, CondQ!Finish
<1> QED
  BY <1>1, <1>2, <1>3 DEF CondWorkerStep, CondQ!Next

LEMMA StepRefines ==
    CondInv /\ [CondNext]_condVars => [CondQ!Next]_<<list, TaskRunning>>
<1> SUFFICES ASSUME CondInv, [CondNext]_condVars PROVE [CondQ!Next]_<<list, TaskRunning>>
  OBVIOUS
<1>1. CASE UNCHANGED condVars
  BY <1>1 DEF condVars, TaskRunning
<1> QED
  BY <1>1, OwnerRefines, WorkerRefines DEF CondNext

(***************************************************************************)
(* The pool of 04 implements the same abstract queue as the pool of 85:    *)
(* every task is handed to one worker, in the order of pool_add_worker.    *)
(***************************************************************************)
THEOREM CondPoolImplementsWorkQueue == CondSpec => CondImplementsQueue
<1> QED
  BY InitRefines, StepRefines, Invariance, PTL
     DEF CondSpec, CondImplementsQueue, CondQ!Spec
=============================================================================
