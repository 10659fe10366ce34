-------------------------- MODULE ThreadPool_proofs --------------------------
(***************************************************************************)
(* Proofs about ThreadPool, for any number of producers and workers, any   *)
(* set of requests and any _max_request.                                   *)
(***************************************************************************)
EXTENDS ThreadPool, FiniteSetTheorems, TLAPS

(***************************************************************************)
(* The inductive invariant: what the threads know at each program point.   *)
(***************************************************************************)
HoldsArgument == \A p \in Producers :
                    pc[p] \in {"size", "push", "refuse", "post"}
                        => req[p] \in Requests

HoldsFront == \A w \in Workers : pc[w] = "pop" => req[w] = Head(queue)

RunsNonNull == \A w \in Workers : pc[w] = "process" => req[w] # NULL

SawRoom == \A p \in Producers : pc[p] = "push" => ~Full

IInv == /\ TypeOK
        /\ MutualExclusion
        /\ WakeAccounting
        /\ HoldsArgument
        /\ HoldsFront
        /\ RunsNonNull
        /\ SawRoom
        /\ QueueBound

(***************************************************************************)
(* The sets counted by WakeAccounting are finite.                          *)
(***************************************************************************)
LEMMA CountedSetsFinite ==
    /\ IsFiniteSet(Posting) /\ Cardinality(Posting) \in Nat
    /\ IsFiniteSet(Woken)   /\ Cardinality(Woken) \in Nat
<1>1. IsFiniteSet(Posting)
  <2>1. Posting \in SUBSET Producers
    BY DEF Posting
  <2> QED
    BY <2>1, PoolAssumption, FS_Subset
<1>2. IsFiniteSet(Woken)
  <2>1. Woken \in SUBSET Workers
    BY DEF Woken
  <2> QED
    BY <2>1, PoolAssumption, FS_Subset
<1> QED
  BY <1>1, <1>2, FS_CardinalityType

(***************************************************************************)
(* A worker between wait() and pop_front() always has something to pop.    *)
(***************************************************************************)
LEMMA WokenNonEmpty ==
    ASSUME TypeOK, WakeAccounting, NEW w \in Woken
    PROVE  queue # <<>>
<1>1. Cardinality(Woken) # 0
  BY CountedSetsFinite, FS_EmptySet
<1>2. Len(queue) > 0
  BY <1>1, CountedSetsFinite DEF TypeOK, WakeAccounting
<1> QED
  BY <1>2

LEMMA InitIInv == Init => IInv
<1> SUFFICES ASSUME Init PROVE IInv
  OBVIOUS
<1> USE DEF Init, Threads
<1>1. TypeOK
  <2>1. <<>> \in Seq(Requests)
    OBVIOUS
  <2>2. pc \in [Threads -> ProducerAt \cup WorkerAt]
    BY DEF ProducerAt, WorkerAt
  <2>3. /\ \A p \in Producers : pc[p] \in ProducerAt
        /\ \A w \in Workers : pc[w] \in WorkerAt
    BY PoolAssumption DEF ProducerAt, WorkerAt
  <2> QED
    BY <2>1, <2>2, <2>3 DEF TypeOK
<1>2. MutualExclusion
  BY PoolAssumption DEF MutualExclusion, InSection
<1>3. WakeAccounting
  <2>1. Posting = {} /\ Woken = {}
    BY PoolAssumption DEF Posting, Woken
  <2> QED
    BY <2>1, FS_EmptySet DEF WakeAccounting
<1>4. HoldsArgument /\ HoldsFront /\ RunsNonNull /\ SawRoom
  BY PoolAssumption DEF HoldsArgument, HoldsFront, RunsNonNull, SawRoom
<1>5. QueueBound
  BY PoolAssumption DEF QueueBound, Capacity
<1> QED
  BY <1>1, <1>2, <1>3, <1>4, <1>5 DEF IInv

-----------------------------------------------------------------------------
(***************************************************************************)
(* Producers                                                               *)
(***************************************************************************)
LEMMA AppendLockStep ==
    ASSUME IInv, NEW p \in Producers, NEW r \in Requests, AppendLock(p, r)
    PROVE  IInv'
<1> USE PoolAssumption DEF IInv, AppendLock, Lock, Goto, Threads
<1>1. TypeOK'
  BY DEF TypeOK, ProducerAt, WorkerAt
<1>2. MutualExclusion'
  BY DEF MutualExclusion, InSection, TypeOK
<1>3. WakeAccounting'
  <2>1. Posting' = Posting /\ Woken' = Woken
    BY DEF Posting, Woken, TypeOK
  <2> QED
    BY <2>1 DEF WakeAccounting
<1>4. (HoldsArgument /\ HoldsFront /\ RunsNonNull /\ SawRoom)'
  BY DEF HoldsArgument, HoldsFront, RunsNonNull, SawRoom, Full, TypeOK
<1>5. QueueBound'
  BY DEF QueueBound
<1> QED
  BY <1>1, <1>2, <1>3, <1>4, <1>5

LEMMA AppendSizeStep ==
    ASSUME IInv, NEW p \in Producers, AppendSize(p)
    PROVE  IInv'
<1> USE PoolAssumption DEF IInv, AppendSize, Goto, Threads
<1>1. TypeOK'
  BY DEF TypeOK, ProducerAt, WorkerAt
<1>2. MutualExclusion'
  BY DEF MutualExclusion, InSection, TypeOK
<1>3. WakeAccounting'
  <2>1. Posting' = Posting /\ Woken' = Woken
    BY DEF Posting, Woken, TypeOK
  <2> QED
    BY <2>1 DEF WakeAccounting
<1>4. (HoldsArgument /\ HoldsFront /\ RunsNonNull /\ SawRoom)'
  BY DEF HoldsArgument, HoldsFront, RunsNonNull, SawRoom, Full, TypeOK
<1>5. QueueBound'
  BY DEF QueueBound
<1> QED
  BY <1>1, <1>2, <1>3, <1>4, <1>5

LEMMA AppendRefuseStep ==
    ASSUME IInv, NEW p \in Producers, AppendRefuse(p)
    PROVE  IInv'
<1> USE PoolAssumption DEF IInv, AppendRefuse, Unlock, Goto, Threads
<1>1. TypeOK'
  BY DEF TypeOK, ProducerAt, WorkerAt
<1>2. MutualExclusion'
  BY DEF MutualExclusion, InSection, TypeOK
<1>3. WakeAccounting'
  <2>1. Posting' = Posting /\ Woken' = Woken
    BY DEF Posting, Woken, TypeOK
  <2> QED
    BY <2>1 DEF WakeAccounting
<1>4. (HoldsArgument /\ HoldsFront /\ RunsNonNull /\ SawRoom)'
  BY DEF HoldsArgument, HoldsFront, RunsNonNull, SawRoom, Full, TypeOK
<1>5. QueueBound'
  BY DEF QueueBound
<1> QED
  BY <1>1, <1>2, <1>3, <1>4, <1>5

(***************************************************************************)
(* The push is the only step that makes the queue longer: the room seen by *)
(* the size test is still there, because no other thread is in the section.*)
(***************************************************************************)
LEMMA AppendPushStep ==
    ASSUME IInv, NEW p \in Producers, AppendPush(p)
    PROVE  IInv'
<1> USE PoolAssumption DEF IInv, AppendPush, Unlock, Goto, Threads
<1>0. req[p] \in Requests /\ Len(queue') = Len(queue) + 1
  BY DEF HoldsArgument, TypeOK
<1>1. TypeOK'
  BY <1>0 DEF TypeOK, ProducerAt, WorkerAt
<1>2. MutualExclusion'
  BY DEF MutualExclusion, InSection, TypeOK
<1>3. WakeAccounting'
  <2>1. Posting' = Posting \cup {p} /\ p \notin Posting /\ Woken' = Woken
    BY DEF Posting, Woken, TypeOK
  <2>2. Cardinality(Posting') = Cardinality(Posting) + 1
    BY <2>1, CountedSetsFinite, FS_AddElement
  <2>3. stat \in Nat /\ Len(queue) \in Nat /\ stat' = stat
    BY DEF TypeOK
  <2> QED
    BY <1>0, <2>1, <2>2, <2>3, CountedSetsFinite DEF WakeAccounting
<1>4. (HoldsArgument /\ RunsNonNull)'
  BY DEF HoldsArgument, RunsNonNull, TypeOK
<1>5. (HoldsFront /\ SawRoom)'
  <2>1. \A t \in Threads \ {p} : pc[t] \notin InSection
    BY DEF MutualExclusion, InSection
  <2> QED
    BY <2>1 DEF HoldsFront, SawRoom, InSection, TypeOK
<1>6. QueueBound'
  BY <1>0, PoolAssumption DEF QueueBound, Capacity, SawRoom, Full, TypeOK
<1> QED
  BY <1>1, <1>2, <1>3, <1>4, <1>5, <1>6

LEMMA AppendPostStep ==
    ASSUME IInv, NEW p \in Producers, AppendPost(p)
    PROVE  IInv'
<1> USE PoolAssumption DEF IInv, AppendPost, Goto, Threads
<1>1. TypeOK'
  BY DEF TypeOK, ProducerAt, WorkerAt
<1>2. MutualExclusion'
  BY DEF MutualExclusion, InSection, TypeOK
<1>3. WakeAccounting'
  <2>1. Posting' = Posting \ {p} /\ p \in Posting /\ Woken' = Woken
    BY DEF Posting, Woken, TypeOK
  <2>2. Cardinality(Posting') = Cardinality(Posting) - 1
    BY <2>1, CountedSetsFinite, FS_RemoveElement
  <2>3. stat \in Nat /\ stat' = stat + 1 /\ queue' = queue
    BY DEF TypeOK
  <2> QED
    BY <2>1, <2>2, <2>3, CountedSetsFinite DEF WakeAccounting
<1>4. (HoldsArgument /\ HoldsFront /\ RunsNonNull /\ SawRoom)'
  BY DEF HoldsArgument, HoldsFront, RunsNonNull, SawRoom, Full, TypeOK
<1>5. QueueBound'
  BY DEF QueueBound
<1> QED
  BY <1>1, <1>2, <1>3, <1>4, <1>5
-----------------------------------------------------------------------------
(***************************************************************************)
(* Workers                                                                 *)
(***************************************************************************)
LEMMA RunWhileStep ==
    ASSUME IInv, NEW w \in Workers, RunWhile(w)
    PROVE  IInv'
<1> USE PoolAssumption DEF IInv, RunWhile, Goto, Threads
<1>1. TypeOK'
  BY DEF TypeOK, ProducerAt, WorkerAt
<1>2. MutualExclusion'
  BY DEF MutualExclusion, InSection, TypeOK
<1>3. WakeAccounting'
  <2>1. Posting' = Posting /\ Woken' = Woken
    BY DEF Posting, Woken, TypeOK
  <2> QED
    BY <2>1 DEF WakeAccounting
<1>4. (HoldsArgument /\ HoldsFront /\ RunsNonNull /\ SawRoom)'
  BY DEF HoldsArgument, HoldsFront, RunsNonNull, SawRoom, Full, TypeOK
<1>5. QueueBound'
  BY DEF QueueBound, TypeOK
<1> QED
  BY <1>1, <1>2, <1>3, <1>4, <1>5

LEMMA RunWaitStep ==
    ASSUME IInv, NEW w \in Workers, RunWait(w)
    PROVE  IInv'
<1> USE PoolAssumption DEF IInv, RunWait, Goto, Threads
<1>1. TypeOK'
  BY DEF TypeOK, ProducerAt, WorkerAt
<1>2. MutualExclusion'
  BY DEF MutualExclusion, InSection, TypeOK
<1>3. WakeAccounting'
  <2>1. Posting' = Posting /\ Woken' = Woken \cup {w} /\ w \notin Woken
    BY DEF Posting, Woken, TypeOK
  <2>2. Cardinality(Woken') = Cardinality(Woken) + 1
    BY <2>1, CountedSetsFinite, FS_AddElement
  <2>3. stat \in Nat /\ stat' = stat - 1 /\ queue' = queue
    BY DEF TypeOK
  <2> QED
    BY <2>1, <2>2, <2>3, CountedSetsFinite DEF WakeAccounting
<1>4. (HoldsArgument /\ HoldsFront /\ RunsNonNull /\ SawRoom)'
  BY DEF HoldsArgument, HoldsFront, RunsNonNull, SawRoom, Full, TypeOK
<1>5. QueueBound'
  BY DEF QueueBound, TypeOK
<1> QED
  BY <1>1, <1>2, <1>3, <1>4, <1>5

LEMMA RunLockStep ==
    ASSUME IInv, NEW w \in Workers, RunLock(w)
    PROVE  IInv'
<1> USE PoolAssumption DEF IInv, RunLock, Lock, Goto, Threads
<1>1. TypeOK'
  BY DEF TypeOK, ProducerAt, WorkerAt
<1>2. MutualExclusion'
  BY DEF MutualExclusion, InSection, TypeOK
<1>3. WakeAccounting'
  <2>1. Posting' = Posting /\ Woken' = Woken
    BY DEF Posting, Woken, TypeOK
  <2> QED
    BY <2>1 DEF WakeAccounting
<1>4. (HoldsArgument /\ HoldsFront /\ RunsNonNull /\ SawRoom)'
  BY DEF HoldsArgument, HoldsFront, RunsNonNull, SawRoom, Full, TypeOK
<1>5. QueueBound'
  BY DEF QueueBound, TypeOK
<1> QED
  BY <1>1, <1>2, <1>3, <1>4, <1>5

(***************************************************************************)
(* The early return for an empty queue is unreachable: the worker was      *)
(* counted among the woken ones.                                           *)
(***************************************************************************)
LEMMA RunEmptyStep ==
    ASSUME IInv, NEW w \in Workers, RunEmpty(w)
    PROVE  IInv'
<1> USE PoolAssumption DEF IInv, RunEmpty, Goto, Threads
<1>0. queue # <<>>
  <2>1. w \in Woken
    BY DEF Woken
  <2> QED
    BY <2>1, WokenNonEmpty
<1>1. TypeOK'
  BY <1>0 DEF TypeOK, ProducerAt, WorkerAt
<1>2. MutualExclusion'
  BY <1>0 DEF MutualExclusion, InSection, TypeOK
<1>3. WakeAccounting'
  <2>1. Posting' = Posting /\ Woken' = Woken
    BY <1>0 DEF Posting, Woken, TypeOK
  <2> QED
    BY <2>1 DEF WakeAccounting
<1>4. (HoldsArgument /\ HoldsFront /\ RunsNonNull /\ SawRoom)'
  BY <1>0 DEF HoldsArgument, HoldsFront, RunsNonNull, SawRoom, Full, TypeOK
<1>5. QueueBound'
  BY <1>0 DEF QueueBound, TypeOK
<1> QED
  BY <1>1, <1>2, <1>3, <1>4, <1>5

LEMMA RunFrontStep ==
    ASSUME IInv, NEW w \in Workers, RunFront(w)
    PROVE  IInv'
<1> USE PoolAssumption DEF IInv, RunFront, Goto, Threads
<1>0. queue # <<>> /\ Head(queue) \in Requests
  <2>1. w \in Woken
    BY DEF Woken
  <2> QED
    BY <2>1, WokenNonEmpty DEF TypeOK
<1>1. TypeOK'
  BY <1>0 DEF TypeOK, ProducerAt, WorkerAt
<1>2. MutualExclusion'
  BY <1>0 DEF MutualExclusion, InSection, TypeOK
<1>3. WakeAccounting'
  <2>1. Posting' = Posting /\ Woken' = Woken
    BY DEF Posting, Woken, TypeOK
  <2> QED
    BY <2>1 DEF WakeAccounting
<1>4. (HoldsArgument /\ HoldsFront /\ RunsNonNull /\ SawRoom)'
  BY DEF HoldsArgument, HoldsFront, RunsNonNull, SawRoom, Full, TypeOK
<1>5. QueueBound'
  BY <1>0 DEF QueueBound, TypeOK
<1> QED
  BY <1>1, <1>2, <1>3, <1>4, <1>5

(***************************************************************************)
(* The pop removes the request the worker read: nobody else is in the      *)
(* section.                                                                *)
(***************************************************************************)
LEMMA RunPopStep ==
    ASSUME IInv, NEW w \in Workers, RunPop(w)
    PROVE  IInv'
<1> USE PoolAssumption DEF IInv, RunPop, Unlock, Goto, Threads
<1>0. /\ queue # <<>> /\ Tail(queue) \in Seq(Requests)
      /\ Len(queue') = Len(queue) - 1
  <2>1. w \in Woken
    BY DEF Woken
  <2> QED
    BY <2>1, WokenNonEmpty DEF TypeOK
<1>1. TypeOK'
  BY <1>0 DEF TypeOK, ProducerAt, WorkerAt
<1>2. MutualExclusion'
  BY <1>0 DEF MutualExclusion, InSection, TypeOK
<1>3. WakeAccounting'
  <2>1. Posting' = Posting /\ Woken' = Woken \ {w} /\ w \in Woken
    BY DEF Posting, Woken, TypeOK
  <2>2. Cardinality(Woken') = Cardinality(Woken) - 1
    BY <2>1, CountedSetsFinite, FS_RemoveElement
  <2>3. stat \in Nat /\ stat' = stat /\ Len(queue) \in Nat
    BY DEF TypeOK
  <2> QED
    BY <1>0, <2>1, <2>2, <2>3, CountedSetsFinite DEF WakeAccounting
<1>4. (HoldsArgument /\ HoldsFront /\ RunsNonNull /\ SawRoom)'
  <2>1. \A t \in Threads \ {w} : pc[t] \notin InSection
    BY DEF MutualExclusion, InSection
  <2> QED
    BY <2>1 DEF HoldsArgument, HoldsFront, RunsNonNull, SawRoom, InSection,
                TypeOK
<1>5. QueueBound'
  BY <1>0, PoolAssumption DEF QueueBound, Capacity, TypeOK
<1> QED
  BY <1>1, <1>2, <1>3, <1>4, <1>5

LEMMA RunProcessStep ==
    ASSUME IInv, NEW w \in Workers, RunProcess(w)
    PROVE  IInv'
<1> USE PoolAssumption DEF IInv, RunProcess, Goto, Threads
<1>1. TypeOK'
  BY DEF TypeOK, ProducerAt, WorkerAt
<1>2. MutualExclusion'
  BY DEF MutualExclusion, InSection, TypeOK
<1>3. WakeAccounting'
  <2>1. Posting' = Posting /\ Woken' = Woken
    BY DEF Posting, Woken, TypeOK
  <2> QED
    BY <2>1 DEF WakeAccounting
<1>4. (HoldsArgument /\ HoldsFront /\ RunsNonNull /\ SawRoom)'
  BY DEF HoldsArgument, HoldsFront, RunsNonNull, SawRoom, Full, TypeOK
<1>5. QueueBound'
  BY DEF QueueBound, TypeOK
<1> QED
  BY <1>1, <1>2, <1>3, <1>4, <1>5

-----------------------------------------------------------------------------
LEMMA NextIInv == IInv /\ [Next]_vars => IInv'
<1> SUFFICES ASSUME IInv, [Next]_vars PROVE IInv'
  OBVIOUS
<1>1. ASSUME NEW p \in Producers, NEW r \in Requests, AppendLock(p, r)
      PROVE  IInv'
  BY <1>1, AppendLockStep
<1>2. ASSUME NEW p \in Producers, ProducerStep(p)
      PROVE  IInv'
  BY <1>2, AppendSizeStep, AppendRefuseStep, AppendPushStep, AppendPostStep
     DEF ProducerStep
<1>3. ASSUME NEW w \in Workers, WorkerStep(w)
      PROVE  IInv'
  BY <1>3, RunWhileStep, RunWaitStep, RunLockStep, RunEmptyStep, RunFrontStep,
     RunPopStep, RunProcessStep DEF WorkerStep
<1>4. CASE DestroyBody \/ DestroyMembers \/ UNCHANGED vars
  BY <1>4 DEF DestroyBody, DestroyMembers, vars, IInv, TypeOK,
     MutualExclusion, WakeAccounting, Posting, Woken, HoldsArgument,
     HoldsFront, RunsNonNull, SawRoom, Full, QueueBound
<1> QED
  BY <1>1, <1>2, <1>3, <1>4 DEF Next

(***************************************************************************)
(* The invariant holds in every reachable state.                           *)
(***************************************************************************)
THEOREM Invariance == Spec => []IInv
<1> QED
  BY InitIInv, NextIInv, PTL DEF Spec

(***************************************************************************)
(* Type correctness: run() never reads the front of an empty queue, and    *)
(* the semaphore never goes below zero.                                    *)
(***************************************************************************)
THEOREM TypeCorrect == Spec => []TypeOK
<1>1. IInv => TypeOK
  BY DEF IInv
<1> QED
  BY <1>1, Invariance, PTL

(***************************************************************************)
(* The queue is only touched by the owner of _queue_lock.                  *)
(***************************************************************************)
THEOREM QueueIsGuarded == Spec => []MutualExclusion
<1>1. IInv => MutualExclusion
  BY DEF IInv
<1> QED
  BY <1>1, Invariance, PTL

(***************************************************************************)
(* Semaphore, posts outstanding and workers woken add up to the queue.     *)
(***************************************************************************)
THEOREM NoWakeupLost == Spec => []WakeAccounting
<1>1. IInv => WakeAccounting
  BY DEF IInv
<1> QED
  BY <1>1, Invariance, PTL

(***************************************************************************)
(* The `_queue.empty()' return of run() is dead code.                      *)
(***************************************************************************)
THEOREM NoSpuriousWakeup == Spec => []WokenFindsWork
<1>1. IInv => WokenFindsWork
  BY WokenNonEmpty DEF IInv, WokenFindsWork, Woken
<1> QED
  BY <1>1, Invariance, PTL

(***************************************************************************)
(* At most _max_request + 1 requests wait.                                 *)
(***************************************************************************)
THEOREM QueueIsBounded == Spec => []QueueBound
<1>1. IInv => QueueBound
  BY DEF IInv
<1> QED
  BY <1>1, Invariance, PTL

-----------------------------------------------------------------------------
(***************************************************************************)
(* Refinement: append takes effect at the push, a worker takes a request   *)
(* at the pop, every other step of the pool is invisible to its users.     *)
(***************************************************************************)
LEMMA InitRefines == Init => WQ!Init
BY PoolAssumption DEF Init, WQ!Init, Running, Threads

LEMMA StepRefines ==
    IInv /\ [Next]_vars => [WQ!Next]_<<queue, Running>>
<1> SUFFICES ASSUME IInv, [Next]_vars PROVE [WQ!Next]_<<queue, Running>>
  OBVIOUS
<1> USE PoolAssumption DEF IInv, TypeOK, Threads, Goto
<1>1. ASSUME NEW p \in Producers, NEW r \in Requests, AppendLock(p, r)
      PROVE  UNCHANGED <<queue, Running>>
  BY <1>1 DEF AppendLock, Running
<1>2. ASSUME NEW p \in Producers,
             AppendSize(p) \/ AppendRefuse(p) \/ AppendPost(p)
      PROVE  UNCHANGED <<queue, Running>>
  BY <1>2 DEF AppendSize, AppendRefuse, AppendPost, Running
<1>3. ASSUME NEW p \in Producers, AppendPush(p)
      PROVE  WQ!Append1(req[p]) /\ req[p] \in Requests
  <2>1. Running' = Running
    BY <1>3 DEF AppendPush, Running
  <2>2. req[p] \in Requests /\ Len(queue) <= MaxRequest
    BY <1>3 DEF AppendPush, HoldsArgument, SawRoom, Full
  <2>3. Len(queue) < Capacity
    BY <2>2, PoolAssumption DEF Capacity, TypeOK
  <2> QED
    BY <1>3, <2>1, <2>2, <2>3 DEF AppendPush, WQ!Append1, WQ!HasRoom
<1>4. ASSUME NEW w \in Workers,
             \/ RunWhile(w) \/ RunWait(w) \/ RunLock(w)
             \/ RunEmpty(w) \/ RunFront(w)
      PROVE  UNCHANGED <<queue, Running>>
  BY <1>4 DEF RunWhile, RunWait, RunLock, RunEmpty, RunFront, Running
<1>5. ASSUME NEW w \in Workers, RunPop(w)
      PROVE  WQ!Take(w)
  <2>1. queue # <<>> /\ req[w] = Head(queue)
    <3>1. w \in Woken
      BY <1>5 DEF RunPop, Woken
    <3> QED
      BY <1>5, <3>1, WokenNonEmpty DEF RunPop, HoldsFront
  <2>2. Running[w] = NULL
    BY <1>5 DEF RunPop, Running
  <2>3. Running' = [Running EXCEPT ![w] = Head(queue)]
    BY <1>5, <2>1 DEF RunPop, Running
  <2> QED
    BY <1>5, <2>1, <2>2, <2>3 DEF RunPop, WQ!Take
<1>6. ASSUME NEW w \in Workers, RunProcess(w)
      PROVE  WQ!Finish(w)
  <2>1. Running[w] # NULL
    BY <1>6 DEF RunProcess, Running, RunsNonNull
  <2>2. Running' = [Running EXCEPT ![w] = NULL]
    BY <1>6 DEF RunProcess, Running
  <2> QED
    BY <1>6, <2>1, <2>2 DEF RunProcess, WQ!Finish
<1>7. CASE DestroyBody \/ DestroyMembers \/ UNCHANGED vars
  BY <1>7 DEF DestroyBody, DestroyMembers, vars, Running
<1> QED
  BY <1>1, <1>2, <1>3, <1>4, <1>5, <1>6, <1>7
     DEF Next, ProducerStep, WorkerStep, WQ!Next

(***************************************************************************)
(* thread_pool implements the bounded FIFO of WorkQueue: append is         *)
(* linearizable, and every request accepted is run by one worker, in order.*)
(***************************************************************************)
THEOREM PoolImplementsWorkQueue == Spec => ImplementsWorkQueue
<1> QED
  BY InitRefines, StepRefines, Invariance, PTL
     DEF Spec, ImplementsWorkQueue, WQ!Spec
=============================================================================
