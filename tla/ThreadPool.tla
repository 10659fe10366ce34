----------------------------- MODULE ThreadPool -----------------------------
(***************************************************************************)
(* thread_pool<T> of 85_process_pool_thread_pool/thread_pool.h with the    *)
(* mutex_lock and sem wrappers of locker.h: producers call append(),       *)
(* detached worker threads execute run(), the owner destroys the pool.     *)
(* Each step is one access to the shared state (queue, mutex, semaphore,   *)
(* _stop), so every interleaving the threads can produce is a behaviour.   *)
(***************************************************************************)
EXTENDS Naturals, Sequences, FiniteSets

CONSTANTS
    Producers,  \* the threads that call append()
    Workers,    \* the _thread_num threads created by the constructor
    Requests,   \* the T* arguments of append(); NULL may be one of them
    NULL,       \* the null pointer, also "the thread has no request in hand"
    MaxRequest, \* _max_request
    NoThread    \* owner of a mutex that is free

Threads == Producers \cup Workers

(***************************************************************************)
(* The constructor throws on thread_num <= 0 or max_request <= 0.          *)
(***************************************************************************)
ASSUME PoolAssumption ==
    /\ IsFiniteSet(Producers)
    /\ IsFiniteSet(Workers)
    /\ Workers # {}
    /\ Producers \cap Workers = {}
    /\ NoThread \notin Threads
    /\ MaxRequest \in Nat \ {0}

VARIABLES
    queue,  \* _queue
    owner,  \* the thread inside _queue_lock, or NoThread
    stat,   \* the value of the semaphore _queue_stat
    stop,   \* _stop
    alive,  \* FALSE once the members of the pool have been destroyed
    pc,     \* where each thread is
    req     \* the request a thread has in hand: append's argument, run's local

vars == <<queue, owner, stat, stop, alive, pc, req>>

ProducerAt == {"idle", "size", "push", "refuse", "post"}
WorkerAt   == {"while", "wait", "lock", "empty", "front", "pop", "process",
               "exited"}
InSection  == {"size", "push", "refuse", "empty", "front", "pop"}

TypeOK ==
    /\ queue \in Seq(Requests)
    /\ owner \in Threads \cup {NoThread}
    /\ stat \in Nat
    /\ stop \in BOOLEAN
    /\ alive \in BOOLEAN
    /\ pc \in [Threads -> ProducerAt \cup WorkerAt]
    /\ \A p \in Producers : pc[p] \in ProducerAt
    /\ \A w \in Workers : pc[w] \in WorkerAt
    /\ req \in [Threads -> Requests \cup {NULL}]

Init ==
    /\ queue = <<>>
    /\ owner = NoThread
    /\ stat = 0
    /\ stop = FALSE
    /\ alive = TRUE
    /\ pc = [t \in Threads |-> IF t \in Producers THEN "idle" ELSE "while"]
    /\ req = [t \in Threads |-> NULL]

Goto(t, l) == pc' = [pc EXCEPT ![t] = l]

(***************************************************************************)
(* _queue_lock.lock() and _queue_lock.unlock().                            *)
(***************************************************************************)
Lock(t)   == owner = NoThread /\ owner' = t
Unlock(t) == owner' = NoThread

-----------------------------------------------------------------------------
(***************************************************************************)
(* append(request)                                                         *)
(***************************************************************************)
AppendLock(p, r) ==
    /\ alive /\ ~stop
    /\ pc[p] = "idle"
    /\ Lock(p)
    /\ req' = [req EXCEPT ![p] = r]
    /\ Goto(p, "size")
    /\ UNCHANGED <<queue, stat, stop, alive>>

\* if (_queue.size() > _max_request)
Full == Len(queue) > MaxRequest

AppendSize(p) ==
    /\ pc[p] = "size"
    /\ Goto(p, IF Full THEN "refuse" ELSE "push")
    /\ UNCHANGED <<queue, owner, stat, stop, alive, req>>

\* mutant: the refused path falls through to the post
AppendRefusePosts(p) ==
    /\ pc[p] = "refuse"
    /\ Unlock(p)
    /\ Goto(p, "post")
    /\ UNCHANGED <<queue, stat, stop, alive, req>>

AppendRefuse(p) ==
    /\ pc[p] = "refuse"
    /\ Unlock(p)
    /\ req' = [req EXCEPT ![p] = NULL]
    /\ Goto(p, "idle")
    /\ UNCHANGED <<queue, stat, stop, alive>>

AppendPush(p) ==
    /\ pc[p] = "push"
    /\ queue' = Append(queue, req[p])
    /\ Unlock(p)
    /\ Goto(p, "post")
    /\ UNCHANGED <<stat, stop, alive, req>>

\* mutant: a binary semaphore, posts made while it is up are merged
AppendPostBinary(p) ==
    /\ pc[p] = "post"
    /\ stat' = 1
    /\ req' = [req EXCEPT ![p] = NULL]
    /\ Goto(p, "idle")
    /\ UNCHANGED <<queue, owner, stop, alive>>

\* _queue_stat.post(), after the mutex has been released
AppendPost(p) ==
    /\ pc[p] = "post"
    /\ stat' = stat + 1
    /\ req' = [req EXCEPT ![p] = NULL]
    /\ Goto(p, "idle")
    /\ UNCHANGED <<queue, owner, stop, alive>>

ProducerStep(p) == \/ AppendSize(p)
                   \/ AppendRefuse(p)
                   \/ AppendPush(p)
                   \/ AppendPost(p)

-----------------------------------------------------------------------------
(***************************************************************************)
(* worker() -> run()                                                       *)
(***************************************************************************)
RunWhile(w) ==
    /\ alive
    /\ pc[w] = "while"
    /\ Goto(w, IF stop THEN "exited" ELSE "wait")
    /\ UNCHANGED <<queue, owner, stat, stop, alive, req>>

\* mutant: passes the semaphore without taking it
RunWaitKeeps(w) ==
    /\ alive
    /\ pc[w] = "wait"
    /\ stat > 0
    /\ Goto(w, "lock")
    /\ UNCHANGED <<queue, owner, stat, stop, alive, req>>

RunWait(w) ==
    /\ alive
    /\ pc[w] = "wait"
    /\ stat > 0
    /\ stat' = stat - 1
    /\ Goto(w, "lock")
    /\ UNCHANGED <<queue, owner, stop, alive, req>>

RunLock(w) ==
    /\ alive
    /\ pc[w] = "lock"
    /\ Lock(w)
    /\ Goto(w, "empty")
    /\ UNCHANGED <<queue, stat, stop, alive, req>>

\* if (_queue.empty()) { unlock; continue; }
RunEmpty(w) ==
    /\ alive
    /\ pc[w] = "empty"
    /\ IF queue = <<>> THEN Unlock(w) /\ Goto(w, "while")
                       ELSE UNCHANGED owner /\ Goto(w, "front")
    /\ UNCHANGED <<queue, stat, stop, alive, req>>

\* mutant: takes the newest request
RunBack(w) ==
    /\ alive
    /\ pc[w] = "front"
    /\ req' = [req EXCEPT ![w] = queue[Len(queue)]]
    /\ Goto(w, "pop")
    /\ UNCHANGED <<queue, owner, stat, stop, alive>>

RunFront(w) ==
    /\ alive
    /\ pc[w] = "front"
    /\ req' = [req EXCEPT ![w] = Head(queue)]
    /\ Goto(w, "pop")
    /\ UNCHANGED <<queue, owner, stat, stop, alive>>

\* pop_front(), unlock(), and a null request goes straight round the loop
RunPop(w) ==
    /\ alive
    /\ pc[w] = "pop"
    /\ queue' = Tail(queue)
    /\ Unlock(w)
    /\ Goto(w, IF req[w] = NULL THEN "while" ELSE "process")
    /\ UNCHANGED <<stat, stop, alive, req>>

\* request->process() uses the request, not the pool
RunProcess(w) ==
    /\ pc[w] = "process"
    /\ req' = [req EXCEPT ![w] = NULL]
    /\ Goto(w, "while")
    /\ UNCHANGED <<queue, owner, stat, stop, alive>>

WorkerStep(w) == \/ RunWhile(w)
                 \/ RunWait(w)
                 \/ RunLock(w)
                 \/ RunEmpty(w)
                 \/ RunFront(w)
                 \/ RunPop(w)
                 \/ RunProcess(w)

-----------------------------------------------------------------------------
(***************************************************************************)
(* ~thread_pool(): the body sets _stop and wakes nobody; then the members  *)
(* go.  The owner destroys the pool when no append is in progress.  What a *)
(* worker does with a destroyed pool is undefined and ends the behaviour,  *)
(* so no step on the pool is taken after that.                             *)
(***************************************************************************)
DestroyBody ==
    /\ ~stop
    /\ \A p \in Producers : pc[p] = "idle"
    /\ stop' = TRUE
    /\ UNCHANGED <<queue, owner, stat, alive, pc, req>>

DestroyMembers ==
    /\ stop
    /\ alive
    /\ alive' = FALSE
    /\ UNCHANGED <<queue, owner, stat, stop, pc, req>>

Next ==
    \/ \E p \in Producers, r \in Requests : AppendLock(p, r)
    \/ \E p \in Producers : ProducerStep(p)
    \/ \E w \in Workers : WorkerStep(w)
    \/ DestroyBody
    \/ DestroyMembers

Spec == Init /\ [][Next]_vars

(***************************************************************************)
(* Every thread keeps running: a thread whose next statement does not      *)
(* block executes it, and process() returns.  A worker waiting for the     *)
(* mutex gets it if it is released again and again (strong fairness).      *)
(***************************************************************************)
Fairness ==
    /\ \A p \in Producers : WF_vars(ProducerStep(p))
    /\ \A w \in Workers : WF_vars(WorkerStep(w)) /\ SF_vars(RunLock(w))

FairSpec == Spec /\ Fairness
-----------------------------------------------------------------------------
(***************************************************************************)
(* Properties.                                                             *)
(***************************************************************************)
Posting == {p \in Producers : pc[p] = "post"}
Woken   == {w \in Workers : pc[w] \in {"lock", "empty", "front", "pop"}}

(***************************************************************************)
(* The mutex protects the queue: the thread that owns _queue_lock is the   *)
(* only one between lock() and unlock() in append or run (thread_pool.h    *)
(* lines 45-52 and 68-75), on every path including the early returns.      *)
(***************************************************************************)
MutualExclusion == \A t \in Threads : pc[t] \in InSection <=> owner = t

(***************************************************************************)
(* No wake-up is lost and none is spurious: every queued request is paid   *)
(* for by one unit of the semaphore, by a producer that has pushed and not *)
(* yet posted (line 53 runs outside the lock), or by a worker that has     *)
(* passed wait() and not yet popped.                                       *)
(***************************************************************************)
WakeAccounting ==
    Len(queue) = stat + Cardinality(Posting) + Cardinality(Woken)

(***************************************************************************)
(* A worker that was woken finds a request: with several workers racing    *)
(* for the lock, the early return of lines 69-72 is never taken.           *)
(***************************************************************************)
WokenFindsWork == \A w \in Workers : pc[w] = "empty" => queue # <<>>

(***************************************************************************)
(* The test of line 47 bounds the queue, whatever the number of threads    *)
(* appending at once, but by one more than _max_request.                   *)
(***************************************************************************)
Capacity == MaxRequest + 1

QueueBound == Len(queue) <= Capacity

(***************************************************************************)
(* What lines 10 and 85 say: _max_request is the largest number of         *)
(* requests the queue may hold.  It holds one more.                        *)
(***************************************************************************)
QueueWithinMax == Len(queue) <= MaxRequest

(***************************************************************************)
(* The pool is a FIFO of Capacity requests that hands each request to one  *)
(* worker: no request is lost, run twice, overtaken or invented.           *)
(***************************************************************************)
Running == [w \in Workers |-> IF pc[w] = "process" THEN req[w] ELSE NULL]

WQ == INSTANCE WorkQueue
          WITH waiting <- queue, busy <- Running, Nothing <- NULL

ImplementsWorkQueue == WQ!Spec

(***************************************************************************)
(* Every accepted request is eventually run, unless the pool is destroyed: *)
(* neither the post made outside the lock nor the race between workers     *)
(* leaves it in the queue.                                                 *)
(***************************************************************************)
Queued(r)  == \E i \in 1..Len(queue) : queue[i] = r
Started(r) == \E w \in Workers : pc[w] = "process" /\ req[w] = r

EveryRequestRuns ==
    \A r \in Requests \ {NULL} : Queued(r) ~> (Started(r) \/ stop)
=============================================================================
