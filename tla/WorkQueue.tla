------------------------------ MODULE WorkQueue ------------------------------
(***************************************************************************)
(* What a user of thread_pool<T> (85_process_pool_thread_pool) relies on:  *)
(* a bounded FIFO of requests, each handed to exactly one worker.  Every   *)
(* operation is one atomic step here; ThreadPool.tla implements it with a  *)
(* mutex and a semaphore, and HttpServer.tla is built on top of it.        *)
(***************************************************************************)
EXTENDS Naturals, Sequences

CONSTANTS
    Workers,    \* the worker threads
    Requests,   \* the T* values callers may append
    Capacity,   \* how many requests can wait
    Nothing     \* what a worker with no request holds

VARIABLES
    waiting,    \* the requests appended and not yet taken, oldest first
    busy        \* the request each worker is running, or Nothing

Init == /\ waiting = <<>>
        /\ busy = [w \in Workers |-> Nothing]

(***************************************************************************)
(* append: accepted while fewer than Capacity requests are waiting.        *)
(***************************************************************************)
HasRoom == Len(waiting) < Capacity

Append1(r) == /\ HasRoom
              /\ waiting' = Append(waiting, r)
              /\ UNCHANGED busy

(***************************************************************************)
(* append returning false: nothing changes.                                *)
(***************************************************************************)
Refuse == /\ ~HasRoom
          /\ UNCHANGED <<waiting, busy>>

(***************************************************************************)
(* A free worker takes the oldest request.                                 *)
(***************************************************************************)
Take(w) == /\ busy[w] = Nothing
           /\ waiting # <<>>
           /\ busy' = [busy EXCEPT ![w] = Head(waiting)]
           /\ waiting' = Tail(waiting)

(***************************************************************************)
(* request->process() has returned.                                        *)
(***************************************************************************)
Finish(w) == /\ busy[w] # Nothing
             /\ busy' = [busy EXCEPT ![w] = Nothing]
             /\ UNCHANGED waiting

Next == \/ \E r \in Requests : Append1(r)
        \/ Refuse
        \/ \E w \in Workers : Take(w) \/ Finish(w)

Spec == Init /\ [][Next]_<<waiting, busy>>
=============================================================================
