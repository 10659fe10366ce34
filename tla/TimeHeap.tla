------------------------------ MODULE TimeHeap ------------------------------
(***************************************************************************)
(* min_heap_timer of 81_timer/main.cpp: a priority queue of timers, the    *)
(* one that expires first on top.  A deleted timer is marked only, and is  *)
(* thrown away when it comes to the top.                                   *)
(* The queue is a set here: of several that expire first, any may be on    *)
(* top, as the library has it.                                             *)
(***************************************************************************)
EXTENDS Integers

CONSTANTS
    Handles,    \* the timers there can be
    Lifetimes   \* the delays they are added with, in seconds

ASSUME HeapAssumption == Lifetimes \subseteq Nat

VARIABLES
    min_heap,           \* the timers in the queue
    expire, deleted,    \* the members of every mh_timer
    now,                \* time(NULL)
    heapFired           \* the timers the last operation has called back

heapVars == <<min_heap, expire, deleted, now, heapFired>>

Live == {t \in min_heap : ~deleted[t]}

HeapInit ==
    /\ min_heap = {}
    /\ expire = [t \in Handles |-> 0] /\ deleted = [t \in Handles |-> FALSE]
    /\ now = 0
    /\ heapFired = {}

\* The timer may come out of the queue before those in `rest`.
Before(t, rest) == \A u \in rest : expire[t] <= expire[u]

(***************************************************************************)
(* Throw away the deleted timers on top of `heap`: all that expire before  *)
(* every live one, and any of those that expire together with the first.   *)
(***************************************************************************)
Purged(heap, purged) ==
    LET live == {t \in heap : ~deleted[t]}
        marked == heap \ live
    IN  /\ purged \subseteq {t \in marked : Before(t, live)}
        /\ {t \in marked : \A u \in live : expire[t] < expire[u]} \subseteq purged

HeapAdd(t, delay) ==
    /\ t \in Handles \ min_heap
    /\ expire' = [expire EXCEPT ![t] = now + delay]
    /\ deleted' = [deleted EXCEPT ![t] = FALSE]
    /\ min_heap' = min_heap \cup {t}
    /\ heapFired' = {}
    /\ UNCHANGED now

HeapDel(t) ==
    /\ t \in min_heap
    /\ deleted' = [deleted EXCEPT ![t] = TRUE]
    /\ heapFired' = {}
    /\ UNCHANGED <<min_heap, expire, now>>

HeapTop ==
    /\ \E purged \in SUBSET min_heap : /\ Purged(min_heap, purged)
                                       /\ min_heap' = min_heap \ purged
    /\ heapFired' = {}
    /\ UNCHANGED <<expire, deleted, now>>

HeapPop(t) ==
    /\ t \in Live /\ Before(t, Live)
    /\ \E purged \in SUBSET min_heap :
          /\ Purged(min_heap, purged)
          /\ min_heap' = min_heap \ (purged \cup {t})
    /\ heapFired' = {}
    /\ UNCHANGED <<expire, deleted, now>>

\* mutant: deleted timers are called back as well
HeapTickAll ==
    LET due == {t \in min_heap : expire[t] <= now}
    IN  /\ heapFired' = due
        /\ \E purged \in SUBSET (min_heap \ due) :
              /\ Purged(min_heap \ due, purged)
              /\ min_heap' = (min_heap \ due) \ purged
        /\ UNCHANGED <<expire, deleted, now>>

HeapTick ==
    LET due == {t \in min_heap : expire[t] <= now}
    IN  /\ heapFired' = due \cap Live
        /\ \E purged \in SUBSET (min_heap \ due) :
              /\ Purged(min_heap \ due, purged)
              /\ min_heap' = (min_heap \ due) \ purged
        /\ UNCHANGED <<expire, deleted, now>>

Elapse ==
    /\ now' = now + 1
    /\ heapFired' = {}
    /\ UNCHANGED <<min_heap, expire, deleted>>

HeapNext == \/ \E t \in Handles : \/ \E delay \in Lifetimes : HeapAdd(t, delay)
                                 \/ HeapDel(t) \/ HeapPop(t)
            \/ HeapTop \/ HeapTick \/ Elapse

HeapSpec == HeapInit /\ [][HeapNext]_heapVars

-----------------------------------------------------------------------------
HeapLeft(t) == IF expire[t] > now THEN expire[t] - now ELSE 0

HeapService == INSTANCE TimerService
               WITH left <- [t \in Live |-> HeapLeft(t)], fired <- heapFired,
                    Timers <- Handles, Delays <- Lifetimes

(***************************************************************************)
(* The heap calls back the timers that have expired and are not deleted,   *)
(* however many deleted ones lie above or between them.                    *)
(***************************************************************************)
HeapImplements == HeapService!Spec
=============================================================================
