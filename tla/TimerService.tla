---------------------------- MODULE TimerService ----------------------------
(***************************************************************************)
(* What a container of timers promises (81_timer/main.cpp): a timer is     *)
(* called back by the first tick that finds it due, once, unless it is     *)
(* deleted before.                                                         *)
(***************************************************************************)
EXTENDS Naturals

CONSTANTS Timers, Delays

VARIABLES
    left,   \* for every pending timer, the time until it is due
    fired   \* the timers the last operation has called back

serviceVars == <<left, fired>>

Pending == DOMAIN left
Due     == {t \in Pending : left[t] = 0}

Init == left = [t \in {} |-> 0] /\ fired = {}

Set(t, delay) ==
    /\ t \in Timers \ Pending
    /\ left' = [u \in Pending \cup {t} |-> IF u = t THEN delay ELSE left[u]]
    /\ fired' = {}

Delete(t) ==
    /\ t \in Pending
    /\ left' = [u \in Pending \ {t} |-> left[u]]
    /\ fired' = {}

\* Time passes without a tick.
Pass ==
    /\ left' = [u \in Pending |-> IF left[u] = 0 THEN 0 ELSE left[u] - 1]
    /\ fired' = {}

\* The timers that are due are called back and the others come `step` nearer:
\* 1 where the ticks are the clock, 0 where they look at one.
Tick(step) ==
    /\ fired' = Due
    /\ left' = [u \in Pending \ Due |-> left[u] - step]

\* An operation that leaves the pending timers as they are.
Look == fired' = {} /\ UNCHANGED left

Next == \/ \E t \in Timers : Delete(t) \/ \E delay \in Delays : Set(t, delay)
        \/ \E step \in {0, 1} : Tick(step)
        \/ Pass
        \/ Look

Spec == Init /\ [][Next]_serviceVars
=============================================================================
