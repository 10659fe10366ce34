----------------------------- MODULE TimerPair ------------------------------
(***************************************************************************)
(* The wheel and the heap of 81_timer/main.cpp given the same timers: every *)
(* operation is called on both, and both are told of every tick.           *)
(***************************************************************************)
EXTENDS TimeWheel, TimeHeap

CONSTANT MaxNow         \* when the run ends
ASSUME SameTimers == Handles = Timers /\ Lifetimes = Timeouts

VARIABLE ticked         \* the tick of this second has been made

timersVars == <<wheelVars, heapVars, ticked>>

TimersInit == WheelInit /\ HeapInit /\ ticked = TRUE

BothAdd == \E t \in Timers, d \in Timeouts :
    WheelAdd(t, d) /\ HeapAdd(t, d) /\ UNCHANGED ticked

\* The container that has called the timer back has no longer to delete it.
BothDel == \E t \in OnWheel \cup Live :
    /\ IF t \in OnWheel THEN WheelDel(t) ELSE UNCHANGED wheelVars
    /\ IF t \in Live THEN HeapDel(t) ELSE UNCHANGED heapVars
    /\ UNCHANGED ticked

BothPop == \E t \in Live :
    /\ HeapPop(t)
    /\ IF t \in OnWheel THEN WheelDel(t) ELSE UNCHANGED wheelVars
    /\ UNCHANGED ticked

\* Every si seconds there is a tick, before the next second begins.
BothTick == ~ticked /\ WheelTick /\ HeapTick /\ ticked' = TRUE
OneSecond == /\ ticked /\ now < MaxNow
             /\ Elapse /\ ticked' = (now' % si # 0) /\ UNCHANGED wheelVars

TopLook == HeapTop /\ UNCHANGED <<wheelVars, ticked>>

TimersNext == BothAdd \/ BothDel \/ BothPop \/ BothTick \/ OneSecond \/ TopLook

TimersSpec == TimersInit /\ [][TimersNext]_timersVars

-----------------------------------------------------------------------------
\* The seconds to the next tick.
NextTick == IF ticked THEN si - (now % si) ELSE 0

(***************************************************************************)
(* With a tick every si seconds the wheel and the heap agree: a timer that *)
(* only one of them has called back is called back by the other's next     *)
(* tick, whatever part of a tick its timeout is.                           *)
(***************************************************************************)
WithinOneTick ==
    /\ \A t \in OnWheel \ Live : WheelLeft(t) = 0
    /\ \A t \in Live \ OnWheel : HeapLeft(t) <= NextTick
=============================================================================
