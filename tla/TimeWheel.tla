----------------------------- MODULE TimeWheel ------------------------------
(***************************************************************************)
(* time_wheel of 81_timer/main.cpp: N slots, si seconds apart, of which    *)
(* one tick visits the current one.  A timer lies in the slot it is due    *)
(* in, with the number of turns the wheel has still to make before.        *)
(* The order of the timers in a slot, in which they are called back, is    *)
(* left out.                                                               *)
(***************************************************************************)
EXTENDS Integers

CONSTANTS
    Timers,     \* the timers there can be
    Timeouts,   \* the timeouts they are added with, in seconds
    N, si       \* slots of the wheel, seconds between two of them

ASSUME WheelAssumption == /\ N \in Nat \ {0} /\ si \in Nat \ {0}
                          /\ Timeouts \subseteq Nat

VARIABLES
    slots,      \* slots[s]: the timers in slot s
    time_slot, circle_num,  \* the members of every tw_timer
    cur_slot,
    wheelFired  \* the timers the last operation has called back

wheelVars == <<slots, time_slot, circle_num, cur_slot, wheelFired>>

Slots == 0..(N - 1)
OnWheel == {t \in Timers : \E s \in Slots : t \in slots[s]}

WheelInit ==
    /\ slots = [s \in Slots |-> {}]
    /\ time_slot = [t \in Timers |-> 0] /\ circle_num = [t \in Timers |-> 0]
    /\ cur_slot = 0
    /\ wheelFired = {}

\* mutant: one tick more
TickNumMore(timeout) == IF timeout < si THEN 1 ELSE (timeout \div si) + 1

\* After how many ticks a timer is due.
TickNum(timeout) == IF timeout < si THEN 1 ELSE timeout \div si

\* mutant: a whole turn counts as none
WheelAddShort(t, timeout) ==
    LET slot == (cur_slot + (TickNum(timeout) % N)) % N
    IN  /\ t \in Timers \ OnWheel
        /\ time_slot' = [time_slot EXCEPT ![t] = slot]
        /\ circle_num' = [circle_num EXCEPT ![t] = (TickNum(timeout) - 1) \div N]
        /\ slots' = [slots EXCEPT ![slot] = @ \cup {t}]
        /\ wheelFired' = {}
        /\ UNCHANGED cur_slot

WheelAdd(t, timeout) ==
    LET slot == (cur_slot + (TickNum(timeout) % N)) % N
    IN  /\ t \in Timers \ OnWheel
        /\ time_slot' = [time_slot EXCEPT ![t] = slot]
        /\ circle_num' = [circle_num EXCEPT ![t] = TickNum(timeout) \div N]
        /\ slots' = [slots EXCEPT ![slot] = @ \cup {t}]
        /\ wheelFired' = {}
        /\ UNCHANGED cur_slot

WheelDel(t) ==
    /\ t \in OnWheel
    /\ slots' = [slots EXCEPT ![time_slot[t]] = @ \ {t}]
    /\ wheelFired' = {}
    /\ UNCHANGED <<time_slot, circle_num, cur_slot>>

WheelTick ==
    /\ wheelFired' = {t \in slots[cur_slot] : circle_num[t] = 0}
    /\ circle_num' = [t \in Timers |->
                        IF t \in slots[cur_slot] /\ circle_num[t] > 0
                        THEN circle_num[t] - 1 ELSE circle_num[t]]
    /\ slots' = [slots EXCEPT ![cur_slot] = {t \in @ : circle_num[t] > 0}]
    /\ cur_slot' = (cur_slot + 1) % N
    /\ UNCHANGED time_slot

WheelNext == \/ \E t \in Timers : WheelDel(t) \/ \E d \in Timeouts : WheelAdd(t, d)
             \/ WheelTick

WheelSpec == WheelInit /\ [][WheelNext]_wheelVars

-----------------------------------------------------------------------------
\* How many ticks pass before the one that calls a timer back.
WheelLeft(t) ==
    LET ahead == time_slot[t] - cur_slot
    IN  circle_num[t] * N + (IF ahead < 0 THEN ahead + N ELSE ahead)

WheelService == INSTANCE TimerService
                WITH left <- [t \in OnWheel |-> WheelLeft(t)],
                     fired <- wheelFired,
                     Delays <- {TickNum(d) : d \in Timeouts}

(***************************************************************************)
(* The wheel calls every timer back at the tick its timeout stands for,    *)
(* neither a turn early nor a turn late, and no other.                     *)
(***************************************************************************)
WheelImplements == WheelService!Spec
=============================================================================
