--------------------------- MODULE Timers_proofs ---------------------------
(***************************************************************************)
(* The time wheel implements the timer service, for every number of slots, *)
(* every distance between them and all timeouts.  So does the heap of      *)
(* timers: marking a deleted timer and throwing it away later is the same, *)
(* to the user, as taking it out.  Side by side, they agree to a tick.     *)
(***************************************************************************)
EXTENDS TimerPair, TLAPS

(***************************************************************************)
(* Arithmetic of a circle of n slots.                                      *)
(***************************************************************************)
LEMMA ModSmall == ASSUME NEW n \in Nat \ {0}, NEW a \in 0..(n - 1) PROVE a % n = a
  BY SMTT(30)

LEMMA ModWrap == ASSUME NEW n \in Nat \ {0}, NEW a \in n..(2 * n - 1) PROVE a % n = a - n
  BY SMTT(30)

LEMMA DivMod == ASSUME NEW n \in Nat \ {0}, NEW a \in Nat
                PROVE  /\ a \div n \in Nat /\ a % n \in 0..(n - 1)
                       /\ (a \div n) * n + (a % n) = a
  BY SMTT(30)

LEMMA Turns == ASSUME NEW n \in Nat \ {0}, NEW c \in Nat
               PROVE  /\ c * n \in Nat /\ (c * n = 0 <=> c = 0)
                      /\ c > 0 => (c - 1) * n = c * n - n
  BY SMTT(30)

\* The distance from slot a to slot b, in ticks.
Ahead(a, b) == IF b - a < 0 THEN b - a + N ELSE b - a

\* Where the code's sum of a slot and a number of ticks ends is that far ahead.
LEMMA AheadOfSum ==
  ASSUME NEW cur \in Slots, NEW d \in Slots
  PROVE  /\ (cur + d) % N \in Slots
         /\ Ahead(cur, (cur + d) % N) = d
<1>1. CASE cur + d < N
  <2>1. (cur + d) % N = cur + d
    BY <1>1, ModSmall, WheelAssumption DEF Slots
  <2> QED  BY <1>1, <2>1, WheelAssumption DEF Ahead, Slots
<1>2. CASE cur + d >= N
  <2>1. (cur + d) % N = cur + d - N
    BY <1>2, ModWrap, WheelAssumption DEF Slots
  <2> QED  BY <1>2, <2>1, WheelAssumption DEF Ahead, Slots
<1> QED  BY <1>1, <1>2, WheelAssumption DEF Slots

\* One tick brings every slot but the current one nearer by one; that one
\* becomes the last.
LEMMA AheadAfterTick ==
  ASSUME NEW cur \in Slots, NEW s \in Slots
  PROVE  /\ (cur + 1) % N \in Slots
         /\ Ahead((cur + 1) % N, s) = IF s = cur THEN N - 1 ELSE Ahead(cur, s) - 1
<1>1. CASE cur + 1 < N
  <2>1. (cur + 1) % N = cur + 1
    BY <1>1, ModSmall, WheelAssumption DEF Slots
  <2> QED  BY <1>1, <2>1, WheelAssumption DEF Ahead, Slots
<1>2. CASE cur + 1 = N
  <2>1. (cur + 1) % N = 0
    BY <1>2, ModWrap, WheelAssumption DEF Slots
  <2> QED  BY <1>2, <2>1, WheelAssumption DEF Ahead, Slots
<1> QED  BY <1>1, <1>2, WheelAssumption DEF Slots

-----------------------------------------------------------------------------
(***************************************************************************)
(* A timer lies in the slot it remembers, and in no other.                 *)
(***************************************************************************)
WheelInv ==
  /\ slots \in [Slots -> SUBSET Timers]
  /\ time_slot \in [Timers -> Slots] /\ circle_num \in [Timers -> Nat]
  /\ cur_slot \in Slots
  /\ \A s \in Slots : \A t \in slots[s] : time_slot[t] = s

LEMMA OnWheelSlot ==
  ASSUME WheelInv, NEW t \in Timers
  PROVE  t \in OnWheel <=> t \in slots[time_slot[t]]
  BY DEF WheelInv, OnWheel

LEMMA WheelLeftAhead ==
  ASSUME WheelInv, NEW t \in Timers
  PROVE  /\ WheelLeft(t) = circle_num[t] * N + Ahead(cur_slot, time_slot[t])
         /\ Ahead(cur_slot, time_slot[t]) \in 0..(N - 1)
         /\ WheelLeft(t) \in Nat
         /\ WheelLeft(t) = 0 <=> circle_num[t] = 0 /\ time_slot[t] = cur_slot
<1>1. WheelLeft(t) = circle_num[t] * N + Ahead(cur_slot, time_slot[t])
  BY DEF WheelLeft, Ahead
<1>2. /\ Ahead(cur_slot, time_slot[t]) \in 0..(N - 1)
      /\ Ahead(cur_slot, time_slot[t]) = 0 <=> time_slot[t] = cur_slot
  BY WheelAssumption DEF WheelInv, Slots, Ahead
<1>3. /\ circle_num[t] * N \in Nat
      /\ circle_num[t] * N = 0 <=> circle_num[t] = 0
  BY Turns, WheelAssumption DEF WheelInv
<1> HIDE DEF Ahead
<1> QED  BY <1>1, <1>2, <1>3, WheelAssumption

LEMMA TickNumNat == ASSUME NEW d \in Timeouts PROVE TickNum(d) \in Nat
  BY DivMod, WheelAssumption DEF TickNum

-----------------------------------------------------------------------------
\* What remains on the wheel, as the service sees it.
Left == [t \in OnWheel |-> WheelLeft(t)]

\* Where the wheel starts, the invariant holds and the service starts.
LEMMA WheelInitial == WheelInit => WheelInv /\ WheelService!Init
<1> SUFFICES ASSUME WheelInit PROVE WheelInv /\ WheelService!Init
  OBVIOUS
<1>1. WheelInv
  BY WheelAssumption DEF WheelInit, WheelInv, Slots
<1>2. OnWheel = {}
  BY DEF WheelInit, OnWheel
<1> QED  BY <1>1, <1>2 DEF WheelInit, WheelService!Init

\* Adding a timer sets it in the service.
LEMMA WheelAddStep ==
  ASSUME WheelInv, NEW t \in Timers, NEW d \in Timeouts, WheelAdd(t, d)
  PROVE  WheelInv' /\ WheelService!Set(t, TickNum(d))
<1> DEFINE slot == (cur_slot + (TickNum(d) % N)) % N
<1>1. /\ TickNum(d) % N \in Slots /\ TickNum(d) \div N \in Nat
      /\ (TickNum(d) \div N) * N + (TickNum(d) % N) = TickNum(d)
  BY TickNumNat, DivMod, WheelAssumption DEF Slots
<1>2. slot \in Slots /\ Ahead(cur_slot, slot) = TickNum(d) % N
  BY <1>1, AheadOfSum DEF WheelInv
<1>3. /\ t \notin OnWheel
      /\ time_slot' = [time_slot EXCEPT ![t] = slot]
      /\ circle_num' = [circle_num EXCEPT ![t] = TickNum(d) \div N]
      /\ slots' = [slots EXCEPT ![slot] = @ \cup {t}]
      /\ wheelFired' = {} /\ cur_slot' = cur_slot
  BY DEF WheelAdd
<1> HIDE DEF slot
<1>4. WheelInv'
  BY <1>1, <1>2, <1>3 DEF WheelInv, OnWheel
<1>5. OnWheel' = OnWheel \cup {t}
  BY <1>2, <1>3 DEF WheelInv, OnWheel
<1>6. WheelLeft(t)' = TickNum(d)
  BY <1>1, <1>2, <1>3, WheelAssumption DEF WheelInv, WheelLeft, Ahead
<1>7. \A u \in OnWheel : u # t /\ WheelLeft(u)' = WheelLeft(u)
  BY <1>3 DEF WheelInv, OnWheel, WheelLeft
<1>8. Left' = [u \in OnWheel \cup {t} |-> IF u = t THEN TickNum(d) ELSE Left[u]]
  BY <1>5, <1>6, <1>7 DEF Left
<1> QED  BY <1>3, <1>4, <1>8 DEF Left, WheelService!Set, WheelService!Pending

\* Deleting a timer deletes it in the service.
LEMMA WheelDelStep ==
  ASSUME WheelInv, NEW t \in Timers, WheelDel(t)
  PROVE  WheelInv' /\ WheelService!Delete(t)
<1>1. /\ t \in OnWheel
      /\ slots' = [slots EXCEPT ![time_slot[t]] = @ \ {t}]
      /\ wheelFired' = {}
      /\ UNCHANGED <<time_slot, circle_num, cur_slot>>
  BY DEF WheelDel
<1>2. WheelInv'
  BY <1>1 DEF WheelInv
<1>3. OnWheel' = OnWheel \ {t}
  BY <1>1 DEF WheelInv, OnWheel
<1>4. \A u \in Timers : WheelLeft(u)' = WheelLeft(u)
  BY <1>1 DEF WheelLeft
<1>5. OnWheel \subseteq Timers
  BY DEF OnWheel
<1>6. Left' = [u \in OnWheel \ {t} |-> Left[u]]
  BY <1>3, <1>4, <1>5 DEF Left
<1> QED  BY <1>1, <1>2, <1>6 DEF Left, WheelService!Delete, WheelService!Pending

\* A tick calls back the timers that are due and brings the others nearer.
LEMMA WheelTickStep ==
  ASSUME WheelInv, WheelTick
  PROVE  WheelInv' /\ WheelService!Tick(1)
<1> DEFINE due == {t \in slots[cur_slot] : circle_num[t] = 0}
<1>1. /\ wheelFired' = due
      /\ circle_num' = [t \in Timers |-> IF t \in slots[cur_slot] /\ circle_num[t] > 0
                                         THEN circle_num[t] - 1 ELSE circle_num[t]]
      /\ slots' = [slots EXCEPT ![cur_slot] = {t \in @ : circle_num[t] > 0}]
      /\ cur_slot' = (cur_slot + 1) % N
      /\ time_slot' = time_slot
  BY DEF WheelTick
<1>2. /\ cur_slot' \in Slots
      /\ \A s \in Slots : Ahead(cur_slot', s) = IF s = cur_slot THEN N - 1
                                                ELSE Ahead(cur_slot, s) - 1
  BY <1>1, AheadAfterTick DEF WheelInv
<1>3. WheelInv'
  <2>1. circle_num' \in [Timers -> Nat]
    BY <1>1 DEF WheelInv
  <2> QED  BY <1>1, <1>2, <2>1 DEF WheelInv
<1>4. OnWheel \subseteq Timers
  BY DEF OnWheel
<1>5. \A t \in OnWheel : t \in due <=> WheelLeft(t) = 0
  BY <1>4, OnWheelSlot, WheelLeftAhead DEF WheelInv
<1>6. due \subseteq OnWheel
  BY DEF WheelInv, OnWheel
<1>7. OnWheel' = OnWheel \ due
  BY <1>1 DEF WheelInv, OnWheel
<1>8. ASSUME NEW t \in OnWheel \ due PROVE WheelLeft(t)' = WheelLeft(t) - 1
  <2>1. t \in Timers /\ time_slot[t] \in Slots /\ circle_num[t] \in Nat
    BY <1>4 DEF WheelInv
  <2>2. WheelLeft(t)' = circle_num'[t] * N + Ahead(cur_slot', time_slot[t])
    BY <1>1 DEF WheelLeft, Ahead
  <2>3. WheelLeft(t) = circle_num[t] * N + Ahead(cur_slot, time_slot[t])
    BY <2>1, WheelLeftAhead
  <2>4. Ahead(cur_slot, time_slot[t]) \in 0..(N - 1)
    BY <2>1, WheelLeftAhead
  <2>5. CASE time_slot[t] = cur_slot
    <3>1. t \in slots[cur_slot] /\ circle_num[t] > 0
      BY <2>1, <2>5, OnWheelSlot DEF WheelInv
    <3>2. circle_num'[t] = circle_num[t] - 1 /\ Ahead(cur_slot', time_slot[t]) = N - 1
      BY <1>1, <1>2, <2>1, <2>5, <3>1
    <3>3. Ahead(cur_slot, time_slot[t]) = 0
      BY <2>5 DEF Ahead, WheelInv, Slots
    <3>4. /\ (circle_num[t] - 1) * N = circle_num[t] * N - N
          /\ circle_num[t] * N \in Nat
      BY <2>1, <3>1, Turns, WheelAssumption
    <3> HIDE DEF Ahead
    <3> QED  BY <2>2, <2>3, <3>2, <3>3, <3>4, WheelAssumption
  <2>6. CASE time_slot[t] # cur_slot
    <3>1. circle_num'[t] = circle_num[t]
      BY <1>1, <2>1, <2>6 DEF WheelInv
    <3>2. Ahead(cur_slot', time_slot[t]) = Ahead(cur_slot, time_slot[t]) - 1
      BY <1>2, <2>1, <2>6
    <3>3. circle_num[t] * N \in Nat
      BY <2>1, Turns, WheelAssumption
    <3> HIDE DEF Ahead
    <3> QED  BY <2>2, <2>3, <2>4, <3>1, <3>2, <3>3
  <2> QED  BY <2>5, <2>6
<1>9. WheelService!Due = due
  BY <1>5, <1>6 DEF Left, WheelService!Due, WheelService!Pending
<1>10. Left' = [u \in OnWheel \ due |-> Left[u] - 1]
  BY <1>7, <1>8 DEF Left
<1> QED  BY <1>1, <1>3, <1>9, <1>10 DEF Left, WheelService!Tick, WheelService!Pending

-----------------------------------------------------------------------------
(***************************************************************************)
(* The wheel calls every timer back at the tick its timeout stands for and *)
(* no other: WheelSpec implements TimerService, however many slots there   *)
(* are and however far apart.                                              *)
(***************************************************************************)
THEOREM WheelIsTimerService == WheelSpec => WheelImplements
<1>1. WheelInit => WheelInv /\ WheelService!Init
  BY WheelInitial
<1>2. WheelInv /\ [WheelNext]_wheelVars
        => WheelInv' /\ [WheelService!Next]_(WheelService!serviceVars)
  <2> SUFFICES ASSUME WheelInv, [WheelNext]_wheelVars
               PROVE  WheelInv' /\ [WheelService!Next]_(WheelService!serviceVars)
    OBVIOUS
  <2>1. ASSUME NEW t \in Timers, NEW d \in Timeouts, WheelAdd(t, d)
        PROVE  WheelInv' /\ WheelService!Next
    BY <2>1, WheelAddStep DEF WheelService!Next
  <2>2. ASSUME NEW t \in Timers, WheelDel(t) PROVE WheelInv' /\ WheelService!Next
    BY <2>2, WheelDelStep DEF WheelService!Next
  <2>3. CASE WheelTick
    BY <2>3, WheelTickStep DEF WheelService!Next
  <2>4. CASE UNCHANGED wheelVars
    BY <2>4 DEF wheelVars, WheelInv, WheelService!serviceVars, OnWheel, WheelLeft
  <2> QED  BY <2>1, <2>2, <2>3, <2>4 DEF WheelNext
<1> QED  BY <1>1, <1>2, PTL DEF WheelSpec, WheelImplements, WheelService!Spec

-----------------------------------------------------------------------------
(***************************************************************************)
(* The heap.                                                               *)
(***************************************************************************)
HeapInv ==
  /\ min_heap \subseteq Handles
  /\ expire \in [Handles -> Nat] /\ deleted \in [Handles -> BOOLEAN]
  /\ now \in Nat

\* What remains in the heap, as the service sees it.
HLeft == [t \in Live |-> HeapLeft(t)]

LEMMA LiveOfHeap == ASSUME HeapInv PROVE Live \subseteq min_heap /\ Live \subseteq Handles
  BY DEF HeapInv, Live

LEMMA HeapInitial == HeapInit => HeapInv /\ HeapService!Init
<1> SUFFICES ASSUME HeapInit PROVE HeapInv /\ HeapService!Init
  OBVIOUS
<1>1. HeapInv
  BY DEF HeapInit, HeapInv
<1>2. Live = {}
  BY DEF HeapInit, Live
<1> QED  BY <1>1, <1>2 DEF HeapInit, HeapService!Init

\* Adding a timer sets it in the service.
LEMMA HeapAddStep ==
  ASSUME HeapInv, NEW t \in Handles, NEW d \in Lifetimes, HeapAdd(t, d)
  PROVE  HeapInv' /\ HeapService!Set(t, d)
<1>1. /\ t \notin min_heap /\ min_heap' = min_heap \cup {t}
      /\ expire' = [expire EXCEPT ![t] = now + d]
      /\ deleted' = [deleted EXCEPT ![t] = FALSE]
      /\ heapFired' = {} /\ now' = now
  BY DEF HeapAdd
<1>2. d \in Nat
  BY HeapAssumption
<1>3. HeapInv'
  BY <1>1, <1>2 DEF HeapInv
<1>4. Live' = Live \cup {t}
  BY <1>1 DEF HeapInv, Live
<1>5. HeapLeft(t)' = d
  BY <1>1, <1>2 DEF HeapInv, HeapLeft
<1>6. \A u \in Live : u # t /\ HeapLeft(u)' = HeapLeft(u)
  BY <1>1 DEF HeapInv, HeapLeft, Live
<1>7. HLeft' = [u \in Live \cup {t} |-> IF u = t THEN d ELSE HLeft[u]]
  BY <1>4, <1>5, <1>6 DEF HLeft
<1> QED  BY <1>1, <1>3, <1>7, LiveOfHeap DEF HLeft, HeapService!Set, HeapService!Pending

\* Taking one live timer out deletes it in the service.
LEMMA OneLess ==
  ASSUME HeapInv, NEW t \in Live, Live' = Live \ {t}, heapFired' = {},
         UNCHANGED <<expire, now>>
  PROVE  HeapService!Delete(t)
<1>1. HLeft' = [u \in Live \ {t} |-> HLeft[u]]
  BY DEF HLeft, HeapLeft
<1> QED  BY <1>1 DEF HLeft, HeapService!Delete, HeapService!Pending

\* Nothing happens in the service when the live timers stay as they are.
LEMMA SameLive ==
  ASSUME Live' = Live, heapFired' = {}, UNCHANGED <<expire, now>>
  PROVE  HeapService!Look
<1>1. HLeft' = HLeft
  BY DEF HLeft, HeapLeft
<1> QED  BY <1>1 DEF HLeft, HeapService!Look

LEMMA HeapDelStep ==
  ASSUME HeapInv, NEW t \in Handles, HeapDel(t)
  PROVE  HeapInv' /\ (HeapService!Delete(t) \/ HeapService!Look)
<1>1. /\ t \in min_heap /\ deleted' = [deleted EXCEPT ![t] = TRUE]
      /\ heapFired' = {} /\ UNCHANGED <<min_heap, expire, now>>
  BY DEF HeapDel
<1>2. HeapInv'
  BY <1>1 DEF HeapInv
<1>3. Live' = Live \ {t}
  BY <1>1 DEF HeapInv, Live
<1>4. CASE t \in Live
  BY <1>1, <1>2, <1>3, <1>4, OneLess
<1>5. CASE t \notin Live
  <2>1. Live' = Live
    BY <1>3, <1>5
  <2> QED  BY <1>1, <1>2, <2>1, SameLive
<1> QED  BY <1>4, <1>5

\* Throwing deleted timers away leaves the live ones in the heap.
LEMMA PurgedAreMarked ==
  ASSUME NEW heap, NEW purged, Purged(heap, purged)
  PROVE  \A t \in purged : t \in heap /\ deleted[t]
  BY DEF Purged

LEMMA HeapTopStep == ASSUME HeapInv, HeapTop PROVE HeapInv' /\ HeapService!Look
<1>1. PICK purged \in SUBSET min_heap :
         Purged(min_heap, purged) /\ min_heap' = min_heap \ purged
  BY DEF HeapTop
<1>2. heapFired' = {} /\ UNCHANGED <<expire, deleted, now>>
  BY DEF HeapTop
<1>3. HeapInv'
  BY <1>1, <1>2 DEF HeapInv
<1>4. Live' = Live
  BY <1>1, <1>2, PurgedAreMarked DEF Live
<1> QED  BY <1>2, <1>3, <1>4, SameLive

LEMMA HeapPopStep ==
  ASSUME HeapInv, NEW t \in Handles, HeapPop(t)
  PROVE  HeapInv' /\ HeapService!Delete(t)
<1>1. PICK purged \in SUBSET min_heap :
         Purged(min_heap, purged) /\ min_heap' = min_heap \ (purged \cup {t})
  BY DEF HeapPop
<1>2. t \in Live /\ heapFired' = {} /\ UNCHANGED <<expire, deleted, now>>
  BY DEF HeapPop
<1>3. HeapInv'
  BY <1>1, <1>2 DEF HeapInv
<1>4. Live' = Live \ {t}
  BY <1>1, <1>2, PurgedAreMarked DEF Live
<1> QED  BY <1>2, <1>3, <1>4, OneLess

\* A tick calls back the live timers that have expired.
LEMMA HeapTickStep == ASSUME HeapInv, HeapTick PROVE HeapInv' /\ HeapService!Tick(0)
<1> DEFINE due == {t \in min_heap : expire[t] <= now}
<1>1. PICK purged \in SUBSET (min_heap \ due) :
         Purged(min_heap \ due, purged) /\ min_heap' = (min_heap \ due) \ purged
  BY DEF HeapTick
<1>2. heapFired' = due \cap Live /\ UNCHANGED <<expire, deleted, now>>
  BY DEF HeapTick
<1>3. HeapInv'
  BY <1>1, <1>2 DEF HeapInv
<1>4. Live' = Live \ due
  BY <1>1, <1>2, PurgedAreMarked DEF Live
<1>5. \A t \in Live : HeapLeft(t) \in Nat /\ (HeapLeft(t) = 0 <=> t \in due)
  BY LiveOfHeap DEF HeapInv, HeapLeft
<1>6. HeapService!Due = due \cap Live
  BY <1>5 DEF HLeft, HeapService!Due, HeapService!Pending
<1>7. \A t \in Live : HeapLeft(t)' = HeapLeft(t) - 0
  BY <1>2, <1>5 DEF HeapLeft
<1>8. HLeft' = [u \in Live \ (due \cap Live) |-> HLeft[u] - 0]
  BY <1>4, <1>7 DEF HLeft
<1> QED  BY <1>2, <1>3, <1>6, <1>8 DEF HLeft, HeapService!Tick, HeapService!Pending

LEMMA ElapseStep == ASSUME HeapInv, Elapse PROVE HeapInv' /\ HeapService!Pass
<1>1. now' = now + 1 /\ heapFired' = {} /\ UNCHANGED <<min_heap, expire, deleted>>
  BY DEF Elapse
<1>2. HeapInv' /\ Live' = Live
  BY <1>1 DEF HeapInv, Live
<1>3. \A t \in Live : HeapLeft(t)' = IF HeapLeft(t) = 0 THEN 0 ELSE HeapLeft(t) - 1
  BY <1>1, LiveOfHeap DEF HeapInv, HeapLeft
<1>4. HLeft' = [u \in Live |-> IF HLeft[u] = 0 THEN 0 ELSE HLeft[u] - 1]
  BY <1>2, <1>3 DEF HLeft
<1> QED  BY <1>1, <1>2, <1>4 DEF HLeft, HeapService!Pass, HeapService!Pending

-----------------------------------------------------------------------------
(***************************************************************************)
(* The heap calls back every timer that has expired and is not deleted, by *)
(* the first tick that finds it so, and no other: HeapSpec implements      *)
(* TimerService for all timers and delays.                                 *)
(***************************************************************************)
THEOREM HeapIsTimerService == HeapSpec => HeapImplements
<1>1. HeapInit => HeapInv /\ HeapService!Init
  BY HeapInitial
<1>2. HeapInv /\ [HeapNext]_heapVars
        => HeapInv' /\ [HeapService!Next]_(HeapService!serviceVars)
  <2> SUFFICES ASSUME HeapInv, [HeapNext]_heapVars
               PROVE  HeapInv' /\ [HeapService!Next]_(HeapService!serviceVars)
    OBVIOUS
  <2>1. ASSUME NEW t \in Handles, NEW d \in Lifetimes, HeapAdd(t, d)
        PROVE  HeapInv' /\ HeapService!Next
    BY <2>1, HeapAddStep DEF HeapService!Next
  <2>2. ASSUME NEW t \in Handles, HeapDel(t) PROVE HeapInv' /\ HeapService!Next
    BY <2>2, HeapDelStep DEF HeapService!Next
  <2>3. ASSUME NEW t \in Handles, HeapPop(t) PROVE HeapInv' /\ HeapService!Next
    BY <2>3, HeapPopStep DEF HeapService!Next
  <2>4. CASE HeapTop
    BY <2>4, HeapTopStep DEF HeapService!Next
  <2>5. CASE HeapTick
    BY <2>5, HeapTickStep DEF HeapService!Next
  <2>6. CASE Elapse
    BY <2>6, ElapseStep DEF HeapService!Next
  <2>7. CASE UNCHANGED heapVars
    BY <2>7 DEF heapVars, HeapInv, HeapService!serviceVars, Live, HeapLeft
  <2> QED  BY <2>1, <2>2, <2>3, <2>4, <2>5, <2>6, <2>7 DEF HeapNext
<1> QED  BY <1>1, <1>2, PTL DEF HeapSpec, HeapImplements, HeapService!Spec

-----------------------------------------------------------------------------
(***************************************************************************)
(* The wheel and the heap with the same timers.                            *)
(***************************************************************************)
\* The times of the next tick and of the one that calls a timer back.
NextAt == now + NextTick
WheelAt(t) == NextAt + WheelLeft(t) * si

Close(t) ==
    /\ t \in OnWheel \ Live => WheelLeft(t) = 0
    /\ t \in Live \ OnWheel => expire[t] <= NextAt
    /\ t \in OnWheel \cap Live =>
         /\ WheelAt(t) <= expire[t] + si \/ WheelAt(t) <= NextAt + si
         /\ expire[t] <= WheelAt(t) + si

PairInv ==
    /\ WheelInv /\ HeapInv
    /\ ticked \in BOOLEAN /\ (~ticked => now % si = 0)
    /\ \A t \in Timers : Close(t)

LEMMA NextMod == ASSUME NEW n \in Nat \ {0}, NEW a \in Nat
                 PROVE  (a + 1) % n = IF a % n = n - 1 THEN 0 ELSE (a % n) + 1
<1>1. PICK q \in Nat, r \in 0..(n - 1) : r = a % n /\ q * n + r = a
  BY DivMod
<1>2. PICK u \in Nat, s \in 0..(n - 1) : s = (a + 1) % n /\ u * n + s = a + 1
  <2>1. a + 1 \in Nat
    OBVIOUS
  <2> QED  BY <2>1, DivMod
<1>3. PICK k \in Int : k = u - q
  OBVIOUS
<1>4. k * n = r + 1 - s
  BY <1>1, <1>2, <1>3
<1>5. k = 0 \/ k = 1
  <2>1. k >= 2 => k * n >= 2 * n
    OBVIOUS
  <2>2. k <= -1 => k * n <= -n
    OBVIOUS
  <2> QED  BY <1>4, <2>1, <2>2
<1>6. k * n = IF k = 0 THEN 0 ELSE n
  BY <1>5
<1> QED  BY <1>1, <1>2, <1>4, <1>5, <1>6

\* A timer whose place, deadline and clock stay as they are stays close.
LEMMA CloseStays ==
  ASSUME PairInv, now' = now, ticked' = ticked, NEW t \in Timers,
         (t \in OnWheel)' <=> t \in OnWheel, (t \in Live)' <=> t \in Live,
         WheelLeft(t)' = WheelLeft(t), expire'[t] = expire[t]
  PROVE  Close(t)'
  BY DEF PairInv, Close, WheelAt, NextAt, NextTick

LEMMA Clock ==
  ASSUME PairInv
  PROVE  NextTick \in 0..si /\ NextAt \in Nat /\ now \in Nat /\ now <= NextAt
<1>1. now \in Nat /\ si \in Nat \ {0} /\ now % si \in 0..(si - 1)
  BY DivMod, WheelAssumption DEF PairInv, HeapInv
<1> QED  BY <1>1 DEF NextAt, NextTick, PairInv

LEMMA AddBoth == ASSUME PairInv, BothAdd PROVE PairInv'
<1>1. PICK t \in Timers, d \in Timeouts : WheelAdd(t, d) /\ HeapAdd(t, d) /\ ticked' = ticked
  BY DEF BothAdd
<1>2. t \in Handles /\ d \in Lifetimes
  BY SameTimers
<1>3. WheelInv /\ HeapInv
  BY DEF PairInv
<1>4. WheelInv' /\ WheelService!Set(t, TickNum(d))
  BY <1>1, <1>3, WheelAddStep
<1>5. /\ OnWheel' = OnWheel \cup {t} /\ WheelLeft(t)' = TickNum(d)
      /\ \A u \in OnWheel' \ {t} : WheelLeft(u)' = WheelLeft(u)
  <2>1. Left' = [u \in OnWheel \cup {t} |-> IF u = t THEN TickNum(d) ELSE Left[u]]
    BY <1>4 DEF WheelService!Set, WheelService!Pending, Left
  <2>2. OnWheel' = OnWheel \cup {t}
    BY <2>1 DEF Left
  <2>3. \A u \in OnWheel' : WheelLeft(u)' = IF u = t THEN TickNum(d) ELSE WheelLeft(u)
    BY <2>1, <2>2 DEF Left
  <2> QED  BY <2>2, <2>3
<1>6. /\ Live' = Live \cup {t} /\ now' = now
      /\ expire'[t] = now + d /\ \A u \in Handles \ {t} : expire'[u] = expire[u]
  BY <1>1, <1>2, <1>3 DEF HeapAdd, HeapInv, Live
<1>7. HeapInv'
  BY <1>1, <1>2, <1>3, HeapAddStep
<1>8. NextAt' = NextAt
  BY <1>1, <1>6 DEF NextAt, NextTick
<1>9. Close(t)'
  <2>1. d \in Nat /\ si \in Nat \ {0}
    BY WheelAssumption
  <2>2. /\ d < si => TickNum(d) * si = si
        /\ d >= si => TickNum(d) * si <= d /\ d <= TickNum(d) * si + si
    <3>1. d \div si \in Nat /\ d % si \in 0..(si - 1) /\ (d \div si) * si + (d % si) = d
      BY <2>1, DivMod
    <3>2. CASE d < si
      <4>1. TickNum(d) = 1
        BY <3>2 DEF TickNum
      <4> QED  BY <2>1, <3>2, <4>1
    <3>3. CASE ~(d < si)
      <4>1. TickNum(d) = d \div si
        BY <3>3 DEF TickNum
      <4>2. PICK q \in Int : q = (d \div si) * si
        BY <2>1, <3>1
      <4> QED  BY <2>1, <3>1, <3>3, <4>1, <4>2
    <3> QED  BY <3>2, <3>3
  <2>3. WheelAt(t)' = NextAt + TickNum(d) * si /\ TickNum(d) * si \in Nat
    <3>1. TickNum(d) * si \in Nat
      BY <2>1, TickNumNat, Turns
    <3> QED  BY <1>5, <1>8, <3>1 DEF WheelAt
  <2>4. NextAt \in Nat /\ now \in Nat /\ now <= NextAt /\ NextAt <= now + si
    BY <2>1, Clock DEF NextAt
  <2>5. PICK k \in Nat : k = TickNum(d) * si
    BY <2>3
  <2>6. /\ WheelAt(t)' <= now + d + si \/ WheelAt(t)' <= NextAt + si
        /\ now + d <= WheelAt(t)' + si
    BY <2>1, <2>2, <2>3, <2>4, <2>5
  <2> QED  BY <1>5, <1>6, <1>8, <2>6 DEF Close
<1>10. ASSUME NEW u \in Timers \ {t} PROVE Close(u)'
  <2>1. /\ (u \in OnWheel)' <=> u \in OnWheel
        /\ (u \in Live)' <=> u \in Live
        /\ expire'[u] = expire[u]
    BY <1>5, <1>6, SameTimers
  <2>2. CASE u \in OnWheel
    BY <1>1, <1>5, <1>6, <2>1, <2>2, CloseStays
  <2>3. CASE u \notin OnWheel
    BY <1>6, <1>8, <2>1, <2>3 DEF Close, PairInv
  <2> QED  BY <2>2, <2>3
<1>11. ticked' \in BOOLEAN /\ (~ticked' => now' % si = 0)
  BY <1>1, <1>6 DEF PairInv
<1> QED  BY <1>4, <1>7, <1>9, <1>10, <1>11 DEF PairInv

\* A deletion takes a timer from the container, or from none.
LEMMA WheelLess ==
  ASSUME PairInv, NEW t, IF t \in OnWheel THEN WheelDel(t) ELSE UNCHANGED wheelVars
  PROVE  /\ WheelInv' /\ OnWheel' = OnWheel \ {t}
         /\ \A u \in OnWheel' : WheelLeft(u)' = WheelLeft(u)
<1>1. WheelInv
  BY DEF PairInv
<1>2. CASE t \in OnWheel
  <2>1. t \in Timers /\ WheelDel(t)
    BY <1>2 DEF OnWheel
  <2>2. WheelInv' /\ WheelService!Delete(t)
    BY <1>1, <2>1, WheelDelStep
  <2>3. Left' = [u \in OnWheel \ {t} |-> Left[u]]
    BY <2>2 DEF WheelService!Delete, WheelService!Pending, Left
  <2>4. OnWheel' = OnWheel \ {t}
    BY <2>3 DEF Left
  <2>5. \A u \in OnWheel' : WheelLeft(u)' = WheelLeft(u)
    BY <2>3, <2>4 DEF Left
  <2> QED  BY <2>2, <2>4, <2>5
<1>3. CASE t \notin OnWheel
  <2>1. UNCHANGED wheelVars
    BY <1>3
  <2>2. WheelInv' /\ OnWheel' = OnWheel /\ \A u \in OnWheel' : WheelLeft(u)' = WheelLeft(u)
    BY <1>1, <2>1 DEF wheelVars, WheelInv, OnWheel, WheelLeft
  <2> QED  BY <1>3, <2>2
<1> QED  BY <1>2, <1>3

LEMMA LessBoth ==
  ASSUME PairInv, NEW t,
         IF t \in OnWheel THEN WheelDel(t) ELSE UNCHANGED wheelVars,
         HeapInv', Live' = Live \ {t}, UNCHANGED <<expire, now, ticked>>
  PROVE  PairInv'
<1>1. /\ WheelInv' /\ OnWheel' = OnWheel \ {t}
      /\ \A u \in OnWheel' : WheelLeft(u)' = WheelLeft(u)
  BY WheelLess
<1>2. NextAt' = NextAt
  BY DEF NextAt, NextTick
<1>3. ASSUME NEW u \in Timers PROVE Close(u)'
  <2>1. CASE u = t
    BY <1>1, <2>1 DEF Close
  <2>2. CASE u # t
    <3>1. (u \in OnWheel)' <=> u \in OnWheel
      BY <1>1, <2>2
    <3>2. (u \in Live)' <=> u \in Live
      BY <2>2
    <3>3. CASE u \in OnWheel
      BY <1>1, <3>1, <3>2, <3>3, CloseStays
    <3>4. CASE u \notin OnWheel
      BY <1>2, <3>1, <3>2, <3>4 DEF Close, PairInv
    <3> QED  BY <3>3, <3>4
  <2> QED  BY <2>1, <2>2
<1> QED  BY <1>1, <1>3 DEF PairInv

LEMMA DelBoth == ASSUME PairInv, BothDel PROVE PairInv'
<1>1. PICK t \in OnWheel \cup Live :
        /\ IF t \in OnWheel THEN WheelDel(t) ELSE UNCHANGED wheelVars
        /\ IF t \in Live THEN HeapDel(t) ELSE UNCHANGED heapVars
        /\ ticked' = ticked
  BY DEF BothDel
<1>2. HeapInv
  BY DEF PairInv
<1>3. HeapInv' /\ Live' = Live \ {t} /\ UNCHANGED <<expire, now>>
  <2>1. CASE t \in Live
    BY <1>1, <1>2, <2>1 DEF HeapDel, HeapInv, Live
  <2>2. CASE t \notin Live
    BY <1>1, <1>2, <2>2 DEF heapVars, HeapInv, Live
  <2> QED  BY <2>1, <2>2
<1> QED  BY <1>1, <1>3, LessBoth

LEMMA PopBoth == ASSUME PairInv, BothPop PROVE PairInv'
<1>1. PICK t \in Live : /\ HeapPop(t) /\ ticked' = ticked
                        /\ IF t \in OnWheel THEN WheelDel(t) ELSE UNCHANGED wheelVars
  BY DEF BothPop
<1>2. PICK purged \in SUBSET min_heap :
         Purged(min_heap, purged) /\ min_heap' = min_heap \ (purged \cup {t})
  BY <1>1 DEF HeapPop
<1>3. UNCHANGED <<expire, deleted, now>> /\ HeapInv
  BY <1>1 DEF HeapPop, PairInv
<1>4. HeapInv' /\ Live' = Live \ {t}
  BY <1>2, <1>3, PurgedAreMarked DEF HeapInv, Live
<1> QED  BY <1>1, <1>3, <1>4, LessBoth

\* One tick of both: what only one of them calls back is next for the other.
LEMMA TickBoth == ASSUME PairInv, BothTick PROVE PairInv'
<1>1. ~ticked /\ ticked' = TRUE /\ now % si = 0 /\ si \in Nat \ {0} /\ now \in Nat
  BY WheelAssumption DEF BothTick, PairInv, HeapInv
<1>2. WheelInv' /\ WheelService!Tick(1)
  BY WheelTickStep DEF BothTick, PairInv
<1>3. /\ OnWheel' = {t \in OnWheel : WheelLeft(t) # 0}
      /\ \A t \in OnWheel' : WheelLeft(t)' = WheelLeft(t) - 1
  <2>1. Left' = [u \in OnWheel \ {t \in OnWheel : Left[t] = 0} |-> Left[u] - 1]
    BY <1>2 DEF WheelService!Tick, WheelService!Due, WheelService!Pending, Left
  <2>2. OnWheel' = OnWheel \ {t \in OnWheel : Left[t] = 0}
    BY <2>1 DEF Left
  <2>3. OnWheel' = {t \in OnWheel : WheelLeft(t) # 0}
    BY <2>2 DEF Left
  <2>4. \A t \in OnWheel' : WheelLeft(t)' = WheelLeft(t) - 1
    BY <2>1, <2>2 DEF Left
  <2> QED  BY <2>3, <2>4
<1>4. HeapInv' /\ UNCHANGED <<expire, now>> /\ Live' = {t \in Live : ~(expire[t] <= now)}
  <2>1. PICK purged : /\ Purged({t \in min_heap : ~(expire[t] <= now)}, purged)
                      /\ min_heap' = {t \in min_heap : ~(expire[t] <= now)} \ purged
    <3>1. min_heap \ {t \in min_heap : expire[t] <= now} = {t \in min_heap : ~(expire[t] <= now)}
      OBVIOUS
    <3> QED  BY <3>1 DEF BothTick, HeapTick
  <2>2. UNCHANGED <<expire, deleted, now>> /\ HeapInv
    BY DEF BothTick, HeapTick, PairInv
  <2>3. HeapInv'
    BY <2>1, <2>2 DEF HeapInv
  <2>4. Live' = {t \in Live : ~(expire[t] <= now)}
    BY <2>1, <2>2, PurgedAreMarked DEF Live
  <2> QED  BY <2>2, <2>3, <2>4
<1>5. NextAt = now /\ NextAt' = now + si
  BY <1>1, <1>4 DEF NextAt, NextTick
<1>6. ASSUME NEW t \in Timers PROVE Close(t)'
  <2>1. /\ WheelLeft(t) \in Nat /\ expire[t] \in Nat /\ Close(t)
        /\ WheelAt(t) = now + WheelLeft(t) * si
    BY <1>5, WheelLeftAhead, SameTimers DEF PairInv, HeapInv, WheelAt
  <2>2. PICK k \in Nat : /\ k = WheelLeft(t) * si /\ k = 0 <=> WheelLeft(t) = 0
                         /\ WheelLeft(t) > 0 => (WheelLeft(t) - 1) * si = k - si
    BY <1>1, <2>1, Turns
  <2>3. CASE t \in OnWheel' \ Live'
    <3>1. t \in OnWheel /\ WheelLeft(t) # 0 /\ t \in Live /\ expire[t] <= now
      BY <1>3, <1>4, <2>1, <2>3 DEF Close
    <3>2. k <= si
      BY <1>1, <1>5, <2>1, <2>2, <3>1 DEF Close
    <3>3. WheelLeft(t) - 1 = 0
      <4>1. (WheelLeft(t) - 1) * si \in Nat /\ ((WheelLeft(t) - 1) * si = 0 <=> WheelLeft(t) - 1 = 0)
        BY <1>1, <2>1, <3>1, Turns
      <4>2. (WheelLeft(t) - 1) * si = k - si
        BY <2>1, <2>2, <3>1
      <4>3. k - si = 0
        BY <1>1, <2>2, <3>2, <4>1, <4>2
      <4> QED  BY <4>1, <4>2, <4>3
    <3> QED  BY <1>3, <2>3, <3>3 DEF Close
  <2>4. CASE t \in Live' \ OnWheel'
    <3>1. t \in Live /\ ~(expire[t] <= now)
      BY <1>4, <2>4
    <3>2. t \in OnWheel
      BY <1>5, <2>1, <3>1 DEF Close
    <3>3. WheelLeft(t) = 0
      BY <1>3, <2>4, <3>2
    <3>4. expire[t] <= now + si
      BY <1>1, <2>1, <2>2, <3>1, <3>2, <3>3 DEF Close
    <3> QED  BY <1>4, <1>5, <2>4, <3>4 DEF Close
  <2>5. CASE t \in OnWheel' \cap Live'
    <3>1. t \in OnWheel /\ t \in Live /\ WheelLeft(t) # 0 /\ WheelLeft(t)' = WheelLeft(t) - 1
      BY <1>3, <1>4, <2>5
    <3>2. WheelAt(t)' = WheelAt(t)
      <4>1. WheelAt(t)' = now + si + (WheelLeft(t) - 1) * si
        BY <1>5, <3>1 DEF WheelAt
      <4>2. (WheelLeft(t) - 1) * si = k - si
        BY <2>1, <2>2, <3>1
      <4> QED  BY <1>1, <2>1, <2>2, <4>1, <4>2
    <3>3. WheelAt(t) \in Int
      BY <1>1, <2>1, <2>2
    <3>4. /\ WheelAt(t) <= expire[t] + si \/ WheelAt(t) <= now + si
          /\ expire[t] <= WheelAt(t) + si
      BY <1>5, <2>1, <3>1 DEF Close
    <3> QED  BY <1>1, <1>4, <1>5, <2>1, <2>5, <3>2, <3>3, <3>4 DEF Close
  <2>6. CASE t \notin OnWheel' /\ t \notin Live'
    BY <2>6 DEF Close
  <2> QED  BY <2>3, <2>4, <2>5, <2>6
<1> QED  BY <1>1, <1>2, <1>4, <1>6 DEF PairInv

\* A second passes: the next tick comes nearer and stays where it is.
LEMMA SecondBoth == ASSUME PairInv, OneSecond PROVE PairInv'
<1>1. /\ ticked /\ now' = now + 1 /\ ticked' = (now' % si # 0)
      /\ UNCHANGED <<wheelVars, min_heap, expire, deleted>>
  BY DEF OneSecond, Elapse
<1>2. now \in Nat /\ si \in Nat \ {0} /\ WheelInv /\ HeapInv
  BY WheelAssumption DEF PairInv, HeapInv
<1>3. WheelInv' /\ HeapInv' /\ OnWheel' = OnWheel /\ Live' = Live
  BY <1>1, <1>2 DEF wheelVars, WheelInv, HeapInv, OnWheel, Live
<1>4. \A t \in Timers : WheelLeft(t)' = WheelLeft(t)
  BY <1>1 DEF wheelVars, WheelLeft
<1>5. NextAt' = NextAt
  <2>1. now % si \in 0..(si - 1) /\ now' % si = IF now % si = si - 1 THEN 0 ELSE (now % si) + 1
    BY <1>1, <1>2, DivMod, NextMod
  <2>2. NextTick = si - (now % si)
    BY <1>1 DEF NextTick
  <2>3. CASE now' % si = 0
    <3>1. NextTick' = 0
      BY <1>1, <2>3 DEF NextTick
    <3> QED  BY <1>1, <1>2, <2>1, <2>2, <2>3, <3>1 DEF NextAt
  <2>4. CASE now' % si # 0
    <3>1. NextTick' = si - (now' % si)
      BY <1>1, <2>4 DEF NextTick
    <3> QED  BY <1>1, <1>2, <2>1, <2>2, <2>4, <3>1 DEF NextAt
  <2> QED  BY <2>3, <2>4
<1>6. \A t \in Timers : Close(t)'
  BY <1>1, <1>3, <1>4, <1>5 DEF PairInv, Close, WheelAt
<1>7. ticked' \in BOOLEAN /\ (~ticked' => now' % si = 0)
  BY <1>1
<1> QED  BY <1>3, <1>6, <1>7 DEF PairInv

LEMMA LookBoth == ASSUME PairInv, TopLook \/ UNCHANGED timersVars PROVE PairInv'
<1>1. UNCHANGED <<wheelVars, expire, deleted, now, ticked>>
  BY DEF TopLook, HeapTop, timersVars, heapVars
<1>2. HeapInv' /\ Live' = Live
  <2>1. CASE TopLook
    <3>1. PICK purged \in SUBSET min_heap :
             Purged(min_heap, purged) /\ min_heap' = min_heap \ purged
      BY <2>1 DEF TopLook, HeapTop
    <3> QED  BY <1>1, <3>1, PurgedAreMarked DEF HeapInv, PairInv, Live
  <2>2. CASE UNCHANGED timersVars
    BY <2>2 DEF timersVars, heapVars, HeapInv, PairInv, Live
  <2> QED  BY <2>1, <2>2
<1>3. WheelInv' /\ OnWheel' = OnWheel /\ \A t \in Timers : WheelLeft(t)' = WheelLeft(t)
  BY <1>1 DEF wheelVars, PairInv, WheelInv, OnWheel, WheelLeft
<1>4. \A t \in Timers : Close(t)'
  BY <1>1, <1>2, <1>3, CloseStays
<1> QED  BY <1>1, <1>2, <1>3, <1>4 DEF PairInv

LEMMA PairKeeps == PairInv /\ [TimersNext]_timersVars => PairInv'
  BY AddBoth, DelBoth, PopBoth, TickBoth, SecondBoth, LookBoth DEF TimersNext

(***************************************************************************)
(* Theorem: with a tick every si seconds the wheel and the heap agree, for *)
(* every wheel and all timeouts: a timer that only one of them has called  *)
(* back is called back by the other's next tick.                           *)
(***************************************************************************)
THEOREM WheelAndHeapAgree == TimersSpec => []WithinOneTick
<1>1. TimersInit => PairInv
  <2> SUFFICES ASSUME TimersInit PROVE PairInv
    OBVIOUS
  <2>1. WheelInv /\ HeapInv
    BY WheelInitial, HeapInitial DEF TimersInit
  <2>2. OnWheel = {} /\ Live = {} /\ ticked = TRUE
    BY DEF TimersInit, WheelInit, HeapInit, OnWheel, Live
  <2> QED  BY <2>1, <2>2 DEF PairInv, Close
<1>2. PairInv => WithinOneTick
  <2> SUFFICES ASSUME PairInv PROVE WithinOneTick
    OBVIOUS
  <2>1. \A t \in OnWheel \ Live : WheelLeft(t) = 0
    BY DEF PairInv, Close, OnWheel
  <2>2. ASSUME NEW t \in Live \ OnWheel PROVE HeapLeft(t) <= NextTick
    <3>1. t \in Timers /\ expire[t] \in Nat
      BY LiveOfHeap, SameTimers DEF PairInv, HeapInv
    <3>2. expire[t] <= now + NextTick
      BY <3>1 DEF PairInv, Close, NextAt
    <3>3. NextTick \in 0..si /\ now \in Nat /\ si \in Nat
      BY Clock, WheelAssumption
    <3> QED  BY <3>1, <3>2, <3>3 DEF HeapLeft
  <2> QED  BY <2>1, <2>2 DEF WithinOneTick
<1> QED  BY <1>1, <1>2, PairKeeps, PTL DEF TimersSpec
=============================================================================
