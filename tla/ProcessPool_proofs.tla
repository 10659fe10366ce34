------------------------- MODULE ProcessPool_proofs -------------------------
(***************************************************************************)
(* The parent leaves last, for any number of children, clients and         *)
(* crashes.                                                                *)
(***************************************************************************)
EXTENDS ProcessPool, TLAPS

\* A child is told by three variables: what the parent knows, what it is, and
\* whether the parent may leave.  Only waitpid makes a child "gone".
PidMatchesChild ==
    \A i \in Children : /\ pid[i] = "none" <=> child[i] = "unborn"
                        /\ pid[i] = "gone" => child[i] = "reaped"
AllForked == ppc # "fork" => \A i \in Children : pid[i] # "none"
StopMeansGone ==
    /\ stop => \A i \in Children : pid[i] = "gone"
    /\ ppc = "exited" => stop

PInv == TypeOK /\ PidMatchesChild /\ AllForked /\ StopMeansGone

LEMMA AfterIsChild == ASSUME NEW i \in Children, NEW k \in Nat PROVE After(i, k) \in Children
  BY PoolAssumption DEF After, Children

LEMMA PoolInitial == Init => PInv
<1> SUFFICES ASSUME Init PROVE PInv
  OBVIOUS
<1>1. 0 \in Children
  BY PoolAssumption DEF Children
<1>2. TypeOK
  BY <1>1, PoolAssumption DEF Init, TypeOK
<1>3. PidMatchesChild /\ AllForked /\ StopMeansGone
  BY DEF Init, PidMatchesChild, AllForked, StopMeansGone
<1> QED  BY <1>2, <1>3 DEF PInv

\* The environment, the signal handler and the parts of the parent's loop that
\* neither fork nor reap.
LEMMA QuietStep ==
  ASSUME PInv, UNCHANGED <<pid, child>>, TypeOK',
         ppc' = ppc \/ (ppc = "setup" /\ ppc' = "loop") \/ ParentExit,
         stop' = stop \/ NobodyLeft
  PROVE  PInv'
<1>1. PidMatchesChild'
  BY DEF PInv, PidMatchesChild
<1>2. AllForked'
  BY DEF PInv, AllForked, ParentExit
<1>3. stop' => \A i \in Children : pid'[i] = "gone"
  <2>1. CASE stop' = stop
    BY <2>1 DEF PInv, StopMeansGone
  <2>2. CASE NobodyLeft
    <3> SUFFICES ASSUME NEW i \in Children PROVE pid'[i] = "gone"
      OBVIOUS
    <3>1. pid[i] # "live" /\ pid[i] # "none"
      BY <2>2 DEF NobodyLeft, PInv, AllForked
    <3>2. pid[i] \in {"none", "live", "gone"}
      BY DEF PInv, TypeOK
    <3> QED  BY <3>1, <3>2
  <2> QED  BY <2>1, <2>2
<1>4. ppc' = "exited" => stop'
  BY DEF PInv, StopMeansGone, ParentExit, NobodyLeft
<1> QED  BY <1>1, <1>2, <1>3, <1>4 DEF PInv, StopMeansGone

\* The last fork leaves no child without its pid.
LEMMA ForkKeeps == ASSUME PInv, NEW i \in Children, Fork(i) PROVE PInv'
<1>1. TypeOK'
  BY DEF PInv, TypeOK, Fork, signalVars, clientVars, history
<1>2. PidMatchesChild'
  BY DEF PInv, TypeOK, PidMatchesChild, Fork
<1>3. AllForked'
  <2> SUFFICES ASSUME ppc' # "fork", NEW j \in Children PROVE pid'[j] # "none"
    BY DEF AllForked
  <2>1. i = ProcessNum - 1
    BY DEF Fork
  <2>2. j = i \/ j \in 0..(i - 1)
    BY <2>1, PoolAssumption DEF Children
  <2> QED  BY <2>2 DEF Fork, PInv, TypeOK
<1>4. StopMeansGone'
  <2>1. ~stop
    BY DEF PInv, StopMeansGone, Fork
  <2> QED  BY <2>1 DEF Fork, StopMeansGone
<1> QED  BY <1>1, <1>2, <1>3, <1>4 DEF PInv

\* waitpid reaps every zombie; the parent may stop when no other child is left.
LEMMA HandleChldKeeps == ASSUME PInv, HandleChld PROVE PInv'
<1>1. TypeOK'
  BY DEF PInv, TypeOK, HandleChld, NextSignal, clientVars, history
<1>2. PidMatchesChild'
  BY DEF PInv, TypeOK, PidMatchesChild, HandleChld
<1>3. AllForked'
  BY DEF PInv, AllForked, HandleChld
<1>4. stop' => \A i \in Children : pid'[i] = "gone"
  BY DEF HandleChld
<1>5. ppc' = "exited" => stop'
  <2> SUFFICES ASSUME ppc = "exited" PROVE \A i \in Children : pid'[i] = "gone"
    BY DEF HandleChld
  <2>1. \A i \in Children : pid[i] = "gone" /\ child[i] = "reaped"
    BY DEF PInv, StopMeansGone, PidMatchesChild
  <2> QED  BY <2>1 DEF HandleChld
<1> QED  BY <1>1, <1>2, <1>3, <1>4, <1>5 DEF PInv, StopMeansGone

\* A child changes only between the states the parent does not know of.
LEMMA ChildChanges ==
  ASSUME PInv, UNCHANGED <<ppc, pid, stop>>, TypeOK',
         \A j \in Children : \/ child'[j] = child[j]
                             \/ child[j] \in {"starting", "running"}
                                /\ child'[j] \in {"running", "zombie"}
  PROVE  PInv'
<1>1. PidMatchesChild'
  BY DEF PInv, PidMatchesChild
<1> QED  BY <1>1 DEF PInv, AllForked, StopMeansGone

LEMMA HandleTermKeeps == ASSUME PInv, HandleTerm PROVE PInv'
<1>1. TypeOK'
  BY DEF PInv, TypeOK, HandleTerm, NextSignal, Killed, parentVars, clientVars
<1> QED  BY <1>1, ChildChanges DEF HandleTerm, Killed, parentVars

LEMMA DiesType ==
  ASSUME PInv, NEW i \in Children, Dies(i), crashed' \in 0..Crashes
  PROVE  TypeOK'
<1>1. /\ child' \in [Children -> {"unborn", "starting", "running", "zombie", "reaped"}]
      /\ pipe' \in [Children -> Nat]
      /\ pipeedge' \in [Children -> BOOLEAN] /\ term' \in [Children -> BOOLEAN]
      /\ cstop' \in [Children -> BOOLEAN]
      /\ cevs' \in [Children -> SUBSET {"pipe", "signal"}]
      /\ dropped' \in BOOLEAN
  BY DEF PInv, TypeOK, Dies
<1>2. pending' \subseteq {"CHLD", "TERM"} /\ unheard' \in BOOLEAN
  BY DEF PInv, TypeOK, Dies
<1> QED  BY <1>1, <1>2 DEF PInv, TypeOK, Dies, parentVars, clientVars

LEMMA DiesKeeps ==
  ASSUME PInv, NEW i \in Children, Alive(i), Dies(i), crashed' \in 0..Crashes
  PROVE  PInv'
<1>1. TypeOK'
  BY DiesType
<1>2. child' = [child EXCEPT ![i] = "zombie"] /\ child[i] \in {"starting", "running"}
  BY DEF Dies, Alive
<1> QED  BY <1>1, <1>2, ChildChanges DEF Dies, parentVars, PInv, TypeOK

LEMMA ChildStepKeeps ==
  ASSUME PInv, NEW i \in Children, ChildStep(i) \/ ChildCrash(i) PROVE PInv'
<1>1. CASE ChildSetup(i)
  <2>1. TypeOK'
    BY <1>1 DEF PInv, TypeOK, ChildSetup, parentVars, signalVars, clientVars
  <2> QED  BY <1>1, <2>1, ChildChanges DEF ChildSetup, parentVars, PInv, TypeOK
<1>2. CASE ChildWait(i)
  <2>1. cevs' \in [Children -> SUBSET {"pipe", "signal"}]
        /\ pipeedge' \in [Children -> BOOLEAN]
    BY <1>2 DEF PInv, TypeOK, ChildWait
  <2>2. TypeOK'
    BY <1>2, <2>1 DEF PInv, TypeOK, ChildWait, parentVars, signalVars, clientVars, history
  <2> QED  BY <1>2, <2>2, ChildChanges DEF ChildWait, parentVars
<1>3. CASE ChildAccept(i)
  <2>1. cevs' \in [Children -> SUBSET {"pipe", "signal"}] /\ pipe' \in [Children -> Nat]
    BY <1>3 DEF PInv, TypeOK, ChildAccept
  <2>2. backlog' \in Seq(Clients) /\ served' \in [Clients -> Children \cup {Nobody}]
    <3>1. CASE backlog = <<>>
      BY <1>3, <3>1 DEF PInv, TypeOK, ChildAccept
    <3>2. CASE backlog # <<>>
      <4>1. Head(backlog) \in Clients /\ Tail(backlog) \in Seq(Clients)
        BY <3>2 DEF PInv, TypeOK
      <4>2. served' = [served EXCEPT ![Head(backlog)] = i] /\ backlog' = Tail(backlog)
        BY <1>3, <3>2 DEF ChildAccept
      <4>3. served \in [Clients -> Children \cup {Nobody}]
        BY DEF PInv, TypeOK
      <4> QED  BY <4>1, <4>2, <4>3
    <3> QED  BY <3>1, <3>2
  <2>3. TypeOK'
    BY <1>3, <2>1, <2>2 DEF PInv, TypeOK, ChildAccept, parentVars, signalVars, history
  <2> QED  BY <1>3, <2>3, ChildChanges DEF ChildAccept, parentVars
<1>4. CASE ChildReadSignals(i)
  <2>1. cevs' \in [Children -> SUBSET {"pipe", "signal"}]
        /\ term' \in [Children -> BOOLEAN] /\ cstop' \in [Children -> BOOLEAN]
    BY <1>4 DEF PInv, TypeOK, ChildReadSignals
  <2>2. TypeOK'
    BY <1>4, <2>1 DEF PInv, TypeOK, ChildReadSignals, parentVars, signalVars, clientVars,
                      history
  <2> QED  BY <1>4, <2>2, ChildChanges DEF ChildReadSignals, parentVars
<1>5. CASE ChildExit(i)
  BY <1>5, DiesKeeps DEF ChildExit, Alive, PInv, TypeOK
<1>6. CASE ChildCrash(i)
  <2>1. crashed' \in 0..Crashes
    BY <1>6, PoolAssumption DEF ChildCrash, PInv, TypeOK
  <2> QED  BY <1>6, <2>1, DiesKeeps DEF ChildCrash
<1> QED  BY <1>1, <1>2, <1>3, <1>4, <1>5, <1>6 DEF ChildStep

\* The announcement goes to a child's pipe, and the turn passes on.
LEMMA DispatchType == ASSUME PInv, NEW i \in Children, Dispatch(i) PROVE TypeOK'
<1>1. turn' \in Children
  BY AfterIsChild DEF Dispatch
<1>2. pipe' \in [Children -> Nat] /\ pipeedge' \in [Children -> BOOLEAN]
  <2>1. pipe \in [Children -> Nat] /\ pipeedge \in [Children -> BOOLEAN]
    BY DEF PInv, TypeOK
  <2>2. pipe' = pipe \/ pipe' = [pipe EXCEPT ![i] = @ + 1]
    BY DEF Dispatch
  <2>3. \/ pipeedge' = pipeedge
        \/ pipeedge' = [pipeedge EXCEPT ![i] = child[i] = "running"]
    BY DEF Dispatch
  <2>4. pipe' \in [Children -> Nat]
    BY <2>1, <2>2
  <2> QED  BY <2>1, <2>3, <2>4
<1>3. merged' \in BOOLEAN /\ dropped' \in BOOLEAN
  <2>1. CASE Alive(i)
    BY <2>1 DEF PInv, TypeOK, Dispatch
  <2>2. CASE ~Alive(i)
    BY <2>2 DEF PInv, TypeOK, Dispatch
  <2> QED  BY <2>1, <2>2
<1> QED  BY <1>1, <1>2, <1>3 DEF PInv, TypeOK, Dispatch, signalVars, clientVars

LEMMA ParentStepKeeps == ASSUME PInv, ParentStep PROVE PInv'
<1>1. ASSUME NEW i \in Children, Fork(i) PROVE PInv'
  BY <1>1, ForkKeeps
<1>2. ASSUME NEW i \in Children, Dispatch(i) PROVE PInv'
  BY <1>2, DispatchType, QuietStep DEF Dispatch
<1>3. CASE ParentSetup
  <2>1. TypeOK'
    BY <1>3 DEF PInv, TypeOK, ParentSetup, signalVars, childVars
  <2> QED  BY <1>3, <2>1, QuietStep DEF ParentSetup, childVars
<1>4. CASE ParentWait
  <2>1. TypeOK'
    BY <1>4 DEF PInv, TypeOK, ParentWait, childVars, history
  <2> QED  BY <1>4, <2>1, QuietStep DEF ParentWait, childVars
<1>5. CASE NobodyLeft
  <2>1. TypeOK'
    BY <1>5 DEF PInv, TypeOK, NobodyLeft, signalVars, childVars, clientVars, history
  <2> QED  BY <1>5, <2>1, QuietStep DEF NobodyLeft, childVars
<1>6. CASE ParentExit
  <2>1. TypeOK'
    BY <1>6 DEF PInv, TypeOK, ParentExit, signalVars, childVars, clientVars, history
  <2> QED  BY <1>6, <2>1, QuietStep DEF ParentExit, childVars
<1>7. CASE ParentReadSignals
  <2>1. TypeOK'
    BY <1>7 DEF PInv, TypeOK, ParentReadSignals, childVars, clientVars, history
  <2> QED  BY <1>7, <2>1, QuietStep DEF ParentReadSignals, childVars
<1> QED  BY <1>1, <1>2, <1>3, <1>4, <1>5, <1>6, <1>7, HandleChldKeeps, HandleTermKeeps
         DEF ParentStep

LEMMA PoolInvariant == PInv /\ [Next]_vars => PInv'
<1> SUFFICES ASSUME PInv, [Next]_vars PROVE PInv'
  OBVIOUS
<1>1. ASSUME NEW c \in Clients, Connect(c) PROVE PInv'
  <2>1. backlog' \in Seq(Clients) /\ listenedge' \in BOOLEAN /\ merged' \in BOOLEAN
    BY <1>1 DEF PInv, TypeOK, Connect
  <2>2. TypeOK'
    BY <1>1, <2>1 DEF PInv, TypeOK, Connect, parentVars, signalVars, childVars
  <2>3. UNCHANGED <<pid, child, ppc, stop>>
    BY <1>1 DEF Connect, parentVars, childVars
  <2> QED  BY <2>2, <2>3, QuietStep
<1>2. CASE Terminate
  <2>1. TypeOK'
    BY <1>2 DEF PInv, TypeOK, Terminate, parentVars, childVars, clientVars
  <2> QED  BY <1>2, <2>1, QuietStep DEF Terminate, parentVars, childVars
<1>3. ASSUME NEW s \in {"CHLD", "TERM"}, ParentSignal(s) PROVE PInv'
  <2>1. sigpipe' \in Seq({"CHLD", "TERM"})
    BY <1>3 DEF PInv, TypeOK, ParentSignal
  <2>2. TypeOK'
    BY <1>3, <2>1 DEF PInv, TypeOK, ParentSignal, parentVars, childVars, clientVars, history
  <2> QED  BY <1>3, <2>2, QuietStep DEF ParentSignal, parentVars, childVars
<1>4. CASE UNCHANGED vars
  <2>1. TypeOK'
    BY <1>4 DEF PInv, TypeOK, vars, parentVars, signalVars, childVars, clientVars, history
  <2>2. UNCHANGED <<pid, child, ppc, stop>>
    BY <1>4 DEF vars, parentVars, childVars
  <2> QED  BY <2>1, <2>2, QuietStep
<1> QED  BY <1>1, <1>2, <1>3, <1>4, ParentStepKeeps, ChildStepKeeps DEF Next

(***************************************************************************)
(* When the parent leaves run_parent (process_pool.h:282-288) every child  *)
(* has been reaped: _stop is set by the last of them only, or when an      *)
(* event finds no child that is not -1, and only waitpid makes one -1.     *)
(***************************************************************************)
THEOREM ParentIsLast == Spec => []ParentLeavesLast
<1>1. PInv => ParentLeavesLast
  BY DEF PInv, StopMeansGone, PidMatchesChild, ParentLeavesLast
<1> QED  BY <1>1, PoolInitial, PoolInvariant, PTL DEF Spec
=============================================================================
