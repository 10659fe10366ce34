------------------------ MODULE MultiProcess_proofs -------------------------
(***************************************************************************)
(* The table of the chat's children is exact, the server leaves after      *)
(* them, and while no user is moved to another slot no client is sent its  *)
(* own data, for any number of clients and slots.                          *)
(***************************************************************************)
EXTENDS MultiProcess, FiniteSetTheorems, TLAPS

\* A child that has a slot: it was forked and has not been reaped.
Held(c) == cpc[c] \notin {"none", "reaped"}

\* TableIsExact, as a pair of maps: the map leads from a child to its slot, and
\* the table back.
SlotsLeadBack ==
    /\ \A i \in 1..Len(users) : Held(users[i]) /\ submap[users[i]] = i
    /\ \A c \in Clients :
          Held(c) => submap[c] \in 1..Len(users) /\ users[submap[c]] = c

\* Who waits to be accepted waits once and has no child yet.
WaitOnce ==
    \A i \in 1..Len(backlog) :
        /\ cpc[backlog[i]] = "none"
        /\ \A j \in 1..Len(backlog) : backlog[i] = backlog[j] => i = j

SegmentsGiven == \A c \in Clients : Held(c) => idx[c] \in Slots

StopIsLast == /\ stop => users = <<>> \/ "stop" \in late
              /\ ppc = "stopped" => stop

MInv == TypeOK /\ SlotsLeadBack /\ WaitOnce /\ SegmentsGiven /\ StopIsLast

\* What Front leaves.
LEMMA FrontOf ==
  ASSUME NEW S, NEW r \in Seq(S), r # <<>>, NEW t, t = Front(r)
  PROVE  /\ t \in Seq(S) /\ Len(t) = Len(r) - 1
         /\ \A i \in 1..(Len(r) - 1) : t[i] = r[i]
<1> DEFINE n == Len(r) - 1
           u == SubSeq(r, 1, n)
<1>1. n \in 0..Len(r) /\ n \in Nat
  OBVIOUS
<1>2. u \in Seq(S) /\ Len(u) = n /\ \A i \in 1..n : u[i] = r[i]
  BY <1>1
<1>3. t = u
  BY DEF Front
<1> HIDE DEF u
<1> QED  BY <1>2, <1>3

\* The same table, said as TableIsExact says it.
LEMMA ExactTable == ASSUME MInv PROVE TableIsExact
<1>1. ToSet(users) = {users[i] : i \in 1..Len(users)}
  BY DEF ToSet, MInv, TypeOK
<1>2. \A i \in 1..Len(users) : users[i] \in Clients
  BY DEF MInv, TypeOK
<1>3. ToSet(users) = {c \in Clients : Held(c)}
  BY <1>1, <1>2 DEF MInv, SlotsLeadBack
<1> QED  BY <1>3 DEF MInv, SlotsLeadBack, TableIsExact, Held

LEMMA ChatInitial == Init => MInv
<1> SUFFICES ASSUME Init PROVE MInv
  OBVIOUS
<1>1. TypeOK
  <2>1. /\ sent \in 0..Messages /\ Len(users) <= UserLimit /\ users \in Seq(Clients)
        /\ submap \in [Clients -> Slots \cup {NoSlot}] /\ idx \in [Clients -> Slots \cup {NoSlot}]
        /\ seg \in [Slots -> Clients \cup {None}] /\ cpc \in [Clients -> ChildAt]
    BY ChatAssumption DEF Init, ChildAt
  <2>2. /\ up \in [Clients -> Seq(Slots)] /\ down \in [Clients -> Seq(Slots)]
        /\ backlog \in Seq(Clients)
        /\ sigpipe \in Seq({"CHLD", "TERM"}) /\ sigbuf \in Seq({"CHLD", "TERM"})
    BY DEF Init
  <2>3. /\ inbox \in [Clients -> BOOLEAN] /\ eof \in [Clients -> BOOLEAN]
        /\ cstop \in [Clients -> BOOLEAN] /\ upedge \in [Clients -> BOOLEAN]
    BY DEF Init
  <2>4. /\ ppc \in {"wait", "batch", "stopped"} /\ terminate \in BOOLEAN /\ stop \in BOOLEAN
        /\ pevs \subseteq Clients \cup {"listen", "signal"} /\ ppos \in Nat /\ pret \in Nat
        /\ sigedge \in BOOLEAN /\ listenedge \in BOOLEAN
        /\ {echoed, moved, cut, missed, termed} \subseteq BOOLEAN
        /\ late \subseteq {"terminate", "stop"}
    BY DEF Init
  <2> QED  BY <2>1, <2>2, <2>3, <2>4 DEF TypeOK
<1>2. Len(users) = 0 /\ Len(backlog) = 0
  BY DEF Init
<1>3. SlotsLeadBack /\ WaitOnce /\ SegmentsGiven /\ StopIsLast
  BY <1>2 DEF Init, SlotsLeadBack, WaitOnce, SegmentsGiven, StopIsLast, Held
<1> QED  BY <1>1, <1>3 DEF MInv

\* A step that neither forks nor reaps, and may take the first of those who wait.
LEMMA QuietStep ==
  ASSUME MInv, TypeOK', UNCHANGED <<users, submap, idx, late>>,
         \A c \in Clients : cpc'[c] = cpc[c] \/ (Held(c) /\ Held(c)'),
         backlog' = backlog \/ (backlog # <<>> /\ backlog' = Tail(backlog)),
         stop' = stop \/ users = <<>>,
         stop => stop',
         ppc' = "stopped" => stop
  PROVE  MInv'
<1>1. \A i \in 1..Len(users) : users[i] \in Clients
  BY DEF MInv, TypeOK
<1>2. \A c \in Clients : Held(c)' = Held(c)
  BY DEF Held
<1>3. SlotsLeadBack'
  BY <1>1, <1>2 DEF MInv, SlotsLeadBack
<1>4. SegmentsGiven'
  BY <1>2 DEF MInv, SegmentsGiven
<1>5. WaitOnce'
  <2>1. \A i \in 1..Len(backlog) : backlog[i] \in Clients
    BY DEF MInv, TypeOK
  <2>2. CASE backlog' = backlog
    BY <2>1, <2>2 DEF MInv, WaitOnce, Held
  <2>3. CASE backlog # <<>> /\ backlog' = Tail(backlog)
    <3>1. Len(backlog') = Len(backlog) - 1
          /\ \A i \in 1..Len(backlog') : i + 1 \in 1..Len(backlog)
                                         /\ backlog'[i] = backlog[i + 1]
      <4> DEFINE b == backlog
      <4>1. b \in Seq(Clients) /\ b # <<>>
        BY <2>3 DEF MInv, TypeOK
      <4> HIDE DEF b
      <4>2. Len(Tail(b)) = Len(b) - 1
            /\ \A i \in 1..Len(Tail(b)) : i + 1 \in 1..Len(b) /\ Tail(b)[i] = b[i + 1]
        BY <4>1
      <4> QED  BY <2>3, <4>2 DEF b
    <3>2. \A i \in 1..Len(backlog) : cpc'[backlog[i]] = "none"
      BY <2>1 DEF MInv, WaitOnce, Held
    <3>3. \A i, j \in 1..Len(backlog) : backlog[i] = backlog[j] => i = j
      BY DEF MInv, WaitOnce
    <3>4. \A i \in 1..Len(backlog') : cpc'[backlog'[i]] = "none"
      BY <3>1, <3>2
    <3>5. \A i, j \in 1..Len(backlog') : backlog'[i] = backlog'[j] => i = j
      BY <3>1, <3>3
    <3> QED  BY <3>4, <3>5 DEF WaitOnce
  <2> QED  BY <2>2, <2>3
<1>6. StopIsLast'
  BY DEF MInv, StopIsLast
<1> QED  BY <1>3, <1>4, <1>5, <1>6 DEF MInv

-----------------------------------------------------------------------------
\* The environment.
LEMMA ConnectKeeps == ASSUME MInv, NEW c \in Clients, Connect(c) PROVE MInv'
<1>1. backlog' = Append(backlog, c) /\ backlog \in Seq(Clients)
      /\ UNCHANGED <<users, submap, idx, cpc, stop, late, ppc>>
  BY DEF Connect, tableVars, childVars, loopVars, history, MInv, TypeOK
<1>2. TypeOK'
  BY <1>1 DEF MInv, TypeOK, Connect, clientVars, tableVars, loopVars, signalVars, childVars,
              pipeVars, history
<1>3. \A i \in 1..Len(backlog) : backlog[i] # c
  BY DEF Connect, Contains
<1>4. WaitOnce'
  <2>1. Len(backlog') = Len(backlog) + 1
        /\ \A i \in 1..Len(backlog') :
              backlog'[i] = IF i = Len(backlog) + 1 THEN c ELSE backlog[i]
    BY <1>1
  <2>2. Len(backlog) \in Nat /\ cpc[c] = "none"
    BY <1>1 DEF Connect
  <2> QED  BY <1>1, <1>3, <2>1, <2>2 DEF MInv, WaitOnce
<1>5. SlotsLeadBack' /\ SegmentsGiven' /\ StopIsLast'
  BY <1>1 DEF MInv, SlotsLeadBack, SegmentsGiven, StopIsLast, Held
<1> QED  BY <1>2, <1>4, <1>5 DEF MInv

LEMMA EnvironmentKeeps ==
  ASSUME MInv, Terminate \/ \E c \in Clients : Send(c) \/ HangUp(c) PROVE MInv'
<1>1. TypeOK'
  <2>1. ASSUME NEW c \in Clients, Send(c) PROVE TypeOK'
    BY <2>1, ChatAssumption DEF MInv, TypeOK, Send, tableVars, loopVars, signalVars, listenVars, childVars,
                pipeVars, history
  <2>2. ASSUME NEW c \in Clients, HangUp(c) PROVE TypeOK'
    BY <2>2 DEF MInv, TypeOK, HangUp, tableVars, loopVars, signalVars, listenVars, childVars,
                pipeVars, history
  <2>3. CASE Terminate
    BY <2>3 DEF MInv, TypeOK, Terminate, Signal, clientVars, tableVars, loopVars, listenVars,
                childVars, pipeVars
  <2> QED  BY <2>1, <2>2, <2>3
<1>2. UNCHANGED <<users, submap, idx, cpc, stop, late, ppc, backlog>>
  BY DEF Send, HangUp, Terminate, tableVars, childVars, loopVars, history, listenVars
<1>3. ppc = "stopped" => stop
  BY DEF MInv, StopIsLast
<1> QED  BY <1>1, <1>2, <1>3, QuietStep

-----------------------------------------------------------------------------
\* The children: none of their steps touches the table.
LEMMA ChildType == ASSUME MInv, NEW c \in Clients, ChildStep(c) PROVE TypeOK'
<1>1. CASE ChildCloses(c) \/ ChildSetup(c)
  <2>1. cpc' \in [Clients -> ChildAt]
    <3>1. cpc' = [cpc EXCEPT ![c] = "deaf"] \/ cpc' = [cpc EXCEPT ![c] = "loop"]
      BY <1>1 DEF ChildCloses, ChildSetup, ChildGoto
    <3> QED  BY <3>1 DEF MInv, TypeOK, ChildAt
  <2> QED  BY <1>1, <2>1 DEF MInv, TypeOK, ChildCloses, ChildSetup, clientVars, tableVars,
                             loopVars, signalVars, listenVars, pipeVars, history
<1>2. CASE ChildRead(c)
  <2>1. idx[c] \in Slots
    BY <1>2 DEF MInv, SegmentsGiven, Held, ChildRead
  <2>2. up' \in [Clients -> Seq(Slots)]
    <3>1. up[c] \in Seq(Slots) /\ up \in [Clients -> Seq(Slots)]
      BY DEF MInv, TypeOK
    <3>2. Append(up[c], idx[c]) \in Seq(Slots)
      BY <2>1, <3>1
    <3>3. up' = [up EXCEPT ![c] = Append(up[c], idx[c])]
      BY <1>2 DEF ChildRead
    <3> QED  BY <3>1, <3>2, <3>3
  <2>3. seg' \in [Slots -> Clients \cup {None}] /\ inbox' \in [Clients -> BOOLEAN]
        /\ upedge' \in [Clients -> BOOLEAN]
    BY <1>2, <2>1 DEF MInv, TypeOK, ChildRead
  <2> QED  BY <1>2, <2>2, <2>3 DEF MInv, TypeOK, ChildRead, tableVars, loopVars, signalVars,
                                   listenVars, childVars, history
<1>3. CASE ChildReadEnd(c)
  <2>1. seg' \in [Slots -> Clients \cup {None}] /\ cstop' \in [Clients -> BOOLEAN]
    BY <1>3 DEF MInv, TypeOK, ChildReadEnd
  <2> QED  BY <1>3, <2>1 DEF MInv, TypeOK, ChildReadEnd, clientVars, tableVars, loopVars,
                             signalVars, listenVars, pipeVars, history
<1>4. CASE ChildDeliver(c)
  <2>1. down' \in [Clients -> Seq(Slots)]
    <3>1. down \in [Clients -> Seq(Slots)] /\ down[c] \in Seq(Slots) /\ down[c] # <<>>
      BY <1>4 DEF MInv, TypeOK, ChildDeliver
    <3>2. Tail(down[c]) \in Seq(Slots)
      BY <3>1
    <3>3. down' = [down EXCEPT ![c] = Tail(down[c])]
      BY <1>4 DEF ChildDeliver
    <3> QED  BY <3>1, <3>2, <3>3
  <2>2. echoed' \in BOOLEAN
    BY <1>4 DEF MInv, TypeOK, ChildDeliver
  <2> QED  BY <1>4, <2>1, <2>2 DEF MInv, TypeOK, ChildDeliver, clientVars, tableVars, loopVars,
                                   signalVars, listenVars, childVars
<1>5. CASE ChildReadPipeEnd(c)
  BY <1>5 DEF MInv, TypeOK, ChildReadPipeEnd, clientVars, tableVars, loopVars,
              signalVars, listenVars, pipeVars, history
<1>6. CASE ChildExit(c)
  <2>1. /\ eof' \in [Clients -> BOOLEAN] /\ inbox' \in [Clients -> BOOLEAN]
        /\ upedge' \in [Clients -> BOOLEAN] /\ cstop' \in [Clients -> BOOLEAN]
        /\ cpc' \in [Clients -> ChildAt]
    BY <1>6 DEF MInv, TypeOK, ChildExit, ChildGoto, ChildAt
  <2>2. down' \in [Clients -> Seq(Slots)] /\ sigpipe' \in Seq({"CHLD", "TERM"})
        /\ sigedge' \in BOOLEAN
    BY <1>6 DEF MInv, TypeOK, ChildExit, Signal
  <2> QED  BY <1>6, <2>1, <2>2 DEF MInv, TypeOK, ChildExit, tableVars, loopVars, listenVars,
                                   history
<1> QED  BY <1>1, <1>2, <1>3, <1>4, <1>5, <1>6 DEF ChildStep

LEMMA ChildKeeps == ASSUME MInv, NEW c \in Clients, ChildStep(c) PROVE MInv'
<1>1. TypeOK'
  BY ChildType
<1>2. UNCHANGED <<users, submap, idx, stop, late, ppc, backlog>>
  BY DEF ChildStep, ChildCloses, ChildSetup, ChildRead, ChildReadEnd, ChildDeliver,
         ChildReadPipeEnd, ChildExit, tableVars, childVars, loopVars, history, listenVars
<1>3. \/ cpc' = cpc
      \/ /\ Held(c)
         /\ \E l \in {"deaf", "loop", "zombie"} : cpc' = [cpc EXCEPT ![c] = l]
  BY DEF ChildStep, ChildCloses, ChildSetup, ChildRead, ChildReadEnd, ChildDeliver,
         ChildReadPipeEnd, ChildExit, ChildGoto, Held, childVars
<1>4. \A d \in Clients : cpc'[d] = cpc[d] \/ (Held(d) /\ Held(d)')
  BY <1>3 DEF Held, MInv, TypeOK
<1>5. ppc = "stopped" => stop
  BY DEF MInv, StopIsLast
<1> QED  BY <1>1, <1>2, <1>4, <1>5, QuietStep

-----------------------------------------------------------------------------
\* The parent.  One entry of the array is taken off those of this call.
LEMMA EntryType ==
  ASSUME MInv, NEW e, Entry(e)
  PROVE  /\ pevs' \subseteq Clients \cup {"listen", "signal"} /\ ppos' \in Nat
         /\ ppc' = ppc
  BY DEF Entry, MInv, TypeOK

LEMMA WaitType == ASSUME MInv, ParentWait PROVE TypeOK'
<1>1. PICK ready : /\ ready \subseteq Clients \cup {"listen", "signal"}
                   /\ pevs' = ready /\ pret' = Cardinality(ready)
  <2>1. ToSet(users) \subseteq Clients
    BY DEF ToSet, MInv, TypeOK
  <2> QED  BY <2>1 DEF ParentWait
<1>2. Cardinality(ready) \in Nat
  <2>1. IsFiniteSet({"listen", "signal"})
    <3>1. IsFiniteSet({} \cup {"listen"})
      BY FS_EmptySet, FS_AddElement
    <3>2. IsFiniteSet(({} \cup {"listen"}) \cup {"signal"})
      BY <3>1, FS_AddElement
    <3>3. ({} \cup {"listen"}) \cup {"signal"} = {"listen", "signal"}
      OBVIOUS
    <3> QED  BY <3>2, <3>3
  <2>2. IsFiniteSet(Clients \cup {"listen", "signal"})
    BY <2>1, ChatAssumption, FS_Union
  <2> QED  BY <1>1, <2>2, FS_Subset, FS_CardinalityType
<1>3. upedge' \in [Clients -> BOOLEAN]
  BY DEF ParentWait
<1> QED  BY <1>1, <1>2, <1>3 DEF MInv, TypeOK, ParentWait, clientVars, tableVars, childVars,
                                 history

\* The steps of the loop over the events, but for accept and fork.
LEMMA LoopKeeps ==
  ASSUME MInv, ParentWait \/ ParentExit \/ ParentBatchEnds \/ EntryNobody \/ EntryRefuse
               \/ EntrySignals
  PROVE  MInv'
<1>1. TypeOK'
  <2>1. CASE ParentWait
    BY <2>1, WaitType
  <2>2. CASE ParentExit
    BY <2>2 DEF MInv, TypeOK, ParentExit, clientVars, tableVars, signalVars, listenVars,
                childVars, pipeVars, history
  <2>3. CASE ParentBatchEnds
    BY <2>3 DEF MInv, TypeOK, ParentBatchEnds, clientVars, tableVars, signalVars, listenVars,
                childVars, pipeVars
  <2>4. CASE EntryNobody
    BY <2>4, EntryType DEF MInv, TypeOK, EntryNobody, clientVars, tableVars, signalVars,
                listenVars, childVars, pipeVars, history
  <2>5. CASE EntryRefuse
    <3>1. eof' \in [Clients -> BOOLEAN] /\ backlog' \in Seq(Clients)
      BY <2>5 DEF MInv, TypeOK, EntryRefuse
    <3>2. pevs' \subseteq Clients \cup {"listen", "signal"} /\ ppos' \in Nat /\ ppc' = ppc
      BY <2>5, EntryType DEF EntryRefuse
    <3> QED  BY <2>5, <3>1, <3>2 DEF MInv, TypeOK, EntryRefuse, tableVars, signalVars,
                                     childVars, pipeVars, history
  <2>6. CASE EntrySignals
    <3>1. pevs' \subseteq Clients \cup {"listen", "signal"} /\ ppos' \in Nat /\ ppc' = ppc
      BY <2>6, EntryType DEF EntrySignals
    <3>2. pret' \in Nat /\ sigbuf' \in Seq({"CHLD", "TERM"}) /\ sigpipe' \in Seq({"CHLD", "TERM"})
      BY <2>6 DEF MInv, TypeOK, EntrySignals
    <3> QED  BY <2>6, <3>1, <3>2 DEF MInv, TypeOK, EntrySignals, clientVars, tableVars,
                                     listenVars, childVars, pipeVars, history
  <2> QED  BY <2>1, <2>2, <2>3, <2>4, <2>5, <2>6
<1>2. /\ UNCHANGED <<users, submap, idx, cpc, stop, late>>
      /\ backlog' = backlog \/ (backlog # <<>> /\ backlog' = Tail(backlog))
      /\ ppc' = ppc \/ ppc' # "stopped" \/ stop
  BY DEF ParentWait, ParentExit, ParentBatchEnds, EntryNobody, EntryRefuse, EntrySignals, Entry,
         tableVars, childVars, history, listenVars
<1>3. ppc' = "stopped" => stop
  BY <1>2 DEF MInv, StopIsLast
<1> QED  BY <1>1, <1>2, <1>3, QuietStep

LEMMA RelayKeeps ==
  ASSUME MInv, NEW c \in Clients, EntryEmpty(c) \/ EntryRelay(c) PROVE MInv'
<1>1. pevs' \subseteq Clients \cup {"listen", "signal"} /\ ppos' \in Nat /\ ppc' = ppc
  BY EntryType DEF EntryEmpty, EntryRelay
<1>2. TypeOK'
  <2>1. CASE EntryEmpty(c)
    BY <1>1, <2>1 DEF MInv, TypeOK, EntryEmpty, clientVars, tableVars, signalVars, listenVars,
                      childVars, pipeVars, history
  <2>2. CASE EntryRelay(c)
    <3>1. up \in [Clients -> Seq(Slots)] /\ down \in [Clients -> Seq(Slots)]
          /\ up[c] \in Seq(Slots) /\ up[c] # <<>>
      BY <2>2 DEF MInv, TypeOK, EntryRelay
    <3>2. Head(up[c]) \in Slots /\ Tail(up[c]) \in Seq(Slots)
      BY <3>1
    <3>3. up' \in [Clients -> Seq(Slots)]
      <4>1. up' = [up EXCEPT ![c] = Tail(up[c])]
        BY <2>2 DEF EntryRelay
      <4> QED  BY <3>1, <3>2, <4>1
    <3>4. down' \in [Clients -> Seq(Slots)]
      <4>1. PICK told : down' = [d \in Clients |-> IF d \in told THEN Append(down[d], Head(up[c]))
                                                                ELSE down[d]]
        BY <2>2 DEF EntryRelay
      <4>2. \A d \in Clients : Append(down[d], Head(up[c])) \in Seq(Slots)
        BY <3>1, <3>2
      <4> QED  BY <3>1, <4>1, <4>2
    <3>5. pret' \in Nat
      BY <2>2 DEF EntryRelay, IntSize
    <3> QED  BY <1>1, <2>2, <3>3, <3>4, <3>5 DEF MInv, TypeOK, EntryRelay, clientVars, tableVars,
                 signalVars, listenVars, childVars, history
  <2> QED  BY <2>1, <2>2
<1>3. UNCHANGED <<users, submap, idx, cpc, stop, late, backlog>>
  BY DEF EntryEmpty, EntryRelay, tableVars, childVars, history, listenVars
<1>4. ppc' = "stopped" => stop
  BY <1>1 DEF MInv, StopIsLast
<1> QED  BY <1>2, <1>3, <1>4, QuietStep

\* accept and fork: the new child gets the slot behind the last one.
LEMMA ForkKeeps == ASSUME MInv, EntryFork PROVE MInv'
<1> DEFINE c == Head(backlog)
           s == Len(users) + 1
<1>1. /\ users' = Append(users, c) /\ submap' = [submap EXCEPT ![c] = s]
      /\ cpc' = [cpc EXCEPT ![c] = "forked"] /\ idx' = [idx EXCEPT ![c] = s]
      /\ backlog' = Tail(backlog) /\ backlog # <<>> /\ Len(users) < UserLimit
      /\ UNCHANGED <<stop, terminate>>
  BY DEF EntryFork
<1>2. backlog \in Seq(Clients) /\ users \in Seq(Clients)
      /\ submap \in [Clients -> Slots \cup {NoSlot}] /\ idx \in [Clients -> Slots \cup {NoSlot}]
      /\ cpc \in [Clients -> ChildAt]
  BY DEF MInv, TypeOK
<1>3. c \in Clients /\ Tail(backlog) \in Seq(Clients) /\ c = backlog[1] /\ 1 \in 1..Len(backlog)
  BY <1>1, <1>2
<1>4. s \in Slots /\ s \in Nat \ {0} /\ Len(users) \in Nat
  BY <1>1, <1>2, ChatAssumption DEF Slots
<1>5. cpc[c] = "none"
  BY <1>3 DEF MInv, WaitOnce
<1> HIDE DEF c
<1>6. /\ Len(users') = s /\ users' \in Seq(Clients)
      /\ \A i \in 1..Len(users') : users'[i] = IF i = s THEN c ELSE users[i]
  BY <1>1, <1>2, <1>3
<1> HIDE DEF s
<1>7. TypeOK'
  <2>1. /\ submap' \in [Clients -> Slots \cup {NoSlot}] /\ idx' \in [Clients -> Slots \cup {NoSlot}]
        /\ cpc' \in [Clients -> ChildAt]
    BY <1>1, <1>2, <1>4 DEF ChildAt
  <2>2. Len(users') <= UserLimit
    BY <1>4, <1>6 DEF Slots
  <2>3. pevs' \subseteq Clients \cup {"listen", "signal"} /\ ppos' \in Nat /\ ppc' = ppc
    BY EntryType DEF EntryFork
  <2>4. late' \subseteq {"terminate", "stop"}
    BY DEF MInv, TypeOK, EntryFork
  <2> QED  BY <1>1, <1>3, <1>6, <2>1, <2>2, <2>3, <2>4 DEF MInv, TypeOK, EntryFork, clientVars,
               signalVars, pipeVars
<1>8. SlotsLeadBack'
  <2>1. \A d \in Clients \ {c} : cpc'[d] = cpc[d] /\ submap'[d] = submap[d]
    BY <1>1, <1>2
  <2>2. cpc'[c] = "forked" /\ submap'[c] = s
    BY <1>1, <1>2, <1>3
  <2>3. \A i \in 1..Len(users) : users[i] \in Clients \ {c} /\ i # s /\ i \in 1..s
    <3>1. \A i \in 1..Len(users) : users[i] \in Clients /\ users[i] # c
      BY <1>2, <1>5 DEF MInv, SlotsLeadBack, Held
    <3> QED  BY <3>1, <1>4 DEF s
  <2>4. \A i \in 1..s : i = s \/ i \in 1..Len(users)
    BY <1>4 DEF s
  <2>5. \A i \in 1..s : cpc'[users'[i]] \notin {"none", "reaped"} /\ submap'[users'[i]] = i
    <3> SUFFICES ASSUME NEW i \in 1..s PROVE cpc'[users'[i]] \notin {"none", "reaped"} /\ submap'[users'[i]] = i
      OBVIOUS
    <3>1. CASE i = s
      BY <3>1, <1>6, <2>2 DEF Held
    <3>2. CASE i # s
      <4>1. i \in 1..Len(users) /\ users'[i] = users[i]
        BY <3>2, <1>6, <2>4
      <4> QED  BY <4>1, <2>1, <2>3 DEF MInv, SlotsLeadBack, Held
    <3> QED  BY <3>1, <3>2
  <2>6. \A d \in Clients : Held(d)' => submap'[d] \in 1..s /\ users'[submap'[d]] = d
    <3> SUFFICES ASSUME NEW d \in Clients, Held(d)'
                 PROVE  submap'[d] \in 1..s /\ users'[submap'[d]] = d
      OBVIOUS
    <3>1. CASE d = c
      BY <3>1, <1>4, <1>6, <2>2
    <3>2. CASE d # c
      <4>1. Held(d) /\ submap'[d] = submap[d]
        BY <3>2, <2>1 DEF Held
      <4>2. submap[d] \in 1..Len(users) /\ users[submap[d]] = d
        BY <4>1 DEF MInv, SlotsLeadBack
      <4> QED  BY <4>1, <4>2, <2>3, <1>6
    <3> QED  BY <3>1, <3>2
  <2> QED  BY <2>5, <2>6, <1>6 DEF SlotsLeadBack, Held
<1>9. WaitOnce'
  <2>1. Len(backlog') = Len(backlog) - 1
        /\ \A i \in 1..Len(backlog') : i + 1 \in 1..Len(backlog) /\ i + 1 # 1
                                       /\ backlog'[i] = backlog[i + 1]
    <3> DEFINE b == backlog
    <3>1. b \in Seq(Clients) /\ b # <<>>
      BY <1>1, <1>2
    <3> HIDE DEF b
    <3>2. Len(Tail(b)) = Len(b) - 1
          /\ \A i \in 1..Len(Tail(b)) : i + 1 \in 1..Len(b) /\ i + 1 # 1 /\ Tail(b)[i] = b[i + 1]
      BY <3>1
    <3> QED  BY <1>1, <3>2 DEF b
  <2>2. \A i, j \in 1..Len(backlog) : backlog[i] = backlog[j] => i = j
    BY DEF MInv, WaitOnce
  <2>3. \A i \in 1..Len(backlog) : cpc[backlog[i]] = "none" /\ backlog[i] \in Clients
    BY <1>2 DEF MInv, WaitOnce
  <2>4. \A i \in 1..Len(backlog') : cpc'[backlog'[i]] = "none"
    <3> SUFFICES ASSUME NEW i \in 1..Len(backlog') PROVE cpc'[backlog'[i]] = "none"
      OBVIOUS
    <3>1. backlog'[i] = backlog[i + 1] /\ i + 1 \in 1..Len(backlog) /\ i + 1 # 1
      BY <2>1
    <3>2. backlog[i + 1] # c
      BY <3>1, <2>2, <1>3
    <3> QED  BY <3>1, <3>2, <2>3, <1>1, <1>2
  <2>5. \A i, j \in 1..Len(backlog') : backlog'[i] = backlog'[j] => i = j
    BY <2>1, <2>2
  <2> QED  BY <2>4, <2>5 DEF WaitOnce
<1>10. SegmentsGiven'
  BY <1>1, <1>2, <1>4 DEF MInv, SegmentsGiven, Held
<1>11. StopIsLast'
  BY <1>1, EntryType DEF EntryFork, MInv, StopIsLast
<1> QED  BY <1>7, <1>8, <1>9, <1>10, <1>11 DEF MInv

-----------------------------------------------------------------------------
\* waitpid: the last user moves into the slot that is free, and the map with it.
LEMMA ReapKeeps == ASSUME MInv, NEW c \in Clients, Reap(c) PROVE MInv'
<1> DEFINE del  == submap[c]
           last == Len(users)
           end  == users[last]
<1>1. /\ users \in Seq(Clients) /\ Len(users) <= UserLimit
      /\ submap \in [Clients -> Slots \cup {NoSlot}] /\ cpc \in [Clients -> ChildAt]
      /\ idx \in [Clients -> Slots \cup {NoSlot}]
  BY DEF MInv, TypeOK
<1>2. /\ users' = Front([users EXCEPT ![del] = end])
      /\ submap' = [submap EXCEPT ![c] = NoSlot, ![end] = del]
      /\ cpc' = [cpc EXCEPT ![c] = "reaped"] /\ cpc[c] = "zombie"
      /\ idx' = [idx EXCEPT ![c] = NoSlot]
      /\ UNCHANGED <<backlog, stop, late, ppc>>
  BY DEF Reap, listenVars, loopVars
<1>3. Held(c) /\ del \in 1..last /\ users[del] = c
  BY <1>2 DEF Held, MInv, SlotsLeadBack
<1>4. last \in Nat \ {0} /\ last \in 1..last /\ end \in Clients
  BY <1>1, <1>3
<1>5. Held(end) /\ submap[end] = last
  BY <1>4 DEF MInv, SlotsLeadBack
<1>6. /\ users' \in Seq(Clients) /\ Len(users') = last - 1
      /\ \A i \in 1..(last - 1) : users'[i] = IF i = del THEN end ELSE users[i]
  <2> DEFINE r == [users EXCEPT ![del] = end]
  <2>1. /\ r \in Seq(Clients) /\ Len(r) = last /\ r # <<>>
        /\ \A i \in 1..last : r[i] = IF i = del THEN end ELSE users[i]
    BY <1>1, <1>3, <1>4
  <2>2. users' = Front(r)
    BY <1>2
  <2> HIDE DEF r, last, del, end
  <2>3. /\ users' \in Seq(Clients) /\ Len(users') = Len(r) - 1
        /\ \A i \in 1..(Len(r) - 1) : users'[i] = r[i]
    BY <2>1, <2>2, FrontOf
  <2>4. \A i \in 1..(last - 1) : i \in 1..last
    BY <1>4
  <2> QED  BY <2>1, <2>3, <2>4
<1>7. \A d \in Clients : submap'[d] = IF d = end THEN del ELSE IF d = c THEN NoSlot ELSE submap[d]
  BY <1>1, <1>2, <1>4
<1>8. \A d \in Clients : cpc'[d] = IF d = c THEN "reaped" ELSE cpc[d]
  BY <1>1, <1>2
<1>9. \A i, j \in 1..last : users[i] = users[j] => i = j
  BY DEF MInv, SlotsLeadBack
<1>10. del \in Slots
  BY <1>1, <1>3, <1>4, ChatAssumption DEF Slots
<1> HIDE DEF del, last, end
<1>11. TypeOK'
  <2>1. Len(users') <= UserLimit
    BY <1>1, <1>4, <1>6, ChatAssumption DEF last
  <2>2. /\ submap' \in [Clients -> Slots \cup {NoSlot}] /\ idx' \in [Clients -> Slots \cup {NoSlot}]
        /\ cpc' \in [Clients -> ChildAt]
    BY <1>1, <1>2, <1>10 DEF ChildAt
  <2>3. /\ up' \in [Clients -> Seq(Slots)] /\ upedge' \in [Clients -> BOOLEAN]
        /\ moved' \in BOOLEAN
    <3>1. /\ up' = [up EXCEPT ![c] = <<>>] /\ upedge' = [upedge EXCEPT ![c] = FALSE]
          /\ moved' = (moved \/ submap[c] # Len(users))
      BY DEF Reap
    <3>2. /\ up \in [Clients -> Seq(Slots)] /\ upedge \in [Clients -> BOOLEAN]
          /\ moved \in BOOLEAN
      BY DEF MInv, TypeOK
    <3>3. <<>> \in Seq(Slots)
      OBVIOUS
    <3> QED  BY <3>1, <3>2, <3>3
  <2> QED  BY <1>6, <2>1, <2>2, <2>3 DEF MInv, TypeOK, Reap, clientVars, loopVars, signalVars,
               listenVars
<1>12. SlotsLeadBack'
  <2>1. \A i \in 1..(last - 1) : cpc'[users'[i]] \notin {"none", "reaped"} /\ submap'[users'[i]] = i
    <3> SUFFICES ASSUME NEW i \in 1..(last - 1)
                 PROVE  cpc'[users'[i]] \notin {"none", "reaped"} /\ submap'[users'[i]] = i
      OBVIOUS
    <3>1. i \in 1..last /\ i # last
      BY <1>4
    <3>2. CASE i = del
      <4>1. users'[i] = end /\ end # c
        BY <3>1, <3>2, <1>3, <1>4, <1>6, <1>9 DEF end
      <4> QED  BY <4>1, <3>2, <1>4, <1>5, <1>7, <1>8 DEF Held
    <3>3. CASE i # del
      <4>1. users'[i] = users[i]
        BY <3>3, <1>6
      <4>2. users[i] # c /\ users[i] # end
        BY <3>1, <3>3, <1>3, <1>4, <1>9 DEF end
      <4>3. users[i] \in Clients /\ Held(users[i]) /\ submap[users[i]] = i
        BY <3>1, <1>1 DEF MInv, SlotsLeadBack, last
      <4> QED  BY <4>1, <4>2, <4>3, <1>7, <1>8 DEF Held
    <3> QED  BY <3>2, <3>3
  <2>2. \A d \in Clients : cpc'[d] \notin {"none", "reaped"} =>
            submap'[d] \in 1..(last - 1) /\ users'[submap'[d]] = d
    <3> SUFFICES ASSUME NEW d \in Clients, cpc'[d] \notin {"none", "reaped"}
                 PROVE  submap'[d] \in 1..(last - 1) /\ users'[submap'[d]] = d
      OBVIOUS
    <3>1. d # c /\ Held(d)
      BY <1>8 DEF Held
    <3>2. submap[d] \in 1..last /\ users[submap[d]] = d
      BY <3>1 DEF MInv, SlotsLeadBack, last
    <3>3. submap[d] # del
      BY <3>1, <3>2, <1>3
    <3>4. CASE d = end
      <4>1. submap'[d] = del /\ submap[d] = last
        BY <3>4, <1>5, <1>7
      <4>2. del \in 1..(last - 1)
        BY <4>1, <3>3, <1>3, <1>4
      <4> QED  BY <4>1, <4>2, <3>4, <1>6
    <3>5. CASE d # end
      <4>1. submap'[d] = submap[d]
        BY <3>1, <3>5, <1>7
      <4>2. submap[d] # last
        BY <3>2, <3>5 DEF end
      <4>3. submap[d] \in 1..(last - 1)
        BY <4>2, <3>2, <1>4
      <4> QED  BY <4>1, <4>3, <3>2, <3>3, <1>6
    <3> QED  BY <3>4, <3>5
  <2> QED  BY <2>1, <2>2, <1>6 DEF SlotsLeadBack, Held
<1>13. WaitOnce'
  <2>1. \A i \in 1..Len(backlog) : backlog[i] \in Clients /\ backlog[i] # c
    BY <1>2 DEF MInv, TypeOK, WaitOnce
  <2> QED  BY <2>1, <1>2, <1>8 DEF MInv, WaitOnce
<1>14. SegmentsGiven'
  BY <1>1, <1>2, <1>8 DEF MInv, SegmentsGiven, Held
<1>15. StopIsLast'
  <2>1. users # <<>>
    BY <1>1, <1>4 DEF last
  <2> QED  BY <2>1, <1>2 DEF MInv, StopIsLast
<1> QED  BY <1>11, <1>12, <1>13, <1>14, <1>15 DEF MInv

\* The end of a SIGCHLD, and SIGTERM: the flags that stop the server.
LEMMA SignalKeeps == ASSUME MInv, Reaped \/ HandleTerm PROVE MInv'
<1>1. sigbuf' \in Seq({"CHLD", "TERM"})
  <2>1. sigbuf \in Seq({"CHLD", "TERM"}) /\ sigbuf # <<>> /\ sigbuf' = Tail(sigbuf)
    BY DEF Reaped, HandleTerm, Handling, MInv, TypeOK
  <2> QED  BY <2>1
<1>2. TypeOK'
  <2>1. CASE Reaped
    BY <1>1, <2>1 DEF MInv, TypeOK, Reaped, clientVars, loopVars, listenVars, childVars, pipeVars,
                history
  <2>2. CASE HandleTerm /\ users = <<>>
    BY <1>1, <2>2 DEF MInv, TypeOK, HandleTerm, clientVars, loopVars, listenVars, pipeVars
  <2>3. CASE HandleTerm /\ users # <<>>
    <3>1. Cardinality(At("forked")) \in Nat
      <4>1. At("forked") \subseteq Clients
        BY DEF At, ToSet, MInv, TypeOK
      <4> QED  BY <4>1, ChatAssumption, FS_Subset, FS_CardinalityType
    <3>2. sigpipe' \in Seq({"CHLD", "TERM"})
      <4> DEFINE more == [k \in 1..Cardinality(At("forked")) |-> "TERM"]
      <4>1. more \in Seq({"CHLD", "TERM"})
        BY <3>1
      <4>2. sigpipe' = sigpipe \o more
        BY <2>3 DEF HandleTerm
      <4> QED  BY <4>1, <4>2 DEF MInv, TypeOK
    <3>3. PICK entering : /\ terminate' = TRUE
                          /\ cstop' = [d \in Clients |-> cstop[d] \/ d \in At("loop")]
                          /\ sigedge' = (sigedge \/ At("forked") # {})
                          /\ missed' = (missed \/ entering \cup At("deaf") # {})
                          /\ UNCHANGED stop
      BY <2>3 DEF HandleTerm
    <3>4. terminate' \in BOOLEAN /\ sigedge' \in BOOLEAN /\ missed' \in BOOLEAN
          /\ cstop' \in [Clients -> BOOLEAN]
      BY <3>3 DEF MInv, TypeOK
    <3> QED  BY <1>1, <2>3, <3>2, <3>3, <3>4 DEF MInv, TypeOK, HandleTerm, clientVars, loopVars,
                 listenVars, pipeVars
  <2> QED  BY <2>1, <2>2, <2>3
<1>3. /\ UNCHANGED <<users, submap, idx, cpc, late, ppc, backlog>>
      /\ stop' = stop \/ (stop' = TRUE /\ users = <<>>)
  <2>1. CASE Reaped
    BY <2>1 DEF Reaped, loopVars, listenVars, childVars, history, MInv, TypeOK
  <2>2. CASE HandleTerm
    BY <2>2 DEF HandleTerm, loopVars, listenVars
  <2> QED  BY <2>1, <2>2
<1>4. ppc = "stopped" => stop
  BY DEF MInv, StopIsLast
<1>5. stop => stop'
  BY <1>3
<1> QED  BY <1>2, <1>3, <1>4, <1>5, QuietStep

LEMMA ChatInvariant == MInv /\ [Next]_vars => MInv'
<1> SUFFICES ASSUME MInv, [Next]_vars PROVE MInv'
  OBVIOUS
<1>1. CASE UNCHANGED vars
  <2>1. TypeOK'
    BY <1>1 DEF MInv, TypeOK, vars, clientVars, tableVars, loopVars, signalVars, listenVars,
                childVars, pipeVars, history
  <2>2. UNCHANGED <<users, submap, idx, cpc, late, ppc, backlog, stop>>
    BY <1>1 DEF vars, tableVars, loopVars, listenVars, childVars, history
  <2>3. ppc = "stopped" => stop
    BY DEF MInv, StopIsLast
  <2> QED  BY <2>1, <2>2, <2>3, QuietStep
<1>2. CASE ParentStep
  BY <1>2, LoopKeeps, RelayKeeps, ForkKeeps, ReapKeeps, SignalKeeps DEF ParentStep
<1>3. ASSUME NEW c \in Clients, Connect(c) \/ Send(c) \/ HangUp(c) \/ ChildStep(c) PROVE MInv'
  BY <1>3, ConnectKeeps, EnvironmentKeeps, ChildKeeps
<1>4. CASE Terminate
  BY <1>4, EnvironmentKeeps
<1> QED  BY <1>1, <1>2, <1>3, <1>4 DEF Next

(***************************************************************************)
(* Lines 325-391 keep users[] and sub_map_idx inverse to each other,       *)
(* whatever slots are freed, moved and given to new clients meanwhile.     *)
(***************************************************************************)
THEOREM TableStaysExact == Spec => []TableIsExact
<1>1. MInv => TableIsExact
  BY ExactTable
<1> QED  BY <1>1, ChatInitial, ChatInvariant, PTL DEF Spec

(***************************************************************************)
(* The loop of the server ends after its last child, unless a client was   *)
(* accepted behind the signal that stopped it.                             *)
(***************************************************************************)
THEOREM ServerIsLast == Spec => []ServerStopsLast
<1>1. MInv => ServerStopsLast
  <2> SUFFICES ASSUME MInv, ppc = "stopped", "stop" \notin late, NEW c \in Clients
               PROVE  cpc[c] \in {"none", "reaped"}
    BY DEF ServerStopsLast
  <2>1. Len(users) = 0
    BY DEF MInv, StopIsLast
  <2> QED  BY <2>1 DEF MInv, SlotsLeadBack, Held
<1> QED  BY <1>1, ChatInitial, ChatInvariant, PTL DEF Spec

-----------------------------------------------------------------------------
(***************************************************************************)
(* Who writes where, as long as no user has been moved: a child writes the *)
(* segment of its own slot, announces no other, and is told of no segment  *)
(* it could write.                                                         *)
(***************************************************************************)
Own(c) ==
    /\ Held(c) => idx[c] = submap[c]
    /\ \A i \in 1..Len(up[c]) : up[c][i] = idx[c]
    /\ \A i \in 1..Len(down[c]) : down[c][i] # idx[c]
    /\ \A s \in Slots : Running(c) /\ seg[s] = c => s = idx[c]
    /\ ~Running(c) => down[c] = <<>>
    /\ cpc[c] = "none" => up[c] = <<>> /\ \A s \in Slots : seg[s] # c

OwnSegments == ~moved => ~echoed /\ \A c \in Clients : Own(c)

LEMMA SegmentsInitial == Init => OwnSegments
<1>1. ASSUME Init, NEW c \in Clients PROVE Own(c)
  <2>1. cpc[c] = "none" /\ up[c] = <<>> /\ down[c] = <<>> /\ Len(<<>>) = 0
    BY <1>1 DEF Init
  <2>2. \A s \in Slots : seg[s] # c
    BY <1>1, ChatAssumption DEF Init
  <2> QED  BY <2>1, <2>2 DEF Own, Held, Running
<1>2. Init => ~echoed
  BY DEF Init
<1> QED  BY <1>1, <1>2 DEF OwnSegments

\* What a step leaves alone.
LEMMA SameOwn ==
  ASSUME NEW c \in Clients, Own(c), UNCHANGED <<submap[c], idx[c], up[c], down[c]>>,
         cpc'[c] = cpc[c] \/ (Running(c) /\ Running(c)'),
         \A s \in Slots : seg'[s] = c => seg[s] = c
  PROVE  Own(c)'
<1>1. Held(c)' <=> Held(c)
  BY DEF Held, Running
<1>2. Running(c)' <=> Running(c)
  BY DEF Running
<1>3. cpc'[c] = "none" => cpc[c] = "none"
  BY DEF Running
<1> QED  BY <1>1, <1>2, <1>3 DEF Own

LEMMA SameSegments ==
  ASSUME OwnSegments, UNCHANGED <<moved, echoed, submap, idx, up, down, cpc, seg>>
  PROVE  OwnSegments'
<1> SUFFICES ASSUME ~moved, NEW c \in Clients PROVE ~echoed' /\ Own(c)'
  BY DEF OwnSegments
<1>1. ~echoed /\ Own(c)
  BY DEF OwnSegments
<1>2. Own(c)'
  BY <1>1, SameOwn
<1> QED  BY <1>1, <1>2

\* The steps of a child.
LEMMA ChildOwns ==
  ASSUME MInv, OwnSegments, NEW c \in Clients, ChildStep(c) PROVE OwnSegments'
<1>1. UNCHANGED <<moved, submap, idx>>
  BY DEF ChildStep, ChildCloses, ChildSetup, ChildRead, ChildReadEnd, ChildDeliver,
         ChildReadPipeEnd, ChildExit, tableVars, childVars, history
<1> SUFFICES ASSUME ~moved, NEW d \in Clients PROVE ~echoed' /\ Own(d)'
  BY <1>1 DEF OwnSegments
<1>2. ~echoed /\ \A e \in Clients : Own(e)
  BY DEF OwnSegments
<1>3. /\ cpc \in [Clients -> ChildAt] /\ up \in [Clients -> Seq(Slots)]
      /\ down \in [Clients -> Seq(Slots)] /\ seg \in [Slots -> Clients \cup {None}]
      /\ Held(c) /\ Running(c)
  BY DEF MInv, TypeOK, Held, Running, ChildStep, ChildCloses, ChildSetup, ChildRead,
         ChildReadEnd, ChildDeliver, ChildReadPipeEnd, ChildExit
<1>4. idx[c] \in Slots
  BY <1>3 DEF MInv, SegmentsGiven
<1>5. CASE ChildCloses(c) \/ ChildSetup(c)
  <2>1. UNCHANGED <<echoed, up, down, seg>> /\ \E l \in {"deaf", "loop"} : cpc' = [cpc EXCEPT ![c] = l]
    BY <1>5 DEF ChildCloses, ChildSetup, ChildGoto, history, pipeVars
  <2>2. cpc'[d] = cpc[d] \/ (Running(d) /\ Running(d)')
    BY <1>3, <2>1 DEF Running
  <2>3. Own(d)'
    BY <1>1, <1>2, <2>1, <2>2, SameOwn
  <2> QED  BY <1>2, <2>1, <2>3
<1>6. CASE ChildRead(c)
  <2>1. /\ UNCHANGED <<echoed, down, cpc>>
        /\ seg' = [seg EXCEPT ![idx[c]] = c]
        /\ up' = [up EXCEPT ![c] = Append(up[c], idx[c])]
    BY <1>6 DEF ChildRead, history, childVars
  <2>2. \A s \in Slots : seg'[s] = IF s = idx[c] THEN c ELSE seg[s]
    BY <1>3, <2>1
  <2>3. CASE d # c
    <3>1. up'[d] = up[d] /\ \A s \in Slots : seg'[s] = d => seg[s] = d
      BY <1>3, <2>1, <2>2, <2>3
    <3>2. Own(d)'
      BY <1>1, <1>2, <2>1, <3>1, SameOwn
    <3> QED  BY <1>2, <2>1, <3>2
  <2>4. CASE d = c
    <3>1. up'[c] = Append(up[c], idx[c]) /\ up[c] \in Seq(Slots)
      BY <1>3, <2>1
    <3>2. \A i \in 1..Len(up'[c]) : up'[c][i] = idx[c]
      <4>1. \A i \in 1..Len(up[c]) : up[c][i] = idx[c]
        BY <1>2 DEF Own
      <4>2. Len(up'[c]) = Len(up[c]) + 1
            /\ \A i \in 1..Len(up'[c]) : up'[c][i] = IF i = Len(up[c]) + 1 THEN idx[c] ELSE up[c][i]
        BY <1>4, <3>1
      <4>3. Len(up[c]) \in Nat
        BY <3>1
      <4> QED  BY <4>1, <4>2, <4>3
    <3>3. \A s \in Slots : seg'[s] = c => s = idx[c]
      BY <1>2, <1>3, <2>2 DEF Own
    <3>4. Held(c)' /\ Running(c)' /\ cpc'[c] # "none"
      BY <1>3, <2>1 DEF Held, Running
    <3>5. Own(c)'
      BY <1>1, <1>2, <1>3, <2>1, <3>2, <3>3, <3>4 DEF Own
    <3> QED  BY <1>2, <2>1, <2>4, <3>5
  <2> QED  BY <2>3, <2>4
<1>7. CASE ChildReadEnd(c)
  <2>1. UNCHANGED <<echoed, up, down, cpc>> /\ seg' = [seg EXCEPT ![idx[c]] = None]
    BY <1>7 DEF ChildReadEnd, history, pipeVars
  <2>2. \A s \in Slots : seg'[s] = d => seg[s] = d
    BY <1>3, <2>1, ChatAssumption
  <2>3. Own(d)'
    BY <1>1, <1>2, <2>1, <2>2, SameOwn
  <2> QED  BY <1>2, <2>1, <2>3
<1>8. CASE ChildDeliver(c)
  <2>1. /\ UNCHANGED <<up, cpc, seg>> /\ down[c] # <<>>
        /\ echoed' = (echoed \/ seg[Head(down[c])] = c)
        /\ down' = [down EXCEPT ![c] = Tail(down[c])]
    BY <1>8 DEF ChildDeliver, childVars
  <2>2. PICK q \in Seq(Slots) : q = down[c] /\ q # <<>>
    BY <1>3, <2>1
  <2>3. /\ Head(q) = q[1] /\ 1 \in 1..Len(q) /\ Head(q) \in Slots
        /\ \A i \in 1..Len(Tail(q)) : i + 1 \in 1..Len(q) /\ Tail(q)[i] = q[i + 1]
    BY <2>2
  <2>4. \A i \in 1..Len(q) : q[i] # idx[c]
    BY <1>2, <2>2 DEF Own
  <2>5. ~echoed'
    <3>1. Head(q) # idx[c]
      BY <2>3, <2>4
    <3>2. seg[Head(q)] # c
      BY <1>2, <1>3, <2>3, <3>1 DEF Own
    <3> QED  BY <1>2, <2>1, <2>2, <3>2
  <2>6. CASE d # c
    <3>1. down'[d] = down[d]
      BY <1>3, <2>1, <2>6
    <3>2. Own(d)'
      BY <1>1, <1>2, <2>1, <3>1, SameOwn
    <3> QED  BY <2>5, <3>2
  <2>7. CASE d = c
    <3>1. down'[c] = Tail(q)
      BY <1>3, <2>1, <2>2
    <3>2. \A i \in 1..Len(down'[c]) : down'[c][i] # idx[c]
      BY <2>3, <2>4, <3>1
    <3>3. Held(c)' /\ Running(c)' /\ cpc'[c] # "none"
      BY <1>3, <2>1 DEF Held, Running
    <3>4. Own(c)'
      BY <1>1, <1>2, <1>3, <2>1, <3>2, <3>3 DEF Own
    <3> QED  BY <2>5, <2>7, <3>4
  <2> QED  BY <2>6, <2>7
<1>9. CASE ChildReadPipeEnd(c)
  <2>1. UNCHANGED <<echoed, up, down, cpc, seg>>
    BY <1>9 DEF ChildReadPipeEnd, history, pipeVars
  <2>2. Own(d)'
    BY <1>1, <1>2, <2>1, SameOwn
  <2> QED  BY <1>2, <2>1, <2>2
<1>10. CASE ChildExit(c)
  <2>1. /\ UNCHANGED <<echoed, up, seg>> /\ cpc' = [cpc EXCEPT ![c] = "zombie"]
        /\ down' = [down EXCEPT ![c] = <<>>]
    BY <1>10 DEF ChildExit, ChildGoto, history
  <2>2. CASE d # c
    <3>1. down'[d] = down[d] /\ cpc'[d] = cpc[d]
      BY <1>3, <2>1, <2>2
    <3>2. Own(d)'
      BY <1>1, <1>2, <2>1, <3>1, SameOwn
    <3> QED  BY <1>2, <2>1, <3>2
  <2>3. CASE d = c
    <3>1. cpc'[c] = "zombie" /\ down'[c] = <<>> /\ Len(<<>>) = 0
      BY <1>3, <2>1
    <3>2. Own(c)'
      BY <1>1, <1>2, <1>3, <2>1, <3>1 DEF Own, Held, Running
    <3> QED  BY <1>2, <2>1, <2>3, <3>2
  <2> QED  BY <2>2, <2>3
<1> QED  BY <1>5, <1>6, <1>7, <1>8, <1>9, <1>10 DEF ChildStep

\* A child is told of the slot of another, and no two have the same.
LEMMA RelayOwns ==
  ASSUME MInv, OwnSegments, NEW c \in Clients, EntryRelay(c) PROVE OwnSegments'
<1>1. /\ UNCHANGED <<moved, echoed, submap, idx, cpc, seg>>
      /\ up' = [up EXCEPT ![c] = Tail(up[c])] /\ up[c] # <<>> /\ Contains(users, c)
  BY DEF EntryRelay, tableVars, childVars, history
<1> SUFFICES ASSUME ~moved, NEW d \in Clients PROVE ~echoed' /\ Own(d)'
  BY <1>1 DEF OwnSegments
<1>2. ~echoed /\ \A e \in Clients : Own(e)
  BY DEF OwnSegments
<1>3. /\ up \in [Clients -> Seq(Slots)] /\ down \in [Clients -> Seq(Slots)]
      /\ users \in Seq(Clients) /\ cpc \in [Clients -> ChildAt]
  BY DEF MInv, TypeOK
<1>4. PICK q \in Seq(Slots) : q = up[c] /\ q # <<>>
  BY <1>1, <1>3
<1>5. /\ Head(q) = q[1] /\ 1 \in 1..Len(q) /\ Head(q) \in Slots
      /\ \A i \in 1..Len(Tail(q)) : i + 1 \in 1..Len(q) /\ Tail(q)[i] = q[i + 1]
  BY <1>4
<1>6. \A i \in 1..Len(q) : q[i] = idx[c]
  BY <1>2, <1>4 DEF Own
<1>7. Held(c)
  <2>1. \E i \in 1..Len(users) : users[i] = c
    BY <1>1 DEF Contains
  <2> QED  BY <2>1 DEF MInv, SlotsLeadBack
<1>8. \A i \in 1..Len(up'[d]) : up'[d][i] = idx[d]
  <2>1. CASE d = c
    <3>1. up'[d] = Tail(q)
      BY <1>1, <1>3, <1>4, <2>1
    <3> QED  BY <1>5, <1>6, <2>1, <3>1
  <2>2. CASE d # c
    <3>1. up'[d] = up[d]
      BY <1>1, <1>3, <2>2
    <3> QED  BY <1>2, <3>1 DEF Own
  <2> QED  BY <2>1, <2>2
<1>9. down'[d] = down[d] \/ (d # c /\ Running(d) /\ down'[d] = Append(down[d], idx[c]))
  <2>1. Head(up[c]) = idx[c]
    BY <1>4, <1>5, <1>6
  <2> QED  BY <2>1 DEF EntryRelay
<1>10. (\A i \in 1..Len(down'[d]) : down'[d][i] # idx[d]) /\ (~Running(d) => down'[d] = <<>>)
  <2>1. CASE down'[d] = down[d]
    BY <1>2, <2>1 DEF Own
  <2>2. CASE d # c /\ Running(d) /\ down'[d] = Append(down[d], idx[c])
    <3>1. Held(d)
      BY <2>2 DEF Held, Running
    <3>2. idx[c] # idx[d] /\ idx[c] \in Slots
      <4>1. idx[c] = submap[c] /\ idx[d] = submap[d]
        BY <1>2, <1>7, <3>1 DEF Own
      <4>2. users[submap[c]] = c /\ users[submap[d]] = d
        BY <1>7, <3>1 DEF MInv, SlotsLeadBack
      <4>3. idx[c] \in Slots
        BY <1>7 DEF MInv, SegmentsGiven
      <4> QED  BY <2>2, <4>1, <4>2, <4>3
    <3>3. down[d] \in Seq(Slots) /\ \A i \in 1..Len(down[d]) : down[d][i] # idx[d]
      BY <1>2, <1>3 DEF Own
    <3>4. /\ Len(down'[d]) = Len(down[d]) + 1 /\ Len(down[d]) \in Nat
          /\ \A i \in 1..Len(down'[d]) :
                down'[d][i] = IF i = Len(down[d]) + 1 THEN idx[c] ELSE down[d][i]
      BY <2>2, <3>2, <3>3
    <3>5. \A i \in 1..Len(down'[d]) : down'[d][i] # idx[d]
      BY <3>2, <3>3, <3>4
    <3> QED  BY <2>2, <3>5
  <2> QED  BY <1>9, <2>1, <2>2
<1>11. cpc[d] = "none" => up'[d] = <<>>
  <2>1. cpc[d] = "none" => d # c
    BY <1>7 DEF Held
  <2> QED  BY <1>1, <1>2, <1>3, <2>1 DEF Own
<1>12. Own(d)'
  BY <1>1, <1>2, <1>8, <1>10, <1>11 DEF Own, Held, Running
<1> QED  BY <1>1, <1>2, <1>12

\* A new child starts with empty pipes and has written nothing.
LEMMA ForkOwns == ASSUME MInv, OwnSegments, EntryFork PROVE OwnSegments'
<1>1. PICK c, s : /\ c = Head(backlog) /\ s = Len(users) + 1
                  /\ submap' = [submap EXCEPT ![c] = s] /\ idx' = [idx EXCEPT ![c] = s]
                  /\ cpc' = [cpc EXCEPT ![c] = "forked"]
                  /\ backlog # <<>> /\ UNCHANGED <<moved, echoed, up, down, seg>>
  BY DEF EntryFork, pipeVars
<1> SUFFICES ASSUME ~moved, NEW d \in Clients PROVE ~echoed' /\ Own(d)'
  BY <1>1 DEF OwnSegments
<1>2. ~echoed /\ \A e \in Clients : Own(e)
  BY DEF OwnSegments
<1>3. /\ submap \in [Clients -> Slots \cup {NoSlot}] /\ idx \in [Clients -> Slots \cup {NoSlot}]
      /\ cpc \in [Clients -> ChildAt] /\ backlog \in Seq(Clients)
  BY DEF MInv, TypeOK
<1>4. c \in Clients /\ cpc[c] = "none"
  <2>1. c = backlog[1] /\ 1 \in 1..Len(backlog) /\ c \in Clients
    BY <1>1, <1>3
  <2> QED  BY <2>1 DEF MInv, WaitOnce
<1>5. CASE d # c
  <2>1. UNCHANGED <<submap[d], idx[d], cpc[d]>>
    BY <1>1, <1>3, <1>5
  <2>2. Own(d)'
    BY <1>1, <1>2, <2>1, SameOwn
  <2> QED  BY <1>1, <1>2, <2>2
<1>6. CASE d = c
  <2>1. up[c] = <<>> /\ down[c] = <<>> /\ (\A x \in Slots : seg[x] # c) /\ Len(<<>>) = 0
    BY <1>2, <1>4 DEF Own, Running
  <2>2. submap'[c] = s /\ idx'[c] = s /\ cpc'[c] = "forked"
    BY <1>1, <1>3, <1>4
  <2>3. Own(c)'
    BY <1>1, <2>1, <2>2 DEF Own, Held, Running
  <2> QED  BY <1>1, <1>2, <1>6, <2>3
<1> QED  BY <1>5, <1>6

\* Who is reaped takes its announcements along; the slots of the others change
\* only by a move.
LEMMA ReapOwns ==
  ASSUME MInv, OwnSegments, NEW c \in Clients, Reap(c) PROVE OwnSegments'
<1>1. /\ submap' = [submap EXCEPT ![c] = NoSlot, ![users[Len(users)]] = submap[c]]
      /\ idx' = [idx EXCEPT ![c] = NoSlot] /\ up' = [up EXCEPT ![c] = <<>>]
      /\ cpc' = [cpc EXCEPT ![c] = "reaped"] /\ cpc[c] = "zombie"
      /\ moved' = (moved \/ submap[c] # Len(users))
      /\ UNCHANGED <<echoed, down, seg>>
  BY DEF Reap
<1> SUFFICES ASSUME ~moved, submap[c] = Len(users), NEW d \in Clients PROVE ~echoed' /\ Own(d)'
  BY <1>1 DEF OwnSegments
<1>2. ~echoed /\ \A e \in Clients : Own(e)
  BY DEF OwnSegments
<1>3. /\ submap \in [Clients -> Slots \cup {NoSlot}] /\ idx \in [Clients -> Slots \cup {NoSlot}]
      /\ cpc \in [Clients -> ChildAt] /\ up \in [Clients -> Seq(Slots)]
  BY DEF MInv, TypeOK
<1>4. users[Len(users)] = c
  BY <1>1 DEF Held, MInv, SlotsLeadBack
<1>5. CASE d # c
  <2>1. UNCHANGED <<submap[d], idx[d], up[d], cpc[d]>>
    BY <1>1, <1>3, <1>4, <1>5
  <2>2. Own(d)'
    BY <1>1, <1>2, <2>1, SameOwn
  <2> QED  BY <1>1, <1>2, <2>2
<1>6. CASE d = c
  <2>1. up'[c] = <<>> /\ cpc'[c] = "reaped" /\ down'[c] = <<>> /\ Len(<<>>) = 0
    BY <1>1, <1>2, <1>3 DEF Own, Running
  <2>2. Own(c)'
    BY <2>1 DEF Own, Held, Running
  <2> QED  BY <1>1, <1>2, <1>6, <2>2
<1> QED  BY <1>5, <1>6

LEMMA SegmentsStayOwn == MInv /\ OwnSegments /\ [Next]_vars => OwnSegments'
<1> SUFFICES ASSUME MInv, OwnSegments, [Next]_vars PROVE OwnSegments'
  OBVIOUS
<1>1. CASE UNCHANGED vars
  BY <1>1, SameSegments DEF vars, tableVars, childVars, pipeVars, history
<1>2. ASSUME NEW c \in Clients, Connect(c) \/ Send(c) \/ HangUp(c) PROVE OwnSegments'
  BY <1>2, SameSegments DEF Connect, Send, HangUp, tableVars, childVars, pipeVars, history
<1>3. CASE Terminate
  BY <1>3, SameSegments DEF Terminate, tableVars, childVars, pipeVars
<1>4. CASE ParentStep
  <2>1. CASE ParentWait \/ ParentExit \/ ParentBatchEnds \/ EntryNobody \/ EntryRefuse
             \/ EntrySignals \/ Reaped \/ HandleTerm
    <3>1. UNCHANGED <<moved, echoed, submap, idx, up, down, cpc, seg>>
      BY <2>1 DEF ParentWait, ParentExit, ParentBatchEnds, EntryNobody, EntryRefuse,
             EntrySignals, Reaped, HandleTerm, tableVars, childVars, pipeVars, history
    <3> QED  BY <3>1, SameSegments
  <2>2. ASSUME NEW c \in Clients, EntryEmpty(c) PROVE OwnSegments'
    BY <2>2, SameSegments DEF EntryEmpty, tableVars, childVars, pipeVars, history
  <2> QED  BY <1>4, <2>1, <2>2, ForkOwns, RelayOwns, ReapOwns DEF ParentStep
<1>5. ASSUME NEW c \in Clients, ChildStep(c) PROVE OwnSegments'
  BY <1>5, ChildOwns
<1> QED  BY <1>1, <1>2, <1>3, <1>4, <1>5 DEF Next

(***************************************************************************)
(* Line 427: a child is told of data of others only.  It holds until the   *)
(* swap of line 390 moves a user: a slot that is freed and given to a new  *)
(* client confuses no notification that is still on its way.               *)
(***************************************************************************)
THEOREM NoEchoWithoutMove == Spec => []NoEchoUnmoved
<1>1. OwnSegments => NoEchoUnmoved
  BY DEF OwnSegments, NoEchoUnmoved, NoEcho
<1> QED  BY <1>1, ChatInitial, ChatInvariant, SegmentsInitial, SegmentsStayOwn, PTL DEF Spec
=============================================================================
