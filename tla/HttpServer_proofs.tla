-------------------------- MODULE HttpServer_proofs --------------------------
(***************************************************************************)
(* The two halves of http_conn.  The server around the connections: one    *)
(* owner for each, nothing stale, one way only to lose a descriptor or to  *)
(* miscount, for any number of clients, descriptors and workers and any    *)
(* limits.  One connection, in the second half of the module: every        *)
(* request is answered as it asks, wherever the network cuts it and        *)
(* however large the buffer is.                                            *)
(***************************************************************************)
EXTENDS HttpServer, HttpConn, FiniteSetTheorems, SequenceTheorems, WellFoundedInduction, TLAPS

\* Where a descriptor can be.
Armed(f)  == sock[f].armed \in {"in", "out"}
AtAdd(f)  == mpc = "add" /\ mfd = f
Told(f)   == \E e \in evs : e.fd = f
Queued(f) == \E i \in 1..Len(waiting) : waiting[i] = f
Served(f) == \E w \in Workers : busy[w] = f

\* Two connections are never one in the tables of the threads.
Matches ==
    /\ \A w \in Workers : wpc[w] = "idle" <=> busy[w] = None
    /\ mpc # "loop" => mfd \in Fds
    /\ \A f \in Fds : slot[f].fd \in {f, Closed}

\* Nothing is in two places, and nothing is twice in the same.
Apart(f) ==
    /\ AtAdd(f) => ~Armed(f) /\ ~Told(f) /\ ~Queued(f) /\ ~Served(f) /\ f \notin stranded
    /\ Armed(f) => ~Told(f) /\ ~Queued(f) /\ ~Served(f) /\ f \notin stranded
    /\ Told(f) => ~Queued(f) /\ ~Served(f) /\ f \notin stranded
    /\ Queued(f) => ~Served(f) /\ f \notin stranded
    /\ Served(f) => f \notin stranded

Single ==
    /\ \A e1, e2 \in evs : e1.fd = e2.fd => e1 = e2
    /\ \A i, j \in 1..Len(waiting) : waiting[i] = waiting[j] => i = j
    /\ \A w1, w2 \in Workers : busy[w1] = busy[w2] /\ busy[w1] # None => w1 = w2

\* An open connection is somewhere and has its slot; a closed one is nowhere,
\* or with the worker that closed it.
Placed(f) ==
    /\ sock[f].peer # None =>
         /\ AtAdd(f) \/ Armed(f) \/ Told(f) \/ Queued(f) \/ Served(f) \/ f \in stranded
         /\ sock[f].armed = "absent" => AtAdd(f)
         /\ slot[f].fd = f
    /\ sock[f].peer = None =>
         /\ sock[f].armed = "absent"
         /\ ~AtAdd(f) /\ ~Told(f) /\ ~Queued(f) /\ f \notin stranded
    /\ \A w \in Workers : busy[w] = f =>
         /\ wpc[w] \in {"run", "remove"} => sock[f].peer # None
         /\ wpc[w] \in {"clear", "store"} => sock[f].peer = None

Owned == ~raced => Single /\ \A f \in Fds : Apart(f) /\ Placed(f)

HInv == TypeOK /\ Matches /\ Owned

-----------------------------------------------------------------------------
LEMMA LowestIsFree == ASSUME FreeFds # {} PROVE Lowest(FreeFds) \in FreeFds
<1>1. FreeFds \subseteq Nat
  BY ServerAssumption DEF FreeFds
<1>2. PICK f \in FreeFds : \A g \in FreeFds : <<g, f>> \notin OpToRel(<, Nat)
  BY <1>1, WFMin, NatLessThanWellFounded
<1>3. \A g \in FreeFds : ~(g < f)
  BY <1>1, <1>2, Zenon DEF OpToRel
<1>4. \A g \in FreeFds : f <= g
  BY <1>1, <1>3
<1> QED  BY <1>4 DEF Lowest

LEMMA Constants == None \notin Fds /\ None \notin Clients /\ Closed \notin Fds /\ Listen \notin Fds
  BY ServerAssumption DEF Closed, Listen

LEMMA ServerInitial == Init => HInv
<1> SUFFICES ASSUME Init PROVE HInv
  OBVIOUS
<1>1. waiting = <<>> /\ busy = [w \in Workers |-> None]
  BY DEF Init, Pool!Init
<1>2. TypeOK
  <2>1. waiting \in Seq(Fds) /\ backlog \in Seq(Waiters) /\ busy \in [Workers -> Fds \cup {None}]
    BY <1>1 DEF Init
  <2>2. sock \in [Fds -> Sockets] /\ slot \in [Fds -> Users]
    BY DEF Init, Free, Stream, Fresh, Sockets, Users
  <2>3. /\ client \in [Clients -> {"new", "backlog", "open", "gone"}]
        /\ sent \in [Clients -> Nat] /\ expects \in [Clients -> BOOLEAN]
        /\ wcnt \in [Workers -> Int] /\ evs \subseteq Events /\ stranded \subseteq Fds
        /\ wpc \in [Workers -> {"idle", "run", "in", "out", "remove", "clear", "store"}]
    BY ServerAssumption DEF Init
  <2>4. /\ mpc \in {"loop", "add", "count", "uncount"} /\ mfd \in Fds \cup {None}
        /\ mcnt \in Int /\ userCnt \in Int
    BY DEF Init
  <2>5. arrived \in BOOLEAN /\ raced \in BOOLEAN
    BY Zenon DEF Init
  <2> QED  BY <2>1, <2>2, <2>3, <2>4, <2>5 DEF TypeOK
<1>3. Matches
  BY <1>1 DEF Init, Matches, Fresh
<1>4. Single
  BY <1>1, Constants DEF Init, Single
<1>5. ASSUME NEW f \in Fds PROVE Apart(f) /\ Placed(f)
  <2>1. ~AtAdd(f) /\ ~Armed(f) /\ ~Told(f) /\ ~Queued(f) /\ ~Served(f) /\ f \notin stranded
    BY <1>1, Constants DEF Init, AtAdd, Armed, Told, Queued, Served, Free, Stream
  <2> QED  BY <1>1, <2>1, Constants DEF Init, Apart, Placed, Free, Stream
<1> QED  BY <1>2, <1>3, <1>4, <1>5 DEF HInv, Owned
-----------------------------------------------------------------------------
(***************************************************************************)
(* What the operators on descriptors do.                                   *)
(***************************************************************************)
LEMMA ArmEffect ==
  ASSUME NEW s \in [Fds -> Sockets], NEW fd, NEW ev \in {"in", "out"},
         NEW t, t = Arm(s, fd, ev)
  PROVE  t \in [Fds -> Sockets] /\ \A g \in Fds : t[g].peer = s[g].peer
<1>1. CASE fd \in Fds /\ s[fd].armed # "absent"
  <2>1. t = [s EXCEPT ![fd].armed = ev]
    BY <1>1 DEF Arm
  <2> QED  BY <1>1, <2>1 DEF Sockets
<1>2. CASE ~(fd \in Fds /\ s[fd].armed # "absent")
  BY <1>2 DEF Arm
<1> QED  BY <1>1, <1>2

LEMMA ArmOpen ==
  ASSUME NEW s \in [Fds -> Sockets], NEW f \in Fds, s[f].armed # "absent", NEW ev \in {"in", "out"},
         NEW t, t = Arm(s, f, ev)
  PROVE  /\ t \in [Fds -> Sockets]
         /\ t[f].peer = s[f].peer /\ t[f].armed = ev
         /\ \A g \in Fds \ {f} : t[g] = s[g]
<1>1. t = [s EXCEPT ![f].armed = ev]
  BY DEF Arm
<1> QED  BY <1>1 DEF Sockets

LEMMA FreshType == ASSUME NEW f \in Fds \cup {Closed} PROVE Fresh(f) \in Users /\ Fresh(f).fd = f
  BY DEF Fresh, Users

LEMMA FreeType == Free \in Sockets /\ Free.peer = None /\ Free.armed = "absent"
  BY DEF Free, Stream, Sockets

LEMMA ShutEffect ==
  ASSUME TypeOK, NEW f \in Fds, Shut(f)
  PROVE  /\ sock' \in [Fds -> Sockets]
         /\ client' \in [Clients -> {"new", "backlog", "open", "gone"}]
         /\ expects' \in [Clients -> BOOLEAN]
         /\ sock' = [sock EXCEPT ![f] = Free]
<1>1. sock' = [sock EXCEPT ![f] = Free] /\ sock \in [Fds -> Sockets]
  BY DEF Shut, TypeOK
<1>2. sock' \in [Fds -> Sockets]
  BY <1>1, FreeType
<1>3. sock[f].peer \in Clients \cup {None}
  BY <1>1 DEF Sockets
<1>4. /\ client' \in [Clients -> {"new", "backlog", "open", "gone"}]
      /\ expects' \in [Clients -> BOOLEAN]
  <2>1. CASE sock[f].peer = None
    BY <2>1 DEF Shut, TypeOK
  <2>2. CASE sock[f].peer # None
    BY <1>3, <2>2 DEF Shut, TypeOK
  <2> QED  BY <2>1, <2>2
<1> QED  BY <1>1, <1>2, <1>4

\* The main thread closes a connection, or finds it closed.
LEMMA MainCloseEffect ==
  ASSUME TypeOK, Matches, NEW f \in Fds, mpc = "loop", MainClose(f)
  PROVE  /\ sock' \in [Fds -> Sockets] /\ slot' \in [Fds -> Users]
         /\ client' \in [Clients -> {"new", "backlog", "open", "gone"}]
         /\ expects' \in [Clients -> BOOLEAN]
         /\ mpc' \in {"loop", "uncount"} /\ mfd' \in Fds \cup {None} /\ mcnt' \in Int
         /\ mpc' # "loop" => mfd' \in Fds
         /\ \/ /\ slot[f].fd = Closed
               /\ UNCHANGED <<sock, slot, mpc>>
            \/ /\ slot[f].fd = f /\ mpc' = "uncount" /\ mcnt' = userCnt
               /\ sock' = [sock EXCEPT ![f] = Free]
               /\ slot' = [slot EXCEPT ![f].fd = Closed]
<1>1. CASE slot[f].fd = Closed
  BY <1>1 DEF MainClose, TypeOK, Matches
<1>2. CASE slot[f].fd # Closed
  <2>1. slot[f].fd = f /\ Shut(f)
    BY <1>2 DEF MainClose, Matches
  <2>2. slot' = [slot EXCEPT ![f].fd = Closed] /\ mcnt' = userCnt /\ mfd' = f /\ mpc' = "uncount"
    BY <1>2 DEF MainClose
  <2>3. slot' \in [Fds -> Users] /\ mcnt' \in Int
    BY <2>2 DEF TypeOK, Users
  <2> QED  BY <2>1, <2>2, <2>3, ShutEffect
<1> QED  BY <1>1, <1>2
-----------------------------------------------------------------------------
(***************************************************************************)
(* Two kinds of steps: those that leave every descriptor where it is, and  *)
(* those that move one.                                                    *)
(***************************************************************************)
LEMMA QuietStep ==
  ASSUME HInv, TypeOK', Matches', UNCHANGED <<waiting, busy, stranded, raced>>,
         evs' \subseteq evs, \A e \in evs \ evs' : e.fd \notin Fds,
         \A f \in Fds : /\ sock'[f].peer = sock[f].peer
                        /\ sock'[f].armed = sock[f].armed
                        /\ slot'[f].fd = slot[f].fd
                        /\ AtAdd(f)' <=> AtAdd(f),
         \A w \in Workers : \/ wpc'[w] = wpc[w] \/ wpc'[w] \in {"in", "out"}
                            \/ wpc[w] = "run" /\ wpc'[w] = "remove"
  PROVE  HInv'
<1> SUFFICES ASSUME ~raced PROVE Single' /\ \A f \in Fds : Apart(f)' /\ Placed(f)'
  BY DEF HInv, Owned
<1>1. Single'
  BY DEF HInv, Owned, Single
<1>2. ASSUME NEW f \in Fds PROVE Apart(f)' /\ Placed(f)'
  <2>1. /\ Told(f)' <=> Told(f)
        /\ Queued(f)' <=> Queued(f)
        /\ Served(f)' <=> Served(f)
        /\ Armed(f)' <=> Armed(f)
        /\ AtAdd(f)' <=> AtAdd(f)
    BY DEF Told, Queued, Served, Armed
  <2>2. Apart(f) /\ Placed(f)
    BY DEF HInv, Owned
  <2>3. Apart(f)'
    BY <2>1, <2>2 DEF Apart
  <2>4. Placed(f)'
    BY <2>1, <2>2 DEF Placed
  <2> QED  BY <2>3, <2>4
<1> QED  BY <1>1, <1>2

\* Nothing of what the invariant says of a descriptor changes.
Still(g) ==
    /\ sock'[g].peer = sock[g].peer /\ sock'[g].armed = sock[g].armed
    /\ slot'[g].fd = slot[g].fd
    /\ AtAdd(g)' <=> AtAdd(g)
    /\ Told(g)' <=> Told(g)
    /\ Queued(g)' <=> Queued(g)
    /\ g \in stranded' <=> g \in stranded
    /\ \A w \in Workers : /\ busy'[w] = g <=> busy[w] = g
                          /\ busy[w] = g => wpc'[w] = wpc[w]

LEMMA MoveStep ==
  ASSUME HInv, TypeOK', Matches', raced => raced',
         ~raced' => /\ Single'
                    /\ \E f \in Fds : /\ Apart(f)' /\ Placed(f)'
                                      /\ \A g \in Fds \ {f} : Still(g)
  PROVE  HInv'
<1> SUFFICES ASSUME ~raced', NEW g \in Fds PROVE Apart(g)' /\ Placed(g)'
  BY DEF HInv, Owned
<1>1. PICK f \in Fds : Apart(f)' /\ Placed(f)' /\ \A h \in Fds \ {f} : Still(h)
  OBVIOUS
<1>2. CASE g = f
  BY <1>1, <1>2
<1>3. CASE g # f
  <2>1. Still(g) /\ Apart(g) /\ Placed(g)
    BY <1>1, <1>3 DEF HInv, Owned
  <2>2. Armed(g)' <=> Armed(g)
    BY <2>1 DEF Still, Armed
  <2>3. Served(g)' <=> Served(g)
    BY <2>1 DEF Still, Served
  <2>4. Apart(g)'
    BY <2>1, <2>2, <2>3 DEF Apart, Still
  <2>5. Placed(g)'
    BY <2>1, <2>2, <2>3 DEF Placed, Still
  <2> QED  BY <2>4, <2>5
<1> QED  BY <1>2, <1>3

\* What the main thread knows of a connection whose event it handles.
LEMMA HandledEvent ==
  ASSUME HInv, ~raced, NEW e \in evs, e.fd \in Fds, Handle(e)
  PROVE  /\ sock[e.fd].peer # None /\ slot[e.fd].fd = e.fd
         /\ sock[e.fd].armed # "absent" /\ mpc = "loop"
         /\ ~Armed(e.fd) /\ ~Queued(e.fd) /\ ~Served(e.fd) /\ e.fd \notin stranded
         /\ ~Told(e.fd)' /\ \A g \in Fds \ {e.fd} : Told(g)' <=> Told(g)
<1>1. Single /\ Apart(e.fd) /\ Placed(e.fd) /\ Told(e.fd)
  BY DEF HInv, Owned, Told
<1>2. ~Told(e.fd)' /\ \A g \in Fds \ {e.fd} : Told(g)' <=> Told(g)
  BY <1>1 DEF Handle, Told, Single
<1>3. mpc = "loop" /\ ~AtAdd(e.fd)
  BY DEF Handle, AtAdd
<1> QED  BY <1>1, <1>2, <1>3 DEF Apart, Placed

\* When the main thread is not about to call add_fd2, and stays so.
LEMMA NotAtAdd ==
  ASSUME mpc # "add", mpc' # "add"
  PROVE  \A f : ~AtAdd(f) /\ ~AtAdd(f)'
BY DEF AtAdd

LEMMA AddStays ==
  ASSUME UNCHANGED <<mpc, mfd>>
  PROVE  \A f : AtAdd(f)' <=> AtAdd(f)
BY DEF AtAdd

-----------------------------------------------------------------------------
(***************************************************************************)
(* Steps that move nothing.                                                *)
(***************************************************************************)
\* A socket of which the peer and the registration stay.
Alike(s, t) == t \in Sockets /\ t.peer = s.peer /\ t.armed = s.armed

LEMMA OneSocketChanges ==
  ASSUME TypeOK, NEW f \in Fds, NEW t, Alike(sock[f], t), sock' = [sock EXCEPT ![f] = t]
  PROVE  /\ sock' \in [Fds -> Sockets]
         /\ \A g \in Fds : sock'[g].peer = sock[g].peer /\ sock'[g].armed = sock[g].armed
BY DEF TypeOK, Alike

LEMMA OneWaiterChanges ==
  ASSUME TypeOK, NEW i \in DOMAIN backlog, NEW t, Alike(backlog[i], t),
         backlog' = [backlog EXCEPT ![i] = t]
  PROVE  backlog' \in Seq(Waiters)
<1>1. backlog \in Seq(Waiters) /\ backlog[i] \in Waiters
  BY DEF TypeOK
<1>2. t \in Waiters
  BY <1>1 DEF Alike, Waiters
<1> QED  BY <1>1, <1>2

LEMMA ClientKeeps ==
  ASSUME HInv, NEW c \in Clients, Connect(c) \/ Send(c) \/ HangUp(c)
  PROVE  HInv'
<1> USE DEF HInv
<1>1. CASE Connect(c)
  <2>1. Stream(c) \in Waiters
    BY DEF Stream, Waiters, Sockets
  <2>2. TypeOK'
    BY <1>1, <2>1, AppendProperties DEF Connect, TypeOK, poolVars, mainVars, workerVars, history
  <2> QED  BY <1>1, <2>2, QuietStep, AddStays
           DEF Connect, Matches, poolVars, mainVars, workerVars, history
<1>2. ASSUME expects' \in [Clients -> BOOLEAN], sent' \in [Clients -> Nat],
             \/ \E f \in Fds : \E t : Alike(sock[f], t) /\ sock' = [sock EXCEPT ![f] = t]
                                   /\ UNCHANGED backlog
             \/ \E i \in DOMAIN backlog : \E t : Alike(backlog[i], t)
                                   /\ backlog' = [backlog EXCEPT ![i] = t] /\ UNCHANGED sock,
             UNCHANGED <<poolVars, client, arrived, mainVars, workerVars, slot, userCnt, history>>
      PROVE  HInv'
  <2>1. sock' \in [Fds -> Sockets] /\ backlog' \in Seq(Waiters)
        /\ \A g \in Fds : sock'[g].peer = sock[g].peer /\ sock'[g].armed = sock[g].armed
    <3>1. sock \in [Fds -> Sockets] /\ backlog \in Seq(Waiters)
      BY DEF TypeOK
    <3>2. CASE \E f \in Fds : \E t : Alike(sock[f], t) /\ sock' = [sock EXCEPT ![f] = t]
                                   /\ UNCHANGED backlog
      BY <3>1, <3>2, OneSocketChanges
    <3>3. CASE \E i \in DOMAIN backlog : \E t : Alike(backlog[i], t)
                                   /\ backlog' = [backlog EXCEPT ![i] = t] /\ UNCHANGED sock
      BY <3>1, <3>3, OneWaiterChanges
    <3> QED  BY <1>2, <3>2, <3>3
  <2>2. TypeOK'
    BY <1>2, <2>1 DEF TypeOK, poolVars, mainVars, workerVars, history
  <2> QED  BY <1>2, <2>1, <2>2, QuietStep, AddStays
           DEF Matches, poolVars, mainVars, workerVars, history
<1>3. CASE Send(c)
  <2>1. PICK piece \in {"part", "request"} :
          \/ \E f \in Fds : Sends(c, sock[f], piece)
                            /\ sock' = [sock EXCEPT ![f].inbox = piece] /\ UNCHANGED backlog
          \/ \E i \in DOMAIN backlog : Sends(c, backlog[i], piece)
                /\ backlog' = [backlog EXCEPT ![i].inbox = piece] /\ UNCHANGED sock
    BY <1>3 DEF Send
  <2>2. ASSUME NEW s \in Sockets PROVE Alike(s, [s EXCEPT !.inbox = piece])
    BY DEF Alike, Sockets
  <2>3. \A f \in Fds : sock[f] \in Sockets
    BY DEF TypeOK
  <2>4. \A i \in DOMAIN backlog : backlog[i] \in Sockets
    BY DEF TypeOK, Waiters
  <2>5. ASSUME NEW s, Sends(c, s, piece)
        PROVE  expects' \in [Clients -> BOOLEAN] /\ sent' \in [Clients -> Nat]
    <3>1. (piece = "request") \in BOOLEAN
      OBVIOUS
    <3>2. expects' \in [Clients -> BOOLEAN]
      BY <2>5, <3>1, Zenon DEF Sends, TypeOK
    <3>3. sent' \in [Clients -> Nat]
      BY <2>5, ServerAssumption DEF Sends, TypeOK
    <3> QED  BY <3>2, <3>3
  <2>6. CASE \E f \in Fds : Sends(c, sock[f], piece)
                            /\ sock' = [sock EXCEPT ![f].inbox = piece] /\ UNCHANGED backlog
    <3>1. PICK f \in Fds : Sends(c, sock[f], piece)
                          /\ sock' = [sock EXCEPT ![f].inbox = piece] /\ UNCHANGED backlog
      BY <2>6
    <3>2. sock' = [sock EXCEPT ![f] = [sock[f] EXCEPT !.inbox = piece]]
      BY <3>1 DEF TypeOK
    <3> QED  BY <1>2, <1>3, <2>2, <2>3, <2>5, <3>1, <3>2 DEF Send
  <2>7. CASE \E i \in DOMAIN backlog : Sends(c, backlog[i], piece)
                /\ backlog' = [backlog EXCEPT ![i].inbox = piece] /\ UNCHANGED sock
    <3>1. PICK i \in DOMAIN backlog : Sends(c, backlog[i], piece)
                /\ backlog' = [backlog EXCEPT ![i].inbox = piece] /\ UNCHANGED sock
      BY <2>7
    <3>2. backlog' = [backlog EXCEPT ![i] = [backlog[i] EXCEPT !.inbox = piece]]
      BY <3>1 DEF TypeOK
    <3> QED  BY <1>2, <1>3, <2>2, <2>4, <2>5, <3>1, <3>2 DEF Send
  <2> QED  BY <2>1, <2>6, <2>7
<1>4. CASE HangUp(c)
  <2>1. ASSUME NEW s \in Sockets PROVE Alike(s, [s EXCEPT !.eof = TRUE])
    BY DEF Alike, Sockets
  <2>2. expects' \in [Clients -> BOOLEAN] /\ sent' \in [Clients -> Nat]
    BY <1>4 DEF HangUp, TypeOK
  <2>3. CASE \E f \in Fds : sock' = [sock EXCEPT ![f].eof = TRUE] /\ UNCHANGED backlog
    <3>1. PICK f \in Fds : sock' = [sock EXCEPT ![f].eof = TRUE] /\ UNCHANGED backlog
      BY <2>3
    <3>2. sock[f] \in Sockets /\ sock' = [sock EXCEPT ![f] = [sock[f] EXCEPT !.eof = TRUE]]
      BY <3>1 DEF TypeOK
    <3> QED  BY <1>2, <1>4, <2>1, <2>2, <3>1, <3>2 DEF HangUp
  <2>4. CASE \E i \in DOMAIN backlog : backlog' = [backlog EXCEPT ![i].eof = TRUE] /\ UNCHANGED sock
    <3>1. PICK i \in DOMAIN backlog : backlog' = [backlog EXCEPT ![i].eof = TRUE] /\ UNCHANGED sock
      BY <2>4
    <3>2. backlog[i] \in Sockets
          /\ backlog' = [backlog EXCEPT ![i] = [backlog[i] EXCEPT !.eof = TRUE]]
      BY <3>1 DEF TypeOK, Waiters
    <3> QED  BY <1>2, <1>4, <2>1, <2>2, <3>1, <3>2 DEF HangUp
  <2> QED  BY <1>4, <2>3, <2>4 DEF HangUp
<1> QED  BY <1>1, <1>3, <1>4

LEMMA QuietMainKeeps ==
  ASSUME HInv, AcceptFails \/ AcceptBusy \/ InitCount \/ CloseCount
  PROVE  HInv'
<1> USE Constants DEF HInv, poolVars, clientVars, workerVars, history, Matches
<1>1. CASE AcceptFails
  <2>1. TypeOK'
    BY <1>1 DEF AcceptFails, Handle, TypeOK
  <2> QED  BY <1>1, <2>1, QuietStep, AddStays DEF AcceptFails, Handle, ListenEvent
<1>2. CASE AcceptBusy
  <2>1. TypeOK'
    BY <1>2, HeadTailProperties DEF AcceptBusy, Handle, TypeOK
  <2> QED  BY <1>2, <2>1, QuietStep, AddStays DEF AcceptBusy, Handle, ListenEvent
<1>3. CASE InitCount
  <2>1. mfd \in Fds /\ slot[mfd].fd \in Fds \cup {Closed}
    BY <1>3 DEF InitCount, TypeOK, Users
  <2>2. /\ slot' \in [Fds -> Users]
        /\ \A f \in Fds : slot'[f].fd = slot[f].fd
    BY <1>3, <2>1, FreshType DEF InitCount, TypeOK
  <2>3. TypeOK'
    BY <1>3, <2>2 DEF InitCount, TypeOK
  <2> QED  BY <1>3, <2>2, <2>3, QuietStep, NotAtAdd DEF InitCount
<1>4. CASE CloseCount
  <2>1. TypeOK'
    BY <1>4 DEF CloseCount, TypeOK
  <2> QED  BY <1>4, <2>1, QuietStep, NotAtAdd DEF CloseCount
<1> QED  BY <1>1, <1>2, <1>3, <1>4

LEMMA QuietWorkerKeeps ==
  ASSUME HInv, NEW w \in Workers,
         ProcessIncomplete(w) \/ ProcessRequest(w) \/ CloseStore(w)
  PROVE  HInv'
<1> USE Constants DEF HInv, poolVars, clientVars, mainVars, history, Matches
<1>1. CASE ProcessIncomplete(w)
  <2>1. TypeOK'
    BY <1>1 DEF ProcessIncomplete, TypeOK
  <2> QED  BY <1>1, <2>1, QuietStep, AddStays DEF ProcessIncomplete, TypeOK
<1>2. CASE ProcessRequest(w)
  <2>1. busy[w] \in Fds
    BY <1>2 DEF ProcessRequest, TypeOK
  <2>2. PICK keep \in BOOLEAN, to \in {"remove", "out"} :
           /\ slot' = [slot EXCEPT ![busy[w]].reply = TRUE, ![busy[w]].linger = keep]
           /\ wpc' = [wpc EXCEPT ![w] = to]
    BY <1>2 DEF ProcessRequest
  <2>3. /\ slot' \in [Fds -> Users]
        /\ \A f \in Fds : slot'[f].fd = slot[f].fd
    <3> DEFINE new == [slot[busy[w]] EXCEPT !.reply = TRUE, !.linger = keep]
    <3>1. slot' = [slot EXCEPT ![busy[w]] = new]
      BY <2>1, <2>2 DEF TypeOK
    <3>2. new \in Users /\ new.fd = slot[busy[w]].fd
      <4>1. slot[busy[w]] \in Users
        BY <2>1 DEF TypeOK
      <4> QED  BY <2>2, <4>1 DEF Users
    <3> QED  BY <2>1, <3>1, <3>2 DEF TypeOK
  <2>4. wpc' \in [Workers -> {"idle", "run", "in", "out", "remove", "clear", "store"}]
    BY <2>2 DEF TypeOK
  <2>5. TypeOK'
    BY <1>2, <2>3, <2>4 DEF ProcessRequest, TypeOK
  <2>6. Matches' /\ \A v \in Workers : wpc'[v] = wpc[v] \/ wpc'[v] = "out"
                                       \/ (wpc[v] = "run" /\ wpc'[v] = "remove")
    <3>1. wpc[w] = "run" /\ \A v \in Workers : v # w => wpc'[v] = wpc[v]
      BY <1>2, <2>2 DEF ProcessRequest, TypeOK
    <3>2. wpc'[w] \in {"remove", "out"}
      BY <2>2 DEF TypeOK
    <3>3. busy' = busy /\ mpc' = mpc /\ mfd' = mfd
      BY <1>2 DEF ProcessRequest
    <3> QED  BY <2>3, <3>1, <3>2, <3>3
  <2> QED  BY <1>2, <2>3, <2>5, <2>6, QuietStep, AddStays DEF ProcessRequest
<1>3. CASE CloseStore(w)
  <2>1. TypeOK'
    BY <1>3 DEF CloseStore, TypeOK
  <2> QED  BY <1>3, <2>1, QuietStep, AddStays DEF CloseStore, TypeOK
<1> QED  BY <1>1, <1>2, <1>3

-----------------------------------------------------------------------------
(***************************************************************************)
(* Steps of the main thread that move a connection.                        *)
(***************************************************************************)
\* epoll_wait: what is ready is disarmed and told, all at once.
LEMMA MainWaitKeeps == ASSUME HInv, MainWait PROVE HInv'
<1> DEFINE ready == {f \in Fds : Ready(f)}
<1> USE DEF HInv, poolVars, clientVars, workerVars, history
<1>1. \A f \in ready : Armed(f)
  BY DEF Ready, Armed
<1>0. \A f \in Fds : ~AtAdd(f) /\ ~AtAdd(f)'
  BY NotAtAdd DEF MainWait
<1>2. /\ evs = {}
      /\ evs' = {ConnEvent(f) : f \in ready} \cup IF arrived THEN {ListenEvent} ELSE {}
      /\ sock' = [f \in Fds |-> IF f \in ready THEN [sock[f] EXCEPT !.armed = "no"] ELSE sock[f]]
      /\ UNCHANGED <<waiting, busy, wpc, stranded, raced, slot, mpc, mfd>>
  BY DEF MainWait
<1>3. \A f \in Fds : /\ sock'[f] \in Sockets /\ sock'[f].peer = sock[f].peer
                     /\ sock'[f].armed = IF f \in ready THEN "no" ELSE sock[f].armed
  BY <1>2 DEF TypeOK, Sockets
<1>4. \A f \in Fds : ConnEvent(f) \in Events /\ ConnEvent(f).fd = f
  BY DEF ConnEvent, Events, TypeOK, Sockets
<1>5. ListenEvent \in Events /\ ListenEvent.fd = Listen
  BY DEF ListenEvent, Events
<1>6. TypeOK'
  <2>1. sock' \in [Fds -> Sockets]
    BY <1>2, <1>3
  <2>2. evs' \subseteq Events
    BY <1>2, <1>4, <1>5
  <2> QED  BY <2>1, <2>2 DEF MainWait, TypeOK
<1>7. Matches'
  BY <1>2 DEF Matches
<1>8. \A f \in Fds : /\ Told(f)' <=> f \in ready
                     /\ Armed(f)' <=> Armed(f) /\ f \notin ready
                     /\ ~Told(f)
                     /\ Queued(f)' <=> Queued(f)
                     /\ Served(f)' <=> Served(f)
  <2>1. \A f \in Fds : Told(f)' <=> f \in ready
    BY <1>2, <1>4, <1>5, Constants DEF Told
  <2> QED  BY <1>2, <1>3, <2>1 DEF Told, Armed, Queued, Served
<1>9. ASSUME ~raced PROVE Single' /\ \A f \in Fds : Apart(f)' /\ Placed(f)'
  <2>1. Single'
    BY <1>2, <1>4, <1>5, <1>9, Constants DEF Single, Owned
  <2>2. ASSUME NEW f \in Fds PROVE Apart(f)' /\ Placed(f)'
    <3>1. Apart(f) /\ Placed(f)
      BY <1>9 DEF Owned
    <3>2. Apart(f)'
      BY <1>0, <1>1, <1>2, <1>8, <3>1 DEF Apart
    <3>3. Placed(f)'
      BY <1>0, <1>1, <1>2, <1>3, <1>8, <3>1 DEF Placed, Apart, Armed
    <3> QED  BY <3>2, <3>3
  <2> QED  BY <2>1, <2>2
<1> QED  BY <1>2, <1>6, <1>7, <1>9 DEF Owned

LEMMA AcceptKeeps == ASSUME HInv, Accept PROVE HInv'
<1> USE DEF HInv, poolVars, workerVars
<1>1. PICK f \in Fds : f = Lowest(FreeFds) /\ sock[f].peer = None
  BY LowestIsFree DEF Accept, FreeFds
<1>2. Head(backlog) \in Waiters /\ Tail(backlog) \in Seq(Waiters)
  BY HeadTailProperties DEF Accept, TypeOK
<1>20. /\ Head(backlog) \in Sockets /\ Head(backlog).armed = "absent"
       /\ Head(backlog).peer # None /\ Head(backlog).peer \in Clients
  BY <1>2, Constants DEF Waiters
<1>3. /\ sock' \in [Fds -> Sockets]
      /\ sock'[f].peer # None /\ sock'[f].armed = "absent"
      /\ \A g \in Fds \ {f} : sock'[g] = sock[g]
  <2>1. sock' = [sock EXCEPT ![f] = Head(backlog)]
    BY <1>1 DEF Accept
  <2> QED  BY <1>2, <1>20, <2>1 DEF TypeOK
<1>4. /\ slot' \in [Fds -> Users] /\ slot'[f].fd = f
      /\ \A g \in Fds \ {f} : slot'[g] = slot[g]
  BY <1>1 DEF Accept, TypeOK, Users
<1>5. raced' = (raced \/ Served(f))
  BY <1>1 DEF Accept, Served
<1>6. TypeOK'
  <2>1. raced' \in BOOLEAN
    BY <1>5, Zenon DEF TypeOK
  <2>2. client' \in [Clients -> {"new", "backlog", "open", "gone"}]
    BY <1>20 DEF Accept, TypeOK
  <2> QED  BY <1>1, <1>2, <1>3, <1>4, <2>1, <2>2 DEF Accept, Handle, TypeOK
<1>7. Matches'
  BY <1>1, <1>4 DEF Accept, Matches
<1>8. ASSUME ~raced'
      PROVE  Single' /\ Apart(f)' /\ Placed(f)' /\ \A g \in Fds \ {f} : Still(g)
  <2>1. ~raced /\ ~Served(f)
    BY <1>5, <1>8
  <2>2. Single /\ Apart(f) /\ Placed(f)
    BY <1>1, <2>1 DEF Owned
  <2>3. Single'
    BY <2>2 DEF Accept, Handle, Single
  <2>4. \A g \in Fds : Told(g)' <=> Told(g)
    BY Constants DEF Accept, Handle, ListenEvent, Told
  <2>5. /\ ~Armed(f)' /\ AtAdd(f)'
        /\ Queued(f)' <=> Queued(f)
        /\ Served(f)' <=> Served(f)
    BY <1>1, <1>3 DEF Accept, Armed, AtAdd, Queued, Served
  <2>6. Apart(f)' /\ Placed(f)'
    BY <1>1, <1>3, <1>4, <2>1, <2>2, <2>4, <2>5 DEF Apart, Placed, Accept, Served
  <2>8. \A g \in Fds \ {f} : AtAdd(g)' <=> AtAdd(g)
    BY <1>1 DEF Accept, Handle, AtAdd
  <2>7. \A g \in Fds \ {f} : Still(g)
    BY <1>3, <1>4, <2>4, <2>8 DEF Still, Accept, Queued
  <2> QED  BY <2>3, <2>6, <2>7
<1> QED  BY <1>1, <1>5, <1>6, <1>7, <1>8, MoveStep

\* add_fd2: the connection is armed, unless its _fd was cleared in the race.
LEMMA InitAddKeeps == ASSUME HInv, InitAdd PROVE HInv'
<1> USE DEF HInv, poolVars, clientVars, workerVars, history
<1>1. PICK f \in Fds : f = mfd
  BY DEF InitAdd, Matches
<1>2. /\ mpc = "add" /\ mpc' = "count" /\ mcnt' = userCnt
      /\ UNCHANGED <<waiting, busy, evs, wpc, slot, mfd, stranded, raced>>
  BY DEF InitAdd
<1>3. sock \in [Fds -> Sockets] /\ slot[f].fd \in {f, Closed}
  BY DEF TypeOK, Matches
<1>4. \/ sock' = sock
      \/ sock' = [sock EXCEPT ![f].armed = "in"]
  BY <1>1, <1>3 DEF InitAdd
<1>5. /\ [sock[f] EXCEPT !.armed = "in"] \in Sockets
      /\ [sock[f] EXCEPT !.armed = "in"].peer = sock[f].peer
      /\ [sock[f] EXCEPT !.armed = "in"].armed = "in"
  BY <1>3 DEF Sockets
<1>6. /\ sock' \in [Fds -> Sockets]
      /\ \A g \in Fds \ {f} : sock'[g] = sock[g]
      /\ sock'[f].peer = sock[f].peer
      /\ slot[f].fd = f => sock'[f].armed = "in"
  <2>1. CASE sock' = sock
    <3>1. slot[f].fd = f => sock = [sock EXCEPT ![f].armed = "in"]
      BY <1>1, <1>3, <2>1, Constants DEF InitAdd
    <3> QED  BY <1>3, <1>5, <2>1, <3>1
  <2>2. CASE sock' = [sock EXCEPT ![f].armed = "in"]
    BY <1>3, <1>5, <2>2
  <2> QED  BY <1>4, <2>1, <2>2
<1>7. TypeOK'
  BY <1>1, <1>2, <1>6 DEF InitAdd, TypeOK
<1>8. Matches'
  BY <1>1, <1>2 DEF Matches
<1>9. ASSUME ~raced'
      PROVE  Single' /\ Apart(f)' /\ Placed(f)' /\ \A g \in Fds \ {f} : Still(g)
  <2>1. Single /\ Apart(f) /\ Placed(f) /\ AtAdd(f)
    BY <1>1, <1>2, <1>9 DEF Owned, AtAdd
  <2>2. sock[f].peer # None /\ slot[f].fd = f
    BY <2>1 DEF Placed
  <2>3. Single'
    BY <1>2, <2>1 DEF Single
  <2>4. Armed(f)' /\ ~AtAdd(f)' /\ ~Told(f)' /\ ~Queued(f)' /\ ~Served(f)' /\ f \notin stranded'
    BY <1>2, <1>6, <2>1, <2>2 DEF Apart, Armed, AtAdd, Told, Queued, Served
  <2>5. Apart(f)' /\ Placed(f)'
    BY <1>2, <1>6, <2>2, <2>4 DEF Apart, Placed, Served
  <2>6. \A g \in Fds \ {f} : Still(g)
    BY <1>1, <1>2, <1>6 DEF Still, AtAdd, Told, Queued
  <2> QED  BY <2>3, <2>5, <2>6
<1> QED  BY <1>2, <1>7, <1>8, <1>9, MoveStep

\* The event of a connection ends in its being closed.
LEMMA ClosedByMain ==
  ASSUME HInv, NEW e \in evs, e.fd \in Fds, Handle(e), MainClose(e.fd),
         UNCHANGED <<waiting, busy, sent, backlog, arrived, workerVars, userCnt, history>>
  PROVE  HInv'
<1> USE DEF HInv, workerVars, history
<1>1. mpc = "loop" /\ evs' = evs \ {e}
  BY DEF Handle
<1>2. TypeOK'
  BY <1>1, MainCloseEffect DEF TypeOK
<1>3. Matches'
  <2>1. mpc' # "loop" => mfd' \in Fds
    BY <1>1, MainCloseEffect
  <2>2. ASSUME NEW f \in Fds PROVE slot'[f].fd \in {f, Closed}
    <3>1. slot[f].fd \in {f, Closed} /\ slot \in [Fds -> Users]
      BY DEF Matches, TypeOK
    <3>2. UNCHANGED slot \/ slot' = [slot EXCEPT ![e.fd].fd = Closed]
      BY DEF MainClose
    <3>3. CASE slot' = [slot EXCEPT ![e.fd].fd = Closed] /\ f = e.fd
      <4>1. slot'[f] = [slot[f] EXCEPT !.fd = Closed]
        BY <3>1, <3>3
      <4> QED  BY <3>1, <4>1 DEF Users
    <3>4. CASE slot' = [slot EXCEPT ![e.fd].fd = Closed] /\ f # e.fd
      BY <3>1, <3>4
    <3> QED  BY <3>1, <3>2, <3>3, <3>4
  <2>3. UNCHANGED <<busy, wpc>>
    OBVIOUS
  <2> QED  BY <2>1, <2>2, <2>3 DEF Matches
<1>4. ASSUME ~raced'
      PROVE  Single' /\ Apart(e.fd)' /\ Placed(e.fd)' /\ \A g \in Fds \ {e.fd} : Still(g)
  <2>1. /\ slot[e.fd].fd = e.fd /\ ~Queued(e.fd) /\ ~Served(e.fd) /\ e.fd \notin stranded
        /\ ~Told(e.fd)' /\ \A g \in Fds \ {e.fd} : Told(g)' <=> Told(g)
    BY <1>4, HandledEvent
  <2>2. /\ sock' = [sock EXCEPT ![e.fd] = Free]
        /\ slot' = [slot EXCEPT ![e.fd].fd = Closed]
    BY <1>1, <2>1, MainCloseEffect, Constants
  <2>3. /\ \A g \in Fds \ {e.fd} : sock'[g] = sock[g] /\ slot'[g] = slot[g]
        /\ sock'[e.fd] = Free
    BY <2>2 DEF TypeOK
  <2>4. Single'
    BY <1>1, <1>4 DEF Single, Owned
  <2>8. \A g : ~AtAdd(g) /\ ~AtAdd(g)'
    BY <1>1, MainCloseEffect, NotAtAdd
  <2>5. ~Armed(e.fd)' /\ ~Queued(e.fd)' /\ ~Served(e.fd)' /\ e.fd \notin stranded'
    BY <2>1, <2>3, FreeType DEF Armed, Queued, Served
  <2>6. Apart(e.fd)' /\ Placed(e.fd)'
    BY <2>1, <2>3, <2>5, <2>8, FreeType DEF Apart, Placed, Served
  <2>7. \A g \in Fds \ {e.fd} : Still(g)
    BY <2>1, <2>3, <2>8 DEF Still, Queued
  <2> QED  BY <2>4, <2>6, <2>7
<1> QED  BY <1>2, <1>3, <1>4, MoveStep

LEMMA OnHangUpKeeps ==
  ASSUME HInv, NEW e \in evs, OnHangUp(e) \/ ReadFails(e) \/ WriteFails(e)
  PROVE  HInv'
  BY ClosedByMain DEF OnHangUp, ReadFails, WriteFails, OnWritable, poolVars

\* read() hands the connection to the pool, or to nobody.
LEMMA ReadKeeps ==
  ASSUME HInv, NEW e \in evs, ReadAppend(e) \/ ReadRefused(e)
  PROVE  HInv'
<1> USE DEF HInv, clientVars, workerVars, history
<1>1. /\ e.fd \in Fds /\ Handle(e) /\ evs' = evs \ {e}
      /\ slot' = [slot EXCEPT ![e.fd].buf = Joined(@, sock[e.fd].inbox)]
      /\ sock' = [sock EXCEPT ![e.fd].inbox = "none"]
      /\ UNCHANGED <<busy, wpc, mpc, mfd, raced>>
  BY DEF ReadAppend, ReadRefused, ReadSucceeds, Handle, Pool!Append1, Pool!Refuse
<1>2. /\ slot' \in [Fds -> Users] /\ sock' \in [Fds -> Sockets]
      /\ \A f \in Fds : /\ sock'[f].peer = sock[f].peer
                        /\ sock'[f].armed = sock[f].armed
                        /\ slot'[f].fd = slot[f].fd
  <2>1. Joined(slot[e.fd].buf, sock[e.fd].inbox) \in {"none", "part", "request"}
    BY DEF Joined
  <2>2. slot' \in [Fds -> Users] /\ \A f \in Fds : slot'[f].fd = slot[f].fd
    <3> DEFINE b == Joined(slot[e.fd].buf, sock[e.fd].inbox)
               new == [slot[e.fd] EXCEPT !.buf = b]
    <3>1. slot' = [slot EXCEPT ![e.fd] = new]
      BY <1>1 DEF TypeOK
    <3>2. slot[e.fd] \in Users
      BY <1>1 DEF TypeOK
    <3> HIDE DEF b
    <3>3. new \in Users /\ new.fd = slot[e.fd].fd
      BY <2>1, <3>2 DEF b, Users
    <3> HIDE DEF new
    <3> QED  BY <1>1, <3>1, <3>3 DEF TypeOK
  <2>4. /\ sock' \in [Fds -> Sockets]
        /\ \A f \in Fds : sock'[f].peer = sock[f].peer /\ sock'[f].armed = sock[f].armed
    <3>1. sock \in [Fds -> Sockets] /\ sock' = [sock EXCEPT ![e.fd] = [sock[e.fd] EXCEPT !.inbox = "none"]]
      BY <1>1 DEF TypeOK
    <3>2. /\ [sock[e.fd] EXCEPT !.inbox = "none"] \in Sockets
          /\ [sock[e.fd] EXCEPT !.inbox = "none"].peer = sock[e.fd].peer
          /\ [sock[e.fd] EXCEPT !.inbox = "none"].armed = sock[e.fd].armed
      BY <1>1, <3>1 DEF Sockets
    <3> QED  BY <3>1, <3>2
  <2> QED  BY <2>2, <2>4
<1>3. Matches'
  BY <1>1, <1>2 DEF Matches
<1>4. \A f \in Fds : Armed(f)' <=> Armed(f)
  BY <1>2 DEF Armed
<1>5. \A f \in Fds : Served(f)' <=> Served(f)
  BY <1>1 DEF Served
<1>8. \A f : ~AtAdd(f) /\ ~AtAdd(f)'
  BY <1>1, NotAtAdd DEF Handle
<1>6. CASE ReadAppend(e)
  <2>1. /\ waiting' = Append(waiting, e.fd) /\ waiting' \in Seq(Fds)
        /\ Len(waiting') = Len(waiting) + 1 /\ Len(waiting) \in Nat
        /\ waiting'[Len(waiting) + 1] = e.fd
        /\ \A i \in 1..Len(waiting) : waiting'[i] = waiting[i]
    BY <1>1, <1>6, AppendProperties, LenProperties DEF ReadAppend, Pool!Append1, TypeOK
  <2>2. TypeOK'
    BY <1>1, <1>2, <1>6, <2>1 DEF ReadAppend, TypeOK
  <2>3. Queued(e.fd)' /\ \A g \in Fds \ {e.fd} : Queued(g)' <=> Queued(g)
    BY <2>1 DEF Queued
  <2>4. ASSUME ~raced'
        PROVE  Single' /\ Apart(e.fd)' /\ Placed(e.fd)' /\ \A g \in Fds \ {e.fd} : Still(g)
    <3>1. /\ sock[e.fd].peer # None /\ sock[e.fd].armed # "absent" /\ slot[e.fd].fd = e.fd
          /\ ~Armed(e.fd) /\ ~Queued(e.fd) /\ ~Served(e.fd) /\ e.fd \notin stranded
          /\ ~Told(e.fd)' /\ \A g \in Fds \ {e.fd} : Told(g)' <=> Told(g)
      BY <1>1, <2>4, HandledEvent
    <3>2. Single
      BY <1>1, <2>4 DEF Owned
    <3>3. Single'
      BY <1>1, <2>1, <3>1, <3>2 DEF Single, Queued
    <3>4. stranded' = stranded
      BY <1>6 DEF ReadAppend
    <3>5. Apart(e.fd)' /\ Placed(e.fd)'
      BY <1>1, <1>2, <1>4, <1>5, <1>8, <2>3, <3>1, <3>4 DEF Apart, Placed, Served
    <3>6. \A g \in Fds \ {e.fd} : Still(g)
      BY <1>1, <1>2, <1>8, <2>3, <3>1, <3>4 DEF Still
    <3> QED  BY <3>3, <3>5, <3>6
  <2> QED  BY <1>1, <1>3, <2>2, <2>4, MoveStep
<1>7. CASE ReadRefused(e)
  <2>1. waiting' = waiting /\ stranded' = stranded \cup {e.fd}
    BY <1>7 DEF ReadRefused, Pool!Refuse
  <2>2. TypeOK'
    BY <1>1, <1>2, <1>7, <2>1 DEF ReadRefused, TypeOK
  <2>3. \A f \in Fds : Queued(f)' <=> Queued(f)
    BY <2>1 DEF Queued
  <2>4. ASSUME ~raced'
        PROVE  Single' /\ Apart(e.fd)' /\ Placed(e.fd)' /\ \A g \in Fds \ {e.fd} : Still(g)
    <3>1. /\ sock[e.fd].peer # None /\ sock[e.fd].armed # "absent" /\ slot[e.fd].fd = e.fd
          /\ ~Armed(e.fd) /\ ~Queued(e.fd) /\ ~Served(e.fd) /\ e.fd \notin stranded
          /\ ~Told(e.fd)' /\ \A g \in Fds \ {e.fd} : Told(g)' <=> Told(g)
      BY <1>1, <2>4, HandledEvent
    <3>2. Single'
      BY <1>1, <2>1, <2>4 DEF Single, Owned
    <3>3. Apart(e.fd)' /\ Placed(e.fd)'
      BY <1>1, <1>2, <1>4, <1>5, <1>8, <2>1, <2>3, <3>1 DEF Apart, Placed, Served
    <3>4. \A g \in Fds \ {e.fd} : Still(g)
      BY <1>1, <1>2, <1>8, <2>1, <2>3, <3>1 DEF Still
    <3> QED  BY <3>2, <3>3, <3>4
  <2> QED  BY <1>1, <1>3, <2>2, <2>4, MoveStep
<1> QED  BY <1>6, <1>7

-----------------------------------------------------------------------------
(***************************************************************************)
(* write(): the connection is armed again, or closed.                      *)
(***************************************************************************)
LEMMA ArmedByMain ==
  ASSUME HInv, NEW e \in evs, e.fd \in Fds, Handle(e), NEW ev \in {"in", "out"},
         NEW fd, ~raced => fd = e.fd, sock' = Arm(sock, fd, ev),
         slot' = slot \/ slot' = [slot EXCEPT ![e.fd] = Fresh(@.fd)],
         client' = client, expects' \in [Clients -> BOOLEAN],
         UNCHANGED <<waiting, busy, sent, backlog, arrived, mpc, mfd, mcnt,
                     wpc, wcnt, userCnt, stranded, raced>>
  PROVE  HInv'
<1> USE DEF HInv
<1>1. evs' = evs \ {e}
  BY DEF Handle
<1>2. slot' \in [Fds -> Users] /\ \A f \in Fds : slot'[f].fd = slot[f].fd
  <2>1. slot \in [Fds -> Users] /\ slot[e.fd].fd \in Fds \cup {Closed}
    BY DEF TypeOK, Users
  <2>2. Fresh(slot[e.fd].fd) \in Users /\ Fresh(slot[e.fd].fd).fd = slot[e.fd].fd
    BY <2>1, FreshType
  <2> QED  BY <2>1, <2>2
<1>3. sock' \in [Fds -> Sockets]
  BY ArmEffect DEF TypeOK
<1>4. TypeOK'
  BY <1>1, <1>2, <1>3 DEF TypeOK
<1>5. Matches'
  BY <1>2 DEF Matches
<1>6. ASSUME ~raced'
      PROVE  Single' /\ Apart(e.fd)' /\ Placed(e.fd)' /\ \A g \in Fds \ {e.fd} : Still(g)
  <2>1. /\ sock[e.fd].peer # None /\ sock[e.fd].armed # "absent" /\ slot[e.fd].fd = e.fd
        /\ ~Armed(e.fd) /\ ~Queued(e.fd) /\ ~Served(e.fd) /\ e.fd \notin stranded
        /\ ~Told(e.fd)' /\ \A g \in Fds \ {e.fd} : Told(g)' <=> Told(g)
    BY <1>6, HandledEvent
  <2>2. /\ sock'[e.fd].peer # None /\ sock'[e.fd].armed = ev
        /\ \A g \in Fds \ {e.fd} : sock'[g] = sock[g]
    <3>1. fd = e.fd /\ sock \in [Fds -> Sockets]
      BY <1>6 DEF TypeOK
    <3> QED  BY <2>1, <3>1, ArmOpen
  <2>3. Single'
    BY <1>1, <1>6 DEF Single, Owned
  <2>7. \A g : ~AtAdd(g) /\ ~AtAdd(g)'
    BY NotAtAdd DEF Handle
  <2>4. Armed(e.fd)' /\ ~Queued(e.fd)' /\ ~Served(e.fd)' /\ e.fd \notin stranded'
    BY <2>1, <2>2 DEF Armed, Queued, Served
  <2>5. Apart(e.fd)' /\ Placed(e.fd)'
    BY <1>2, <2>1, <2>2, <2>4, <2>7 DEF Apart, Placed, Served
  <2>6. \A g \in Fds \ {e.fd} : Still(g)
    BY <1>2, <2>1, <2>2, <2>7 DEF Still, Queued
  <2> QED  BY <2>3, <2>5, <2>6
<1> QED  BY <1>4, <1>5, <1>6, MoveStep

LEMMA WriteKeeps ==
  ASSUME HInv, NEW e \in evs, WriteNothing(e) \/ WriteAgain(e) \/ WriteDone(e)
  PROVE  HInv'
<1> USE DEF poolVars, clientVars, workerVars, history, OnWritable
<1>1. CASE WriteNothing(e)
  <2>1. ~raced => slot[e.fd].fd = e.fd
    BY <1>1, HandledEvent DEF WriteNothing
  <2>2. expects' \in [Clients -> BOOLEAN]
    BY <1>1 DEF WriteNothing, HInv, TypeOK
  <2> QED  BY <1>1, <2>1, <2>2, ArmedByMain DEF WriteNothing
<1>2. CASE WriteAgain(e)
  <2>1. expects' \in [Clients -> BOOLEAN]
    BY <1>2 DEF WriteAgain, HInv, TypeOK
  <2> QED  BY <1>2, <2>1, ArmedByMain DEF WriteAgain
<1>3. CASE WriteDone(e)
  <2>1. CASE slot[e.fd].linger
    <3>1. expects' = [c \in Clients |-> expects[c] /\ sock[e.fd].peer # c]
      BY <1>3, <2>1 DEF WriteDone
    <3>2. expects' \in [Clients -> BOOLEAN]
      BY <3>1, Zenon
    <3> QED  BY <1>3, <2>1, <3>2, ArmedByMain DEF WriteDone
  <2>2. CASE ~slot[e.fd].linger
    BY <1>3, <2>2, ClosedByMain DEF WriteDone
  <2> QED  BY <2>1, <2>2
<1> QED  BY <1>1, <1>2, <1>3

-----------------------------------------------------------------------------
(***************************************************************************)
(* Steps of a worker that move a connection.                               *)
(***************************************************************************)
LEMMA TakeKeeps == ASSUME HInv, NEW w \in Workers, TakeConn(w) PROVE HInv'
<1> USE DEF HInv, clientVars, mainVars, history
<1>1. /\ wpc[w] = "idle" /\ busy[w] = None /\ waiting # <<>>
      /\ busy' = [busy EXCEPT ![w] = Head(waiting)] /\ waiting' = Tail(waiting)
      /\ wpc' = [wpc EXCEPT ![w] = "run"]
      /\ UNCHANGED <<evs, mpc, mfd, sock, slot, stranded, raced>>
  BY DEF TakeConn, Pool!Take, Matches
<1>2. waiting \in Seq(Fds) /\ busy \in [Workers -> Fds \cup {None}]
  BY DEF TypeOK
<1>3. PICK f \in Fds : /\ f = Head(waiting) /\ f = waiting[1]
                       /\ Tail(waiting) \in Seq(Fds) /\ Len(waiting) \in Nat \ {0}
                       /\ Len(Tail(waiting)) = Len(waiting) - 1
                       /\ \A i \in 1..Len(Tail(waiting)) : Tail(waiting)[i] = waiting[i + 1]
  BY <1>1, <1>2, HeadTailProperties, EmptySeq, LenProperties
<1>4. TypeOK'
  BY <1>1, <1>3 DEF TakeConn, TypeOK
<1>5. Matches'
  BY <1>1, <1>2, <1>3, Constants DEF Matches, TypeOK
<1>6. ASSUME ~raced'
      PROVE  Single' /\ Apart(f)' /\ Placed(f)' /\ \A g \in Fds \ {f} : Still(g)
  <2>1. Queued(f)
    BY <1>3 DEF Queued
  <2>10. \A g : AtAdd(g)' <=> AtAdd(g)
    BY <1>1, AddStays
  <2>2. Single /\ Apart(f) /\ Placed(f)
    BY <1>1, <1>3, <1>6 DEF Owned
  <2>3. /\ sock[f].peer # None /\ sock[f].armed # "absent" /\ slot[f].fd = f
        /\ ~AtAdd(f) /\ ~Armed(f) /\ ~Told(f) /\ ~Served(f) /\ f \notin stranded
    BY <2>1, <2>2 DEF Apart, Placed
  <2>4. ~Queued(f)'
    <3> SUFFICES ASSUME NEW i \in 1..Len(waiting'), waiting'[i] = f PROVE FALSE
      BY DEF Queued
    <3>1. i \in Nat /\ i + 1 \in 1..Len(waiting) /\ waiting[i + 1] = waiting[1]
      BY <1>1, <1>3
    <3>2. 1 \in 1..Len(waiting)
      BY <1>3
    <3>3. i + 1 = 1
      BY <2>2, <3>1, <3>2 DEF Single
    <3> QED  BY <3>1, <3>3
  <2>5. \A g \in Fds \ {f} : Queued(g)' <=> Queued(g)
    <3> TAKE g \in Fds \ {f}
    <3>1. ASSUME NEW i \in 1..Len(waiting), waiting[i] = g
          PROVE  Queued(g)'
      <4>1. i - 1 \in 1..Len(waiting') /\ waiting'[i - 1] = waiting[i]
        BY <1>1, <1>3, <3>1
      <4> QED  BY <3>1, <4>1 DEF Queued
    <3>2. ASSUME NEW i \in 1..Len(waiting'), waiting'[i] = g
          PROVE  Queued(g)
      <4>1. i + 1 \in 1..Len(waiting) /\ waiting[i + 1] = g
        BY <1>1, <1>3, <3>2
      <4> QED  BY <4>1 DEF Queued
    <3> QED  BY <3>1, <3>2 DEF Queued
  <2>7. busy'[w] = f /\ \A v \in Workers \ {w} : busy'[v] = busy[v] /\ busy[v] # f
    BY <1>1, <1>2, <1>3, <2>3 DEF Served
  <2>6. Single'
    <3>1. \A i, j \in 1..Len(waiting') : waiting'[i] = waiting'[j] => i = j
      <4> SUFFICES ASSUME NEW i \in 1..Len(waiting'), NEW j \in 1..Len(waiting'),
                          waiting'[i] = waiting'[j]
                   PROVE  i = j
        OBVIOUS
      <4>1. /\ i + 1 \in 1..Len(waiting) /\ j + 1 \in 1..Len(waiting)
            /\ waiting[i + 1] = waiting[j + 1]
        BY <1>1, <1>3
      <4>2. i + 1 = j + 1
        BY <2>2, <4>1 DEF Single
      <4> QED  BY <4>2
    <3>2. \A w1, w2 \in Workers : busy'[w1] = busy'[w2] /\ busy'[w1] # None => w1 = w2
      BY <2>2, <2>7 DEF Single
    <3>3. \A e1, e2 \in evs' : e1.fd = e2.fd => e1 = e2
      BY <1>1, <2>2 DEF Single
    <3> QED  BY <3>1, <3>2, <3>3, Zenon DEF Single
  <2>8. Apart(f)' /\ Placed(f)'
    <3>1. ~Armed(f)' /\ ~Told(f)' /\ Served(f)' /\ f \notin stranded'
      BY <1>1, <2>3, <2>7 DEF Armed, Told, Served
    <3>2. wpc'[w] = "run"
      BY <1>1 DEF TypeOK
    <3>3. Apart(f)'
      BY <2>3, <2>4, <2>10, <3>1 DEF Apart
    <3> QED  BY <1>1, <2>3, <2>7, <2>10, <3>1, <3>2, <3>3 DEF Placed
  <2>9. ASSUME NEW g \in Fds \ {f} PROVE Still(g)
    <3>1. Told(g)' <=> Told(g)
      BY <1>1 DEF Told
    <3>2. \A v \in Workers : /\ busy'[v] = g <=> busy[v] = g
                             /\ busy[v] = g => wpc'[v] = wpc[v]
      BY <1>1, <1>2, <2>7, Constants DEF TypeOK
    <3> QED  BY <1>1, <2>5, <2>10, <3>1, <3>2 DEF Still
  <2> QED  BY <2>6, <2>8, <2>9
<1> QED  BY <1>1, <1>3, <1>4, <1>5, <1>6, MoveStep

\* A worker shuts the descriptor it serves, or finds it closed already.
LEMMA RemoveKeeps == ASSUME HInv, NEW w \in Workers, CloseRemove(w) PROVE HInv'
<1> USE DEF HInv, poolVars, mainVars, history
<1>1. wpc[w] = "remove" /\ busy[w] \in Fds
  BY DEF CloseRemove, TypeOK, Matches
<1>2. /\ wpc \in [Workers -> {"idle", "run", "in", "out", "remove", "clear", "store"}]
      /\ UNCHANGED <<waiting, busy, evs, slot, mpc, mfd, stranded, raced>>
  BY DEF CloseRemove, TypeOK
<1>3. CASE slot[busy[w]].fd = Closed
  <2>1. wpc' = [wpc EXCEPT ![w] = "out"] /\ UNCHANGED <<client, expects, sock>>
    BY <1>3 DEF CloseRemove
  <2>2. TypeOK'
    BY <2>1 DEF CloseRemove, TypeOK
  <2>3. Matches'
    BY <1>1, <1>2, <2>1, Constants DEF Matches
  <2> QED  BY <1>2, <2>1, <2>2, <2>3, QuietStep, AddStays
<1>4. CASE slot[busy[w]].fd # Closed
  <2>1. PICK f \in Fds : f = busy[w]
    BY <1>1
  <2>2. slot[f].fd = f
    BY <1>4, <2>1 DEF Matches
  <2>3. Shut(f) /\ wpc' = [wpc EXCEPT ![w] = "clear"]
    BY <1>4, <2>1, <2>2 DEF CloseRemove
  <2>4. sock' = [sock EXCEPT ![f] = Free] /\ sock \in [Fds -> Sockets]
    BY <2>3, ShutEffect DEF TypeOK
  <2>5. TypeOK'
    BY <2>3, ShutEffect DEF CloseRemove, TypeOK
  <2>6. Matches'
    BY <1>1, <1>2, <2>1, <2>3, Constants DEF Matches
  <2>7. ASSUME ~raced'
        PROVE  Single' /\ Apart(f)' /\ Placed(f)' /\ \A g \in Fds \ {f} : Still(g)
    <3>1. Single /\ Apart(f) /\ Placed(f) /\ Served(f)
      BY <1>2, <2>1, <2>7 DEF Owned, Served
    <3>2. Single'
      BY <1>2, <3>1 DEF Single
    <3>3. \A v \in Workers : busy[v] = f => v = w
      BY <2>1, <3>1, Constants DEF Single
    <3>9. \A g : AtAdd(g)' <=> AtAdd(g)
      BY <1>2, AddStays
    <3>4. ~AtAdd(f) /\ ~Armed(f) /\ ~Told(f) /\ ~Queued(f) /\ f \notin stranded
      BY <3>1 DEF Apart
    <3>5. sock'[f] = Free /\ wpc'[w] = "clear"
      BY <1>2, <2>3, <2>4
    <3>6. ~Armed(f)' /\ ~Told(f)' /\ ~Queued(f)' /\ f \notin stranded'
      BY <1>2, <3>4, <3>5, FreeType DEF Armed, Told, Queued
    <3>7. Apart(f)' /\ Placed(f)'
      BY <1>2, <3>3, <3>4, <3>5, <3>6, <3>9, FreeType DEF Apart, Placed
    <3>8. \A g \in Fds \ {f} : Still(g)
      BY <1>2, <2>1, <2>3, <2>4, <3>9 DEF Still, Told, Queued
    <3> QED  BY <3>2, <3>7, <3>8
  <2> QED  BY <1>2, <2>5, <2>6, <2>7, MoveStep
<1> QED  BY <1>3, <1>4

LEMMA ClearKeeps == ASSUME HInv, NEW w \in Workers, CloseClear(w) PROVE HInv'
<1> USE DEF HInv, poolVars, clientVars, mainVars, history
<1>1. wpc[w] = "clear" /\ busy[w] \in Fds
  BY DEF CloseClear, TypeOK, Matches
<1>2. PICK f \in Fds : f = busy[w]
  BY <1>1
<1>3. /\ wpc \in [Workers -> {"idle", "run", "in", "out", "remove", "clear", "store"}]
      /\ slot \in [Fds -> Users]
      /\ UNCHANGED <<waiting, busy, evs, sock, mpc, mfd, stranded, raced>>
      /\ slot' = [slot EXCEPT ![f].fd = Closed]
      /\ wpc' = [wpc EXCEPT ![w] = "store"]
  BY <1>2 DEF CloseClear, TypeOK
<1>4. slot' \in [Fds -> Users] /\ slot'[f].fd = Closed /\ \A g \in Fds \ {f} : slot'[g] = slot[g]
  BY <1>3 DEF Users
<1>5. TypeOK'
  BY <1>3, <1>4 DEF CloseClear, TypeOK
<1>6. Matches'
  BY <1>1, <1>2, <1>3, <1>4, Constants DEF Matches
<1>7. ASSUME ~raced'
      PROVE  Single' /\ Apart(f)' /\ Placed(f)' /\ \A g \in Fds \ {f} : Still(g)
  <2>1. Single /\ Apart(f) /\ Placed(f)
    BY <1>3, <1>7 DEF Owned
  <2>2. Single'
    BY <1>3, <2>1 DEF Single
  <2>8. \A g : AtAdd(g)' <=> AtAdd(g)
    BY <1>3, AddStays
  <2>3. \A v \in Workers : busy[v] = f => v = w
    BY <1>2, <2>1, Constants DEF Single
  <2>4. sock[f].peer = None /\ wpc'[w] = "store"
    BY <1>1, <1>2, <1>3, <2>1 DEF Placed
  <2>5. ~Armed(f)' /\ ~Told(f)' /\ ~Queued(f)' /\ f \notin stranded'
    BY <1>3, <2>1, <2>4 DEF Armed, Told, Queued, Placed
  <2>6. Apart(f)' /\ Placed(f)'
    BY <1>3, <2>1, <2>3, <2>4, <2>5, <2>8 DEF Apart, Placed
  <2>7. \A g \in Fds \ {f} : Still(g)
    BY <1>2, <1>3, <1>4, <2>8 DEF Still, Told, Queued
  <2> QED  BY <2>2, <2>6, <2>7
<1> QED  BY <1>3, <1>5, <1>6, <1>7, MoveStep

\* process() ends: the connection is armed again, unless it was closed.
LEMMA RearmKeeps == ASSUME HInv, NEW w \in Workers, Rearm(w) PROVE HInv'
<1> USE DEF HInv, clientVars, mainVars, history
<1>1. wpc[w] \in {"in", "out"} /\ busy[w] \in Fds
  BY DEF Rearm, TypeOK, Matches
<1>2. PICK f \in Fds : f = busy[w]
  BY <1>1
<1>3. /\ wpc \in [Workers -> {"idle", "run", "in", "out", "remove", "clear", "store"}]
      /\ busy \in [Workers -> Fds \cup {None}] /\ sock \in [Fds -> Sockets]
      /\ UNCHANGED <<waiting, evs, slot, mpc, mfd, stranded, raced>>
      /\ sock' = Arm(sock, slot[f].fd, wpc[w])
      /\ busy' = [busy EXCEPT ![w] = None]
      /\ wpc' = [wpc EXCEPT ![w] = "idle"]
  BY <1>2 DEF Rearm, Pool!Finish, TypeOK
<1>4. PICK ev \in {"in", "out"} : ev = wpc[w]
  BY <1>1
<1>5. sock' \in [Fds -> Sockets]
  BY <1>3, <1>4, ArmEffect
<1>6. TypeOK'
  BY <1>3, <1>5 DEF Rearm, TypeOK
<1>7. Matches'
  BY <1>1, <1>2, <1>3, Constants DEF Matches
<1>8. ASSUME ~raced'
      PROVE  Single' /\ Apart(f)' /\ Placed(f)' /\ \A g \in Fds \ {f} : Still(g)
  <2>1. Single /\ Apart(f) /\ Placed(f) /\ Served(f)
    BY <1>2, <1>3, <1>8 DEF Owned, Served
  <2>2. ~AtAdd(f) /\ ~Armed(f) /\ ~Told(f) /\ ~Queued(f) /\ f \notin stranded
    BY <2>1 DEF Apart
  <2>11. \A g : AtAdd(g)' <=> AtAdd(g)
    BY <1>3, AddStays
  <2>3. \A v \in Workers : busy[v] = f => v = w
    BY <1>2, <2>1, Constants DEF Single
  <2>4. busy'[w] = None /\ \A v \in Workers \ {w} : busy'[v] = busy[v]
    BY <1>3
  <2>5. Single'
    BY <1>3, <2>1, <2>4 DEF Single
  <2>6. \A v \in Workers : busy'[v] # f
    BY <2>3, <2>4, Constants
  <2>7. ~Told(f)' /\ ~Queued(f)' /\ ~Served(f)' /\ f \notin stranded'
    BY <1>3, <2>2, <2>6 DEF Told, Queued, Served
  <2>8. \A g \in Fds \ {f} : Told(g)' <=> Told(g)
    BY <1>3 DEF Told
  <2>9. CASE sock[f].peer # None
    <3>1. slot[f].fd = f /\ sock[f].armed # "absent"
      BY <2>1, <2>2, <2>9 DEF Placed
    <3>2. /\ sock'[f].peer # None /\ sock'[f].armed = ev
          /\ \A g \in Fds \ {f} : sock'[g] = sock[g]
      BY <1>3, <1>4, <2>9, <3>1, ArmOpen
    <3>3. Armed(f)'
      BY <3>2 DEF Armed
    <3>4. Apart(f)' /\ Placed(f)'
      BY <1>3, <2>2, <2>6, <2>7, <2>11, <3>1, <3>2, <3>3 DEF Apart, Placed
    <3>5. \A g \in Fds \ {f} : Still(g)
      BY <1>2, <1>3, <2>4, <2>8, <2>11, <3>2, Constants DEF Still, Queued
    <3> QED  BY <2>5, <3>4, <3>5
  <2>10. CASE sock[f].peer = None
    <3>1. sock' = sock /\ sock[f].armed = "absent"
      BY <1>3, <2>1, <2>10, Constants DEF Arm, Matches, Placed
    <3>2. ~Armed(f)'
      BY <2>2, <3>1 DEF Armed
    <3>3. Apart(f)' /\ Placed(f)'
      BY <2>2, <2>6, <2>7, <2>10, <2>11, <3>1, <3>2 DEF Apart, Placed
    <3>4. \A g \in Fds \ {f} : Still(g)
      BY <1>2, <1>3, <2>4, <2>8, <2>11, <3>1, Constants DEF Still, Queued
    <3> QED  BY <2>5, <3>3, <3>4
  <2> QED  BY <2>9, <2>10
<1> QED  BY <1>3, <1>6, <1>7, <1>8, MoveStep

-----------------------------------------------------------------------------
LEMMA StepKeeps == HInv /\ [Next]_vars => HInv'
<1> SUFFICES ASSUME HInv, [Next]_vars PROVE HInv'
  OBVIOUS
<1>1. CASE \E c \in Clients : Connect(c) \/ Send(c) \/ HangUp(c)
  BY <1>1, ClientKeeps
<1>3. CASE MainStep
  <2>1. CASE MainWait
    BY <2>1, MainWaitKeeps
  <2>2. CASE AcceptFails \/ AcceptBusy \/ InitCount \/ CloseCount
    BY <2>2, QuietMainKeeps
  <2>3. CASE Accept \/ InitAdd
    BY <2>3, AcceptKeeps, InitAddKeeps
  <2>4. ASSUME NEW e \in evs, OnHangUp(e) \/ ReadFails(e) \/ WriteFails(e) PROVE HInv'
    BY <2>4, OnHangUpKeeps
  <2>5. ASSUME NEW e \in evs, ReadAppend(e) \/ ReadRefused(e) PROVE HInv'
    BY <2>5, ReadKeeps
  <2>6. ASSUME NEW e \in evs, WriteNothing(e) \/ WriteAgain(e) \/ WriteDone(e) PROVE HInv'
    BY <2>6, WriteKeeps
  <2> QED  BY <1>3, <2>1, <2>2, <2>3, <2>4, <2>5, <2>6, Zenon DEF MainStep
<1>4. ASSUME NEW w \in Workers, WorkerStep(w) PROVE HInv'
  <2>1. CASE TakeConn(w)
    BY <2>1, TakeKeeps
  <2>2. CASE ProcessIncomplete(w) \/ ProcessRequest(w) \/ CloseStore(w)
    BY <2>2, QuietWorkerKeeps
  <2>3. CASE CloseRemove(w)
    BY <2>3, RemoveKeeps
  <2>4. CASE CloseClear(w)
    BY <2>4, ClearKeeps
  <2>5. CASE Rearm(w)
    BY <2>5, RearmKeeps
  <2> QED  BY <1>4, <2>1, <2>2, <2>3, <2>4, <2>5 DEF WorkerStep
<1>5. CASE UNCHANGED vars
  <2> USE <1>5 DEF vars, poolVars, clientVars, mainVars, workerVars, history
  <2>1. TypeOK'
    BY DEF HInv, TypeOK
  <2>2. Matches'
    BY DEF HInv, Matches
  <2> QED  BY <2>1, <2>2, QuietStep, AddStays
<1> QED  BY <1>1, <1>3, <1>4, <1>5, Zenon DEF Next

THEOREM Placement == Spec => []HInv
BY ServerInitial, StepKeeps, PTL DEF Spec

-----------------------------------------------------------------------------
\* Theorem: no event and no queued request outlives its connection.
THEOREM ServerNothingStale == Spec => []NothingStale
<1>1. HInv => NothingStale
  <2> SUFFICES ASSUME HInv, ~raced, NEW f \in Fds, sock[f].peer = None
               PROVE  sock[f].armed = "absent" /\ ~Told(f) /\ ~Queued(f)
    BY DEF NothingStale, Told, Queued
  <2> QED  BY DEF HInv, Owned, Placed
<1> QED  BY <1>1, Placement, PTL

(***************************************************************************)
(* Losing a descriptor.  The rest of the invariant is of no help here: it  *)
(* says nothing once a descriptor has been reused inside close_conn.       *)
(***************************************************************************)
LEMMA SlotKept ==
  ASSUME NEW f, \/ slot'[f].fd = slot[f].fd /\ (sock'[f].peer # None => sock[f].peer # None)
                \/ slot'[f].fd = f
                \/ sock'[f].peer = None
  PROVE  ~(~Lost(f) /\ Lost(f)')
BY DEF Lost

LEMMA LostStep ==
  ASSUME HInv, [Next]_vars, NEW f \in Fds, ~Lost(f), Lost(f)'
  PROVE  \E w \in Workers : /\ busy[w] = f /\ sock[f].peer # None
                            /\ wpc[w] = "clear" /\ wpc'[w] = "store"
<1> USE DEF HInv, poolVars, clientVars, mainVars, workerVars, history
<1>1. /\ sock \in [Fds -> Sockets] /\ slot \in [Fds -> Users]
      /\ wpc \in [Workers -> {"idle", "run", "in", "out", "remove", "clear", "store"}]
  BY DEF TypeOK
<1>2. ASSUME slot'[f].fd = slot[f].fd, sock'[f].peer = sock[f].peer PROVE FALSE
  BY <1>2, SlotKept
<1>3. ASSUME NEW c \in Clients, Connect(c) \/ Send(c) \/ HangUp(c) PROVE FALSE
  BY <1>1, <1>2, <1>3 DEF Connect, Send, HangUp, Sockets
<1>4. ASSUME MainWait PROVE FALSE
  BY <1>1, <1>2, <1>4 DEF MainWait, Sockets
<1>5. ASSUME AcceptFails \/ AcceptBusy \/ CloseCount PROVE FALSE
  BY <1>2, <1>5 DEF AcceptFails, AcceptBusy, CloseCount
<1>6. ASSUME Accept PROVE FALSE
  <2>1. PICK g \in Fds : g = Lowest(FreeFds)
    BY <1>6, LowestIsFree DEF Accept, FreeFds
  <2>2. sock' = [sock EXCEPT ![g] = Head(backlog)] /\ slot' = [slot EXCEPT ![g].fd = g]
    BY <1>6, <2>1 DEF Accept
  <2>3. CASE f = g
    BY <1>1, <2>2, <2>3, SlotKept DEF Users
  <2>4. CASE f # g
    BY <1>1, <1>2, <2>2, <2>4
  <2> QED  BY <2>3, <2>4
<1>7. ASSUME InitAdd PROVE FALSE
  BY <1>1, <1>2, <1>7 DEF InitAdd, Sockets
<1>8. ASSUME InitCount PROVE FALSE
  <2>1. slot' = [slot EXCEPT ![mfd] = Fresh(slot[mfd].fd)] /\ sock' = sock
    BY <1>8 DEF InitCount
  <2> QED  BY <1>1, <1>2, <2>1 DEF Fresh
<1>9. ASSUME NEW e \in evs, e.fd \in Fds, Handle(e), MainClose(e.fd) PROVE FALSE
  <2>1. \/ UNCHANGED <<sock, slot>>
        \/ sock' = [sock EXCEPT ![e.fd] = Free] /\ slot' = [slot EXCEPT ![e.fd].fd = Closed]
    BY <1>9, MainCloseEffect DEF Handle
  <2>2. CASE e.fd = f
    BY <1>1, <1>2, <2>1, <2>2, FreeType, SlotKept
  <2>3. CASE e.fd # f
    BY <1>1, <1>2, <2>1, <2>3
  <2> QED  BY <2>2, <2>3
<1>10. ASSUME NEW e \in evs, OnHangUp(e) \/ ReadFails(e) \/ WriteFails(e) PROVE FALSE
  BY <1>9, <1>10 DEF OnHangUp, ReadFails, WriteFails, OnWritable
<1>11. ASSUME NEW e \in evs, ReadAppend(e) \/ ReadRefused(e) PROVE FALSE
  <2>1. PICK b : slot' = [slot EXCEPT ![e.fd] = [slot[e.fd] EXCEPT !.buf = b]]
    BY <1>1, <1>11 DEF ReadAppend, ReadRefused, ReadSucceeds
  <2>2. slot'[f].fd = slot[f].fd
    BY <1>1, <2>1 DEF Users
  <2>3. sock'[f].peer = sock[f].peer
    BY <1>1, <1>11 DEF ReadAppend, ReadRefused, ReadSucceeds, Sockets
  <2> QED  BY <1>2, <2>2, <2>3
<1>12. ASSUME NEW fd, NEW ev \in {"in", "out"}, sock' = Arm(sock, fd, ev)
       PROVE  sock'[f].peer = sock[f].peer
  BY <1>1, <1>12, ArmEffect
<1>13. ASSUME NEW e \in evs, WriteNothing(e) \/ WriteAgain(e) \/ WriteDone(e) PROVE FALSE
  <2>1. CASE WriteNothing(e) \/ WriteAgain(e) \/ (WriteDone(e) /\ slot[e.fd].linger)
    <3>1. /\ \E fd : \E ev \in {"in", "out"} : sock' = Arm(sock, fd, ev)
          /\ slot' = slot \/ slot' = [slot EXCEPT ![e.fd] = Fresh(slot[e.fd].fd)]
      BY <2>1 DEF WriteNothing, WriteAgain, WriteDone
    <3>2. slot'[f].fd = slot[f].fd
      BY <1>1, <3>1 DEF Fresh
    <3> QED  BY <1>2, <1>12, <3>1, <3>2
  <2>2. CASE WriteDone(e) /\ ~slot[e.fd].linger
    BY <1>9, <2>2 DEF WriteDone, OnWritable
  <2> QED  BY <1>13, <2>1, <2>2
<1>14. ASSUME NEW w \in Workers,
              TakeConn(w) \/ ProcessIncomplete(w) \/ ProcessRequest(w) \/ CloseStore(w)
       PROVE  FALSE
  <2>1. CASE ProcessRequest(w)
    <3>1. PICK keep \in BOOLEAN :
             slot' = [slot EXCEPT ![busy[w]].reply = TRUE, ![busy[w]].linger = keep]
      BY <2>1 DEF ProcessRequest
    <3>2. slot'[f].fd = slot[f].fd
      BY <1>1, <3>1 DEF Users
    <3> QED  BY <1>2, <2>1, <3>2 DEF ProcessRequest
  <2>2. CASE ~ProcessRequest(w)
    BY <1>2, <1>14, <2>2 DEF TakeConn, ProcessIncomplete, CloseStore
  <2> QED  BY <2>1, <2>2
<1>15. ASSUME NEW w \in Workers, CloseRemove(w) PROVE FALSE
  <2>1. busy[w] \in Fds /\ slot' = slot /\ slot[busy[w]].fd \in {busy[w], Closed}
    BY <1>15 DEF CloseRemove, Matches, TypeOK
  <2>2. sock' = sock \/ sock' = [sock EXCEPT ![busy[w]] = Free]
    BY <1>15, <2>1 DEF CloseRemove, Shut
  <2>3. sock'[f].peer = sock[f].peer \/ sock'[f].peer = None
    BY <1>1, <2>1, <2>2, FreeType
  <2> QED  BY <1>2, <2>1, <2>3, SlotKept
<1>16. ASSUME NEW w \in Workers, Rearm(w) PROVE FALSE
  <2>1. PICK ev \in {"in", "out"} : ev = wpc[w] /\ sock' = Arm(sock, slot[busy[w]].fd, ev)
    BY <1>16 DEF Rearm
  <2> QED  BY <1>2, <1>12, <1>16, <2>1 DEF Rearm
<1>17. ASSUME NEW w \in Workers, CloseClear(w)
       PROVE  /\ busy[w] = f /\ sock[f].peer # None
              /\ wpc[w] = "clear" /\ wpc'[w] = "store"
  <2>1. busy[w] \in Fds /\ sock' = sock /\ slot' = [slot EXCEPT ![busy[w]].fd = Closed]
    BY <1>17 DEF CloseClear, Matches, TypeOK
  <2>2. busy[w] = f
    BY <1>1, <1>2, <2>1
  <2>3. wpc[w] = "clear" /\ wpc'[w] = "store"
    BY <1>1, <1>17 DEF CloseClear
  <2> QED  BY <2>1, <2>2, <2>3 DEF Lost
<1>18. CASE UNCHANGED vars
  BY <1>2, <1>18 DEF vars
<1>19. CASE MainStep
  BY <1>4, <1>5, <1>6, <1>7, <1>8, <1>10, <1>11, <1>13, <1>19, Zenon DEF MainStep
<1>20. CASE \E w \in Workers : WorkerStep(w)
  BY <1>14, <1>15, <1>16, <1>17, <1>20, Zenon DEF WorkerStep
<1> QED  BY <1>3, <1>18, <1>19, <1>20, Zenon DEF Next

\* Theorem: users[f]._fd stops naming the open descriptor f in one way, the
\* write of -1 by a worker whose descriptor was accepted again since it closed it.
THEOREM ServerLostOnlyByReuse == Spec => LostOnlyByReuse
<1>1. HInv /\ [Next]_vars =>
        [\A f \in Fds : ~Lost(f) /\ Lost(f)' =>
            \E w \in Workers : /\ busy[w] = f /\ sock[f].peer # None
                               /\ wpc[w] = "clear" /\ wpc'[w] = "store"]_vars
  BY LostStep
<1> QED  BY <1>1, Placement, PTL DEF Spec, LostOnlyByReuse

-----------------------------------------------------------------------------
(***************************************************************************)
(* One owner.                                                              *)
(***************************************************************************)
LEMMA AtMostOne ==
  ASSUME NEW S, \A x, y \in S : x = y
  PROVE  Cardinality(S) = One(S # {})
<1>1. CASE S = {}
  BY <1>1, FS_EmptySet DEF One
<1>2. CASE S # {}
  <2>1. PICK x \in S : S = {x}
    BY <1>2
  <2> QED  BY <1>2, <2>1, FS_Singleton DEF One
<1> QED  BY <1>1, <1>2

\* Theorem: an open connection has exactly one owner, and every variable
\* keeps its type.
THEOREM ServerOneOwner == Spec => []OneOwner
<1>1. HInv => OneOwner
  <2> SUFFICES ASSUME HInv, ~raced, NEW f \in Fds, sock[f].peer # None
               PROVE  Custodians(f) = 1
    BY DEF OneOwner, HInv
  <2>1. Single /\ Apart(f) /\ Placed(f)
    BY DEF HInv, Owned
  <2>2. Cardinality({i \in 1..Len(waiting) : waiting[i] = f}) = One(Queued(f))
    <3> DEFINE S == {i \in 1..Len(waiting) : waiting[i] = f}
    <3>1. \A i, j \in S : i = j
      BY <2>1 DEF Single
    <3>2. S # {} <=> Queued(f)
      BY DEF Queued
    <3> HIDE DEF S
    <3>3. Cardinality(S) = One(S # {})
      BY <3>1, AtMostOne
    <3> QED  BY <3>2, <3>3 DEF S, One
  <2>3. Cardinality({w \in Workers : busy[w] = f}) = One(Served(f))
    <3> DEFINE S == {w \in Workers : busy[w] = f}
    <3>1. \A w1, w2 \in S : w1 = w2
      BY <2>1, Constants DEF Single
    <3>2. S # {} <=> Served(f)
      BY DEF Served
    <3> HIDE DEF S
    <3>3. Cardinality(S) = One(S # {})
      BY <3>1, AtMostOne
    <3> QED  BY <3>2, <3>3 DEF S, One
  <2>4. Custodians(f) = One(Armed(f)) + One(AtAdd(f)) + One(Told(f)) + One(Queued(f))
                        + One(Served(f)) + One(f \in stranded)
    BY <2>2, <2>3 DEF Custodians, Armed, AtAdd, Told
  <2>5. AtAdd(f) \/ Armed(f) \/ Told(f) \/ Queued(f) \/ Served(f) \/ f \in stranded
    BY <2>1 DEF Placed
  <2> QED  BY <2>1, <2>4, <2>5 DEF Apart, One
<1> QED  BY <1>1, Placement, PTL

-----------------------------------------------------------------------------
(***************************************************************************)
(* The number of users.                                                    *)
(***************************************************************************)
Open == {f \in Fds : sock[f].peer # None}
Closing == {w \in Workers : wpc[w] \in {"clear", "store"}}

LEMMA Counts ==
  /\ IsFiniteSet(Open) /\ Cardinality(Open) \in Nat
  /\ IsFiniteSet(Closing) /\ Cardinality(Closing) \in Nat
<1>1. IsFiniteSet(Open) /\ IsFiniteSet(Closing)
  BY ServerAssumption, FS_Subset DEF Open, Closing
<1> QED  BY <1>1, FS_CardinalityType

LEMMA Gap ==
  /\ CountGap = userCnt - Cardinality(Open) + One(mpc \in {"add", "count"}) - One(mpc = "uncount")
                 - Cardinality(Closing)
  /\ CountGap' = userCnt' - Cardinality(Open') + One(mpc' \in {"add", "count"}) - One(mpc' = "uncount")
                  - Cardinality(Closing')
BY DEF CountGap, Open, Closing

LEMMA GapStays ==
  ASSUME UNCHANGED <<userCnt, mpc>>,
         \A f \in Fds : sock'[f].peer = sock[f].peer,
         \A w \in Workers : wpc'[w] \in {"clear", "store"} <=> wpc[w] \in {"clear", "store"}
  PROVE  CountGap' = CountGap
<1>1. Open' = Open /\ Closing' = Closing
  BY DEF Open, Closing
<1> QED  BY <1>1 DEF CountGap, Open, Closing

LEMMA MainCloseGap ==
  ASSUME HInv, ~raced, NEW e \in evs, e.fd \in Fds, Handle(e), MainClose(e.fd),
         UNCHANGED <<userCnt, wpc>>
  PROVE  CountGap' = CountGap
<1>1. /\ mpc = "loop" /\ mpc' = "uncount" /\ sock[e.fd].peer # None
      /\ sock' = [sock EXCEPT ![e.fd] = Free]
  BY HandledEvent, MainCloseEffect, Constants DEF HInv, Handle
<1>2. Open' = Open \ {e.fd} /\ e.fd \in Open /\ Closing' = Closing
  BY <1>1, FreeType DEF Open, Closing, HInv, TypeOK
<1>3. Cardinality(Open') = Cardinality(Open) - 1
  BY <1>2, Counts, FS_RemoveElement
<1> QED  BY <1>1, <1>2, <1>3, Counts, Gap DEF One, HInv, TypeOK

LEMMA GapStep ==
  ASSUME HInv, [Next]_vars, ~raced, ~OverwritesUpdate
  PROVE  CountGap' = CountGap
<1> USE DEF HInv, poolVars, clientVars, mainVars, workerVars, history
<1>1. userCnt \in Int /\ sock \in [Fds -> Sockets]
      /\ wpc \in [Workers -> {"idle", "run", "in", "out", "remove", "clear", "store"}]
  BY DEF TypeOK
<1>3. ASSUME NEW c \in Clients, Connect(c) \/ Send(c) \/ HangUp(c)
      PROVE  CountGap' = CountGap
  BY <1>1, <1>3, GapStays DEF Connect, Send, HangUp, Sockets
<1>4. CASE MainWait
  BY <1>1, <1>4, GapStays DEF MainWait, Sockets
<1>5. CASE AcceptFails \/ AcceptBusy
  BY <1>5, GapStays DEF AcceptFails, AcceptBusy
<1>6. CASE Accept
  <2>1. PICK f \in Fds : f = Lowest(FreeFds) /\ sock[f].peer = None
    BY <1>6, LowestIsFree DEF Accept, FreeFds
  <2>2. Head(backlog).peer # None
    BY <1>6, HeadTailProperties, Constants DEF Accept, TypeOK, Waiters
  <2>3. \A g \in Fds : sock'[g].peer # None <=> g = f \/ sock[g].peer # None
    BY <1>1, <1>6, <2>1, <2>2 DEF Accept
  <2>4. Open' = Open \cup {f} /\ f \notin Open /\ Closing' = Closing
    BY <1>6, <2>1, <2>3 DEF Open, Closing, Accept
  <2>5. Cardinality(Open') = Cardinality(Open) + 1
    BY <2>4, Counts, FS_AddElement
  <2>6. mpc = "loop" /\ mpc' = "add" /\ userCnt' = userCnt
    BY <1>6 DEF Accept, Handle
  <2> QED  BY <1>1, <2>4, <2>5, <2>6, Counts, Gap DEF One
<1>21. CASE InitAdd
  <2>1. Open' = Open /\ Closing' = Closing
    BY <1>1, <1>21 DEF InitAdd, Open, Closing, Sockets
  <2> QED  BY <1>1, <1>21, <2>1, Gap DEF InitAdd, One
<1>7. CASE InitCount
  <2>1. mpc = "count" /\ mpc' = "loop" /\ mcnt = userCnt /\ userCnt' = userCnt + 1
    BY <1>7 DEF InitCount, OverwritesUpdate
  <2>2. Open' = Open /\ Closing' = Closing
    BY <1>7 DEF InitCount, Open, Closing
  <2> QED  BY <1>1, <2>1, <2>2, Counts, Gap DEF One
<1>8. CASE CloseCount
  <2>1. mpc = "uncount" /\ mpc' = "loop" /\ mcnt = userCnt /\ userCnt' = userCnt - 1
    BY <1>8 DEF CloseCount, OverwritesUpdate
  <2>2. Open' = Open /\ Closing' = Closing
    BY <1>8 DEF CloseCount, Open, Closing
  <2> QED  BY <1>1, <2>1, <2>2, Counts, Gap DEF One
<1>9. ASSUME NEW e \in evs, OnHangUp(e) \/ ReadFails(e) \/ WriteFails(e)
      PROVE  CountGap' = CountGap
  BY <1>9, MainCloseGap DEF OnHangUp, ReadFails, WriteFails, OnWritable
<1>10. ASSUME NEW e \in evs, ReadAppend(e) \/ ReadRefused(e)
       PROVE  CountGap' = CountGap
  BY <1>1, <1>10, GapStays DEF ReadAppend, ReadRefused, ReadSucceeds, Sockets
<1>11. ASSUME NEW fd, NEW ev \in {"in", "out"}, sock' = Arm(sock, fd, ev)
       PROVE  \A g \in Fds : sock'[g].peer = sock[g].peer
  BY <1>1, <1>11, ArmEffect
<1>12. ASSUME NEW e \in evs, WriteNothing(e) \/ WriteAgain(e) \/ WriteDone(e)
       PROVE  CountGap' = CountGap
  <2>1. CASE WriteNothing(e) \/ WriteAgain(e) \/ (WriteDone(e) /\ slot[e.fd].linger)
    <3>1. /\ \E fd : \E ev \in {"in", "out"} : sock' = Arm(sock, fd, ev)
          /\ UNCHANGED <<userCnt, mpc, wpc>>
      BY <2>1 DEF WriteNothing, WriteAgain, WriteDone
    <3> QED  BY <1>11, <3>1, GapStays
  <2>2. CASE WriteDone(e) /\ ~slot[e.fd].linger
    BY <2>2, MainCloseGap DEF WriteDone, OnWritable
  <2> QED  BY <1>12, <2>1, <2>2
<1>13. ASSUME NEW w \in Workers,
              TakeConn(w) \/ ProcessIncomplete(w) \/ ProcessRequest(w) \/ CloseClear(w)
       PROVE  CountGap' = CountGap
  <2>1. UNCHANGED <<userCnt, mpc, sock>>
    BY <1>13 DEF TakeConn, ProcessIncomplete, ProcessRequest, CloseClear
  <2>2. \A v \in Workers : wpc'[v] \in {"clear", "store"} <=> wpc[v] \in {"clear", "store"}
    BY <1>1, <1>13 DEF TakeConn, ProcessIncomplete, ProcessRequest, CloseClear
  <2> QED  BY <2>1, <2>2, GapStays
<1>14. ASSUME NEW w \in Workers, CloseRemove(w) PROVE CountGap' = CountGap
  <2>1. wpc[w] = "remove" /\ busy[w] \in Fds /\ sock[busy[w]].peer # None
    BY <1>14 DEF CloseRemove, TypeOK, Matches, Owned, Placed
  <2>2. slot[busy[w]].fd = busy[w]
    BY <2>1 DEF Owned, Placed
  <2>3. /\ Shut(busy[w]) /\ wpc' = [wpc EXCEPT ![w] = "clear"]
        /\ UNCHANGED <<userCnt, mpc>>
    BY <1>14, <2>1, <2>2, Constants DEF CloseRemove
  <2>4. sock' = [sock EXCEPT ![busy[w]] = Free]
    BY <2>3 DEF Shut
  <2>5. Open' = Open \ {busy[w]} /\ busy[w] \in Open
    BY <1>1, <2>1, <2>4, FreeType DEF Open
  <2>6. Closing' = Closing \cup {w} /\ w \notin Closing
    BY <1>1, <2>1, <2>3 DEF Closing
  <2>7. /\ Cardinality(Open') = Cardinality(Open) - 1
        /\ Cardinality(Closing') = Cardinality(Closing) + 1
    BY <2>5, <2>6, Counts, FS_RemoveElement, FS_AddElement
  <2> QED  BY <1>1, <2>3, <2>7, Counts, Gap DEF One
<1>15. ASSUME NEW w \in Workers, CloseStore(w) PROVE CountGap' = CountGap
  <2>1. wpc[w] = "store" /\ wpc' = [wpc EXCEPT ![w] = "out"] /\ UNCHANGED <<sock, mpc>>
    BY <1>15 DEF CloseStore
  <2>2. userCnt' = userCnt - 1
    BY <1>1, <1>15, <2>1 DEF CloseStore, OverwritesUpdate
  <2>3. Closing' = Closing \ {w} /\ w \in Closing /\ Open' = Open
    BY <1>1, <2>1 DEF Closing, Open
  <2>4. Cardinality(Closing') = Cardinality(Closing) - 1
    BY <2>3, Counts, FS_RemoveElement
  <2> QED  BY <1>1, <2>1, <2>2, <2>3, <2>4, Counts, Gap DEF One
<1>16. ASSUME NEW w \in Workers, Rearm(w) PROVE CountGap' = CountGap
  <2>1. PICK ev \in {"in", "out"} : ev = wpc[w] /\ sock' = Arm(sock, slot[busy[w]].fd, ev)
    BY <1>16 DEF Rearm
  <2>2. \A g \in Fds : sock'[g].peer = sock[g].peer
    BY <1>11, <2>1
  <2>3. \A v \in Workers : wpc'[v] \in {"clear", "store"} <=> wpc[v] \in {"clear", "store"}
    BY <1>1, <1>16 DEF Rearm
  <2> QED  BY <1>16, <2>2, <2>3, GapStays DEF Rearm
<1>17. CASE UNCHANGED vars
  BY <1>17, GapStays DEF vars
<1>18. CASE MainStep
  BY <1>4, <1>5, <1>6, <1>7, <1>8, <1>9, <1>10, <1>12, <1>18, <1>21, Zenon DEF MainStep
<1>19. CASE \E w \in Workers : WorkerStep(w)
  BY <1>13, <1>14, <1>15, <1>16, <1>19, Zenon DEF WorkerStep
<1> QED  BY <1>3, <1>17, <1>18, <1>19, Zenon DEF Next

\* Theorem: _user_cnt goes wrong only by a store that overwrites an update, as
\* long as no descriptor was reused inside close_conn.
THEOREM ServerOnlyRacesMiscount == Spec => OnlyRacesMiscount
<1>1. HInv /\ [Next]_vars => [~raced /\ CountGap' # CountGap => OverwritesUpdate]_vars
  BY GapStep
<1> QED  BY <1>1, Placement, PTL DEF Spec, OnlyRacesMiscount

(***************************************************************************)
(* One connection.  At every moment what is in the buffer, in the socket   *)
(* and still with the client are consecutive parts of one request, and the *)
(* members of the parser are what the words it has passed make of them.    *)
(***************************************************************************)

\* A set of numbers that is not empty has a least.
LEMMA LeastNumber ==
  ASSUME NEW S, S \subseteq Nat, S # {}
  PROVE  \E m \in S : \A n \in S : m <= n
<1>1. PICK m \in S : \A n \in S : <<n, m>> \notin OpToRel(<, Nat)
  BY WFMin, NatLessThanWellFounded
<1>2. \A n \in S : ~(n < m)
  BY <1>1, Zenon DEF OpToRel
<1> QED  BY <1>2

-----------------------------------------------------------------------------
\* A sequence, whatever its elements are.
IsSeq(s) == s \in Seq(ToSet(s))

\* A sequence of whatever elements is one.
LEMMA SeqIs ==
  ASSUME NEW S, NEW s \in Seq(S)
  PROVE  IsSeq(s) /\ Len(s) \in Nat /\ DOMAIN s = 1..Len(s)
<1>1. Len(s) \in Nat /\ DOMAIN s = 1..Len(s)
  OBVIOUS
<1>2. s = [i \in 1..Len(s) |-> s[i]]
  BY <1>1
<1>3. \A i \in 1..Len(s) : s[i] \in ToSet(s)
  BY <1>1 DEF ToSet
<1> DEFINE R == ToSet(s)
<1> HIDE DEF R
<1>4. \A i \in 1..Len(s) : s[i] \in R
  BY <1>3 DEF R
<1>5. s \in Seq(R)
  BY <1>1, <1>2, <1>4
<1> QED  BY <1>1, <1>5 DEF IsSeq, R

\* What a concatenation is.
IsJoin(s, t, u) ==
  /\ IsSeq(u) /\ Len(u) = Len(s) + Len(t)
  /\ \A i \in 1..Len(s) : u[i] = s[i]
  /\ \A i \in 1..Len(t) : u[Len(s) + i] = t[i]
LEMMA JoinOf == ASSUME NEW s, NEW t, IsSeq(s), IsSeq(t) PROVE IsJoin(s, t, s \o t)
<1> DEFINE S == ToSet(s) \cup ToSet(t)
<1>1. s \in Seq(S) /\ t \in Seq(S)
  <2>1. \A A, B : A \subseteq B => Seq(A) \subseteq Seq(B)
    OBVIOUS
  <2> QED  BY <2>1 DEF IsSeq
<1> HIDE DEF S
<1>2. s \o t \in Seq(S) /\ Len(s \o t) = Len(s) + Len(t)
  BY <1>1
<1>3. IsSeq(s \o t)
  BY <1>2, SeqIs
<1>4. /\ \A i \in 1..Len(s) : (s \o t)[i] = s[i]
      /\ \A i \in 1..Len(t) : (s \o t)[Len(s) + i] = t[i]
  BY <1>1
<1> QED  BY <1>2, <1>3, <1>4 DEF IsJoin

\* What a cut is.
IsCut(s, m, n, u) ==
  /\ IsSeq(u) /\ Len(u) = n + 1 - m
  /\ \A i \in 1..Len(u) : u[i] = s[m + i - 1]
LEMMA CutOf ==
  ASSUME NEW s, IsSeq(s), NEW m \in Nat \ {0}, NEW n \in Nat, m <= n + 1, n <= Len(s)
  PROVE  IsCut(s, m, n, SubSeq(s, m, n))
<1> DEFINE S == ToSet(s)
<1>1. s \in Seq(S)
  BY DEF IsSeq
<1> HIDE DEF S
<1>2. SubSeq(s, m, n) \in Seq(S) /\ Len(SubSeq(s, m, n)) = n + 1 - m
  BY <1>1
<1>3. IsSeq(SubSeq(s, m, n))
  BY <1>2, SeqIs
<1>4. \A i \in 1..(n + 1 - m) : SubSeq(s, m, n)[i] = s[m + i - 1]
  BY <1>1
<1> QED  BY <1>2, <1>3, <1>4 DEF IsCut

\* What appending is.
IsAppend(s, e, u) ==
  /\ IsSeq(u) /\ Len(u) = Len(s) + 1 /\ u[Len(s) + 1] = e
  /\ DOMAIN u = 1..Len(s) + 1
  /\ \A i \in 1..Len(s) : u[i] = s[i]
  /\ u # <<>>
LEMMA AppendOf == ASSUME NEW s, NEW e, IsSeq(s) PROVE IsAppend(s, e, Append(s, e))
<1> DEFINE S == ToSet(s) \cup {e}
<1>1. s \in Seq(S) /\ e \in S
  <2>1. \A A, B : A \subseteq B => Seq(A) \subseteq Seq(B)
    OBVIOUS
  <2> QED  BY <2>1 DEF IsSeq
<1> HIDE DEF S
<1>2. Append(s, e) \in Seq(S) /\ Len(Append(s, e)) = Len(s) + 1 /\ Append(s, e)[Len(s) + 1] = e
  BY <1>1
<1>3. IsSeq(Append(s, e)) /\ DOMAIN Append(s, e) = 1..Len(Append(s, e))
  BY <1>2, SeqIs
<1>4. \A i \in 1..Len(s) : Append(s, e)[i] = s[i]
  BY <1>1
<1>5. Append(s, e) # <<>>
  <2>1. Len(s) \in Nat /\ Len(<<>>) = 0
    BY <1>1, EmptySeq
  <2> QED  BY <1>2, <2>1
<1> QED  BY <1>2, <1>3, <1>4, <1>5 DEF IsAppend

\* The length of a sequence.
LEMMA LenOf ==
  ASSUME NEW s, IsSeq(s)
  PROVE  Len(s) \in Nat /\ DOMAIN s = 1..Len(s) /\ (s = <<>> <=> Len(s) = 0)
<1> DEFINE S == ToSet(s)
<1>1. s \in Seq(S)
  BY DEF IsSeq
<1> HIDE DEF S
<1> QED  BY <1>1, EmptySeq

\* The empty sequence, and short ones.
LEMMA ShortOnes == IsSeq(<<>>) /\ \A a, b : IsSeq(<<a>>) /\ IsSeq(<<a, b>>)
<1>1. IsSeq(<<>>)
  <2>1. <<>> \in Seq({})
    OBVIOUS
  <2> QED  BY <2>1, SeqIs
<1>2. ASSUME NEW a, NEW b PROVE IsSeq(<<a>>) /\ IsSeq(<<a, b>>)
  <2>1. <<a>> \in Seq({a, b}) /\ <<a, b>> \in Seq({a, b})
    OBVIOUS
  <2> QED  BY <2>1, SeqIs
<1> QED  BY <1>1, <1>2
-----------------------------------------------------------------------------
\* Where a header line is in the text of a request.
LEMMA Thirds ==
  ASSUME NEW k \in Nat
  PROVE  /\ (3 * k + 1) % 3 = 1 /\ (3 * k + 1 + 2) \div 3 = k + 1
         /\ (3 * k + 2) % 3 = 2 /\ (3 * k + 3) % 3 = 0
  OBVIOUS

IsHeaderLines(r, h) ==
  /\ IsSeq(h) /\ Len(h) = 3 * Len(r.headers)
  /\ \A k \in 0..Len(r.headers) - 1 :
       h[3 * k + 1] = r.headers[k + 1] /\ h[3 * k + 2] = "CR" /\ h[3 * k + 3] = "LF"
LEMMA HeaderLinesAt ==
  ASSUME NEW r, IsSeq(r.headers)
  PROVE  IsHeaderLines(r, HeaderLines(r))
<1> DEFINE n == Len(r.headers)
           h == HeaderLines(r)
<1>1. n \in Nat
  BY LenOf
<1>2. \A i \in 1..3 * n :
        h[i] = IF i % 3 = 1 THEN r.headers[(i + 2) \div 3] ELSE IF i % 3 = 2 THEN "CR" ELSE "LF"
  BY DEF HeaderLines
<1>3. IsSeq(h) /\ Len(h) = 3 * n
  <2>1. DOMAIN h = 1..3 * n /\ h = [i \in 1..3 * n |-> h[i]]
    BY <1>2 DEF HeaderLines
  <2>2. \A i \in 1..3 * n : h[i] \in ToSet(h)
    BY <2>1 DEF ToSet
  <2> DEFINE R == ToSet(h)
             m == 3 * n
  <2>3. m \in Nat
    BY <1>1
  <2> HIDE DEF R, h, n, m
  <2>4. h = [i \in 1..m |-> h[i]] /\ \A i \in 1..m : h[i] \in R
    BY <2>1, <2>2 DEF R, m
  <2>5. h \in Seq(R) /\ Len(h) = m
    BY <2>3, <2>4
  <2> QED  BY <2>5 DEF IsSeq, R, m
<1> HIDE DEF n, h
<1>4. ASSUME NEW k \in 0..n - 1
      PROVE  h[3 * k + 1] = r.headers[k + 1] /\ h[3 * k + 2] = "CR" /\ h[3 * k + 3] = "LF"
  <2>1. k \in Nat /\ k < n
    BY <1>1, <1>4
  <2>2. 3 * k + 1 \in 1..3 * n /\ 3 * k + 2 \in 1..3 * n /\ 3 * k + 3 \in 1..3 * n
    BY <1>1, <2>1
  <2>3. h[3 * k + 1] = r.headers[k + 1]
    <3> DEFINE i == 3 * k + 1
    <3>1. i % 3 = 1 /\ (i + 2) \div 3 = k + 1
      BY <2>1, Thirds
    <3>2. i \in 1..3 * n
      BY <2>2
    <3> HIDE DEF i
    <3>3. h[i] = r.headers[k + 1]
      BY <1>2, <3>1, <3>2
    <3> QED  BY <3>3 DEF i
  <2>4. h[3 * k + 2] = "CR"
    <3> DEFINE i == 3 * k + 2
    <3>1. i % 3 = 2
      BY <2>1, Thirds
    <3>2. i \in 1..3 * n
      BY <2>2
    <3> HIDE DEF i
    <3>3. h[i] = "CR"
      BY <1>2, <3>1, <3>2
    <3> QED  BY <3>3 DEF i
  <2>5. h[3 * k + 3] = "LF"
    <3> DEFINE i == 3 * k + 3
    <3>1. i % 3 = 0
      BY <2>1, Thirds
    <3>2. i \in 1..3 * n
      BY <2>2
    <3> HIDE DEF i
    <3>3. h[i] = "LF"
      BY <1>2, <3>1, <3>2
    <3> QED  BY <3>3 DEF i
  <2> QED  BY <2>3, <2>4, <2>5
<1> QED  BY <1>3, <1>4 DEF IsHeaderLines, n, h

\* A request of a session is what it is assumed to be.
LEMMA RequestIs ==
  ASSUME NEW r, IsRequest(r)
  PROVE  /\ IsSeq(r.headers) /\ IsSeq(r.content) /\ IsSeq(r.eol)
         /\ Len(r.headers) \in Nat /\ Len(r.content) \in Nat
         /\ DOMAIN r.headers = 1..Len(r.headers)
         /\ WellFormed(r) => Len(r.eol) = 2 /\ r.eol[1] = "CR" /\ r.eol[2] = "LF"
         /\ ~WellFormed(r) => Len(r.eol) = 1 /\ r.eol[1] \in {"CR", "LF"}
<1>1. IsSeq(r.headers) /\ IsSeq(r.content)
  BY DEF IsRequest, IsSeq
<1>2. IsSeq(r.eol)
  BY ShortOnes DEF IsRequest, CRLF
<1>3. WellFormed(r) => Len(r.eol) = 2 /\ r.eol[1] = "CR" /\ r.eol[2] = "LF"
  BY DEF WellFormed, CRLF
<1>4. ~WellFormed(r) => Len(r.eol) = 1 /\ r.eol[1] \in {"CR", "LF"}
  BY DEF WellFormed, IsRequest, CRLF
<1> QED  BY <1>1, <1>2, <1>3, <1>4, LenOf

\* What the parts of a text are in it.
HasParts(l, e, h, c, T) ==
  /\ IsSeq(T) /\ Len(T) = 1 + Len(e) + Len(h) + 2 + Len(c)
  /\ T[1] = l /\ \A i \in 1..Len(e) : T[1 + i] = e[i]
  /\ \A i \in 1..Len(h) : T[1 + Len(e) + i] = h[i]
  /\ T[1 + Len(e) + Len(h) + 1] = "CR" /\ T[1 + Len(e) + Len(h) + 2] = "LF"
LEMMA FourParts ==
  ASSUME NEW l, NEW e, NEW h, NEW c, IsSeq(e), IsSeq(h), IsSeq(c)
  PROVE  HasParts(l, e, h, c, <<l>> \o e \o h \o CRLF \o c)
<1> DEFINE a == <<l>>
           b == a \o e
           d == b \o h
           f == d \o CRLF
           T == f \o c
<1>1. IsSeq(a) /\ Len(a) = 1 /\ a[1] = l
  BY ShortOnes
<1>2. IsSeq(CRLF) /\ Len(CRLF) = 2 /\ CRLF[1] = "CR" /\ CRLF[2] = "LF"
  BY ShortOnes DEF CRLF
<1> HIDE DEF a, b, d, f, T
<1>3. IsJoin(a, e, b)
  BY <1>1, JoinOf DEF b
<1>4. IsJoin(b, h, d)
  <2>1. IsSeq(b)
    BY <1>3 DEF IsJoin
  <2> QED  BY <2>1, JoinOf DEF d
<1>5. IsJoin(d, CRLF, f)
  <2>1. IsSeq(d)
    BY <1>4 DEF IsJoin
  <2> QED  BY <1>2, <2>1, JoinOf DEF f
<1>6. IsJoin(f, c, T)
  <2>1. IsSeq(f)
    BY <1>5 DEF IsJoin
  <2> QED  BY <2>1, JoinOf DEF T
<1>7. /\ Len(e) \in Nat /\ Len(h) \in Nat /\ Len(c) \in Nat
      /\ Len(b) = 1 + Len(e) /\ Len(d) = Len(b) + Len(h) /\ Len(f) = Len(d) + 2
      /\ Len(T) = Len(f) + Len(c)
  BY <1>1, <1>2, <1>3, <1>4, <1>5, <1>6, LenOf DEF IsJoin
<1>8. \A i \in 1..Len(f) : T[i] = f[i]
  BY <1>6 DEF IsJoin
<1>9. \A i \in 1..Len(d) : T[i] = d[i]
  BY <1>5, <1>7, <1>8 DEF IsJoin
<1>10. \A i \in 1..Len(b) : T[i] = b[i]
  BY <1>4, <1>7, <1>9 DEF IsJoin
<1>11. T[1] = l
  BY <1>1, <1>3, <1>7, <1>10 DEF IsJoin
<1>12. \A i \in 1..Len(e) : T[1 + i] = e[i]
  BY <1>1, <1>3, <1>7, <1>10 DEF IsJoin
<1>13. \A i \in 1..Len(h) : T[1 + Len(e) + i] = h[i]
  BY <1>4, <1>7, <1>9 DEF IsJoin
<1>14. T[Len(d) + 1] = "CR" /\ T[Len(d) + 2] = "LF"
  BY <1>2, <1>5, <1>7, <1>8 DEF IsJoin
<1>15. T[1 + Len(e) + Len(h) + 1] = "CR" /\ T[1 + Len(e) + Len(h) + 2] = "LF"
  BY <1>7, <1>14
<1>16. IsSeq(T) /\ Len(T) = 1 + Len(e) + Len(h) + 2 + Len(c)
  BY <1>6, <1>7 DEF IsJoin
<1> QED  BY <1>11, <1>12, <1>13, <1>15, <1>16 DEF HasParts, a, b, d, f, T

\* The text of a request by position: of a malformed one the line and the two
\* words after it, of a well-formed one all but the content.
IsText(r, T) ==
  /\ IsSeq(T) /\ T[1] = r.line /\ Len(T) \in Nat /\ Len(T) >= 4
  /\ HeadLen(r) \in Nat /\ Len(T) = HeadLen(r) + Len(r.content)
  /\ ~WellFormed(r) => T[2] \in {"CR", "LF"} /\ T[3] # "LF"
  /\ WellFormed(r) =>
       /\ T[2] = "CR" /\ T[3] = "LF"
       /\ HeadLen(r) = 5 + 3 * Len(r.headers)
       /\ \A k \in 0..Len(r.headers) - 1 :
            /\ T[3 + 3 * k + 1] = r.headers[k + 1]
            /\ T[3 + 3 * k + 2] = "CR" /\ T[3 + 3 * k + 3] = "LF"
       /\ T[3 + 3 * Len(r.headers) + 1] = "CR" /\ T[3 + 3 * Len(r.headers) + 2] = "LF"
LEMMA TextIs == ASSUME NEW r, IsRequest(r) PROVE IsText(r, Tokens(r))
<1> DEFINE e == r.eol
           h == HeaderLines(r)
           c == r.content
           T == Tokens(r)
           n == Len(r.headers)
<1>1. IsHeaderLines(r, h)
  BY RequestIs, HeaderLinesAt
<1>2. IsSeq(e) /\ IsSeq(h) /\ IsSeq(c)
  BY <1>1, RequestIs DEF IsHeaderLines
<1>3. /\ IsSeq(T) /\ Len(T) = 1 + Len(e) + Len(h) + 2 + Len(c)
      /\ T[1] = r.line /\ \A i \in 1..Len(e) : T[1 + i] = e[i]
      /\ \A i \in 1..Len(h) : T[1 + Len(e) + i] = h[i]
      /\ T[1 + Len(e) + Len(h) + 1] = "CR" /\ T[1 + Len(e) + Len(h) + 2] = "LF"
  <2>1. HasParts(r.line, e, h, c, T)
    BY <1>2, FourParts, Zenon DEF Tokens
  <2> QED  BY <2>1, Zenon DEF HasParts
<1>4. /\ n \in Nat /\ Len(c) \in Nat /\ Len(h) = 3 * n /\ Len(e) \in Nat
      /\ WellFormed(r) => Len(e) = 2 /\ e[1] = "CR" /\ e[2] = "LF"
      /\ ~WellFormed(r) => Len(e) = 1 /\ e[1] \in {"CR", "LF"}
  BY <1>1, <1>2, RequestIs, LenOf DEF IsHeaderLines
<1>5. HeadLen(r) = 1 + Len(e) + Len(h) + 2
  <2>1. HeadLen(r) = Len(T) - Len(c)
    BY DEF HeadLen
  <2> HIDE DEF T, c, h, e, n
  <2> QED  BY <1>3, <1>4, <2>1
<1>6. /\ \A k \in 0..n - 1 :
           h[3 * k + 1] = r.headers[k + 1] /\ h[3 * k + 2] = "CR" /\ h[3 * k + 3] = "LF"
  BY <1>1 DEF IsHeaderLines
<1>7. \A i \in 1..n : r.headers[i] # "LF"
  BY RequestIs DEF IsRequest
<1>8. /\ HeadLen(r) \in Nat /\ Len(T) = HeadLen(r) + Len(c) /\ Len(T) \in Nat /\ Len(T) >= 4
  <2> HIDE DEF T, c, h, e, n
  <2> QED  BY <1>3, <1>4, <1>5
<1> HIDE DEF T, c, h, e, n
<1>9. ASSUME ~WellFormed(r) PROVE T[2] \in {"CR", "LF"} /\ T[3] # "LF"
  <2>0. Len(e) = 1 /\ e[1] \in {"CR", "LF"}
    BY <1>4, <1>9, Zenon
  <2>1. T[2] \in {"CR", "LF"}
    BY <1>3, <2>0
  <2>2. CASE n = 0
    BY <1>3, <1>4, <2>1, <2>0, <2>2
  <2>3. CASE n # 0
    <3>1. h[1] = r.headers[1] /\ 1 \in 1..n /\ 1 \in 1..Len(h)
      <4>1. 0 \in 0..n - 1 /\ 1 \in 1..n /\ 1 \in 1..Len(h)
        BY <1>4, <2>3
      <4>2. h[3 * 0 + 1] = r.headers[0 + 1]
        BY <1>6, <4>1
      <4> QED  BY <4>1, <4>2
    <3>2. T[1 + Len(e) + 1] = h[1]
      BY <1>3, <3>1
    <3> QED  BY <1>7, <2>1, <2>0, <3>1, <3>2
  <2> QED  BY <2>1, <2>2, <2>3
<1>10. ASSUME WellFormed(r)
       PROVE  /\ T[2] = "CR" /\ T[3] = "LF" /\ HeadLen(r) = 5 + 3 * n
              /\ T[3 + 3 * n + 1] = "CR" /\ T[3 + 3 * n + 2] = "LF"
  <2>1. Len(e) = 2 /\ e[1] = "CR" /\ e[2] = "LF"
    BY <1>4, <1>10, Zenon
  <2>2. n \in Nat /\ Len(h) = 3 * n
    BY <1>4
  <2> QED  BY <1>3, <1>5, <2>1, <2>2
<1>11. ASSUME WellFormed(r), NEW k \in 0..n - 1
       PROVE  /\ T[3 + 3 * k + 1] = r.headers[k + 1]
              /\ T[3 + 3 * k + 2] = "CR" /\ T[3 + 3 * k + 3] = "LF"
  <2>1. /\ 3 * k + 1 \in 1..Len(h) /\ 3 * k + 2 \in 1..Len(h) /\ 3 * k + 3 \in 1..Len(h)
        /\ k \in Nat
    BY <1>4, <1>11
  <2>2. \A i \in 1..Len(h) : T[3 + i] = h[i]
    <3>1. Len(e) = 2
      BY <1>4, <1>11, Zenon
    <3> QED  BY <1>3, <3>1
  <2>3. /\ T[3 + (3 * k + 1)] = h[3 * k + 1] /\ T[3 + (3 * k + 2)] = h[3 * k + 2]
        /\ T[3 + (3 * k + 3)] = h[3 * k + 3]
    BY <2>1, <2>2
  <2>4. /\ 3 + (3 * k + 1) = 3 + 3 * k + 1 /\ 3 + (3 * k + 2) = 3 + 3 * k + 2
        /\ 3 + (3 * k + 3) = 3 + 3 * k + 3
    BY <2>1
  <2> QED  BY <1>6, <1>11, <2>3, <2>4
<1> QED  BY <1>3, <1>8, <1>9, <1>10, <1>11 DEF IsText, T, c, n

-----------------------------------------------------------------------------
\* The place where the scan of parse_line stops is the first end it meets.
LEMMA EndIs ==
  ASSUME chk \in Nat, IsSeq(buf), NEW p \in Ends, \A q \in Ends : p <= q
  PROVE  End = p
<1>1. Ends \subseteq Nat
  BY LenOf DEF Ends
<1>2. End \in Ends /\ \A q \in Ends : End <= q
  BY Zenon DEF End
<1> QED  BY <1>1, <1>2

\* Where there is an end, the scan stops at one.
LEMMA EndExists ==
  ASSUME chk \in Nat, IsSeq(buf), Ends # {}
  PROVE  /\ End \in chk+1..Len(buf) /\ buf[End] \in {"CR", "LF"}
         /\ End \in Nat /\ Len(buf) \in Nat
<1>1. Ends \subseteq Nat /\ Len(buf) \in Nat
  BY LenOf DEF Ends
<1>2. PICK p \in Ends : \A q \in Ends : p <= q
  BY <1>1, LeastNumber
<1>3. End = p
  BY <1>2, EndIs
<1> QED  BY <1>1, <1>2, <1>3 DEF Ends

\* Whatever is in the buffer, parse_line does not go back.
ScanGoesOn ==
  /\ LineFound.status \in {"ok", "open", "bad"}
  /\ LineFound.chk \in Nat /\ LineFound.chk >= chk /\ LineFound.chk <= Len(buf)
LEMMA LineLater ==
  ASSUME chk \in Nat, IsSeq(buf), chk <= Len(buf)
  PROVE  ScanGoesOn
<1>1. Len(buf) \in Nat
  BY LenOf
<1>2. CASE Ends = {}
  <2>1. LineFound = Found("open", Len(buf))
    BY <1>2 DEF LineFound
  <2> QED  BY <1>1, <2>1 DEF Found, ScanGoesOn
<1>3. CASE Ends # {}
  <2> DEFINE e == End
  <2>1. e \in Nat /\ chk + 1 <= e /\ e <= Len(buf)
    BY <1>1, <1>3, EndExists
  <2>2. LineFound = IF buf[e] = "CR" THEN FoundCR ELSE FoundLF
    BY <1>3 DEF LineFound
  <2>3. FoundCR = IF e < Len(buf) /\ buf[e + 1] = "LF" THEN Found("ok", e + 1)
                  ELSE Found(IF e = Len(buf) THEN "open" ELSE "bad", e - 1)
    BY DEF FoundCR, FollowedByLF
  <2>4. FoundLF = IF e > 2 /\ buf[e - 1] = "CR" THEN Found("ok", e) ELSE Found("bad", e - 1)
    BY DEF FoundLF
  <2> HIDE DEF e
  <2>5. \/ LineFound = Found("ok", e + 1) /\ e < Len(buf)
        \/ LineFound = Found("open", e - 1) \/ LineFound = Found("bad", e - 1)
        \/ LineFound = Found("ok", e)
    BY <2>2, <2>3, <2>4
  <2> QED  BY <1>1, <2>1, <2>5 DEF Found, ScanGoesOn
<1> QED  BY <1>2, <1>3

\* A line of w words from here on, cut anywhere, is found when all of it and
\* its CR LF are there.
LineOfWords(w) ==
  \/ LineFound = Found("open", Len(buf)) /\ Len(buf) <= w
  \/ LineFound = Found("open", w) /\ Len(buf) = w + 1
  \/ LineFound = Found("ok", w + 2) /\ Len(buf) >= w + 2
LEMMA LineAt ==
  ASSUME chk \in Nat, IsSeq(buf), NEW w \in Nat, chk <= w, chk <= Len(buf),
         \A i \in chk+1..w : i <= Len(buf) => buf[i] \notin {"CR", "LF"},
         Len(buf) > w => buf[w + 1] = "CR",
         Len(buf) > w + 1 => buf[w + 2] = "LF"
  PROVE  LineOfWords(w)
<1>1. Len(buf) \in Nat
  BY LenOf
<1>2. CASE Len(buf) <= w
  <2>1. Ends = {}
    BY <1>1, <1>2 DEF Ends
  <2> QED  BY <1>2, <2>1 DEF LineFound, LineOfWords
<1>3. CASE Len(buf) > w
  <2>1. w + 1 \in Ends /\ \A q \in Ends : w + 1 <= q
    BY <1>1, <1>3 DEF Ends
  <2>2. End = w + 1 /\ Ends # {}
    BY <2>1, EndIs
  <2>3. LineFound = FoundCR
    BY <1>3, <2>2 DEF LineFound
  <2>4. FoundCR = IF w + 1 < Len(buf) /\ buf[w + 1 + 1] = "LF" THEN Found("ok", w + 1 + 1)
                  ELSE Found(IF w + 1 = Len(buf) THEN "open" ELSE "bad", w + 1 - 1)
    BY <2>2 DEF FoundCR, FollowedByLF
  <2>5. w + 1 + 1 = w + 2 /\ w + 1 - 1 = w
    OBVIOUS
  <2>6. CASE Len(buf) = w + 1
    BY <1>1, <1>3, <2>3, <2>4, <2>5, <2>6 DEF LineOfWords
  <2>7. CASE Len(buf) > w + 1
    BY <1>1, <1>3, <2>3, <2>4, <2>5, <2>7 DEF LineOfWords
  <2> QED  BY <1>1, <1>3, <2>6, <2>7
<1> QED  BY <1>1, <1>2, <1>3

\* The line of a malformed request is never found, and after its first word
\* the scan does not go on.
LineIsBad ==
  /\ LineFound.chk = 1
  /\ \/ LineFound.status = "open" /\ Len(buf) < 3
     \/ LineFound.status = "bad" /\ Len(buf) >= 2
LEMMA BadLine ==
  ASSUME chk \in {0, 1}, IsSeq(buf), Len(buf) >= 1, buf[1] \notin {"CR", "LF"},
         Len(buf) >= 2 => buf[2] \in {"CR", "LF"},
         Len(buf) >= 3 => buf[3] # "LF"
  PROVE  LineIsBad
<1>1. Len(buf) \in Nat
  BY LenOf
<1>2. CASE Len(buf) = 1
  <2>1. Ends = {}
    BY <1>1, <1>2 DEF Ends
  <2> QED  BY <1>2, <2>1 DEF LineFound, LineIsBad, Found
<1>3. CASE Len(buf) >= 2
  <2>1. 2 \in Ends /\ \A q \in Ends : 2 <= q
    BY <1>1, <1>3 DEF Ends
  <2>2. End = 2 /\ Ends # {}
    BY <2>1, EndIs
  <2>3. LineFound = IF buf[2] = "CR" THEN FoundCR ELSE FoundLF
    BY <2>2 DEF LineFound
  <2>4. FoundLF = Found("bad", 1)
    BY <2>2 DEF FoundLF
  <2>5. FoundCR = IF 2 < Len(buf) /\ buf[3] = "LF" THEN Found("ok", 3)
                  ELSE Found(IF 2 = Len(buf) THEN "open" ELSE "bad", 1)
    BY <2>2 DEF FoundCR, FollowedByLF
  <2>6. \/ LineFound = Found("bad", 1)
        \/ LineFound = Found("open", 1) /\ Len(buf) = 2
    BY <1>1, <1>3, <2>3, <2>4, <2>5
  <2>7. /\ Found("bad", 1).chk = 1 /\ Found("bad", 1).status = "bad"
        /\ Found("open", 1).chk = 1 /\ Found("open", 1).status = "open"
    BY DEF Found
  <2>8. Len(buf) = 2 => Len(buf) < 3
    OBVIOUS
  <2> QED  BY <1>3, <2>6, <2>7, <2>8, Zenon DEF LineIsBad
<1>4. Len(buf) = 1 \/ Len(buf) >= 2
  BY <1>1
<1> QED  BY <1>2, <1>3, <1>4, Zenon

-----------------------------------------------------------------------------
\* What the variables are.
HttpTypes ==
  /\ server \in {"http_conn", "one_buffer"} /\ asked \in Sessions
  /\ hpc \in {"read", "parse", "write", "closed"}
  /\ linger \in BOOLEAN /\ early \in BOOLEAN /\ bodyCut \in BOOLEAN
  /\ asking \in Nat
  /\ IsSeq(rest) /\ IsSeq(wire) /\ IsSeq(buf) /\ IsSeq(answers)

\* An answer that goes on after a call of writev has been short: what a call
\* takes is less than the head, and the head is not longer than the answer.
AnswerShape ==
  /\ have \in Nat /\ got \in Nat
  /\ hpc # "write" => have = 0 /\ got = 0
  /\ hpc = "write" =>
       /\ server = "http_conn"
       /\ \E c : answer = [code |-> c, head |-> answer.head, total |-> answer.total,
                           short |-> answer.short]
       /\ answer.head \in Nat /\ answer.total \in Nat /\ answer.head <= answer.total
       /\ answer.short \in BOOLEAN
       /\ got # 0 => answer.short

ClosedReason ==
  hpc = "closed" /\ Len(answers) < Len(asked) =>
     \/ early
     \/ IF answers = <<>> THEN FALSE ELSE ~Last(answers).keep
     \/ Len(buf) + Len(wire) >= BufSize
     \/ server = "http_conn" /\ Unanswered.line = "empty"

\* The client has had an answer for all it asked.
Calm ==
  /\ asking = Len(answers) /\ rest = <<>> /\ wire = <<>> /\ buf = <<>>
  /\ hpc = "read" /\ chk_state = "line" /\ chk = 0 /\ start = 0
  /\ content_length = 0 /\ ~linger

\* s is what the text T has after its first p words.
IsPart(s, T, p) == IsSeq(s) /\ \A i \in 1..Len(s) : s[i] = T[p + i]

\* Buffer, socket and client hold one part of the request each.
InFlight(r) ==
  /\ IsPart(buf, Tokens(r), 0) /\ IsPart(wire, Tokens(r), Len(buf))
  /\ IsPart(rest, Tokens(r), Len(buf) + Len(wire))
  /\ Len(buf) + Len(wire) + Len(rest) = Len(Tokens(r))
  /\ CutsContent(r, Len(buf)) => bodyCut

\* What the first k headers have told the parser.
SeenOf(r, k, h) == \E i \in 1..k : r.headers[i] = h
Seen(r, k) ==
  /\ linger <=> server = "http_conn" /\ SeenOf(r, k, "keep")
  /\ content_length = IF server = "http_conn" /\ SeenOf(r, k, "len2") THEN 2 ELSE 0

\* The parser is in the first line, behind k headers, or in the content.
AtLine == chk_state = "line" /\ start = 0 /\ chk \in {0, 1} /\ ~linger /\ content_length = 0
AtHeader(r, k) ==
  /\ chk_state = "header" /\ start = 3 + 3 * k
  /\ chk = start \/ (chk = start + 1 /\ k < Len(r.headers))
  /\ Seen(r, k)
AtContent(r) ==
  /\ chk_state = "content" /\ Seen(r, Len(r.headers)) /\ content_length = 2
  /\ chk \in Nat /\ HeadLen(r) <= chk
  /\ chk > HeadLen(r) => bodyCut
ParserAt(r) ==
  /\ chk <= Len(buf)
  /\ \/ AtLine
     \/ /\ WellFormed(r) /\ r.line \in Targets
        /\ (\E k \in 0..Len(r.headers) : AtHeader(r, k)) \/ AtContent(r)

\* Why the server reads again, when it looks for a line, what it answers.
NotAll(r) == bodyCut \/ Len(buf) < Len(Tokens(r))
Reading(r) == NotAll(r) \/ (server = "http_conn" /\ ~WellFormed(r))
Parsing(r) ==
  /\ Len(buf) >= 1 /\ line_status \in {"ok", "open"}
  /\ line_status = "open" => chk_state = "content" /\ NotAll(r)
Answering(r) ==
  /\ answer.code = Expected(r)
  /\ linger <=> Keeps(r) /\ r.line # "bad"
  /\ linger => wire = <<>> /\ rest = <<>>

\* The client waits for the answer to r.
Serving(r) ==
  /\ asking = Len(answers) + 1 /\ InFlight(r)
  /\ hpc \in {"read", "parse"} => ParserAt(r)
  /\ hpc = "read" => Reading(r)
  /\ hpc = "parse" => Parsing(r)
  /\ hpc = "write" => Answering(r)

InProgress ==
  ~early /\ hpc # "closed" =>
     \/ Calm
     \/ Len(answers) < Len(asked) /\ Serving(Unanswered)

(***************************************************************************)
(* What holds of every state: as long as the client asks one thing at a    *)
(* time, buffer, socket and client hold its request between them, and the  *)
(* parser's members are what the words it has passed make them.            *)
(***************************************************************************)
HttpConnInv ==
  HttpTypes /\ AnswerShape /\ AnswersAreRight /\ ClosedReason /\ InProgress

\* Nothing has been asked.
LEMMA HttpInitial == HttpConnInit => HttpConnInv
<1> SUFFICES ASSUME HttpConnInit PROVE HttpConnInv
  OBVIOUS
<1>1. HttpTypes
  BY ShortOnes DEF HttpConnInit, HttpTypes
<1>2. AnswerShape
  BY DEF HttpConnInit, AnswerShape
<1>3. Len(answers) = 0 /\ DOMAIN answers = {}
  BY DEF HttpConnInit
<1>4. AnswersAreRight
  BY <1>3 DEF AnswersAreRight
<1>5. ClosedReason
  BY DEF HttpConnInit, ClosedReason
<1>6. Calm
  BY <1>3 DEF HttpConnInit, Calm
<1> QED  BY <1>1, <1>2, <1>4, <1>5, <1>6 DEF HttpConnInv, InProgress

\* A request of the session that runs.
LEMMA AskedIs ==
  ASSUME HttpTypes, NEW i \in Nat, i < Len(asked)
  PROVE  IsRequest(asked[i + 1])
<1>1. IsSeq(asked) /\ \A j \in DOMAIN asked : IsRequest(asked[j])
  BY HttpConnAssumption DEF HttpTypes, IsSeq
<1>2. i + 1 \in DOMAIN asked
  BY <1>1, LenOf
<1> QED  BY <1>1, <1>2

\* A session has so many requests.
LEMMA AskedCount == ASSUME HttpTypes PROVE IsSeq(asked) /\ Len(asked) \in Nat
<1>1. IsSeq(asked)
  BY HttpConnAssumption DEF HttpTypes, IsSeq
<1> QED  BY <1>1, LenOf

\* The first n words of what follows s move to its end.
IsMoved(s, t, n, T, p, u, v) ==
  /\ IsPart(u, T, p) /\ IsPart(v, T, p + Len(u))
  /\ Len(u) = Len(s) + n /\ Len(v) = Len(t) - n
  /\ Len(s) \in Nat /\ Len(t) \in Nat
LEMMA MoveOf ==
  ASSUME NEW T, NEW p \in Nat, NEW s, NEW t, IsPart(s, T, p), IsPart(t, T, p + Len(s)),
         NEW n \in Nat, n <= Len(t)
  PROVE  IsMoved(s, t, n, T, p, s \o SubSeq(t, 1, n), SubSeq(t, n + 1, Len(t)))
<1> DEFINE c == SubSeq(t, 1, n)
           u == s \o c
           v == SubSeq(t, n + 1, Len(t))
<1>1. IsSeq(s) /\ IsSeq(t)
  BY DEF IsPart
<1>2. Len(s) \in Nat /\ Len(t) \in Nat
  BY <1>1, LenOf
<1>3. IsCut(t, 1, n, c)
  BY <1>1, <1>2, CutOf
<1>4. IsCut(t, n + 1, Len(t), v)
  BY <1>1, <1>2, CutOf
<1> HIDE DEF c, v
<1>5. IsSeq(c)
  BY <1>3 DEF IsCut
<1>6. IsJoin(s, c, u)
  BY <1>1, <1>5, JoinOf DEF u
<1> HIDE DEF u
<1>7. Len(c) = n /\ Len(u) = Len(s) + n /\ Len(v) = Len(t) - n /\ IsSeq(u) /\ IsSeq(v)
  BY <1>2, <1>3, <1>4, <1>6 DEF IsCut, IsJoin
<1>8. ASSUME NEW i \in 1..Len(u) PROVE u[i] = T[p + i]
  <2>1. CASE i <= Len(s)
    BY <1>2, <1>6, <1>7, <1>8, <2>1 DEF IsJoin, IsPart
  <2>2. CASE i > Len(s)
    <3> DEFINE j == i - Len(s)
    <3>1. j \in 1..n /\ i = Len(s) + j
      BY <1>2, <1>7, <1>8, <2>2
    <3> HIDE DEF j
    <3>2. u[i] = c[j]
      BY <1>6, <1>7, <3>1 DEF IsJoin
    <3>3. c[j] = t[j]
      BY <1>3, <1>7, <3>1 DEF IsCut
    <3>4. t[j] = T[p + Len(s) + j]
      <4>1. j \in 1..Len(t)
        BY <1>2, <3>1
      <4> QED  BY <4>1, Zenon DEF IsPart
    <3>5. p + Len(s) + j = p + i
      BY <1>2, <3>1
    <3> QED  BY <3>2, <3>3, <3>4, <3>5, Zenon
  <2>3. i <= Len(s) \/ i > Len(s)
    BY <1>2, <1>7, <1>8
  <2> QED  BY <2>1, <2>2, <2>3, Zenon
<1>9. ASSUME NEW i \in 1..Len(v) PROVE v[i] = T[p + Len(u) + i]
  <2>1. v[i] = t[n + i] /\ n + i \in 1..Len(t)
    <3>1. v[i] = t[n + 1 + i - 1]
      BY <1>4, <1>9 DEF IsCut
    <3>2. n + 1 + i - 1 = n + i /\ n + i \in 1..Len(t)
      BY <1>2, <1>7, <1>9
    <3> QED  BY <3>1, <3>2
  <2>2. t[n + i] = T[p + Len(s) + (n + i)]
    BY <2>1 DEF IsPart
  <2>3. p + Len(s) + (n + i) = p + Len(u) + i
    BY <1>2, <1>7, <1>9
  <2> QED  BY <2>1, <2>2, <2>3
<1> QED  BY <1>2, <1>7, <1>8, <1>9 DEF IsMoved, IsPart, c, u, v

-----------------------------------------------------------------------------
\* Answers stay right while none is added.
LEMMA SameAnswers ==
  ASSUME AnswersAreRight, UNCHANGED <<server, asked, answers>>, early => early'
  PROVE  AnswersAreRight'
<1>1. \A r : (Expected(r)' = Expected(r)) /\ (Keeps(r)' <=> Keeps(r))
  BY DEF Expected, Keeps
<1> QED  BY <1>1, Zenon DEF AnswersAreRight

\* What the parser has is what it had.
LEMMA SameParser ==
  ASSUME UNCHANGED <<server, buf, chk, start, chk_state, content_length, linger, bodyCut>>,
         NEW r, ParserAt(r)
  PROVE  ParserAt(r)'
<1>1. AtLine' <=> AtLine
  BY DEF AtLine
<1>2. \A k : AtHeader(r, k)' <=> AtHeader(r, k)
  BY DEF AtHeader, Seen
<1>3. AtContent(r)' <=> AtContent(r)
  BY DEF AtContent, Seen
<1> QED  BY <1>1, <1>2, <1>3 DEF ParserAt

\* The first words of a text stay where they are.
LEMMA TextBegins ==
  ASSUME NEW r, IsRequest(r), InFlight(r)
  PROVE  /\ Len(buf) \in Nat /\ Len(wire) \in Nat /\ Len(rest) \in Nat
         /\ IsSeq(buf) /\ \A i \in 1..Len(buf) : buf[i] = Tokens(r)[i]
         /\ Len(Tokens(r)) \in Nat /\ Len(Tokens(r)) >= 4
<1>1. /\ IsSeq(buf) /\ IsSeq(wire) /\ IsSeq(rest)
      /\ \A i \in 1..Len(buf) : buf[i] = Tokens(r)[0 + i]
  BY DEF InFlight, IsPart
<1>2. Len(buf) \in Nat /\ Len(wire) \in Nat /\ Len(rest) \in Nat
  BY <1>1, LenOf
<1>3. \A i \in 1..Len(buf) : 0 + i = i
  BY <1>2
<1>4. Len(Tokens(r)) \in Nat /\ Len(Tokens(r)) >= 4
  BY TextIs DEF IsText
<1> QED  BY <1>1, <1>2, <1>3, <1>4

\* What the client sends joins what is in the socket.
LEMMA SendsKeeps == ASSUME HttpConnInv, ClientSends PROVE HttpConnInv'
<1> DEFINE anew == rest = <<>>
           text == IF anew THEN Tokens(asked[asking + 1]) ELSE rest
<1>1. /\ anew => asking < Len(asked)
      /\ asking' = IF anew THEN asking + 1 ELSE asking
      /\ early' = (early \/ (anew /\ Len(answers) < asking))
      /\ UNCHANGED <<server, asked, buf, chk, start, chk_state, content_length, linger,
                     line_status, hpc, answer, have, got, answers, bodyCut>>
  BY Zenon DEF ClientSends, parserVars, writeVars
<1>2. PICK n \in 1..Len(text) : /\ wire' = wire \o SubSeq(text, 1, n)
                                /\ rest' = SubSeq(text, n + 1, Len(text))
  BY Zenon DEF ClientSends
<1>3. HttpTypes
  BY DEF HttpConnInv
<1>4. anew => IsRequest(asked[asking + 1])
  BY <1>1, <1>3, AskedIs DEF HttpTypes
<1>5. IsSeq(text)
  BY <1>3, <1>4, TextIs DEF IsText, HttpTypes
<1>6. /\ IsSeq(wire') /\ IsSeq(rest') /\ Len(wire) \in Nat /\ Len(wire') = Len(wire) + n
      /\ n \in Nat
  <2> HIDE DEF text
  <2>1. Len(text) \in Nat /\ Len(wire) \in Nat /\ IsSeq(wire)
    BY <1>3, <1>5, LenOf DEF HttpTypes
  <2>2. IsCut(text, 1, n, SubSeq(text, 1, n))
    BY <1>5, <2>1, CutOf
  <2>3. IsCut(text, n + 1, Len(text), rest')
    BY <1>2, <1>5, <2>1, CutOf
  <2> DEFINE c == SubSeq(text, 1, n)
  <2> HIDE DEF c
  <2>4. IsSeq(c) /\ Len(c) = n
    BY <2>1, <2>2 DEF c, IsCut
  <2>5. IsJoin(wire, c, wire')
    BY <1>2, <2>1, <2>4, JoinOf DEF c
  <2> QED  BY <2>1, <2>3, <2>4, <2>5 DEF IsJoin, IsCut
<1>7. HttpTypes'
  BY <1>1, <1>3, <1>6 DEF HttpTypes
<1>8. AnswerShape'
  BY <1>1 DEF HttpConnInv, AnswerShape
<1>9. AnswersAreRight'
  BY <1>1, SameAnswers DEF HttpConnInv
<1>10. ClosedReason'
  <2>1. Len(buf) \in Nat /\ BufSize \in Nat
    BY <1>3, LenOf, HttpConnAssumption DEF HttpTypes
  <2>2. Len(buf) + Len(wire) >= BufSize => Len(buf') + Len(wire') >= BufSize
    BY <1>1, <1>6, <2>1
  <2>3. ClosedReason
    BY DEF HttpConnInv
  <2> QED  BY <1>1, <2>2, <2>3 DEF ClosedReason, Unanswered
<1>11. ASSUME ~early', hpc' # "closed"
       PROVE  Len(answers') < Len(asked') /\ Serving(Unanswered)'
  <2>0. PICK r : r = Unanswered
    OBVIOUS
  <2> DEFINE T == Tokens(r)
  <2>1. ~early /\ hpc # "closed"
    BY <1>1, <1>11
  <2>2. Len(answers) \in Nat
    BY <1>3, LenOf DEF HttpTypes
  <2>3. CASE Calm
    <3>1. anew /\ asking = Len(answers) /\ asking < Len(asked) /\ asking' = Len(answers) + 1
      BY <1>1, <2>3 DEF Calm
    <3>2. text = T /\ IsRequest(r)
      BY <1>4, <2>0, <3>1 DEF Unanswered
    <3>3. IsPart(<<>>, T, 0) /\ IsPart(T, T, 0) /\ Len(<<>>) = 0 /\ Len(T) \in Nat /\ Len(T) >= 4
      <4>1. IsText(r, T)
        BY <3>2, TextIs
      <4>2. \A i \in 1..Len(T) : 0 + i = i
        BY <4>1 DEF IsText
      <4> QED  BY <4>1, <4>2, ShortOnes DEF IsText, IsPart
    <3> HIDE DEF T, text
    <3>4. IsMoved(<<>>, T, n, T, 0, wire', rest')
      <4>1. n \in Nat /\ n <= Len(T)
        BY <1>6, <3>2, <3>3
      <4>2. IsMoved(<<>>, T, n, T, 0, <<>> \o SubSeq(T, 1, n), SubSeq(T, n + 1, Len(T)))
        <5>1. IsPart(T, T, 0 + Len(<<>>))
          BY <3>3
        <5> QED  BY <3>3, <4>1, <5>1, MoveOf
      <4> QED  BY <1>2, <2>3, <3>2, <4>2 DEF Calm
    <3>5. IsPart(wire', T, 0) /\ IsPart(rest', T, Len(wire')) /\ Len(wire') = n /\ Len(rest') = Len(T) - n
      <4>1. 0 + Len(wire') = Len(wire')
        BY <1>6
      <4> QED  BY <1>6, <3>3, <3>4, <4>1 DEF IsMoved
    <3>6. buf' = <<>> /\ Len(buf') = 0 /\ hpc' = "read"
      BY <1>1, <2>3 DEF Calm
    <3>7. InFlight(r)'
      <4>1. 0 + Len(wire') = Len(wire')
        BY <1>6
      <4>2. IsPart(rest', T, 0 + Len(wire'))
        BY <3>5, <4>1
      <4>3. ~CutsContent(r, 0)
        <5>1. HeadLen(r) \in Nat
          BY <3>2, TextIs DEF IsText
        <5> QED  BY <5>1 DEF CutsContent
      <4>4. 0 + Len(wire') + Len(rest') = Len(T)
        BY <1>6, <3>3, <3>5
      <4>5. \A q : CutsContent(q, Len(buf'))  <=> CutsContent(q, 0)
        BY <3>6
      <4> QED  BY <3>3, <3>5, <3>6, <4>2, <4>3, <4>4 DEF InFlight, T
    <3>8. ParserAt(r)' /\ Reading(r)'
      BY <1>1, <2>3, <3>3, <3>6 DEF Calm, ParserAt, AtLine, Reading, NotAll, T
    <3>9. r = Unanswered'
      BY <1>1, <2>0 DEF Unanswered
    <3>10. Serving(r)'
      BY <1>1, <3>1, <3>6, <3>7, <3>8 DEF Serving
    <3> QED  BY <1>1, <3>1, <3>9, <3>10
  <2>4. CASE ~Calm
    <3>1. Len(answers) < Len(asked) /\ Serving(r)
      BY <2>0, <2>1, <2>4 DEF HttpConnInv, InProgress
    <3>2. ~anew /\ asking' = asking /\ text = rest /\ asking = Len(answers) + 1
      <4>1. asking = Len(answers) + 1
        BY <3>1 DEF Serving
      <4>2. Len(answers) < asking
        BY <2>2, <4>1
      <4>3. ~anew
        BY <1>1, <1>11, <4>2
      <4> QED  BY <1>1, <4>1, <4>3
    <3>3. IsRequest(r)
      BY <1>3, <2>0, <2>2, <3>1, AskedIs DEF Unanswered
    <3>4. InFlight(r)
      BY <3>1 DEF Serving
    <3>5. Len(buf) \in Nat /\ Len(wire) \in Nat /\ Len(rest) \in Nat
      BY <3>3, <3>4, TextBegins
    <3>6. IsMoved(wire, rest, n, T, Len(buf), wire', rest')
      <4>1. n \in Nat /\ n <= Len(rest)
        BY <1>6, <3>2, <3>5
      <4>2. IsPart(wire, T, Len(buf)) /\ IsPart(rest, T, Len(buf) + Len(wire))
        BY <3>4 DEF InFlight
      <4> QED  BY <1>2, <3>2, <3>5, <4>1, <4>2, MoveOf
    <3> HIDE DEF T, text, anew
    <3>7. InFlight(r)'
      <4>1. Len(buf) + Len(wire') + Len(rest') = Len(T)
        BY <1>6, <3>4, <3>5, <3>6 DEF IsMoved, InFlight, T
      <4> QED  BY <1>1, <3>4, <3>6, <4>1 DEF InFlight, IsMoved, T
    <3>8. ParserAt(r) => ParserAt(r)'
      BY <1>1, SameParser
    <3>9. (Reading(r) => Reading(r)') /\ (Parsing(r) => Parsing(r)')
      BY <1>1 DEF Reading, Parsing, NotAll
    <3>10. Answering(r) => Answering(r)'
      <4>1. rest # <<>>
        BY <3>2 DEF anew
      <4>2. \A q : (Expected(q)' = Expected(q)) /\ (Keeps(q)' <=> Keeps(q))
        BY <1>1 DEF Expected, Keeps
      <4> QED  BY <1>1, <4>1, <4>2 DEF Answering
    <3>11. r = Unanswered'
      BY <1>1, <2>0 DEF Unanswered
    <3>12. Serving(r)'
      BY <1>1, <3>1, <3>2, <3>7, <3>8, <3>9, <3>10 DEF Serving
    <3> QED  BY <1>1, <3>1, <3>11, <3>12
  <2> QED  BY <2>3, <2>4
<1> QED  BY <1>7, <1>8, <1>9, <1>10, <1>11 DEF HttpConnInv, InProgress

\* read() finds its buffer full.
LEMMA ReadFullKeeps == ASSUME HttpConnInv, ReadFull PROVE HttpConnInv'
<1>1. /\ UNCHANGED <<server, asked, asking, rest, wire, buf, chk, start, chk_state,
                     content_length, linger, line_status, answer, have, got, answers,
                     early, bodyCut>>
      /\ hpc = "read" /\ hpc' = "closed"
  BY DEF ReadFull, CloseNow, askingVars, parserVars, writeVars
<1>2. HttpTypes
  BY DEF HttpConnInv
<1>3. Len(buf) + Len(wire) >= BufSize
  <2>1. Len(buf) \in Nat /\ Len(wire) \in Nat /\ BufSize \in Nat
    BY <1>2, LenOf, HttpConnAssumption DEF HttpTypes
  <2> QED  BY <2>1 DEF ReadFull
<1>4. HttpTypes' /\ AnswerShape'
  BY <1>1 DEF HttpConnInv, HttpTypes, AnswerShape
<1>5. AnswersAreRight'
  BY <1>1, SameAnswers DEF HttpConnInv
<1>6. ClosedReason'
  BY <1>1, <1>3 DEF ClosedReason
<1> QED  BY <1>1, <1>4, <1>5, <1>6 DEF HttpConnInv, InProgress

\* What is read joins what is in the buffer.
LEMMA RecvKeeps == ASSUME HttpConnInv, Read PROVE HttpConnInv'
<1> DEFINE room == BufSize - Len(buf)
           k == IF Len(wire) < room THEN Len(wire) ELSE room
<1>1. /\ hpc = "read" /\ k > 0
      /\ buf' = buf \o SubSeq(wire, 1, k) /\ wire' = SubSeq(wire, k + 1, Len(wire))
      /\ hpc' = "parse" /\ line_status' = "ok"
      /\ bodyCut' = (bodyCut \/ (/\ Len(answers) < Len(asked)
                                 /\ CutsContent(asked[Len(answers) + 1], Len(buf'))))
      /\ UNCHANGED <<server, asked, asking, rest, chk, start, chk_state, content_length,
                     linger, answer, have, got, answers, early>>
  BY DEF Read, askingVars, writeVars
<1>2. HttpTypes
  BY DEF HttpConnInv
<1>3. /\ Len(buf) \in Nat /\ Len(wire) \in Nat /\ Len(answers) \in Nat
      /\ k \in Nat /\ k <= Len(wire) /\ k >= 1
  <2>1. /\ Len(buf) \in Nat /\ Len(wire) \in Nat /\ Len(answers) \in Nat
    BY <1>2, LenOf DEF HttpTypes
  <2> QED  BY <1>1, <2>1, HttpConnAssumption
<1> HIDE DEF room, k
<1>4. IsSeq(buf') /\ IsSeq(wire') /\ bodyCut' \in BOOLEAN
  <2> DEFINE c == SubSeq(wire, 1, k)
  <2>1. IsCut(wire, 1, k, c) /\ IsCut(wire, k + 1, Len(wire), wire')
    BY <1>1, <1>2, <1>3, CutOf DEF HttpTypes
  <2> HIDE DEF c
  <2>2. IsSeq(c)
    BY <2>1 DEF IsCut
  <2>3. IsJoin(buf, c, buf')
    BY <1>1, <1>2, <2>2, JoinOf DEF HttpTypes, c
  <2>4. bodyCut' \in BOOLEAN
    BY <1>1, <1>2 DEF HttpTypes
  <2> QED  BY <2>1, <2>3, <2>4 DEF IsCut, IsJoin
<1>5. HttpTypes'
  BY <1>1, <1>2, <1>4 DEF HttpTypes
<1>6. AnswerShape' /\ ClosedReason'
  BY <1>1 DEF HttpConnInv, AnswerShape, ClosedReason
<1>7. AnswersAreRight'
  BY <1>1, SameAnswers DEF HttpConnInv
<1>8. ASSUME ~early', hpc' # "closed"
      PROVE  Len(answers') < Len(asked') /\ Serving(Unanswered)'
  <2>0. PICK r : r = Unanswered
    OBVIOUS
  <2> DEFINE T == Tokens(r)
  <2>1. Len(answers) < Len(asked) /\ Serving(r)
    <3>1. ~Calm
      <4>1. Len(<<>>) = 0
        OBVIOUS
      <4> QED  BY <1>3, <4>1 DEF Calm
    <3> QED  BY <1>1, <1>8, <2>0, <3>1 DEF HttpConnInv, InProgress
  <2>2. IsRequest(r)
    BY <1>2, <1>3, <2>0, <2>1, AskedIs DEF Unanswered
  <2>3. InFlight(r)
    BY <2>1 DEF Serving
  <2>4. Len(rest) \in Nat /\ Len(T) \in Nat
    BY <2>2, <2>3, TextBegins
  <2>5. IsMoved(buf, wire, k, T, 0, buf', wire')
    <3>1. IsPart(buf, T, 0) /\ IsPart(wire, T, 0 + Len(buf))
      <4>1. 0 + Len(buf) = Len(buf)
        BY <1>3
      <4> QED  BY <2>3, <4>1 DEF InFlight
    <3> QED  BY <1>1, <1>3, <3>1, MoveOf
  <2>6. Len(buf') = Len(buf) + k /\ Len(wire') = Len(wire) - k
    BY <2>5 DEF IsMoved
  <2>7. InFlight(r)'
    <3> HIDE DEF T
    <3>1. Len(buf') + Len(wire') = Len(buf) + Len(wire) /\ 0 + Len(buf') = Len(buf')
      BY <1>3, <2>6
    <3>2. IsPart(buf', T, 0) /\ IsPart(wire', T, Len(buf'))
      BY <2>5, <3>1 DEF IsMoved
    <3>3. CutsContent(r, Len(buf')) => bodyCut'
      BY <1>1, <2>0, <2>1 DEF Unanswered
    <3>4. IsPart(rest', T, Len(buf') + Len(wire'))
      BY <1>1, <2>3, <3>1 DEF InFlight, T
    <3>5. Len(buf') + Len(wire') + Len(rest') = Len(T)
      BY <1>1, <2>3, <3>1 DEF InFlight, T
    <3> QED  BY <3>2, <3>3, <3>4, <3>5 DEF InFlight, T
  <2>8. ParserAt(r)'
    <3>1. ParserAt(r)
      BY <1>1, <2>1 DEF Serving
    <3>2. /\ AtLine' <=> AtLine
          /\ \A j : AtHeader(r, j)' <=> AtHeader(r, j)
      BY <1>1 DEF AtLine, AtHeader, Seen
    <3>3. AtContent(r) => AtContent(r)'
      BY <1>1 DEF AtContent, Seen
    <3>4. chk <= Len(buf) => chk' <= Len(buf')
      <4>1. ASSUME chk <= Len(buf) PROVE chk' <= Len(buf')
        <5>1. chk \in Int
          <6>1. /\ AtLine => chk \in Int
                /\ AtContent(r) => chk \in Int
            BY DEF AtLine, AtContent
          <6>2. \A j \in 0..Len(r.headers) : AtHeader(r, j) => chk \in Int
            BY DEF AtHeader
          <6> QED  BY <3>1, <6>1, <6>2 DEF ParserAt
        <5> QED  BY <1>1, <1>3, <2>6, <4>1, <5>1
      <4> QED  BY <4>1
    <3> QED  BY <3>1, <3>2, <3>3, <3>4 DEF ParserAt
  <2>9. Parsing(r)'
    BY <1>1, <1>3, <2>6 DEF Parsing
  <2>10. Serving(r)'
    BY <1>1, <2>1, <2>7, <2>8, <2>9 DEF Serving
  <2>11. r = Unanswered'
    BY <1>1, <2>0 DEF Unanswered
  <2> QED  BY <1>1, <2>1, <2>10, <2>11
<1> QED  BY <1>5, <1>6, <1>7, <1>8 DEF HttpConnInv, InProgress

\* writev takes a part of the answer.
LEMMA WriteSomeKeeps == ASSUME HttpConnInv, WriteSome PROVE HttpConnInv'
<1>1. /\ UNCHANGED <<server, asked, asking, rest, wire, buf, chk, start, chk_state,
                     content_length, linger, line_status, hpc, answers, early, bodyCut>>
      /\ hpc = "write" /\ answer.head > have' + have'
  BY DEF WriteSome, askingVars, parserVars
<1>2. PICK n \in 1..answer.total :
        /\ have' = have + n /\ got' = IF got = 0 THEN n ELSE answer.total + 1
        /\ answer' = [answer EXCEPT !.short = @ \/ n < answer.total]
  BY DEF WriteSome
<1>3. /\ have \in Nat /\ got \in Nat /\ server = "http_conn"
      /\ \E c : answer = [code |-> c, head |-> answer.head, total |-> answer.total,
                          short |-> answer.short]
      /\ answer.head \in Nat /\ answer.total \in Nat /\ answer.head <= answer.total
      /\ answer.short \in BOOLEAN
  BY <1>1 DEF HttpConnInv, AnswerShape
<1>4. n \in Nat /\ n < answer.total /\ have' \in Nat /\ got' \in Nat
  BY <1>1, <1>2, <1>3
<1>5. answer' = [code |-> answer.code, head |-> answer.head, total |-> answer.total, short |-> TRUE]
  BY <1>2, <1>3, <1>4
<1>6. AnswerShape'
  BY <1>1, <1>3, <1>4, <1>5 DEF AnswerShape
<1>7. HttpTypes' /\ ClosedReason'
  BY <1>1 DEF HttpConnInv, HttpTypes, ClosedReason
<1>8. AnswersAreRight'
  BY <1>1, SameAnswers DEF HttpConnInv
<1>9. answer'.code = answer.code
  BY <1>5
<1>10. ASSUME ~early' PROVE Len(answers') < Len(asked') /\ Serving(Unanswered)'
  <2>0. PICK r : r = Unanswered
    OBVIOUS
  <2>1. Len(answers) < Len(asked) /\ Serving(r)
    BY <1>1, <1>10, <2>0 DEF HttpConnInv, InProgress, Calm
  <2>2. InFlight(r)' <=> InFlight(r)
    BY <1>1 DEF InFlight
  <2>3. Answering(r) => Answering(r)'
    <3>1. \A q : (Expected(q)' = Expected(q)) /\ (Keeps(q)' <=> Keeps(q))
      BY <1>1 DEF Expected, Keeps
    <3> QED  BY <1>1, <1>9, <3>1 DEF Answering
  <2>4. Serving(r)'
    BY <1>1, <2>1, <2>2, <2>3 DEF Serving
  <2>5. r = Unanswered'
    BY <1>1, <2>0 DEF Unanswered
  <2> QED  BY <1>1, <2>1, <2>4, <2>5
<1> QED  BY <1>6, <1>7, <1>8, <1>10 DEF HttpConnInv, InProgress

\* EAGAIN: the answer begins again at the next EPOLLOUT.
LEMMA WriteFromStartKeeps == ASSUME HttpConnInv, WriteFromStart PROVE HttpConnInv'
<1>1. /\ UNCHANGED <<server, asked, asking, rest, wire, buf, chk, start, chk_state,
                     content_length, linger, line_status, hpc, answer, got, answers,
                     early, bodyCut>>
      /\ hpc = "write" /\ have' = 0
  BY DEF WriteFromStart, askingVars, parserVars
<1>2. HttpTypes' /\ ClosedReason' /\ AnswerShape'
  BY <1>1 DEF HttpConnInv, HttpTypes, ClosedReason, AnswerShape
<1>3. AnswersAreRight'
  BY <1>1, SameAnswers DEF HttpConnInv
<1>4. ASSUME ~early' PROVE Len(answers') < Len(asked') /\ Serving(Unanswered)'
  <2>0. PICK r : r = Unanswered
    OBVIOUS
  <2>1. Len(answers) < Len(asked) /\ Serving(r)
    BY <1>1, <1>4, <2>0 DEF HttpConnInv, InProgress, Calm
  <2>2. InFlight(r)' <=> InFlight(r)
    BY <1>1 DEF InFlight
  <2>3. Answering(r) => Answering(r)'
    <3>1. \A q : (Expected(q)' = Expected(q)) /\ (Keeps(q)' <=> Keeps(q))
      BY <1>1 DEF Expected, Keeps
    <3> QED  BY <1>1, <3>1 DEF Answering
  <2>4. Serving(r)'
    BY <1>1, <2>1, <2>2, <2>3 DEF Serving
  <2>5. r = Unanswered'
    BY <1>1, <2>0 DEF Unanswered
  <2> QED  BY <1>1, <2>1, <2>4, <2>5
<1> QED  BY <1>2, <1>3, <1>4 DEF HttpConnInv, InProgress

\* What is added to the answers.
LEMMA AnswerAdded ==
  ASSUME HttpTypes, AnswersAreRight, NEW e, answers' = Append(answers, e),
         UNCHANGED <<server, asked, early>>,
         e.short \/ e.whole \/ (server = "http_conn" /\ ~e.keep),
         ~early => /\ e.code = Expected(Unanswered)
                   /\ e.keep <=> (Keeps(Unanswered) /\ Unanswered.line # "bad")
  PROVE  /\ AnswersAreRight' /\ IsSeq(answers') /\ answers' # <<>>
         /\ Last(answers') = e /\ Len(answers') = Len(answers) + 1 /\ Len(answers) \in Nat
<1>1. IsAppend(answers, e, answers')
  BY AppendOf DEF HttpTypes
<1>2. Len(answers) \in Nat /\ DOMAIN answers = 1..Len(answers)
  BY LenOf DEF HttpTypes
<1>3. \A r : (Expected(r)' = Expected(r)) /\ (Keeps(r)' <=> Keeps(r))
  BY DEF Expected, Keeps
<1>4. PICK ask : ask = asked
  OBVIOUS
<1>5. ASSUME NEW i \in DOMAIN answers'
      PROVE  /\ answers'[i].short \/ answers'[i].whole
                    \/ (server = "http_conn" /\ ~answers'[i].keep)
             /\ early \/ (/\ answers'[i].code = Expected(ask[i])
                          /\ answers'[i].keep <=> (Keeps(ask[i]) /\ ask[i].line # "bad"))
  <2>1. CASE i = Len(answers) + 1
    BY <1>1, <1>4, <2>1, Zenon DEF IsAppend, Unanswered
  <2>2. CASE i # Len(answers) + 1
    <3>1. i \in DOMAIN answers /\ answers'[i] = answers[i]
      BY <1>1, <1>2, <1>5, <2>2 DEF IsAppend
    <3> QED  BY <1>4, <3>1, Zenon DEF AnswersAreRight
  <2> QED  BY <2>1, <2>2
<1>6. ASSUME NEW i \in DOMAIN answers'
      PROVE  /\ answers'[i].short \/ answers'[i].whole
                    \/ (server' = "http_conn" /\ ~answers'[i].keep)
             /\ early' \/ (/\ answers'[i].code = Expected(ask[i])'
                           /\ answers'[i].keep <=> (Keeps(ask[i])' /\ ask[i].line # "bad"))
  BY <1>3, <1>5, <1>6
<1>7. AnswersAreRight'
  <2>1. asked' = ask
    BY <1>4
  <2> QED  BY <1>6, <2>1, Zenon DEF AnswersAreRight
<1> QED  BY <1>1, <1>2, <1>7 DEF IsAppend, Last

\* The rest of the answer is taken: the connection is kept or closed.
LEMMA WriteEndKeeps == ASSUME HttpConnInv, WriteEnd PROVE HttpConnInv'
<1>1. PICK n \in 1..answer.total, discarded \in BOOLEAN :
        /\ linger => ~discarded
        /\ answers' = Append(answers, [code |-> answer.code, keep |-> linger,
                                       whole |-> got = 0 /\ n = answer.total /\ ~discarded,
                                       short |-> answer.short \/ n < answer.total])
  BY Zenon DEF WriteEnd
<1> DEFINE e == [code |-> answer.code, keep |-> linger,
                 whole |-> got = 0 /\ n = answer.total /\ ~discarded,
                 short |-> answer.short \/ n < answer.total]
<1>2. /\ hpc = "write" /\ hpc' = IF linger THEN "read" ELSE "closed"
      /\ IF linger THEN Clear /\ UNCHANGED line_status ELSE UNCHANGED parserVars
      /\ answer' = <<>> /\ have' = 0 /\ got' = 0
      /\ UNCHANGED <<server, asked, asking, rest, wire, early, bodyCut>>
  BY Zenon DEF WriteEnd, askingVars
<1>3. /\ server = "http_conn" /\ answer.total \in Nat /\ answer.short \in BOOLEAN
      /\ got # 0 => answer.short
  BY <1>2 DEF HttpConnInv, AnswerShape
<1>4. e.short \/ e.whole \/ (server = "http_conn" /\ ~e.keep)
  <2>1. n < answer.total \/ n = answer.total
    BY <1>3
  <2>2. linger \/ ~linger
    <3>1. CASE linger
      BY <3>1
    <3> QED  BY <3>1
  <2> QED  BY <1>1, <1>3, <2>1, <2>2
<1>5. HttpTypes
  BY DEF HttpConnInv
<1>6. ~early => Len(answers) < Len(asked) /\ Serving(Unanswered) /\ Answering(Unanswered)
  BY <1>2 DEF HttpConnInv, InProgress, Calm, Serving
<1>7. ~early => /\ e.code = Expected(Unanswered)
                /\ e.keep <=> (Keeps(Unanswered) /\ Unanswered.line # "bad")
  BY <1>6 DEF Answering
<1>8. e.keep = linger
  OBVIOUS
<1>9. answers' = Append(answers, e)
  BY <1>1
<1> HIDE DEF e
<1>10. /\ AnswersAreRight' /\ IsSeq(answers') /\ answers' # <<>>
       /\ Last(answers') = e /\ Len(answers') = Len(answers) + 1 /\ Len(answers) \in Nat
  BY <1>2, <1>4, <1>5, <1>7, <1>9, AnswerAdded DEF HttpConnInv
<1>11. /\ linger => buf' = <<>> /\ chk' = 0 /\ start' = 0 /\ chk_state' = "line"
                    /\ content_length' = 0 /\ linger' = FALSE
       /\ ~linger => UNCHANGED <<buf, linger>>
  BY <1>2, Zenon DEF Clear, Cleared, parserVars
<1>12. HttpTypes'
  BY <1>2, <1>5, <1>10, <1>11, ShortOnes DEF HttpTypes
<1>13. AnswerShape'
  BY <1>2 DEF AnswerShape
<1>14. ClosedReason'
  BY <1>2, <1>8, <1>10 DEF ClosedReason
<1>15. ASSUME ~early', hpc' # "closed" PROVE Calm'
  <2>1. linger /\ ~early
    BY <1>2, <1>15
  <2>2. asking = Len(answers) + 1 /\ wire = <<>> /\ rest = <<>>
    BY <1>6, <2>1 DEF Serving, Answering
  <2> QED  BY <1>2, <1>10, <1>11, <2>1, <2>2 DEF Calm
<1> QED  BY <1>10, <1>12, <1>13, <1>14, <1>15 DEF HttpConnInv, InProgress

-----------------------------------------------------------------------------
\* The parser at work on the request r.
InParser(r) ==
  /\ r = Unanswered /\ IsRequest(r) /\ IsText(r, Tokens(r))
  /\ Len(answers) < Len(asked) /\ asking = Len(answers) + 1
  /\ InFlight(r) /\ ParserAt(r) /\ Parsing(r)
LEMMA WhileParsing ==
  ASSUME HttpConnInv, hpc = "parse", ~early
  PROVE  InParser(Unanswered)
<1>1. Len(answers) < Len(asked) /\ Serving(Unanswered)
  BY DEF HttpConnInv, InProgress, Calm
<1>2. HttpTypes
  BY DEF HttpConnInv
<1>3. Len(answers) \in Nat
  BY <1>2, LenOf DEF HttpTypes
<1>4. IsRequest(Unanswered)
  BY <1>1, <1>2, <1>3, AskedIs DEF Unanswered
<1> QED  BY <1>1, <1>4, TextIs DEF InParser, Serving

\* What process_read leaves alone.
Outside == UNCHANGED <<server, asked, asking, rest, wire, early, bodyCut, buf>>

\* A step of the parser that answers nothing.
LEMMA GoesOn ==
  ASSUME HttpConnInv, hpc = "parse", hpc' \in {"parse", "read"}, Outside,
         UNCHANGED <<answer, have, got, answers>>, linger' \in BOOLEAN,
         \A r : InParser(r) /\ ~early => /\ ParserAt(r)'
                                         /\ hpc' = "read" => Reading(r)'
                                         /\ hpc' = "parse" => Parsing(r)'
  PROVE  HttpConnInv'
<1>0. /\ UNCHANGED <<server, asked, asking, rest, wire, early, bodyCut, buf>>
      /\ UNCHANGED <<answer, have, got, answers>>
  BY DEF Outside
<1>1. HttpTypes' /\ AnswerShape' /\ ClosedReason'
  BY <1>0 DEF HttpConnInv, HttpTypes, AnswerShape, ClosedReason
<1>2. AnswersAreRight'
  BY <1>0, SameAnswers DEF HttpConnInv
<1>3. ASSUME ~early' PROVE Len(answers') < Len(asked') /\ Serving(Unanswered)'
  <2>0. PICK r : r = Unanswered
    OBVIOUS
  <2>1. InParser(r) /\ ~early
    BY <1>0, <1>3, <2>0, WhileParsing
  <2>2. InFlight(r)' <=> InFlight(r)
    BY <1>0 DEF InFlight
  <2>3. ParserAt(r)' /\ (hpc' = "read" => Reading(r)') /\ (hpc' = "parse" => Parsing(r)')
    BY <2>1
  <2>4. Serving(r)'
    BY <1>0, <2>1, <2>2, <2>3 DEF Serving, InParser
  <2>5. r = Unanswered'
    BY <1>0, <2>0 DEF Unanswered
  <2> QED  BY <1>0, <2>1, <2>4, <2>5 DEF InParser
<1> QED  BY <1>1, <1>2, <1>3 DEF HttpConnInv, InProgress

\* A step of the parser that answers.
LEMMA Replies ==
  ASSUME HttpConnInv, hpc = "parse", NEW code, Reply(code), Outside, UNCHANGED linger,
         \A r : InParser(r) /\ ~early => /\ code = Expected(r)
                                         /\ linger <=> Keeps(r) /\ r.line # "bad"
                                         /\ linger => wire = <<>> /\ rest = <<>>
  PROVE  HttpConnInv'
<1>0. UNCHANGED <<server, asked, asking, rest, wire, early, bodyCut, buf, linger>>
  BY DEF Outside
<1>1. ASSUME ~early
      PROVE  /\ InParser(Unanswered) /\ code = Expected(Unanswered)
             /\ linger <=> Keeps(Unanswered) /\ Unanswered.line # "bad"
             /\ linger => wire = <<>> /\ rest = <<>>
  BY <1>1, WhileParsing
<1>2. HttpTypes /\ AnswerShape /\ AnswersAreRight /\ ClosedReason
  BY DEF HttpConnInv
<1>3. CASE server = "one_buffer"
  <2> DEFINE e == [code |-> code, keep |-> FALSE, whole |-> TRUE, short |-> FALSE]
  <2>1. answers' = Append(answers, e) /\ hpc' = "closed" /\ UNCHANGED <<answer, have, got>>
    BY <1>3 DEF Reply, writeVars
  <2>2. e.keep = FALSE /\ e.whole /\ e.code = code
    OBVIOUS
  <2>3. ~Keeps(Unanswered)
    BY <1>3 DEF Keeps
  <2> HIDE DEF e
  <2>4. /\ AnswersAreRight' /\ IsSeq(answers') /\ answers' # <<>>
        /\ Last(answers') = e /\ Len(answers') = Len(answers) + 1 /\ Len(answers) \in Nat
    BY <1>0, <1>1, <1>2, <2>1, <2>2, <2>3, AnswerAdded
  <2>5. HttpTypes'
    BY <1>0, <1>2, <2>1, <2>4 DEF HttpTypes
  <2>6. AnswerShape' /\ ClosedReason'
    BY <1>2, <2>1, <2>2, <2>4 DEF AnswerShape, ClosedReason
  <2> QED  BY <2>1, <2>4, <2>5, <2>6 DEF HttpConnInv, InProgress
<1>4. CASE server = "http_conn"
  <2>1. /\ answer' = [code |-> code, head |-> IF code = "200" THEN HeaderSize ELSE HeaderSize + 1,
                      total |-> HeaderSize + (IF code = "200" THEN FileSize ELSE 1), short |-> FALSE]
        /\ hpc' = "write" /\ UNCHANGED <<have, got, answers>>
    BY <1>4 DEF Reply
  <2>2. have = 0 /\ got = 0
    BY <1>2 DEF AnswerShape
  <2>3. AnswerShape'
    <3>1. CASE code = "200"
      <4>1. answer' = [code |-> code, head |-> HeaderSize, total |-> HeaderSize + FileSize,
                       short |-> FALSE]
        BY <2>1, <3>1
      <4>2. HeaderSize \in Nat /\ HeaderSize + FileSize \in Nat /\ HeaderSize <= HeaderSize + FileSize
        BY HttpConnAssumption
      <4>3. /\ answer' = [code |-> code, head |-> answer'.head, total |-> answer'.total,
                          short |-> answer'.short]
            /\ answer'.head \in Nat /\ answer'.total \in Nat /\ answer'.head <= answer'.total
            /\ answer'.short = FALSE
        BY <4>1, <4>2
      <4>4. have' = 0 /\ got' = 0 /\ hpc' = "write" /\ server' = "http_conn" /\ 0 \in Nat
        BY <1>0, <1>4, <2>1, <2>2
      <4> QED  BY <4>3, <4>4, Zenon DEF AnswerShape
    <3>2. CASE code # "200"
      <4>1. answer' = [code |-> code, head |-> HeaderSize + 1, total |-> HeaderSize + 1,
                       short |-> FALSE]
        BY <2>1, <3>2
      <4>2. HeaderSize + 1 \in Nat
        BY HttpConnAssumption
      <4>3. /\ answer' = [code |-> code, head |-> answer'.head, total |-> answer'.total,
                          short |-> answer'.short]
            /\ answer'.head \in Nat /\ answer'.total \in Nat /\ answer'.head <= answer'.total
            /\ answer'.short = FALSE
        BY <4>1, <4>2
      <4>4. have' = 0 /\ got' = 0 /\ hpc' = "write" /\ server' = "http_conn" /\ 0 \in Nat
        BY <1>0, <1>4, <2>1, <2>2
      <4> QED  BY <4>3, <4>4, Zenon DEF AnswerShape
    <3> QED  BY <3>1, <3>2
  <2>4. HttpTypes' /\ ClosedReason'
    BY <1>0, <1>2, <2>1 DEF HttpTypes, ClosedReason
  <2>5. AnswersAreRight'
    BY <1>0, <1>2, <2>1, SameAnswers
  <2>6. ASSUME ~early' PROVE Len(answers') < Len(asked') /\ Serving(Unanswered)'
    <3>0. PICK r : r = Unanswered
      OBVIOUS
    <3>1. ~early /\ InParser(r) /\ code = Expected(r)
      BY <1>0, <1>1, <2>6, <3>0
    <3>2. InFlight(r)' <=> InFlight(r)
      BY <1>0 DEF InFlight
    <3>3. Answering(r)'
      <4>1. \A q : (Expected(q)' = Expected(q)) /\ (Keeps(q)' <=> Keeps(q))
        BY <1>0 DEF Expected, Keeps
      <4>2. answer'.code = code
        BY <2>1
      <4>3. /\ linger <=> Keeps(r) /\ r.line # "bad"
            /\ linger => wire = <<>> /\ rest = <<>>
        BY <1>1, <3>0, <3>1
      <4> QED  BY <1>0, <3>1, <4>1, <4>2, <4>3 DEF Answering
    <3>4. Serving(r)'
      BY <1>0, <2>1, <3>1, <3>2, <3>3 DEF Serving, InParser
    <3>5. r = Unanswered'
      BY <1>0, <2>1, <3>0 DEF Unanswered
    <3> QED  BY <1>0, <2>1, <3>1, <3>4, <3>5 DEF InParser
  <2> QED  BY <2>3, <2>4, <2>5, <2>6 DEF HttpConnInv, InProgress
<1> QED  BY <1>2, <1>3, <1>4 DEF HttpTypes

\* The buffer holds the first words of the request.
InBuffer(r, L, T) ==
  /\ L = Len(buf) /\ L \in Nat /\ L >= 1 /\ IsSeq(buf)
  /\ \A i \in 1..L : buf[i] = T[i]
  /\ Len(T) \in Nat /\ L <= Len(T) /\ IsText(r, T)
LEMMA WordsRead == ASSUME NEW r, InParser(r) PROVE InBuffer(r, Len(buf), Tokens(r))
<1>1. /\ Len(buf) \in Nat /\ Len(wire) \in Nat /\ Len(rest) \in Nat
      /\ IsSeq(buf) /\ \A i \in 1..Len(buf) : buf[i] = Tokens(r)[i]
      /\ Len(Tokens(r)) \in Nat /\ Len(Tokens(r)) >= 4
  BY TextBegins DEF InParser
<1>2. Len(buf) + Len(wire) + Len(rest) = Len(Tokens(r)) /\ Len(buf) >= 1
  BY DEF InParser, InFlight, Parsing
<1> QED  BY <1>1, <1>2 DEF InBuffer, InParser

\* The line that is looked for is the first.
LEMMA FirstLine ==
  ASSUME NEW r, InParser(r), AtLine
  PROVE  /\ WellFormed(r) => LineOfWords(1)
         /\ ~WellFormed(r) => LineIsBad
<1> DEFINE L == Len(buf)
           T == Tokens(r)
<1>1. InBuffer(r, L, T)
  BY WordsRead
<1>2. chk \in {0, 1} /\ chk \in Nat /\ chk <= 1
  BY DEF AtLine
<1>3. r.line \notin {"CR", "LF"} /\ T[1] = r.line
  BY <1>1 DEF InParser, IsRequest, Targets, InBuffer, IsText
<1>4. L = Len(buf)
  OBVIOUS
<1> HIDE DEF L, T
<1>5. buf[1] = T[1] /\ (L >= 2 => buf[2] = T[2]) /\ (L >= 3 => buf[3] = T[3]) /\ L \in Nat /\ L >= 1
  BY <1>1 DEF InBuffer
<1>6. ASSUME WellFormed(r) PROVE LineOfWords(1)
  <2>1. T[2] = "CR" /\ T[3] = "LF"
    BY <1>1, <1>6, Zenon DEF InBuffer, IsText
  <2>2. \A i \in chk+1..1 : i = 1
    BY <1>2
  <2>3. (L > 1 => buf[1 + 1] = "CR") /\ (L > 1 + 1 => buf[1 + 2] = "LF") /\ chk <= L
    BY <1>2, <1>5, <2>1
  <2>4. IsSeq(buf)
    BY <1>1 DEF InBuffer
  <2>5. \A i \in chk+1..1 : buf[i] \notin {"CR", "LF"}
    BY <1>3, <1>5, <2>2
  <2> QED  BY <1>2, <1>4, <2>3, <2>4, <2>5, LineAt
<1>7. ASSUME ~WellFormed(r) PROVE LineIsBad
  <2>1. T[2] \in {"CR", "LF"} /\ T[3] # "LF"
    BY <1>1, <1>7, Zenon DEF InBuffer, IsText
  <2>2. IsSeq(buf)
    BY <1>1 DEF InBuffer
  <2> QED  BY <1>2, <1>3, <1>4, <1>5, <2>1, <2>2, BadLine
<1> QED  BY <1>6, <1>7

\* The line that is looked for is a header, or the blank line after them.
LEMMA HeaderLine ==
  ASSUME NEW r, InParser(r), WellFormed(r), chk <= Len(buf),
         NEW k \in 0..Len(r.headers), AtHeader(r, k)
  PROVE  /\ k < Len(r.headers) => LineOfWords(start + 1)
         /\ k = Len(r.headers) => LineOfWords(start)
<1> DEFINE L == Len(buf)
           T == Tokens(r)
           n == Len(r.headers)
<1>1. InBuffer(r, L, T)
  BY WordsRead
<1>2. /\ n \in Nat /\ k \in Nat /\ k <= n /\ start = 3 + 3 * k
      /\ chk = start \/ (chk = start + 1 /\ k < n)
  BY RequestIs DEF InParser, AtHeader
<1>3. /\ \A j \in 0..n - 1 : /\ T[3 + 3 * j + 1] = r.headers[j + 1]
                             /\ T[3 + 3 * j + 2] = "CR" /\ T[3 + 3 * j + 3] = "LF"
      /\ T[3 + 3 * n + 1] = "CR" /\ T[3 + 3 * n + 2] = "LF"
  BY <1>1, Zenon DEF InBuffer, IsText
<1>4. \A i \in 1..n : r.headers[i] \notin {"CR", "LF"}
  BY RequestIs DEF InParser, IsRequest
<1>5. L = Len(buf) /\ L \in Nat /\ IsSeq(buf) /\ \A i \in 1..L : buf[i] = T[i]
  BY <1>1 DEF InBuffer
<1>6. chk <= L /\ k \in 0..n
  OBVIOUS
<1> HIDE DEF L, T, n
<1>7. start \in Nat /\ chk \in Nat
  BY <1>2
<1>8. ASSUME k < n PROVE LineOfWords(start + 1)
  <2>1. k \in 0..n - 1 /\ k + 1 \in 1..n
    BY <1>2, <1>8
  <2>2. T[start + 1] = r.headers[k + 1] /\ T[start + 2] = "CR" /\ T[start + 3] = "LF"
    BY <1>2, <1>3, <2>1
  <2>3. T[start + 1] \notin {"CR", "LF"}
    BY <1>4, <2>1, <2>2
  <2>4. \A i \in chk+1..start+1 : i <= L => buf[i] \notin {"CR", "LF"}
    <3>1. \A i \in chk+1..start+1 : i = start + 1 /\ (i <= L => i \in 1..L)
      BY <1>2, <1>5, <1>7
    <3> QED  BY <1>5, <2>3, <3>1
  <2>5. /\ L > start + 1 => start + 1 + 1 \in 1..L /\ start + 1 + 1 = start + 2
        /\ L > start + 1 + 1 => start + 1 + 2 \in 1..L /\ start + 1 + 2 = start + 3
    BY <1>5, <1>7
  <2>6. /\ L > start + 1 => buf[start + 1 + 1] = "CR"
        /\ L > start + 1 + 1 => buf[start + 1 + 2] = "LF"
    BY <1>5, <2>2, <2>5
  <2>7. start + 1 \in Nat /\ chk <= start + 1
    BY <1>2, <1>7
  <2> QED  BY <1>5, <1>6, <1>7, <2>4, <2>6, <2>7, LineAt
<1>9. ASSUME k = n PROVE LineOfWords(start)
  <2>1. T[start + 1] = "CR" /\ T[start + 2] = "LF" /\ chk = start
    BY <1>2, <1>3, <1>9
  <2>2. \A i \in chk+1..start : i <= L => buf[i] \notin {"CR", "LF"}
    BY <1>7, <2>1
  <2>3. /\ L > start => start + 1 \in 1..L
        /\ L > start + 1 => start + 2 \in 1..L
    BY <1>5, <1>7
  <2>4. /\ L > start => buf[start + 1] = "CR"
        /\ L > start + 1 => buf[start + 2] = "LF"
    BY <1>5, <2>1, <2>3
  <2>5. chk <= start
    BY <1>7, <2>1
  <2> QED  BY <1>5, <1>6, <1>7, <2>2, <2>4, <2>5, LineAt
<1> QED  BY <1>8, <1>9 DEF n

\* A text of one word, and one of none.
LEMMA WordOf ==
  ASSUME IsSeq(buf), NEW m \in Nat, m < Len(buf)
  PROVE  /\ SubSeq(buf, m + 1, m + 1) # <<>> /\ SubSeq(buf, m + 1, m + 1)[1] = buf[m + 1]
         /\ SubSeq(buf, m + 1, m) = <<>>
<1>1. Len(buf) \in Nat
  BY LenOf
<1>2. IsCut(buf, m + 1, m + 1, SubSeq(buf, m + 1, m + 1)) /\ IsCut(buf, m + 1, m, SubSeq(buf, m + 1, m))
  BY <1>1, CutOf
<1> DEFINE u == SubSeq(buf, m + 1, m + 1)
           v == SubSeq(buf, m + 1, m)
<1> HIDE DEF u, v
<1>3. IsCut(buf, m + 1, m + 1, u) /\ IsCut(buf, m + 1, m, v)
  BY <1>2 DEF u, v
<1>4. IsSeq(u) /\ IsSeq(v) /\ Len(u) = 1 /\ Len(v) = 0 /\ 1 \in 1..Len(u)
  BY <1>3 DEF IsCut
<1>5. u[1] = buf[m + 1 + 1 - 1] /\ m + 1 + 1 - 1 = m + 1
  BY <1>3, <1>4 DEF IsCut
<1>6. u # <<>> /\ v = <<>>
  BY <1>4, LenOf
<1> QED  BY <1>5, <1>6 DEF u, v

\* In the content, what parse_line finds does not matter to what is read.
InContent(r, f) ==
  /\ AtContent(r) /\ f \in Nat /\ f >= chk /\ f <= Len(buf)
  /\ HeadLen(r) <= f
  /\ f > HeadLen(r) => bodyCut

\* What a line is when it is found, and where the parser then is.
LineIs(r, f, txt) ==
  \/ /\ AtLine /\ WellFormed(r) /\ f = 3 /\ f <= Len(buf)
     /\ txt # <<>> /\ txt[1] = r.line
  \/ /\ WellFormed(r) /\ r.line \in Targets /\ f <= Len(buf)
     /\ \E k \in 0..Len(r.headers) - 1 :
          AtHeader(r, k) /\ f = 3 + 3 * (k + 1) /\ txt # <<>> /\ txt[1] = r.headers[k + 1]
  \/ /\ WellFormed(r) /\ r.line \in Targets /\ f <= Len(buf)
     /\ AtHeader(r, Len(r.headers)) /\ f = HeadLen(r) /\ txt = <<>>
  \/ /\ WellFormed(r) /\ r.line \in Targets
     /\ InContent(r, f) /\ line_status = "open"

\* Content: the parser looks for a line in it only when it was not all there.
LEMMA ContentScan ==
  ASSUME NEW r, InParser(r), ~ContentDirectly, AtContent(r), chk <= Len(buf)
  PROVE  line_status = "open" /\ InContent(r, LineFound.chk)
<1>1. line_status = "open" /\ NotAll(r)
  BY DEF InParser, Parsing, ContentDirectly, AtContent
<1>2. chk \in Nat /\ HeadLen(r) <= chk /\ (chk > HeadLen(r) => bodyCut)
  BY DEF AtContent
<1>3. /\ IsSeq(buf) /\ Len(buf) \in Nat /\ Len(Tokens(r)) \in Nat /\ HeadLen(r) \in Nat
  <2>1. InBuffer(r, Len(buf), Tokens(r))
    BY WordsRead
  <2>2. IsText(r, Tokens(r))
    BY DEF InParser
  <2> QED  BY <2>1, <2>2, Zenon DEF InBuffer, IsText
<1>4. ScanGoesOn
  BY <1>2, <1>3, LineLater
<1>5. Len(buf) > HeadLen(r) => bodyCut
  <2>1. CutsContent(r, Len(buf)) => bodyCut
    BY DEF InParser, InFlight
  <2>2. Len(buf) > HeadLen(r) /\ Len(buf) < Len(Tokens(r)) => CutsContent(r, Len(buf))
    BY <1>3 DEF CutsContent
  <2> QED  BY <1>1, <2>1, <2>2 DEF NotAll
<1> QED  BY <1>1, <1>2, <1>3, <1>4, <1>5 DEF ScanGoesOn, InContent

\* The line that is found is the one the request has there.
LEMMA WhenFound ==
  ASSUME NEW r, InParser(r), ~ContentDirectly, LineFound.status = "ok"
  PROVE  LineIs(r, LineFound.chk, SubSeq(buf, start + 1, LineFound.chk - 2))
<1>1. InBuffer(r, Len(buf), Tokens(r)) /\ IsText(r, Tokens(r))
  BY WordsRead DEF InParser
<1>2. ParserAt(r)
  BY DEF InParser
<1>3. Len(buf) \in Nat /\ IsSeq(buf) /\ \A i \in 1..Len(buf) : buf[i] = Tokens(r)[i]
  BY <1>1 DEF InBuffer
<1>4. CASE AtLine
  <2>1. WellFormed(r)
    <3>1. LineIsBad => LineFound.status # "ok"
      BY DEF LineIsBad
    <3> QED  BY <1>4, <3>1, FirstLine
  <2>2. LineOfWords(1)
    BY <1>4, <2>1, FirstLine
  <2>3. LineFound = Found("ok", 3) /\ Len(buf) >= 3
    <3>1. \/ LineFound = Found("open", Len(buf)) \/ LineFound = Found("open", 1)
          \/ LineFound = Found("ok", 1 + 2) /\ Len(buf) >= 1 + 2
      BY <2>2, Zenon DEF LineOfWords
    <3>2. Found("open", Len(buf)).status # "ok" /\ Found("open", 1).status # "ok"
      BY DEF Found
    <3>3. 1 + 2 = 3
      OBVIOUS
    <3> QED  BY <3>1, <3>2, <3>3, Zenon
  <2>4. LineFound.chk = 3 /\ 3 - 2 = 0 + 1 /\ start = 0
    BY <1>4, <2>3 DEF Found, AtLine
  <2>5. SubSeq(buf, 0 + 1, 0 + 1) # <<>> /\ SubSeq(buf, 0 + 1, 0 + 1)[1] = buf[0 + 1]
    BY <1>3, <2>3, WordOf
  <2>6. buf[0 + 1] = r.line
    <3>1. 1 \in 1..Len(buf) /\ 0 + 1 = 1
      BY <1>3, <2>3
    <3> QED  BY <1>1, <1>3, <3>1 DEF IsText
  <2> DEFINE txt == SubSeq(buf, start + 1, LineFound.chk - 2)
  <2>7. txt # <<>> /\ txt[1] = r.line
    BY <2>4, <2>5, <2>6
  <2> HIDE DEF txt
  <2>8. LineIs(r, LineFound.chk, txt)
    BY <1>4, <2>1, <2>3, <2>4, <2>7 DEF LineIs
  <2> QED  BY <2>8 DEF txt
<1>5. ASSUME WellFormed(r), r.line \in Targets, chk <= Len(buf),
             NEW k \in 0..Len(r.headers), AtHeader(r, k)
      PROVE  LineIs(r, LineFound.chk, SubSeq(buf, start + 1, LineFound.chk - 2))
  <2> DEFINE n == Len(r.headers)
             txt == SubSeq(buf, start + 1, LineFound.chk - 2)
             f == LineFound.chk
  <2>1. n \in Nat /\ k \in Nat /\ k <= n /\ start = 3 + 3 * k /\ start \in Nat
    BY <1>5, RequestIs DEF InParser, AtHeader
  <2>2. CASE k < n
    <3>1. LineOfWords(start + 1)
      BY <1>5, <2>2, HeaderLine
    <3>2. LineFound = Found("ok", start + 1 + 2) /\ Len(buf) >= start + 1 + 2
      BY <1>3, <2>1, <3>1 DEF LineOfWords, Found
    <3>3. f = start + 3 /\ f - 2 = start + 1 /\ f <= Len(buf) /\ f = 3 + 3 * (k + 1) /\ start < Len(buf)
      <4>1. f = start + 1 + 2
        BY <3>2 DEF Found
      <4> HIDE DEF f
      <4> QED  BY <1>3, <2>1, <3>2, <4>1
    <3>4. txt # <<>> /\ txt[1] = buf[start + 1]
      BY <1>3, <2>1, <3>3, WordOf
    <3>5. buf[start + 1] = r.headers[k + 1]
      <4>1. start + 1 \in 1..Len(buf) /\ k \in 0..n - 1
        BY <1>3, <2>1, <2>2, <3>3
      <4>2. \A j \in 0..n - 1 : Tokens(r)[3 + 3 * j + 1] = r.headers[j + 1]
        BY <1>1, <1>5, Zenon DEF IsText
      <4> QED  BY <1>3, <2>1, <4>1, <4>2
    <3>6. k \in 0..n - 1
      BY <2>1, <2>2
    <3> HIDE DEF txt, f
    <3>7. LineIs(r, f, txt)
      BY <1>5, <3>3, <3>4, <3>5, <3>6 DEF LineIs
    <3> QED  BY <3>7 DEF f, txt
  <2>3. CASE k = n
    <3>1. LineOfWords(start)
      BY <1>5, <2>3, HeaderLine
    <3>2. LineFound = Found("ok", start + 2) /\ Len(buf) >= start + 2
      BY <1>3, <2>1, <3>1 DEF LineOfWords, Found
    <3>3. HeadLen(r) = 5 + 3 * n
      BY <1>1, <1>5, Zenon DEF IsText
    <3>4. f - 2 = start /\ f <= Len(buf) /\ f = HeadLen(r) /\ start < Len(buf)
      <4>1. f = start + 2
        BY <3>2, Zenon DEF Found
      <4> HIDE DEF f
      <4>2. start \in Nat /\ start = 3 + 3 * n
        BY <2>1, <2>3
      <4>3. f - 2 = start /\ f = 5 + 3 * n /\ f <= Len(buf) /\ start < Len(buf)
        BY <1>3, <3>2, <4>1, <4>2
      <4> QED  BY <3>3, <4>3
    <3>5. txt = <<>>
      BY <1>3, <2>1, <3>4, WordOf
    <3> HIDE DEF txt, f
    <3>6. LineIs(r, f, txt)
      BY <1>5, <2>3, <3>4, <3>5 DEF LineIs
    <3> QED  BY <3>6 DEF f, txt
  <2> QED  BY <2>1, <2>2, <2>3
<1>6. ASSUME WellFormed(r), r.line \in Targets, chk <= Len(buf), AtContent(r)
      PROVE  LineIs(r, LineFound.chk, SubSeq(buf, start + 1, LineFound.chk - 2))
  BY <1>6, ContentScan DEF LineIs
<1> QED  BY <1>2, <1>4, <1>5, <1>6 DEF ParserAt

\* What is missing when no line is found.
LineIsNot(r, f, status) ==
  \/ /\ AtLine /\ f = 1
     /\ \/ status = "open" /\ NotAll(r)
        \/ status = "bad" /\ ~WellFormed(r)
  \/ /\ WellFormed(r) /\ r.line \in Targets /\ status = "open" /\ NotAll(r)
     /\ \E k \in 0..Len(r.headers) :
          AtHeader(r, k) /\ (f = start \/ (f = start + 1 /\ k < Len(r.headers)))
  \/ /\ WellFormed(r) /\ r.line \in Targets
     /\ InContent(r, f) /\ NotAll(r)

\* When no line is found, one is missing or the line end is a wrong one.
LEMMA WhenNotFound ==
  ASSUME NEW r, InParser(r), ~ContentDirectly, LineFound.status # "ok"
  PROVE  LineFound.chk <= Len(buf) /\ LineIsNot(r, LineFound.chk, LineFound.status)
<1>1. InBuffer(r, Len(buf), Tokens(r)) /\ IsText(r, Tokens(r))
  BY WordsRead DEF InParser
<1>2. ParserAt(r)
  BY DEF InParser
<1>3. Len(buf) \in Nat /\ IsSeq(buf) /\ Len(buf) >= 1 /\ Len(Tokens(r)) \in Nat
  BY <1>1 DEF InBuffer
<1>4. Len(Tokens(r)) >= 4 /\ Len(Tokens(r)) >= HeadLen(r)
  <2>1. Len(r.content) \in Nat
    BY RequestIs DEF InParser
  <2> QED  BY <1>1, <2>1 DEF IsText
<1>5. CASE AtLine
  <2>1. CASE WellFormed(r)
    <3>1. LineOfWords(1)
      BY <1>5, <2>1, FirstLine
    <3>2. LineFound = Found("open", 1) /\ Len(buf) <= 2
      <4>1. \/ LineFound = Found("open", Len(buf)) /\ Len(buf) <= 1
            \/ LineFound = Found("open", 1) /\ Len(buf) = 1 + 1
        <5>1. Found("ok", 1 + 2).status = "ok"
          BY DEF Found
        <5> QED  BY <3>1, <5>1, Zenon DEF LineOfWords
      <4>2. Len(buf) <= 2 /\ (Len(buf) <= 1 => Len(buf) = 1)
        <5>1. Len(buf) <= 1 \/ Len(buf) = 1 + 1
          BY <4>1, Zenon
        <5> QED  BY <1>3, <5>1
      <4> QED  BY <4>1, <4>2, Zenon
    <3>3. NotAll(r)
      BY <1>3, <1>4, <3>2 DEF NotAll
    <3> QED  BY <1>3, <1>5, <3>2, <3>3 DEF Found, LineIsNot
  <2>2. CASE ~WellFormed(r)
    <3>1. LineIsBad
      BY <1>5, <2>2, FirstLine
    <3>2. Len(buf) < 3 => NotAll(r)
      BY <1>3, <1>4 DEF NotAll
    <3> QED  BY <1>3, <1>5, <2>2, <3>1, <3>2 DEF LineIsBad, LineIsNot
  <2> QED  BY <2>1, <2>2
<1>6. ASSUME WellFormed(r), r.line \in Targets, chk <= Len(buf),
             NEW k \in 0..Len(r.headers), AtHeader(r, k)
      PROVE  LineFound.chk <= Len(buf) /\ LineIsNot(r, LineFound.chk, LineFound.status)
  <2> DEFINE n == Len(r.headers)
  <2>1. /\ n \in Nat /\ k \in Nat /\ k <= n /\ start = 3 + 3 * k /\ start \in Nat
        /\ chk = start \/ (chk = start + 1 /\ k < n)
    BY <1>6, RequestIs DEF InParser, AtHeader
  <2>2. HeadLen(r) = 5 + 3 * n
    BY <1>1, <1>6, Zenon DEF IsText
  <2>3. /\ LineFound.status = "open" /\ LineFound.chk <= Len(buf)
        /\ LineFound.chk = start \/ (LineFound.chk = start + 1 /\ k < n)
        /\ Len(buf) < HeadLen(r)
    <3>1. CASE k < n
      <4>1. LineOfWords(start + 1)
        BY <1>6, <3>1, HeaderLine
      <4>2. \/ LineFound = Found("open", Len(buf)) /\ Len(buf) <= start + 1
            \/ LineFound = Found("open", start + 1) /\ Len(buf) = start + 2
        BY <1>3, <2>1, <4>1 DEF LineOfWords, Found
      <4>3. chk <= Len(buf)
        BY <1>6
      <4> HIDE DEF n
      <4>4. Len(buf) < HeadLen(r)
        BY <1>3, <2>1, <2>2, <3>1, <4>2
      <4>5. Len(buf) <= start + 1 => Len(buf) = start \/ Len(buf) = start + 1
        BY <1>3, <2>1, <4>3
      <4> QED  BY <1>3, <2>1, <3>1, <4>2, <4>4, <4>5 DEF Found
    <3>2. CASE k = n
      <4>1. LineOfWords(start)
        BY <1>6, <3>2, HeaderLine
      <4>2. \/ LineFound = Found("open", Len(buf)) /\ Len(buf) <= start
            \/ LineFound = Found("open", start) /\ Len(buf) = start + 1
        BY <1>3, <2>1, <4>1 DEF LineOfWords, Found
      <4>3. chk <= Len(buf)
        BY <1>6
      <4> HIDE DEF n
      <4>4. Len(buf) < HeadLen(r)
        BY <1>3, <2>1, <2>2, <3>2, <4>2
      <4>5. Len(buf) <= start => Len(buf) = start
        BY <1>3, <2>1, <4>3
      <4> QED  BY <1>3, <2>1, <3>2, <4>2, <4>4, <4>5 DEF Found
    <3> QED  BY <2>1, <3>1, <3>2
  <2>4. NotAll(r)
    <3>1. HeadLen(r) \in Nat
      BY <1>1 DEF IsText
    <3> QED  BY <1>3, <1>4, <2>3, <3>1 DEF NotAll
  <2> QED  BY <1>6, <2>3, <2>4 DEF LineIsNot
<1>7. ASSUME WellFormed(r), r.line \in Targets, chk <= Len(buf), AtContent(r)
      PROVE  LineFound.chk <= Len(buf) /\ LineIsNot(r, LineFound.chk, LineFound.status)
  <2>1. line_status = "open" /\ InContent(r, LineFound.chk)
    BY <1>7, ContentScan
  <2>2. NotAll(r)
    BY <2>1 DEF InParser, Parsing
  <2> QED  BY <1>7, <2>1, <2>2 DEF LineIsNot, InContent
<1> QED  BY <1>2, <1>5, <1>6, <1>7 DEF ParserAt

-----------------------------------------------------------------------------
\* Whether a request is kept is what all of its headers say.
LEMMA KeepsIs ==
  ASSUME NEW r, IsRequest(r)
  PROVE  /\ Keeps(r) <=> server = "http_conn" /\ SeenOf(r, Len(r.headers), "keep")
         /\ Len(r.content) = IF SeenOf(r, Len(r.headers), "len2") THEN 2 ELSE 0
<1>1. DOMAIN r.headers = 1..Len(r.headers)
  BY RequestIs
<1>2. \A h : h \in ToSet(r.headers) <=> SeenOf(r, Len(r.headers), h)
  BY <1>1 DEF ToSet, SeenOf
<1> QED  BY <1>2 DEF Keeps, IsRequest

\* All of the request is in the buffer: the client waits.
LEMMA AllRead ==
  ASSUME NEW r, InParser(r), Len(buf) >= Len(Tokens(r))
  PROVE  wire = <<>> /\ rest = <<>>
<1>1. IsSeq(wire) /\ IsSeq(rest) /\ Len(buf) + Len(wire) + Len(rest) = Len(Tokens(r))
  BY DEF InParser, InFlight, IsPart
<1>2. Len(buf) \in Nat /\ Len(wire) \in Nat /\ Len(rest) \in Nat /\ Len(Tokens(r)) \in Nat
  BY TextBegins DEF InParser
<1> QED  BY <1>1, <1>2, LenOf

\* do_request answers what the request line asks for.
LEMMA Requests ==
  ASSUME HttpConnInv, hpc = "parse", DoRequest, Outside, UNCHANGED linger,
         \A r : InParser(r) /\ ~early =>
                  /\ WellFormed(r) /\ r.line \in Targets /\ (linger <=> Keeps(r))
                  /\ linger => wire = <<>> /\ rest = <<>>
  PROVE  HttpConnInv'
<1>0. UNCHANGED <<server, asked, asking, rest, wire, early, bodyCut, buf, linger>>
  BY DEF Outside
<1>1. ASSUME NEW r, InParser(r) PROVE Target = r.line
  <2>1. InBuffer(r, Len(buf), Tokens(r)) /\ IsText(r, Tokens(r))
    BY <1>1, WordsRead DEF InParser
  <2>2. 1 \in 1..Len(buf)
    BY <2>1 DEF InBuffer
  <2> QED  BY <2>1, <2>2 DEF InBuffer, IsText, Target
<1>2. CASE server = "http_conn" /\ Target = "empty"
  <2>1. hpc' = "closed" /\ UNCHANGED <<answer, have, got, answers>>
    BY <1>2 DEF DoRequest, writeVars
  <2>2. early \/ Unanswered.line = "empty"
    BY <1>1, <1>2, WhileParsing
  <2>3. Unanswered' = Unanswered
    BY <1>0, <2>1 DEF Unanswered
  <2>4. HttpTypes' /\ AnswerShape'
    BY <1>0, <2>1 DEF HttpConnInv, HttpTypes, AnswerShape
  <2>5. AnswersAreRight'
    BY <1>0, <2>1, SameAnswers DEF HttpConnInv
  <2>6. ClosedReason'
    BY <1>0, <1>2, <2>2, <2>3 DEF ClosedReason
  <2> QED  BY <2>1, <2>4, <2>5, <2>6 DEF HttpConnInv, InProgress
<1>3. CASE ~(server = "http_conn" /\ Target = "empty")
  <2>1. PICK code : code = RequestCode /\ Reply(code)
    BY <1>3, Zenon DEF DoRequest
  <2>2. ASSUME NEW r, InParser(r), ~early
        PROVE  /\ code = Expected(r)
               /\ linger <=> Keeps(r) /\ r.line # "bad"
               /\ linger => wire = <<>> /\ rest = <<>>
    <3>1. /\ WellFormed(r) /\ r.line \in Targets /\ (linger <=> Keeps(r))
          /\ linger => wire = <<>> /\ rest = <<>>
      BY <2>2
    <3>2. Target = r.line /\ server \in {"http_conn", "one_buffer"}
      BY <1>1, <2>2 DEF HttpConnInv, HttpTypes
    <3>3. r.line # "bad"
      BY <3>1 DEF Targets
    <3>4. code = Expected(r)
      <4>1. CASE server = "one_buffer"
        BY <2>1, <3>1, <3>3, <4>1, Zenon DEF Expected, RequestCode
      <4>2. CASE server = "http_conn"
        <5>1. r.line \in {"file", "missing", "forbidden", "dir"} /\ server # "one_buffer"
          BY <1>3, <3>1, <3>2, <4>2 DEF Targets
        <5>2. code = CASE r.line = "file" -> "200"
                       [] r.line = "missing" -> "404"
                       [] r.line = "forbidden" -> "403"
                       [] r.line = "dir" -> "400"
          BY <2>1, <3>2, <5>1, Zenon DEF RequestCode
        <5> QED  BY <3>1, <5>1, <5>2 DEF Expected
      <4> QED  BY <3>2, <4>1, <4>2
    <3> QED  BY <3>1, <3>3, <3>4
  <2> QED  BY <2>1, <2>2, Replies
<1> QED  BY <1>2, <1>3

\* parse_content, wherever the mark of the line parser is in the content.
LEMMA ContentKeeps ==
  ASSUME HttpConnInv, hpc = "parse", NEW f, ParseContent(f), Outside,
         UNCHANGED <<chk_state, content_length, linger>>, chk' = f, chk_state = "content",
         \A r : InParser(r) /\ ~early =>
                  WellFormed(r) /\ r.line \in Targets /\ InContent(r, f)
  PROVE  HttpConnInv'
<1>1. ASSUME NEW r, InParser(r), ~early
      PROVE  /\ WellFormed(r) /\ r.line \in Targets /\ InContent(r, f) /\ AtContent(r)
             /\ content_length = 2 /\ Len(Tokens(r)) = HeadLen(r) + 2 /\ (linger <=> Keeps(r))
             /\ Len(buf) \in Nat /\ HeadLen(r) \in Nat /\ f \in Nat /\ HeadLen(r) <= f
             /\ server = "http_conn"
  <2>1. WellFormed(r) /\ r.line \in Targets /\ InContent(r, f)
    BY <1>1
  <2>2. AtContent(r)
    BY <2>1 DEF InContent
  <2>3. IsRequest(r) /\ IsText(r, Tokens(r)) /\ InBuffer(r, Len(buf), Tokens(r))
    BY <1>1, WordsRead DEF InParser
  <2>4. content_length = 2 /\ Seen(r, Len(r.headers))
    BY <2>2 DEF AtContent
  <2>5. Len(r.content) = 2 /\ (linger <=> Keeps(r)) /\ server = "http_conn"
    <3>1. /\ Keeps(r) <=> server = "http_conn" /\ SeenOf(r, Len(r.headers), "keep")
          /\ Len(r.content) = IF SeenOf(r, Len(r.headers), "len2") THEN 2 ELSE 0
      BY <2>3, KeepsIs
    <3>2. server = "http_conn" /\ SeenOf(r, Len(r.headers), "len2")
      BY <2>4 DEF Seen
    <3> QED  BY <2>4, <3>1, <3>2 DEF Seen
  <2>6. Len(Tokens(r)) = HeadLen(r) + 2 /\ HeadLen(r) \in Nat /\ Len(buf) \in Nat
    BY <2>3, <2>5 DEF IsText, InBuffer
  <2>7. f \in Nat /\ HeadLen(r) <= f
    BY <2>1 DEF InContent
  <2> QED  BY <2>1, <2>2, <2>4, <2>5, <2>6, <2>7, Zenon
<1>2. CASE Len(buf) >= content_length + f
  <2>1. DoRequest
    BY <1>2 DEF ParseContent
  <2>2. ASSUME NEW r, InParser(r), ~early
        PROVE  /\ WellFormed(r) /\ r.line \in Targets /\ (linger <=> Keeps(r))
               /\ linger => wire = <<>> /\ rest = <<>>
    <3>1. Len(buf) >= Len(Tokens(r))
      BY <1>1, <1>2, <2>2
    <3> QED  BY <1>1, <2>2, <3>1, AllRead
  <2> QED  BY <2>1, <2>2, Requests
<1>3. CASE ~(Len(buf) >= content_length + f)
  <2>1. /\ hpc' = "parse" /\ UNCHANGED <<answer, have, got, answers>> /\ line_status' = "open"
        /\ UNCHANGED <<server, bodyCut, buf>>
    BY <1>3 DEF ParseContent, GoOn, writeVars, Outside
  <2>2. ASSUME NEW r, InParser(r), ~early PROVE ParserAt(r)' /\ Parsing(r)'
    <3>1. NotAll(r)
      <4>1. CASE f > HeadLen(r)
        BY <1>1, <2>2, <4>1 DEF InContent, NotAll
      <4>2. CASE ~(f > HeadLen(r))
        BY <1>1, <1>3, <2>2, <4>2 DEF NotAll
      <4> QED  BY <4>1, <4>2
    <3>2. AtContent(r)'
      <4>1. Seen(r, Len(r.headers)) /\ content_length = 2 /\ (f > HeadLen(r) => bodyCut)
        BY <1>1, <2>2 DEF AtContent, InContent
      <4> QED  BY <1>1, <2>1, <2>2, <4>1 DEF AtContent, Seen
    <3>3. ParserAt(r)'
      BY <1>1, <2>1, <2>2, <3>2 DEF ParserAt, InContent
    <3>4. Len(buf) >= 1
      BY <2>2 DEF InParser, Parsing
    <3> QED  BY <2>1, <3>1, <3>3, <3>4 DEF Parsing, NotAll
  <2>3. linger' \in BOOLEAN
    BY DEF HttpConnInv, HttpTypes
  <2> QED  BY <2>1, <2>2, <2>3, GoesOn
<1> QED  BY <1>2, <1>3

\* The content is looked for where the blank line ended.
LEMMA ParseBodyKeeps == ASSUME HttpConnInv, ParseBody PROVE HttpConnInv'
<1>1. /\ hpc = "parse" /\ ContentDirectly /\ ParseContent(chk) /\ Outside
      /\ UNCHANGED <<chk, chk_state, content_length, linger>>
  BY DEF ParseBody, ParseStep, Outside, askingVars
<1>2. PICK f : f = chk
  OBVIOUS
<1>3. chk_state = "content"
  BY <1>1 DEF ContentDirectly
<1>4. ASSUME NEW r, InParser(r), ~early
      PROVE  WellFormed(r) /\ r.line \in Targets /\ InContent(r, f)
  <2>1. WellFormed(r) /\ r.line \in Targets /\ AtContent(r) /\ chk <= Len(buf)
    BY <1>3, <1>4 DEF InParser, ParserAt, AtLine, AtHeader
  <2> QED  BY <1>2, <2>1 DEF InContent, AtContent
<1> QED  BY <1>1, <1>2, <1>3, <1>4, ContentKeeps

\* A line has been found: the request line, a header, or the blank line.
LEMMA ParseLineKeeps == ASSUME HttpConnInv, ParseLine PROVE HttpConnInv'
<1>1. PICK f : f = LineFound.chk
  OBVIOUS
<1>2. PICK txt : txt = SubSeq(buf, start + 1, LineFound.chk - 2)
  OBVIOUS
<1>3. /\ hpc = "parse" /\ Outside /\ ~ContentDirectly /\ LineFound.status = "ok"
      /\ chk' = f /\ start' = f
  BY <1>1 DEF ParseLine, ParseStep, Outside, askingVars
<1>4. UNCHANGED <<server, bodyCut, buf>>
  BY <1>3 DEF Outside
<1>5. ASSUME NEW r, InParser(r)
      PROVE  LineIs(r, f, txt) /\ IsRequest(r) /\ Len(r.headers) \in Nat /\ HeadLen(r) \in Nat
  <2>1. LineIs(r, f, txt)
    BY <1>1, <1>2, <1>3, <1>5, WhenFound
  <2>2. IsRequest(r) /\ IsText(r, Tokens(r))
    BY <1>5 DEF InParser
  <2> QED  BY <2>1, <2>2, RequestIs DEF IsText
<1>6. ASSUME NEW r, InParser(r) PROVE Len(buf) >= 1
  BY <1>6 DEF InParser, Parsing
<1>7. linger \in BOOLEAN
  BY DEF HttpConnInv, HttpTypes
<1>8. CASE /\ chk_state = "line"
           /\ IF txt # <<>> /\ txt[1] \in Targets
              THEN GoOn /\ chk_state' = "header"
              ELSE Reply("400") /\ UNCHANGED chk_state
           /\ line_status' = "ok"
           /\ UNCHANGED <<content_length, linger>>
  <2>1. ASSUME NEW r, InParser(r)
        PROVE  AtLine /\ WellFormed(r) /\ f = 3 /\ f <= Len(buf) /\ txt # <<>> /\ txt[1] = r.line
    BY <1>5, <1>8, <2>1 DEF LineIs, AtHeader, InContent, AtContent
  <2>2. CASE txt # <<>> /\ txt[1] \in Targets
    <3>1. hpc' = "parse" /\ chk_state' = "header" /\ UNCHANGED <<answer, have, got, answers>>
      BY <1>8, <2>2 DEF GoOn, writeVars
    <3>2. ASSUME NEW r, InParser(r) PROVE ParserAt(r)' /\ Parsing(r)'
      <4>1. linger' = FALSE /\ content_length' = 0
        BY <1>7, <1>8, <2>1, <3>2 DEF AtLine
      <4>2. ~SeenOf(r, 0, "keep") /\ ~SeenOf(r, 0, "len2")
        BY DEF SeenOf
      <4>3. AtHeader(r, 0)'
        BY <1>3, <2>1, <3>1, <3>2, <4>1, <4>2 DEF AtHeader, Seen
      <4>4. 0 \in 0..Len(r.headers) /\ WellFormed(r) /\ r.line \in Targets
        BY <1>5, <2>1, <2>2, <3>2
      <4>5. ParserAt(r)'
        BY <1>3, <1>4, <2>1, <3>2, <4>3, <4>4 DEF ParserAt
      <4> QED  BY <1>4, <1>6, <1>8, <3>2, <4>5 DEF Parsing
    <3> QED  BY <1>3, <1>7, <1>8, <3>1, <3>2, GoesOn
  <2>3. CASE ~(txt # <<>> /\ txt[1] \in Targets)
    <3>1. Reply("400") /\ UNCHANGED linger
      BY <1>8, <2>3
    <3>2. ASSUME NEW r, InParser(r)
          PROVE  /\ "400" = Expected(r)
                 /\ linger <=> Keeps(r) /\ r.line # "bad"
                 /\ linger => wire = <<>> /\ rest = <<>>
      <4>1. r.line = "bad"
        BY <1>5, <2>1, <2>3, <3>2 DEF IsRequest
      <4> QED  BY <1>7, <2>1, <3>2, <4>1 DEF Expected, AtLine
    <3> QED  BY <1>3, <3>1, <3>2, Replies
  <2> QED  BY <2>2, <2>3
<1>9. CASE /\ chk_state = "header" /\ txt = <<>>
           /\ IF content_length # 0 THEN GoOn /\ chk_state' = "content"
                                    ELSE DoRequest /\ UNCHANGED chk_state
           /\ line_status' = "ok"
           /\ UNCHANGED <<content_length, linger>>
  <2>1. ASSUME NEW r, InParser(r)
        PROVE  /\ WellFormed(r) /\ r.line \in Targets /\ f <= Len(buf)
               /\ AtHeader(r, Len(r.headers)) /\ f = HeadLen(r)
    BY <1>5, <1>9, <2>1 DEF LineIs, AtLine, InContent, AtContent
  <2>2. CASE content_length # 0
    <3>1. hpc' = "parse" /\ chk_state' = "content" /\ UNCHANGED <<answer, have, got, answers>>
      BY <1>9, <2>2 DEF GoOn, writeVars
    <3>2. ASSUME NEW r, InParser(r) PROVE ParserAt(r)' /\ Parsing(r)'
      <4>1. Seen(r, Len(r.headers))
        BY <2>1, <3>2 DEF AtHeader
      <4>2. content_length = 2
        BY <2>2, <4>1 DEF Seen
      <4>3. f \in Nat /\ HeadLen(r) <= f /\ ~(f > HeadLen(r))
        BY <1>5, <2>1, <3>2
      <4>4. AtContent(r)'
        BY <1>3, <1>4, <1>9, <3>1, <4>1, <4>2, <4>3 DEF AtContent, Seen
      <4>5. ParserAt(r)'
        BY <1>3, <1>4, <2>1, <3>2, <4>4 DEF ParserAt
      <4> QED  BY <1>4, <1>6, <1>9, <3>2, <4>5 DEF Parsing
    <3> QED  BY <1>3, <1>7, <1>9, <3>1, <3>2, GoesOn
  <2>3. CASE content_length = 0
    <3>1. DoRequest /\ UNCHANGED linger
      BY <1>9, <2>3
    <3>2. ASSUME NEW r, InParser(r)
          PROVE  /\ WellFormed(r) /\ r.line \in Targets /\ (linger <=> Keeps(r))
                 /\ linger => wire = <<>> /\ rest = <<>>
      <4>1. Seen(r, Len(r.headers))
        BY <2>1, <3>2 DEF AtHeader
      <4>2. /\ Keeps(r) <=> server = "http_conn" /\ SeenOf(r, Len(r.headers), "keep")
            /\ Len(r.content) = IF SeenOf(r, Len(r.headers), "len2") THEN 2 ELSE 0
        BY <1>5, <3>2, KeepsIs
      <4>3. linger <=> Keeps(r)
        BY <4>1, <4>2 DEF Seen
      <4>4. ASSUME linger PROVE wire = <<>> /\ rest = <<>>
        <5>1. server = "http_conn"
          BY <4>1, <4>4 DEF Seen
        <5>2. Len(r.content) = 0
          BY <2>3, <4>1, <4>2, <5>1 DEF Seen
        <5>3. IsText(r, Tokens(r)) /\ f <= Len(buf) /\ f = HeadLen(r)
          BY <2>1, <3>2 DEF InParser
        <5>4. Len(buf) >= Len(Tokens(r))
          BY <1>5, <3>2, <5>2, <5>3 DEF IsText
        <5> QED  BY <3>2, <5>4, AllRead
      <4> QED  BY <2>1, <3>2, <4>3, <4>4
    <3> QED  BY <1>3, <3>1, <3>2, Requests
  <2> QED  BY <2>2, <2>3
<1>10. CASE /\ chk_state = "header" /\ txt # <<>>
            /\ linger' = (linger \/ (txt[1] = "keep" /\ server = "http_conn"))
            /\ content_length' = IF txt[1] = "len2" /\ server = "http_conn"
                                 THEN 2 ELSE content_length
            /\ GoOn /\ line_status' = "ok"
            /\ UNCHANGED chk_state
  <2>1. hpc' = "parse" /\ chk_state' = "header" /\ UNCHANGED <<answer, have, got, answers>>
    BY <1>10 DEF GoOn, writeVars
  <2>2. ASSUME NEW r, InParser(r) PROVE ParserAt(r)' /\ Parsing(r)'
    <3>1. /\ WellFormed(r) /\ r.line \in Targets /\ f <= Len(buf)
          /\ \E k \in 0..Len(r.headers) - 1 :
               AtHeader(r, k) /\ f = 3 + 3 * (k + 1) /\ txt[1] = r.headers[k + 1]
      BY <1>5, <1>10, <2>2 DEF LineIs, AtLine, InContent, AtContent
    <3>2. PICK k \in 0..Len(r.headers) - 1 :
            AtHeader(r, k) /\ f = 3 + 3 * (k + 1) /\ txt[1] = r.headers[k + 1]
      BY <3>1
    <3>3. k \in Nat /\ k + 1 \in 0..Len(r.headers)
      BY <1>5, <2>2, <3>2
    <3>4. \A h : SeenOf(r, k + 1, h) <=> SeenOf(r, k, h) \/ r.headers[k + 1] = h
      <4>1. \A i : i \in 1..k + 1 <=> i \in 1..k \/ i = k + 1
        BY <3>3
      <4> QED  BY <4>1 DEF SeenOf
    <3>5. Seen(r, k)
      BY <3>2 DEF AtHeader
    <3>6. linger' <=> server = "http_conn" /\ SeenOf(r, k + 1, "keep")
      BY <1>7, <1>10, <3>2, <3>4, <3>5 DEF Seen
    <3>7. content_length' = IF server = "http_conn" /\ SeenOf(r, k + 1, "len2") THEN 2 ELSE 0
      BY <1>10, <3>2, <3>4, <3>5 DEF Seen
    <3>8. AtHeader(r, k + 1)'
      BY <1>3, <1>4, <2>1, <3>2, <3>6, <3>7 DEF AtHeader, Seen
    <3>9. ParserAt(r)'
      BY <1>3, <1>4, <3>1, <3>3, <3>8 DEF ParserAt
    <3> QED  BY <1>4, <1>6, <1>10, <2>2, <3>9 DEF Parsing
  <2>3. linger' \in BOOLEAN
    BY <1>7, <1>10
  <2> QED  BY <1>3, <2>1, <2>2, <2>3, GoesOn
<1>11. CASE /\ chk_state = "content" /\ ParseContent(f)
            /\ UNCHANGED <<chk_state, content_length, linger>>
  <2>1. ASSUME NEW r, InParser(r)
        PROVE  WellFormed(r) /\ r.line \in Targets /\ InContent(r, f)
    BY <1>5, <1>11, <2>1 DEF LineIs, AtLine, AtHeader
  <2> QED  BY <1>3, <1>11, <2>1, ContentKeeps
<1> QED  BY <1>1, <1>2, <1>8, <1>9, <1>10, <1>11 DEF ParseLine

\* No line has been found: more is read, or the request is refused.
LEMMA ParseMoreKeeps == ASSUME HttpConnInv, ParseMore PROVE HttpConnInv'
<1>1. PICK f : f = LineFound.chk
  OBVIOUS
<1>2. /\ hpc = "parse" /\ Outside /\ ~ContentDirectly /\ LineFound.status # "ok"
      /\ chk' = f
      /\ IF LineFound.status = "bad" /\ server = "one_buffer" THEN Reply("400")
         ELSE hpc' = "read" /\ UNCHANGED <<writeVars, answers>>
      /\ UNCHANGED <<buf, start, chk_state, content_length, linger, line_status>>
  BY <1>1 DEF ParseMore, ParseStep, Outside, askingVars
<1>3. UNCHANGED <<server, bodyCut>>
  BY <1>2 DEF Outside
<1>4. ASSUME NEW r, InParser(r)
      PROVE  f <= Len(buf) /\ LineIsNot(r, f, LineFound.status)
  BY <1>1, <1>2, <1>4, WhenNotFound
<1>5. linger \in BOOLEAN /\ server \in {"http_conn", "one_buffer"}
  BY DEF HttpConnInv, HttpTypes
<1>6. CASE LineFound.status = "bad" /\ server = "one_buffer"
  <2>1. Reply("400") /\ UNCHANGED linger
    BY <1>2, <1>6
  <2>2. ASSUME NEW r, InParser(r)
        PROVE  /\ "400" = Expected(r)
               /\ linger <=> Keeps(r) /\ r.line # "bad"
               /\ linger => wire = <<>> /\ rest = <<>>
    <3>1. ~InContent(r, f)
      BY <1>6 DEF InContent, AtContent, Seen
    <3>2. AtLine /\ ~WellFormed(r)
      BY <1>4, <1>6, <2>2, <3>1 DEF LineIsNot
    <3> QED  BY <1>5, <1>6, <3>2 DEF Expected, AtLine, Keeps
  <2> QED  BY <1>2, <2>1, <2>2, Replies
<1>7. CASE ~(LineFound.status = "bad" /\ server = "one_buffer")
  <2>1. hpc' = "read" /\ UNCHANGED <<answer, have, got, answers>>
    BY <1>2, <1>7 DEF writeVars
  <2>2. ASSUME NEW r, InParser(r) PROVE ParserAt(r)' /\ Reading(r)'
    <3>1. f <= Len(buf) /\ NotAll(r)' = NotAll(r) /\ Reading(r)' = Reading(r)
      BY <1>2, <1>3, <1>4, <2>2 DEF NotAll, Reading
    <3>2. CASE AtLine /\ f = 1 /\ (NotAll(r) \/ (LineFound.status = "bad" /\ ~WellFormed(r)))
      <4>1. AtLine'
        BY <1>2, <3>2 DEF AtLine
      <4>2. ParserAt(r)'
        BY <1>2, <3>1, <4>1 DEF ParserAt
      <4>3. Reading(r)
        BY <1>5, <1>7, <3>2 DEF Reading
      <4> QED  BY <3>1, <4>2, <4>3
    <3>3. ASSUME WellFormed(r), r.line \in Targets, NotAll(r), NEW k \in 0..Len(r.headers),
                 AtHeader(r, k), f = start \/ (f = start + 1 /\ k < Len(r.headers))
          PROVE  ParserAt(r)' /\ Reading(r)'
      <4>1. AtHeader(r, k)'
        BY <1>2, <1>3, <3>3 DEF AtHeader, Seen
      <4>2. ParserAt(r)'
        BY <1>2, <3>1, <3>3, <4>1 DEF ParserAt
      <4>3. Reading(r)
        BY <3>3 DEF Reading
      <4> QED  BY <3>1, <4>2, <4>3
    <3>4. CASE WellFormed(r) /\ r.line \in Targets /\ InContent(r, f) /\ NotAll(r)
      <4>1. AtContent(r)'
        BY <1>2, <1>3, <3>4 DEF InContent, AtContent, Seen
      <4>2. ParserAt(r)'
        BY <1>2, <3>1, <3>4, <4>1 DEF ParserAt
      <4>3. Reading(r)
        BY <3>4 DEF Reading
      <4> QED  BY <3>1, <4>2, <4>3
    <3> QED  BY <1>4, <2>2, <3>2, <3>3, <3>4 DEF LineIsNot
  <2>3. linger' \in BOOLEAN
    BY <1>2, <1>5
  <2> QED  BY <1>2, <2>1, <2>2, <2>3, GoesOn
<1> QED  BY <1>6, <1>7

\* Every step keeps the invariant.
LEMMA HttpConnInvariant == HttpConnInv /\ [HttpConnNext]_httpConnVars => HttpConnInv'
<1> SUFFICES ASSUME HttpConnInv, [HttpConnNext]_httpConnVars PROVE HttpConnInv'
  OBVIOUS
<1>1. CASE HttpConnNext
  BY <1>1, SendsKeeps, ReadFullKeeps, RecvKeeps, ParseBodyKeeps, ParseLineKeeps,
     ParseMoreKeeps, WriteSomeKeeps, WriteEndKeeps, WriteFromStartKeeps
     DEF HttpConnNext, HttpConnStep
<1>2. CASE UNCHANGED httpConnVars
  <2>1. UNCHANGED <<server, asked, asking, rest, wire, buf, chk, start, chk_state,
                    content_length, linger, line_status, hpc, answer, have, got,
                    answers, early, bodyCut>>
    BY <1>2 DEF httpConnVars, askingVars, parserVars, writeVars
  <2>2. HttpTypes' /\ AnswerShape' /\ ClosedReason'
    BY <2>1 DEF HttpConnInv, HttpTypes, AnswerShape, ClosedReason, Unanswered
  <2>3. AnswersAreRight'
    BY <2>1, SameAnswers DEF HttpConnInv
  <2>4. Calm' <=> Calm
    BY <2>1 DEF Calm
  <2>5. ASSUME NEW r, r = Unanswered, Serving(r) PROVE Serving(r)' /\ r = Unanswered'
    <3>1. InFlight(r)' <=> InFlight(r)
      BY <2>1 DEF InFlight
    <3>2. ParserAt(r) => ParserAt(r)'
      BY <2>1, SameParser
    <3>3. (Reading(r)' <=> Reading(r)) /\ (Parsing(r)' <=> Parsing(r))
      BY <2>1 DEF Reading, Parsing, NotAll
    <3>4. Answering(r)' <=> Answering(r)
      <4>1. \A q : (Expected(q)' = Expected(q)) /\ (Keeps(q)' <=> Keeps(q))
        BY <2>1 DEF Expected, Keeps
      <4> QED  BY <2>1, <4>1 DEF Answering
    <3> QED  BY <2>1, <2>5, <3>1, <3>2, <3>3, <3>4 DEF Serving, Unanswered
  <2>6. InProgress'
    <3>1. Serving(Unanswered) => Serving(Unanswered)'
      <4>1. PICK r : r = Unanswered
        OBVIOUS
      <4> QED  BY <2>5, <4>1
    <3> QED  BY <2>1, <2>4, <3>1 DEF HttpConnInv, InProgress
  <2> QED  BY <2>2, <2>3, <2>6 DEF HttpConnInv
<1> QED  BY <1>1, <1>2

\* What the invariant says of a client that has no answer.
LEMMA ReasonIs == HttpConnInv => UnansweredHasReason
<1> SUFFICES ASSUME HttpConnInv, Len(answers) < Len(asked), hpc = "read",
                    wire = <<>>, rest = <<>>, asking > Len(answers), ~early
             PROVE  bodyCut \/ (server = "http_conn" /\ ~WellFormed(Unanswered))
  BY DEF UnansweredHasReason, HttpConnInv, ClosedReason
<1>1. ~Calm
  <2>1. Len(answers) \in Nat
    BY LenOf DEF HttpConnInv, HttpTypes
  <2> QED  BY <2>1 DEF Calm
<1>2. Serving(Unanswered)
  BY <1>1 DEF HttpConnInv, InProgress
<1>3. Reading(Unanswered) /\ Len(buf) + Len(wire) + Len(rest) = Len(Tokens(Unanswered))
  BY <1>2 DEF Serving, InFlight
<1>4. Len(wire) = 0 /\ Len(rest) = 0 /\ Len(buf) \in Nat
  BY LenOf, ShortOnes DEF HttpConnInv, HttpTypes
<1>5. ~(Len(buf) < Len(Tokens(Unanswered)))
  BY <1>3, <1>4
<1> QED  BY <1>3, <1>5 DEF Reading, NotAll

(***************************************************************************)
(* For any session and any cut of it by the network, each request is       *)
(* answered with what it asks for and kept or closed as it says, unless    *)
(* the client asked again too early; and a client that has its answer in   *)
(* one call of writev has all of it (process_read and write of http_conn). *)
(***************************************************************************)
THEOREM EveryAnswerIsRight == HttpConnSpec => []AnswersAreRight
<1>1. HttpConnInv => AnswersAreRight
  BY DEF HttpConnInv
<1> QED  BY <1>1, HttpInitial, HttpConnInvariant, PTL DEF HttpConnSpec

(***************************************************************************)
(* For any session and any cut of it, a client that waits although all it  *)
(* sent has been read, and one whose connection is closed, has one of the  *)
(* reasons the property names.                                             *)
(***************************************************************************)
THEOREM NoAnswerHasReason == HttpConnSpec => []UnansweredHasReason
<1> QED  BY ReasonIs, HttpInitial, HttpConnInvariant, PTL DEF HttpConnSpec
=============================================================================
