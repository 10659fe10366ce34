----------------------------- MODULE HttpServer -----------------------------
(***************************************************************************)
(* The half-sync/half-reactor HTTP server of 85_process_pool_thread_pool:  *)
(* the main thread of http_conn_test (main.cpp) accepts, reads and writes; *)
(* the workers of the thread pool run http_conn::process (http_conn.h).    *)
(* They share the array users[], indexed by descriptor, and the epoll      *)
(* table, where EPOLLONESHOT is meant to give a connection one owner.      *)
(*                                                                         *)
(* The pool is used through its specification, WorkQueue.  The contents of *)
(* requests and answers are abstracted to what the control depends on.     *)
(***************************************************************************)
EXTENDS Integers, Sequences, FiniteSets

CONSTANTS
    Clients,    \* each connects once
    Fds,        \* the descriptors accept can return, lowest free one first
    Workers,    \* threads of the pool
    MaxRequest, \* _max_request of the pool
    MaxFd,      \* MAX_FD
    Chunks,     \* bound: the pieces each client sends at most
    None

ASSUME ServerAssumption ==
    /\ Fds \subseteq Nat /\ IsFiniteSet(Fds) /\ IsFiniteSet(Workers)
    /\ None \notin Fds \cup Clients
    /\ MaxRequest \in Nat \ {0} /\ MaxFd \in Nat /\ Chunks \in [Clients -> Nat]

Listen == -2    \* the listening socket, in events
Closed == -1    \* the value of _fd once the connection is closed

VARIABLES
    \* the pool, as WorkQueue
    waiting, busy,
    \* the clients
    client,     \* "new", "backlog", "open", "gone"
    sent,       \* pieces sent so far
    expects,    \* TRUE from a complete request to its answer
    \* the kernel
    backlog,    \* the sockets of connections not accepted yet, oldest first
    arrived,    \* the listening socket has an edge epoll has not reported
    sock,       \* per descriptor: peer, inbox, eof, armed in epoll
    \* the main thread
    evs,        \* events of this epoll_wait not handled yet
    mpc,        \* "loop"; before add_fd2; with _user_cnt loaded and not stored
    mfd,        \* the connection being set up or closed
    mcnt,       \* the value of _user_cnt it has loaded
    \* the workers
    wpc, wcnt,
    \* users[] and http_conn::_user_cnt
    slot,       \* per descriptor: _fd, the read buffer, the reply, _linger
    userCnt,
    \* history: what the properties tell apart
    stranded,   \* connections whose append was refused
    raced       \* a descriptor was set up again inside a worker's close_conn

poolVars   == <<waiting, busy>>
clientVars == <<client, sent, expects>>
mainVars   == <<evs, mpc, mfd, mcnt>>
workerVars == <<wpc, wcnt>>
history    == <<stranded, raced>>
vars == <<poolVars, clientVars, backlog, arrived, sock, mainVars, workerVars,
          slot, userCnt, history>>

\* One more request than _max_request can wait, as in ThreadPool.
Pool == INSTANCE WorkQueue WITH Requests <- Fds, Nothing <- None,
                                Capacity <- MaxRequest + 1

Stream(c) == [peer |-> c, inbox |-> "none", eof |-> FALSE, armed |-> "absent"]
Free == Stream(None)
Fresh(f) == [fd |-> f, buf |-> "none", reply |-> FALSE, linger |-> FALSE]

\* what the kernel keeps of a connection ("absent": epoll has not been told of
\* it; "no": its one shot is spent), and the members of http_conn
Sockets == [peer : Clients \cup {None}, inbox : {"none", "part", "request"},
            eof : BOOLEAN, armed : {"absent", "no", "in", "out"}]
Waiters == {s \in Sockets : s.peer \in Clients /\ s.armed = "absent"}
Users   == [fd : Fds \cup {Closed}, buf : {"none", "part", "request"},
            reply : BOOLEAN, linger : BOOLEAN]

Events == [fd : Fds \cup {Listen}, hup : BOOLEAN, in : BOOLEAN]

TypeOK ==
    /\ waiting \in Seq(Fds)
    /\ busy \in [Workers -> Fds \cup {None}]
    /\ client \in [Clients -> {"new", "backlog", "open", "gone"}]
    /\ sent \in [Clients -> Nat]
    /\ expects \in [Clients -> BOOLEAN]
    /\ backlog \in Seq(Waiters)
    /\ arrived \in BOOLEAN
    /\ sock \in [Fds -> Sockets]
    /\ evs \subseteq Events
    /\ mpc \in {"loop", "add", "count", "uncount"}
    /\ mfd \in Fds \cup {None}
    /\ mcnt \in Int
    /\ wpc \in [Workers -> {"idle", "run", "in", "out", "remove", "clear",
                            "store"}]
    /\ wcnt \in [Workers -> Int]
    /\ slot \in [Fds -> Users]
    /\ userCnt \in Int
    /\ stranded \subseteq Fds
    /\ raced \in BOOLEAN

Init ==
    /\ Pool!Init
    /\ client = [c \in Clients |-> "new"]
    /\ sent = [c \in Clients |-> 0]
    /\ expects = [c \in Clients |-> FALSE]
    /\ backlog = <<>>
    /\ arrived = FALSE
    /\ sock = [f \in Fds |-> Free]
    /\ evs = {}
    /\ mpc = "loop"
    /\ mfd = None
    /\ mcnt = 0
    /\ wpc = [w \in Workers |-> "idle"]
    /\ wcnt = [w \in Workers |-> 0]
    /\ slot = [f \in Fds |-> Fresh(Closed)]
    /\ userCnt = 0
    /\ stranded = {}
    /\ raced = FALSE

-----------------------------------------------------------------------------
(***************************************************************************)
(* Clients.  A client sends a request in pieces, one at a time, and waits  *)
(* for the answer before the next request.  A "part" is any input on which *)
(* process_read returns NO_REQUEST: an incomplete request, or a bad line.  *)
(***************************************************************************)
Connect(c) ==
    /\ client[c] = "new"
    /\ client' = [client EXCEPT ![c] = "backlog"]
    /\ backlog' = Append(backlog, Stream(c))
    /\ arrived' = TRUE
    /\ UNCHANGED <<poolVars, sent, expects, sock, mainVars, workerVars, slot,
                   userCnt, history>>

\* c sends a piece on its socket s
Sends(c, s, piece) ==
    /\ s.peer = c /\ ~s.eof /\ s.inbox = "none"
    /\ ~expects[c] /\ sent[c] < Chunks[c]
    /\ sent' = [sent EXCEPT ![c] = @ + 1]
    /\ expects' = [expects EXCEPT ![c] = piece = "request"]

\* a client need not be accepted to send, nor to hang up
Send(c) ==
    /\ \E piece \in {"part", "request"} :
          \/ \E f \in Fds : /\ Sends(c, sock[f], piece)
                            /\ sock' = [sock EXCEPT ![f].inbox = piece]
                            /\ UNCHANGED backlog
          \/ \E i \in DOMAIN backlog :
                /\ Sends(c, backlog[i], piece)
                /\ backlog' = [backlog EXCEPT ![i].inbox = piece]
                /\ UNCHANGED sock
    /\ UNCHANGED <<poolVars, client, arrived, mainVars, workerVars, slot,
                   userCnt, history>>

HangUp(c) ==
    /\ \/ \E f \in Fds : /\ sock[f].peer = c /\ ~sock[f].eof
                         /\ sock' = [sock EXCEPT ![f].eof = TRUE]
                         /\ UNCHANGED backlog
       \/ \E i \in DOMAIN backlog :
             /\ backlog[i].peer = c /\ ~backlog[i].eof
             /\ backlog' = [backlog EXCEPT ![i].eof = TRUE]
             /\ UNCHANGED sock
    /\ expects' = [expects EXCEPT ![c] = FALSE]
    /\ UNCHANGED <<poolVars, client, sent, arrived, mainVars, workerVars, slot,
                   userCnt, history>>

-----------------------------------------------------------------------------
(***************************************************************************)
(* Descriptors.  Every operation on _fd = -1 fails with EBADF and changes  *)
(* nothing.                                                                *)
(***************************************************************************)
\* mod_fd2(_epfd, fd, ev): re-arms the one-shot registration, if there is one
Arm(s, fd, ev) ==
    IF fd \in Fds /\ s[fd].armed # "absent" THEN [s EXCEPT ![fd].armed = ev] ELSE s

\* remove_fd2: EPOLL_CTL_DEL and close; the peer sees the end of the stream
Shut(fd) ==
    LET c == sock[fd].peer
    IN  /\ sock' = [sock EXCEPT ![fd] = Free]
        /\ IF c = None
             THEN UNCHANGED <<client, expects>>
             ELSE /\ client' = [client EXCEPT ![c] = "gone"]
                  /\ expects' = [expects EXCEPT ![c] = FALSE]

-----------------------------------------------------------------------------
(***************************************************************************)
(* The main thread.                                                        *)
(***************************************************************************)
Ready(f) == \/ sock[f].armed = "in" /\ (sock[f].inbox # "none" \/ sock[f].eof)
            \/ sock[f].armed = "out"

ConnEvent(f) == [fd |-> f, hup |-> sock[f].eof, in |-> sock[f].armed = "in"]

ListenEvent == [fd |-> Listen, hup |-> FALSE, in |-> TRUE]

\* mutant: connections registered without EPOLLONESHOT
MainWaitNoOneShot ==
    /\ mpc = "loop" /\ evs = {}
    /\ LET ready == {f \in Fds : Ready(f)}
       IN  /\ ready # {} \/ arrived
           /\ evs' = {ConnEvent(f) : f \in ready}
                       \cup IF arrived THEN {ListenEvent} ELSE {}
    /\ arrived' = FALSE
    /\ UNCHANGED <<poolVars, clientVars, backlog, sock, mpc, mfd, mcnt,
                   workerVars, slot, userCnt, history>>

\* epoll_wait: the listening socket is edge-triggered, a connection one-shot
MainWait ==
    /\ mpc = "loop" /\ evs = {}
    /\ LET ready == {f \in Fds : Ready(f)}
       IN  /\ ready # {} \/ arrived
           /\ evs' = {ConnEvent(f) : f \in ready}
                       \cup IF arrived THEN {ListenEvent} ELSE {}
           /\ sock' = [f \in Fds |->
                         IF f \in ready THEN [sock[f] EXCEPT !.armed = "no"]
                                        ELSE sock[f]]
    /\ arrived' = FALSE
    /\ UNCHANGED <<poolVars, clientVars, backlog, mpc, mfd, mcnt, workerVars,
                   slot, userCnt, history>>

Handle(e) == mpc = "loop" /\ e \in evs /\ evs' = evs \ {e}

FreeFds == {f \in Fds : sock[f].peer = None}
Lowest(S) == CHOOSE f \in S : \A g \in S : f <= g

\* accept() fails, for instance when the process or the system has no descriptor
\* left: the connection stays in the backlog
AcceptFails ==
    /\ Handle(ListenEvent)
    /\ UNCHANGED <<poolVars, clientVars, backlog, arrived, sock, mpc, mfd,
                   mcnt, workerVars, slot, userCnt, history>>

\* _user_cnt >= MAX_FD: show_error closes the connection
AcceptBusy ==
    /\ Handle(ListenEvent)
    /\ FreeFds # {} /\ backlog # <<>>
    /\ userCnt >= MaxFd
    /\ client' = [client EXCEPT ![Head(backlog).peer] = "gone"]
    /\ expects' = [expects EXCEPT ![Head(backlog).peer] = FALSE]
    /\ backlog' = Tail(backlog)
    /\ UNCHANGED <<poolVars, sent, arrived, sock, mpc, mfd, mcnt, workerVars,
                   slot, userCnt, history>>

(***************************************************************************)
(* One accept for one event, however many connections are waiting; then    *)
(* init(fd, addr), of which this is the store of _fd.  What a worker does  *)
(* between accept and that store it may as well do before.                 *)
(***************************************************************************)
Accept ==
    /\ Handle(ListenEvent)
    /\ FreeFds # {} /\ backlog # <<>>
    /\ userCnt < MaxFd
    /\ LET f == Lowest(FreeFds)
       IN  /\ sock' = [sock EXCEPT ![f] = Head(backlog)]
           /\ slot' = [slot EXCEPT ![f].fd = f]
           /\ mfd' = f
           /\ raced' = (raced \/ \E w \in Workers : busy[w] = f)
    /\ mpc' = "add"
    /\ client' = [client EXCEPT ![Head(backlog).peer] = "open"]
    /\ backlog' = Tail(backlog)
    /\ UNCHANGED <<poolVars, sent, expects, arrived, mcnt, workerVars, userCnt,
                   stranded>>

\* add_fd2(_epfd, _fd, true), of what _fd is by now, and the load of _user_cnt++
InitAdd ==
    /\ mpc = "add"
    /\ sock' = IF slot[mfd].fd = Closed THEN sock
               ELSE [sock EXCEPT ![slot[mfd].fd].armed = "in"]
    /\ mcnt' = userCnt
    /\ mpc' = "count"
    /\ UNCHANGED <<poolVars, clientVars, backlog, arrived, evs, mfd, workerVars,
                   slot, userCnt, history>>

\* the store of _user_cnt++, then init()
InitCount ==
    /\ mpc = "count"
    /\ userCnt' = mcnt + 1
    /\ slot' = [slot EXCEPT ![mfd] = Fresh(@.fd)]
    /\ mpc' = "loop"
    /\ mfd' = None
    /\ mcnt' = 0
    /\ UNCHANGED <<poolVars, clientVars, backlog, arrived, sock, evs,
                   workerVars, history>>

\* mutant: _fd is cleared before remove_fd2 reads it
MainCloseLate(f) ==
    IF slot[f].fd = Closed
      THEN UNCHANGED <<client, expects, sock, slot, mpc, mfd, mcnt>>
      ELSE /\ slot' = [slot EXCEPT ![f].fd = Closed]
           /\ mcnt' = userCnt
           /\ mfd' = f
           /\ mpc' = "uncount"
           /\ UNCHANGED <<client, expects, sock>>

\* mutant: a connection the main thread closes is not counted off
MainCloseUncounted(f) ==
    IF slot[f].fd = Closed
      THEN UNCHANGED <<client, expects, sock, slot, mpc, mfd, mcnt>>
      ELSE /\ Shut(slot[f].fd)
           /\ slot' = [slot EXCEPT ![f].fd = Closed]
           /\ UNCHANGED <<mpc, mfd, mcnt>>

\* close_conn() up to the load of _user_cnt--; nothing if _fd is -1 already
MainClose(f) ==
    IF slot[f].fd = Closed
      THEN UNCHANGED <<client, expects, sock, slot, mpc, mfd, mcnt>>
      ELSE /\ Shut(slot[f].fd)
           /\ slot' = [slot EXCEPT ![f].fd = Closed]
           /\ mcnt' = userCnt
           /\ mfd' = f
           /\ mpc' = "uncount"

CloseCount ==
    /\ mpc = "uncount"
    /\ userCnt' = mcnt - 1
    /\ mpc' = "loop"
    /\ mfd' = None
    /\ mcnt' = 0
    /\ UNCHANGED <<poolVars, clientVars, backlog, arrived, sock, evs,
                   workerVars, slot, history>>

\* EPOLLRDHUP, EPOLLHUP, EPOLLERR
OnHangUp(e) ==
    /\ e.fd \in Fds /\ e.hup
    /\ Handle(e)
    /\ MainClose(e.fd)
    /\ UNCHANGED <<poolVars, sent, backlog, arrived, workerVars, userCnt,
                   history>>

\* mutant: no else, the connection is closed and appended all the same
ReadFailsAppends(e) ==
    /\ e.fd \in Fds /\ ~e.hup /\ e.in
    /\ Handle(e)
    /\ MainClose(e.fd)
    /\ Pool!Append1(e.fd)
    /\ UNCHANGED <<sent, backlog, arrived, workerVars, userCnt, history>>

(***************************************************************************)
(* read() drains the socket.  It fails if the peer has closed, if the      *)
(* descriptor is bad, or if the data fills the buffer.                     *)
(***************************************************************************)
ReadFails(e) ==
    /\ e.fd \in Fds /\ ~e.hup /\ e.in
    /\ Handle(e)
    /\ MainClose(e.fd)
    /\ UNCHANGED <<poolVars, sent, backlog, arrived, workerVars, userCnt,
                   history>>

\* a piece added to the read buffer completes a request, or not
Joined(buf, inbox) == IF "request" \in {buf, inbox} THEN "request"
                      ELSE IF "part" \in {buf, inbox} THEN "part"
                      ELSE "none"

ReadSucceeds(e) ==
    /\ e.fd \in Fds /\ ~e.hup /\ e.in
    /\ Handle(e)
    /\ slot[e.fd].fd = e.fd
    /\ ~sock[e.fd].eof
    /\ slot' = [slot EXCEPT ![e.fd].buf = Joined(@, sock[e.fd].inbox)]
    /\ sock' = [sock EXCEPT ![e.fd].inbox = "none"]

\* the value of append() is not looked at
ReadAppend(e) ==
    /\ ReadSucceeds(e)
    /\ Pool!Append1(e.fd)
    /\ UNCHANGED <<clientVars, backlog, arrived, mpc, mfd, mcnt, workerVars,
                   userCnt, history>>

ReadRefused(e) ==
    /\ ReadSucceeds(e)
    /\ Pool!Refuse
    /\ stranded' = stranded \cup {e.fd}
    /\ UNCHANGED <<clientVars, backlog, arrived, mpc, mfd, mcnt, workerVars,
                   userCnt, raced>>

(***************************************************************************)
(* write()                                                                 *)
(***************************************************************************)
OnWritable(e) == e.fd \in Fds /\ ~e.hup /\ ~e.in /\ Handle(e)

\* _write_idx = 0: back to reading
WriteNothing(e) ==
    /\ OnWritable(e)
    /\ ~slot[e.fd].reply
    /\ sock' = Arm(sock, slot[e.fd].fd, "in")
    /\ slot' = [slot EXCEPT ![e.fd] = Fresh(@.fd)]
    /\ UNCHANGED <<poolVars, clientVars, backlog, arrived, mpc, mfd, mcnt,
                   workerVars, userCnt, history>>

\* mutant: EAGAIN without mod_fd2
WriteAgainForgets(e) ==
    /\ OnWritable(e)
    /\ slot[e.fd].reply /\ slot[e.fd].fd = e.fd
    /\ UNCHANGED <<poolVars, clientVars, backlog, arrived, sock, mpc, mfd,
                   mcnt, workerVars, slot, userCnt, history>>

WriteAgain(e) ==
    /\ OnWritable(e)
    /\ slot[e.fd].reply /\ slot[e.fd].fd = e.fd
    /\ sock' = Arm(sock, e.fd, "out")
    /\ UNCHANGED <<poolVars, clientVars, backlog, arrived, mpc, mfd, mcnt,
                   workerVars, slot, userCnt, history>>

WriteFails(e) ==
    /\ OnWritable(e)
    /\ slot[e.fd].reply
    /\ MainClose(e.fd)
    /\ UNCHANGED <<poolVars, sent, backlog, arrived, workerVars, userCnt,
                   history>>

\* the answer is out: keep the connection, or close it (after a mod_fd2 that
\* nobody sees, as only the main thread waits in epoll)
WriteDone(e) ==
    /\ OnWritable(e)
    /\ slot[e.fd].reply /\ slot[e.fd].fd = e.fd
    /\ IF slot[e.fd].linger
         THEN /\ slot' = [slot EXCEPT ![e.fd] = Fresh(@.fd)]
              /\ sock' = Arm(sock, e.fd, "in")
              /\ expects' = [c \in Clients |->
                               expects[c] /\ sock[e.fd].peer # c]
              /\ UNCHANGED <<client, mpc, mfd, mcnt>>
         ELSE MainClose(e.fd)
    /\ UNCHANGED <<poolVars, sent, backlog, arrived, workerVars, userCnt,
                   history>>

MainStep ==
    \/ MainWait
    \/ AcceptFails \/ AcceptBusy \/ Accept
    \/ InitAdd \/ InitCount \/ CloseCount
    \/ \E e \in evs :
         \/ OnHangUp(e)
         \/ ReadFails(e) \/ ReadAppend(e) \/ ReadRefused(e)
         \/ WriteNothing(e) \/ WriteAgain(e) \/ WriteFails(e) \/ WriteDone(e)

-----------------------------------------------------------------------------
(***************************************************************************)
(* The workers: http_conn::process() on the slot taken from the pool.      *)
(***************************************************************************)
TakeConn(w) ==
    /\ wpc[w] = "idle"
    /\ Pool!Take(w)
    /\ wpc' = [wpc EXCEPT ![w] = "run"]
    /\ UNCHANGED <<clientVars, backlog, arrived, sock, mainVars, wcnt, slot,
                   userCnt, history>>

(***************************************************************************)
(* process_read and process_write, on the slot alone.  process_write fails *)
(* for an empty file: case FILE_REQUEST falls through to default.          *)
(***************************************************************************)
ProcessIncomplete(w) ==
    /\ wpc[w] = "run"
    /\ slot[busy[w]].buf # "request"
    /\ wpc' = [wpc EXCEPT ![w] = "in"]
    /\ UNCHANGED <<poolVars, clientVars, backlog, arrived, sock, mainVars,
                   wcnt, slot, userCnt, history>>

ProcessRequest(w) ==
    /\ wpc[w] = "run"
    /\ slot[busy[w]].buf = "request"
    /\ \E linger \in BOOLEAN, answer \in {"page", "error", "emptyFile"} :
          /\ slot' = [slot EXCEPT ![busy[w]].reply = TRUE,
                                  ![busy[w]].linger = linger]
          /\ wpc' = [wpc EXCEPT ![w] = IF answer = "emptyFile" THEN "remove"
                                                               ELSE "out"]
    /\ UNCHANGED <<poolVars, clientVars, backlog, arrived, sock, mainVars,
                   wcnt, userCnt, history>>

\* close_conn(): remove_fd2; _fd = -1 and the load of _user_cnt--; the store
CloseRemove(w) ==
    /\ wpc[w] = "remove"
    /\ IF slot[busy[w]].fd = Closed
         THEN /\ wpc' = [wpc EXCEPT ![w] = "out"]
              /\ UNCHANGED <<client, expects, sock>>
         ELSE /\ Shut(slot[busy[w]].fd)
              /\ wpc' = [wpc EXCEPT ![w] = "clear"]
    /\ UNCHANGED <<poolVars, sent, backlog, arrived, mainVars, wcnt, slot,
                   userCnt, history>>

CloseClear(w) ==
    /\ wpc[w] = "clear"
    /\ slot' = [slot EXCEPT ![busy[w]].fd = Closed]
    /\ wcnt' = [wcnt EXCEPT ![w] = userCnt]
    /\ wpc' = [wpc EXCEPT ![w] = "store"]
    /\ UNCHANGED <<poolVars, clientVars, backlog, arrived, sock, mainVars,
                   userCnt, history>>

CloseStore(w) ==
    /\ wpc[w] = "store"
    /\ userCnt' = wcnt[w] - 1
    /\ wcnt' = [wcnt EXCEPT ![w] = 0]
    /\ wpc' = [wpc EXCEPT ![w] = "out"]
    /\ UNCHANGED <<poolVars, clientVars, backlog, arrived, sock, mainVars,
                   slot, history>>

\* mod_fd2(_epfd, _fd, EPOLLIN or EPOLLOUT), the last thing process() does
Rearm(w) ==
    /\ wpc[w] \in {"in", "out"}
    /\ sock' = Arm(sock, slot[busy[w]].fd, wpc[w])
    /\ Pool!Finish(w)
    /\ wpc' = [wpc EXCEPT ![w] = "idle"]
    /\ UNCHANGED <<clientVars, backlog, arrived, mainVars, wcnt, slot,
                   userCnt, history>>

WorkerStep(w) ==
    \/ TakeConn(w)
    \/ ProcessIncomplete(w) \/ ProcessRequest(w)
    \/ CloseRemove(w) \/ CloseClear(w) \/ CloseStore(w)
    \/ Rearm(w)

Next ==
    \/ \E c \in Clients : Connect(c) \/ Send(c) \/ HangUp(c)
    \/ MainStep
    \/ \E w \in Workers : WorkerStep(w)

Spec == Init /\ [][Next]_vars
(***************************************************************************)
(* The main loop and every worker keep running.  A peer that stays         *)
(* connected reads its answer, so a connection that is written to again    *)
(* and again is not refused by EAGAIN for ever.                            *)
(***************************************************************************)
WriteEnds(f) == \E e \in evs : e.fd = f /\ (WriteDone(e) \/ WriteFails(e))

Fairness ==
    /\ WF_vars(MainStep)
    /\ \A w \in Workers : WF_vars(WorkerStep(w))
    /\ \A f \in Fds : SF_vars(WriteEnds(f))

FairSpec == Spec /\ Fairness

-----------------------------------------------------------------------------
(***************************************************************************)
(* Properties.                                                             *)
(***************************************************************************)
One(b) == IF b THEN 1 ELSE 0

Custodians(f) ==
      One(sock[f].armed \in {"in", "out"})
    + One(mpc = "add" /\ mfd = f)
    + One(\E e \in evs : e.fd = f)
    + Cardinality({i \in 1..Len(waiting) : waiting[i] = f})
    + Cardinality({w \in Workers : busy[w] = f})
    + One(f \in stranded)

(***************************************************************************)
(* EPOLLONESHOT gives an open connection one owner at a time (add_fd2 and  *)
(* mod_fd2 of http_conn.h): it is armed in epoll, or with the main thread, *)
(* which sets it up or has an event of it, or in the pool's queue, or with *)
(* one worker; nobody else touches its slot.  The exceptions: the append   *)
(* that was refused leaves it `stranded`, with no owner, and a descriptor  *)
(* `raced`, reused while a worker is still inside close_conn, breaks the   *)
(* rule.  Every variable keeps its type.                                   *)
(***************************************************************************)
OneOwner ==
    TypeOK /\ (~raced => \A f \in Fds : sock[f].peer # None => Custodians(f) = 1)

(***************************************************************************)
(* No event and no queued request outlives its connection: when the main   *)
(* thread or a worker gets to it, the descriptor has not been closed or    *)
(* reused in between.                                                      *)
(***************************************************************************)
NothingStale ==
    ~raced => \A f \in Fds :
                 sock[f].peer = None => /\ sock[f].armed = "absent"
                                        /\ \A e \in evs : e.fd # f
                                        /\ \A i \in 1..Len(waiting) :
                                              waiting[i] # f

(***************************************************************************)
(* An open descriptor is lost when its users[] entry no longer names it:   *)
(* then no close_conn closes it and no re-arming reaches it.  The main     *)
(* thread and the workers lose one in a single way, whatever has gone      *)
(* wrong before: a worker that has closed a connection writes _fd = -1     *)
(* after the main thread has set up the same descriptor again.             *)
(***************************************************************************)
Lost(f) == sock[f].peer # None /\ slot[f].fd # f

LostOnlyByReuse ==
    [][\A f \in Fds : ~Lost(f) /\ Lost(f)' =>
          \E w \in Workers : /\ busy[w] = f /\ sock[f].peer # None
                             /\ wpc[w] = "clear" /\ wpc'[w] = "store"]_vars

(***************************************************************************)
(* A client that has sent a whole request is answered or disconnected,     *)
(* unless its append was refused, a descriptor was reused in the race, or  *)
(* the client is left behind: the edge of its connection was used up by    *)
(* the accept of another one (main.cpp 88-100), or of an accept that       *)
(* failed.                                                                 *)
(***************************************************************************)
Stranded(c) == \E f \in stranded : sock[f].peer = c
LeftBehind(c) == client[c] = "backlog" /\ ~arrived /\ ListenEvent \notin evs

RequestSettled ==
    \A c \in Clients :
        expects[c] ~> (~expects[c] \/ Stranded(c) \/ LeftBehind(c) \/ raced)

(***************************************************************************)
(* _user_cnt (http_conn.h:493, the number of users) has no lock: ++ and -- *)
(* are a load and a store.  However connections are accepted, refused and  *)
(* closed by the main thread and the workers, the count goes wrong only    *)
(* when a store overwrites an update made since its load, or once a        *)
(* descriptor was reused inside close_conn and was closed twice for it.    *)
(***************************************************************************)
CountGap ==
    userCnt - Cardinality({f \in Fds : sock[f].peer # None})
            + One(mpc \in {"add", "count"}) - One(mpc = "uncount")
            - Cardinality({w \in Workers : wpc[w] \in {"clear", "store"}})

OverwritesUpdate ==
    \/ mpc # "loop" /\ mpc' = "loop" /\ mcnt # userCnt
    \/ \E w \in Workers : /\ wpc[w] = "store" /\ wpc'[w] # "store"
                          /\ wcnt[w] # userCnt

OnlyRacesMiscount ==
    [][~raced /\ CountGap' # CountGap => OverwritesUpdate]_vars
=============================================================================
