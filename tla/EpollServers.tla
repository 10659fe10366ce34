---------------------------- MODULE EpollServers ----------------------------
(***************************************************************************)
(* The epoll servers of 47_epoll/main.cpp and 79_io_reuse/main.cpp, and    *)
(* the select server of 42_io_reuse/main.cpp, whose set of descriptors is  *)
(* level triggered.  They differ in how they are told of data and in how   *)
(* much they read then:                                                    *)
(*   "lt"       level triggered, one read (47 epoll_echo_server,           *)
(*              epoll_lt_server)                                           *)
(*   "select"   the same, told by select (42 io_server_test)               *)
(*   "lt79"     the same, the listening socket edge triggered              *)
(*              (79 epoll_server_test with epoll_lt_test)                  *)
(*   "et"       edge triggered, one read (47 epoll_et_server)              *)
(*   "et2"      edge triggered, reads till EAGAIN (47 epoll_et_server2)    *)
(*   "et79"     the same, the listening socket edge triggered as well      *)
(*              (79 epoll_server_test with epoll_et_test)                  *)
(*   "tcpudp"   edge triggered, reads till recv fails, taking EAGAIN for an *)
(*              error (79 handle_tcp_udp, without its UDP socket)          *)
(*   "oneshot"  one event at a time, given to a thread (79 epolloneshot_test) *)
(* A client is its descriptor: descriptors are not reused here.            *)
(***************************************************************************)
EXTENDS Naturals, FiniteSets

CONSTANTS
    Clients,
    MaxData,    \* a client sends so many pieces at most
    Workers,    \* the threads that can be created
    none        \* no descriptor

\* The listening socket is not one of the clients, and "none" is not one either.
ASSUME EpollAssumption == "listen" \notin Clients /\ none \notin Clients

VARIABLES
    kind,       \* which of the servers
    conn,       \* conn[c]: "none", "queued" for accept, "open", "closed"
    sent, unread, left,     \* pieces sent, and not yet read; c has hung up
    edge,       \* the descriptors on the ready list of epoll
    armed,      \* the connections epoll reports events of
    batch,      \* the events of the last epoll_wait not yet handled
    fds_thread, \* the argument of the last thread, on main's stack
    thread,     \* thread[w]: [pc, fd, meant]
    misled      \* history: a thread has taken another one's argument

kernelVars == <<conn, sent, unread, left, edge, armed>>
threadVars == <<fds_thread, thread, misled>>
epollVars == <<kind, kernelVars, batch, threadVars>>

Listen == "listen"
Kinds == {"lt", "select", "lt79", "et", "et2", "et79", "tcpudp", "oneshot"}
ReadsOnce == kind \in {"lt", "select", "lt79", "et"}
AcceptsOnce == kind \in {"lt79", "et79", "tcpudp", "oneshot"}
Idle == [pc |-> "none", fd |-> none, meant |-> none]

EpollInit ==
    /\ kind \in Kinds
    /\ conn = [c \in Clients |-> "none"]
    /\ sent = [c \in Clients |-> 0] /\ unread = [c \in Clients |-> 0]
    /\ left = {} /\ edge = {} /\ armed = {} /\ batch = {}
    /\ fds_thread = none /\ thread = [w \in Workers |-> Idle] /\ misled = FALSE

-----------------------------------------------------------------------------
\* The clients, and epoll.
Queued == {c \in Clients : conn[c] = "queued"}
Opened   == {c \in Clients : conn[c] = "open"}
Readable == {c \in Opened : unread[c] > 0 \/ c \in left}
            \cup (IF Queued = {} THEN {} ELSE {Listen})
LevelTriggered == (IF kind \in {"lt", "select", "lt79"} THEN Opened ELSE {})
                  \cup (IF AcceptsOnce THEN {} ELSE {Listen})
Ready == Readable \cap (LevelTriggered \cup edge) \cap (armed \cup {Listen})

Connect(c) ==
    /\ conn[c] = "none"
    /\ conn' = [conn EXCEPT ![c] = "queued"]
    /\ edge' = edge \cup {Listen}
    /\ UNCHANGED <<kind, sent, unread, left, armed, batch, threadVars>>

Send(c) ==
    /\ conn[c] \in {"queued", "open"} /\ c \notin left /\ sent[c] < MaxData
    /\ sent' = [sent EXCEPT ![c] = @ + 1]
    /\ unread' = [unread EXCEPT ![c] = @ + 1]
    /\ edge' = edge \cup ({c} \cap armed)
    /\ UNCHANGED <<kind, conn, left, armed, batch, threadVars>>

HangUp(c) ==
    /\ conn[c] \in {"queued", "open"} /\ c \notin left
    /\ left' = left \cup {c}
    /\ edge' = edge \cup ({c} \cap armed)
    /\ UNCHANGED <<kind, conn, sent, unread, armed, batch, threadVars>>

-----------------------------------------------------------------------------
\* mutant: EPOLLONESHOT is missing
EpollWaitKeeps ==
    /\ batch = {} /\ Ready # {}
    /\ batch' = Ready
    /\ edge' = {}
    /\ UNCHANGED <<kind, conn, sent, unread, left, armed, threadVars>>

\* epoll_wait
EpollWait ==
    /\ batch = {} /\ Ready # {}
    /\ batch' = Ready
    /\ edge' = {}
    /\ armed' = IF kind = "oneshot" THEN armed \ Ready ELSE armed
    /\ UNCHANGED <<kind, conn, sent, unread, left, threadVars>>

\* accept, and addfd, which puts a connection with data on the ready list
EpollAccept ==
    /\ Listen \in batch
    /\ batch' = batch \ {Listen}
    /\ \E c \in Queued :
          /\ conn' = [conn EXCEPT ![c] = "open"]
          /\ armed' = armed \cup {c}
          /\ edge' = edge \cup {c}
    /\ UNCHANGED <<kind, sent, unread, left, threadVars>>

\* read, write: one buffer of two pieces
ReadOnce(c) ==
    /\ ReadsOnce /\ unread[c] > 0
    /\ unread' = [unread EXCEPT ![c] = IF @ < 2 THEN 0 ELSE @ - 2]
    /\ UNCHANGED conn

\* read, write until EAGAIN or the end
ReadLoop(c) ==
    /\ kind \in {"et2", "et79"}
    /\ unread' = [unread EXCEPT ![c] = 0]
    /\ conn' = IF c \in left THEN [conn EXCEPT ![c] = "closed"] ELSE conn

ReadEnd(c) ==
    /\ ReadsOnce /\ unread[c] = 0 /\ c \in left
    /\ conn' = [conn EXCEPT ![c] = "closed"]
    /\ UNCHANGED unread

\* recv, send until recv returns -1 and the connection is closed for it
ReadTillError(c) ==
    /\ kind = "tcpudp"
    /\ unread' = [unread EXCEPT ![c] = 0]
    /\ conn' = [conn EXCEPT ![c] = "closed"]

\* In handle_tcp_udp what recv returned last, -1, is the bound of the loop.
Serve(c) ==
    /\ c \in batch /\ kind # "oneshot"
    /\ batch' = IF kind = "tcpudp" THEN {} ELSE batch \ {c}
    /\ ReadOnce(c) \/ ReadLoop(c) \/ ReadEnd(c) \/ ReadTillError(c)
    /\ UNCHANGED <<kind, sent, left, edge, armed, threadVars>>

-----------------------------------------------------------------------------
(***************************************************************************)
(* oneshot: the descriptor is handed to a new thread in a variable of the  *)
(* loop, of which every turn has the same address.                         *)
(***************************************************************************)
Spawn(c, w) ==
    /\ kind = "oneshot" /\ c \in batch /\ thread[w].pc = "none"
    /\ batch' = batch \ {c}
    /\ fds_thread' = c
    /\ thread' = [thread EXCEPT ![w] = [pc |-> "start", fd |-> none, meant |-> c]]
    /\ UNCHANGED <<kind, kernelVars, misled>>

WorkerStart(w) ==
    /\ thread[w].pc = "start"
    /\ thread' = [thread EXCEPT ![w].pc = "recv", ![w].fd = fds_thread]
    /\ misled' = (misled \/ thread[w].meant # fds_thread)
    /\ UNCHANGED <<kind, kernelVars, batch, fds_thread>>

\* A descriptor that another thread has closed makes recv fail for ever.
WorkerRecv(w) ==
    LET c == thread[w].fd
    IN  /\ thread[w].pc = "recv" /\ conn[c] = "open"
        /\ \/ /\ unread[c] > 0
              /\ unread' = [unread EXCEPT ![c] = 0]
              /\ UNCHANGED <<conn, thread>>
           \/ /\ unread[c] = 0 /\ c \in left
              /\ conn' = [conn EXCEPT ![c] = "closed"]
              /\ thread' = [thread EXCEPT ![w] = Idle]
              /\ UNCHANGED unread
           \/ /\ unread[c] = 0 /\ c \notin left
              /\ thread' = [thread EXCEPT ![w].pc = "reset"]
              /\ UNCHANGED <<conn, unread>>
        /\ UNCHANGED <<kind, sent, left, edge, armed, batch, fds_thread, misled>>

\* mutant: the thread ends without reset_oneshot
WorkerQuits(w) ==
    /\ thread[w].pc = "reset"
    /\ thread' = [thread EXCEPT ![w] = Idle]
    /\ UNCHANGED <<kind, kernelVars, batch, fds_thread, misled>>

\* reset_oneshot: what arrived since the last recv is reported at once
WorkerReset(w) ==
    LET c == thread[w].fd
    IN  /\ thread[w].pc = "reset"
        /\ IF conn[c] = "open"
           THEN armed' = armed \cup {c} /\ edge' = edge \cup {c}
           ELSE UNCHANGED <<armed, edge>>
        /\ thread' = [thread EXCEPT ![w] = Idle]
        /\ UNCHANGED <<kind, conn, sent, unread, left, batch, fds_thread, misled>>

ClientStep == \E c \in Clients : Connect(c) \/ Send(c) \/ HangUp(c)
EpollMain   == EpollWait \/ EpollAccept
              \/ \E c \in Clients : Serve(c) \/ \E w \in Workers : Spawn(c, w)
WorkerStep == \E w \in Workers : WorkerStart(w) \/ WorkerRecv(w) \/ WorkerReset(w)
EpollNext == ClientStep \/ EpollMain \/ WorkerStep
EpollSpec == EpollInit /\ [][EpollNext]_epollVars

-----------------------------------------------------------------------------
\* Nothing is left to do before a client acts again.
AtRest == /\ batch = {} /\ Ready = {}
          /\ \A w \in Workers : \/ thread[w].pc = "none"
                                \/ thread[w].pc = "recv" /\ conn[thread[w].fd] = "closed"

(***************************************************************************)
(* A server at rest has read all that was sent and closed every connection *)
(* that was hung up, though data may come between its last read and its    *)
(* next epoll_wait or re-arming; and no connection is closed before.       *)
(* Excepted are the server that reads once per edge, the one that loses    *)
(* the rest of its events and closes what it has read, and connections     *)
(* whose thread took another one's descriptor; and clients that connected  *)
(* together wait for the next one where one is accepted per edge.          *)
(***************************************************************************)
AllIsRead ==
    /\ \A c \in Clients : conn[c] = "closed" => c \in left \/ kind = "tcpudp"
    /\ AtRest =>
        /\ Queued # {} => AcceptsOnce
        /\ (\E c \in Opened : unread[c] > 0 \/ c \in left) =>
               kind \in {"et", "tcpudp"} \/ misled

(***************************************************************************)
(* EPOLLONESHOT keeps two threads from one connection, as the comment at   *)
(* 79 main.cpp:258 expects of it, but only as long as every thread reads   *)
(* its own descriptor: fds_thread is passed by address and is overwritten  *)
(* by the next event of the batch, and a thread misled by it works on a    *)
(* connection another one has.                                             *)
(***************************************************************************)
Working(w) == IF thread[w].pc = "start" THEN thread[w].meant ELSE thread[w].fd
Alive == {w \in Workers : thread[w].pc # "none"}
OneThreadEach == \A v, w \in Alive : v # w /\ Working(v) = Working(w) => misled
=============================================================================
