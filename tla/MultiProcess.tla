---------------------------- MODULE MultiProcess ----------------------------
(***************************************************************************)
(* The shared-memory chat of 83_multi_process/main.cpp: multi_process_test *)
(* forks a child per client; a child (child_run) stores what its client    *)
(* sends in its segment of the shared memory and tells the parent, which   *)
(* tells the other children to write that segment to their clients.        *)
(*                                                                         *)
(* Both loops assign the result of recv to the variable that bounds the    *)
(* loop over the events: what they handle after a recv depends on its      *)
(* length.  Entries beyond those epoll_wait filled in are left over from   *)
(* earlier calls, or uninitialised: any descriptor, or none.  This is kept *)
(* for the parent.  A child takes its events one at a time, and may never  *)
(* take one: what its loop drops is among the behaviours.                  *)
(***************************************************************************)
EXTENDS Naturals, Sequences, FiniteSets, SequencesExt

CONSTANTS
    Clients,    \* each connects once; also the pid of its child
    UserLimit,  \* USER_LIMIT
    Messages,   \* bound: how many messages the clients send
    Signals,    \* bound: signals in the pipe after a SIGTERM has been passed on
    None        \* a segment filled with zeros

ASSUME ChatAssumption == /\ IsFiniteSet(Clients) /\ None \notin Clients
                         /\ {"listen", "signal"} \cap Clients = {}
                         /\ UserLimit \in Nat \ {0} /\ Messages \in Nat
                         /\ Signals \in Nat

Slots == 1..UserLimit   \* the slots 0 .. USER_LIMIT - 1 of the code
NoSlot == 0             \* -1 in sub_map_idx
IntSize == 4            \* sizeof(int), the length of a notification

VARIABLES
    \* the clients and their sockets
    sent,       \* messages sent so far
    inbox,      \* data in the socket, unread
    eof,        \* the client has closed its end
    \* the parent
    ppc,        \* "wait", "batch", "stopped"
    users,      \* users[0 .. user_cnt - 1], by pid
    submap,     \* sub_map_idx
    terminate,
    stop,       \* server_stop
    pevs,       \* events of this epoll_wait not handled yet
    ppos, pret, \* i and ret of the loop over the events
    sigpipe, sigbuf, sigedge,   \* signals in the pipe, and read from it
    backlog, listenedge,
    \* the children
    cpc,        \* "none", "forked", "deaf", "loop", "zombie", "reaped"
    idx,        \* the argument idx of child_run
    cstop,      \* child_stop
    \* between them
    up, upedge,     \* child to parent: segment numbers, and the edge
    down,           \* parent to child
    seg,            \* the shared memory: whose data each segment holds
    \* history
    echoed,     \* a client has been sent its own data
    moved,      \* a user has been moved to another slot
    cut,        \* the parent has left a loop with events not handled
    missed,     \* a SIGTERM reached a child that was not listening for it
    late,       \* a client was accepted with terminate, or server_stop, set
    termed      \* SIGTERM has been sent to the parent

clientVars == <<sent, inbox, eof>>
tableVars  == <<users, submap, terminate, stop>>
loopVars   == <<ppc, pevs, ppos, pret>>
signalVars == <<sigpipe, sigbuf, sigedge>>
listenVars == <<backlog, listenedge>>
childVars  == <<cpc, idx, cstop>>
pipeVars   == <<up, upedge, down>>
history    == <<echoed, moved, cut, missed, late, termed>>
vars == <<clientVars, tableVars, loopVars, signalVars, listenVars, childVars,
          pipeVars, seg, history>>

ChildAt == {"none", "forked", "deaf", "loop", "zombie", "reaped"}

(***************************************************************************)
(* Every variable keeps its type; in particular no more than USER_LIMIT    *)
(* users are ever in the table, and no child writes outside its segments.  *)
(***************************************************************************)
TypeOK ==
    /\ sent \in 0..Messages
    /\ inbox \in [Clients -> BOOLEAN]
    /\ eof \in [Clients -> BOOLEAN]
    /\ ppc \in {"wait", "batch", "stopped"}
    /\ users \in Seq(Clients) /\ Len(users) <= UserLimit
    /\ submap \in [Clients -> Slots \cup {NoSlot}]
    /\ terminate \in BOOLEAN /\ stop \in BOOLEAN
    /\ pevs \subseteq Clients \cup {"listen", "signal"}
    /\ ppos \in Nat /\ pret \in Nat
    /\ sigpipe \in Seq({"CHLD", "TERM"}) /\ sigbuf \in Seq({"CHLD", "TERM"})
    /\ sigedge \in BOOLEAN
    /\ backlog \in Seq(Clients) /\ listenedge \in BOOLEAN
    /\ cpc \in [Clients -> ChildAt]
    /\ idx \in [Clients -> Slots \cup {NoSlot}]
    /\ cstop \in [Clients -> BOOLEAN]
    /\ up \in [Clients -> Seq(Slots)] /\ upedge \in [Clients -> BOOLEAN]
    /\ down \in [Clients -> Seq(Slots)]
    /\ seg \in [Slots -> Clients \cup {None}]
    /\ {echoed, moved, cut, missed, termed} \subseteq BOOLEAN
    /\ late \subseteq {"terminate", "stop"}

Init ==
    /\ sent = 0
    /\ inbox = [c \in Clients |-> FALSE]
    /\ eof = [c \in Clients |-> FALSE]
    /\ ppc = "wait" /\ users = <<>>
    /\ submap = [c \in Clients |-> NoSlot]
    /\ terminate = FALSE /\ stop = FALSE
    /\ pevs = {} /\ ppos = 0 /\ pret = 0
    /\ sigpipe = <<>> /\ sigbuf = <<>> /\ sigedge = FALSE
    /\ backlog = <<>> /\ listenedge = FALSE
    /\ cpc = [c \in Clients |-> "none"]
    /\ idx = [c \in Clients |-> NoSlot]
    /\ cstop = [c \in Clients |-> FALSE]
    /\ up = [c \in Clients |-> <<>>] /\ upedge = [c \in Clients |-> FALSE]
    /\ down = [c \in Clients |-> <<>>]
    /\ seg = [s \in Slots |-> None]
    /\ echoed = FALSE /\ moved = FALSE /\ cut = FALSE /\ missed = FALSE
    /\ late = {} /\ termed = FALSE

Running(c) == cpc[c] \in {"forked", "deaf", "loop"}

-----------------------------------------------------------------------------
(***************************************************************************)
(* The environment.                                                        *)
(***************************************************************************)
Connect(c) ==
    /\ cpc[c] = "none" /\ ~eof[c] /\ ~Contains(backlog, c)
    /\ ppc # "stopped"
    /\ backlog' = Append(backlog, c)
    /\ listenedge' = TRUE
    /\ UNCHANGED <<clientVars, tableVars, loopVars, signalVars, childVars,
                   pipeVars, seg, history>>

Send(c) ==
    /\ Running(c) /\ ~eof[c] /\ sent < Messages
    /\ inbox' = [inbox EXCEPT ![c] = TRUE]
    /\ sent' = sent + 1
    /\ UNCHANGED <<eof, tableVars, loopVars, signalVars, listenVars,
                   childVars, pipeVars, seg, history>>

HangUp(c) ==
    /\ Running(c) /\ ~eof[c]
    /\ eof' = [eof EXCEPT ![c] = TRUE]
    /\ UNCHANGED <<sent, inbox, tableVars, loopVars, signalVars,
                   listenVars, childVars, pipeVars, seg, history>>

\* sig_handler in the parent: one byte in the pipe
Signal(s) == /\ sigpipe' = Append(sigpipe, s)
             /\ sigedge' = TRUE

Terminate ==
    /\ ~termed /\ ppc # "stopped"
    /\ termed' = TRUE
    /\ Signal("TERM")
    /\ UNCHANGED <<clientVars, tableVars, loopVars, sigbuf, listenVars,
                   childVars, pipeVars, seg, echoed, moved, cut, missed, late>>

-----------------------------------------------------------------------------
(***************************************************************************)
(* The parent's loop.                                                      *)
(***************************************************************************)
ParentWait ==
    /\ ppc = "wait"
    /\ ~stop
    /\ LET ready == (IF listenedge THEN {"listen"} ELSE {})
                      \cup (IF sigedge THEN {"signal"} ELSE {})
                      \cup {c \in ToSet(users) : upedge[c]}
       IN  /\ ready # {}
           /\ pevs' = ready
           /\ pret' = Cardinality(ready)
    /\ ppos' = 0
    /\ ppc' = "batch"
    /\ listenedge' = FALSE
    /\ sigedge' = FALSE
    /\ upedge' = [c \in Clients |-> FALSE]
    /\ UNCHANGED <<clientVars, tableVars, sigpipe, sigbuf, backlog, childVars,
                   up, down, seg, history>>

ParentExit ==
    /\ ppc = "wait"
    /\ stop
    /\ ppc' = "stopped"
    /\ UNCHANGED <<clientVars, tableVars, pevs, ppos, pret, signalVars,
                   listenVars, childVars, pipeVars, seg, history>>

\* i < ret fails, or what is left of the loop finds nothing to do
ParentBatchEnds ==
    /\ ppc = "batch" /\ sigbuf = <<>>
    /\ ppos >= pret \/ pevs = {}
    /\ ppc' = "wait"
    /\ pevs' = {} /\ ppos' = 0 /\ pret' = 0
    /\ cut' = (cut \/ pevs # {})
    /\ UNCHANGED <<clientVars, tableVars, signalVars, listenVars, childVars,
                   pipeVars, seg, echoed, moved, missed, late, termed>>

\* evs[i].data.fd is e: one of this call's events, or a leftover
Entry(e) ==
    /\ ppc = "batch" /\ sigbuf = <<>>
    /\ ppos < pret
    /\ pevs # {} => e \in pevs
    /\ pevs' = pevs \ {e}
    /\ ppos' = ppos + 1
    /\ UNCHANGED ppc

\* accept fails: no one is waiting any more
EntryNobody ==
    /\ pevs # {} /\ Entry("listen")
    /\ backlog = <<>>
    /\ UNCHANGED <<clientVars, tableVars, pret, signalVars, listenVars,
                   childVars, pipeVars, seg, history>>

\* user_cnt >= USER_LIMIT, or fork() fails: the connection is closed
EntryRefuse ==
    /\ Entry("listen")
    /\ backlog # <<>>
    /\ backlog' = Tail(backlog)
    /\ eof' = [eof EXCEPT ![Head(backlog)] = TRUE]
    /\ UNCHANGED <<sent, inbox, tableVars, pret, signalVars,
                   listenedge, childVars, pipeVars, seg, history>>

EntryFork ==
    /\ Entry("listen")
    /\ backlog # <<>>
    /\ Len(users) < UserLimit
    /\ LET c == Head(backlog)
           s == Len(users) + 1
       IN  /\ users' = Append(users, c)
           /\ submap' = [submap EXCEPT ![c] = s]
           /\ cpc' = [cpc EXCEPT ![c] = "forked"]
           /\ idx' = [idx EXCEPT ![c] = s]
    /\ backlog' = Tail(backlog)
    /\ late' = late \cup {w \in {"terminate", "stop"} :
                         IF w = "stop" THEN stop ELSE terminate}
    /\ UNCHANGED <<clientVars, terminate, stop, pret, signalVars, listenedge,
                   cstop, pipeVars, seg, echoed, moved, cut, missed, termed>>

\* one recv takes every signal in the pipe; ret is how many
EntrySignals ==
    /\ Entry("signal")
    /\ pevs # {} \/ sigpipe # <<>>
    /\ sigbuf' = sigpipe
    /\ pret' = Len(sigpipe)
    /\ sigpipe' = <<>>
    /\ UNCHANGED <<clientVars, tableVars, sigedge, listenVars, childVars,
                   pipeVars, seg, history>>

\* recv fails, or the other end is closed: ret is -1 or 0
EntryEmpty(c) ==
    /\ pevs # {} /\ Entry(c)
    /\ Contains(users, c) => up[c] = <<>>
    /\ pret' = 0
    /\ UNCHANGED <<clientVars, tableVars, signalVars, listenVars, childVars,
                   pipeVars, seg, history>>

\* mutant: tells every child, the sender too
EntryRelayAll(c) ==
    /\ Entry(c)
    /\ Contains(users, c) /\ up[c] # <<>>
    /\ LET told == {d \in ToSet(users) : Running(d)}
       IN  down' = [d \in Clients |->
                      IF d \in told THEN Append(down[d], Head(up[c]))
                                    ELSE down[d]]
    /\ up' = [up EXCEPT ![c] = Tail(@)]
    /\ pret' = IntSize
    /\ UNCHANGED <<clientVars, tableVars, signalVars, listenVars, childVars,
                   upedge, seg, history>>

\* a child has data: one number is read, and sent to the other children
EntryRelay(c) ==
    /\ Entry(c)
    /\ Contains(users, c) /\ up[c] # <<>>
    /\ LET told == {d \in ToSet(users) \ {c} : Running(d)}
       IN  down' = [d \in Clients |->
                      IF d \in told THEN Append(down[d], Head(up[c]))
                                    ELSE down[d]]
    /\ up' = [up EXCEPT ![c] = Tail(@)]
    /\ pret' = IntSize
    /\ UNCHANGED <<clientVars, tableVars, signalVars, listenVars, childVars,
                   upedge, seg, history>>

-----------------------------------------------------------------------------
(***************************************************************************)
(* The signals the parent has read, in order.                              *)
(***************************************************************************)
Handling(s) == sigbuf # <<>> /\ Head(sigbuf) = s

\* mutant: the user moved to the free slot keeps its old entry in the map
ReapNoRemap(c) ==
    /\ Handling("CHLD")
    /\ cpc[c] = "zombie"
    /\ cpc' = [cpc EXCEPT ![c] = "reaped"]
    /\ LET del  == submap[c]
           last == Len(users)
       IN  /\ users' = Front([users EXCEPT ![del] = users[last]])
           /\ submap' = [submap EXCEPT ![c] = NoSlot]
           /\ moved' = (moved \/ del # last)
    /\ upedge' = [upedge EXCEPT ![c] = FALSE]
    /\ up' = [up EXCEPT ![c] = <<>>]
    /\ idx' = [idx EXCEPT ![c] = NoSlot]
    /\ UNCHANGED <<clientVars, terminate, stop, loopVars, signalVars,
                   listenVars, cstop, down, seg, echoed, cut, missed, late,
                   termed>>

\* one turn of the waitpid loop: the last user moves into the free slot
Reap(c) ==
    /\ Handling("CHLD")
    /\ cpc[c] = "zombie"
    /\ cpc' = [cpc EXCEPT ![c] = "reaped"]
    /\ LET del  == submap[c]
           last == Len(users)
       IN  /\ users' = Front([users EXCEPT ![del] = users[last]])
           /\ submap' = [submap EXCEPT ![c] = NoSlot, ![users[last]] = del]
           /\ moved' = (moved \/ del # last)
    /\ upedge' = [upedge EXCEPT ![c] = FALSE]
    /\ up' = [up EXCEPT ![c] = <<>>]
    /\ idx' = [idx EXCEPT ![c] = NoSlot]
    /\ UNCHANGED <<clientVars, terminate, stop, loopVars, signalVars,
                   listenVars, cstop, down, seg, echoed, cut, missed, late,
                   termed>>

\* mutant: the end of the last child does not end the server
ReapedStays ==
    /\ Handling("CHLD")
    /\ \A c \in Clients : cpc[c] # "zombie"
    /\ sigbuf' = Tail(sigbuf)
    /\ UNCHANGED <<clientVars, tableVars, loopVars, sigpipe, sigedge,
                   listenVars, childVars, pipeVars, seg, history>>

Reaped ==
    /\ Handling("CHLD")
    /\ \A c \in Clients : cpc[c] # "zombie"
    /\ stop' = (stop \/ (terminate /\ users = <<>>))
    /\ sigbuf' = Tail(sigbuf)
    /\ UNCHANGED <<clientVars, users, submap, terminate, loopVars, sigpipe,
                   sigedge, listenVars, childVars, pipeVars, seg, history>>

(***************************************************************************)
(* SIGTERM, SIGINT: stop, or kill every child.  A child that has not       *)
(* replaced the handler it inherited writes to the parent's pipe, as long  *)
(* as it has not closed it.  A child that has tested child_stop and is     *)
(* still entering epoll_wait sets the flag and goes to sleep all the same. *)
(***************************************************************************)
At(l) == {d \in ToSet(users) : cpc[d] = l}

\* mutant: the server stops without waiting for the children
HandleTermStops ==
    /\ Handling("TERM")
    /\ sigbuf' = Tail(sigbuf)
    /\ stop' = TRUE
    /\ terminate' = TRUE
    /\ UNCHANGED <<clientVars, users, submap, loopVars, sigpipe, sigedge,
                   listenVars, childVars, pipeVars, seg, history>>

HandleTerm ==
    /\ Handling("TERM")
    /\ At("forked") # {} => Len(sigpipe) + Cardinality(At("forked")) <= Signals
    /\ sigbuf' = Tail(sigbuf)
    /\ IF users = <<>>
         THEN /\ stop' = TRUE
              /\ UNCHANGED <<terminate, cstop, sigpipe, sigedge, missed>>
         ELSE \E entering \in SUBSET At("loop") :
                /\ terminate' = TRUE
                /\ cstop' = [d \in Clients |-> cstop[d] \/ d \in At("loop")]
                /\ sigpipe' = sigpipe \o
                                [k \in 1..Cardinality(At("forked")) |-> "TERM"]
                /\ sigedge' = (sigedge \/ At("forked") # {})
                /\ missed' = (missed \/ entering \cup At("deaf") # {})
                /\ UNCHANGED stop
    /\ UNCHANGED <<clientVars, users, submap, loopVars, listenVars, cpc, idx,
                   pipeVars, seg, echoed, moved, cut, late, termed>>

ParentStep ==
    \/ ParentWait \/ ParentExit \/ ParentBatchEnds
    \/ EntryNobody \/ EntryRefuse \/ EntryFork \/ EntrySignals
    \/ \E c \in Clients : EntryEmpty(c) \/ EntryRelay(c) \/ Reap(c)
    \/ Reaped \/ HandleTerm

-----------------------------------------------------------------------------
(***************************************************************************)
(* The children.                                                           *)
(***************************************************************************)
ChildGoto(c, l) == cpc' = [cpc EXCEPT ![c] = l]

\* close(sig_pipe): from here on the inherited handler writes nowhere
ChildCloses(c) ==
    /\ cpc[c] = "forked"
    /\ ChildGoto(c, "deaf")
    /\ UNCHANGED <<clientVars, tableVars, loopVars, signalVars, listenVars,
                   idx, cstop, pipeVars, seg, history>>

\* addfd of the socket and of the pipe, add_sig(SIGTERM)
ChildSetup(c) ==
    /\ cpc[c] = "deaf"
    /\ ChildGoto(c, "loop")
    /\ UNCHANGED <<clientVars, tableVars, loopVars, signalVars, listenVars,
                   idx, cstop, pipeVars, seg, history>>

(***************************************************************************)
(* memset and recv of the segment; its number goes to the parent.  The     *)
(* zeros another child could read in between are not told apart.           *)
(***************************************************************************)
ChildRead(c) ==
    /\ cpc[c] = "loop"
    /\ inbox[c]
    /\ inbox' = [inbox EXCEPT ![c] = FALSE]
    /\ seg' = [seg EXCEPT ![idx[c]] = c]
    /\ up' = [up EXCEPT ![c] = Append(@, idx[c])]
    /\ upedge' = [upedge EXCEPT ![c] = TRUE]
    /\ UNCHANGED <<sent, eof, tableVars, loopVars, signalVars, listenVars,
                   childVars, down, history>>

\* recv returns 0: the segment is cleared, child_stop is set
ChildReadEnd(c) ==
    /\ cpc[c] = "loop"
    /\ ~inbox[c] /\ eof[c]
    /\ seg' = [seg EXCEPT ![idx[c]] = None]
    /\ cstop' = [cstop EXCEPT ![c] = TRUE]
    /\ UNCHANGED <<clientVars, tableVars, loopVars, signalVars, listenVars,
                   cpc, idx, pipeVars, history>>

\* a number from the parent: that segment goes to the client
ChildDeliver(c) ==
    /\ cpc[c] = "loop"
    /\ down[c] # <<>>
    /\ echoed' = (echoed \/ seg[Head(down[c])] = c)
    /\ down' = [down EXCEPT ![c] = Tail(@)]
    /\ UNCHANGED <<clientVars, tableVars, loopVars, signalVars, listenVars,
                   childVars, up, upedge, seg, moved, cut, missed, late,
                   termed>>

\* the pipe to the parent is closed once the parent has ended
ChildReadPipeEnd(c) ==
    /\ cpc[c] = "loop"
    /\ ppc = "stopped" /\ down[c] = <<>>
    /\ cstop' = [cstop EXCEPT ![c] = TRUE]
    /\ UNCHANGED <<clientVars, tableVars, loopVars, signalVars, listenVars,
                   cpc, idx, pipeVars, seg, history>>

\* while (!child_stop) ends; the sockets are closed, exit(0), SIGCHLD
ChildExit(c) ==
    /\ cpc[c] = "loop"
    /\ cstop[c]
    /\ ChildGoto(c, "zombie")
    /\ eof' = [eof EXCEPT ![c] = TRUE]
    /\ inbox' = [inbox EXCEPT ![c] = FALSE]
    /\ down' = [down EXCEPT ![c] = <<>>]
    /\ upedge' = [upedge EXCEPT ![c] = TRUE]
    /\ cstop' = [cstop EXCEPT ![c] = FALSE]
    /\ Signal("CHLD")
    /\ UNCHANGED <<sent, tableVars, loopVars, sigbuf, listenVars, idx, up, seg,
                   history>>

ChildStep(c) ==
    \/ ChildCloses(c) \/ ChildSetup(c)
    \/ ChildRead(c) \/ ChildReadEnd(c) \/ ChildDeliver(c)
    \/ ChildReadPipeEnd(c) \/ ChildExit(c)

Next ==
    \/ \E c \in Clients : Connect(c) \/ Send(c) \/ HangUp(c)
    \/ Terminate
    \/ ParentStep
    \/ \E c \in Clients : ChildStep(c)

Spec == Init /\ [][Next]_vars

(***************************************************************************)
(* The parent and every child keep running; nothing is asked of the events *)
(* a child may drop.                                                       *)
(***************************************************************************)
ChildRuns(c) == ChildCloses(c) \/ ChildSetup(c) \/ ChildExit(c)

Fairness == /\ WF_vars(ParentStep)
            /\ \A c \in Clients : WF_vars(ChildRuns(c))

FairSpec == Spec /\ Fairness

-----------------------------------------------------------------------------
(***************************************************************************)
(* The table of users and the map from pids to slots agree at every        *)
(* instant, however slots are freed and filled (lines 325-362, 380-391):   *)
(* every child that has not been reaped has exactly one slot, the map      *)
(* leads to it, and no dead child has one.  Every variable keeps its type. *)
(***************************************************************************)
TableIsExact ==
    /\ TypeOK
    /\ ToSet(users) = {c \in Clients : cpc[c] \notin {"none", "reaped"}}
    /\ \A i \in 1..Len(users) : submap[users[i]] = i

(***************************************************************************)
(* The server leaves its loop only when every child has been reaped, so    *)
(* that the shared memory it unlinks is not in use; the one exception is a *)
(* client accepted behind the signal that stopped it, in the same batch.   *)
(***************************************************************************)
ServerStopsLast ==
    ppc = "stopped" /\ "stop" \notin late =>
        \A c \in Clients : cpc[c] \in {"none", "reaped"}

(***************************************************************************)
(* What the comment at line 427 promises: the other children are told that *)
(* there is data to write.  No client is sent its own data.                *)
(***************************************************************************)
NoEcho == ~echoed

(***************************************************************************)
(* The same as long as no user has been moved to another slot: then no     *)
(* client is sent its own data, also when slots are freed and used again.  *)
(* That is all: a notice the old user of a slot left behind may have the   *)
(* segment of its next user sent around, which no client can tell from a   *)
(* message of its own time.                                                *)
(***************************************************************************)
NoEchoUnmoved == moved \/ NoEcho

(***************************************************************************)
(* SIGTERM ends the server: the children it kills come back as SIGCHLD and *)
(* the last one ends the loop; unless the signal reached a child that      *)
(* could not hear it, a client was accepted after it, or the overwritten   *)
(* loop bound made the parent drop an event.                               *)
(***************************************************************************)
TermEndsServer == termed ~> (ppc = "stopped" \/ missed \/ late # {} \/ cut)
=============================================================================
