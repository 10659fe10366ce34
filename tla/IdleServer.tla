---------------------------- MODULE IdleServer ----------------------------
(***************************************************************************)
(* timeout_server_test of 81_timer/main.cpp: a server that closes the      *)
(* connections that have been silent for 3 * TIMESLOT seconds.  Their      *)
(* timers are objects on the heap, kept in a sorted list; SIGALRM, written *)
(* to a pipe, makes the loop call tick().                                  *)
(*                                                                         *)
(* The result of recv is assigned to ret, which bounds the loop over the   *)
(* events: after a recv the loop may end early, or go on to the entries of *)
(* evs behind those of this call, which are left over from earlier calls.  *)
(* Entries that no call has filled are uninitialised; they are taken to    *)
(* hold nothing the loop reacts to.                                        *)
(*                                                                         *)
(* Time is counted in seconds; `left` is expire - now, not below 0.        *)
(***************************************************************************)
EXTENDS Naturals, Sequences, FiniteSets, SequencesExt, FiniteSetsExt

CONSTANTS
    Clients,    \* each connects once
    Fds,        \* descriptors of connections, natural numbers
    Timers,     \* addresses at which a util_timer can be allocated, numbers
    TIMESLOT,
    Messages,   \* bound: how many messages the clients send
    Listen, Signal, \* the descriptors sock and sig_pipe[0]
    Stray,      \* users[-1], of a failed accept
    None        \* no client, no pointer

ASSUME IdleAssumption == /\ IsFiniteSet(Clients) /\ None \notin Clients
                         /\ IsFiniteSet(Fds) /\ Fds \subseteq Nat
                         /\ IsFiniteSet(Timers) /\ Timers \subseteq Nat
                         /\ {Listen, Signal, Stray, None} \cap Fds = {}
                         /\ None \notin Timers
                         /\ TIMESLOT \in Nat \ {0} /\ Messages \in Nat
                         /\ Cardinality(Clients) < Cardinality(Timers)

Lifetime == 3 * TIMESLOT

VARIABLES
    \* the clients and their sockets
    came,       \* who has connected
    backlog, listenedge,
    conn,       \* the client of a descriptor, None: not open
    inbox, eof, edge,
    sent,       \* messages sent so far
    \* the loop
    pc,         \* "wait", "batch", "timers", "stopped"
    evs,        \* the entries of evs that some call has filled
    filled,     \* how many of them this call filled
    pos, ret,   \* i and ret
    timeout, stop,
    \* signals
    alarm,      \* seconds until SIGALRM, 0: not armed
    sigpipe, sigedge,
    \* timers
    heap,       \* allocated
    list,       \* s_time_list
    left, data, \* expire - now, and the descriptor of data
    timer,      \* users[fd].timer
    \* history
    quiet,      \* seconds since the last data was read
    termed,     \* SIGTERM has been sent
    lost,       \* the loop ended before the event of the signal pipe
    stale       \* the loop handled an event of a closed descriptor

netVars   == <<came, backlog, listenedge, conn, inbox, eof, edge, sent>>
loopVars  == <<pc, evs, filled, pos, ret, timeout, stop>>
sigVars   == <<alarm, sigpipe, sigedge>>
timerVars == <<heap, list, left, data, timer>>
history   == <<quiet, termed, lost, stale>>
vars == <<netVars, loopVars, sigVars, timerVars, history>>

NetTypes ==
    /\ came \subseteq Clients /\ backlog \in Seq(Clients) /\ listenedge \in BOOLEAN
    /\ conn \in [Fds -> Clients \cup {None}]
    /\ inbox \in [Fds -> BOOLEAN] /\ eof \in [Fds -> BOOLEAN]
    /\ edge \in [Fds -> BOOLEAN] /\ sent \in 0..Messages

LoopTypes ==
    /\ pc \in {"wait", "batch", "timers", "stopped"}
    /\ evs \in Seq(Fds \cup {Listen, Signal})
    /\ filled \in 0..Len(evs) /\ pos \in 0..Len(evs) /\ ret \in Nat
    /\ timeout \in BOOLEAN /\ stop \in BOOLEAN

SigTypes == /\ alarm \in 0..TIMESLOT /\ sigpipe \subseteq {"ALRM", "TERM"}
            /\ sigedge \in BOOLEAN

TimerTypes ==
    /\ heap \subseteq Timers /\ list \in Seq(heap) /\ IsInjective(list)
    /\ left \in [Timers -> 0..Lifetime]
    /\ data \in [Timers -> Fds \cup {Stray, None}]
    /\ timer \in [Fds -> Timers \cup {None}]

HistoryTypes == quiet \in [Fds -> 0..Lifetime] /\ {termed, lost, stale} \subseteq BOOLEAN

(***************************************************************************)
(* Every variable keeps its type; in particular the list holds allocated   *)
(* timers only, none of them twice.                                        *)
(***************************************************************************)
TypeOK == NetTypes /\ LoopTypes /\ SigTypes /\ TimerTypes /\ HistoryTypes

Init ==
    /\ came = {} /\ backlog = <<>> /\ listenedge = FALSE
    /\ conn = [f \in Fds |-> None]
    /\ inbox = [f \in Fds |-> FALSE] /\ eof = [f \in Fds |-> FALSE]
    /\ edge = [f \in Fds |-> FALSE] /\ sent = 0
    /\ pc = "wait" /\ evs = <<>> /\ filled = 0 /\ pos = 0 /\ ret = 0
    /\ timeout = FALSE /\ stop = FALSE
    /\ alarm = TIMESLOT /\ sigpipe = {} /\ sigedge = FALSE
    /\ heap = {} /\ list = <<>>
    /\ left = [t \in Timers |-> 0] /\ data = [t \in Timers |-> None]
    /\ timer = [f \in Fds |-> None]
    /\ quiet = [f \in Fds |-> 0]
    /\ termed = FALSE /\ lost = FALSE /\ stale = FALSE

Open == {f \in Fds : conn[f] # None}

-----------------------------------------------------------------------------
(***************************************************************************)
(* The clients, the user and the clock.                                    *)
(***************************************************************************)
Connect(c) ==
    /\ pc # "stopped" /\ c \notin came
    /\ Len(backlog) + Cardinality(Open) < Cardinality(Fds)
    /\ came' = came \cup {c}
    /\ backlog' = Append(backlog, c)
    /\ listenedge' = TRUE
    /\ UNCHANGED <<conn, inbox, eof, edge, sent, loopVars, sigVars, timerVars,
                   history>>

Send(f) ==
    /\ f \in Open /\ ~eof[f] /\ sent < Messages
    /\ inbox' = [inbox EXCEPT ![f] = TRUE]
    /\ edge' = [edge EXCEPT ![f] = TRUE]
    /\ sent' = sent + 1
    /\ UNCHANGED <<came, backlog, listenedge, conn, eof, loopVars, sigVars,
                   timerVars, history>>

HangUp(f) ==
    /\ f \in Open /\ ~eof[f]
    /\ eof' = [eof EXCEPT ![f] = TRUE]
    /\ edge' = [edge EXCEPT ![f] = TRUE]
    /\ UNCHANGED <<came, backlog, listenedge, conn, inbox, sent, loopVars,
                   sigVars, timerVars, history>>

\* sig_handler: one byte in the pipe
Raise(s) == /\ sigpipe' = sigpipe \cup {s}
            /\ sigedge' = TRUE

Terminate ==
    /\ pc # "stopped" /\ ~termed
    /\ termed' = TRUE
    /\ Raise("TERM")
    /\ UNCHANGED <<netVars, loopVars, alarm, timerVars, quiet, lost, stale>>

\* a second passes, wherever the server is
Elapse ==
    /\ pc # "stopped"
    /\ left' = [t \in Timers |-> Max({left[t] - 1, 0})]
    /\ quiet' = [f \in Fds |-> IF f \in Open THEN Min({quiet[f] + 1, Lifetime})
                                             ELSE 0]
    /\ alarm' = Max({alarm - 1, 0})
    /\ IF alarm = 1 THEN Raise("ALRM") ELSE UNCHANGED <<sigpipe, sigedge>>
    /\ UNCHANGED <<netVars, loopVars, heap, list, data, timer, termed, lost,
                   stale>>

-----------------------------------------------------------------------------
(***************************************************************************)
(* The sorted list.  Every operation leaves it sorted by expire; the sort  *)
(* is stable.                                                              *)
(***************************************************************************)
\* mutant: the list is not sorted again
NoFlush(l, lft) == l

\* where the i-th timer of l is when l is sorted
PlaceOf(l, lft, i) ==
    Cardinality({j \in 1..Len(l) : \/ lft[l[j]] < lft[l[i]]
                                   \/ lft[l[j]] = lft[l[i]] /\ j <= i})

SortFlush(l, lft) ==
    [p \in 1..Len(l) |-> l[CHOOSE i \in 1..Len(l) : PlaceOf(l, lft, i) = p]]

\* free addresses that no pointer holds any more are interchangeable
Allocatable ==
    LET free   == Timers \ heap
        held   == {t \in free : \E f \in Fds : timer[f] = t}
        unheld == free \ held
    IN  held \cup IF unheld = {} THEN {} ELSE {Min(unheld)}

\* new util_timer, expire = now + 3 * TIMESLOT, add_timer
AddTimer(t, d) ==
    /\ t \in Allocatable
    /\ heap' = heap \cup {t}
    /\ data' = [data EXCEPT ![t] = d]
    /\ left' = [left EXCEPT ![t] = Lifetime]
    /\ list' = SortFlush(Append(list, t), left')

\* mutant: the timer is moved in the list and keeps its expire
AdjustKeeps(t) ==
    /\ left' = left
    /\ list' = SortFlush(IF Contains(list, t) THEN list ELSE Append(list, t),
                         left')
    /\ UNCHANGED <<heap, data, timer>>

\* expire = now + 3 * TIMESLOT, adjust_timer: a timer not in the list is added
AdjustTimer(t) ==
    /\ left' = [left EXCEPT ![t] = Lifetime]
    /\ list' = SortFlush(IF Contains(list, t) THEN list ELSE Append(list, t),
                         left')
    /\ UNCHANGED <<heap, data, timer>>

\* mutant: the timer of a closed connection stays in the list
DelTimerNot(t) == UNCHANGED timerVars

\* del_timer: the object is not freed; no timer is in the list twice
DelTimer(t) ==
    /\ list' = RemoveFirst(list, t)
    /\ UNCHANGED <<heap, left, data, timer>>

\* time_callback: the descriptors of F leave epoll and are closed
TimeCallback(F) ==
    /\ conn' = [f \in Fds |-> IF f \in F THEN None ELSE conn[f]]
    /\ inbox' = [f \in Fds |-> f \notin F /\ inbox[f]]
    /\ eof' = [f \in Fds |-> f \notin F /\ eof[f]]
    /\ edge' = [f \in Fds |-> f \notin F /\ edge[f]]

-----------------------------------------------------------------------------
(***************************************************************************)
(* The loop.                                                               *)
(***************************************************************************)
\* epoll_wait fills the first entries, in any order
Wait ==
    /\ pc = "wait" /\ ~stop
    /\ LET ready == {f \in Fds : edge[f]}
                      \cup {e \in {Listen} : listenedge}
                      \cup {e \in {Signal} : sigedge}
           n == Cardinality(ready)
       IN  /\ ready # {}
           /\ \E order \in [1..n -> ready] :
                /\ ToSet(order) = ready
                /\ evs' = order \o SubSeq(evs, n + 1, Len(evs))
           /\ filled' = n
           /\ ret' = n
    /\ pos' = 0
    /\ pc' = "batch"
    /\ edge' = [f \in Fds |-> FALSE]
    /\ listenedge' = FALSE
    /\ sigedge' = FALSE
    /\ UNCHANGED <<came, backlog, conn, inbox, eof, sent, timeout, stop, alarm,
                   sigpipe, timerVars, history>>

Exit ==
    /\ pc = "wait" /\ stop
    /\ pc' = "stopped"
    /\ UNCHANGED <<netVars, evs, filled, pos, ret, timeout, stop, sigVars,
                   timerVars, history>>

Entry(e) ==
    /\ pc = "batch" /\ pos < ret /\ pos < Len(evs)
    /\ evs[pos + 1] = e
    /\ pos' = pos + 1
    /\ UNCHANGED <<pc, evs, filled>>

Lowest == Min(Fds \ Open)

Accept(t) ==
    /\ Entry(Listen)
    /\ backlog # <<>>
    /\ backlog' = Tail(backlog)
    /\ conn' = [conn EXCEPT ![Lowest] = Head(backlog)]
    /\ AddTimer(t, Lowest)
    /\ timer' = [timer EXCEPT ![Lowest] = t]
    /\ quiet' = [quiet EXCEPT ![Lowest] = 0]
    /\ UNCHANGED <<came, listenedge, inbox, eof, edge, sent, ret, timeout, stop,
                   sigVars, termed, lost, stale>>

(***************************************************************************)
(* accept returns -1, which is not looked at: users[-1] gets a timer.  The *)
(* write outside the array is taken to be harmless, its timer to close     *)
(* descriptor -1.  Bound: addresses are kept for the clients to come.      *)
(***************************************************************************)
AcceptFails(t) ==
    /\ Entry(Listen)
    /\ backlog = <<>>
    /\ Cardinality(Timers \ heap) > Cardinality(Clients \ came)
    /\ AddTimer(t, Stray)
    /\ UNCHANGED <<netVars, ret, timeout, stop, sigVars, timer, history>>

\* one recv takes every signal in the pipe
ReadSignals ==
    /\ Entry(Signal)
    /\ timeout' = (timeout \/ "ALRM" \in sigpipe)
    /\ stop' = (stop \/ "TERM" \in sigpipe)
    /\ ret' = Cardinality(sigpipe)
    /\ sigpipe' = {}
    /\ UNCHANGED <<netVars, alarm, sigedge, timerVars, history>>

\* the length of the data is the new bound of the loop
ReadData(f) ==
    /\ Entry(f)
    /\ f \in Open /\ inbox[f]
    /\ inbox' = [inbox EXCEPT ![f] = FALSE]
    /\ ret' \in 1..Len(evs)
    /\ AdjustTimer(timer[f])
    /\ quiet' = [quiet EXCEPT ![f] = 0]
    /\ UNCHANGED <<came, backlog, listenedge, conn, eof, edge, sent, timeout,
                   stop, sigVars, termed, lost, stale>>

\* recv has nothing to return
ReadAgain(f) ==
    /\ Entry(f)
    /\ f \in Open /\ ~inbox[f] /\ ~eof[f]
    /\ ret' = 0
    /\ UNCHANGED <<netVars, timeout, stop, sigVars, timerVars, history>>

\* the client has closed, or a left-over entry names a closed descriptor
ReadEnd(f) ==
    /\ Entry(f)
    /\ f \in Open => ~inbox[f] /\ eof[f]
    /\ ret' = 0
    /\ TimeCallback({f})
    /\ DelTimer(timer[f])
    /\ stale' = (stale \/ f \notin Open)
    /\ UNCHANGED <<came, backlog, listenedge, sent, timeout, stop, sigVars,
                   quiet, termed, lost>>

\* i < ret fails, or only entries no call has filled are left
BatchEnds ==
    /\ pc = "batch"
    /\ pos >= ret \/ pos >= Len(evs)
    /\ lost' = (lost \/ \E i \in pos + 1..filled : evs[i] = Signal)
    /\ pc' = IF timeout THEN "timers" ELSE "wait"
    /\ filled' = 0 /\ pos' = 0 /\ ret' = 0
    /\ UNCHANGED <<netVars, evs, timeout, stop, sigVars, timerVars, quiet,
                   termed, stale>>

\* mutant: the alarm is not set again
TimerHandlerOnce ==
    /\ pc = "timers"
    /\ LET due == {i \in 1..Len(list) : \A j \in 1..i : left[list[j]] = 0}
           n == Cardinality(due)
       IN  /\ TimeCallback({data[list[i]] : i \in due})
           /\ heap' = heap \ {list[i] : i \in due}
           /\ list' = SubSeq(list, n + 1, Len(list))
           /\ data' = [t \in Timers |-> IF t \in heap' THEN data[t] ELSE None]
    /\ timeout' = FALSE
    /\ pc' = "wait"
    /\ UNCHANGED <<came, backlog, listenedge, sent, evs, filled, pos, ret, stop,
                   alarm, sigpipe, sigedge, left, timer, history>>

\* timer_handler: tick(), from the front as long as now >= expire; alarm()
TimerHandler ==
    /\ pc = "timers"
    /\ LET due == {i \in 1..Len(list) : \A j \in 1..i : left[list[j]] = 0}
           n == Cardinality(due)
       IN  /\ TimeCallback({data[list[i]] : i \in due})
           /\ heap' = heap \ {list[i] : i \in due}
           /\ list' = SubSeq(list, n + 1, Len(list))
           /\ data' = [t \in Timers |-> IF t \in heap' THEN data[t] ELSE None]
    /\ alarm' = TIMESLOT
    /\ timeout' = FALSE
    /\ pc' = "wait"
    /\ UNCHANGED <<came, backlog, listenedge, sent, evs, filled, pos, ret, stop,
                   sigpipe, sigedge, left, timer, history>>

ServerStep ==
    \/ Wait \/ Exit \/ ReadSignals \/ BatchEnds \/ TimerHandler
    \/ \E t \in Timers : Accept(t) \/ AcceptFails(t)
    \/ \E f \in Fds : ReadData(f) \/ ReadAgain(f) \/ ReadEnd(f)

Next ==
    \/ \E c \in Clients : Connect(c)
    \/ \E f \in Fds : Send(f) \/ HangUp(f)
    \/ Terminate
    \/ Elapse
    \/ ServerStep

Spec == Init /\ [][Next]_vars

\* the clock does not stop, and the server gets to run
FairSpec == Spec /\ WF_vars(Elapse) /\ WF_vars(ServerStep)

-----------------------------------------------------------------------------
(***************************************************************************)
(* Every open connection has one timer in the list, the one users[fd]      *)
(* points to, and a timer in the list belongs to an open connection or to  *)
(* a failed accept; unless a left-over entry of evs closed a descriptor    *)
(* that was closed already, and removed whatever timer now has its         *)
(* address.  Every variable keeps its type.                                *)
(***************************************************************************)
TimersMatch ==
    /\ TypeOK
    /\ ~stale =>
      /\ \A f \in Open : /\ Contains(list, timer[f])
                         /\ data[timer[f]] = f
      /\ \A t \in ToSet(list) : data[t] # Stray => /\ data[t] \in Open
                                                   /\ timer[data[t]] = t

(***************************************************************************)
(* tick() closes no connection from which data was read less than          *)
(* 3 * TIMESLOT seconds ago.                                               *)
(***************************************************************************)
OnlyTheIdle ==
    [][\A f \in Open : pc = "timers" /\ conn'[f] = None
                         => quiet[f] = Lifetime]_vars

(***************************************************************************)
(* tick() stops at the first timer that has not expired, and leaves no     *)
(* expired timer behind it, whatever was added, adjusted and deleted.      *)
(***************************************************************************)
NothingOverdue ==
    [][pc = "timers" /\ pc' = "wait" =>
         \A t \in ToSet(list') : left'[t] > 0]_vars

(***************************************************************************)
(* The purpose of the server, line 159: an inactive connection is closed.  *)
(* Clients send a bounded number of messages, so that each of them becomes *)
(* inactive.                                                               *)
(***************************************************************************)
IdleIsClosed ==
    \A f \in Fds : f \in Open ~> f \notin Open \/ pc = "stopped"

(***************************************************************************)
(* The same, unless the loop was cut short before the signal's event, or a *)
(* left-over entry named a closed descriptor.                              *)
(***************************************************************************)
IdleIsClosedIfTold ==
    \A f \in Fds :
        f \in Open ~> f \notin Open \/ pc = "stopped" \/ lost \/ stale
=============================================================================
