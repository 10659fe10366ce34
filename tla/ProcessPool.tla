---------------------------- MODULE ProcessPool ----------------------------
(***************************************************************************)
(* process_pool<T> of 85_process_pool_thread_pool/process_pool.h.  The     *)
(* parent forks the children, watches the listening socket and tells one   *)
(* child per event, round robin, to accept; signals reach both through a   *)
(* pipe written by sig_handler.  Every descriptor is watched edge-         *)
(* triggered: an event reports that something arrived since the last one,  *)
(* not how much.                                                           *)
(***************************************************************************)
EXTENDS Naturals, Sequences, FiniteSets

CONSTANTS
    ProcessNum, \* _process_num
    Clients,    \* each connects once
    Crashes,    \* bound: children that die by themselves
    Nobody

ASSUME PoolAssumption == /\ ProcessNum \in Nat \ {0}
                         /\ Crashes \in Nat
                         /\ Nobody \notin Clients

Children == 0..(ProcessNum - 1)

VARIABLES
    \* the parent
    ppc,        \* "fork", "setup", "loop", "exited"
    pid,        \* _sub_process[i]._pid: "none", "live", "gone" (-1)
    turn,       \* sub_process_cnt
    stop,       \* _stop
    pevs,       \* events of this epoll_wait not handled yet
    pending,    \* signals the kernel has not delivered to the parent yet
    sigpipe,    \* signals written by sig_handler and not read yet
    sigbuf,     \* signals read from the pipe and not handled yet
    sigedge,    \* sig_pipefd[0] has an edge epoll has not reported
    \* the children
    child,      \* "unborn", "starting", "running", "zombie", "reaped"
    pipe,       \* notifications in the child's pipe
    pipeedge,   \* the pipe has an edge epoll has not reported
    term,       \* SIGTERM is in the child's signal pipe, unread
    cstop,      \* the child's _stop
    cevs,       \* events of the child's epoll_wait not handled yet
    \* the listening socket and the clients
    backlog,
    listenedge, \* the listening socket has an edge epoll has not reported
    served,     \* client |-> the child that accepted it, or Nobody
    \* history
    crashed,    \* children that died by themselves, so far
    unheard,    \* a child died before the parent had a SIGCHLD handler
    merged,     \* two announcements were reported by one edge
    dropped,    \* a notification was lost with its child
    termed      \* SIGTERM or SIGINT has been sent to the parent

parentVars == <<ppc, pid, turn, stop, pevs>>
signalVars == <<pending, sigpipe, sigbuf, sigedge>>
childVars  == <<child, pipe, pipeedge, term, cstop, cevs>>
clientVars == <<backlog, listenedge, served>>
history    == <<crashed, unheard, merged, dropped, termed>>
vars == <<parentVars, signalVars, childVars, clientVars, history>>

TypeOK ==
    /\ ppc \in {"fork", "setup", "loop", "exited"}
    /\ pid \in [Children -> {"none", "live", "gone"}]
    /\ turn \in Children
    /\ stop \in BOOLEAN
    /\ pevs \subseteq {"listen", "signal"}
    /\ pending \subseteq {"CHLD", "TERM"}
    /\ sigpipe \in Seq({"CHLD", "TERM"})
    /\ sigbuf \in Seq({"CHLD", "TERM"})
    /\ sigedge \in BOOLEAN
    /\ child \in [Children ->
                    {"unborn", "starting", "running", "zombie", "reaped"}]
    /\ pipe \in [Children -> Nat]
    /\ pipeedge \in [Children -> BOOLEAN]
    /\ term \in [Children -> BOOLEAN]
    /\ cstop \in [Children -> BOOLEAN]
    /\ cevs \in [Children -> SUBSET {"pipe", "signal"}]
    /\ backlog \in Seq(Clients)
    /\ listenedge \in BOOLEAN
    /\ served \in [Clients -> Children \cup {Nobody}]
    /\ crashed \in 0..Crashes
    /\ unheard \in BOOLEAN
    /\ merged \in BOOLEAN
    /\ dropped \in BOOLEAN
    /\ termed \in BOOLEAN

Init ==
    /\ ppc = "fork"
    /\ pid = [i \in Children |-> "none"]
    /\ turn = 0
    /\ stop = FALSE
    /\ pevs = {}
    /\ pending = {}
    /\ sigpipe = <<>>
    /\ sigbuf = <<>>
    /\ sigedge = FALSE
    /\ child = [i \in Children |-> "unborn"]
    /\ pipe = [i \in Children |-> 0]
    /\ pipeedge = [i \in Children |-> FALSE]
    /\ term = [i \in Children |-> FALSE]
    /\ cstop = [i \in Children |-> FALSE]
    /\ cevs = [i \in Children |-> {}]
    /\ backlog = <<>>
    /\ listenedge = FALSE
    /\ served = [c \in Clients |-> Nobody]
    /\ crashed = 0
    /\ unheard = FALSE
    /\ merged = FALSE
    /\ dropped = FALSE
    /\ termed = FALSE

Alive(i) == child[i] \in {"starting", "running"}

-----------------------------------------------------------------------------
(***************************************************************************)
(* The environment: clients, and a user who sends SIGTERM or SIGINT to the *)
(* parent once it handles them.                                            *)
(***************************************************************************)
Arrived(c) == served[c] # Nobody \/ \E k \in 1..Len(backlog) : backlog[k] = c

Connect(c) ==
    /\ ~Arrived(c)
    /\ backlog' = Append(backlog, c)
    /\ listenedge' = (ppc = "loop")
    /\ merged' = (merged \/ listenedge)
    /\ UNCHANGED <<parentVars, signalVars, childVars, served, crashed,
                   unheard, dropped, termed>>

Terminate ==
    /\ ppc = "loop" /\ ~termed
    /\ termed' = TRUE
    /\ pending' = pending \cup {"TERM"}
    /\ UNCHANGED <<parentVars, sigpipe, sigbuf, sigedge, childVars, clientVars,
                   crashed, unheard, merged, dropped>>

-----------------------------------------------------------------------------
(***************************************************************************)
(* The parent                                                              *)
(***************************************************************************)
\* the constructor's loop, one fork
Fork(i) ==
    /\ ppc = "fork"
    /\ pid[i] = "none" /\ \A j \in 0..(i - 1) : pid[j] # "none"
    /\ pid' = [pid EXCEPT ![i] = "live"]
    /\ child' = [child EXCEPT ![i] = "starting"]
    /\ ppc' = IF i = ProcessNum - 1 THEN "setup" ELSE "fork"
    /\ UNCHANGED <<turn, stop, pevs, signalVars, pipe, pipeedge, term, cstop,
                   cevs, clientVars, history>>

\* setup_sig_pipe() and the registration of the listening socket
ParentSetup ==
    /\ ppc = "setup"
    /\ ppc' = "loop"
    /\ listenedge' = (backlog # <<>>)
    /\ merged' = (merged \/ Len(backlog) > 1)
    /\ UNCHANGED <<pid, turn, stop, pevs, signalVars, childVars, backlog,
                   served, crashed, unheard, dropped, termed>>

\* sig_handler
ParentSignal(s) ==
    /\ ppc = "loop"
    /\ s \in pending
    /\ pending' = pending \ {s}
    /\ sigpipe' = Append(sigpipe, s)
    /\ sigedge' = TRUE
    /\ UNCHANGED <<parentVars, sigbuf, childVars, clientVars, history>>

ParentWait ==
    /\ ppc = "loop" /\ pevs = {} /\ sigbuf = <<>> /\ ~stop
    /\ listenedge \/ sigedge
    /\ pevs' = (IF listenedge THEN {"listen"} ELSE {})
                 \cup (IF sigedge THEN {"signal"} ELSE {})
    /\ listenedge' = FALSE
    /\ sigedge' = FALSE
    /\ UNCHANGED <<ppc, pid, turn, stop, pending, sigpipe, sigbuf, childVars,
                   backlog, served, history>>

ParentExit ==
    /\ ppc = "loop" /\ pevs = {} /\ sigbuf = <<>> /\ stop
    /\ ppc' = "exited"
    /\ UNCHANGED <<pid, turn, stop, pevs, signalVars, childVars, clientVars,
                   history>>

(***************************************************************************)
(* A new connection: the do-while loop looks for a child that is not -1,   *)
(* from sub_process_cnt on; none left stops the parent and the batch.      *)
(***************************************************************************)
After(i, k) == (i + k) % ProcessNum

Chosen(i) == \E k \in 0..(ProcessNum - 1) :
                /\ i = After(turn, k)
                /\ pid[i] = "live"
                /\ \A l \in 0..(k - 1) : pid[After(turn, l)] # "live"

\* the send; on the pipe of a child that is dead it fails with EPIPE
Dispatch(i) ==
    /\ ppc = "loop" /\ "listen" \in pevs /\ sigbuf = <<>>
    /\ Chosen(i)
    /\ pevs' = pevs \ {"listen"}
    /\ turn' = After(i, 1)
    /\ IF Alive(i)
         THEN /\ pipe' = [pipe EXCEPT ![i] = @ + 1]
              /\ pipeedge' = [pipeedge EXCEPT ![i] = child[i] = "running"]
              /\ merged' = (merged \/ pipeedge[i])
              /\ UNCHANGED dropped
         ELSE /\ dropped' = TRUE
              /\ UNCHANGED <<pipe, pipeedge, merged>>
    /\ UNCHANGED <<ppc, pid, stop, signalVars, child, term, cstop, cevs,
                   clientVars, crashed, unheard, termed>>

NobodyLeft ==
    /\ ppc = "loop" /\ "listen" \in pevs /\ sigbuf = <<>>
    /\ \A i \in Children : pid[i] # "live"
    /\ stop' = TRUE
    /\ pevs' = {}
    /\ UNCHANGED <<ppc, pid, turn, signalVars, childVars, clientVars, history>>

(***************************************************************************)
(* One recv takes every signal in the pipe; they are handled in order.     *)
(***************************************************************************)
ParentReadSignals ==
    /\ ppc = "loop" /\ "signal" \in pevs /\ sigbuf = <<>>
    /\ pevs' = pevs \ {"signal"}
    /\ sigbuf' = sigpipe
    /\ sigpipe' = <<>>
    /\ UNCHANGED <<ppc, pid, turn, stop, pending, sigedge, childVars,
                   clientVars, history>>

NextSignal(s) == sigbuf # <<>> /\ Head(sigbuf) = s /\ sigbuf' = Tail(sigbuf)

\* mutants: one waitpid for one SIGCHLD; stop with the first child that ends
HandleChldOnce ==
    /\ NextSignal("CHLD")
    /\ \E i \in Children :
          /\ child[i] = "zombie"
          /\ pid' = [pid EXCEPT ![i] = "gone"]
          /\ child' = [child EXCEPT ![i] = "reaped"]
    /\ stop' = \A i \in Children : pid'[i] = "gone"
    /\ UNCHANGED <<ppc, turn, pevs, pending, sigpipe, sigedge, pipe, pipeedge,
                   term, cstop, cevs, clientVars, history>>

HandleChldAny ==
    /\ NextSignal("CHLD")
    /\ pid' = [i \in Children |-> IF child[i] = "zombie" THEN "gone"
                                                         ELSE pid[i]]
    /\ child' = [i \in Children |-> IF child[i] = "zombie" THEN "reaped"
                                                           ELSE child[i]]
    /\ stop' = \E i \in Children : pid'[i] = "gone"
    /\ UNCHANGED <<ppc, turn, pevs, pending, sigpipe, sigedge, pipe, pipeedge,
                   term, cstop, cevs, clientVars, history>>

\* SIGCHLD: waitpid until no zombie is left; with no child left, stop
HandleChld ==
    /\ NextSignal("CHLD")
    /\ pid' = [i \in Children |-> IF child[i] = "zombie" THEN "gone"
                                                         ELSE pid[i]]
    /\ child' = [i \in Children |-> IF child[i] = "zombie" THEN "reaped"
                                                           ELSE child[i]]
    /\ stop' = \A i \in Children : pid'[i] = "gone"
    /\ UNCHANGED <<ppc, turn, pevs, pending, sigpipe, sigedge, pipe, pipeedge,
                   term, cstop, cevs, clientVars, history>>

(***************************************************************************)
(* SIGTERM, SIGINT: SIGTERM to every child not known to be gone.  It kills *)
(* a child that has no handler yet.                                        *)
(***************************************************************************)
Killed == {i \in Children : pid[i] = "live" /\ child[i] = "starting"}

\* mutant: a child without a handler loses the signal
HandleTermDeaf ==
    /\ NextSignal("TERM")
    /\ term' = [i \in Children |->
                  term[i] \/ (pid[i] = "live" /\ child[i] = "running")]
    /\ UNCHANGED <<parentVars, pending, sigpipe, sigedge, child, pipe,
                   pipeedge, cstop, cevs, clientVars, history>>

HandleTerm ==
    /\ NextSignal("TERM")
    /\ term' = [i \in Children |->
                  term[i] \/ (pid[i] = "live" /\ child[i] = "running")]
    /\ child' = [i \in Children |-> IF i \in Killed THEN "zombie" ELSE child[i]]
    /\ pending' = IF Killed = {} THEN pending ELSE pending \cup {"CHLD"}
    /\ dropped' = (dropped \/ \E i \in Killed : pipe[i] > 0)
    /\ pipe' = [i \in Children |-> IF i \in Killed THEN 0 ELSE pipe[i]]
    /\ UNCHANGED <<parentVars, sigpipe, sigedge, pipeedge, cstop, cevs,
                   clientVars, crashed, unheard, merged, termed>>

-----------------------------------------------------------------------------
(***************************************************************************)
(* The children                                                            *)
(***************************************************************************)
\* mutant: a notification sent before the child was ready makes no edge
ChildSetupLate(i) ==
    /\ child[i] = "starting"
    /\ child' = [child EXCEPT ![i] = "running"]
    /\ UNCHANGED <<parentVars, signalVars, pipe, pipeedge, term, cstop, cevs,
                   clientVars, history>>

\* run_child() up to the loop: handlers, and the pipe with what is in it
ChildSetup(i) ==
    /\ child[i] = "starting"
    /\ child' = [child EXCEPT ![i] = "running"]
    /\ pipeedge' = [pipeedge EXCEPT ![i] = pipe[i] > 0]
    /\ merged' = (merged \/ pipe[i] > 1)
    /\ UNCHANGED <<parentVars, signalVars, pipe, term, cstop, cevs,
                   clientVars, crashed, unheard, dropped, termed>>

ChildWait(i) ==
    /\ child[i] = "running" /\ cevs[i] = {} /\ ~cstop[i]
    /\ pipeedge[i] \/ term[i]
    /\ cevs' = [cevs EXCEPT ![i] =
                  (IF pipeedge[i] THEN {"pipe"} ELSE {})
                    \cup (IF term[i] THEN {"signal"} ELSE {})]
    /\ pipeedge' = [pipeedge EXCEPT ![i] = FALSE]
    /\ UNCHANGED <<parentVars, signalVars, child, pipe, term, cstop,
                   clientVars, history>>

(***************************************************************************)
(* One event on the pipe: one notification is read, one accept is tried.   *)
(***************************************************************************)
ChildAccept(i) ==
    /\ child[i] = "running" /\ "pipe" \in cevs[i]
    /\ cevs' = [cevs EXCEPT ![i] = @ \ {"pipe"}]
    /\ pipe' = [pipe EXCEPT ![i] = IF @ > 0 THEN @ - 1 ELSE 0]
    /\ IF backlog = <<>>
         THEN UNCHANGED <<backlog, served>>
         ELSE /\ served' = [served EXCEPT ![Head(backlog)] = i]
              /\ backlog' = Tail(backlog)
    /\ UNCHANGED <<parentVars, signalVars, child, pipeedge, term, cstop,
                   listenedge, history>>

ChildReadSignals(i) ==
    /\ child[i] = "running" /\ "signal" \in cevs[i]
    /\ cevs' = [cevs EXCEPT ![i] = @ \ {"signal"}]
    /\ term' = [term EXCEPT ![i] = FALSE]
    /\ cstop' = [cstop EXCEPT ![i] = TRUE]
    /\ UNCHANGED <<parentVars, signalVars, child, pipe, pipeedge, clientVars,
                   history>>

\* the end of a child: SIGCHLD, which a parent without a handler ignores
Dies(i) ==
    /\ child' = [child EXCEPT ![i] = "zombie"]
    /\ dropped' = (dropped \/ pipe[i] > 0)
    /\ pipe' = [pipe EXCEPT ![i] = 0]
    /\ pipeedge' = [pipeedge EXCEPT ![i] = FALSE]
    /\ term' = [term EXCEPT ![i] = FALSE]
    /\ cstop' = [cstop EXCEPT ![i] = FALSE]
    /\ cevs' = [cevs EXCEPT ![i] = {}]
    /\ IF ppc = "loop"
         THEN pending' = pending \cup {"CHLD"} /\ UNCHANGED unheard
         ELSE unheard' = (unheard \/ ppc # "exited") /\ UNCHANGED pending
    /\ UNCHANGED <<parentVars, sigpipe, sigbuf, sigedge, clientVars, merged,
                   termed>>

ChildExit(i) ==
    /\ child[i] = "running" /\ cevs[i] = {} /\ cstop[i]
    /\ Dies(i)
    /\ UNCHANGED crashed

ChildCrash(i) ==
    /\ Alive(i)
    /\ crashed < Crashes
    /\ crashed' = crashed + 1
    /\ Dies(i)

ChildStep(i) == \/ ChildSetup(i)
                \/ ChildWait(i)
                \/ ChildAccept(i)
                \/ ChildReadSignals(i)
                \/ ChildExit(i)

ParentStep == \/ \E i \in Children : Fork(i) \/ Dispatch(i)
              \/ ParentSetup
              \/ ParentWait \/ NobodyLeft \/ ParentExit
              \/ ParentReadSignals \/ HandleChld \/ HandleTerm

Next == \/ \E c \in Clients : Connect(c)
        \/ Terminate
        \/ ParentStep
        \/ \E s \in {"CHLD", "TERM"} : ParentSignal(s)
        \/ \E i \in Children : ChildStep(i) \/ ChildCrash(i)

Spec == Init /\ [][Next]_vars
(***************************************************************************)
(* The parent, its signal handler and every child keep running.            *)
(***************************************************************************)
Fairness ==
    /\ WF_vars(ParentStep)
    /\ \A s \in {"CHLD", "TERM"} : WF_vars(ParentSignal(s))
    /\ \A i \in Children : WF_vars(ChildStep(i))

FairSpec == Spec /\ Fairness

-----------------------------------------------------------------------------
(***************************************************************************)
(* Properties                                                              *)
(***************************************************************************)
(***************************************************************************)
(* The parent outlives the pool: when it leaves run_parent every child has *)
(* ended and has been reaped (lines 282-288), whatever signals and events  *)
(* shared the last batch.  Every variable keeps its type.                  *)
(***************************************************************************)
ParentLeavesLast ==
    TypeOK /\ (ppc = "exited" => \A i \in Children : child[i] = "reaped")

(***************************************************************************)
(* A waiting connection is accepted by some child, or the pool ends,       *)
(* unless its announcement was merged with another or died with a child.   *)
(***************************************************************************)
WaitingClient(c) == \E k \in 1..Len(backlog) : backlog[k] = c

EveryClientAccepted ==
    \A c \in Clients :
        WaitingClient(c) ~> \/ served[c] # Nobody
                            \/ merged \/ dropped \/ termed
                            \/ ppc = "exited"

(***************************************************************************)
(* SIGTERM or SIGINT to the parent ends the whole pool: the children stop, *)
(* SIGCHLD comes back, the parent reaps them and leaves; provided no child *)
(* had died before the parent could hear of it.                            *)
(***************************************************************************)
TermEndsPool == termed ~> (ppc = "exited" \/ unheard)

(***************************************************************************)
(* When every child has ended the parent ends too, under the same proviso. *)
(***************************************************************************)
AllDead == \A i \in Children : child[i] \in {"zombie", "reaped"}

ParentFollows == AllDead ~> (ppc = "exited" \/ unheard)

(***************************************************************************)
(* What the comment at line 282 says, without the proviso: if all children *)
(* have exited, the parent exits.                                          *)
(***************************************************************************)
ParentAlwaysFollows == AllDead ~> ppc = "exited"
=============================================================================
