----------------------------- MODULE MCPrograms -----------------------------
(***************************************************************************)
(* The smaller programs of the repository, of which a behaviour runs one:  *)
(* the timers of 81_timer, the semaphores of 06_system_v_ipc, the threads  *)
(* of 84, 48 and 04, the servers of 85, 78, 47, 42, 79, 48, 40 and 09, and *)
(* the tester of 86.                                                       *)
(***************************************************************************)
EXTENDS TimerPair, SemPair, ThreadPrograms,
        HttpConn, EpollServers, ThreadChat, ForkServer, PollChat, FileTransfer,
        UdpRoom, StressTester

CONSTANTS t1, t2, c1, c2, w1, w2, h1, h2, h3, v1, v2, v3, u1, u2, n1, n2

MCTimers   == {t1, t2}
MCClients  == {c1, c2}
MCWorkers  == {w1, w2}
MCHandlers == {h1, h2, h3}
MCVisits   == {v1, v2, v3}
MCTalkers  == {u1, u2}
MCNicks    == {n1, n2}

\* Every kind of request alone, a second one after those that are kept, and
\* three in a row.
Request(line, eol, headers, content) ==
    [line |-> line, eol |-> eol, headers |-> headers, content |-> content]
KeptAlive == {Request("file", CRLF, <<"keep">>, <<>>),
              Request("file", CRLF, <<"len2", "keep">>, <<"x", "x">>)}
NotKept   == {Request(line, CRLF, <<"host">>, <<>>) :
                  line \in {"missing", "empty", "bad", "forbidden", "dir"}}
             \cup {Request("file", <<"LF">>, <<>>, <<>>),
                   Request("file", <<"CR">>, <<>>, <<>>),
                   Request("file", CRLF, <<"len2">>, CRLF)}
MCSessions == {<<r>> : r \in NotKept}
              \cup {<<r, s>> : r \in KeptAlive, s \in KeptAlive \cup NotKept}
              \cup {<<r, r, s>> : r \in KeptAlive, s \in KeptAlive}

\* Files of no piece, of part of one, of one and a part; and those that fail.
MCJobs ==
    LET Job(what, size, f) == [what |-> what, size |-> size, file |-> f]
        one == {Job(what, size, "there") : what \in {"list", "get", "put"},
                                           size \in {0, 1, 2, 4, 5}}
               \cup {Job(what, 2, f) : what \in {"get", "put"}, f \in {"missing", "denied"}}
               \cup {Job("get", size, "unwritable") : size \in {0, 4}}
    IN  {<<a, b>> : a, b \in one}

VARIABLE chosen     \* which of them runs

\* A program that does not run has no choice to make.
Init ==
    /\ chosen \in {"timers", "semaphores", "threads", "http", "epoll", "threadchat",
                   "fork", "pollchat", "files", "room", "tester"}
    /\ TimersInit /\ SemInit
    /\ ProgramInit /\ (chosen # "threads" => program = "Locked")
    /\ HttpConnInit
    /\ chosen # "http" => server = "http_conn" /\ asked = CHOOSE s \in Sessions : TRUE
    /\ EpollInit /\ (chosen # "epoll" => kind = "lt")
    /\ ThreadChatInit /\ ForkInit /\ PollChatInit
    /\ FileInit /\ (chosen # "files" => jobs = CHOOSE s \in Jobs : TRUE)
    /\ RoomInit
    /\ chosen # "room" => ~lossy /\ nick = [u \in Talkers |-> CHOOSE n \in Nicks : TRUE]
    /\ TesterInit /\ (chosen # "tester" => \A c \in Conns : mode[c] = "out")

Next ==
    /\ UNCHANGED chosen
    /\ \/ chosen = "timers" /\ TimersNext
       \/ chosen = "semaphores" /\ SemNext
       \/ chosen = "threads" /\ ProgramNext
       \/ chosen = "http" /\ HttpConnNext
       \/ chosen = "epoll" /\ EpollNext
       \/ chosen = "threadchat" /\ ThreadChatNext
       \/ chosen = "fork" /\ ForkNext
       \/ chosen = "pollchat" /\ PollChatNext
       \/ chosen = "files" /\ FileNext
       \/ chosen = "room" /\ RoomNext
       \/ chosen = "tester" /\ TesterNext
    /\ chosen # "timers" => UNCHANGED timersVars
    /\ chosen # "semaphores" => UNCHANGED semVars
    /\ chosen # "threads" => UNCHANGED programVars
    /\ chosen # "http" => UNCHANGED httpConnVars
    /\ chosen # "epoll" => UNCHANGED epollVars
    /\ chosen # "threadchat" => UNCHANGED threadChatVars
    /\ chosen # "fork" => UNCHANGED forkVars
    /\ chosen # "pollchat" => UNCHANGED pollChatVars
    /\ chosen # "files" => UNCHANGED fileVars
    /\ chosen # "room" => UNCHANGED udpVars
    /\ chosen # "tester" => UNCHANGED testerVars

Spec == Init /\ [][Next]_<<chosen, timersVars, semVars, programVars, httpConnVars,
                           epollVars, threadChatVars, forkVars, pollChatVars, fileVars,
                           udpVars, testerVars>>
=============================================================================
