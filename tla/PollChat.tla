------------------------------ MODULE PollChat ------------------------------
(***************************************************************************)
(* chat_room_server of 79_io_reuse/main.cpp: one process, one table for    *)
(* poll.  What a user says stays in the user's buffer; the others get a    *)
(* pointer to it and are written to when poll finds them writable.         *)
(***************************************************************************)
EXTENDS Naturals, Sequences, SequencesExt

CONSTANTS
    Users,      \* the users there can be, numbers: each connects once
    Socks,      \* descriptors, numbers, used again when closed
    UserMax,    \* the users the table has room for: 5 in the code
    MaxSays     \* how often users say something

\* There are descriptors for all the users the table has room for.
ASSUME PollChatAssumption ==
    /\ Users \subseteq Nat /\ Socks \subseteq Nat \ {0} /\ IsFiniteSet(Socks)
    /\ UserMax \in Nat /\ UserMax <= Cardinality(Socks)

nothing == 0    \* no text and a null pointer; texts and descriptors are not 0

VARIABLES
    user,       \* user[u]: "out", "queued", "in", "left"
    sockOf,     \* sockOf[u]: the descriptor of a user the server has accepted
    unheard,    \* unheard[u]: the last text u has sent and the server not read
    spoken,     \* texts so far
    table,      \* fds[1..user_cnt], the descriptors
    written,    \* the descriptors registered for POLLOUT, which is never undone
    hup, readable, writable,    \* revents: what the last poll has found
    pos,        \* the loop's i; Len(table) + 1 when it is at poll
    write_buf,  \* write_buf[f]: the descriptor whose buffer f is to be sent
    text,       \* text[f]: the buffer of f
    sentTo,        \* sentTo[u]: the texts u was sent
    due,        \* history: due[u]: the last text read that was for u
    replaced,   \* history: a buffer was replaced that was still to be sent
    ended       \* "no", or why SIGPIPE has ended the server

peerVars == <<user, unheard, spoken>>
reventVars == <<hup, readable, writable>>
bufferVars == <<write_buf, text>>
pollChatVars == <<peerVars, sockOf, table, written, reventVars, pos, bufferVars,
                  sentTo, due, replaced, ended>>

PollChatInit ==
    /\ user = [u \in Users |-> "out"]
    /\ sockOf = [u \in Users |-> nothing]
    /\ unheard = [u \in Users |-> nothing] /\ spoken = 0
    /\ table = <<>> /\ written = {}
    /\ hup = {} /\ readable = {} /\ writable = {} /\ pos = 1
    /\ write_buf = [f \in Socks |-> nothing] /\ text = [f \in Socks |-> nothing]
    /\ sentTo = [u \in Users |-> <<>>] /\ due = [u \in Users |-> nothing]
    /\ replaced = FALSE /\ ended = "no"

UserOf(f) == CHOOSE u \in Users : sockOf[u] = f
InTable == ToSet(table)

-----------------------------------------------------------------------------
JoinRoom(u) == /\ user[u] = "out" /\ \A v \in Users : v < u => user[v] # "out"
           /\ user' = [user EXCEPT ![u] = "queued"]
           /\ UNCHANGED <<unheard, spoken>>
Speak(u) == /\ user[u] = "in" /\ unheard[u] = nothing /\ spoken < MaxSays
            /\ spoken' = spoken + 1
            /\ unheard' = [unheard EXCEPT ![u] = spoken']
            /\ UNCHANGED user
LeaveRoom(u) == /\ user[u] = "in"
           /\ user' = [user EXCEPT ![u] = "left"]
           /\ UNCHANGED <<unheard, spoken>>

UserStep == /\ \E u \in Users : JoinRoom(u) \/ Speak(u) \/ LeaveRoom(u)
            /\ UNCHANGED <<sockOf, table, written, reventVars, pos, bufferVars, sentTo,
                           due, replaced, ended>>

-----------------------------------------------------------------------------
Waiting == {u \in Users : user[u] = "queued"}
HasLeft == {f \in InTable : user[UserOf(f)] = "left"}
HasSaid == {f \in InTable : unheard[UserOf(f)] # nothing}
AtPoll  == pos = Len(table) + 1

\* The loop handles fds[0] first: one user is accepted per call of poll.
Poll ==
    /\ AtPoll /\ Waiting \cup HasLeft \cup HasSaid \cup (InTable \cap written) # {}
    /\ hup' = HasLeft /\ readable' = HasSaid /\ writable' = InTable \cap written
    /\ pos' = IF Waiting = {} THEN 1 ELSE 0
    /\ UNCHANGED <<peerVars, sockOf, table, written, bufferVars, sentTo, due, replaced, ended>>

FreeSocks == Socks \ {sockOf[u] : u \in Users}
LowestSock == CHOOSE f \in FreeSocks : \A e \in FreeSocks : f <= e
NextUser   == CHOOSE u \in Waiting : \A v \in Waiting : u <= v

AcceptUser ==
    /\ pos = 0 /\ Len(table) < UserMax
    /\ user' = [user EXCEPT ![NextUser] = "in"]
    /\ sockOf' = [sockOf EXCEPT ![NextUser] = LowestSock]
    /\ table' = Append(table, LowestSock)
    /\ written' = written \ {LowestSock}
    /\ pos' = 1
    /\ UNCHANGED <<unheard, spoken, reventVars, bufferVars, sentTo, due, replaced, ended>>

\* "too many users" is sent on the listening socket
AcceptMany ==
    /\ pos = 0 /\ Len(table) = UserMax
    /\ ended' = "many"
    /\ UNCHANGED <<peerVars, sockOf, table, written, reventVars, pos, bufferVars,
                   sentTo, due, replaced>>

-----------------------------------------------------------------------------
Fd  == table[pos]
Own == UserOf(Fd)
Looking == pos \in 1..Len(table)
LastFd == table[Len(table)]

\* mutant: the last entry goes, whoever has left
TableFront == Front(table)
TableWithout == [i \in 1..Len(table) - 1 |-> IF i = pos THEN LastFd ELSE table[i]]

\* The last entry, with its revents and its buffer, takes the place of this one.
RemoveUser ==
    /\ Looking /\ Fd \in hup
    /\ table' = TableWithout
    /\ pos' = IF pos = Len(table) THEN Len(table') + 1 ELSE pos
    /\ write_buf' = [write_buf EXCEPT ![Fd] = write_buf[LastFd]]
    /\ text' = [text EXCEPT ![Fd] = text[LastFd]]
    /\ sockOf' = [sockOf EXCEPT ![Own] = nothing]
    /\ unheard' = [unheard EXCEPT ![Own] = nothing]
    /\ replaced' = (replaced \/ \E f \in InTable \ {Fd} : write_buf[f] = Fd)
    /\ UNCHANGED <<user, spoken, written, reventVars, sentTo, due, ended>>

\* recv; everyone else is registered for writing.  A recv that fails, which
\* closes the connection at once, and POLLERR, which only skips the entry, are
\* left out: the one does what RemoveUser does, the other puts it off.
ReceiveText ==
    LET others == InTable \ {Fd}
    IN  /\ Looking /\ Fd \notin hup /\ Fd \in readable
        /\ text' = [text EXCEPT ![Fd] = unheard[Own]]
        /\ unheard' = [unheard EXCEPT ![Own] = nothing]
        /\ written' = written \cup others
        /\ write_buf' = [f \in Socks |-> IF f \in others THEN Fd ELSE write_buf[f]]
        /\ due' = [u \in Users |-> IF sockOf[u] \in others THEN unheard[Own] ELSE due[u]]
        /\ pos' = pos + 1
        /\ UNCHANGED <<user, spoken, sockOf, table, reventVars, sentTo, replaced, ended>>

\* What is sent is what the buffer holds now.
SendText ==
    /\ Looking /\ Fd \notin hup \cup readable
    /\ IF Fd \in writable /\ write_buf[Fd] # nothing
       THEN /\ sentTo' = [sentTo EXCEPT ![Own] = Append(@, text[write_buf[Fd]])]
            /\ write_buf' = [write_buf EXCEPT ![Fd] = nothing]
       ELSE UNCHANGED <<sentTo, write_buf>>
    /\ pos' = pos + 1
    /\ UNCHANGED <<peerVars, sockOf, table, written, reventVars, text, due, replaced, ended>>

ServerStep == Poll \/ AcceptUser \/ AcceptMany \/ RemoveUser \/ ReceiveText \/ SendText
PollChatNext == ended = "no" /\ (UserStep \/ ServerStep)
PollChatSpec == PollChatInit /\ [][PollChatNext]_pollChatVars

-----------------------------------------------------------------------------
(***************************************************************************)
(* Users that leave, entries that move and descriptors used again confuse  *)
(* nobody: every user that was accepted and has not been removed has one   *)
(* entry, nobody is sent a text twice, and when nothing is left to be read *)
(* or sent everyone has been sent the last text that was for them - unless *)
(* its sender left before it was sent, and the buffer was given to another *)
(* user's text.                                                            *)
(***************************************************************************)
LastIsHeard ==
    /\ IsInjective(table) /\ InTable = {sockOf[u] : u \in Users} \ {nothing}
    /\ replaced \/ \A u \in Users :
          /\ IsInjective(sentTo[u])
          /\ AtPoll /\ user[u] = "in" /\ HasSaid \cup HasLeft = {} /\ write_buf[sockOf[u]] = nothing
                => due[u] = (IF sentTo[u] = <<>> THEN nothing ELSE Last(sentTo[u]))
=============================================================================
