----------------------------- MODULE ThreadChat -----------------------------
(***************************************************************************)
(* chat_server of 48_multi_thread_server/main.cpp: a thread per client, an *)
(* array of the clients' descriptors under a mutex, and a client's message *)
(* written to all of them.  A section of the code that holds the mutex is  *)
(* one step.                                                               *)
(***************************************************************************)
EXTENDS Naturals, FiniteSets

CONSTANTS
    Guests,     \* clients, numbers: each connects once and says one thing
    Fds,        \* descriptors, numbers, used again when closed
    Handlers,   \* the threads that can be created
    nobody      \* no guest, no descriptor

ASSUME ThreadChatAssumption ==
    /\ IsFiniteSet(Guests) /\ Guests \subseteq Nat
    /\ Fds \subseteq Nat /\ nobody \notin Guests \cup Fds

VARIABLES
    guest,      \* guest[g]: "out", "in", "gone" (it has closed)
    says,       \* the guests whose message has not been read
    audience,   \* history: audience[g]: who was being served when g spoke
    heard,      \* heard[g][s]: how often g got the message of s
    owner,      \* owner[f]: the guest whose connection f is
    clt_sock,   \* main's variable, whose address the threads get
    accepting,  \* main: "accept", "append", "create"
    socks, sock_index,
    handler,    \* handler[h]: [pc, fd, meant]
    poked,      \* connections written to after their guest has closed
    dead,       \* SIGPIPE has ended the server
    mixed,      \* history: a thread got another one's descriptor
    astray      \* history: descriptors whose entry stayed when their guest left,
                \* or was taken out when another guest left

guestVars == <<guest, says, audience>>
roomVars == <<socks, sock_index>>
threadChatVars == <<guestVars, heard, owner, clt_sock, accepting, roomVars,
                    handler, poked, dead, mixed, astray>>

NoHandler == [pc |-> "none", fd |-> nobody, meant |-> nobody]
Members == {socks[i] : i \in 1..sock_index}
Served == {g \in Guests : \E h \in Handlers :
                /\ handler[h].pc \in {"start", "read"}
                /\ owner[handler[h].meant] = g}

ThreadChatInit ==
    /\ guest = [g \in Guests |-> "out"] /\ says = {}
    /\ audience = [g \in Guests |-> {}]
    /\ heard = [g \in Guests |-> [s \in Guests |-> 0]]
    /\ owner = [f \in Fds |-> nobody]
    /\ clt_sock = nobody /\ accepting = "accept"
    /\ socks = [i \in 1..Cardinality(Guests) + 1 |-> nobody] /\ sock_index = 0
    /\ handler = [h \in Handlers |-> NoHandler]
    /\ poked = {} /\ dead = FALSE /\ mixed = FALSE /\ astray = {}

-----------------------------------------------------------------------------
Say(g) ==
    /\ guest[g] = "in" /\ g \notin says /\ audience[g] = {} /\ g \in Served
    /\ says' = says \cup {g}
    /\ audience' = [audience EXCEPT ![g] = Served]
    /\ UNCHANGED guest

Leave(g) ==
    /\ guest[g] = "in"
    /\ guest' = [guest EXCEPT ![g] = "gone"]
    /\ UNCHANGED <<says, audience>>

GuestStep ==
    /\ \E g \in Guests : Say(g) \/ Leave(g)
    /\ UNCHANGED <<heard, owner, clt_sock, accepting, roomVars, handler, poked,
                   dead, mixed, astray>>

-----------------------------------------------------------------------------
\* The lowest descriptor that is free; the guests come in their order.
FreeFds == {f \in Fds : owner[f] = nobody}
Lowest  == CHOOSE f \in FreeFds : \A e \in FreeFds : f <= e

AcceptGuest ==
    /\ accepting = "accept" /\ FreeFds # {}
    /\ \E g \in Guests :
          /\ \A u \in Guests : guest[u] = "out" <=> g <= u
          /\ guest' = [guest EXCEPT ![g] = "in"]
          /\ owner' = [owner EXCEPT ![Lowest] = g]
    /\ clt_sock' = Lowest
    /\ accepting' = "append"
    /\ UNCHANGED <<says, audience, heard, roomVars, handler, poked, dead, mixed, astray>>

AppendSock ==
    /\ accepting = "append"
    /\ socks' = [socks EXCEPT ![sock_index + 1] = clt_sock]
    /\ sock_index' = sock_index + 1
    /\ accepting' = "create"
    /\ UNCHANGED <<guestVars, heard, owner, clt_sock, handler, poked, dead, mixed, astray>>

\* Threads that are not in use are alike.
Unused == {h \in Handlers : handler[h].pc = "none"}

CreateHandler ==
    /\ accepting = "create" /\ Unused # {}
    /\ handler' = [handler EXCEPT ![CHOOSE h \in Unused : TRUE] = [pc |-> "start", fd |-> nobody,
                                          meant |-> clt_sock]]
    /\ accepting' = "accept"
    /\ UNCHANGED <<guestVars, heard, owner, clt_sock, roomVars, poked, dead, mixed, astray>>

-----------------------------------------------------------------------------
\* clt_sock_handler
HandlerStart(h) ==
    /\ handler[h].pc = "start"
    /\ handler' = [handler EXCEPT ![h].pc = "read", ![h].fd = clt_sock]
    /\ mixed' = (mixed \/ handler[h].meant # clt_sock)
    /\ UNCHANGED <<guestVars, heard, owner, clt_sock, accepting, roomVars, poked,
                   dead, astray>>

\* read, send_msg: writing twice to a guest that has closed raises SIGPIPE
Relay(h) ==
    LET s == owner[handler[h].fd]
        gone == {f \in Members : owner[f] # nobody /\ guest[owner[f]] = "gone"}
    IN  /\ handler[h].pc = "read" /\ s \in says
        /\ says' = says \ {s}
        /\ heard' = [g \in Guests |-> [heard[g] EXCEPT ![s] = @ +
                        Cardinality({i \in 1..sock_index : owner[socks[i]] = g})]]
        /\ poked' = poked \cup gone
        /\ dead' \in {FALSE, gone \cap poked # {}}
        /\ UNCHANGED <<guest, audience, owner, clt_sock, accepting, roomVars,
                       handler, mixed, astray>>

\* mutant: closes the connection before it takes it out of the array
HandlerEndCloses(h) ==
    LET f == handler[h].fd
        s == owner[f]
    IN  /\ handler[h].pc = "read"
        /\ IF s = nobody THEN TRUE ELSE s \notin says /\ guest[s] = "gone"
        /\ owner' = [owner EXCEPT ![f] = nobody]
        /\ handler' = [handler EXCEPT ![h].pc = "remove"]
        /\ UNCHANGED <<guestVars, heard, clt_sock, accepting, roomVars, poked, dead,
                       mixed, astray>>

\* read returns 0, or -1 for a descriptor another thread has closed
HandlerEnd(h) ==
    LET s == owner[handler[h].fd]
    IN  /\ handler[h].pc = "read"
        /\ IF s = nobody THEN TRUE ELSE s \notin says /\ guest[s] = "gone"
        /\ handler' = [handler EXCEPT ![h].pc = "remove"]
        /\ UNCHANGED <<guestVars, heard, owner, clt_sock, accepting, roomVars,
                       poked, dead, mixed, astray>>

\* The entry of the leaver stays, unless it is the last, and the next one goes;
\* without an entry of the leaver the last one goes.
First(f) == CHOOSE i \in 1..sock_index :
                socks[i] = f /\ \A j \in 1..sock_index : socks[j] = f => i <= j
GoesFor(f) == IF f \in Members /\ First(f) < sock_index THEN First(f) + 1 ELSE sock_index
RemoveFd(f) ==
    /\ socks' = IF f \notin Members THEN socks
                ELSE [i \in DOMAIN socks |->
                        IF i > First(f) /\ i <= sock_index THEN socks[i + 1] ELSE socks[i]]
    /\ astray' = IF socks[GoesFor(f)] = f THEN astray ELSE astray \cup {f, socks[GoesFor(f)]}

RemoveSock(h) ==
    /\ handler[h].pc = "remove"
    /\ RemoveFd(handler[h].fd)
    /\ sock_index' = sock_index - 1
    /\ handler' = [handler EXCEPT ![h].pc = "close"]
    /\ UNCHANGED <<guestVars, heard, owner, clt_sock, accepting, poked, dead, mixed>>

HandlerClose(h) ==
    LET f == handler[h].fd
    IN  /\ handler[h].pc = "close"
        /\ owner' = [owner EXCEPT ![f] = nobody]
        /\ poked' = poked \ {f}
        /\ handler' = [handler EXCEPT ![h] = NoHandler]
        /\ UNCHANGED <<guestVars, heard, clt_sock, accepting, roomVars, dead, mixed, astray>>

ChatMain    == AcceptGuest \/ AppendSock \/ CreateHandler
HandlerStep == \E h \in Handlers : \/ HandlerStart(h) \/ Relay(h) \/ HandlerEnd(h)
                                   \/ RemoveSock(h) \/ HandlerClose(h)
ThreadChatNext == ~dead /\ (GuestStep \/ ChatMain \/ HandlerStep)
ThreadChatSpec == ThreadChatInit /\ [][ThreadChatNext]_threadChatVars

-----------------------------------------------------------------------------
(***************************************************************************)
(* A message that has been read was heard once by everyone who was being   *)
(* served when it was said and is still there: clients that come and go,   *)
(* and descriptors used again, change nothing.  Excepted is who has, or    *)
(* inherits, a descriptor that went astray: whenever a guest leaves that   *)
(* is not the last of the array its entry stays, although the comment      *)
(* above the loop says that the client is removed, and the next one's is   *)
(* taken out.  Nothing is promised once a thread has taken another one's   *)
(* descriptor, or SIGPIPE has ended the server.                            *)
(***************************************************************************)
Astray(g) == \E f \in astray : owner[f] = g
HeardOnce ==
    mixed \/ dead \/
        \A s \in Guests : \A g \in audience[s] :
            guest[g] = "in" => Astray(g) \/ heard[g][s] = IF s \in says THEN 0 ELSE 1
=============================================================================
