------------------------------ MODULE UdpRoom ------------------------------
(***************************************************************************)
(* The chat room of 09_server_model over UDP: udp_room_server.h, with the  *)
(* child that speaks for the server, and one udp_room_client.h per talker. *)
(* Datagrams overtake one another, and are lost if the network is lossy.   *)
(* The parent of a client prints what it receives: a datagram to it is     *)
(* heard or lost in the step that sends it.                                *)
(***************************************************************************)
EXTENDS Naturals, FiniteSets

CONSTANTS
    Talkers,    \* the clients, each with an address of its own
    Nicks,      \* what they may type as a name
    House,      \* the name "server"
    MaxWords    \* bound: the chat messages sent

ASSUME RoomAssumption == /\ House \notin Talkers \cup Nicks
                         /\ MaxWords \in Nat

VARIABLES
    nick,       \* nick[u]
    lossy,      \* whether datagrams can be lost
    place,      \* place[u]: "out", "in", "gone"
    net,        \* datagrams on their way to the server
    clients,    \* the vector of the server
    said,       \* chat messages sent so far
    received,   \* <<u, m>>: u has received m
    owing,      \* history: <<u, m>>: u was in the room and another one sent m
    members,    \* history: logged in, and has not quit, as the server knows
    forgotten   \* history: the talkers whose QUIT was handled

udpVars == <<nick, lossy, place, net, clients, said, received, owing, members,
              forgotten>>

RoomInit ==
    /\ nick \in [Talkers -> Nicks] /\ lossy \in BOOLEAN
    /\ place = [u \in Talkers |-> "out"]
    /\ net = {} /\ clients = {} /\ said = 0
    /\ received = {} /\ owing = {} /\ members = {} /\ forgotten = {}

Msg(type, from, n) == [type |-> type, from |-> from, n |-> n]
Present(S) == {u \in S : place[u] = "in"}
NameIn(m) == IF m.from = House THEN House ELSE nick[m.from]

-----------------------------------------------------------------------------
\* The clients, and the child of the server.
Login(u) ==
    /\ place[u] = "out"
    /\ place' = [place EXCEPT ![u] = "in"]
    /\ net' = net \cup {Msg("LOGIN", u, 0)}
    /\ UNCHANGED <<nick, lossy, clients, said, received, owing, members, forgotten>>

Chat(u) ==
    /\ u \in Present(Talkers) \cup {House}
    /\ said < MaxWords
    /\ said' = said + 1
    /\ net' = net \cup {Msg("CHAT", u, said + 1)}
    /\ UNCHANGED <<nick, lossy, place, clients, received, owing, members, forgotten>>

\* "quit": both processes of the client end
Quit(u) ==
    /\ place[u] = "in"
    /\ place' = [place EXCEPT ![u] = "gone"]
    /\ net' = net \cup {Msg("QUIT", u, 0)}
    /\ UNCHANGED <<nick, lossy, clients, said, received, owing, members, forgotten>>

Lose(m) ==
    /\ lossy
    /\ net' = net \ {m}
    /\ UNCHANGED <<nick, lossy, place, clients, said, received, owing, members,
                   forgotten>>

-----------------------------------------------------------------------------
(***************************************************************************)
(* The server: one datagram, sent on to the entries whose name is not the  *)
(* one in the message.                                                     *)
(***************************************************************************)
\* sendto every address of S
SendTo(S, m) ==
    \E T \in SUBSET Present(S) :
        /\ lossy \/ T = Present(S)
        /\ received' = received \cup {<<u, m>> : u \in T}

\* those who are in the room by the datagrams handled so far
Owed(S, m) == owing' = owing \cup {<<u, m>> : u \in Present(S)}

Others(S, m) == {u \in S : nick[u] # NameIn(m)}

\* mutant: the newcomer is in the list while its login is sent on
DoLoginFirst(m) ==
    /\ m.type = "LOGIN"
    /\ SendTo(clients \cup {m.from}, m)
    /\ Owed(members, m)
    /\ clients' = clients \cup {m.from}
    /\ members' = members \cup {m.from}
    /\ UNCHANGED forgotten

\* every client hears of a login, one of the same name too
DoLogin(m) ==
    /\ m.type = "LOGIN"
    /\ SendTo(clients, m)
    /\ Owed(members, m)
    /\ clients' = clients \cup {m.from}
    /\ members' = members \cup {m.from}
    /\ UNCHANGED forgotten

DoChat(m) ==
    /\ m.type = "CHAT"
    /\ SendTo(Others(clients, m), m)
    /\ Owed(Others(members, m), m)
    /\ UNCHANGED <<clients, members, forgotten>>

\* remove_if is true of the entries whose name is another one
DoQuit(m) ==
    /\ m.type = "QUIT"
    /\ SendTo(Others(clients, m), m)
    /\ Owed(Others(members, m), m)
    /\ clients' = clients \ Others(clients, m)
    /\ members' = members \ {m.from}
    /\ forgotten' = forgotten \cup {m.from}

Receive(m) ==
    /\ net' = net \ {m}
    /\ DoLogin(m) \/ DoChat(m) \/ DoQuit(m)
    /\ UNCHANGED <<nick, lossy, place, said>>

RoomNext == \/ \E u \in Talkers : Login(u) \/ Quit(u)
            \/ \E u \in Talkers \cup {House} : Chat(u)
            \/ \E m \in net : Lose(m) \/ Receive(m)

RoomSpec == RoomInit /\ [][RoomNext]_udpVars

-----------------------------------------------------------------------------
(***************************************************************************)
(* Whatever the order of the datagrams: a talker hears what the others say *)
(* after its login has reached the server, everything on a network that    *)
(* loses nothing, and hears nothing else, neither its own words nor those  *)
(* of a talker of the same name.  Until the first QUIT is handled: from    *)
(* then on the list holds the quitter's name only, and those that remain   *)
(* hear nothing.                                                           *)
(***************************************************************************)
RoomIsHeard ==
    LET missed == owing \ received
    IN  /\ received \subseteq owing
        /\ missed # {} => lossy \/ forgotten # {}

(***************************************************************************)
(* What the comment at udp_room_server.h:95 says of do_quit: the           *)
(* information of the talker that quits is removed from the list, unless   *)
(* its login comes later.                                                  *)
(***************************************************************************)
QuitIsForgotten == forgotten \cap clients \subseteq members
=============================================================================
