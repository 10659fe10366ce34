--------------------------- MODULE Programs_proofs ---------------------------
(***************************************************************************)
(* The smaller programs, each for any value of its constants: the forking  *)
(* server, the chat room over UDP, the servers over epoll, the stress      *)
(* tester, the chat with a thread per client, the chat over poll, the pair *)
(* of processes over semaphores and the file service.                      *)
(***************************************************************************)
EXTENDS ForkServer, UdpRoom, EpollServers, StressTester, ThreadChat, PollChat,
        SemPair, FileTransfer, FiniteSetTheorems, SequenceTheorems, WellFoundedInduction, TLAPS

\* A set of numbers has a least one.
LEMMA LeastNumber ==
  ASSUME NEW S, S \subseteq Nat, S # {}
  PROVE  \E m \in S : \A n \in S : m <= n
<1>1. PICK m \in S : \A n \in S : <<n, m>> \notin OpToRel(<, Nat)
  BY WFMin, NatLessThanWellFounded
<1>2. \A n \in S : ~(n < m)
  BY <1>1, Zenon DEF OpToRel
<1> QED  BY <1>2


-----------------------------------------------------------------------------

(***************************************************************************)
(* The count, with what it needs: a connection whose child has been forked *)
(* is not forked for again.                                                *)
(***************************************************************************)
ForkInv ==
  /\ process \in [Visits -> {"none", "runs", "zombie", "reaped"}]
  /\ pending \in BOOLEAN /\ inHandler \in BOOLEAN
  /\ merged \in Nat
  /\ \A v \in Visits : process[v] \in {"runs", "zombie", "reaped"} => visit[v] \in {"served", "ended"}
  /\ visit \in [Visits -> {"none", "queued", "accepted", "served", "ended", "refused"}]
  /\ ZombiesCounted

\* Zombies can be counted.
LEMMA ZombiesFinite == IsFiniteSet(Zombies) /\ Cardinality(Zombies) \in Nat
<1>1. Zombies \subseteq Visits
  BY DEF Zombies
<1> QED  BY <1>1, ForkAssumption, FS_Subset, FS_CardinalityType

\* What touches neither processes nor signals keeps the count.
LEMMA SameZombies ==
  ASSUME ForkInv, UNCHANGED <<process, pending, inHandler, merged>>
  PROVE  ZombiesCounted'
  BY DEF ForkInv, ZombiesCounted, Zombies

\* No process has run: there is no zombie.
LEMMA ForkInitial == ForkInit => ForkInv
<1> SUFFICES ASSUME ForkInit PROVE ForkInv
  OBVIOUS
<1>1. Zombies = {}
  BY DEF ForkInit, Zombies
<1>2. Cardinality(Zombies) = 0
  BY <1>1, FS_EmptySet
<1>3. pending = FALSE /\ inHandler = FALSE /\ merged = 0
  BY DEF ForkInit
<1>4. ZombiesCounted
  BY <1>2, <1>3 DEF ZombiesCounted
<1>5. /\ process \in [Visits -> {"none", "runs", "zombie", "reaped"}]
      /\ visit \in [Visits -> {"none", "queued", "accepted", "served", "ended", "refused"}]
      /\ \A v \in Visits : process[v] = "none"
  BY DEF ForkInit
<1> QED  BY <1>3, <1>4, <1>5 DEF ForkInv

\* Every step keeps the count.
LEMMA ForkInvariant == ForkInv /\ [ForkNext]_forkVars => ForkInv'
<1> SUFFICES ASSUME ForkInv, [ForkNext]_forkVars PROVE ForkInv'
  OBVIOUS
<1>1. ASSUME NEW v \in Visits, Arrive(v) PROVE ForkInv'
  BY <1>1, SameZombies DEF Arrive, ForkInv
<1>2. ASSUME NEW v \in Visits, Depart(v) PROVE ForkInv'
  BY <1>2, SameZombies DEF Depart, ForkInv
<1>3. ASSUME NEW v \in Visits, ParentAccept(v) PROVE ForkInv'
  BY <1>3, SameZombies DEF ParentAccept, ForkInv
<1>4. ASSUME NEW v \in Visits, ParentFork(v) PROVE ForkInv'
  <2>1. process[v] = "none"
    BY <1>4 DEF ParentFork, ForkInv
  <2>2. Zombies' = Zombies
    BY <1>4, <2>1 DEF ParentFork, ForkInv, Zombies
  <2>3. ZombiesCounted'
    BY <1>4, <2>2 DEF ParentFork, ForkInv, ZombiesCounted
  <2> QED  BY <1>4, <2>3 DEF ParentFork, ForkInv
<1>5. ASSUME NEW v \in Visits, ChildExit(v) PROVE ForkInv'
  <2>1. v \notin Zombies /\ Zombies' = Zombies \cup {v}
    BY <1>5 DEF ChildExit, ForkInv, Zombies
  <2>2. Cardinality(Zombies') = Cardinality(Zombies) + 1
    BY <2>1, ZombiesFinite, FS_AddElement
  <2>3. ZombiesCounted'
    BY <1>5, <2>2 DEF ChildExit, ForkInv, ZombiesCounted
  <2> QED  BY <1>5, <2>3 DEF ChildExit, ForkInv
<1>6. CASE HandlerEnter
  <2>1. Zombies' = Zombies
    BY <1>6 DEF HandlerEnter, Zombies
  <2>2. ZombiesCounted'
    BY <1>6, <2>1 DEF HandlerEnter, ForkInv, ZombiesCounted
  <2> QED  BY <1>6, <2>2 DEF HandlerEnter, ForkInv
<1>7. CASE HandlerWaitpid
  \* There is a zombie for the handler: its signal is one of those counted.
  <2>1. Cardinality(Zombies) >= 1
    BY <1>7 DEF HandlerWaitpid, ForkInv, ZombiesCounted
  <2>2. Zombies # {}
    BY <2>1, FS_EmptySet
  <2>3. PICK v \in Zombies : process' = [process EXCEPT ![v] = "reaped"]
    BY <1>7, <2>2 DEF HandlerWaitpid
  <2>4. Zombies' = Zombies \ {v}
    BY <2>3 DEF ForkInv, Zombies
  <2>5. Cardinality(Zombies') = Cardinality(Zombies) - 1
    BY <2>3, <2>4, ZombiesFinite, FS_RemoveElement
  <2>6. ZombiesCounted'
    BY <1>7, <2>5 DEF HandlerWaitpid, ForkInv, ZombiesCounted
  <2> QED  BY <1>7, <2>3, <2>6 DEF HandlerWaitpid, ForkInv, Zombies
<1>8. CASE UNCHANGED forkVars
  BY <1>8, SameZombies DEF forkVars, ForkInv
<1> QED  BY <1>1, <1>2, <1>3, <1>4, <1>5, <1>6, <1>7, <1>8 DEF ForkNext, ForkStep

(***************************************************************************)
(* However many clients come and go, a zombie is left for every SIGCHLD    *)
(* that merged with a pending one, and for no other reason: the handler    *)
(* that waits once per signal never runs in vain.                          *)
(***************************************************************************)
THEOREM ZombiesAreCounted == ForkSpec => []ZombiesCounted
<1>1. ForkInv => ZombiesCounted
  BY DEF ForkInv
<1> QED  BY <1>1, ForkInitial, ForkInvariant, PTL DEF ForkSpec

-----------------------------------------------------------------------------

RoomTypes ==
    /\ place \in [Talkers -> {"out", "in", "gone"}]
    /\ clients \subseteq Talkers /\ members \subseteq Talkers
    /\ \A m \in net : m.type # "CHAT" => m.from \in Talkers

\* A QUIT is on its way only when both processes of the talker have ended, and
\* nothing is known of a talker that has not logged in.
QuitsAreGone == \A m \in net : m.type = "QUIT" => place[m.from] = "gone"
NewAreUnknown == /\ \A m \in net : m.from \in Talkers => place[m.from] # "out"
                 /\ \A u \in clients : place[u] # "out"

\* Whom the list names and is in the room is a member; and it names all members
\* until a QUIT has been handled.
ListedAreMembers == \A u \in clients : place[u] = "in" => u \in members
MembersAreListed == forgotten = {} => members \subseteq clients

RoomInv == /\ RoomTypes /\ QuitsAreGone /\ NewAreUnknown
           /\ ListedAreMembers /\ MembersAreListed /\ RoomIsHeard

LEMMA RoomInitial == RoomInit => RoomInv
  BY DEF RoomInit, RoomInv, RoomTypes, QuitsAreGone, NewAreUnknown, ListedAreMembers,
         MembersAreListed, RoomIsHeard

\* What talkers and the network do changes neither the list nor what is heard.
LEMMA TalkerStep ==
  ASSUME RoomInv, UNCHANGED <<clients, members, forgotten, received, owing, lossy>>,
         RoomTypes', QuitsAreGone', NewAreUnknown',
         \A u \in clients : place'[u] = "in" => place[u] = "in"
  PROVE  RoomInv'
<1>1. ListedAreMembers'
  BY DEF RoomInv, ListedAreMembers
<1>2. MembersAreListed' /\ RoomIsHeard'
  BY DEF RoomInv, MembersAreListed, RoomIsHeard
<1> QED  BY <1>1, <1>2 DEF RoomInv

LEMMA LoginKeeps == ASSUME RoomInv, NEW u \in Talkers, Login(u) PROVE RoomInv'
<1>1. /\ place' = [place EXCEPT ![u] = "in"] /\ place[u] = "out"
      /\ UNCHANGED <<clients, members, forgotten, received, owing, lossy>>
      /\ \A m \in net' : m \in net \/ (m.type = "LOGIN" /\ m.from = u)
  BY DEF Login, Msg
<1>2. RoomTypes'
  BY <1>1 DEF RoomInv, RoomTypes
<1>3. QuitsAreGone' /\ NewAreUnknown'
  <2>1. \A v \in Talkers : place'[v] = IF v = u THEN "in" ELSE place[v]
    BY <1>1 DEF RoomInv, RoomTypes
  <2>2. \A m \in net : m.type = "QUIT" => m.from \in Talkers
    BY DEF RoomInv, RoomTypes
  <2> QED  BY <1>1, <2>1, <2>2 DEF RoomInv, RoomTypes, QuitsAreGone, NewAreUnknown
<1>4. u \notin clients
  BY <1>1 DEF RoomInv, NewAreUnknown
<1>5. \A v \in clients : place'[v] = "in" => place[v] = "in"
  BY <1>1, <1>4 DEF RoomInv, RoomTypes
<1> QED  BY <1>1, <1>2, <1>3, <1>5, TalkerStep

LEMMA QuitKeeps == ASSUME RoomInv, NEW u \in Talkers, Quit(u) PROVE RoomInv'
<1>1. /\ place' = [place EXCEPT ![u] = "gone"]
      /\ UNCHANGED <<clients, members, forgotten, received, owing, lossy>>
      /\ \A m \in net' : m \in net \/ (m.type = "QUIT" /\ m.from = u)
  BY DEF Quit, Msg
<1>2. RoomTypes'
  BY <1>1 DEF RoomInv, RoomTypes
<1>3. \A v \in Talkers : place'[v] = IF v = u THEN "gone" ELSE place[v]
  BY <1>1 DEF RoomInv, RoomTypes
<1>4. QuitsAreGone' /\ NewAreUnknown'
  <2>1. \A m \in net : m.type = "QUIT" => m.from \in Talkers
    BY DEF RoomInv, RoomTypes
  <2> QED  BY <1>1, <1>3, <2>1 DEF RoomInv, RoomTypes, QuitsAreGone, NewAreUnknown
<1>5. \A v \in clients : place'[v] = "in" => place[v] = "in"
  BY <1>3 DEF RoomInv, RoomTypes
<1> QED  BY <1>1, <1>2, <1>4, <1>5, TalkerStep

LEMMA ChatKeeps == ASSUME RoomInv, NEW u \in Talkers \cup {House}, Chat(u) PROVE RoomInv'
<1>1. /\ UNCHANGED <<place, clients, members, forgotten, received, owing, lossy>>
      /\ \A m \in net' : m \in net \/ (m.type = "CHAT" /\ m.from = u)
      /\ u = House \/ place[u] = "in"
  BY DEF Chat, Msg, Present
<1>2. RoomTypes'
  BY <1>1 DEF RoomInv, RoomTypes
<1>3. QuitsAreGone' /\ NewAreUnknown'
  BY <1>1, RoomAssumption DEF RoomInv, QuitsAreGone, NewAreUnknown
<1> QED  BY <1>1, <1>2, <1>3, TalkerStep

LEMMA LoseKeeps == ASSUME RoomInv, NEW m \in net, Lose(m) PROVE RoomInv'
<1>1. RoomTypes' /\ QuitsAreGone' /\ NewAreUnknown'
  BY DEF Lose, RoomInv, RoomTypes, QuitsAreGone, NewAreUnknown
<1> QED  BY <1>1, TalkerStep DEF Lose

(***************************************************************************)
(* The heart of the matter: a datagram is sent to S and owed to those in   *)
(* O.  If who is in the room and in S is in O, nobody hears too much; if O *)
(* is part of S, nobody is left out while the network loses nothing.       *)
(***************************************************************************)
LEMMA SentAndOwed ==
  ASSUME RoomInv, NEW m, NEW S, NEW O, SendTo(S, m), Owed(O, m),
         UNCHANGED lossy,
         Present(S) \subseteq O, forgotten' = {} => forgotten = {} /\ O \subseteq S
  PROVE  RoomIsHeard'
<1>1. PICK T \in SUBSET Present(S) : /\ lossy \/ T = Present(S)
                                    /\ received' = received \cup {<<u, m>> : u \in T}
  BY DEF SendTo
<1>2. owing' = owing \cup {<<u, m>> : u \in Present(O)}
  BY DEF Owed
<1>3. T \subseteq Present(O)
  BY <1>1 DEF Present
<1>4. received' \subseteq owing'
  BY <1>1, <1>2, <1>3 DEF RoomInv, RoomIsHeard
<1>5. ~lossy /\ forgotten' = {} => owing' \subseteq received'
  <2> SUFFICES ASSUME ~lossy, forgotten' = {} PROVE owing' \subseteq received'
    OBVIOUS
  <2>1. owing \subseteq received
    BY DEF RoomInv, RoomIsHeard
  <2>2. T = Present(S) /\ Present(O) \subseteq Present(S)
    BY <1>1 DEF Present
  <2> QED  BY <1>1, <1>2, <2>1, <2>2
<1> QED  BY <1>4, <1>5 DEF RoomIsHeard

LEMMA OthersListed ==
  ASSUME RoomInv, NEW m
  PROVE  /\ Present(clients) \subseteq members
         /\ Present(Others(clients, m)) \subseteq Others(members, m)
         /\ forgotten = {} => Others(members, m) \subseteq Others(clients, m)
  BY DEF RoomInv, ListedAreMembers, MembersAreListed, Present, Others

\* What the server does with the list, for all three kinds of datagrams.
LEMMA ReceiveKeeps == ASSUME RoomInv, NEW m \in net, Receive(m) PROVE RoomInv'
<1>1. net' \subseteq net /\ UNCHANGED <<place, lossy>>
  BY DEF Receive
<1>2. QuitsAreGone'
  BY <1>1 DEF RoomInv, QuitsAreGone
<1>3. CASE DoLogin(m)
  <2>1. m.from \in Talkers /\ place[m.from] # "out"
    BY <1>3 DEF DoLogin, RoomInv, RoomTypes, NewAreUnknown
  <2>2. RoomTypes' /\ NewAreUnknown'
    BY <1>1, <1>3, <2>1 DEF DoLogin, RoomInv, RoomTypes, NewAreUnknown
  <2>3. ListedAreMembers' /\ MembersAreListed'
    BY <1>1, <1>3 DEF DoLogin, RoomInv, ListedAreMembers, MembersAreListed
  <2>4. RoomIsHeard'
    BY <1>1, <1>3, OthersListed, SentAndOwed DEF DoLogin, RoomInv, MembersAreListed
  <2> QED  BY <1>2, <2>2, <2>3, <2>4 DEF RoomInv
<1>4. CASE DoChat(m)
  <2>1. RoomTypes' /\ NewAreUnknown' /\ ListedAreMembers' /\ MembersAreListed'
    BY <1>1, <1>4 DEF DoChat, RoomInv, RoomTypes, NewAreUnknown, ListedAreMembers,
                      MembersAreListed
  <2>2. RoomIsHeard'
    BY <1>1, <1>4, OthersListed, SentAndOwed DEF DoChat
  <2> QED  BY <1>2, <2>1, <2>2 DEF RoomInv
<1>5. CASE DoQuit(m)
  <2>1. m.from \in Talkers /\ place[m.from] = "gone"
    BY <1>5 DEF DoQuit, RoomInv, RoomTypes, QuitsAreGone
  <2>2. RoomTypes' /\ NewAreUnknown' /\ ListedAreMembers'
    BY <1>1, <1>5, <2>1 DEF DoQuit, RoomInv, RoomTypes, NewAreUnknown, ListedAreMembers
  <2>3. forgotten' # {}
    BY <1>5 DEF DoQuit
  <2>4. RoomIsHeard'
    BY <1>1, <1>5, <2>3, OthersListed, SentAndOwed DEF DoQuit
  <2> QED  BY <1>2, <2>2, <2>3, <2>4 DEF RoomInv, MembersAreListed
<1> QED  BY <1>3, <1>4, <1>5 DEF Receive

LEMMA RoomInvariant == RoomInv /\ [RoomNext]_udpVars => RoomInv'
<1> SUFFICES ASSUME RoomInv, [RoomNext]_udpVars PROVE RoomInv'
  OBVIOUS
<1>1. CASE UNCHANGED udpVars
  BY <1>1 DEF udpVars, RoomInv, RoomTypes, QuitsAreGone, NewAreUnknown, ListedAreMembers,
              MembersAreListed, RoomIsHeard
<1> QED  BY <1>1, LoginKeeps, QuitKeeps, ChatKeeps, LoseKeeps, ReceiveKeeps DEF RoomNext

(***************************************************************************)
(* The room over UDP (udp_room_server.h:63-106): whatever overtakes what,  *)
(* nobody hears what is not for it, and until the first QUIT is handled    *)
(* nobody in the room misses anything a network without loss carries.      *)
(***************************************************************************)
THEOREM EveryoneIsHeard == RoomSpec => []RoomIsHeard
<1>1. RoomInv => RoomIsHeard
  BY DEF RoomInv
<1> QED  BY <1>1, RoomInitial, RoomInvariant, PTL DEF RoomSpec

-----------------------------------------------------------------------------
(***************************************************************************)
(* The servers over epoll and select of 47_epoll, 79_io_reuse and others.  *)
(***************************************************************************)

EpollTypes ==
    /\ kind \in Kinds
    /\ conn \in [Clients -> {"none", "queued", "open", "closed"}]
    /\ unread \in [Clients -> Nat] /\ sent \in [Clients -> Nat]
    /\ left \subseteq Clients /\ armed \subseteq Clients
    /\ edge \subseteq Clients \cup {Listen} /\ batch \subseteq Clients \cup {Listen}
    /\ fds_thread \in Clients \cup {none}
    /\ thread \in [Workers -> [pc : {"none", "start", "recv", "reset"},
                               fd : Clients \cup {none}, meant : Clients \cup {none}]]
    /\ misled \in BOOLEAN

\* Only what was accepted is armed, reported or worked on, and a thread has a
\* descriptor to take and then has one.
KnownAreOpened ==
    /\ \A c \in Clients : conn[c] \in {"none", "queued"} =>
          /\ c \notin armed /\ c \notin batch /\ fds_thread # c
          /\ \A w \in Alive : Working(w) # c
    /\ \A w \in Workers :
          /\ thread[w].pc = "start" => fds_thread \in Clients /\ thread[w].meant \in Clients
          /\ thread[w].pc \in {"recv", "reset"} => thread[w].fd \in Clients
          /\ thread[w].pc # "none" => kind = "oneshot"

\* c is with one of those who take care of it: epoll, main, or a thread.
InHand(c) == c \in batch \/ \E w \in Alive : Working(w) = c
Pending(c) == unread[c] > 0 \/ c \in left

\* Nobody else than epoll may be asked for the data of an open connection.
ArmedOrInHand ==
    \A c \in Opened :
        /\ kind # "oneshot" => c \in armed
        /\ kind = "oneshot" /\ ~misled => c \in armed \/ InHand(c)
        /\ kind \in {"et2", "et79"} /\ Pending(c) => c \in edge \cup batch
        /\ kind = "oneshot" /\ c \in armed /\ Pending(c) => c \in edge

\* EPOLLONESHOT: at most one of them has it.
OneHand ==
    kind = "oneshot" /\ ~misled =>
        /\ \A c \in Clients : /\ c \in armed => ~InHand(c)
                              /\ c \in batch => \A w \in Alive : Working(w) # c
        /\ \A v, w \in Alive : v # w => Working(v) # Working(w)

ClosedHaveLeft == \A c \in Clients : conn[c] = "closed" => c \in left \/ kind = "tcpudp"
EpollInv == EpollTypes /\ KnownAreOpened /\ ArmedOrInHand /\ OneHand /\ ClosedHaveLeft


LEMMA EpollInitial == EpollInit => EpollInv
<1> SUFFICES ASSUME EpollInit PROVE EpollInv
  OBVIOUS
<1>1. EpollTypes
  BY DEF EpollInit, EpollTypes, Idle
<1>2. KnownAreOpened /\ ArmedOrInHand /\ ClosedHaveLeft
  BY EpollAssumption
     DEF EpollInit, KnownAreOpened, ArmedOrInHand, ClosedHaveLeft, Opened, Alive, Idle
<1>3. OneHand
  BY DEF EpollInit, OneHand, InHand, Alive, Idle
<1> QED  BY <1>1, <1>2, <1>3 DEF EpollInv

\* What a client does is noticed by epoll if it is asked to.
LEMMA ClientKeeps ==
  ASSUME EpollInv, NEW c \in Clients, Connect(c) \/ Send(c) \/ HangUp(c)
  PROVE  EpollInv'
<1>1. /\ UNCHANGED <<kind, armed, batch, fds_thread, thread, misled>>
      /\ edge \subseteq edge'
      /\ c \in armed /\ conn'[c] = "open" => c \in edge'
      /\ \A d \in Clients : d # c => conn'[d] = conn[d] /\ unread'[d] = unread[d]
                                     /\ (d \in left' <=> d \in left)
      /\ conn'[c] = "open" => conn[c] = "open"
      /\ conn'[c] = "open" /\ c \notin armed => kind = "oneshot"
      /\ conn'[c] = "closed" => conn[c] = "closed"
      /\ conn'[c] \in {"none", "queued"} => conn[c] \in {"none", "queued"}
      /\ left \subseteq left'
  BY DEF Connect, Send, HangUp, threadVars, EpollInv, EpollTypes, ArmedOrInHand, Opened
<1>2. EpollTypes'
  BY DEF Connect, Send, HangUp, threadVars, EpollInv, EpollTypes
<1>3. KnownAreOpened'
  BY <1>1 DEF EpollInv, KnownAreOpened, Alive, Working
<1>4. OneHand' /\ ClosedHaveLeft'
  BY <1>1 DEF EpollInv, OneHand, ClosedHaveLeft, InHand, Alive, Working
<1>5. ArmedOrInHand'
  BY <1>1 DEF EpollInv, ArmedOrInHand, Opened, InHand, Pending, Alive, Working
<1> QED  BY <1>2, <1>3, <1>4, <1>5 DEF EpollInv

\* epoll_wait hands over what it has, and with EPOLLONESHOT disarms it.
LEMMA WaitKeeps == ASSUME EpollInv, EpollWait PROVE EpollInv'
<1>1. /\ UNCHANGED <<kind, conn, sent, unread, left, fds_thread, thread, misled>>
      /\ batch = {} /\ batch' = Ready /\ edge' = {}
      /\ armed' = IF kind = "oneshot" THEN armed \ Ready ELSE armed
  BY DEF EpollWait, threadVars
<1>2. \A c \in Clients : c \in Ready => conn[c] = "open" /\ c \in armed
  BY EpollAssumption DEF Ready, Readable, Opened, Listen
<1>3. \A c \in Opened : Pending(c) /\ c \in armed /\ c \in edge => c \in Ready
  BY DEF Ready, Readable, Pending
<1>4. Ready \subseteq Clients \cup {Listen}
  BY DEF Ready, Readable, Opened
<1>5. EpollTypes'
  BY <1>1, <1>4 DEF EpollInv, EpollTypes
<1>6. KnownAreOpened' /\ ClosedHaveLeft'
  BY <1>1, <1>2 DEF EpollInv, KnownAreOpened, ClosedHaveLeft, Alive, Working
<1>7. OneHand'
  BY <1>1, <1>2 DEF EpollInv, OneHand, InHand, Alive, Working
<1>8. ArmedOrInHand'
  BY <1>1, <1>2, <1>3 DEF EpollInv, ArmedOrInHand, Opened, InHand, Pending, Alive, Working
<1> QED  BY <1>5, <1>6, <1>7, <1>8 DEF EpollInv

LEMMA AcceptKeeps == ASSUME EpollInv, EpollAccept PROVE EpollInv'
<1>1. PICK c \in Queued : /\ conn' = [conn EXCEPT ![c] = "open"]
                          /\ armed' = armed \cup {c} /\ edge' = edge \cup {c}
  BY DEF EpollAccept
<1>2. /\ UNCHANGED <<kind, sent, unread, left, fds_thread, thread, misled>>
      /\ batch' = batch \ {Listen}
      /\ c \in Clients /\ conn[c] = "queued" /\ Listen \notin Clients
  BY EpollAssumption DEF EpollAccept, threadVars, Queued, Listen
<1>3. EpollTypes'
  BY <1>1, <1>2 DEF EpollInv, EpollTypes
<1>4. \A d \in Clients : conn'[d] = IF d = c THEN "open" ELSE conn[d]
  BY <1>1, <1>2 DEF EpollInv, EpollTypes
<1>5. KnownAreOpened' /\ ClosedHaveLeft'
  BY <1>1, <1>2, <1>4 DEF EpollInv, KnownAreOpened, ClosedHaveLeft, Alive, Working
<1>6. OneHand'
  BY <1>1, <1>2 DEF EpollInv, OneHand, KnownAreOpened, InHand, Alive, Working
<1>7. ArmedOrInHand'
  BY <1>1, <1>2, <1>4 DEF EpollInv, ArmedOrInHand, Opened, InHand, Pending, Alive, Working
<1> QED  BY <1>3, <1>5, <1>6, <1>7 DEF EpollInv

\* The servers that read till EAGAIN leave nothing unread of what they serve.
LEMMA ServeKeeps == ASSUME EpollInv, NEW c \in Clients, Serve(c) PROVE EpollInv'
<1>1. /\ UNCHANGED <<kind, sent, left, edge, armed, fds_thread, thread, misled>>
      /\ kind # "oneshot" /\ batch' \subseteq batch
      /\ kind # "tcpudp" => batch' = batch \ {c}
  BY DEF Serve, threadVars
<1>2. /\ \A d \in Clients : d # c => conn'[d] = conn[d] /\ unread'[d] = unread[d]
      /\ conn'[c] = conn[c] \/ (conn'[c] = "closed" /\ (c \in left \/ kind = "tcpudp"))
      /\ kind \in {"et2", "et79"} /\ conn'[c] = "open" => unread'[c] = 0 /\ c \notin left
  BY DEF Serve, ReadOnce, ReadLoop, ReadEnd, ReadTillError, ReadsOnce, EpollInv, EpollTypes
<1>3. EpollTypes'
  BY <1>1 DEF Serve, ReadOnce, ReadLoop, ReadEnd, ReadTillError, EpollInv, EpollTypes
<1>4. KnownAreOpened'
  BY <1>1, <1>2 DEF EpollInv, KnownAreOpened, Alive, Working
<1>5. ClosedHaveLeft' /\ OneHand'
  BY <1>1, <1>2 DEF EpollInv, ClosedHaveLeft, OneHand
<1>6. ArmedOrInHand'
  BY <1>1, <1>2 DEF EpollInv, ArmedOrInHand, Opened, Pending
<1> QED  BY <1>3, <1>4, <1>5, <1>6 DEF EpollInv

\* The record of one thread after a step of it.
LEMMA ThreadChanges ==
  ASSUME EpollTypes, NEW w \in Workers, NEW r,
         thread' = [thread EXCEPT ![w] = r]
  PROVE  \A v \in Workers : thread'[v] = IF v = w THEN r ELSE thread[v]
  BY DEF EpollTypes

LEMMA SpawnKeeps ==
  ASSUME EpollInv, NEW c \in Clients, NEW w \in Workers, Spawn(c, w)
  PROVE  EpollInv'
<1> DEFINE r == [pc |-> "start", fd |-> none, meant |-> c]
<1>1. /\ UNCHANGED <<kind, conn, sent, unread, left, edge, armed, misled>>
      /\ kind = "oneshot" /\ c \in batch /\ thread[w].pc = "none"
      /\ batch' = batch \ {c} /\ fds_thread' = c
      /\ thread' = [thread EXCEPT ![w] = r]
  BY DEF Spawn, kernelVars
<1>2. \A v \in Workers : thread'[v] = IF v = w THEN r ELSE thread[v]
  BY <1>1 DEF EpollInv, EpollTypes
<1>3. /\ Alive' = Alive \cup {w} /\ w \notin Alive
      /\ \A v \in Alive : Working(v)' = Working(v)
      /\ Working(w)' = c
  BY <1>1, <1>2 DEF Alive, Working
<1>4. EpollTypes'
  BY <1>1 DEF EpollInv, EpollTypes
<1>5. conn[c] \notin {"none", "queued"}
  BY <1>1 DEF EpollInv, KnownAreOpened
<1>6. KnownAreOpened'
  <2>1. \A d \in Clients : conn'[d] \in {"none", "queued"} =>
            /\ d \notin armed' /\ d \notin batch' /\ fds_thread' # d
            /\ \A v \in Alive' : Working(v)' # d
    BY <1>1, <1>3, <1>5 DEF EpollInv, KnownAreOpened
  <2>2. \A v \in Workers : /\ thread'[v].pc = "start" => fds_thread' \in Clients
                                                         /\ thread'[v].meant \in Clients
                           /\ thread'[v].pc \in {"recv", "reset"} => thread'[v].fd \in Clients
                           /\ thread'[v].pc # "none" => kind' = "oneshot"
    BY <1>1, <1>2 DEF EpollInv, KnownAreOpened
  <2> QED  BY <2>1, <2>2 DEF KnownAreOpened
<1>7. OneHand'
  BY <1>1, <1>3 DEF EpollInv, OneHand, InHand
<1>8. ArmedOrInHand' /\ ClosedHaveLeft'
  BY <1>1, <1>3 DEF EpollInv, ArmedOrInHand, ClosedHaveLeft, Opened, InHand, Pending
<1> QED  BY <1>4, <1>6, <1>7, <1>8 DEF EpollInv

\* Once a thread has been misled nothing is promised of the hands.
LEMMA StartKeeps == ASSUME EpollInv, NEW w \in Workers, WorkerStart(w) PROVE EpollInv'
<1> DEFINE r == [pc |-> "recv", fd |-> fds_thread, meant |-> thread[w].meant]
<1>0. thread[w] \in [pc : {"none", "start", "recv", "reset"},
                     fd : Clients \cup {none}, meant : Clients \cup {none}]
  BY DEF EpollInv, EpollTypes
<1>1. /\ UNCHANGED <<kind, conn, sent, unread, left, edge, armed, batch, fds_thread>>
      /\ thread[w].pc = "start" /\ fds_thread \in Clients /\ kind = "oneshot"
      /\ misled' = (misled \/ thread[w].meant # fds_thread)
  BY DEF WorkerStart, kernelVars, EpollInv, KnownAreOpened
<1>2. \A v \in Workers : thread'[v] = IF v = w THEN r ELSE thread[v]
  <2> DEFINE q == [thread EXCEPT ![w].pc = "recv"]
  <2>1. thread' = [q EXCEPT ![w].fd = fds_thread]
    BY DEF WorkerStart
  <2>2. DOMAIN q = Workers /\ DOMAIN thread = Workers
    BY DEF EpollInv, EpollTypes
  <2>3. q[w] = [pc |-> "recv", fd |-> thread[w].fd, meant |-> thread[w].meant]
    BY <1>0, <2>2
  <2>4. \A v \in Workers : v # w => q[v] = thread[v]
    BY <2>2
  <2>5. thread'[w] = [q[w] EXCEPT !.fd = fds_thread]
    BY <2>1, <2>2
  <2>6. \A v \in Workers : v # w => thread'[v] = q[v]
    BY <2>1, <2>2
  <2>7. thread'[w] = r
    BY <2>3, <2>5
  <2> QED  BY <2>4, <2>6, <2>7
<1>3. /\ Alive' = Alive /\ w \in Alive
      /\ \A v \in Alive : v # w => Working(v)' = Working(v)
      /\ Working(w)' = fds_thread /\ Working(w) = thread[w].meant
  <2>1. thread'[w].pc = "recv" /\ thread'[w].fd = fds_thread
    BY <1>2
  <2>2. \A v \in Workers : v # w => thread'[v] = thread[v]
    BY <1>2
  <2>3. Alive' = Alive /\ w \in Alive
    BY <1>1, <2>1, <2>2 DEF Alive
  <2>4. Working(w)' = fds_thread /\ Working(w) = thread[w].meant
    BY <1>1, <2>1 DEF Working
  <2> QED  BY <2>2, <2>3, <2>4 DEF Alive, Working
<1>4. ~misled' => ~misled /\ \A v \in Alive : Working(v)' = Working(v)
  BY <1>1, <1>3
<1>5. EpollTypes'
  <2>1. thread' \in [Workers -> [pc : {"none", "start", "recv", "reset"},
                                 fd : Clients \cup {none}, meant : Clients \cup {none}]]
    BY <1>0, <1>1 DEF WorkerStart, EpollInv, EpollTypes
  <2>2. misled' \in BOOLEAN
    BY <1>1 DEF EpollInv, EpollTypes
  <2> QED  BY <1>1, <2>1, <2>2 DEF EpollInv, EpollTypes
<1>6. KnownAreOpened'
  <2>1. \A v \in Workers : /\ thread'[v].pc = "start" => fds_thread' \in Clients
                                                         /\ thread'[v].meant \in Clients
                           /\ thread'[v].pc \in {"recv", "reset"} => thread'[v].fd \in Clients
                           /\ thread'[v].pc # "none" => kind' = "oneshot"
    BY <1>1, <1>2 DEF EpollInv, KnownAreOpened
  <2> QED  BY <1>1, <1>3, <2>1 DEF EpollInv, KnownAreOpened
<1>7. OneHand'
  BY <1>1, <1>3, <1>4 DEF EpollInv, OneHand, InHand
<1>8. ArmedOrInHand' /\ ClosedHaveLeft'
  BY <1>1, <1>3, <1>4 DEF EpollInv, ArmedOrInHand, ClosedHaveLeft, Opened, InHand, Pending
<1> QED  BY <1>5, <1>6, <1>7, <1>8 DEF EpollInv

LEMMA RecvKeeps == ASSUME EpollInv, NEW w \in Workers, WorkerRecv(w) PROVE EpollInv'
<1>0. thread[w] \in [pc : {"none", "start", "recv", "reset"},
                     fd : Clients \cup {none}, meant : Clients \cup {none}]
  BY DEF EpollInv, EpollTypes
<1>1. PICK c \in Clients : c = thread[w].fd
  BY DEF WorkerRecv, EpollInv, KnownAreOpened
<1>2. /\ UNCHANGED <<kind, sent, left, edge, armed, batch, fds_thread, misled>>
      /\ thread[w].pc = "recv" /\ conn[c] = "open" /\ kind = "oneshot"
      /\ Working(w) = c /\ w \in Alive
  BY <1>1 DEF WorkerRecv, EpollInv, KnownAreOpened, Working, Alive
<1>3. /\ \A d \in Clients : d # c => conn'[d] = conn[d] /\ unread'[d] = unread[d]
      /\ unread'[c] > 0 => unread[c] > 0
  BY <1>1 DEF WorkerRecv, EpollInv, EpollTypes
<1>4. EpollTypes'
  <2>1. CASE UNCHANGED <<conn, thread>>
    BY <1>1, <1>2, <2>1 DEF WorkerRecv, EpollInv, EpollTypes
  <2>2. CASE thread' = [thread EXCEPT ![w] = Idle]
    BY <1>1, <1>2, <2>2 DEF WorkerRecv, EpollInv, EpollTypes, Idle
  <2>3. CASE thread' = [thread EXCEPT ![w].pc = "reset"]
    <3>1. thread' \in [Workers -> [pc : {"none", "start", "recv", "reset"},
                                   fd : Clients \cup {none}, meant : Clients \cup {none}]]
      BY <1>0, <2>3 DEF EpollInv, EpollTypes
    <3> QED  BY <1>1, <1>2, <2>3, <3>1 DEF WorkerRecv, EpollInv, EpollTypes
  <2> QED  BY <2>1, <2>2, <2>3 DEF WorkerRecv
\* It goes on, or the connection is over and with it the thread.
<1>5. CASE conn' = conn
  <2>1. \A v \in Workers : /\ v # w => thread'[v] = thread[v]
                           /\ thread'[w].pc \in {"recv", "reset"} /\ thread'[w].fd = c
    <3>1. thread' = thread \/ thread' = [thread EXCEPT ![w].pc = "reset"]
      BY <1>1, <1>2, <1>5 DEF WorkerRecv, EpollInv, EpollTypes
    <3> QED  BY <1>0, <1>1, <1>2, <3>1 DEF EpollInv, EpollTypes
  <2>2. Alive' = Alive /\ \A v \in Alive : Working(v)' = Working(v)
    BY <1>2, <2>1 DEF Alive, Working
  <2>3. KnownAreOpened'
    BY <1>2, <1>5, <2>1, <2>2 DEF EpollInv, KnownAreOpened
  <2>4. OneHand' /\ ClosedHaveLeft'
    BY <1>2, <1>5, <2>2 DEF EpollInv, OneHand, ClosedHaveLeft, InHand
  <2>5. ArmedOrInHand'
    BY <1>2, <1>3, <1>5, <2>2 DEF EpollInv, ArmedOrInHand, Opened, InHand, Pending
  <2> QED  BY <1>4, <2>3, <2>4, <2>5 DEF EpollInv
<1>6. CASE conn' # conn
  <2>1. /\ thread' = [thread EXCEPT ![w] = Idle] /\ c \in left
        /\ conn' = [conn EXCEPT ![c] = "closed"]
    BY <1>1, <1>6 DEF WorkerRecv
  <2>2. \A v \in Workers : thread'[v] = IF v = w THEN Idle ELSE thread[v]
    BY <2>1 DEF EpollInv, EpollTypes
  <2>3. Alive' = Alive \ {w} /\ \A v \in Alive' : Working(v)' = Working(v)
    BY <1>2, <2>2 DEF Alive, Working, Idle
  <2>4. conn'[c] = "closed"
    BY <2>1 DEF EpollInv, EpollTypes
  <2>5. KnownAreOpened'
    BY <1>2, <1>3, <2>2, <2>3, <2>4 DEF EpollInv, KnownAreOpened, Idle
  <2>6. OneHand' /\ ClosedHaveLeft'
    BY <1>2, <1>3, <2>1, <2>3, <2>4 DEF EpollInv, OneHand, ClosedHaveLeft, InHand
  <2>7. ArmedOrInHand'
    BY <1>2, <1>3, <2>3, <2>4 DEF EpollInv, ArmedOrInHand, Opened, InHand, Pending
  <2> QED  BY <1>4, <2>5, <2>6, <2>7 DEF EpollInv
<1> QED  BY <1>5, <1>6

\* reset_oneshot gives the descriptor back to epoll, data or not.
LEMMA ResetKeeps == ASSUME EpollInv, NEW w \in Workers, WorkerReset(w) PROVE EpollInv'
<1>1. PICK c \in Clients : c = thread[w].fd
  BY DEF WorkerReset, EpollInv, KnownAreOpened
<1>2. /\ UNCHANGED <<kind, conn, sent, unread, left, batch, fds_thread, misled>>
      /\ thread[w].pc = "reset" /\ kind = "oneshot"
      /\ Working(w) = c /\ w \in Alive
      /\ thread' = [thread EXCEPT ![w] = Idle]
  BY <1>1 DEF WorkerReset, EpollInv, KnownAreOpened, Working, Alive
<1>3. IF conn[c] = "open" THEN armed' = armed \cup {c} /\ edge' = edge \cup {c}
                          ELSE UNCHANGED <<armed, edge>>
  BY <1>1 DEF WorkerReset
<1>4. \A v \in Workers : thread'[v] = IF v = w THEN Idle ELSE thread[v]
  BY <1>2 DEF EpollInv, EpollTypes
<1>5. Alive' = Alive \ {w} /\ \A v \in Alive' : Working(v)' = Working(v)
  BY <1>2, <1>4 DEF Alive, Working, Idle
<1>6. EpollTypes'
  BY <1>2, <1>3 DEF EpollInv, EpollTypes, Idle
<1>7. KnownAreOpened'
  BY <1>2, <1>3, <1>4, <1>5 DEF EpollInv, KnownAreOpened, Idle
<1>8. OneHand'
  <2> SUFFICES ASSUME ~misled PROVE OneHand'
    BY <1>2 DEF OneHand
  <2>1. c \notin batch /\ \A v \in Alive' : Working(v)' # c
    BY <1>2, <1>5 DEF EpollInv, OneHand
  <2> QED  BY <1>2, <1>3, <1>5, <2>1 DEF EpollInv, OneHand, InHand
<1>9. ArmedOrInHand' /\ ClosedHaveLeft'
  BY <1>2, <1>3, <1>5 DEF EpollInv, ArmedOrInHand, ClosedHaveLeft, Opened, InHand, Pending
<1> QED  BY <1>6, <1>7, <1>8, <1>9 DEF EpollInv

LEMMA EpollInvariant == EpollInv /\ [EpollNext]_epollVars => EpollInv'
<1> SUFFICES ASSUME EpollInv, [EpollNext]_epollVars PROVE EpollInv'
  OBVIOUS
<1>1. CASE UNCHANGED epollVars
  <2>1. UNCHANGED <<kind, conn, sent, unread, left, edge, armed, batch, fds_thread, thread, misled>>
    BY <1>1 DEF epollVars, kernelVars, threadVars
  <2>2. EpollTypes' /\ KnownAreOpened' /\ ClosedHaveLeft'
    BY <2>1 DEF EpollInv, EpollTypes, KnownAreOpened, ClosedHaveLeft, Alive, Working
  <2>3. OneHand' /\ ArmedOrInHand'
    BY <2>1 DEF EpollInv, OneHand, ArmedOrInHand, Opened, InHand, Pending, Alive, Working
  <2> QED  BY <2>2, <2>3 DEF EpollInv
<1>2. CASE ClientStep
  BY <1>2, ClientKeeps DEF ClientStep
<1>3. CASE EpollMain
  BY <1>3, WaitKeeps, AcceptKeeps, ServeKeeps, SpawnKeeps DEF EpollMain
<1>4. CASE WorkerStep
  BY <1>4, StartKeeps, RecvKeeps, ResetKeeps DEF WorkerStep
<1> QED  BY <1>1, <1>2, <1>3, <1>4 DEF EpollNext

(***************************************************************************)
(* The epoll servers, for any number of clients and threads: what is sent  *)
(* is read and what is hung up is closed, but for the servers that read    *)
(* once for an edge or close on EAGAIN and the threads that took another's *)
(* descriptor.                                                             *)
(***************************************************************************)
THEOREM EverythingIsRead == EpollSpec => []AllIsRead
<1>1. EpollInv => AllIsRead
  <2> SUFFICES ASSUME EpollInv PROVE AllIsRead
    OBVIOUS
  <2>1. AtRest /\ Queued # {} => AcceptsOnce
    BY DEF AtRest, Ready, Readable, LevelTriggered
  <2>2. ASSUME AtRest, NEW c \in Opened, Pending(c), kind \notin {"et", "tcpudp"}, ~misled
        PROVE  FALSE
    <3>1. c \in Readable /\ c \in Clients /\ conn[c] = "open"
      BY <2>2 DEF Readable, Pending, Opened
    <3>2. c \notin batch /\ \A w \in Alive : Working(w) # c
      BY <2>2, <3>1 DEF AtRest, Alive, Working
    <3>3. c \in armed
      BY <2>2, <3>2 DEF EpollInv, ArmedOrInHand, InHand
    <3>4. c \in LevelTriggered \cup edge
      BY <2>2, <3>2, <3>3 DEF EpollInv, EpollTypes, Kinds, ArmedOrInHand, LevelTriggered
    <3>5. c \in Ready
      BY <3>1, <3>3, <3>4 DEF Ready
    <3> QED  BY <2>2, <3>5 DEF AtRest
  <2> QED  BY <2>1, <2>2 DEF AllIsRead, EpollInv, ClosedHaveLeft, Pending
<1> QED  BY <1>1, EpollInitial, EpollInvariant, PTL DEF EpollSpec

(***************************************************************************)
(* epolloneshot_test (79_io_reuse/main.cpp): EPOLLONESHOT keeps two        *)
(* threads from one connection as long as no thread has read fds_thread    *)
(* after the loop's next turn.                                             *)
(***************************************************************************)
THEOREM OneThreadForEach == EpollSpec => []OneThreadEach
<1>1. EpollInv => OneThreadEach
  <2> SUFFICES ASSUME EpollInv, NEW v \in Alive, NEW w \in Alive, v # w,
                      Working(v) = Working(w), ~misled
               PROVE  FALSE
    BY DEF OneThreadEach
  <2>1. kind = "oneshot"
    BY DEF EpollInv, KnownAreOpened, Alive
  <2> QED  BY <2>1 DEF EpollInv, OneHand
<1> QED  BY <1>1, EpollInitial, EpollInvariant, PTL DEF EpollSpec

-----------------------------------------------------------------------------
(***************************************************************************)
(* The stress tester (86_server_modulate_debug_test/main.cpp:76-170).      *)
(***************************************************************************)

TesterTypes ==
    /\ mode \in [Conns -> {"in", "out", "closed"}]
    /\ ready \subseteq Conns /\ evs \subseteq Conns
    /\ owed \in [Conns -> 0..Room] /\ coming \in [Conns -> Nat] /\ came \in [Conns -> Nat]
    /\ peer \in [Conns -> {"open", "fin", "written", "broken", "rst"}]

\* An event handled is one that still holds; and a connection with something to
\* report is on the ready list or among the events.
TesterConn(c) ==
    /\ c \in evs => Reported(c)
    /\ Reported(c) => c \in ready \cup evs
    /\ peer[c] = "open" => mode[c] # "closed"
    /\ peer[c] = "open" /\ mode[c] = "in" => owed[c] + coming[c] + came[c] > 0
    /\ peer[c] # "open" => owed[c] = 0
TesterInv == TesterTypes /\ \A c \in Conns : TesterConn(c)


LEMMA TesterInitial == TesterInit => TesterInv
<1> SUFFICES ASSUME TesterInit PROVE TesterInv
  OBVIOUS
<1>1. TesterTypes
  BY TesterAssumption DEF TesterInit, TesterTypes
<1>2. ASSUME NEW c \in Conns PROVE TesterConn(c)
  BY TesterAssumption DEF TesterInit, TesterConn, Reported, HasInput, HasSpace, Reset
<1> QED  BY <1>1, <1>2 DEF TesterInv

\* What a connection is reported for does not go away by itself: a step that
\* gives it input or space puts it on the ready list.
LEMMA ServerKeeps ==
  ASSUME TesterInv, NEW c \in Conns, ServerAnswers(c) \/ Deliver(c) \/ Hangs(c) \/ RstComes(c)
  PROVE  TesterInv'
<1>0. /\ mode \in [Conns -> {"in", "out", "closed"}]
      /\ owed \in [Conns -> 0..Room] /\ coming \in [Conns -> Nat] /\ came \in [Conns -> Nat]
      /\ peer \in [Conns -> {"open", "fin", "written", "broken", "rst"}]
      /\ Room \in Nat \ {0}
  BY TesterAssumption DEF TesterInv, TesterTypes
<1>1. TesterTypes'
  <2>1. CASE ServerAnswers(c)
    BY <1>0, <2>1 DEF ServerAnswers, TesterInv, TesterTypes
  <2>2. CASE Deliver(c)
    BY <1>0, <2>2 DEF Deliver, TesterInv, TesterTypes
  <2>3. CASE Hangs(c)
    BY <1>0, <2>3 DEF Hangs, TesterInv, TesterTypes
  <2>4. CASE RstComes(c)
    BY <1>0, <2>4 DEF RstComes, TesterInv, TesterTypes
  <2> QED  BY <2>1, <2>2, <2>3, <2>4
<1>2. ASSUME NEW d \in Conns PROVE TesterConn(d)'
  <2>0. TesterConn(d)
    BY DEF TesterInv
  <2>1. CASE ServerAnswers(c)
    BY <1>0, <2>0, <2>1 DEF ServerAnswers, Serves, TesterConn, Reported, HasInput, HasSpace, Reset
  <2>2. CASE Deliver(c)
    BY <1>0, <2>0, <2>2 DEF Deliver, Serves, TesterConn, Reported, HasInput, HasSpace, Reset
  <2>3. CASE Hangs(c)
    BY <1>0, <2>0, <2>3 DEF Hangs, Serves, TesterConn, Reported, HasInput, HasSpace, Reset
  <2>4. CASE RstComes(c)
    BY <1>0, <2>0, <2>4 DEF RstComes, TesterConn, Reported, HasInput, HasSpace, Reset
  <2> QED  BY <2>1, <2>2, <2>3, <2>4
<1> QED  BY <1>1, <1>2 DEF TesterInv

\* The tester sets the descriptor of every event it has handled back, so that
\* epoll looks at it again.
LEMMA TesterKeeps ==
  ASSUME TesterInv,
         TesterWait \/ \E c \in Conns : ReadAnswer(c) \/ WriteRequest(c) \/ WriteFailed(c)
  PROVE  TesterInv'
<1>0. /\ mode \in [Conns -> {"in", "out", "closed"}]
      /\ ready \subseteq Conns /\ evs \subseteq Conns
      /\ owed \in [Conns -> 0..Room] /\ coming \in [Conns -> Nat] /\ came \in [Conns -> Nat]
      /\ peer \in [Conns -> {"open", "fin", "written", "broken", "rst"}]
      /\ Room \in Nat \ {0}
  BY TesterAssumption DEF TesterInv, TesterTypes
<1>1. CASE TesterWait
  <2>1. TesterTypes'
    BY <1>0, <1>1 DEF TesterWait, TesterInv, TesterTypes
  <2>2. ASSUME NEW d \in Conns PROVE TesterConn(d)'
    BY <1>0, <1>1 DEF TesterWait, TesterInv, TesterConn, Reported, HasInput, HasSpace, Reset
  <2> QED  BY <2>1, <2>2 DEF TesterInv
<1>2. ASSUME NEW c \in Conns, ReadAnswer(c) PROVE TesterInv'
  <2>0. TesterConn(c) /\ HasInput(c)
    BY <1>2 DEF ReadAnswer, TesterInv, TesterConn, Reported
  <2>1. CASE came[c] > 0
    <3>1. PICK n \in 1..2 : n <= came[c] /\ came' = [came EXCEPT ![c] = @ - n]
      BY <1>2, <2>1 DEF ReadAnswer
    <3>2. TesterTypes'
      BY <1>0, <1>2, <2>1, <3>1 DEF ReadAnswer, Mod, TesterInv, TesterTypes
    <3>3. ASSUME NEW d \in Conns PROVE TesterConn(d)'
      BY <1>0, <1>2, <2>1, <3>1 DEF ReadAnswer, Mod, TesterInv, TesterConn, Reported, HasInput,
                                    HasSpace, Reset
    <3> QED  BY <3>2, <3>3 DEF TesterInv
  <2>2. CASE ~(came[c] > 0)
    <3>1. peer[c] # "open"
      BY <2>0, <2>2 DEF HasInput
    <3>2. TesterTypes'
      BY <1>0, <1>2, <2>2 DEF ReadAnswer, Mod, TesterInv, TesterTypes
    <3>3. ASSUME NEW d \in Conns PROVE TesterConn(d)'
      BY <1>0, <1>2, <2>2, <3>1 DEF ReadAnswer, Mod, TesterInv, TesterConn, Reported, HasInput,
                                    HasSpace, Reset
    <3> QED  BY <3>2, <3>3 DEF TesterInv
  <2> QED  BY <2>1, <2>2
<1>3. ASSUME NEW c \in Conns, WriteRequest(c) PROVE TesterInv'
  <2>0. TesterConn(c) /\ owed[c] < Room
    BY <1>3 DEF WriteRequest, TesterInv, TesterConn, Reported, HasSpace
  <2>1. TesterTypes'
    BY <1>0, <1>3, <2>0 DEF WriteRequest, Mod, TesterInv, TesterTypes
  <2>2. ASSUME NEW d \in Conns PROVE TesterConn(d)'
    BY <1>0, <1>3, <2>0 DEF WriteRequest, Mod, TesterInv, TesterConn, Reported, HasInput,
                            HasSpace, Reset
  <2> QED  BY <2>1, <2>2 DEF TesterInv
<1>4. ASSUME NEW c \in Conns, WriteFailed(c) PROVE TesterInv'
  <2>1. TesterTypes'
    BY <1>0, <1>4 DEF WriteFailed, Mod, TesterInv, TesterTypes
  <2>2. ASSUME NEW d \in Conns PROVE TesterConn(d)'
    BY <1>0, <1>4 DEF WriteFailed, Mod, TesterInv, TesterConn, Reported, HasInput,
                      HasSpace, Reset
  <2> QED  BY <2>1, <2>2 DEF TesterInv
<1> QED  BY <1>1, <1>2, <1>3, <1>4

LEMMA TesterInvariant == TesterInv /\ [TesterNext]_testerVars => TesterInv'
<1> SUFFICES ASSUME TesterInv, [TesterNext]_testerVars PROVE TesterInv'
  OBVIOUS
<1>1. CASE UNCHANGED testerVars
  BY <1>1 DEF testerVars, TesterInv, TesterTypes, TesterConn, Reported, HasInput, HasSpace, Reset
<1> QED  BY <1>1, ServerKeeps, TesterKeeps DEF TesterNext

(***************************************************************************)
(* connect_test never runs dry, for any number of connections and any size *)
(* of the socket buffers: with no event left every open connection has a   *)
(* request on its way, or buffers full of them.                            *)
(***************************************************************************)
THEOREM TesterKeepsLoading == TesterSpec => []LoadGoesOn
<1>1. TesterInv => LoadGoesOn
  <2> SUFFICES ASSUME TesterInv PROVE LoadGoesOn
    OBVIOUS
  <2>1. \A c \in Conns : peer[c] = "open" => mode[c] # "closed"
    BY DEF TesterInv, TesterConn
  <2>2. ASSUME alive, evs = {}, \A c \in ready : ~Reported(c),
               NEW c \in Conns, mode[c] # "closed"
        PROVE  /\ peer[c] = "open"
               /\ \/ mode[c] = "in" /\ owed[c] + coming[c] > 0 /\ came[c] = 0
                  \/ mode[c] = "out" /\ owed[c] = Room
    <3>1. ~Reported(c)
      BY <2>2 DEF TesterInv, TesterConn
    <3>2. /\ mode[c] \in {"in", "out"} /\ owed[c] \in 0..Room
          /\ coming[c] \in Nat /\ came[c] \in Nat /\ Room \in Nat \ {0}
      BY <2>2, TesterAssumption DEF TesterInv, TesterTypes
    <3> QED  BY <3>1, <3>2 DEF TesterInv, TesterConn, Reported, HasInput, HasSpace
  <2> QED  BY <2>1, <2>2 DEF LoadGoesOn
<1> QED  BY <1>1, TesterInitial, TesterInvariant, PTL DEF TesterSpec

-----------------------------------------------------------------------------
(***************************************************************************)
(* chat_server of 48_multi_thread_server/main.cpp.                         *)
(***************************************************************************)

ChatTypes ==
    /\ guest \in [Guests -> {"out", "in", "gone"}] /\ says \subseteq Guests
    /\ audience \in [Guests -> SUBSET Guests]
    /\ heard \in [Guests -> [Guests -> Nat]]
    /\ owner \in [Fds -> Guests \cup {nobody}]
    /\ clt_sock \in Fds \cup {nobody} /\ accepting \in {"accept", "append", "create"}
    /\ socks \in [1..Cardinality(Guests) + 1 -> Fds \cup {nobody}]
    /\ sock_index \in 0..Cardinality(Guests)
    /\ handler \in [Handlers -> [pc : {"none", "start", "read", "remove", "close"},
                                 fd : Fds \cup {nobody}, meant : Fds \cup {nobody}]]
    /\ astray \subseteq Fds

Active == {h \in Handlers : handler[h].pc # "none"}
Serving == {h \in Handlers : handler[h].pc \in {"start", "read"}}

\* Every connection has a guest of its own, and every guest that is in a
\* connection which main or a thread of its own takes care of.
Connected ==
    /\ \A e, f \in Fds : owner[e] = owner[f] /\ owner[e] # nobody => e = f
    /\ \A f \in Fds : owner[f] # nobody => guest[owner[f]] # "out"
    /\ \A g \in Guests : guest[g] = "in" =>
          \E f \in Fds : /\ owner[f] = g
                         /\ \/ accepting # "accept" /\ clt_sock = f
                            \/ \E h \in Serving : handler[h].meant = f

\* The threads have different connections, and the ones they were meant to have.
OwnConnection ==
    /\ \A h \in Active : /\ handler[h].meant \in Fds /\ owner[handler[h].meant] # nobody
                         /\ handler[h].pc # "start" => handler[h].fd = handler[h].meant
                         /\ accepting # "accept" => handler[h].meant # clt_sock
    /\ \A h, k \in Active : handler[h].meant = handler[k].meant => h = k
    /\ accepting # "accept" => clt_sock \in Fds /\ owner[clt_sock] # nobody

\* The array has as many entries as there are connections from their append to
\* their removal, and one for each of them, unless its descriptor went astray.
InArray(f) == \/ accepting = "create" /\ clt_sock = f
              \/ \E h \in Active : handler[h].pc # "close" /\ handler[h].meant = f
Listed == {f \in Fds : InArray(f)}
ArrayIsRight ==
    /\ IsFiniteSet(Listed) /\ Cardinality(Listed) = sock_index
    /\ \A i \in 1..sock_index : socks[i] \in Fds /\ (InArray(socks[i]) \/ socks[i] \in astray)
    /\ \A i, j \in 1..sock_index : socks[i] = socks[j] => i = j \/ socks[i] \in astray
    /\ \A f \in Fds : InArray(f) => f \in Members \/ f \in astray

\* Whom a message is for is still served or gone.
AudienceIsServed ==
    /\ \A s \in Guests : \A g \in audience[s] :
          guest[g] # "out" /\ (guest[g] = "in" => g \in Served)
    /\ \A s \in says : audience[s] # {}
    /\ \A s \in Guests : audience[s] = {} => \A g \in Guests : heard[g][s] = 0

ChatSafe == /\ ChatTypes /\ Connected /\ OwnConnection /\ ArrayIsRight
            /\ AudienceIsServed /\ HeardOnce
ChatInv == mixed \/ dead \/ ChatSafe


LEMMA ChatInitial == ThreadChatInit => ChatInv
<1> SUFFICES ASSUME ThreadChatInit PROVE ChatSafe
  BY DEF ChatInv
<1>0. Cardinality(Guests) \in Nat
  BY ThreadChatAssumption, FS_CardinalityType
<1>1. Active = {} /\ Serving = {}
  BY DEF ThreadChatInit, NoHandler, Active, Serving
<1>2. ChatTypes
  BY <1>0 DEF ThreadChatInit, NoHandler, ChatTypes
<1>3. Connected /\ OwnConnection
  BY <1>1 DEF ThreadChatInit, Connected, OwnConnection
<1>4. ArrayIsRight
  <2>1. Listed = {} /\ sock_index = 0
    BY <1>1 DEF ThreadChatInit, Listed, InArray
  <2>2. IsFiniteSet(Listed) /\ Cardinality(Listed) = 0
    BY <2>1, FS_EmptySet
  <2> QED  BY <2>1, <2>2 DEF ArrayIsRight, Listed
<1>5. AudienceIsServed /\ HeardOnce
  BY DEF ThreadChatInit, AudienceIsServed, HeardOnce
<1> QED  BY <1>2, <1>3, <1>4, <1>5 DEF ChatSafe

\* Steps that leave the message of every guest alone, and take nobody who is in
\* from those who are served, keep what is promised of messages.
LEMMA SameMessages ==
  ASSUME ChatSafe, ~mixed, ~dead, UNCHANGED <<says, audience, heard>>,
         \A g \in Guests : guest[g] # "out" => guest'[g] # "out",
         \A g \in Guests : guest'[g] = "in" /\ guest[g] # "out" => guest[g] = "in",
         \A g \in Served : guest'[g] = "in" => g \in Served' /\ (Astray(g) => Astray(g)')
  PROVE  AudienceIsServed' /\ HeardOnce'
<1>1. \A s \in Guests : audience[s] \subseteq Guests
  BY DEF ChatSafe, ChatTypes
<1>2. AudienceIsServed'
  BY <1>1 DEF ChatSafe, AudienceIsServed
<1>3. HeardOnce'
  <2> SUFFICES ASSUME NEW s \in Guests, NEW g \in audience[s], guest'[g] = "in", ~Astray(g)'
               PROVE  heard[g][s] = IF s \in says THEN 0 ELSE 1
    BY DEF HeardOnce
  <2>1. g \in Guests /\ guest[g] = "in" /\ g \in Served
    BY <1>1 DEF ChatSafe, AudienceIsServed
  <2> QED  BY <2>1 DEF ChatSafe, HeardOnce
<1> QED  BY <1>2, <1>3

LEMMA GuestKeeps ==
  ASSUME ChatSafe, ~mixed, ~dead, GuestStep
  PROVE  ChatSafe'
<1>0. UNCHANGED <<heard, owner, clt_sock, accepting, socks, sock_index, handler, mixed, astray, dead>>
  BY DEF GuestStep, roomVars
<1>1. /\ Active' = Active /\ Serving' = Serving /\ Served' = Served
      /\ \A g : Astray(g)' <=> Astray(g)
  BY <1>0 DEF Active, Serving, Served, Astray
<1>2. OwnConnection' /\ ArrayIsRight'
  <2>1. \A f : InArray(f)' <=> InArray(f)
    BY <1>0, <1>1 DEF InArray
  <2>2. Listed' = Listed
    BY <2>1 DEF Listed
  <2> QED  BY <1>0, <1>1, <2>1, <2>2 DEF ChatSafe, OwnConnection, ArrayIsRight, Members
<1>3. ASSUME NEW g \in Guests, Say(g) PROVE ChatSafe'
  <2>1. /\ guest' = guest /\ says' = says \cup {g} /\ g \notin says
        /\ audience' = [audience EXCEPT ![g] = Served]
        /\ audience[g] = {} /\ g \in Served
    BY <1>3 DEF Say
  <2>2. \A u \in Served : u \in Guests /\ guest[u] # "out"
    BY DEF ChatSafe, Served, OwnConnection, Connected, Active
  <2>3. ChatTypes'
    BY <1>0, <2>1, <2>2 DEF ChatSafe, ChatTypes
  <2>4. Connected'
    BY <1>0, <1>1, <2>1 DEF ChatSafe, Connected
  <2>5. \A s \in Guests : audience'[s] = IF s = g THEN Served ELSE audience[s]
    BY <2>1 DEF ChatSafe, ChatTypes
  <2>6. AudienceIsServed'
    BY <1>0, <1>1, <2>1, <2>2, <2>5 DEF ChatSafe, AudienceIsServed
  <2>7. HeardOnce'
    BY <1>0, <1>1, <2>1, <2>2, <2>5 DEF ChatSafe, AudienceIsServed, HeardOnce
  <2> QED  BY <1>2, <2>3, <2>4, <2>6, <2>7 DEF ChatSafe
<1>4. ASSUME NEW g \in Guests, Leave(g) PROVE ChatSafe'
  <2>1. guest' = [guest EXCEPT ![g] = "gone"] /\ UNCHANGED <<says, audience>>
    BY <1>4 DEF Leave
  <2>2. \A u \in Guests : guest'[u] = IF u = g THEN "gone" ELSE guest[u]
    BY <2>1 DEF ChatSafe, ChatTypes
  <2>3. ChatTypes'
    BY <1>0, <2>1 DEF ChatSafe, ChatTypes
  <2>4. Connected'
    <3>1. \A f \in Fds : owner[f] # nobody => owner[f] \in Guests /\ guest'[owner[f]] # "out"
      BY <2>2 DEF ChatSafe, Connected, ChatTypes
    <3>2. \A u \in Guests : guest'[u] = "in" => guest[u] = "in"
      BY <2>2
    <3> QED  BY <1>0, <1>1, <3>1, <3>2 DEF ChatSafe, Connected
  <2>5. AudienceIsServed' /\ HeardOnce'
    BY <1>0, <1>1, <2>1, <2>2, SameMessages
  <2> QED  BY <1>2, <2>3, <2>4, <2>5 DEF ChatSafe
<1> QED  BY <1>3, <1>4 DEF GuestStep

\* A new connection gets a descriptor nobody has.
LEMMA GuestAccepted ==
  ASSUME ChatSafe, ~mixed, ~dead, AcceptGuest
  PROVE  ChatSafe'
<1>1. PICK f \in Fds : f = Lowest /\ owner[f] = nobody
  <2>1. FreeFds \subseteq Nat /\ FreeFds # {}
    BY ThreadChatAssumption DEF AcceptGuest, FreeFds
  <2>2. Lowest \in FreeFds
    BY <2>1, LeastNumber DEF Lowest
  <2> QED  BY <2>2 DEF FreeFds
<1>2. PICK g \in Guests : /\ \A u \in Guests : guest[u] = "out" <=> g <= u
                         /\ guest' = [guest EXCEPT ![g] = "in"]
                         /\ owner' = [owner EXCEPT ![f] = g]
  BY <1>1 DEF AcceptGuest
<1>3. /\ UNCHANGED <<says, audience, heard, socks, sock_index, handler, mixed, astray, dead>>
      /\ clt_sock' = f /\ accepting = "accept" /\ accepting' = "append"
  BY <1>1 DEF AcceptGuest, roomVars
<1>4. guest[g] = "out" /\ g # nobody
  BY <1>2, ThreadChatAssumption
<1>5. /\ \A u \in Guests : guest'[u] = IF u = g THEN "in" ELSE guest[u]
      /\ \A e \in Fds : owner'[e] = IF e = f THEN g ELSE owner[e]
  BY <1>2 DEF ChatSafe, ChatTypes
<1>6. Active' = Active /\ Serving' = Serving /\ Members' = Members /\ Serving \subseteq Active
  BY <1>3 DEF Active, Serving, Members
<1>7. \A h \in Active : handler'[h] = handler[h] /\ handler[h].meant \in Fds /\ handler[h].meant # f
  BY <1>1, <1>3 DEF ChatSafe, OwnConnection
<1>8. ChatTypes'
  BY <1>2, <1>3 DEF ChatSafe, ChatTypes
<1>9. Connected'
  <2>1. \A e \in Fds : owner[e] # nobody => owner[e] \in Guests /\ owner[e] # g /\ e # f
    BY <1>1, <1>4 DEF ChatSafe, ChatTypes, Connected
  <2>2. \A d, e \in Fds : owner'[d] = owner'[e] /\ owner'[d] # nobody => d = e
    BY <1>4, <1>5, <2>1 DEF ChatSafe, Connected
  <2>3. \A e \in Fds : owner'[e] # nobody => guest'[owner'[e]] # "out"
    BY <1>4, <1>5, <2>1 DEF ChatSafe, Connected
  <2>4. \A u \in Guests : guest'[u] = "in" =>
          \E e \in Fds : /\ owner'[e] = u
                         /\ \/ accepting' # "accept" /\ clt_sock' = e
                            \/ \E h \in Serving' : handler'[h].meant = e
    <3>1. f \in Fds /\ owner'[f] = g /\ accepting' # "accept" /\ clt_sock' = f
      BY <1>3, <1>5
    <3>2. ASSUME NEW u \in Guests, u # g, guest'[u] = "in"
          PROVE  \E e \in Fds : owner'[e] = u /\ \E h \in Serving' : handler'[h].meant = e
      <4>1. PICK e \in Fds : owner[e] = u /\ \E h \in Serving : handler[h].meant = e
        BY <1>3, <1>5, <3>2 DEF ChatSafe, Connected
      <4>2. owner'[e] = u
        BY <1>5, <2>1, <4>1, ThreadChatAssumption
      <4> QED  BY <1>3, <1>6, <4>1, <4>2
    <3> QED  BY <3>1, <3>2
  <2> QED  BY <2>2, <2>3, <2>4 DEF Connected
<1>10. OwnConnection'
  BY <1>3, <1>4, <1>5, <1>6, <1>7 DEF ChatSafe, OwnConnection
<1>11. ArrayIsRight'
  <2>1. \A e : InArray(e)' <=> InArray(e)
    BY <1>3, <1>6, <1>7 DEF InArray
  <2>2. Listed' = Listed
    BY <2>1 DEF Listed
  <2> QED  BY <1>3, <1>6, <2>1, <2>2 DEF ChatSafe, ArrayIsRight
<1>12. \A u \in Served : u \in Served' /\ (Astray(u) => Astray(u)')
  <2>1. \A u \in Served : u \in Served' /\ u \in Guests
    BY <1>3, <1>5, <1>7 DEF Served, Active
  <2>2. \A u \in Guests : Astray(u) => Astray(u)'
    BY <1>1, <1>3, <1>5, ThreadChatAssumption DEF Astray, ChatSafe, ChatTypes
  <2> QED  BY <2>1, <2>2
<1>13. AudienceIsServed' /\ HeardOnce'
  BY <1>3, <1>4, <1>5, <1>12, SameMessages
<1> QED  BY <1>8, <1>9, <1>10, <1>11, <1>13 DEF ChatSafe

\* There is room in the array: the connections in it and the new one have
\* different guests.
LEMMA ArrayHasRoom ==
  ASSUME ChatSafe, accepting = "append"
  PROVE  /\ sock_index + 1 \in 1..Cardinality(Guests)
         /\ clt_sock \in Fds /\ ~InArray(clt_sock)
<1>1. Cardinality(Guests) \in Nat /\ sock_index \in Nat
  BY ThreadChatAssumption, FS_CardinalityType DEF ChatSafe, ChatTypes
<1>2. clt_sock \in Fds /\ owner[clt_sock] # nobody /\ ~InArray(clt_sock)
  BY DEF ChatSafe, OwnConnection, InArray
<1> DEFINE T == Guests \ {owner[clt_sock]}
           seat == [f \in Listed |-> owner[f]]
<1>3. IsFiniteSet(T) /\ Cardinality(T) = Cardinality(Guests) - 1
  BY <1>2, ThreadChatAssumption, FS_RemoveElement DEF ChatSafe, ChatTypes
<1>4. IsFiniteSet(Listed) /\ Cardinality(Listed) = sock_index
  BY DEF ChatSafe, ArrayIsRight
<1>5. ASSUME NEW f \in Listed PROVE f \in Fds /\ owner[f] # nobody /\ f # clt_sock
  BY <1>2 DEF Listed, InArray, ChatSafe, OwnConnection
<1>6. seat \in [Listed -> T]
  BY <1>2, <1>5 DEF ChatSafe, ChatTypes, Connected
<1>7. \A e, f \in Listed : e # f => seat[e] # seat[f]
  BY <1>5 DEF ChatSafe, Connected
<1> HIDE DEF seat, T
<1>8. ~(Cardinality(T) < Cardinality(Listed))
  BY <1>3, <1>4, <1>6, <1>7, FS_PigeonHole
<1> QED  BY <1>1, <1>2, <1>3, <1>4, <1>8

LEMMA GuestAppended ==
  ASSUME ChatSafe, ~mixed, ~dead, AppendSock
  PROVE  ChatSafe'
<1>1. /\ UNCHANGED <<guest, says, audience, heard, owner, clt_sock, handler, mixed, astray, dead>>
      /\ accepting = "append" /\ accepting' = "create" /\ sock_index' = sock_index + 1
      /\ socks' = [socks EXCEPT ![sock_index + 1] = clt_sock]
  BY DEF AppendSock, guestVars
<1>2. /\ sock_index \in Nat /\ Cardinality(Guests) \in Nat
      /\ sock_index + 1 \in 1..Cardinality(Guests)
      /\ clt_sock \in Fds /\ ~InArray(clt_sock)
  BY <1>1, ArrayHasRoom, ThreadChatAssumption, FS_CardinalityType DEF ChatSafe, ChatTypes
<1>3. socks' \in [1..Cardinality(Guests) + 1 -> Fds \cup {nobody}]
  BY <1>1, <1>2 DEF ChatSafe, ChatTypes
<1>4. /\ \A i \in 1..sock_index : socks'[i] = socks[i] /\ i # sock_index + 1
      /\ socks'[sock_index + 1] = clt_sock
      /\ 1..sock_index' = (1..sock_index) \cup {sock_index + 1}
  BY <1>1, <1>2 DEF ChatSafe, ChatTypes
<1>5. /\ Active' = Active /\ Serving' = Serving /\ Served' = Served
      /\ \A g : Astray(g)' <=> Astray(g)
  BY <1>1 DEF Active, Serving, Served, Astray
<1>6. /\ \A f : InArray(f)' <=> InArray(f) \/ f = clt_sock
      /\ Listed' = Listed \cup {clt_sock}
  <2>1. \A f : InArray(f)' <=> InArray(f) \/ f = clt_sock
    BY <1>1, <1>5 DEF InArray
  <2> QED  BY <1>2, <2>1 DEF Listed
<1>7. Members' = Members \cup {clt_sock}
  BY <1>4 DEF Members
<1>8. ArrayIsRight'
  <2>1. \A i \in 1..sock_index : socks[i] # clt_sock \/ clt_sock \in astray
    BY <1>2 DEF ChatSafe, ArrayIsRight
  <2>2. (\A i \in 1..sock_index : socks[i] \in Fds /\ (InArray(socks[i]) \/ socks[i] \in astray))'
    BY <1>1, <1>2, <1>4, <1>6 DEF ChatSafe, ArrayIsRight
  <2>3. \A i, j \in 1..sock_index' : socks'[i] = socks'[j] => i = j \/ socks'[i] \in astray'
    BY <1>1, <1>4, <2>1 DEF ChatSafe, ArrayIsRight
  <2>4. \A f \in Fds : InArray(f)' => f \in Members' \/ f \in astray'
    BY <1>1, <1>6, <1>7 DEF ChatSafe, ArrayIsRight
  <2>5. IsFiniteSet(Listed) /\ Cardinality(Listed) = sock_index /\ clt_sock \notin Listed
    BY <1>2 DEF ChatSafe, ArrayIsRight, Listed
  <2>6. IsFiniteSet(Listed') /\ Cardinality(Listed') = sock_index'
    BY <1>1, <1>6, <2>5, FS_AddElement
  <2> QED  BY <2>2, <2>3, <2>4, <2>6 DEF ArrayIsRight
<1>9. ChatTypes'
  BY <1>1, <1>2, <1>3 DEF ChatSafe, ChatTypes
<1>10. Connected' /\ OwnConnection'
  BY <1>1, <1>5 DEF ChatSafe, Connected, OwnConnection
<1>11. AudienceIsServed' /\ HeardOnce'
  BY <1>1, <1>5, SameMessages
<1> QED  BY <1>8, <1>9, <1>10, <1>11 DEF ChatSafe

LEMMA GuestGetsThread ==
  ASSUME ChatSafe, ~mixed, ~dead, CreateHandler
  PROVE  ChatSafe'
<1>1. PICK h \in Handlers : h \in Unused /\ handler' = [handler EXCEPT ![h] =
                               [pc |-> "start", fd |-> nobody, meant |-> clt_sock]]
  BY DEF CreateHandler, Unused
<1>2. /\ UNCHANGED <<guest, says, audience, heard, owner, clt_sock, socks, sock_index, mixed,
                     astray, dead>>
      /\ accepting = "create" /\ accepting' = "accept" /\ handler[h].pc = "none"
  BY <1>1 DEF CreateHandler, Unused, guestVars, roomVars
<1>3. /\ \A k \in Handlers : k # h => handler'[k] = handler[k]
      /\ handler'[h].pc = "start" /\ handler'[h].meant = clt_sock
  BY <1>1 DEF ChatSafe, ChatTypes
<1>4. /\ Active' = Active \cup {h} /\ Serving' = Serving \cup {h} /\ h \notin Active
      /\ Serving \subseteq Active
  BY <1>2, <1>3 DEF Active, Serving
<1>5. \A k \in Active : handler'[k] = handler[k] /\ handler[k].meant # clt_sock
  BY <1>2, <1>3, <1>4 DEF ChatSafe, OwnConnection, Active
<1>6. ChatTypes'
  BY <1>1, <1>2 DEF ChatSafe, ChatTypes
<1>7. Connected'
  BY <1>2, <1>3, <1>4, <1>5 DEF ChatSafe, Connected
<1>8. OwnConnection'
  BY <1>2, <1>3, <1>4, <1>5 DEF ChatSafe, OwnConnection
<1>9. \A f : InArray(f)' <=> InArray(f)
  BY <1>2, <1>3, <1>4, <1>5 DEF InArray
<1>10. ArrayIsRight'
  <2>1. Listed' = Listed
    BY <1>9 DEF Listed
  <2> QED  BY <1>2, <1>9, <2>1 DEF ChatSafe, ArrayIsRight, Members
<1>11. \A g \in Served : g \in Served' /\ (Astray(g) => Astray(g)')
  BY <1>2, <1>3 DEF Served, Astray
<1>12. AudienceIsServed' /\ HeardOnce'
  BY <1>2, <1>11, SameMessages
<1> QED  BY <1>6, <1>7, <1>8, <1>10, <1>12 DEF ChatSafe

\* A thread that takes the descriptor it was meant to have.
LEMMA ThreadTakesItsOwn ==
  ASSUME ChatSafe, ~mixed, ~dead, NEW h \in Handlers, HandlerStart(h), ~mixed'
  PROVE  ChatSafe'
<1>1. /\ UNCHANGED <<guest, says, audience, heard, owner, clt_sock, accepting, socks, sock_index,
                     astray, dead>>
      /\ handler[h].pc = "start" /\ handler[h].meant = clt_sock
  BY DEF HandlerStart, guestVars, roomVars
<1>2. handler[h] \in [pc : {"none", "start", "read", "remove", "close"},
                      fd : Fds \cup {nobody}, meant : Fds \cup {nobody}]
  BY DEF ChatSafe, ChatTypes
<1>3. /\ \A k \in Handlers : k # h => handler'[k] = handler[k]
      /\ handler'[h] = [pc |-> "read", fd |-> clt_sock, meant |-> clt_sock]
  <2> DEFINE q == [handler EXCEPT ![h].pc = "read"]
  <2>1. handler' = [q EXCEPT ![h].fd = clt_sock]
    BY DEF HandlerStart
  <2>2. DOMAIN q = Handlers /\ DOMAIN handler = Handlers
    BY DEF ChatSafe, ChatTypes
  <2>3. q[h] = [pc |-> "read", fd |-> handler[h].fd, meant |-> clt_sock]
    BY <1>1, <1>2, <2>2
  <2>4. \A k \in Handlers : k # h => q[k] = handler[k]
    BY <2>2
  <2>5. handler'[h] = [q[h] EXCEPT !.fd = clt_sock]
    BY <2>1, <2>2
  <2>6. \A k \in Handlers : k # h => handler'[k] = q[k]
    BY <2>1, <2>2
  <2> QED  BY <2>3, <2>4, <2>5, <2>6
<1>4. /\ \A k \in Handlers : handler'[k].meant = handler[k].meant
      /\ \A k \in Handlers : k # h => handler'[k].pc = handler[k].pc /\ handler'[k].fd = handler[k].fd
      /\ handler'[h].pc = "read" /\ handler'[h].fd = clt_sock
  BY <1>1, <1>3
<1>5. /\ Active' = Active /\ Serving' = Serving /\ Served' = Served
      /\ \A g : Astray(g)' <=> Astray(g)
  BY <1>1, <1>4 DEF Active, Serving, Served, Astray
<1>6. ChatTypes'
  <2>1. handler' \in [Handlers -> [pc : {"none", "start", "read", "remove", "close"},
                                   fd : Fds \cup {nobody}, meant : Fds \cup {nobody}]]
    BY <1>1, <1>2 DEF HandlerStart, ChatSafe, ChatTypes
  <2> QED  BY <1>1, <2>1 DEF ChatSafe, ChatTypes
<1>7. Connected'
  BY <1>1, <1>4, <1>5 DEF ChatSafe, Connected, Serving
<1>8. OwnConnection'
  <2>1. \A k \in Active : k \in Handlers /\ (k = h \/ handler'[k] = handler[k])
    BY <1>3 DEF Active
  <2>2. \A k \in Active : handler'[k].pc # "start" => handler'[k].fd = handler'[k].meant
    BY <1>1, <1>4, <2>1 DEF ChatSafe, OwnConnection
  <2>3. \A k \in Active : handler'[k].meant = handler[k].meant
    BY <1>4, <2>1
  <2> QED  BY <1>1, <1>5, <2>2, <2>3 DEF ChatSafe, OwnConnection
<1>9. \A f : InArray(f)' <=> InArray(f)
  <2>1. \A k \in Active : handler'[k].meant = handler[k].meant
                          /\ (handler'[k].pc = "close" <=> handler[k].pc = "close")
    BY <1>1, <1>4 DEF Active
  <2> QED  BY <1>1, <1>5, <2>1 DEF InArray
<1>10. ArrayIsRight'
  <2>1. Listed' = Listed
    BY <1>9 DEF Listed
  <2> QED  BY <1>1, <1>9, <2>1 DEF ChatSafe, ArrayIsRight, Members
<1>11. AudienceIsServed' /\ HeardOnce'
  BY <1>1, <1>5, SameMessages
<1> QED  BY <1>6, <1>7, <1>8, <1>10, <1>11 DEF ChatSafe

\* Whoever is served has one entry in the array, unless it went astray.
LEMMA OneEntryEach ==
  ASSUME ChatSafe, NEW g \in Served, g \in Guests, ~Astray(g)
  PROVE  Cardinality({i \in 1..sock_index : owner[socks[i]] = g}) = 1
<1>1. PICK h \in Serving : owner[handler[h].meant] = g
  BY DEF Served, Serving
<1>2. PICK f \in Fds : f = handler[h].meant /\ owner[f] = g /\ f \notin astray /\ f \in Members
  <2>1. handler[h].meant \in Fds /\ InArray(handler[h].meant)
    BY DEF ChatSafe, OwnConnection, InArray, Serving, Active
  <2> QED  BY <1>1, <2>1 DEF ChatSafe, ArrayIsRight, Astray
<1>3. PICK i \in 1..sock_index : socks[i] = f
  BY <1>2 DEF Members
<1>4. {j \in 1..sock_index : owner[socks[j]] = g} = {i}
  <2>1. g # nobody
    BY ThreadChatAssumption
  <2>2. ASSUME NEW j \in 1..sock_index, owner[socks[j]] = g PROVE j = i
    <3>1. socks[j] \in Fds
      BY DEF ChatSafe, ArrayIsRight
    <3>2. socks[j] = f
      BY <1>2, <2>1, <2>2, <3>1 DEF ChatSafe, Connected
    <3>3. socks[j] = socks[i] /\ socks[j] \notin astray
      BY <1>2, <1>3, <3>2
    <3>4. \A m, n \in 1..sock_index : socks[m] = socks[n] => m = n \/ socks[m] \in astray
      BY DEF ChatSafe, ArrayIsRight
    <3> QED  BY <3>3, <3>4
  <2>3. owner[socks[i]] = g
    BY <1>2, <1>3
  <2> QED  BY <2>2, <2>3
<1> QED  BY <1>4, FS_Singleton

LEMMA MessageRelayed ==
  ASSUME ChatSafe, ~mixed, ~dead, NEW h \in Handlers, Relay(h), ~dead'
  PROVE  ChatSafe'
<1> DEFINE Entries(g) == Cardinality({i \in 1..sock_index : owner[socks[i]] = g})
<1>1. UNCHANGED <<guest, audience, owner, clt_sock, accepting, socks, sock_index, handler, mixed, astray>>
  BY DEF Relay, roomVars
<1>2. PICK s : /\ s = owner[handler[h].fd] /\ s \in says /\ says' = says \ {s}
               /\ heard' = [g \in Guests |-> [heard[g] EXCEPT ![s] = @ + Entries(g)]]
  BY DEF Relay
<1>3. \A g : Entries(g) \in Nat
  <2> SUFFICES ASSUME NEW g PROVE Entries(g) \in Nat
    OBVIOUS
  <2>1. IsFiniteSet(1..sock_index)
    BY FS_Interval, ThreadChatAssumption, FS_CardinalityType DEF ChatSafe, ChatTypes
  <2>2. IsFiniteSet({i \in 1..sock_index : owner[socks[i]] = g})
    BY <2>1, FS_Subset
  <2> QED  BY <2>2, FS_CardinalityType
<1>4. s \in Guests
  BY <1>2 DEF ChatSafe, ChatTypes
<1>5. \A g \in Served \cap Guests : Astray(g) \/ Entries(g) = 1
  BY OneEntryEach
<1> HIDE DEF Entries
<1>6. \A g, t \in Guests : heard'[g][t] = IF t = s THEN heard[g][t] + Entries(g) ELSE heard[g][t]
  BY <1>2 DEF ChatSafe, ChatTypes
<1>7. /\ Active' = Active /\ Serving' = Serving /\ Served' = Served
      /\ \A g : Astray(g)' <=> Astray(g)
  BY <1>1 DEF Active, Serving, Served, Astray
<1>8. ChatTypes'
  <2>1. heard' \in [Guests -> [Guests -> Nat]]
    BY <1>2, <1>3, <1>4 DEF ChatSafe, ChatTypes
  <2>2. says' \subseteq Guests
    BY <1>2 DEF ChatSafe, ChatTypes
  <2> QED  BY <1>1, <2>1, <2>2 DEF ChatSafe, ChatTypes
<1>9. Connected' /\ OwnConnection' /\ ArrayIsRight'
  <2>1. \A f : InArray(f)' <=> InArray(f)
    BY <1>1, <1>7 DEF InArray
  <2>2. Listed' = Listed
    BY <2>1 DEF Listed
  <2> QED  BY <1>1, <1>7, <2>1, <2>2 DEF ChatSafe, Connected, OwnConnection, ArrayIsRight, Members
<1>10. AudienceIsServed'
  <2>1. audience[s] # {}
    BY <1>2 DEF ChatSafe, AudienceIsServed
  <2> QED  BY <1>1, <1>2, <1>6, <1>7, <2>1 DEF ChatSafe, AudienceIsServed
<1>11. HeardOnce'
  <2> SUFFICES ASSUME NEW t \in Guests, NEW g \in audience[t], guest[g] = "in", ~Astray(g)
               PROVE  heard'[g][t] = IF t \in says' THEN 0 ELSE 1
    BY <1>1, <1>7 DEF HeardOnce
  <2>1. g \in Guests /\ g \in Served
    BY DEF ChatSafe, ChatTypes, AudienceIsServed
  <2>2. heard[g][t] = IF t \in says THEN 0 ELSE 1
    BY DEF ChatSafe, HeardOnce
  <2>3. CASE t = s
    BY <1>2, <1>5, <1>6, <2>1, <2>2, <2>3
  <2>4. CASE t # s
    BY <1>2, <1>6, <2>1, <2>2, <2>4
  <2> QED  BY <2>3, <2>4
<1> QED  BY <1>8, <1>9, <1>10, <1>11 DEF ChatSafe

\* A step of thread h that changes its pc, or ends it: what it was meant to have
\* stays, and no other thread is touched.
LEMMA ThreadGoesOn ==
  ASSUME ChatSafe, NEW h \in Active, NEW pc \in {"remove", "close"},
         handler' = [handler EXCEPT ![h].pc = pc]
  PROVE  /\ \A k \in Handlers : k # h => handler'[k] = handler[k]
         /\ handler'[h] = [pc |-> pc, fd |-> handler[h].fd, meant |-> handler[h].meant]
         /\ handler' \in [Handlers -> [pc : {"none", "start", "read", "remove", "close"},
                                       fd : Fds \cup {nobody}, meant : Fds \cup {nobody}]]
         /\ Active' = Active
<1>1. /\ handler \in [Handlers -> [pc : {"none", "start", "read", "remove", "close"},
                                   fd : Fds \cup {nobody}, meant : Fds \cup {nobody}]]
      /\ h \in Handlers
  BY DEF ChatSafe, ChatTypes, Active
<1>2. \A k \in Handlers : k # h => handler'[k] = handler[k]
  BY <1>1
<1>3. handler'[h] = [pc |-> pc, fd |-> handler[h].fd, meant |-> handler[h].meant]
  BY <1>1
<1>4. handler' \in [Handlers -> [pc : {"none", "start", "read", "remove", "close"},
                                 fd : Fds \cup {nobody}, meant : Fds \cup {nobody}]]
  BY <1>1
<1>5. handler'[h].pc # "none" /\ handler[h].pc # "none"
  BY <1>3 DEF Active
<1> QED  BY <1>1, <1>2, <1>3, <1>4, <1>5 DEF Active

\* The thread has read the end: its guest has gone.
LEMMA ThreadFindsEnd ==
  ASSUME ChatSafe, ~mixed, ~dead, NEW h \in Handlers, HandlerEnd(h)
  PROVE  ChatSafe'
<1>1. /\ UNCHANGED <<guest, says, audience, heard, owner, clt_sock, accepting, socks, sock_index,
                     mixed, astray, dead>>
      /\ handler[h].pc = "read" /\ h \in Active
  BY DEF HandlerEnd, guestVars, roomVars, Active
<1>2. handler' = [handler EXCEPT ![h].pc = "remove"]
  BY DEF HandlerEnd
<1>3. /\ \A k \in Handlers : k # h => handler'[k] = handler[k]
      /\ handler'[h] = [pc |-> "remove", fd |-> handler[h].fd, meant |-> handler[h].meant]
      /\ handler' \in [Handlers -> [pc : {"none", "start", "read", "remove", "close"},
                                    fd : Fds \cup {nobody}, meant : Fds \cup {nobody}]]
      /\ Active' = Active
  BY <1>1, <1>2, ThreadGoesOn
<1>4. /\ \A k \in Handlers : handler'[k].meant = handler[k].meant /\ handler'[k].fd = handler[k].fd
      /\ \A k \in Handlers : k # h => handler'[k].pc = handler[k].pc
      /\ handler'[h].pc = "remove"
  BY <1>3
<1>5. Serving' = Serving \ {h}
  BY <1>4 DEF Serving
<1>6. PICK f \in Fds : f = handler[h].meant /\ f = handler[h].fd /\ owner[f] \in Guests
  BY <1>1 DEF ChatSafe, OwnConnection, ChatTypes
<1>7. guest[owner[f]] = "gone"
  BY <1>6, ThreadChatAssumption DEF HandlerEnd
<1>8. ChatTypes'
  BY <1>1, <1>3 DEF ChatSafe, ChatTypes
<1>9. Connected'
  <2>1. ASSUME NEW g \in Guests, guest[g] = "in"
        PROVE  \E e \in Fds : /\ owner[e] = g
                              /\ \/ accepting # "accept" /\ clt_sock = e
                                 \/ \E k \in Serving' : handler'[k].meant = e
    <3>1. PICK e \in Fds : /\ owner[e] = g
                           /\ \/ accepting # "accept" /\ clt_sock = e
                              \/ \E k \in Serving : handler[k].meant = e
      BY <2>1 DEF ChatSafe, Connected
    <3>2. e # f
      BY <1>7, <2>1, <3>1
    <3>3. \A k \in Serving : k \in Handlers
      BY DEF Serving
    <3> QED  BY <1>4, <1>5, <1>6, <3>1, <3>2, <3>3
  <2> QED  BY <1>1, <2>1 DEF ChatSafe, Connected
<1>10. OwnConnection'
  <2>1. \A k \in Active : k \in Handlers
    BY DEF Active
  <2>2. \A k \in Active : handler'[k].pc # "start" => handler'[k].fd = handler'[k].meant
    BY <1>1, <1>4, <2>1 DEF ChatSafe, OwnConnection
  <2> QED  BY <1>1, <1>3, <1>4, <2>1, <2>2 DEF ChatSafe, OwnConnection
<1>11. \A e : InArray(e)' <=> InArray(e)
  <2>1. \A k \in Active : handler'[k].meant = handler[k].meant
                          /\ (handler'[k].pc = "close" <=> handler[k].pc = "close")
    BY <1>1, <1>4 DEF Active
  <2> QED  BY <1>1, <1>3, <2>1 DEF InArray
<1>12. ArrayIsRight'
  <2>1. Listed' = Listed
    BY <1>11 DEF Listed
  <2> QED  BY <1>1, <1>11, <2>1 DEF ChatSafe, ArrayIsRight, Members
<1>13. ASSUME NEW g \in Served, guest[g] = "in" PROVE g \in Served'
  <2>1. PICK k \in Serving : owner[handler[k].meant] = g
    BY DEF Served, Serving
  <2>2. k \in Serving' /\ k \in Handlers
    BY <1>5, <1>6, <1>7, <1>13, <2>1 DEF Serving
  <2> QED  BY <1>1, <1>4, <1>13, <2>1, <2>2 DEF Served, Serving
<1>14. \A g : Astray(g)' <=> Astray(g)
  BY <1>1 DEF Astray
<1>15. AudienceIsServed' /\ HeardOnce'
  BY <1>1, <1>13, <1>14, SameMessages
<1> QED  BY <1>8, <1>9, <1>10, <1>12, <1>15 DEF ChatSafe

\* One entry goes; if it is not the leaver's, both descriptors go astray.
LEMMA SockEntryRemoved ==
  ASSUME ChatSafe, ~mixed, ~dead, NEW h \in Handlers, RemoveSock(h)
  PROVE  ChatSafe'
<1>1. /\ UNCHANGED <<guest, says, audience, heard, owner, clt_sock, accepting, mixed, dead>>
      /\ handler[h].pc = "remove" /\ h \in Active /\ sock_index' = sock_index - 1
      /\ RemoveFd(handler[h].fd)
  BY DEF RemoveSock, guestVars, Active
<1>2. handler' = [handler EXCEPT ![h].pc = "close"]
  BY DEF RemoveSock
<1>3. /\ \A k \in Handlers : k # h => handler'[k] = handler[k]
      /\ handler'[h] = [pc |-> "close", fd |-> handler[h].fd, meant |-> handler[h].meant]
      /\ handler' \in [Handlers -> [pc : {"none", "start", "read", "remove", "close"},
                                    fd : Fds \cup {nobody}, meant : Fds \cup {nobody}]]
      /\ Active' = Active
  BY <1>1, <1>2, ThreadGoesOn
<1>4. /\ \A k \in Handlers : handler'[k].meant = handler[k].meant /\ handler'[k].fd = handler[k].fd
      /\ \A k \in Handlers : k # h => handler'[k].pc = handler[k].pc
      /\ handler'[h].pc = "close"
  BY <1>3
<1>5. Serving' = Serving /\ Served' = Served
  BY <1>1, <1>4 DEF Serving, Served
<1>6. PICK f \in Fds : /\ f = handler[h].meant /\ f = handler[h].fd
                       /\ f \in Listed
  BY <1>1 DEF ChatSafe, OwnConnection, Listed, InArray
<1>7. /\ sock_index \in Nat \ {0} /\ Cardinality(Guests) \in Nat /\ sock_index <= Cardinality(Guests)
      /\ IsFiniteSet(Listed \ {f}) /\ Cardinality(Listed \ {f}) = sock_index - 1
  <2>1. IsFiniteSet(Listed) /\ Cardinality(Listed) = sock_index
    BY DEF ChatSafe, ArrayIsRight
  <2>2. IsFiniteSet(Listed \ {f}) /\ Cardinality(Listed \ {f}) = sock_index - 1
    BY <1>6, <2>1, FS_RemoveElement
  <2>3. sock_index # 0
    BY <1>6, <2>1, FS_EmptySet
  <2> QED  BY <2>2, <2>3, ThreadChatAssumption, FS_CardinalityType DEF ChatSafe, ChatTypes
<1>8. PICK n, r, x : n = sock_index /\ r = GoesFor(f) /\ x = socks[r]
  OBVIOUS
<1>81. f \in Members => First(f) \in 1..n
  <2> DEFINE P == {i \in 1..sock_index : socks[i] = f}
  <2>1. P \subseteq Nat /\ (f \in Members => P # {})
    BY <1>7 DEF Members
  <2>2. f \in Members => \E i \in P : \A j \in P : i <= j
    BY <2>1, LeastNumber
  <2> QED  BY <1>8, <2>2 DEF First
<1>82. /\ n \in Nat \ {0} /\ r \in 1..n /\ x \in Fds /\ sock_index' = n - 1
       /\ f \in Members /\ First(f) < n => r = First(f) + 1
       /\ ~(f \in Members /\ First(f) < n) => r = n
  <2>1. /\ f \in Members /\ First(f) < n => r = First(f) + 1
        /\ ~(f \in Members /\ First(f) < n) => r = n
    BY <1>8 DEF GoesFor
  <2>2. n \in Nat \ {0} /\ r \in 1..n
    BY <1>7, <1>8, <1>81, <2>1
  <2> QED  BY <1>1, <1>8, <2>1, <2>2 DEF ChatSafe, ArrayIsRight
<1>83. /\ socks' = IF f \notin Members THEN socks
                   ELSE [i \in DOMAIN socks |-> IF i > First(f) /\ i <= n THEN socks[i + 1] ELSE socks[i]]
       /\ astray' = IF x = f THEN astray ELSE astray \cup {f, x}
       /\ socks \in [1..Cardinality(Guests) + 1 -> Fds \cup {nobody}]
  BY <1>1, <1>6, <1>8 DEF RemoveFd, ChatSafe, ChatTypes
<1>84. socks' \in [1..Cardinality(Guests) + 1 -> Fds \cup {nobody}]
  <2>1. CASE f \notin Members
    BY <1>83, <2>1
  <2>2. CASE f \in Members
    <3>1. DOMAIN socks = 1..Cardinality(Guests) + 1
      BY <1>83
    <3>2. ASSUME NEW i \in 1..Cardinality(Guests) + 1, i <= n PROVE i + 1 \in 1..Cardinality(Guests) + 1
      BY <1>7, <1>8, <3>2
    <3> QED  BY <1>83, <2>2, <3>1, <3>2
  <2> QED  BY <2>1, <2>2
\* What is at i was at From(i).
<1> DEFINE From(i) == IF i < r THEN i ELSE i + 1
<1>85. ASSUME NEW i \in 1..n - 1
       PROVE  socks'[i] = socks[From(i)] /\ From(i) \in 1..n /\ From(i) # r
  <2>1. i \in 1..Cardinality(Guests) + 1 /\ i <= n
    BY <1>7, <1>8, <1>82
  <2>2. CASE f \notin Members
    BY <1>82, <1>83, <2>2
  <2>3. CASE f \in Members
    <3>1. socks'[i] = IF i > First(f) THEN socks[i + 1] ELSE socks[i]
      BY <1>83, <2>1, <2>3
    <3> QED  BY <1>81, <1>82, <2>3, <3>1
  <2> QED  BY <2>2, <2>3
<1>86. \A i, j \in 1..n - 1 : From(i) = From(j) => i = j
  BY <1>82
<1>87. \A j \in 1..n : j # r => \E i \in 1..n - 1 : j = From(i)
  <2>1. ASSUME NEW j \in 1..n, j # r PROVE \E i \in 1..n - 1 : j = From(i)
    <3>1. CASE j < r
      BY <1>82, <3>1
    <3>2. CASE ~(j < r)
      <4>1. j - 1 \in 1..n - 1 /\ ~(j - 1 < r) /\ (j - 1) + 1 = j
        BY <1>82, <2>1, <3>2
      <4> QED  BY <4>1
    <3> QED  BY <3>1, <3>2
  <2> QED  BY <2>1
<1> HIDE DEF From
<1>88. astray \subseteq astray' /\ (x # f => f \in astray' /\ x \in astray')
  BY <1>83
<1>9. ChatTypes'
  <2>1. sock_index' \in 0..Cardinality(Guests)
    BY <1>7, <1>8, <1>82
  <2>2. astray' \subseteq Fds
    BY <1>6, <1>82, <1>83 DEF ChatSafe, ChatTypes
  <2> QED  BY <1>1, <1>3, <1>84, <2>1, <2>2 DEF ChatSafe, ChatTypes
<1>10. \A k \in Active : k \in Handlers
  BY DEF Active
<1>11. Connected'
  <2>1. \A k \in Serving : k \in Handlers
    BY DEF Serving
  <2> QED  BY <1>1, <1>4, <1>5, <2>1 DEF ChatSafe, Connected
<1>12. OwnConnection'
  <2>2. \A k \in Active : handler'[k].pc # "start" => handler'[k].fd = handler'[k].meant
    BY <1>1, <1>4, <1>10 DEF ChatSafe, OwnConnection
  <2> QED  BY <1>1, <1>3, <1>4, <1>10, <2>2 DEF ChatSafe, OwnConnection
<1>13. \A e \in Fds : InArray(e)' <=> InArray(e) /\ e # f
  <2>1. \A k \in Active : handler'[k].meant = handler[k].meant
                          /\ (handler'[k].pc = "close" <=> handler[k].pc = "close" \/ k = h)
    BY <1>1, <1>4, <1>10
  <2>2. \A k \in Active : handler[k].meant = f => k = h
    BY <1>1, <1>6 DEF ChatSafe, OwnConnection
  <2>3. accepting = "create" => clt_sock # f
    BY <1>1, <1>6 DEF ChatSafe, OwnConnection
  <2> QED  BY <1>1, <1>3, <1>6, <2>1, <2>2, <2>3 DEF InArray
<1>14. ArrayIsRight'
  <2>1. (\A i \in 1..sock_index : socks[i] \in Fds /\ (InArray(socks[i]) \/ socks[i] \in astray))'
    <3> SUFFICES ASSUME NEW i \in 1..n - 1, NEW e, e = socks'[i]
                 PROVE  e \in Fds /\ (InArray(e)' \/ e \in astray')
      BY <1>82 DEF InArray
    <3>1. PICK j \in 1..n : j # r /\ e = socks[j]
      BY <1>85
    <3>2. e \in Fds /\ (InArray(e) \/ e \in astray)
      BY <1>8, <3>1 DEF ChatSafe, ArrayIsRight
    <3>3. CASE e # f
      BY <1>13, <1>88, <3>2, <3>3
    <3>4. CASE e = f
      <4>1. x = f => f \in astray
        BY <1>8, <1>82, <3>1, <3>4 DEF ChatSafe, ArrayIsRight
      <4> QED  BY <1>6, <1>88, <3>4, <4>1
    <3> QED  BY <3>3, <3>4
  <2>2. \A i, j \in 1..sock_index' : socks'[i] = socks'[j] => i = j \/ socks'[i] \in astray'
    <3> SUFFICES ASSUME NEW i \in 1..n - 1, NEW j \in 1..n - 1, socks'[i] = socks'[j]
                 PROVE  i = j \/ socks'[i] \in astray'
      BY <1>82
    <3>1. socks[From(i)] = socks[From(j)] /\ From(i) \in 1..n /\ From(j) \in 1..n
          /\ socks'[i] = socks[From(i)]
      BY <1>85
    <3>2. From(i) = From(j) \/ socks[From(i)] \in astray
      BY <1>8, <3>1 DEF ChatSafe, ArrayIsRight
    <3> QED  BY <1>86, <1>88, <3>1, <3>2
  <2>3. \A e \in Fds : InArray(e)' => e \in Members' \/ e \in astray'
    <3> SUFFICES ASSUME NEW e \in Fds, InArray(e)' PROVE e \in Members' \/ e \in astray'
      OBVIOUS
    <3>1. e # f /\ (e \in Members \/ e \in astray)
      BY <1>13 DEF ChatSafe, ArrayIsRight
    <3>2. ASSUME NEW j \in 1..n, e = socks[j], j # r PROVE e \in Members'
      <4>1. PICK i \in 1..n - 1 : j = From(i)
        BY <1>87, <3>2
      <4> QED  BY <1>82, <1>85, <3>2, <4>1 DEF Members
    <3>3. e \in Members => \E j \in 1..n : e = socks[j]
      BY <1>8 DEF Members
    <3> QED  BY <1>8, <1>88, <3>1, <3>2, <3>3
  <2>4. Listed' = Listed \ {f}
    BY <1>13 DEF Listed
  <2> QED  BY <1>1, <1>7, <2>1, <2>2, <2>3, <2>4 DEF ArrayIsRight
<1>15. \A g : Astray(g) => Astray(g)'
  BY <1>1, <1>88 DEF Astray
<1>16. AudienceIsServed' /\ HeardOnce'
  BY <1>1, <1>5, <1>15, SameMessages
<1> QED  BY <1>9, <1>11, <1>12, <1>14, <1>16 DEF ChatSafe

\* The descriptor is free again, and no longer in the array.
LEMMA ThreadCloses ==
  ASSUME ChatSafe, ~mixed, ~dead, NEW h \in Handlers, HandlerClose(h)
  PROVE  ChatSafe'
<1>1. PICK f \in Fds : f = handler[h].meant /\ f = handler[h].fd /\ owner[f] \in Guests
  BY DEF HandlerClose, ChatSafe, OwnConnection, ChatTypes, Active
<1>2. /\ UNCHANGED <<guest, says, audience, heard, clt_sock, accepting, socks, sock_index,
                     mixed, astray, dead>>
      /\ handler[h].pc = "close" /\ h \in Active
      /\ owner' = [owner EXCEPT ![f] = nobody]
      /\ handler' = [handler EXCEPT ![h] = NoHandler]
  BY <1>1 DEF HandlerClose, guestVars, roomVars, Active
<1>3. /\ \A k \in Handlers : handler'[k] = IF k = h THEN NoHandler ELSE handler[k]
      /\ \A e \in Fds : owner'[e] = IF e = f THEN nobody ELSE owner[e]
  BY <1>2 DEF ChatSafe, ChatTypes
<1>4. Active' = Active \ {h} /\ Serving' = Serving /\ h \notin Serving
  BY <1>2, <1>3 DEF Active, Serving, NoHandler
<1>5. \A k \in Active' : handler'[k] = handler[k] /\ handler[k].meant # f
  BY <1>1, <1>2, <1>3, <1>4 DEF ChatSafe, OwnConnection, Active
<1>6. accepting # "accept" => clt_sock # f
  BY <1>1, <1>2 DEF ChatSafe, OwnConnection
<1>7. Serving \subseteq Active'
  BY <1>4 DEF Serving, Active
<1>8. ChatTypes'
  BY <1>2 DEF ChatSafe, ChatTypes, NoHandler
<1>9. Connected'
  <2>1. ASSUME NEW g \in Guests, guest[g] = "in"
        PROVE  \E e \in Fds : /\ owner'[e] = g
                              /\ \/ accepting # "accept" /\ clt_sock = e
                                 \/ \E k \in Serving' : handler'[k].meant = e
    <3>1. PICK e \in Fds : /\ owner[e] = g
                           /\ \/ accepting # "accept" /\ clt_sock = e
                              \/ \E k \in Serving : handler[k].meant = e
      BY <2>1 DEF ChatSafe, Connected
    <3>2. e # f
      BY <1>4, <1>5, <1>6, <1>7, <3>1
    <3> QED  BY <1>3, <1>4, <1>5, <1>7, <3>1, <3>2
  <2>2. \A d, e \in Fds : owner'[d] = owner'[e] /\ owner'[d] # nobody => d = e
    BY <1>3 DEF ChatSafe, Connected
  <2>3. \A e \in Fds : owner'[e] # nobody => guest[owner'[e]] # "out"
    BY <1>3 DEF ChatSafe, Connected
  <2> QED  BY <1>2, <2>1, <2>2, <2>3 DEF Connected
<1>10. OwnConnection'
  BY <1>2, <1>3, <1>4, <1>5, <1>6 DEF ChatSafe, OwnConnection
<1>11. \A e : InArray(e)' <=> InArray(e)
  BY <1>2, <1>3, <1>4, <1>5 DEF InArray
<1>12. ArrayIsRight'
  <2>1. Listed' = Listed
    BY <1>11 DEF Listed
  <2> QED  BY <1>2, <1>11, <2>1 DEF ChatSafe, ArrayIsRight, Members
<1>13. ASSUME NEW g \in Served PROVE g \in Served' /\ (Astray(g) => Astray(g)')
  <2>1. PICK k \in Serving : owner[handler[k].meant] = g
    BY DEF Served, Serving
  <2>2. k \in Serving' /\ handler'[k] = handler[k] /\ handler[k].meant \in Fds
    BY <1>4, <1>5, <1>7, <2>1 DEF ChatSafe, OwnConnection
  <2>3. owner'[handler[k].meant] = g
    BY <1>3, <1>5, <1>7, <2>1, <2>2
  <2>4. Astray(g) => Astray(g)'
    <3> SUFFICES ASSUME NEW e \in astray, owner[e] = g PROVE owner'[e] = g
      BY <1>2 DEF Astray
    <3>1. e \in Fds /\ g # nobody
      BY ThreadChatAssumption DEF ChatSafe, ChatTypes, Served
    <3>2. e = handler[k].meant
      BY <2>1, <2>2, <3>1 DEF ChatSafe, Connected
    <3> QED  BY <2>3, <3>2
  <2> QED  BY <2>1, <2>2, <2>3, <2>4 DEF Served, Serving
<1>14. AudienceIsServed' /\ HeardOnce'
  BY <1>2, <1>13, SameMessages
<1> QED  BY <1>8, <1>9, <1>10, <1>12, <1>14 DEF ChatSafe

LEMMA ChatInvariant == ChatInv /\ [ThreadChatNext]_threadChatVars => ChatInv'
<1> SUFFICES ASSUME ChatInv, [ThreadChatNext]_threadChatVars PROVE ChatInv'
  OBVIOUS
<1>1. CASE UNCHANGED threadChatVars
  <2>1. UNCHANGED <<guest, says, audience, heard, owner, clt_sock, accepting, socks, sock_index,
                    handler, mixed, astray, dead>>
    BY <1>1 DEF threadChatVars, guestVars, roomVars
  <2>2. ChatTypes' <=> ChatTypes
    BY <2>1 DEF ChatTypes
  <2>3. (Connected' <=> Connected) /\ (OwnConnection' <=> OwnConnection)
    BY <2>1 DEF Connected, OwnConnection, Active, Serving
  <2>4. ArrayIsRight' <=> ArrayIsRight
    BY <2>1 DEF ArrayIsRight, Listed, InArray, Members, Active
  <2>5. (AudienceIsServed' <=> AudienceIsServed) /\ (HeardOnce' <=> HeardOnce)
    BY <2>1 DEF AudienceIsServed, HeardOnce, Served, Astray
  <2> QED  BY <2>1, <2>2, <2>3, <2>4, <2>5 DEF ChatInv, ChatSafe
<1>2. CASE ThreadChatNext
  <2>0. ~dead
    BY <1>2 DEF ThreadChatNext
  \* What has gone wrong stays so.
  <2>1. mixed => mixed'
    BY <1>2 DEF ThreadChatNext, GuestStep, ChatMain, AcceptGuest, AppendSock, CreateHandler,
                HandlerStep, HandlerStart, Relay, HandlerEnd, RemoveSock, HandlerClose
  <2> SUFFICES ASSUME ~mixed', ~dead' PROVE ChatSafe'
    BY DEF ChatInv
  <2>2. ChatSafe /\ ~mixed /\ ~dead
    BY <2>0, <2>1 DEF ChatInv
  <2>3. CASE GuestStep
    BY <2>2, <2>3, GuestKeeps
  <2>4. CASE ChatMain
    BY <2>2, <2>4, GuestAccepted, GuestAppended, GuestGetsThread DEF ChatMain
  <2>5. CASE HandlerStep
    BY <2>2, <2>5, ThreadTakesItsOwn, MessageRelayed, ThreadFindsEnd, SockEntryRemoved,
       ThreadCloses DEF HandlerStep
  <2> QED  BY <1>2, <2>3, <2>4, <2>5 DEF ThreadChatNext
<1> QED  BY <1>1, <1>2

(***************************************************************************)
(* The server with a thread per client (48_multi_thread_server, chat_server): *)
(* for any number of guests, descriptors and threads, who was served when  *)
(* a message was said and is there hears it once, unless a thread took     *)
(* another one's descriptor, SIGPIPE ended the server, or his descriptor   *)
(* is one whose entry stayed, or was taken out, when another guest left.   *)
(***************************************************************************)
THEOREM MessagesAreHeardOnce == ThreadChatSpec => []HeardOnce
<1>1. ChatInv => HeardOnce
  BY DEF ChatInv, ChatSafe, HeardOnce
<1> QED  BY <1>1, ChatInitial, ChatInvariant, PTL DEF ThreadChatSpec

-----------------------------------------------------------------------------
(***************************************************************************)
(* chat_room_server of 79_io_reuse/main.cpp.                               *)
(***************************************************************************)

PollTypes ==
    /\ user \in [Users -> {"out", "queued", "in", "left"}]
    /\ sockOf \in [Users -> Socks \cup {nothing}]
    /\ unheard \in [Users -> Nat] /\ spoken \in Nat
    /\ table \in Seq(Socks) /\ pos \in 0..Len(table) + 1
    /\ written \subseteq Socks
    /\ write_buf \in [Socks -> Socks \cup {nothing}] /\ text \in [Socks -> Nat]
    /\ sentTo \in [Users -> Seq(Nat)] /\ due \in [Users -> Nat]

\* The entries the loop has still to look at.
Ahead == {table[i] : i \in {j \in 1..Len(table) : j >= pos}}

\* The table has the users that were accepted and have not been removed.
TableIsRight ==
    /\ IsInjective(table) /\ InTable = {sockOf[u] : u \in Users} \ {nothing}
    /\ \A u, v \in Users : sockOf[u] = sockOf[v] /\ sockOf[u] # nothing => u = v
    /\ \A u \in Users : /\ sockOf[u] # nothing => user[u] \in {"in", "left"}
                        /\ user[u] = "in" => sockOf[u] # nothing
                        /\ unheard[u] # nothing => sockOf[u] # nothing

\* What poll has found holds till the loop is there.
RoundIsRight ==
    /\ pos = 0 => Waiting # {} /\ hup \cup readable \cup writable \subseteq InTable
    /\ \A u \in Users : sockOf[u] \in Ahead =>
          /\ sockOf[u] \in hup => user[u] = "left"
          /\ sockOf[u] \in readable => unheard[u] # nothing
          /\ sockOf[u] \in writable => sockOf[u] \in written

\* A text that has not been read was sent to nobody, and the texts differ.
TextsDiffer ==
    /\ \A u \in Users : unheard[u] <= spoken /\ due[u] <= spoken
    /\ \A u \in Users : \A i \in 1..Len(sentTo[u]) : sentTo[u][i] \in 1..spoken
    /\ \A u, v \in Users : unheard[u] # nothing =>
          /\ unheard[u] = unheard[v] => u = v
          /\ due[v] # unheard[u]
          /\ \A i \in 1..Len(sentTo[v]) : sentTo[v][i] # unheard[u]

\* Who is to be written to has a pointer to the last text for it, or was sent it;
\* nothing was ever for the others.
BuffersAreRight ==
    \A u \in Users : sockOf[u] # nothing =>
        LET f == sockOf[u]
        IN  /\ f \notin written => due[u] = nothing /\ sentTo[u] = <<>>
            /\ f \in written /\ write_buf[f] # nothing =>
                  /\ write_buf[f] # f /\ text[write_buf[f]] = due[u] /\ due[u] # nothing
                  /\ \A i \in 1..Len(sentTo[u]) : sentTo[u][i] # due[u]
            /\ f \in written /\ write_buf[f] = nothing =>
                  sentTo[u] # <<>> /\ due[u] = sentTo[u][Len(sentTo[u])]

NewAreSilent == \A u \in Users : user[u] \in {"out", "queued"} => due[u] = nothing /\ sentTo[u] = <<>>
SentOnce == \A u \in Users : \A i, j \in 1..Len(sentTo[u]) : sentTo[u][i] = sentTo[u][j] => i = j

PollInv == /\ PollTypes /\ TableIsRight /\ RoundIsRight /\ NewAreSilent
           /\ replaced \/ (TextsDiffer /\ BuffersAreRight /\ SentOnce)


LEMMA PollInitial == PollChatInit => PollInv
<1> SUFFICES ASSUME PollChatInit PROVE PollInv
  OBVIOUS
<1>1. PollTypes
  BY DEF PollChatInit, PollTypes, nothing
<1>2. TableIsRight
  BY DEF PollChatInit, TableIsRight, IsInjective, InTable, ToSet
<1>3. RoundIsRight /\ NewAreSilent
  BY DEF PollChatInit, RoundIsRight, NewAreSilent, Ahead
<1>4. TextsDiffer /\ BuffersAreRight /\ SentOnce
  BY DEF PollChatInit, TextsDiffer, BuffersAreRight, SentOnce, nothing
<1> QED  BY <1>1, <1>2, <1>3, <1>4 DEF PollInv

\* The user of an entry.
LEMMA UserOfEntry ==
  ASSUME PollTypes, TableIsRight, NEW f \in InTable
  PROVE  /\ f \in Socks /\ f # nothing
         /\ UserOf(f) \in Users /\ sockOf[UserOf(f)] = f
         /\ \A u \in Users : sockOf[u] = f => u = UserOf(f)
<1>1. f # nothing /\ \E u \in Users : sockOf[u] = f
  BY DEF TableIsRight
<1>2. UserOf(f) \in Users /\ sockOf[UserOf(f)] = f
  BY <1>1 DEF UserOf
<1> QED  BY <1>1, <1>2 DEF PollTypes, TableIsRight

LEMMA UsersKeep == ASSUME PollInv, UserStep PROVE PollInv'
<1>0. /\ UNCHANGED <<sockOf, table, written, hup, readable, writable, pos, write_buf, text,
                     sentTo, due, replaced>>
      /\ PollTypes /\ TableIsRight /\ RoundIsRight /\ NewAreSilent
  BY DEF UserStep, reventVars, bufferVars, PollInv
<1>1. InTable' = InTable /\ Ahead' = Ahead /\ (IsInjective(table)' <=> IsInjective(table))
  BY <1>0 DEF InTable, Ahead
<1>2. ASSUME NEW u \in Users, JoinRoom(u) \/ LeaveRoom(u) PROVE PollInv'
  <2>1. /\ UNCHANGED <<unheard, spoken>>
        /\ \/ user[u] = "out" /\ user' = [user EXCEPT ![u] = "queued"]
           \/ user[u] = "in" /\ user' = [user EXCEPT ![u] = "left"]
    BY <1>2 DEF JoinRoom, LeaveRoom
  <2>2. \A v \in Users : \/ user'[v] = user[v]
                         \/ user[v] = "out" /\ user'[v] = "queued"
                         \/ user[v] = "in" /\ user'[v] = "left"
    BY <1>0, <2>1 DEF PollTypes
  <2>3. PollTypes'
    BY <1>0, <2>1 DEF PollTypes
  <2>4. TableIsRight'
    BY <1>0, <1>1, <2>1, <2>2 DEF TableIsRight
  <2>5. RoundIsRight'
    BY <1>0, <1>1, <2>1, <2>2 DEF RoundIsRight, Waiting
  <2>6. NewAreSilent'
    BY <1>0, <2>1, <2>2 DEF NewAreSilent
  <2>7. TextsDiffer /\ BuffersAreRight /\ SentOnce => (TextsDiffer /\ BuffersAreRight /\ SentOnce)'
    BY <1>0, <2>1 DEF TextsDiffer, BuffersAreRight, SentOnce
  <2> QED  BY <1>0, <2>3, <2>4, <2>5, <2>6, <2>7 DEF PollInv
<1>3. ASSUME NEW u \in Users, Speak(u) PROVE PollInv'
  <2>1. /\ user' = user /\ user[u] = "in" /\ unheard[u] = nothing
        /\ spoken' = spoken + 1 /\ unheard' = [unheard EXCEPT ![u] = spoken + 1]
    BY <1>3 DEF Speak
  <2>2. /\ \A v \in Users : unheard'[v] = IF v = u THEN spoken + 1 ELSE unheard[v]
        /\ spoken \in Nat /\ spoken + 1 # nothing
    BY <1>0, <2>1 DEF PollTypes, nothing
  <2>3. PollTypes'
    BY <1>0, <2>1 DEF PollTypes
  <2>4. TableIsRight'
    BY <1>0, <1>1, <2>1, <2>2 DEF TableIsRight
  <2>5. RoundIsRight' /\ NewAreSilent'
    BY <1>0, <1>1, <2>1, <2>2 DEF RoundIsRight, Waiting, NewAreSilent
  <2>6. BuffersAreRight /\ SentOnce => (BuffersAreRight /\ SentOnce)'
    BY <1>0, <2>1 DEF BuffersAreRight, SentOnce
  <2>7. TextsDiffer => TextsDiffer'
    <3> SUFFICES ASSUME TextsDiffer PROVE TextsDiffer'
      OBVIOUS
    <3>1. \A v \in Users : unheard[v] \in Nat /\ due[v] \in Nat /\ sentTo[v] \in Seq(Nat)
      BY <1>0 DEF PollTypes
    <3>2. \A v \in Users : unheard'[v] <= spoken' /\ due[v] <= spoken'
      BY <2>1, <2>2, <3>1 DEF TextsDiffer
    <3>3. \A v \in Users : \A i \in 1..Len(sentTo[v]) : sentTo[v][i] \in 1..spoken
      BY DEF TextsDiffer
    <3>4. \A n \in 1..spoken : n \in 1..spoken' /\ n # spoken + 1
      BY <2>1, <2>2
    <3>5. \A v, w \in Users : unheard'[v] # nothing =>
            /\ unheard'[v] = unheard'[w] => v = w
            /\ due[w] # unheard'[v]
            /\ \A i \in 1..Len(sentTo[w]) : sentTo[w][i] # unheard'[v]
      BY <2>2, <3>1, <3>3, <3>4 DEF TextsDiffer
    <3> QED  BY <1>0, <3>2, <3>3, <3>4, <3>5 DEF TextsDiffer
  <2> QED  BY <1>0, <2>3, <2>4, <2>5, <2>6, <2>7 DEF PollInv
<1> QED  BY <1>2, <1>3 DEF UserStep

LEMMA PollKeeps == ASSUME PollInv, Poll PROVE PollInv'
<1>0. /\ UNCHANGED <<user, unheard, spoken, sockOf, table, written, write_buf, text, sentTo, due,
                     replaced>>
      /\ hup' = HasLeft /\ readable' = HasSaid /\ writable' = InTable \cap written
      /\ pos' = IF Waiting = {} THEN 1 ELSE 0
      /\ PollTypes /\ TableIsRight /\ NewAreSilent
  BY DEF Poll, peerVars, bufferVars, PollInv
<1>1. InTable' = InTable /\ Ahead' \subseteq InTable /\ (IsInjective(table)' <=> IsInjective(table))
  BY <1>0 DEF InTable, Ahead, ToSet, PollTypes
<1>2. PollTypes'
  BY <1>0 DEF PollTypes
<1>3. TableIsRight' /\ NewAreSilent'
  BY <1>0, <1>1 DEF TableIsRight, NewAreSilent
<1>4. RoundIsRight'
  <2>1. pos' = 0 => Waiting' # {} /\ hup' \cup readable' \cup writable' \subseteq InTable'
    BY <1>0, <1>1 DEF Waiting, HasLeft, HasSaid
  <2>2. ASSUME NEW u \in Users, sockOf[u] \in Ahead'
        PROVE  /\ sockOf[u] \in hup' => user[u] = "left"
               /\ sockOf[u] \in readable' => unheard[u] # nothing
               /\ sockOf[u] \in writable' => sockOf[u] \in written
    <3>1. sockOf[u] \in InTable /\ UserOf(sockOf[u]) = u
      BY <1>0, <1>1, <2>2, UserOfEntry
    <3> QED  BY <1>0, <3>1 DEF HasLeft, HasSaid
  <2> QED  BY <1>0, <2>1, <2>2 DEF RoundIsRight
<1>5. TextsDiffer /\ BuffersAreRight /\ SentOnce => (TextsDiffer /\ BuffersAreRight /\ SentOnce)'
  BY <1>0 DEF TextsDiffer, BuffersAreRight, SentOnce
<1> QED  BY <1>0, <1>2, <1>3, <1>4, <1>5 DEF PollInv

\* There is a descriptor for the next user.
LEMMA SockIsFree ==
  ASSUME PollTypes, TableIsRight, Len(table) < UserMax
  PROVE  /\ LowestSock \in Socks /\ LowestSock # nothing /\ LowestSock \notin InTable
         /\ \A u \in Users : sockOf[u] # LowestSock
<1>0. Len(table) \in Nat /\ table \in [1..Len(table) -> Socks]
  BY DEF PollTypes
<1> DEFINE n == Len(table)
<1>1. IsFiniteSet(1..n) /\ Cardinality(1..n) = n
  BY <1>0, FS_Interval
<1>2. table \in Surjection(1..n, InTable)
  BY <1>0 DEF InTable, ToSet, Surjection
<1>3. IsFiniteSet(InTable) /\ Cardinality(InTable) <= n
  BY <1>1, <1>2, FS_Surjection
<1>4. FreeSocks = Socks \ InTable
  BY PollChatAssumption DEF FreeSocks, TableIsRight, nothing
<1>5. FreeSocks # {}
  <2> SUFFICES ASSUME FreeSocks = {} PROVE FALSE
    OBVIOUS
  <2>1. InTable \subseteq Socks
    BY <1>0 DEF InTable, ToSet
  <2>2. InTable = Socks
    BY <1>4, <2>1
  <2> QED  BY <1>0, <1>3, <2>2, PollChatAssumption, FS_CardinalityType
<1>6. FreeSocks \subseteq Nat
  BY PollChatAssumption DEF FreeSocks
<1>7. LowestSock \in FreeSocks
  BY <1>5, <1>6, LeastNumber DEF LowestSock
<1> QED  BY <1>4, <1>7, PollChatAssumption DEF FreeSocks, nothing

LEMMA NextUserWaits ==
  ASSUME Waiting # {}
  PROVE  NextUser \in Users /\ user[NextUser] = "queued"
<1>1. Waiting \subseteq Nat
  BY PollChatAssumption DEF Waiting
<1>2. NextUser \in Waiting
  BY <1>1, LeastNumber DEF NextUser
<1> QED  BY <1>2 DEF Waiting

LEMMA UserAccepted == ASSUME PollInv, AcceptUser PROVE PollInv'
<1>0. /\ UNCHANGED <<unheard, spoken, hup, readable, writable, write_buf, text, sentTo, due, replaced>>
      /\ pos = 0 /\ pos' = 1 /\ Len(table) < UserMax
      /\ PollTypes /\ TableIsRight /\ RoundIsRight /\ NewAreSilent
  BY DEF AcceptUser, reventVars, bufferVars, PollInv
<1>1. PICK u \in Users : u = NextUser /\ user[u] = "queued"
  BY <1>0, NextUserWaits DEF RoundIsRight
<1>2. PICK f \in Socks : /\ f = LowestSock /\ f # nothing /\ f \notin InTable
                        /\ \A v \in Users : sockOf[v] # f
  BY <1>0, SockIsFree
<1>3. /\ user' = [user EXCEPT ![u] = "in"] /\ sockOf' = [sockOf EXCEPT ![u] = f]
      /\ table' = Append(table, f) /\ written' = written \ {f}
  BY <1>1, <1>2 DEF AcceptUser
<1>4. /\ \A v \in Users : user'[v] = IF v = u THEN "in" ELSE user[v]
      /\ \A v \in Users : sockOf'[v] = IF v = u THEN f ELSE sockOf[v]
      /\ sockOf[u] = nothing
  BY <1>0, <1>1, <1>3 DEF PollTypes, TableIsRight
<1>5. /\ Len(table) \in Nat /\ Len(table') = Len(table) + 1
      /\ table' \in Seq(Socks) /\ DOMAIN table' = 1..Len(table) + 1 /\ DOMAIN table = 1..Len(table)
      /\ \A i \in 1..Len(table) : table'[i] = table[i]
      /\ table'[Len(table) + 1] = f
  BY <1>0, <1>3 DEF PollTypes
<1>6. InTable' = InTable \cup {f} /\ Ahead' \subseteq InTable'
  BY <1>5 DEF InTable, Ahead, ToSet
<1>7. Ahead = InTable
  BY <1>0, <1>5 DEF InTable, Ahead, ToSet
<1>8. PollTypes'
  BY <1>0, <1>3, <1>5 DEF PollTypes
<1>9. TableIsRight'
  <2>1. \A i \in 1..Len(table) : table[i] # f
    BY <1>2, <1>5 DEF InTable, ToSet
  <2>2. IsInjective(table')
    BY <1>0, <1>5, <2>1 DEF TableIsRight, IsInjective
  <2>3. InTable' = {sockOf'[v] : v \in Users} \ {nothing}
    BY <1>0, <1>2, <1>4, <1>6 DEF TableIsRight
  <2> QED  BY <1>0, <1>2, <1>4, <2>2, <2>3 DEF TableIsRight
<1>10. RoundIsRight'
  <2> SUFFICES ASSUME NEW v \in Users, sockOf'[v] \in Ahead'
               PROVE  /\ sockOf'[v] \in hup => user'[v] = "left"
                      /\ sockOf'[v] \in readable => unheard[v] # nothing
                      /\ sockOf'[v] \in writable => sockOf'[v] \in written'
    BY <1>0 DEF RoundIsRight
  <2>1. f \notin hup \cup readable \cup writable
    BY <1>0, <1>2 DEF RoundIsRight
  <2>2. CASE v = u
    BY <1>4, <2>1, <2>2
  <2>3. CASE v # u
    BY <1>0, <1>2, <1>3, <1>4, <1>6, <1>7, <2>3 DEF RoundIsRight
  <2> QED  BY <2>2, <2>3
<1>11. NewAreSilent'
  BY <1>0, <1>4 DEF NewAreSilent
<1>12. TextsDiffer /\ SentOnce => TextsDiffer' /\ SentOnce'
  BY <1>0 DEF TextsDiffer, SentOnce
<1>13. BuffersAreRight => BuffersAreRight'
  <2> SUFFICES ASSUME BuffersAreRight, NEW v \in Users, sockOf'[v] # nothing
               PROVE  /\ sockOf'[v] \notin written' => due[v] = nothing /\ sentTo[v] = <<>>
                      /\ sockOf'[v] \in written' /\ write_buf[sockOf'[v]] # nothing =>
                            /\ write_buf[sockOf'[v]] # sockOf'[v]
                            /\ text[write_buf[sockOf'[v]]] = due[v] /\ due[v] # nothing
                            /\ \A i \in 1..Len(sentTo[v]) : sentTo[v][i] # due[v]
                      /\ sockOf'[v] \in written' /\ write_buf[sockOf'[v]] = nothing =>
                            sentTo[v] # <<>> /\ due[v] = sentTo[v][Len(sentTo[v])]
    BY <1>0 DEF BuffersAreRight
  <2>1. CASE v = u
    BY <1>0, <1>1, <1>3, <1>4, <2>1 DEF NewAreSilent
  <2>2. CASE v # u
    BY <1>2, <1>3, <1>4, <2>2 DEF BuffersAreRight
  <2> QED  BY <2>1, <2>2
<1> QED  BY <1>0, <1>8, <1>9, <1>10, <1>11, <1>12, <1>13 DEF PollInv

\* The entry the loop is at.
LEMMA EntryLookedAt ==
  ASSUME PollInv, Looking
  PROVE  /\ Fd \in InTable /\ Fd \in Socks /\ Fd # nothing /\ Fd \in Ahead
         /\ Own \in Users /\ sockOf[Own] = Fd
         /\ \A u \in Users : sockOf[u] = Fd => u = Own
         /\ \A i \in 1..Len(table) : table[i] = Fd => i = pos
<1>1. PollTypes /\ TableIsRight /\ table \in Seq(Socks) /\ pos \in 1..Len(table)
  BY DEF PollInv, PollTypes, Looking
<1>2. DOMAIN table = 1..Len(table)
  BY <1>1
<1>3. Fd \in InTable /\ Fd \in Ahead
  BY <1>1, <1>2 DEF Fd, InTable, Ahead, ToSet
<1>4. \A i \in 1..Len(table) : table[i] = Fd => i = pos
  BY <1>1, <1>2 DEF Fd, TableIsRight, IsInjective
<1> QED  BY <1>1, <1>3, <1>4, UserOfEntry DEF Own

\* The loop goes on to the next entry, or finds another one in this place.
LEMMA NextEntry ==
  ASSUME PollInv, Looking, UNCHANGED table, pos' = pos + 1
  PROVE  /\ Ahead' \subseteq Ahead \ {Fd} /\ InTable' = InTable
         /\ pos' \in 0..Len(table) + 1 /\ pos' # 0
         /\ (IsInjective(table)' <=> IsInjective(table))
<1>1. PollTypes /\ table \in Seq(Socks) /\ pos \in 1..Len(table)
  BY DEF PollInv, PollTypes, Looking
<1>2. ASSUME NEW i \in 1..Len(table), i >= pos + 1 PROVE table[i] \in Ahead \ {Fd}
  BY <1>1, <1>2, EntryLookedAt DEF Ahead
<1> QED  BY <1>1, <1>2 DEF Ahead, InTable

\* The last entry moves to the place of the one that has left.
LEMMA EntryRemoved ==
  ASSUME PollInv, Looking, table' = TableWithout
  PROVE  /\ table' \in Seq(Socks) /\ Len(table') = Len(table) - 1
         /\ IsInjective(table') /\ InTable' = InTable \ {Fd}
         /\ (pos' = pos => Ahead' \subseteq Ahead \ {Fd})
<1>1. /\ PollTypes /\ table \in Seq(Socks) /\ pos \in 1..Len(table)
      /\ Len(table) \in Nat /\ DOMAIN table = 1..Len(table)
      /\ \A i, j \in 1..Len(table) : table[i] = table[j] => i = j
  BY DEF PollInv, PollTypes, Looking, TableIsRight, IsInjective
<1> DEFINE n == Len(table)
<1>2. /\ DOMAIN table' = 1..n - 1
      /\ \A i \in 1..n - 1 : table'[i] = IF i = pos THEN table[n] ELSE table[i]
      /\ \A i \in 1..n : table[i] \in Socks
  BY <1>1 DEF TableWithout, LastFd
<1>3. table' \in Seq(Socks) /\ Len(table') = n - 1
  <2>1. table' = [i \in 1..n - 1 |-> IF i = pos THEN table[n] ELSE table[i]]
    BY DEF TableWithout, LastFd
  <2>2. n - 1 \in Nat
    BY <1>1
  <2>3. \A i \in 1..n - 1 : (IF i = pos THEN table[n] ELSE table[i]) \in Socks
    BY <1>1, <1>2
  <2>4. table' \in [1..n - 1 -> Socks]
    BY <2>1, <2>3
  <2> QED  BY <2>2, <2>4, <1>2
<1>4. IsInjective(table')
  <2> SUFFICES ASSUME NEW i \in 1..n - 1, NEW j \in 1..n - 1, table'[i] = table'[j] PROVE i = j
    BY <1>2 DEF IsInjective
  <2> QED  BY <1>1, <1>2
<1>5. InTable' = InTable \ {Fd}
  <2>1. ASSUME NEW i \in 1..n - 1 PROVE table'[i] \in InTable /\ table'[i] # Fd
    BY <1>1, <1>2 DEF InTable, ToSet, Fd
  <2>2. ASSUME NEW i \in 1..n, table[i] # Fd PROVE \E j \in 1..n - 1 : table'[j] = table[i]
    <3>1. CASE i = n
      <4>1. pos \in 1..n - 1 /\ table'[pos] = table[n]
        BY <1>1, <1>2, <2>2, <3>1 DEF Fd
      <4> QED  BY <3>1, <4>1
    <3>2. CASE i # n
      <4>1. i # pos
        BY <2>2 DEF Fd
      <4>2. n \in Nat /\ i \in 1..n
        BY <1>1, <2>2
      <4> HIDE DEF n
      <4>3. i \in 1..n - 1
        BY <3>2, <4>2
      <4>4. table'[i] = table[i]
        BY <1>2, <4>1, <4>3
      <4> QED  BY <4>3, <4>4
    <3> QED  BY <3>1, <3>2
  <2>3. InTable' = {table'[i] : i \in 1..n - 1}
    BY <1>2 DEF InTable, ToSet
  <2>4. InTable = {table[i] : i \in 1..n}
    BY <1>1 DEF InTable, ToSet
  <2>5. InTable' \subseteq InTable \ {Fd}
    BY <2>1, <2>3
  <2>6. InTable \ {Fd} \subseteq InTable'
    BY <2>2, <2>3, <2>4
  <2> QED  BY <2>5, <2>6
<1>6. ASSUME pos' = pos PROVE Ahead' \subseteq Ahead \ {Fd}
  <2>1. ASSUME NEW i \in 1..n - 1, i >= pos PROVE table'[i] \in Ahead \ {Fd}
    <3>1. CASE i = pos
      BY <1>1, <1>2, <2>1, <3>1 DEF Ahead, Fd
    <3>2. CASE i # pos
      BY <1>1, <1>2, <2>1, <3>2 DEF Ahead, Fd
    <3> QED  BY <3>1, <3>2
  <2> QED  BY <1>3, <1>6, <2>1 DEF Ahead
<1> QED  BY <1>3, <1>4, <1>5, <1>6

LEMMA UserRemoved == ASSUME PollInv, RemoveUser PROVE PollInv'
<1>0. /\ UNCHANGED <<user, spoken, written, hup, readable, writable, sentTo, due>>
      /\ Looking /\ Fd \in hup /\ table' = TableWithout
      /\ PollTypes /\ TableIsRight /\ RoundIsRight /\ NewAreSilent
  BY DEF RemoveUser, reventVars, PollInv
<1>1. /\ Fd \in Socks /\ Fd # nothing /\ Fd \in Ahead /\ Own \in Users /\ sockOf[Own] = Fd
      /\ Fd \in InTable
      /\ \A u \in Users : sockOf[u] = Fd => u = Own
  BY <1>0, EntryLookedAt
<1>2. /\ table' \in Seq(Socks) /\ Len(table') = Len(table) - 1
      /\ IsInjective(table') /\ InTable' = InTable \ {Fd}
      /\ (pos' = pos => Ahead' \subseteq Ahead \ {Fd})
  BY <1>0, EntryRemoved
<1>3. pos' = pos /\ pos \in 1..Len(table) /\ Len(table) \in Nat
  BY <1>0, <1>2 DEF RemoveUser, Looking, PollTypes
<1>4. PICK o \in Users, f \in Socks, l \in Socks :
         o = Own /\ f = Fd /\ l = LastFd /\ sockOf[o] = f
  <2>1. LastFd \in Socks
    BY <1>3 DEF LastFd, PollInv, PollTypes
  <2> QED  BY <1>1, <2>1
<1>5. /\ write_buf' = [write_buf EXCEPT ![f] = write_buf[l]]
      /\ text' = [text EXCEPT ![f] = text[l]]
      /\ sockOf' = [sockOf EXCEPT ![o] = nothing] /\ unheard' = [unheard EXCEPT ![o] = nothing]
      /\ replaced' = (replaced \/ \E e \in InTable \ {f} : write_buf[e] = f)
  BY <1>4 DEF RemoveUser
<1>6. user[o] = "left"
  BY <1>0, <1>1, <1>4 DEF RoundIsRight
<1>7. /\ \A v \in Users : sockOf'[v] = IF v = o THEN nothing ELSE sockOf[v]
      /\ \A v \in Users : unheard'[v] = IF v = o THEN nothing ELSE unheard[v]
      /\ \A e \in Socks : write_buf'[e] = IF e = f THEN write_buf[l] ELSE write_buf[e]
      /\ \A e \in Socks : text'[e] = IF e = f THEN text[l] ELSE text[e]
  BY <1>0, <1>5 DEF PollTypes
<1>8. PollTypes'
  <2>1. /\ sockOf' \in [Users -> Socks \cup {nothing}] /\ unheard' \in [Users -> Nat]
        /\ write_buf' \in [Socks -> Socks \cup {nothing}] /\ text' \in [Socks -> Nat]
    BY <1>0, <1>5 DEF PollTypes, nothing
  <2>2. pos' \in 0..Len(table') + 1
    BY <1>2, <1>3
  <2> QED  BY <1>0, <1>2, <2>1, <2>2 DEF PollTypes
<1>9. TableIsRight'
  <2>1. InTable' = {sockOf'[v] : v \in Users} \ {nothing}
    BY <1>0, <1>1, <1>2, <1>4, <1>7 DEF TableIsRight
  <2>2. \A u \in Users : /\ sockOf'[u] # nothing => user[u] \in {"in", "left"}
                         /\ user[u] = "in" => sockOf'[u] # nothing
                         /\ unheard'[u] # nothing => sockOf'[u] # nothing
    BY <1>0, <1>6, <1>7 DEF TableIsRight
  <2>3. \A u, v \in Users : sockOf'[u] = sockOf'[v] /\ sockOf'[u] # nothing => u = v
    BY <1>0, <1>7 DEF TableIsRight
  <2> QED  BY <1>0, <1>2, <2>1, <2>2, <2>3 DEF TableIsRight
<1>10. RoundIsRight'
  <2>1. pos' # 0 /\ Ahead' \subseteq Ahead \ {f} /\ nothing \notin Ahead
    <3>1. Ahead \subseteq Socks
      BY <1>0, <1>3 DEF Ahead, PollTypes
    <3> QED  BY <1>2, <1>3, <1>4, <3>1, PollChatAssumption DEF nothing
  <2> SUFFICES ASSUME NEW v \in Users, sockOf'[v] \in Ahead'
               PROVE  /\ sockOf'[v] \in hup => user[v] = "left"
                      /\ sockOf'[v] \in readable => unheard'[v] # nothing
                      /\ sockOf'[v] \in writable => sockOf'[v] \in written
    BY <1>0, <2>1 DEF RoundIsRight
  <2>2. v # o /\ sockOf'[v] = sockOf[v] /\ unheard'[v] = unheard[v]
    BY <1>7, <2>1
  <2> QED  BY <1>0, <2>1, <2>2 DEF RoundIsRight
<1>11. NewAreSilent'
  BY <1>0 DEF NewAreSilent
<1>12. TextsDiffer /\ SentOnce => TextsDiffer' /\ SentOnce'
  <2> SUFFICES ASSUME TextsDiffer, SentOnce PROVE TextsDiffer' /\ SentOnce'
    OBVIOUS
  <2>1. SentOnce'
    BY <1>0 DEF SentOnce
  <2>2. \A v \in Users : unheard'[v] = nothing \/ unheard'[v] = unheard[v]
    BY <1>7
  <2>3. \A v \in Users : unheard'[v] <= spoken
    <3>1. nothing <= spoken
      BY <1>0 DEF nothing, PollTypes
    <3> QED  BY <1>7, <3>1 DEF TextsDiffer
  <2>4. \A v, w \in Users : unheard'[v] # nothing =>
            /\ unheard'[v] = unheard'[w] => v = w
            /\ due[w] # unheard'[v]
            /\ \A i \in 1..Len(sentTo[w]) : sentTo[w][i] # unheard'[v]
    BY <1>7, <2>2 DEF TextsDiffer
  <2> QED  BY <1>0, <2>1, <2>3, <2>4 DEF TextsDiffer
<1>13. BuffersAreRight /\ ~replaced' => BuffersAreRight'
  <2> SUFFICES ASSUME BuffersAreRight, ~replaced', NEW v \in Users, sockOf'[v] # nothing
               PROVE  /\ sockOf'[v] \notin written => due[v] = nothing /\ sentTo[v] = <<>>
                      /\ sockOf'[v] \in written /\ write_buf'[sockOf'[v]] # nothing =>
                            /\ write_buf'[sockOf'[v]] # sockOf'[v]
                            /\ text'[write_buf'[sockOf'[v]]] = due[v] /\ due[v] # nothing
                            /\ \A i \in 1..Len(sentTo[v]) : sentTo[v][i] # due[v]
                      /\ sockOf'[v] \in written /\ write_buf'[sockOf'[v]] = nothing =>
                            sentTo[v] # <<>> /\ due[v] = sentTo[v][Len(sentTo[v])]
    BY <1>0 DEF BuffersAreRight
  <2>1. sockOf'[v] = sockOf[v] /\ sockOf[v] # f
    BY <1>1, <1>4, <1>7
  <2>2. sockOf[v] \in InTable /\ sockOf[v] \in Socks
    BY <1>0, <2>1 DEF TableIsRight, PollTypes
  <2>3. write_buf'[sockOf[v]] = write_buf[sockOf[v]] /\ write_buf[sockOf[v]] # f
    BY <1>5, <1>7, <2>1, <2>2
  <2>4. write_buf[sockOf[v]] # nothing => text'[write_buf[sockOf[v]]] = text[write_buf[sockOf[v]]]
    BY <1>0, <1>7, <2>2, <2>3 DEF PollTypes
  <2> QED  BY <2>1, <2>3, <2>4 DEF BuffersAreRight
<1>14. replaced => replaced'
  BY <1>5
<1> QED  BY <1>8, <1>9, <1>10, <1>11, <1>12, <1>13, <1>14 DEF PollInv

\* What has been read is for everybody else, who is to be written to from now on.
LEMMA TextReceived == ASSUME PollInv, ReceiveText PROVE PollInv'
<1>0. /\ UNCHANGED <<user, spoken, sockOf, table, hup, readable, writable, sentTo, replaced>>
      /\ Looking /\ Fd \in readable /\ pos' = pos + 1
      /\ PollTypes /\ TableIsRight /\ RoundIsRight /\ NewAreSilent
  BY DEF ReceiveText, reventVars, PollInv
<1>1. /\ Ahead' \subseteq Ahead \ {Fd} /\ InTable' = InTable /\ pos' \in 0..Len(table) + 1
      /\ pos' # 0 /\ (IsInjective(table)' <=> IsInjective(table))
  BY <1>0, NextEntry
<1>2. PICK o \in Users, f \in Socks :
         /\ o = Own /\ f = Fd /\ sockOf[o] = f /\ f # nothing /\ f \in InTable /\ f \in Ahead
         /\ \A u \in Users : sockOf[u] = f => u = o
  BY <1>0, EntryLookedAt
<1>3. /\ text' = [text EXCEPT ![f] = unheard[o]]
      /\ unheard' = [unheard EXCEPT ![o] = nothing]
      /\ written' = written \cup (InTable \ {f})
      /\ write_buf' = [e \in Socks |-> IF e \in InTable \ {f} THEN f ELSE write_buf[e]]
      /\ due' = [u \in Users |-> IF sockOf[u] \in InTable \ {f} THEN unheard[o] ELSE due[u]]
  BY <1>2 DEF ReceiveText
<1>4. unheard[o] # nothing
  BY <1>0, <1>2 DEF RoundIsRight
<1>5. InTable \subseteq Socks
  BY <1>0 DEF InTable, ToSet, PollTypes
<1>6. /\ \A v \in Users : unheard'[v] = IF v = o THEN nothing ELSE unheard[v]
      /\ \A e \in Socks : text'[e] = IF e = f THEN unheard[o] ELSE text[e]
  BY <1>0, <1>3 DEF PollTypes
<1>7. PollTypes'
  <2>1. /\ unheard' \in [Users -> Nat] /\ text' \in [Socks -> Nat] /\ due' \in [Users -> Nat]
        /\ written' \subseteq Socks /\ write_buf' \in [Socks -> Socks \cup {nothing}]
    BY <1>0, <1>3, <1>5 DEF PollTypes, nothing
  <2> QED  BY <1>0, <1>1, <2>1 DEF PollTypes
<1>8. TableIsRight'
  BY <1>0, <1>1, <1>6 DEF TableIsRight
<1>9. RoundIsRight'
  BY <1>0, <1>1, <1>2, <1>3, <1>6 DEF RoundIsRight
<1>10. \A u \in Users : sockOf[u] \in InTable \ {f} <=> (sockOf[u] # nothing /\ u # o)
  BY <1>0, <1>2 DEF TableIsRight
<1>11. NewAreSilent'
  BY <1>0, <1>3, <1>10 DEF NewAreSilent, TableIsRight
<1>12. TextsDiffer => TextsDiffer'
  <2> SUFFICES ASSUME TextsDiffer PROVE TextsDiffer'
    OBVIOUS
  <2>1. \A v \in Users : unheard'[v] <= spoken /\ due'[v] <= spoken
    BY <1>0, <1>3, <1>6 DEF TextsDiffer, nothing, PollTypes
  <2>2. \A v, w \in Users : unheard'[v] # nothing =>
            /\ unheard'[v] = unheard'[w] => v = w
            /\ due'[w] # unheard'[v]
            /\ \A i \in 1..Len(sentTo[w]) : sentTo[w][i] # unheard'[v]
    BY <1>3, <1>4, <1>6 DEF TextsDiffer
  <2> QED  BY <1>0, <2>1, <2>2 DEF TextsDiffer
<1>13. SentOnce => SentOnce'
  BY <1>0 DEF SentOnce
<1>14. TextsDiffer /\ BuffersAreRight => BuffersAreRight'
  <2> SUFFICES ASSUME TextsDiffer, BuffersAreRight, NEW v \in Users, sockOf[v] # nothing
               PROVE  /\ sockOf[v] \notin written' => due'[v] = nothing /\ sentTo[v] = <<>>
                      /\ sockOf[v] \in written' /\ write_buf'[sockOf[v]] # nothing =>
                            /\ write_buf'[sockOf[v]] # sockOf[v]
                            /\ text'[write_buf'[sockOf[v]]] = due'[v] /\ due'[v] # nothing
                            /\ \A i \in 1..Len(sentTo[v]) : sentTo[v][i] # due'[v]
                      /\ sockOf[v] \in written' /\ write_buf'[sockOf[v]] = nothing =>
                            sentTo[v] # <<>> /\ due'[v] = sentTo[v][Len(sentTo[v])]
    BY <1>0 DEF BuffersAreRight
  <2>1. sockOf[v] \in InTable /\ sockOf[v] \in Socks
    BY <1>0, <1>5 DEF TableIsRight
  <2>2. CASE v = o
    <3>1. /\ write_buf'[sockOf[v]] = write_buf[sockOf[v]] /\ due'[v] = due[v]
          /\ sockOf[v] \in written' <=> sockOf[v] \in written
      BY <1>2, <1>3, <2>1, <2>2
    <3>2. sockOf[v] \in written /\ write_buf[f] # nothing => text'[write_buf[f]] = text[write_buf[f]]
      BY <1>0, <1>2, <1>6, <2>1, <2>2 DEF BuffersAreRight, PollTypes
    <3> QED  BY <1>2, <2>2, <3>1, <3>2 DEF BuffersAreRight
  <2>3. CASE v # o
    <3>1. sockOf[v] \in InTable \ {f}
      BY <1>10, <2>3
    <3>2. write_buf'[sockOf[v]] = f /\ due'[v] = unheard[o] /\ sockOf[v] \in written'
      BY <1>3, <2>1, <3>1
    <3>3. text'[f] = unheard[o] /\ f # sockOf[v] /\ f # nothing
      BY <1>2, <1>6, <3>1
    <3> QED  BY <1>4, <3>2, <3>3 DEF TextsDiffer
  <2> QED  BY <2>2, <2>3
<1> QED  BY <1>0, <1>7, <1>8, <1>9, <1>11, <1>12, <1>13, <1>14 DEF PollInv

\* A text is sent: the pointer goes, and what was due is the last of what was sent.
LEMMA TextSent == ASSUME PollInv, SendText PROVE PollInv'
<1>0. /\ UNCHANGED <<user, unheard, spoken, sockOf, table, written, hup, readable, writable, text,
                     due, replaced>>
      /\ Looking /\ pos' = pos + 1
      /\ PollTypes /\ TableIsRight /\ RoundIsRight /\ NewAreSilent
  BY DEF SendText, peerVars, reventVars, PollInv
<1>1. /\ Ahead' \subseteq Ahead \ {Fd} /\ InTable' = InTable /\ pos' \in 0..Len(table) + 1
      /\ pos' # 0 /\ (IsInjective(table)' <=> IsInjective(table))
  BY <1>0, NextEntry
<1>2. PICK o \in Users, f \in Socks :
         /\ o = Own /\ f = Fd /\ sockOf[o] = f /\ f # nothing /\ f \in Ahead
         /\ \A u \in Users : sockOf[u] = f => u = o
  BY <1>0, EntryLookedAt
<1>3. TableIsRight'
  BY <1>0, <1>1 DEF TableIsRight
<1>4. RoundIsRight'
  BY <1>0, <1>1 DEF RoundIsRight
<1>5. CASE UNCHANGED <<sentTo, write_buf>>
  <2>1. PollTypes' /\ NewAreSilent'
    BY <1>0, <1>1, <1>5 DEF PollTypes, NewAreSilent
  <2>2. TextsDiffer /\ BuffersAreRight /\ SentOnce => (TextsDiffer /\ BuffersAreRight /\ SentOnce)'
    BY <1>0, <1>5 DEF TextsDiffer, BuffersAreRight, SentOnce
  <2> QED  BY <1>0, <1>3, <1>4, <2>1, <2>2 DEF PollInv
<1>6. CASE f \in writable /\ write_buf[f] # nothing
  <2> DEFINE t == text[write_buf[f]]
  <2>1. /\ sentTo' = [sentTo EXCEPT ![o] = Append(@, t)]
        /\ write_buf' = [write_buf EXCEPT ![f] = nothing]
    BY <1>2, <1>6 DEF SendText
  <2>2. write_buf[f] \in Socks /\ t \in Nat /\ sentTo[o] \in Seq(Nat)
    BY <1>0, <1>6 DEF PollTypes
  <2> HIDE DEF t
  <2>3. /\ \A v \in Users : v # o => sentTo'[v] = sentTo[v]
        /\ sentTo'[o] = Append(sentTo[o], t)
        /\ \A e \in Socks : write_buf'[e] = IF e = f THEN nothing ELSE write_buf[e]
    BY <1>0, <2>1 DEF PollTypes
  <2>4. /\ Len(sentTo[o]) \in Nat /\ Len(sentTo'[o]) = Len(sentTo[o]) + 1
        /\ \A i \in 1..Len(sentTo[o]) : sentTo'[o][i] = sentTo[o][i]
        /\ sentTo'[o][Len(sentTo[o]) + 1] = t /\ sentTo'[o] # <<>>
    BY <2>2, <2>3
  <2>5. PollTypes'
    <3>1. sentTo' \in [Users -> Seq(Nat)]
      BY <1>0, <2>1, <2>2 DEF PollTypes
    <3>2. write_buf' \in [Socks -> Socks \cup {nothing}]
      BY <1>0, <2>1 DEF PollTypes
    <3> QED  BY <1>0, <1>1, <3>1, <3>2 DEF PollTypes
  <2>6. NewAreSilent'
    <3>1. user[o] \in {"in", "left"}
      BY <1>0, <1>2 DEF TableIsRight
    <3> QED  BY <1>0, <2>3, <3>1 DEF NewAreSilent
  <2>7. ASSUME TextsDiffer, BuffersAreRight, SentOnce
        PROVE  (TextsDiffer /\ BuffersAreRight /\ SentOnce)'
    <3>1. f \in written
      BY <1>0, <1>2, <1>6 DEF RoundIsRight
    <3>2. /\ t = due[o] /\ due[o] # nothing
          /\ \A i \in 1..Len(sentTo[o]) : sentTo[o][i] # t
      BY <1>2, <1>6, <2>7, <3>1 DEF BuffersAreRight, t
    <3>3. t \in 1..spoken
      BY <1>0, <2>2, <2>7, <3>2 DEF TextsDiffer, PollTypes, nothing
    <3>4. \A i \in 1..Len(sentTo'[o]) :
             \/ i \in 1..Len(sentTo[o]) /\ sentTo'[o][i] = sentTo[o][i]
             \/ i = Len(sentTo[o]) + 1 /\ sentTo'[o][i] = t
      BY <2>4
    <3>5. SentOnce'
      <4> SUFFICES ASSUME NEW v \in Users, NEW i \in 1..Len(sentTo'[v]), NEW j \in 1..Len(sentTo'[v]),
                          sentTo'[v][i] = sentTo'[v][j]
                   PROVE  i = j
        BY DEF SentOnce
      <4>1. CASE v # o
        BY <2>3, <2>7, <4>1 DEF SentOnce
      <4>2. CASE v = o
        BY <2>7, <3>2, <3>4, <4>2 DEF SentOnce
      <4> QED  BY <4>1, <4>2
    <3>6. TextsDiffer'
      <4>1. \A v \in Users : \A i \in 1..Len(sentTo'[v]) : sentTo'[v][i] \in 1..spoken
        <5> SUFFICES ASSUME NEW v \in Users, NEW i \in 1..Len(sentTo'[v])
                     PROVE  sentTo'[v][i] \in 1..spoken
          OBVIOUS
        <5>1. CASE v # o
          BY <2>3, <2>7, <5>1 DEF TextsDiffer
        <5>2. CASE v = o
          BY <2>7, <3>3, <3>4, <5>2 DEF TextsDiffer
        <5> QED  BY <5>1, <5>2
      <4>2. ASSUME NEW v \in Users, NEW w \in Users, unheard[v] # nothing,
                   NEW i \in 1..Len(sentTo'[w])
            PROVE  sentTo'[w][i] # unheard[v]
        <5>1. CASE w # o
          BY <2>3, <2>7, <4>2, <5>1 DEF TextsDiffer
        <5>2. CASE w = o
          BY <2>7, <3>2, <3>4, <4>2, <5>2 DEF TextsDiffer
        <5> QED  BY <5>1, <5>2
      <4> QED  BY <1>0, <2>7, <4>1, <4>2 DEF TextsDiffer
    <3>7. BuffersAreRight'
      <4> SUFFICES ASSUME NEW v \in Users, sockOf[v] # nothing
                   PROVE  /\ sockOf[v] \notin written => due[v] = nothing /\ sentTo'[v] = <<>>
                          /\ sockOf[v] \in written /\ write_buf'[sockOf[v]] # nothing =>
                                /\ write_buf'[sockOf[v]] # sockOf[v]
                                /\ text[write_buf'[sockOf[v]]] = due[v] /\ due[v] # nothing
                                /\ \A i \in 1..Len(sentTo'[v]) : sentTo'[v][i] # due[v]
                          /\ sockOf[v] \in written /\ write_buf'[sockOf[v]] = nothing =>
                                sentTo'[v] # <<>> /\ due[v] = sentTo'[v][Len(sentTo'[v])]
        BY <1>0 DEF BuffersAreRight
      <4>1. CASE v # o
        <5>1. sockOf[v] # f /\ sockOf[v] \in Socks
          BY <1>0, <1>2, <4>1 DEF PollTypes
        <5>2. write_buf'[sockOf[v]] = write_buf[sockOf[v]] /\ sentTo'[v] = sentTo[v]
          BY <2>3, <4>1, <5>1
        <5> QED  BY <2>7, <5>2 DEF BuffersAreRight
      <4>2. CASE v = o
        BY <1>2, <2>3, <2>4, <3>1, <3>2, <4>2
      <4> QED  BY <4>1, <4>2
    <3> QED  BY <3>5, <3>6, <3>7
  <2> QED  BY <1>0, <1>3, <1>4, <2>5, <2>6, <2>7 DEF PollInv
<1> QED  BY <1>2, <1>5, <1>6 DEF SendText

LEMMA PollInvariant == PollInv /\ [PollChatNext]_pollChatVars => PollInv'
<1> SUFFICES ASSUME PollInv, [PollChatNext]_pollChatVars PROVE PollInv'
  OBVIOUS
<1>1. ASSUME UNCHANGED <<user, unheard, spoken, sockOf, table, written, hup, readable, writable, pos,
                         write_buf, text, sentTo, due, replaced>>
      PROVE  PollInv'
  <2>1. PollTypes' /\ NewAreSilent'
    BY <1>1 DEF PollInv, PollTypes, NewAreSilent
  <2>2. InTable' = InTable /\ Ahead' = Ahead /\ Waiting' = Waiting
    BY <1>1 DEF InTable, Ahead, Waiting
  <2>3. TableIsRight'
    BY <1>1, <2>2 DEF PollInv, TableIsRight
  <2>4. RoundIsRight'
    BY <1>1, <2>2 DEF PollInv, RoundIsRight
  <2>5. TextsDiffer /\ BuffersAreRight /\ SentOnce => (TextsDiffer /\ BuffersAreRight /\ SentOnce)'
    BY <1>1 DEF TextsDiffer, BuffersAreRight, SentOnce
  <2> QED  BY <1>1, <2>1, <2>3, <2>4, <2>5 DEF PollInv
<1>2. CASE UNCHANGED pollChatVars
  BY <1>1, <1>2 DEF pollChatVars, peerVars, reventVars, bufferVars
<1>3. CASE AcceptMany
  BY <1>1, <1>3 DEF AcceptMany, peerVars, reventVars, bufferVars
<1>4. CASE PollChatNext
  BY <1>3, <1>4, UsersKeep, PollKeeps, UserAccepted, UserRemoved, TextReceived, TextSent
     DEF PollChatNext, ServerStep
<1> QED  BY <1>2, <1>4

(***************************************************************************)
(* The chat room over poll (79_io_reuse, chat_room_server), for any number *)
(* of users and descriptors: every user has its entry whatever moves in    *)
(* the table.  Until a buffer that is still to be sent from is given to    *)
(* another user, nobody hears a text twice, and when nothing is left to do *)
(* everyone has heard the last one for them.                               *)
(***************************************************************************)
THEOREM LastTextIsHeard == PollChatSpec => []LastIsHeard
<1>1. PollInv => LastIsHeard
  <2> SUFFICES ASSUME PollInv PROVE LastIsHeard
    OBVIOUS
  <2>1. IsInjective(table) /\ InTable = {sockOf[u] : u \in Users} \ {nothing}
    BY DEF PollInv, TableIsRight
  <2>2. ASSUME ~replaced, NEW u \in Users
        PROVE  /\ IsInjective(sentTo[u])
               /\ user[u] = "in" /\ write_buf[sockOf[u]] = nothing
                     => due[u] = (IF sentTo[u] = <<>> THEN nothing ELSE Last(sentTo[u]))
    <3>1. BuffersAreRight /\ SentOnce /\ TableIsRight /\ sentTo[u] \in Seq(Nat)
      BY <2>2 DEF PollInv, PollTypes
    <3>2. IsInjective(sentTo[u])
      BY <3>1 DEF SentOnce, IsInjective
    <3> QED  BY <3>1, <3>2 DEF BuffersAreRight, TableIsRight, Last
  <2> QED  BY <2>1, <2>2 DEF LastIsHeard
<1> QED  BY <1>1, PollInitial, PollInvariant, PTL DEF PollChatSpec

-----------------------------------------------------------------------------
(***************************************************************************)
(* The writer and the reader of 06_system_v_ipc.  A process that has       *)
(* created the set, or taken a semaphore, owes a semop; there is one turn: *)
(* it is in a semaphore or owed, or was lost with who owed it.             *)
(***************************************************************************)
Owes(p) == ppc[p] \in {"setRead", "setWrite", "use", "release"}

SemTypes ==
    /\ sem = <<>> \/ sem \in [read : 0..1, write : 0..1]
    /\ ppc \in [Procs -> {"off", "setRead", "setWrite", "wait", "use", "release", "compare", "done"}]
    /\ typed \in 0..Exit /\ msg = typed
    /\ printed \in Seq(Nat) /\ torn \in BOOLEAN
    /\ kills \in Nat

OneTurn ==
    IF sem = <<>>
    THEN /\ \A p \in Procs : ~Owes(p)
         /\ \/ typed = 0 /\ printed = <<>> /\ ~torn /\ \A p \in Procs : ppc[p] = "off"
            \/ ppc["reader"] = "done" /\ ppc["writer"] \in {"off", "compare", "done"} /\ typed = Exit
    ELSE /\ ~(sem.read = 1 /\ sem.write = 1)
         /\ ~(Owes("writer") /\ Owes("reader"))
         /\ Owes("writer") \/ Owes("reader") => sem.read = 0 /\ sem.write = 0
         /\ ~torn => sem.read = 1 \/ sem.write = 1 \/ Owes("writer") \/ Owes("reader")
         /\ ppc["reader"] # "done"

\* The last line typed has not been read.
Unread == ppc["writer"] = "release" \/ ppc["reader"] = "use" \/ (sem # <<>> /\ sem.read = 1)

LinesRead ==
    /\ \A i, j \in 1..Len(printed) : i < j => printed[i] < printed[j]
    /\ \A i \in 1..Len(printed) : printed[i] <= typed /\ printed[i] < Exit
    /\ Unread => typed > 0 /\ \A i \in 1..Len(printed) : printed[i] < typed
    /\ ~torn => \A i \in 1..Len(printed) : printed[i] = i
    /\ ~torn /\ sem # <<>> => Len(printed) = IF Unread THEN typed - 1 ELSE typed

WriterAt ==
    /\ ppc["writer"] \in {"setRead", "setWrite", "wait", "use"} => typed < Exit
    /\ ppc["writer"] = "done" => typed = Exit
    /\ ppc["reader"] # "compare"

SemInv == SemTypes /\ OneTurn /\ LinesRead /\ WriterAt

\* A set is not the absence of one, and has two values.
LEMMA SetIsThere ==
  ASSUME NEW s \in [read : 0..1, write : 0..1]
  PROVE  s # <<>> /\ s.read \in 0..1 /\ s.write \in 0..1
<1>1. DOMAIN s = {"read", "write"}
  OBVIOUS
<1>2. "read" \notin DOMAIN <<>>
  OBVIOUS
<1> QED  BY <1>1, <1>2

LEMMA SemFirst == SemInit => SemInv
<1> SUFFICES ASSUME SemInit PROVE SemInv
  OBVIOUS
<1> USE SemAssumption DEF SemInit, Procs, Exit
<1>1. SemTypes
  <2>1. printed \in Seq(Nat) /\ typed \in 0..Exit /\ msg = typed /\ kills \in Nat
    OBVIOUS
  <2>2. sem = <<>> /\ torn \in BOOLEAN
    BY Zenon
  <2>3. ppc \in [Procs -> {"off", "setRead", "setWrite", "wait", "use", "release", "compare", "done"}]
    OBVIOUS
  <2> QED  BY <2>1, <2>2, <2>3 DEF SemTypes
<1>2. Len(printed) = 0
  OBVIOUS
<1>3. OneTurn /\ LinesRead /\ WriterAt
  BY <1>2 DEF OneTurn, LinesRead, WriterAt, Owes, Unread
<1> QED  BY <1>1, <1>3 DEF SemInv

\* A step that neither types nor prints, and kills nobody.
LEMMA SameLines ==
  ASSUME SemInv, UNCHANGED <<typed, printed, torn>>, sem # <<>>, sem' # <<>>,
         Unread' <=> Unread
  PROVE  LinesRead'
  BY DEF SemInv, LinesRead

LEMMA SemSetUp ==
  ASSUME SemInv, NEW p \in Procs, OpenSet(p) \/ SetRead(p) \/ SetWrite(p)
  PROVE  SemInv'
<1> USE DEF SemInv, Procs, Goto
<1>1. UNCHANGED <<msg, typed, printed, torn, kills>>
  BY DEF OpenSet, SetRead, SetWrite
<1>2. CASE OpenSet(p) /\ sem = <<>>
  <2>1. sem' = [read |-> 0, write |-> 0] /\ ppc' = [ppc EXCEPT ![p] = "setRead"]
        /\ ppc[p] = "off" /\ (p = "writer" => typed < Exit)
    BY <1>2 DEF OpenSet
  <2>2. sem' \in [read : 0..1, write : 0..1] /\ sem'.read = 0 /\ sem'.write = 0
    BY <2>1
  <2>3. sem' # <<>>
    BY <2>2, SetIsThere
  <2>4. typed = 0 /\ printed = <<>> /\ ~torn /\ \A q \in Procs : ppc[q] = "off"
    <3>1. typed \in Nat /\ Exit \in Nat
      BY SemAssumption DEF SemTypes, Exit
    <3>2. ~(ppc["reader"] = "done" /\ ppc["writer"] \in {"off", "compare", "done"} /\ typed = Exit)
      BY <2>1, <3>1
    <3> QED  BY <1>2, <3>2 DEF OneTurn
  <2>5. SemTypes' /\ OneTurn' /\ WriterAt'
    BY <1>1, <2>1, <2>2, <2>3, <2>4 DEF SemTypes, OneTurn, WriterAt, Owes
  <2>6. LinesRead'
    <3>1. Len(printed') = 0 /\ ~Unread'
      BY <1>1, <2>1, <2>2, <2>4 DEF SemTypes, Unread
    <3> QED  BY <1>1, <2>4, <3>1 DEF LinesRead
  <2> QED  BY <2>5, <2>6
<1>3. CASE ~(OpenSet(p) /\ sem = <<>>)
  <2>1. sem # <<>> /\ sem \in [read : 0..1, write : 0..1]
    BY <1>3 DEF SemTypes, OpenSet, SetRead, SetWrite
  <2>2. \/ /\ ppc[p] = "off" /\ (p = "writer" => typed < Exit)
           /\ ppc' = [ppc EXCEPT ![p] = "wait"] /\ sem' = sem
        \/ /\ ppc[p] = "setRead" /\ ppc' = [ppc EXCEPT ![p] = "setWrite"]
           /\ sem' = [sem EXCEPT !.read = 0]
        \/ /\ ppc[p] = "setWrite" /\ ppc' = [ppc EXCEPT ![p] = "wait"]
           /\ sem' = [sem EXCEPT !.write = 1]
    BY <1>3 DEF OpenSet, SetRead, SetWrite
  <2>3. ppc[p] \in {"setRead", "setWrite"} => sem.read = 0 /\ sem.write = 0
    BY <2>1 DEF OneTurn, Owes
  <2>4. /\ sem' \in [read : 0..1, write : 0..1]
        /\ sem'.read = sem.read
        /\ sem'.write = IF ppc[p] = "setWrite" THEN 1 ELSE sem.write
    BY <2>1, <2>2, <2>3
  <2>5. sem' # <<>>
    BY <2>4, SetIsThere
  <2>6. SemTypes' /\ WriterAt'
    BY <1>1, <2>2, <2>4 DEF SemTypes, WriterAt
  <2>7. OneTurn'
    BY <1>1, <2>1, <2>2, <2>3, <2>4, <2>5 DEF SemTypes, OneTurn, Owes
  <2>8. Unread' <=> Unread
    BY <2>1, <2>2, <2>4, <2>5 DEF Unread, SemTypes
  <2> QED  BY <1>1, <2>1, <2>5, <2>6, <2>7, <2>8, SameLines
<1> QED  BY <1>2, <1>3

LEMMA SemTakes == ASSUME SemInv, NEW p \in Procs, SemDown(p) PROVE SemInv'
<1> USE DEF SemInv, Procs, Goto
<1>1. /\ UNCHANGED <<msg, typed, printed, torn, kills>> /\ sem # <<>>
      /\ ppc[p] = "wait" /\ ppc' = [ppc EXCEPT ![p] = "use"]
      /\ sem[Mine(p)] > 0 /\ sem' = [sem EXCEPT ![Mine(p)] = sem[Mine(p)] - 1]
  BY DEF SemDown
<1>2. sem \in [read : 0..1, write : 0..1] /\ sem.read \in 0..1 /\ sem.write \in 0..1
  BY <1>1, SetIsThere DEF SemTypes
<1>3. CASE p = "writer"
  <2>1. sem.write = 1 /\ sem.read = 0
    BY <1>1, <1>2, <1>3 DEF Mine, OneTurn
  <2>2. sem' \in [read : 0..1, write : 0..1] /\ sem'.read = 0 /\ sem'.write = 0
    BY <1>1, <1>2, <1>3, <2>1 DEF Mine
  <2>3. sem' # <<>>
    BY <2>2, SetIsThere
  <2>4. SemTypes' /\ WriterAt' /\ OneTurn'
    BY <1>1, <1>3, <2>1, <2>2, <2>3 DEF SemTypes, WriterAt, OneTurn, Owes
  <2>5. Unread' <=> Unread
    BY <1>1, <1>3, <2>1, <2>2, <2>3 DEF Unread, SemTypes
  <2> QED  BY <1>1, <2>3, <2>4, <2>5, SameLines
<1>4. CASE p = "reader"
  <2>1. sem.read = 1 /\ sem.write = 0
    BY <1>1, <1>2, <1>4 DEF Mine, OneTurn
  <2>2. sem' \in [read : 0..1, write : 0..1] /\ sem'.read = 0 /\ sem'.write = 0
    BY <1>1, <1>2, <1>4, <2>1 DEF Mine
  <2>3. sem' # <<>>
    BY <2>2, SetIsThere
  <2>4. SemTypes' /\ WriterAt' /\ OneTurn'
    BY <1>1, <1>4, <2>1, <2>2, <2>3 DEF SemTypes, WriterAt, OneTurn, Owes
  <2>5. Unread' <=> Unread
    BY <1>1, <1>4, <2>1, <2>2, <2>3 DEF Unread, SemTypes
  <2> QED  BY <1>1, <2>3, <2>4, <2>5, SameLines
<1> QED  BY <1>3, <1>4

LEMMA SemGives == ASSUME SemInv, NEW p \in Procs, SemUp(p) PROVE SemInv'
<1> USE DEF SemInv, Procs, Goto
<1>1. ppc[p] = "release" /\ sem # <<>>
  BY DEF SemUp, OneTurn, Owes
<1>2. /\ UNCHANGED <<msg, typed, printed, torn, kills>>
      /\ ppc' = [ppc EXCEPT ![p] = IF p = "writer" THEN "compare" ELSE "wait"]
      /\ sem' = [sem EXCEPT ![Theirs(p)] = sem[Theirs(p)] + 1]
  BY <1>1 DEF SemUp
<1>3. /\ sem \in [read : 0..1, write : 0..1] /\ sem.read = 0 /\ sem.write = 0
      /\ \A q \in Procs \ {p} : ~Owes(q)
  BY <1>1 DEF SemTypes, OneTurn, Owes
<1>4. CASE p = "writer"
  <2>1. sem' \in [read : 0..1, write : 0..1] /\ sem'.read = 1 /\ sem'.write = 0
    BY <1>2, <1>3, <1>4 DEF Theirs
  <2>2. sem' # <<>>
    BY <2>1, SetIsThere
  <2>3. SemTypes' /\ WriterAt' /\ OneTurn'
    BY <1>1, <1>2, <1>3, <1>4, <2>1, <2>2 DEF SemTypes, WriterAt, OneTurn, Owes
  <2>4. Unread' <=> Unread
    BY <1>1, <1>4, <2>1, <2>2 DEF Unread
  <2> QED  BY <1>1, <1>2, <2>2, <2>3, <2>4, SameLines
<1>5. CASE p = "reader"
  <2>1. sem' \in [read : 0..1, write : 0..1] /\ sem'.read = 0 /\ sem'.write = 1
    BY <1>2, <1>3, <1>5 DEF Theirs
  <2>2. sem' # <<>>
    BY <2>1, SetIsThere
  <2>3. SemTypes' /\ WriterAt' /\ OneTurn'
    BY <1>1, <1>2, <1>3, <1>5, <2>1, <2>2 DEF SemTypes, WriterAt, OneTurn, Owes
  <2>4. Unread' <=> Unread
    BY <1>1, <1>2, <1>3, <1>5, <2>1, <2>2 DEF Unread, SemTypes, Owes
  <2> QED  BY <1>1, <1>2, <2>2, <2>3, <2>4, SameLines
<1> QED  BY <1>4, <1>5

\* A line is typed when the last one has been read, unless a process was killed.
LEMMA SemTypesLine == ASSUME SemInv, WriteLine PROVE SemInv'
<1> USE DEF SemInv, Procs, Goto
<1>1. /\ ppc["writer"] = "use" /\ ppc' = [ppc EXCEPT !["writer"] = "release"]
      /\ typed < Exit /\ typed' = typed + 1 /\ msg' = typed + 1
      /\ UNCHANGED <<sem, printed, torn, kills>>
  BY DEF WriteLine
<1>2. sem # <<>> /\ ~Owes("reader") /\ sem.read = 0 /\ sem.write = 0 /\ ppc["reader"] # "done"
  BY <1>1 DEF OneTurn, Owes
<1>3. typed' \in 0..Exit /\ typed \in Nat /\ Exit \in Nat
  BY <1>1, SemAssumption DEF SemTypes, Exit
<1>4. SemTypes' /\ WriterAt' /\ OneTurn'
  BY <1>1, <1>2, <1>3 DEF SemTypes, WriterAt, OneTurn, Owes
<1>5. LinesRead'
  <2>1. Unread' /\ ~Unread
    BY <1>1, <1>2 DEF Unread, SemTypes, Owes
  <2>2. /\ \A i \in 1..Len(printed) : printed[i] <= typed /\ printed[i] \in Nat
        /\ ~torn => Len(printed) = typed
    BY <1>2, <2>1 DEF LinesRead, SemTypes
  <2>3. /\ \A i \in 1..Len(printed) : printed[i] < typed + 1 /\ printed[i] <= typed + 1
        /\ typed + 1 > 0 /\ typed + 1 - 1 = typed
    BY <1>3, <2>2
  <2> QED  BY <1>1, <2>1, <2>2, <2>3 DEF LinesRead
<1> QED  BY <1>4, <1>5

LEMMA SemPrintsLine == ASSUME SemInv, ReadLine PROVE SemInv'
<1> USE DEF SemInv, Procs, Goto
<1>1. ppc["reader"] = "use" /\ UNCHANGED <<msg, typed, torn, kills>>
  BY DEF ReadLine
<1>2. sem # <<>> /\ ~Owes("writer") /\ sem.read = 0 /\ sem.write = 0
  BY <1>1 DEF OneTurn, Owes
<1>3. Unread
  BY <1>1 DEF Unread
<1>4. typed \in Nat /\ Exit \in Nat /\ typed <= Exit /\ msg = typed
  BY SemAssumption DEF SemTypes, Exit
<1>5. CASE msg = Exit
  <2>1. /\ ppc' = [ppc EXCEPT !["reader"] = "done"] /\ sem' = <<>> /\ printed' = printed
    BY <1>5 DEF ReadLine
  <2>2. ppc["writer"] \in {"off", "compare", "done"}
    BY <1>2, <1>4, <1>5 DEF WriterAt, SemTypes, Owes
  <2>3. SemTypes' /\ WriterAt' /\ OneTurn'
    BY <1>1, <1>4, <1>5, <2>1, <2>2 DEF SemTypes, WriterAt, OneTurn, Owes
  <2>4. ~Unread'
    BY <2>1, <2>2 DEF Unread, SemTypes
  <2>5. LinesRead'
    BY <1>1, <2>1, <2>4 DEF LinesRead
  <2> QED  BY <2>3, <2>5
<1>6. CASE msg # Exit
  <2>1. /\ ppc' = [ppc EXCEPT !["reader"] = "release"] /\ printed' = Append(printed, typed)
        /\ sem' = sem
    BY <1>4, <1>6 DEF ReadLine
  <2>2. /\ Len(printed) \in Nat /\ Len(printed') = Len(printed) + 1 /\ printed' \in Seq(Nat)
        /\ \A i \in 1..Len(printed') : printed'[i] = IF i = Len(printed) + 1 THEN typed ELSE printed[i]
    BY <1>4, <2>1 DEF SemTypes
  <2>3. SemTypes' /\ WriterAt' /\ OneTurn'
    BY <1>1, <1>2, <2>1, <2>2 DEF SemTypes, WriterAt, OneTurn, Owes
  <2>4. ~Unread'
    BY <1>2, <2>1 DEF Unread, SemTypes, Owes
  <2>5. /\ typed > 0 /\ \A i \in 1..Len(printed) : printed[i] < typed /\ printed[i] \in Nat
        /\ ~torn => Len(printed) = typed - 1 /\ \A i \in 1..Len(printed) : printed[i] = i
        /\ \A i, j \in 1..Len(printed) : i < j => printed[i] < printed[j]
    BY <1>2, <1>3 DEF LinesRead, SemTypes
  <2>6. ASSUME NEW i \in 1..Len(printed'), NEW j \in 1..Len(printed'), i < j
        PROVE  printed'[i] < printed'[j]
    <3>1. i \in 1..Len(printed) /\ printed'[i] = printed[i]
      BY <2>2, <2>6
    <3>2. CASE j = Len(printed) + 1
      BY <2>2, <2>5, <3>1, <3>2
    <3>3. CASE j # Len(printed) + 1
      <4>1. j \in 1..Len(printed) /\ printed'[j] = printed[j]
        BY <2>2, <3>3
      <4> QED  BY <2>5, <2>6, <3>1, <4>1
    <3> QED  BY <3>2, <3>3
  <2>7. \A i \in 1..Len(printed') : printed'[i] <= typed /\ printed'[i] < Exit
    BY <1>4, <1>6, <2>2, <2>5
  <2>8. ~torn => Len(printed') = typed /\ \A i \in 1..Len(printed') : printed'[i] = i
    BY <1>4, <2>2, <2>5
  <2> QED  BY <1>1, <2>3, <2>4, <2>6, <2>7, <2>8 DEF LinesRead
<1> QED  BY <1>5, <1>6

LEMMA SemCompares == ASSUME SemInv, CompareMsg PROVE SemInv'
<1> USE DEF SemInv, Procs, Goto
<1>1. /\ ppc["writer"] = "compare" /\ UNCHANGED <<sem, msg, typed, printed, kills, torn>>
      /\ ppc' = [ppc EXCEPT !["writer"] = IF msg = Exit THEN "done" ELSE "wait"]
  BY DEF CompareMsg
<1>2. typed \in Nat /\ Exit \in Nat /\ typed <= Exit /\ msg = typed
  BY SemAssumption DEF SemTypes, Exit
<1>3. SemTypes' /\ WriterAt' /\ OneTurn'
  BY <1>1, <1>2 DEF SemTypes, WriterAt, OneTurn, Owes
<1>4. Unread' <=> Unread
  BY <1>1 DEF Unread, SemTypes
<1>5. LinesRead'
  BY <1>1, <1>4 DEF LinesRead
<1> QED  BY <1>3, <1>5

\* The turn of who is killed is lost.
LEMMA SemKills == ASSUME SemInv, NEW p \in Procs, Kill(p) PROVE SemInv'
<1> USE DEF SemInv, Procs, Goto
<1>1. /\ ppc[p] \notin {"off", "done"} /\ ppc' = [ppc EXCEPT ![p] = "off"]
      /\ torn' = (torn \/ Owes(p)) /\ kills' = kills + 1
      /\ UNCHANGED <<sem, msg, typed, printed>>
  BY DEF Kill, Owes
<1>2. SemTypes' /\ WriterAt'
  BY <1>1 DEF SemTypes, WriterAt
<1>3. OneTurn'
  <2>1. \A q \in Procs : Owes(q)' <=> Owes(q) /\ q # p
    BY <1>1 DEF Owes, SemTypes
  <2>2. CASE sem = <<>>
    BY <1>1, <2>1, <2>2 DEF OneTurn, SemTypes
  <2>3. CASE sem # <<>>
    BY <1>1, <2>1, <2>3 DEF OneTurn, SemTypes
  <2> QED  BY <2>2, <2>3
<1>4. LinesRead'
  <2>1. (Unread' => Unread) /\ (~Owes(p) => (Unread' <=> Unread))
    BY <1>1 DEF Unread, Owes, SemTypes
  <2> QED  BY <1>1, <2>1 DEF LinesRead
<1> QED  BY <1>2, <1>3, <1>4

LEMMA SemStays == SemInv /\ [SemNext]_semVars => SemInv'
<1> SUFFICES ASSUME SemInv, [SemNext]_semVars PROVE SemInv'
  OBVIOUS
<1>1. CASE UNCHANGED semVars
  BY <1>1 DEF semVars, SemInv, SemTypes, OneTurn, LinesRead, WriterAt, Owes, Unread
<1>2. CASE SemStep
  BY <1>2, SemSetUp, SemTakes, SemGives, SemTypesLine, SemPrintsLine, SemCompares DEF SemStep
<1>3. CASE \E p \in Procs : Kill(p)
  BY <1>3, SemKills
<1> QED  BY <1>1, <1>2, <1>3 DEF SemNext

(***************************************************************************)
(* Lines 326-439: for any number of lines and of kills, the reader prints  *)
(* the lines in order, each once, and the two never wait for each other,   *)
(* unless a process was killed while it owed the other a semop.            *)
(***************************************************************************)
THEOREM LinesComeInOrder == SemSpec => []LinesInOrder
<1>1. SemInv => LinesInOrder
  <2> SUFFICES ASSUME SemInv PROVE LinesInOrder
    OBVIOUS
  <2> USE DEF SemInv
  <2>1. DOMAIN printed = 1..Len(printed) /\ printed \in Seq(Nat) /\ Len(printed) \in Nat
    BY DEF SemTypes
  <2>2. ~torn => printed = [i \in 1..Len(printed) |-> i]
    <3>1. ~torn => \A i \in 1..Len(printed) : printed[i] = i
      BY DEF LinesRead
    <3> QED  BY <2>1, <3>1
  <2>3. ASSUME ~torn, ppc["reader"] # "done" PROVE \E p \in Procs : ~CannotGo(p)
    <3> "writer" \in Procs /\ "reader" \in Procs
      BY DEF Procs
    <3>1. CASE sem = <<>>
      <4>1. ppc["reader"] = "off"
        BY <2>3, <3>1 DEF OneTurn, Procs
      <4> QED  BY <4>1 DEF CannotGo
    <3>2. CASE sem # <<>> /\ (Owes("writer") \/ Owes("reader"))
      BY <3>2 DEF Owes, CannotGo
    <3>3. CASE sem # <<>> /\ ~Owes("writer") /\ ~Owes("reader") /\ sem.read = 1
      <4>1. ~CannotGo("reader")
        BY <2>3, <3>3 DEF CannotGo, Mine
      <4> QED  BY <4>1
    <3>4. CASE sem # <<>> /\ ~Owes("writer") /\ ~Owes("reader") /\ sem.read # 1 /\ sem.write = 1
      <4>1. Exit \in Nat \ {0} /\ typed \in 0..Exit
        BY SemAssumption DEF SemTypes, Exit
      <4>2. ~Unread
        BY <3>4 DEF Unread, Owes
      <4>3. Len(printed) = typed /\ \A i \in 1..Len(printed) : printed[i] = i /\ printed[i] < Exit
        BY <2>3, <3>4, <4>2 DEF LinesRead
      <4>4. typed # Exit
        BY <4>1, <4>3
      <4>5. ~CannotGo("writer")
        BY <3>4, <4>4 DEF CannotGo, Mine, WriterAt
      <4> QED  BY <4>5
    <3>5. sem # <<>> => sem.read = 1 \/ sem.write = 1 \/ Owes("writer") \/ Owes("reader")
      BY <2>3 DEF OneTurn
    <3> QED  BY <3>1, <3>2, <3>3, <3>4, <3>5
  <2>4. \A i, j \in DOMAIN printed : i < j => printed[i] < printed[j]
    BY <2>1 DEF LinesRead
  <2> QED  BY <2>2, <2>3, <2>4 DEF LinesInOrder
<1> QED  BY <1>1, SemFirst, SemStays, PTL DEF SemSpec

-----------------------------------------------------------------------------

(***************************************************************************)
(* The file service of 09_server_model.  What may follow what in a stream  *)
(* says all that its receiver relies on: a piece is followed by the next   *)
(* one, or by the word; the word by its second half; that by a command.    *)
(***************************************************************************)
W1 == <<"**OV", 0, 0>>
W2 == <<"ER**", 0, 0>>
Data(j, i) == <<"data", j, i>>
Whats == {"list", "get", "put"}
Tokens == (Whats \cup {"data", "**OV", "ER**", "NO_EXIST"}) \X Nat \X Nat

\* What comes after m tokens of the file of job j.
Expect(js, j, m) == IF m < js[j].size THEN Data(j, m + 1) ELSE W1

May(js, x, y) ==
    \/ x[1] = "put" /\ y = Expect(js, x[2], 0)
    \/ x[1] = "data" /\ y = Expect(js, x[2], x[3])
    \/ x = W1 /\ y = W2
    \/ x = W2 /\ y[1] \in Whats

\* A stream to which its sender may next add what is in offer.
Linked(js, s, offer) ==
    /\ \A i \in 1..Len(s) - 1 : May(js, s[i], s[i + 1])
    /\ s # <<>> => \A y \in offer : May(js, s[Len(s)], y)

Heads(s, offer) == IF s = <<>> THEN offer ELSE {s[1]}

AnyCommand == {Command(w, j) : w \in Whats, j \in Nat}

ToServer == CASE doing[Clt] = "send" -> {Expect(jobs, job, jobs[job].size - left2send[Clt])}
              [] doing[Clt] = "command" -> AnyCommand
              [] OTHER -> {}
ToClient == IF doing[Srv] = "send"
            THEN {Expect(jobs, serving, jobs[serving].size - left2send[Srv])} ELSE {}

\* f is the first m tokens of the file of job j; a list may name them twice.
Has(js, j, f, m) ==
    IF js[j].what = "list" THEN ToSet(f) = {Data(j, i) : i \in 1..m}
    ELSE Len(f) = m /\ \A i \in 1..m : f[i] = Data(j, i)

\* The file f, and the buffer p, after m tokens of job j have been received.
Received(js, j, f, p, m) ==
    /\ m \in 0..js[j].size /\ Has(js, j, f, m)
    /\ IF m = 0 THEN Len(p) <= 1 /\ \A i \in 1..Len(p) : p[i][1] \in Whats
       ELSE \A i \in 1..Len(p) : \E x \in 1..m : p[i] = Data(j, x)

Receives(js, j, f, p, s, offer) ==
    \E m \in 0..js[j].size : Received(js, j, f, p, m) /\ Heads(s, offer) \subseteq {Expect(js, j, m)}

FileTypes ==
    /\ job \in 1..Len(jobs) + 1 /\ serving \in Nat
    /\ stream \in [Sides -> Seq(Tokens)]
    /\ doing \in [Sides -> {"command", "answer", "receive", "send"}] /\ doing[Srv] # "answer"
    /\ left2send \in [Sides -> Nat]
    /\ piece \in [Sides -> Seq(Tokens)] /\ file \in [Sides -> Seq(Tokens)]
    /\ saved \in [1..Len(jobs) -> Seq(Tokens)]

\* Commands in the stream are of jobs that can be done.
CommandsAreJobs ==
    \A i \in 1..Len(stream[Srv]) : stream[Srv][i][1] \in Whats =>
        \E j \in 1..Len(jobs) : /\ stream[Srv][i] = Command(jobs[j].what, j)
                                /\ ~(jobs[j].what = "put" /\ jobs[j].file = "missing")

Streams == /\ Linked(jobs, stream[Srv], ToServer) /\ Linked(jobs, stream[Clt], ToClient)
           /\ CommandsAreJobs

Expects == doing[Clt] \in {"answer", "receive"}

\* The server can open the file.
CanOpen == {"there", "unwritable"}

\* A client that waits has its command on the way, is being answered, is told that
\* there is no such file, or is told nothing.
CommandSent == /\ stream[Srv] # <<>> /\ stream[Srv][Len(stream[Srv])] = Command(jobs[job].what, job)
               /\ stream[Clt] = <<>> /\ doing[Srv] # "send"
               /\ Received(jobs, job, file[Clt], piece[Clt], 0)
               /\ jobs[job].what = "get" => doing[Clt] = "answer"
BeingAnswered ==
    /\ stream[Srv] = <<>> /\ jobs[job].file \in CanOpen
    /\ jobs[job].file = "unwritable" => doing[Clt] = "answer"
    /\ \/ doing[Srv] = "send" /\ serving = job /\ left2send[Srv] <= jobs[job].size
       \/ doing[Srv] = "command" /\ stream[Clt] # <<>> /\ stream[Clt][Len(stream[Clt])] = W2
    /\ \A i \in 1..Len(stream[Clt]) : stream[Clt][i][1] \notin Whats
    /\ Receives(jobs, job, file[Clt], piece[Clt], stream[Clt], ToClient)
NoSuchFile == /\ stream[Srv] = <<>> /\ doing[Srv] = "command" /\ stream[Clt] = <<NoExist>>
              /\ doing[Clt] = "answer" /\ jobs[job].file = "missing"
              /\ Received(jobs, job, file[Clt], piece[Clt], 0)
NotAnswered == /\ stream[Srv] = <<>> /\ doing[Srv] = "command" /\ stream[Clt] = <<>>
               /\ jobs[job].file = "denied"

ClientAt ==
    /\ Expects => /\ job <= Len(jobs) /\ jobs[job].what \in {"list", "get"}
                  /\ jobs[job].what = "list" => doing[Clt] = "receive"
                  /\ CommandSent \/ BeingAnswered \/ NoSuchFile \/ NotAnswered
    /\ ~Expects => stream[Clt] = <<>> /\ doing[Srv] # "send"
    /\ doing[Clt] = "send" => /\ job <= Len(jobs) /\ jobs[job].what = "put"
                              /\ jobs[job].file # "missing" /\ left2send[Clt] <= jobs[job].size

ServerAt ==
    doing[Srv] = "receive" =>
        /\ serving \in 1..Len(jobs) /\ jobs[serving].what = "put" /\ jobs[serving].file = "there"
        /\ Receives(jobs, serving, file[Srv], piece[Srv], stream[Srv], ToServer)

SavedRight ==
    \A j \in 1..Len(jobs) : saved[j] # nofile =>
        jobs[j].file = "there" /\ Has(jobs, j, saved[j], jobs[j].size)

\* A put that is over for the client is over for the server, or on its way.
Under(j) == \/ saved[j] # nofile
            \/ \E i \in 1..Len(stream[Srv]) : stream[Srv][i] = Command("put", j)
            \/ doing[Srv] = "receive" /\ serving = j
NothingForgotten ==
    (\A j \in 1..Len(jobs) : jobs[j].file # "denied") =>
        \A j \in 1..Len(jobs) :
            (j < job \/ (j = job /\ doing[Clt] = "send")) /\ jobs[j].file = "there" => Under(j)

Whole == FileTypes /\ Streams /\ ClientAt /\ ServerAt /\ SavedRight /\ NothingForgotten

FileInv == jobs \in Jobs /\ (~cutWord /\ ~joined /\ ~abandoned => Whole)

-----------------------------------------------------------------------------
\* Lemmas about streams.
LEMMA EmptyIsShort == ASSUME NEW S, NEW q \in Seq(S) PROVE q = <<>> <=> Len(q) = 0
  OBVIOUS

Pushed(js, s, t, old, new, r) ==
    /\ r \in Seq(Tokens) /\ r # <<>> /\ Len(r) = Len(s) + Len(t)
    /\ \A i \in 1..Len(s) : r[i] = s[i]
    /\ \A i \in 1..Len(t) : r[Len(s) + i] = t[i]
    /\ Linked(js, r, new) /\ Heads(r, new) \subseteq Heads(s, old)

LEMMA LinkPush ==
  ASSUME NEW js, NEW s \in Seq(Tokens), NEW t \in Seq(Tokens), NEW old, NEW new,
         Linked(js, s, old), Linked(js, t, new), t # <<>>, t[1] \in old,
         NEW r, r = s \o t
  PROVE  Pushed(js, s, t, old, new, r)
<1> DEFINE m == Len(s)
           n == Len(t)
<1>1. m \in Nat /\ n \in Nat \ {0} /\ (s = <<>> <=> m = 0)
  OBVIOUS
<1>2. /\ r \in Seq(Tokens) /\ Len(r) = m + n
      /\ \A i \in 1..m + n : r[i] = IF i <= m THEN s[i] ELSE t[i - m]
  BY ConcatProperties
<1> HIDE DEF m, n
<1>3. /\ \A i \in 1..m : r[i] = s[i]
      /\ \A i \in 1..n : r[m + i] = t[i]
  <2>1. ASSUME NEW i \in 1..m PROVE r[i] = s[i]
    BY <1>1, <1>2
  <2>2. ASSUME NEW i \in 1..n PROVE r[m + i] = t[i]
    <3>1. PICK k \in 1..m + n : k = m + i /\ ~(k <= m) /\ k - m = i
      BY <1>1, <2>2
    <3>2. r[k] = IF k <= m THEN s[k] ELSE t[k - m]
      BY <1>2, <3>1, Zenon
    <3> QED  BY <3>1, <3>2
  <2> QED  BY <2>1, <2>2
<1>4. r # <<>>
  BY <1>1, <1>2
<1>5. Heads(r, new) \subseteq Heads(s, old)
  <2>1. CASE s = <<>>
    <3>1. m = 0 /\ 0 + 1 = 1 /\ 1 \in 1..n
      BY <1>1, <2>1
    <3>2. r[0 + 1] = t[1]
      BY <1>3, <3>1
    <3> QED  BY <1>4, <2>1, <3>1, <3>2 DEF Heads
  <2>2. CASE s # <<>>
    <3>1. 1 \in 1..m
      BY <1>1, <2>2
    <3> QED  BY <1>3, <1>4, <2>2, <3>1 DEF Heads
  <2> QED  BY <2>1, <2>2
<1>6. ASSUME NEW i \in 1..Len(r) - 1 PROVE May(js, r[i], r[i + 1])
  <2>1. CASE i < m
    <3>1. i \in 1..m /\ i + 1 \in 1..m /\ i \in 1..m - 1
      BY <1>1, <2>1
    <3>2. \A k \in 1..m - 1 : May(js, s[k], s[k + 1])
      BY DEF Linked, m
    <3> QED  BY <1>3, <3>1, <3>2
  <2>2. CASE i = m
    <3>1. m \in 1..m /\ 1 \in 1..n /\ s # <<>>
      BY <1>1, <1>2, <2>2
    <3>2. May(js, s[m], t[1])
      BY <3>1 DEF Linked, m
    <3> QED  BY <1>3, <2>2, <3>1, <3>2
  <2>3. CASE i > m
    <3>1. i - m \in 1..n - 1 /\ i - m \in 1..n /\ i - m + 1 \in 1..n
          /\ m + (i - m) = i /\ m + (i - m + 1) = i + 1
      BY <1>1, <1>2, <2>3
    <3>2. \A k \in 1..n - 1 : May(js, t[k], t[k + 1])
      BY DEF Linked, n
    <3>3. May(js, t[i - m], t[i - m + 1])
      BY <3>1, <3>2
    <3>4. r[i] = t[i - m] /\ r[i + 1] = t[i - m + 1]
      BY <1>3, <3>1
    <3> QED  BY <3>3, <3>4
  <2> QED  BY <1>1, <2>1, <2>2, <2>3
<1>7. ASSUME NEW y \in new PROVE May(js, r[Len(r)], y)
  <2>1. May(js, t[n], y)
    BY DEF Linked, n
  <2>2. r[m + n] = t[n]
    <3>1. n \in 1..n
      BY <1>1
    <3> QED  BY <1>3, <3>1
  <2> QED  BY <1>2, <2>1, <2>2
<1>8. Linked(js, r, new)
  BY <1>6, <1>7 DEF Linked
<1> QED  BY <1>2, <1>3, <1>4, <1>5, <1>8 DEF m, n, Pushed

Popped(js, s, n, offer, r) ==
    /\ r \in Seq(Tokens) /\ Len(r) = Len(s) - n /\ (r = <<>> <=> n = Len(s))
    /\ \A i \in 1..Len(r) : r[i] = s[n + i] /\ n + i \in 1..Len(s)
    /\ Linked(js, r, offer)
    /\ Heads(r, offer) = IF n = Len(s) THEN offer ELSE {s[n + 1]}
    /\ \A y \in Heads(r, offer) : May(js, s[n], y)

LEMMA LinkPop ==
  ASSUME NEW js, NEW s \in Seq(Tokens), NEW offer, Linked(js, s, offer),
         NEW n \in 1..Len(s), NEW r, r = SubSeq(s, n + 1, Len(s))
  PROVE  Popped(js, s, n, offer, r)
<1> DEFINE l == Len(s)
<1>1. l \in Nat /\ n \in 1..l /\ s # <<>>
  OBVIOUS
<1>2. /\ r \in Seq(Tokens)
      /\ Len(r) = IF n + 1 <= l THEN l - (n + 1) + 1 ELSE 0
      /\ \A i \in 1..l - (n + 1) + 1 : r[i] = s[n + 1 + i - 1]
  <2>1. \A i \in n + 1..l : s[i] \in Tokens
    <3>1. \A i \in 1..l : s[i] \in Tokens
      OBVIOUS
    <3> HIDE DEF l
    <3>2. \A i \in n + 1..l : i \in 1..l
      BY <1>1
    <3> QED  BY <3>1, <3>2
  <2> HIDE DEF l
  <2>2. n + 1 \in Int /\ l \in Int
    BY <1>1
  <2> QED  BY <2>1, <2>2, SubSeqProperties DEF l
<1>3. (r = <<>> <=> Len(r) = 0)
  BY <1>2, EmptyIsShort
<1> HIDE DEF l
<1>4. Len(r) = l - n /\ (r = <<>> <=> n = l)
  BY <1>1, <1>2, <1>3
<1>5. \A i \in 1..Len(r) : r[i] = s[n + i] /\ n + i \in 1..l
  <2> SUFFICES ASSUME NEW i \in 1..Len(r) PROVE r[i] = s[n + i] /\ n + i \in 1..l
    OBVIOUS
  <2>1. i \in 1..l - (n + 1) + 1 /\ n + 1 + i - 1 = n + i /\ n + i \in 1..l
    BY <1>1, <1>4
  <2> QED  BY <1>2, <2>1
<1>6. /\ \A i \in 1..l - 1 : May(js, s[i], s[i + 1])
      /\ \A y \in offer : May(js, s[l], y)
  BY <1>1 DEF Linked, l
<1>7. Linked(js, r, offer)
  <2>1. ASSUME NEW i \in 1..Len(r) - 1 PROVE May(js, r[i], r[i + 1])
    <3>1. i \in 1..Len(r) /\ i + 1 \in 1..Len(r) /\ n + i \in 1..l - 1 /\ n + (i + 1) = n + i + 1
      BY <1>1, <1>4
    <3>2. May(js, s[n + i], s[n + i + 1])
      BY <1>6, <3>1
    <3> QED  BY <1>5, <3>1, <3>2
  <2>2. ASSUME r # <<>>, NEW y \in offer PROVE May(js, r[Len(r)], y)
    <3>1. Len(r) \in 1..Len(r) /\ n + Len(r) = l
      BY <1>1, <1>4, <2>2
    <3> QED  BY <1>5, <1>6, <2>2, <3>1
  <2> QED  BY <2>1, <2>2 DEF Linked
<1>8. Heads(r, offer) = IF n = l THEN offer ELSE {s[n + 1]}
  <2>1. CASE n = l
    BY <1>4, <2>1 DEF Heads
  <2>2. CASE n # l
    <3>1. 1 \in 1..Len(r) /\ r # <<>>
      BY <1>1, <1>4, <2>2
    <3> QED  BY <1>5, <2>2, <3>1 DEF Heads
  <2> QED  BY <2>1, <2>2
<1>9. \A y \in Heads(r, offer) : May(js, s[n], y)
  <2>1. CASE n = l
    BY <1>6, <1>8, <2>1
  <2>2. CASE n # l
    <3>1. n \in 1..l - 1
      BY <1>1, <2>2
    <3> QED  BY <1>6, <1>8, <2>2, <3>1
  <2> QED  BY <2>1, <2>2
<1> QED  BY <1>2, <1>4, <1>5, <1>7, <1>8, <1>9 DEF l, Popped

Continues(js, j, m, s) ==
    \A i \in 1..Len(s) : m + i <= js[j].size + 1 => s[i] = Expect(js, j, m + i - 1)

\* What is on its way begins with the rest of the file, and its end.
LEMMA RestOfFile ==
  ASSUME NEW js, NEW j, js[j].size \in Nat, NEW s \in Seq(Tokens), NEW offer,
         Linked(js, s, offer), NEW m \in 0..js[j].size, Heads(s, offer) \subseteq {Expect(js, j, m)}
  PROVE  Continues(js, j, m, s)
<1> DEFINE z == js[j].size
           Bad == {i \in 1..Len(s) : m + i <= z + 1 /\ s[i] # Expect(js, j, m + i - 1)}
<1> SUFFICES ASSUME Bad # {} PROVE FALSE
  BY DEF Continues
<1>1. Bad \subseteq Nat /\ Len(s) \in Nat /\ z \in Nat /\ m \in 0..z
  OBVIOUS
<1>2. PICK i \in Bad : \A k \in Bad : i <= k
  BY <1>1, LeastNumber
<1>3. i \in 1..Len(s) /\ m + i <= z + 1 /\ s[i] # Expect(js, j, m + i - 1)
  BY <1>2
<1> HIDE DEF z
<1>4. CASE i = 1
  <2>1. s # <<>> /\ m + 1 - 1 = m
    BY <1>1, <1>3, <1>4
  <2>2. s[1] = Expect(js, j, m)
    BY <2>1 DEF Heads
  <2> QED  BY <1>3, <1>4, <2>1, <2>2
<1>5. CASE i # 1
  <2>1. i - 1 \in 1..Len(s) /\ i - 1 \in 1..Len(s) - 1 /\ ~(i <= i - 1) /\ m + (i - 1) <= z + 1
        /\ m + (i - 1) - 1 < z /\ m + (i - 1) - 1 + 1 = m + i - 1 /\ i - 1 + 1 = i
    BY <1>1, <1>3, <1>5
  <2>2. i - 1 \notin Bad
    BY <1>2, <2>1
  <2>3. s[i - 1] = Expect(js, j, m + (i - 1) - 1)
    BY <2>1, <2>2
  <2>4. s[i - 1] = Data(j, m + i - 1)
    BY <2>1, <2>3 DEF Expect, z
  <2>5. May(js, s[i - 1], s[i])
    <3>1. \A k \in 1..Len(s) - 1 : May(js, s[k], s[k + 1])
      BY DEF Linked
    <3>2. May(js, s[i - 1], s[i - 1 + 1])
      BY <2>1, <3>1
    <3> QED  BY <2>1, <3>2
  <2>6. \A y : May(js, Data(j, m + i - 1), y) => y = Expect(js, j, m + i - 1)
    BY DEF May, Data, W1, W2
  <2> QED  BY <1>3, <2>4, <2>5, <2>6
<1> QED  BY <1>4, <1>5

\* What a recv takes: pieces of the file, or the last ones and the word.
WhatCame(js, j, s, m, n) ==
    \/ m + n <= js[j].size /\ \A i \in 1..n : s[i] = Data(j, m + i)
    \/ \E k \in 1..n - 1 : /\ k = js[j].size - m + 1 /\ s[k] = W1 /\ s[k + 1] = W2
                           /\ \A i \in 1..k - 1 : s[i] = Data(j, m + i)

PlaceOfEnd(z, m, n, l, k) ==
    k \in 1..n /\ k \in 1..l /\ m + k <= z + 1 /\ m + k - 1 = z /\ ~(z < z)
LEMMA EndIsAt ==
  ASSUME NEW z \in Nat, NEW l \in Nat, NEW m \in 0..z, NEW n \in 1..l, ~(m + n <= z)
  PROVE  PlaceOfEnd(z, m, n, l, z - m + 1)
  BY DEF PlaceOfEnd

LEMMA WhatIsTaken ==
  ASSUME NEW js, NEW j, js[j].size \in Nat, NEW s \in Seq(Tokens), NEW offer,
         Linked(js, s, offer), NEW m \in 0..js[j].size, Heads(s, offer) \subseteq {Expect(js, j, m)},
         NEW n \in 1..Len(s), s[n] # W1
  PROVE  WhatCame(js, j, s, m, n)
<1> DEFINE z == js[j].size
<1>1. \A i \in 1..Len(s) : m + i <= z + 1 => s[i] = Expect(js, j, m + i - 1)
  <2>1. Continues(js, j, m, s)
    BY RestOfFile
  <2> QED  BY <2>1 DEF Continues
<1>2. Len(s) \in Nat /\ z \in Nat /\ m \in 0..z /\ n \in 1..Len(s)
  OBVIOUS
<1> HIDE DEF z
<1>3. ASSUME NEW i \in 1..Len(s), m + i <= z PROVE s[i] = Data(j, m + i)
  <2>1. m + i <= z + 1 /\ m + i - 1 < z /\ m + i - 1 + 1 = m + i
    BY <1>2, <1>3
  <2>2. s[i] = Expect(js, j, m + i - 1)
    BY <1>1, <2>1
  <2> QED  BY <2>1, <2>2 DEF Expect, z
<1>4. CASE m + n <= z
  <2>1. \A i \in 1..n : i \in 1..Len(s) /\ m + i <= z
    BY <1>2, <1>4
  <2> QED  BY <1>3, <1>4, <2>1 DEF z, WhatCame
<1>5. CASE ~(m + n <= z)
  <2> DEFINE k == z - m + 1
  <2>1. k \in 1..n /\ k \in 1..Len(s) /\ m + k <= z + 1 /\ m + k - 1 = z /\ ~(z < z)
    <3>1. PlaceOfEnd(z, m, n, Len(s), k)
      BY <1>2, <1>5, EndIsAt
    <3> QED  BY <3>1 DEF PlaceOfEnd
  <2>2. s[k] = W1
    <3>1. s[k] = Expect(js, j, z)
      BY <1>1, <2>1
    <3> QED  BY <2>1, <3>1 DEF Expect, z
  <2> HIDE DEF k
  <2>3. k # n
    BY <2>2
  <2>4. k \in 1..n - 1 /\ k \in 1..Len(s) - 1
    BY <1>2, <2>1, <2>3
  <2>5. s[k + 1] = W2
    <3>1. May(js, s[k], s[k + 1])
      BY <2>4 DEF Linked
    <3>2. \A y : May(js, W1, y) => y = W2
      BY DEF May, W1, W2
    <3> QED  BY <2>2, <3>1, <3>2
  <2>6. \A i \in 1..k - 1 : s[i] = Data(j, m + i)
    <3>1. \A i \in 1..k - 1 : i \in 1..Len(s) /\ m + i <= z
      BY <1>2, <2>1
    <3> QED  BY <1>3, <3>1
  <2> QED  BY <2>2, <2>4, <2>5, <2>6 DEF k, z, WhatCame
<1> QED  BY <1>4, <1>5

\* The parts of a sequence, and two put together.
IsCut(s, a, b, t) ==
    /\ Len(t) = IF a <= b THEN b - a + 1 ELSE 0
    /\ \A i \in 1..Len(t) : t[i] = s[a - 1 + i] /\ a - 1 + i \in a..b

LEMMA CutOf ==
  ASSUME NEW S, NEW s \in Seq(S), NEW a \in Nat \ {0}, NEW b \in 0..Len(s),
         NEW t, t = SubSeq(s, a, b)
  PROVE  t \in Seq(S) /\ IsCut(s, a, b, t)
<1>0. PICK l \in Nat : l = Len(s)
  OBVIOUS
<1>1. \A i \in a..b : s[i] \in S
  <2>1. \A i \in 1..l : s[i] \in S
    BY <1>0
  <2>2. \A i \in a..b : i \in 1..l
    BY <1>0
  <2> QED  BY <2>1, <2>2
<1>2. /\ t \in Seq(S) /\ Len(t) = IF a <= b THEN b - a + 1 ELSE 0
      /\ \A i \in 1..b - a + 1 : t[i] = s[a + i - 1]
  <2>1. a \in Int /\ b \in Int
    BY <1>0
  <2> QED  BY <1>1, <2>1, SubSeqProperties
<1>3. ASSUME NEW i \in 1..Len(t) PROVE t[i] = s[a - 1 + i] /\ a - 1 + i \in a..b
  <2>1. i \in 1..b - a + 1 /\ a + i - 1 = a - 1 + i /\ a - 1 + i \in a..b
    BY <1>0, <1>2, <1>3
  <2>2. t[i] = s[a + i - 1]
    BY <1>2, <2>1
  <2> QED  BY <2>1, <2>2
<1> QED  BY <1>2, <1>3 DEF IsCut

IsJoin(s, t, r) ==
    /\ Len(r) = Len(s) + Len(t)
    /\ \A i \in 1..Len(s) : r[i] = s[i] /\ i \in 1..Len(r)
    /\ \A i \in 1..Len(t) : r[Len(s) + i] = t[i] /\ Len(s) + i \in 1..Len(r)
    /\ \A i \in 1..Len(r) : i \in 1..Len(s) \/ (i - Len(s) \in 1..Len(t) /\ r[i] = t[i - Len(s)])

LEMMA JoinOf ==
  ASSUME NEW S, NEW s \in Seq(S), NEW t \in Seq(S), NEW r, r = s \o t
  PROVE  r \in Seq(S) /\ IsJoin(s, t, r)
<1>1. /\ r \in Seq(S) /\ Len(r) = Len(s) + Len(t)
      /\ \A i \in 1..Len(s) + Len(t) : r[i] = IF i <= Len(s) THEN s[i] ELSE t[i - Len(s)]
  BY ConcatProperties
<1>2. PICK m \in Nat, n \in Nat : m = Len(s) /\ n = Len(t)
  OBVIOUS
<1>3. \A i \in 1..m + n : r[i] = IF i <= m THEN s[i] ELSE t[i - m]
  BY <1>1, <1>2
<1>4. Len(r) = m + n
  BY <1>1, <1>2
<1>5. ASSUME NEW i \in 1..m PROVE r[i] = s[i] /\ i \in 1..m + n
  BY <1>2, <1>3, <1>5
<1>6. ASSUME NEW i \in 1..m + n, ~(i <= m) PROVE i - m \in 1..n /\ r[i] = t[i - m]
  BY <1>2, <1>3, <1>6
<1>7. ASSUME NEW i \in 1..n PROVE r[m + i] = t[i] /\ m + i \in 1..m + n
  <2>1. PICK k \in 1..m + n : k = m + i /\ ~(k <= m) /\ k - m = i
    BY <1>2, <1>7
  <2> QED  BY <1>6, <2>1
<1>8. \A i \in 1..m + n : i \in 1..m \/ (i - m \in 1..n /\ r[i] = t[i - m])
  BY <1>2, <1>6
<1> QED  BY <1>1, <1>2, <1>4, <1>5, <1>7, <1>8 DEF IsJoin

\* What a recv takes, and what it leaves in buf.
Taken(s, n) == SubSeq(s, 1, n)
Buffer(s, p, n) == SubSeq(s, 1, n) \o SubSeq(p, n + 1, Len(p))IsBuffer(s, p, n, took, buf) ==
    /\ took \in Seq(Tokens) /\ Len(took) = n /\ \A i \in 1..n : took[i] = s[i]
    /\ buf \in Seq(Tokens) /\ Len(buf) \in Nat /\ n <= Len(buf)
    /\ Len(p) <= n => Len(buf) = n
    /\ \A i \in 1..n : buf[i] = s[i] /\ i \in 1..Len(buf)
    /\ \A i \in 1..Len(buf) : i \in 1..n \/ (i \in 1..Len(p) /\ buf[i] = p[i])

LEMMA BufferOf ==
  ASSUME NEW s \in Seq(Tokens), NEW p \in Seq(Tokens), NEW n \in 1..Len(s),
         NEW took, took = Taken(s, n), NEW buf, buf = Buffer(s, p, n)
  PROVE  IsBuffer(s, p, n, took, buf)
<1>0. n \in Nat \ {0} /\ n \in 0..Len(s) /\ 1 \in Nat \ {0} /\ 1 <= n /\ n - 1 + 1 = n
      /\ Len(s) \in Nat /\ Len(p) \in Nat /\ n + 1 \in Nat \ {0} /\ Len(p) \in 0..Len(p)
      /\ n + 1 - 1 = n
  OBVIOUS
<1>1. took \in Seq(Tokens) /\ Len(took) = n /\ \A i \in 1..n : took[i] = s[1 - 1 + i]
  <2>1. Len(took) = (IF 1 <= n THEN n - 1 + 1 ELSE 0)
        /\ took \in Seq(Tokens) /\ \A i \in 1..Len(took) : took[i] = s[1 - 1 + i]
    BY <1>0, CutOf DEF Taken, IsCut
  <2> QED  BY <1>0, <2>1
<1>2. \A i \in 1..n : took[i] = s[i]
  <2>1. \A i \in 1..n : 1 - 1 + i = i
    BY <1>0
  <2> QED  BY <1>1, <2>1
<1> DEFINE t == SubSeq(p, n + 1, Len(p))
<1>3. /\ t \in Seq(Tokens)
      /\ Len(t) = IF n + 1 <= Len(p) THEN Len(p) - (n + 1) + 1 ELSE 0
      /\ \A i \in 1..Len(t) : t[i] = p[n + 1 - 1 + i] /\ n + 1 - 1 + i \in n + 1..Len(p)
  BY <1>0, CutOf DEF IsCut
<1>4. buf = took \o t
  BY DEF Taken, Buffer
<1> HIDE DEF t
<1>5. /\ buf \in Seq(Tokens) /\ Len(buf) = n + Len(t)
      /\ \A i \in 1..n : buf[i] = took[i] /\ i \in 1..Len(buf)
      /\ \A i \in 1..Len(buf) : i \in 1..n \/ (i - n \in 1..Len(t) /\ buf[i] = t[i - n])
  <2>1. buf \in Seq(Tokens) /\ IsJoin(took, t, buf)
    BY <1>1, <1>3, <1>4, JoinOf
  <2> QED  BY <1>1, <2>1 DEF IsJoin
<1>6. Len(t) \in Nat
  BY <1>3
<1>7. Len(buf) \in Nat /\ n <= Len(buf) /\ (Len(p) <= n => Len(buf) = n)
  BY <1>0, <1>3, <1>5, <1>6
<1>8. ASSUME NEW i \in 1..Len(buf), i \notin 1..n PROVE i \in 1..Len(p) /\ buf[i] = p[i]
  <2>1. PICK h \in 1..Len(t) : h = i - n /\ buf[i] = t[h]
    BY <1>5, <1>8
  <2>2. t[h] = p[n + 1 - 1 + h] /\ n + 1 - 1 + h \in n + 1..Len(p)
    BY <1>3
  <2>3. n + 1 - 1 + h = i
    BY <1>0, <1>7, <2>1
  <2>4. i \in 1..Len(p)
    BY <1>0, <2>2, <2>3
  <2> QED  BY <2>1, <2>2, <2>3, <2>4
<1> QED  BY <1>1, <1>2, <1>5, <1>7, <1>8 DEF IsBuffer

\* Where strstr finds the word.
LEMMA WordAt ==
  ASSUME NEW b \in Seq(Tokens), NEW k \in 1..Len(b) - 1
  PROVE  SubSeq(b, k, k + 1) = Word <=> b[k] = W1 /\ b[k + 1] = W2
<1>0. k \in Nat \ {0} /\ k + 1 \in 0..Len(b) /\ k <= k + 1 /\ k + 1 - k + 1 = 2
      /\ k - 1 + 1 = k /\ k - 1 + 2 = k + 1
  OBVIOUS
<1> DEFINE t == SubSeq(b, k, k + 1)
<1>1. t \in Seq(Tokens) /\ Len(t) = 2 /\ \A i \in 1..2 : t[i] = b[k - 1 + i]
  <2>1. t \in Seq(Tokens) /\ Len(t) = (IF k <= k + 1 THEN k + 1 - k + 1 ELSE 0)
        /\ \A i \in 1..Len(t) : t[i] = b[k - 1 + i]
    BY <1>0, CutOf DEF IsCut
  <2> QED  BY <1>0, <2>1
<1> HIDE DEF t
<1>2. t[1] = b[k] /\ t[2] = b[k + 1]
  <2>1. t[1] = b[k - 1 + 1] /\ t[2] = b[k - 1 + 2]
    BY <1>1
  <2> QED  BY <1>0, <2>1
<1>3. t = <<t[1], t[2]>>
  BY <1>1
<1>4. Word = <<W1, W2>>
  BY DEF Word, W1, W2
<1>5. t = Word <=> t[1] = W1 /\ t[2] = W2
  BY <1>3, <1>4
<1> QED  BY <1>2, <1>5 DEF t

LEMMA ElementsOf == \A q \in Seq(Tokens) : ToSet(q) = {q[i] : i \in 1..Len(q)}
<1> SUFFICES ASSUME NEW S, NEW q \in Seq(S) PROVE ToSet(q) = {q[i] : i \in 1..Len(q)}
  OBVIOUS
<1> QED  BY DEF ToSet

LEMMA TokensDiffer ==
  /\ W1 # W2 /\ W1 # NoExist /\ W2 # NoExist /\ W1[1] \notin Whats /\ W2[1] \notin Whats
  /\ W1[1] # "data" /\ W2[1] # "data" /\ NoExist[1] \notin Whats /\ NoExist[1] # "data"
  /\ \A j, i : /\ Data(j, i) # W1 /\ Data(j, i) # W2 /\ Data(j, i) # NoExist
               /\ Data(j, i)[1] = "data" /\ Data(j, i)[1] \notin Whats
  BY DEF W1, W2, NoExist, Data, Whats

Runs(j, s, m, n) == \A i \in 1..n : s[i] = Data(j, m + i)
Places(buf) == {k \in 1..Len(buf) - 1 : SubSeq(buf, k, k + 1) = Word}

\* What a list prints, or a file gains.
LEMMA GainsPieces ==
  ASSUME NEW js, NEW j, NEW f \in Seq(Tokens), NEW g \in Seq(Tokens), NEW m \in Nat, NEW n \in Nat,
         Has(js, j, f, m),
         IF js[j].what = "list"
         THEN ToSet(g) \subseteq {Data(j, i) : i \in 1..m + n} /\ {Data(j, m + i) : i \in 1..n} \subseteq ToSet(g)
         ELSE Len(g) = n /\ \A i \in 1..n : g[i] = Data(j, m + i),
         NEW r, r = f \o g
  PROVE  r \in Seq(Tokens) /\ Has(js, j, r, m + n)
<1>1. /\ r \in Seq(Tokens) /\ Len(r) = Len(f) + Len(g)
      /\ \A i \in 1..Len(f) : r[i] = f[i] /\ i \in 1..Len(r)
      /\ \A i \in 1..Len(g) : r[Len(f) + i] = g[i] /\ Len(f) + i \in 1..Len(r)
      /\ \A i \in 1..Len(r) : i \in 1..Len(f) \/ (i - Len(f) \in 1..Len(g) /\ r[i] = g[i - Len(f)])
  BY JoinOf DEF IsJoin
<1>2. ToSet(f) = {f[i] : i \in 1..Len(f)} /\ ToSet(g) = {g[i] : i \in 1..Len(g)}
      /\ ToSet(r) = {r[i] : i \in 1..Len(r)}
  <2>1. f \in Seq(Tokens) /\ g \in Seq(Tokens) /\ r \in Seq(Tokens)
    BY <1>1
  <2> QED  BY <2>1, ElementsOf
<1>3. CASE js[j].what = "list"
  <2>1. ToSet(r) = ToSet(f) \cup ToSet(g)
    <3>1. ToSet(r) \subseteq ToSet(f) \cup ToSet(g)
      BY <1>1, <1>2
    <3>2. ToSet(f) \subseteq ToSet(r)
      BY <1>1, <1>2
    <3>3. ToSet(g) \subseteq ToSet(r)
      <4> SUFFICES ASSUME NEW i \in 1..Len(g) PROVE g[i] \in ToSet(r)
        BY <1>2
      <4>1. r[Len(f) + i] = g[i] /\ Len(f) + i \in 1..Len(r)
        BY <1>1
      <4> QED  BY <1>2, <4>1
    <3> QED  BY <3>1, <3>2, <3>3
  <2>2. ToSet(f) = {Data(j, i) : i \in 1..m}
    BY <1>3 DEF Has
  <2>3. {Data(j, i) : i \in 1..m} \subseteq {Data(j, i) : i \in 1..m + n}
    <3>1. 1..m \subseteq 1..m + n
      OBVIOUS
    <3> QED  BY <3>1
  <2>4. {Data(j, i) : i \in 1..m + n} \subseteq ToSet(f) \cup ToSet(g)
    <3> SUFFICES ASSUME NEW i \in 1..m + n PROVE Data(j, i) \in ToSet(f) \cup ToSet(g)
      OBVIOUS
    <3>1. CASE i \in 1..m
      BY <2>2, <3>1
    <3>2. CASE i \notin 1..m
      <4>1. PICK h \in 1..n : m + h = i
        <5>1. i - m \in 1..n /\ m + (i - m) = i
          BY <3>2
        <5> QED  BY <5>1
      <4>2. Data(j, m + h) \in {Data(j, m + x) : x \in 1..n}
        OBVIOUS
      <4> QED  BY <1>3, <4>1, <4>2
    <3> QED  BY <3>1, <3>2
  <2>5. ToSet(g) \subseteq {Data(j, i) : i \in 1..m + n}
    BY <1>3
  <2>6. ToSet(r) = {Data(j, i) : i \in 1..m + n}
    BY <2>1, <2>2, <2>3, <2>4, <2>5, Zenon
  <2> QED  BY <1>1, <1>3, <2>6 DEF Has
<1>4. CASE js[j].what # "list"
  <2>1. Len(f) = m /\ \A i \in 1..m : f[i] = Data(j, i)
    BY <1>4 DEF Has
  <2>2. Len(g) = n /\ \A i \in 1..n : g[i] = Data(j, m + i)
    BY <1>4
  <2>3. ASSUME NEW i \in 1..m + n PROVE r[i] = Data(j, i)
    <3>1. CASE i \in 1..m
      BY <1>1, <2>1, <3>1
    <3>2. CASE i \notin 1..m
      <4>1. PICK h \in 1..n : h = i - m /\ m + h = i
        BY <3>2
      <4>2. r[m + h] = g[h] /\ g[h] = Data(j, m + h)
        BY <1>1, <2>1, <2>2
      <4> QED  BY <4>1, <4>2
    <3> QED  BY <3>1, <3>2
  <2>4. Len(r) = m + n
    BY <1>1, <2>1, <2>2
  <2> QED  BY <1>1, <1>4, <2>3, <2>4 DEF Has
<1> QED  BY <1>3, <1>4

PiecesAreTaken(js, j, m, r, buf) ==
    /\ Places(buf) = {} /\ NoExist \notin ToSet(buf)
    /\ buf \in Seq(Tokens) /\ r \in Seq(Tokens) /\ Received(js, j, r, buf, m)

LEMMA PiecesTaken ==
  ASSUME NEW js, NEW j, js[j].size \in Nat, NEW s \in Seq(Tokens), NEW p \in Seq(Tokens),
         NEW f \in Seq(Tokens), NEW m, Received(js, j, f, p, m), NEW n \in 1..Len(s),
         m + n <= js[j].size, Runs(j, s, m, n),
         NEW took, took = Taken(s, n), NEW buf, buf = Buffer(s, p, n),
         NEW r, r = f \o (IF js[j].what = "list" THEN buf ELSE took)
  PROVE  PiecesAreTaken(js, j, m + n, r, buf)
<1>1. /\ took \in Seq(Tokens) /\ Len(took) = n /\ \A i \in 1..n : took[i] = s[i]
      /\ buf \in Seq(Tokens) /\ Len(buf) \in Nat /\ n <= Len(buf)
      /\ Len(p) <= n => Len(buf) = n
      /\ \A i \in 1..n : buf[i] = s[i] /\ i \in 1..Len(buf)
      /\ \A i \in 1..Len(buf) : i \in 1..n \/ (i \in 1..Len(p) /\ buf[i] = p[i])
  <2>1. IsBuffer(s, p, n, took, buf)
    BY BufferOf
  <2> QED  BY <2>1 DEF IsBuffer
<1>2. m \in 0..js[j].size /\ m \in Nat /\ n \in Nat /\ m + n \in 0..js[j].size /\ m + n # 0
      /\ Len(p) \in Nat /\ Has(js, j, f, m)
  BY DEF Received
<1>3. ASSUME NEW i \in 1..Len(buf) PROVE \E x \in 1..m + n : buf[i] = Data(j, x)
  <2>1. CASE i \in 1..n
    <3>1. m + i \in 1..m + n
      BY <1>2, <2>1
    <3>2. buf[i] = Data(j, m + i)
      BY <1>1, <2>1 DEF Runs
    <3> QED  BY <3>1, <3>2
  <2>2. CASE i \notin 1..n
    <3>1. i \in 1..Len(p) /\ buf[i] = p[i]
      BY <1>1, <2>2
    <3>2. m # 0
      <4>1. SUFFICES ASSUME m = 0 PROVE FALSE
        OBVIOUS
      <4>2. Len(p) <= 1
        BY <4>1 DEF Received
      <4> QED  BY <1>2, <2>2, <3>1, <4>2
    <3>3. PICK x \in 1..m : p[i] = Data(j, x)
      BY <3>1, <3>2 DEF Received
    <3>4. x \in 1..m + n
      BY <1>2
    <3> QED  BY <3>1, <3>3, <3>4
  <2> QED  BY <2>1, <2>2
<1>4. ToSet(buf) = {buf[i] : i \in 1..Len(buf)}
  BY <1>1, ElementsOf
<1>5. NoExist \notin ToSet(buf)
  BY <1>3, <1>4, TokensDiffer
<1>6. Places(buf) = {}
  <2> SUFFICES ASSUME NEW k \in Places(buf) PROVE FALSE
    OBVIOUS
  <2>1. k \in 1..Len(buf) - 1 /\ k \in 1..Len(buf) /\ SubSeq(buf, k, k + 1) = Word
    BY <1>1 DEF Places
  <2>2. buf[k] = W1
    BY <1>1, <2>1, WordAt
  <2> QED  BY <1>3, <2>1, <2>2, TokensDiffer
<1>7. r \in Seq(Tokens) /\ Has(js, j, r, m + n)
  <2> DEFINE g == IF js[j].what = "list" THEN buf ELSE took
  <2>1. g \in Seq(Tokens) /\ r = f \o g
    BY <1>1
  <2>2. CASE js[j].what = "list"
    <3>1. ToSet(buf) \subseteq {Data(j, i) : i \in 1..m + n}
      BY <1>3, <1>4
    <3>2. {Data(j, m + i) : i \in 1..n} \subseteq ToSet(buf)
      BY <1>1, <1>4 DEF Runs
    <3> QED  BY <1>2, <2>1, <2>2, <3>1, <3>2, GainsPieces
  <2>3. CASE js[j].what # "list"
    <3>1. Len(g) = n /\ \A i \in 1..n : g[i] = Data(j, m + i)
      BY <1>1, <2>3 DEF Runs
    <3> QED  BY <1>2, <2>1, <2>3, <3>1, GainsPieces
  <2> QED  BY <2>2, <2>3
<1>8. Received(js, j, r, buf, m + n)
  BY <1>2, <1>3, <1>7 DEF Received
<1> QED  BY <1>1, <1>5, <1>6, <1>7, <1>8 DEF PiecesAreTaken

WordPlace(z, m, n, k, b) ==
    /\ m \in Nat /\ n \in Nat /\ k \in Nat \ {0} /\ k - 1 \in Nat /\ m + (k - 1) = z
    /\ k \in 1..n /\ k + 1 \in 1..n /\ k \in 1..b - 1 /\ k - 1 \in 0..b
    /\ \A h \in Nat : (h < k => h <= k - 1) /\ (k <= h \/ h < k) /\ (h <= k - 1 => h <= n)
    /\ \A h \in Nat : h <= k + 1 => h <= k - 1 \/ h = k \/ h = k + 1
    /\ (IF 1 <= k - 1 THEN k - 1 - 1 + 1 ELSE 0) = k - 1
LEMMA PlaceOfWord ==
  ASSUME NEW z \in Nat, NEW l \in Nat, NEW b \in Nat, NEW m \in 0..z, NEW n \in 1..l,
         NEW k \in 1..n - 1, k = z - m + 1, n <= b
  PROVE  WordPlace(z, m, n, k, b)
  BY DEF WordPlace

WordIsTaken(js, j, f, n, k, buf) ==
    /\ k \in Places(buf) /\ \A h \in Places(buf) : k <= h
    /\ n = k + 1 => NoExist \notin ToSet(buf)
    /\ buf \in Seq(Tokens)
    /\ SubSeq(buf, 1, k - 1) \in Seq(Tokens)
    /\ js[j].what # "list" => Has(js, j, f \o SubSeq(buf, 1, k - 1), js[j].size)
    /\ js[j].what = "list" /\ k = 1 => Has(js, j, f, js[j].size)

LEMMA WordTaken ==
  ASSUME NEW js, NEW j, js[j].size \in Nat, NEW s \in Seq(Tokens), NEW p \in Seq(Tokens),
         NEW f \in Seq(Tokens), NEW m, Received(js, j, f, p, m), NEW n \in 1..Len(s),
         NEW k \in 1..n - 1, k = js[j].size - m + 1, s[k] = W1, s[k + 1] = W2,
         Runs(j, s, m, k - 1),
         NEW took, took = Taken(s, n), NEW buf, buf = Buffer(s, p, n)
  PROVE  WordIsTaken(js, j, f, n, k, buf)
<1>1. /\ took \in Seq(Tokens) /\ Len(took) = n /\ \A i \in 1..n : took[i] = s[i]
      /\ buf \in Seq(Tokens) /\ Len(buf) \in Nat /\ n <= Len(buf)
      /\ Len(p) <= n => Len(buf) = n
      /\ \A i \in 1..n : buf[i] = s[i] /\ i \in 1..Len(buf)
      /\ \A i \in 1..Len(buf) : i \in 1..n \/ (i \in 1..Len(p) /\ buf[i] = p[i])
  <2>1. IsBuffer(s, p, n, took, buf)
    BY BufferOf
  <2> QED  BY <2>1 DEF IsBuffer
<1>2. /\ m \in 0..js[j].size /\ m \in Nat /\ n \in Nat /\ k \in Nat \ {0} /\ k - 1 \in Nat
      /\ Len(p) \in Nat /\ Has(js, j, f, m) /\ m + (k - 1) = js[j].size
      /\ k \in 1..n /\ k + 1 \in 1..n /\ k \in 1..Len(buf) - 1 /\ k - 1 \in 0..Len(buf)
      /\ \A h \in Nat : (h < k => h <= k - 1) /\ (k <= h \/ h < k) /\ (h <= k - 1 => h <= n)
      /\ \A h \in Nat : h <= k + 1 => h <= k - 1 \/ h = k \/ h = k + 1
      /\ (IF 1 <= k - 1 THEN k - 1 - 1 + 1 ELSE 0) = k - 1
  <2>1. m \in 0..js[j].size /\ Has(js, j, f, m)
    BY DEF Received
  <2>2. PICK z \in Nat, l \in Nat, b \in Nat : z = js[j].size /\ l = Len(s) /\ b = Len(buf)
    BY <1>1
  <2>3. m \in 0..z /\ n \in 1..l /\ k \in 1..n - 1 /\ k = z - m + 1 /\ n <= b /\ Len(p) \in Nat
    BY <1>1, <2>1, <2>2
  <2>4. WordPlace(z, m, n, k, b)
    BY <2>2, <2>3, PlaceOfWord
  <2> QED  BY <2>1, <2>2, <2>3, <2>4 DEF WordPlace
<1>3. k \in Places(buf)
  <2>1. buf[k] = W1 /\ buf[k + 1] = W2
    BY <1>1, <1>2
  <2> QED  BY <1>1, <1>2, <2>1, WordAt DEF Places
<1>4. ASSUME NEW h \in Places(buf) PROVE k <= h
  <2> SUFFICES ASSUME ~(k <= h) PROVE FALSE
    OBVIOUS
  <2>1. h \in 1..Len(buf) - 1 /\ SubSeq(buf, h, h + 1) = Word
    BY DEF Places
  <2>2. buf[h] = W1
    BY <1>1, <2>1, WordAt
  <2>3. h \in 1..k - 1 /\ h \in 1..n
    <3>1. h \in Nat /\ 1 <= h
      BY <2>1
    <3>2. h < k /\ h <= k - 1 /\ h <= n
      BY <1>2, <3>1
    <3> QED  BY <1>2, <3>1, <3>2
  <2>4. buf[h] = Data(j, m + h)
    BY <1>1, <2>3 DEF Runs
  <2> QED  BY <2>2, <2>4, TokensDiffer
<1>5. ASSUME n = k + 1 PROVE NoExist \notin ToSet(buf)
  <2>1. ASSUME NEW i \in 1..Len(buf) PROVE buf[i] # NoExist
    <3>1. CASE i \in 1..n
      <4>1. i \in 1..k - 1 \/ i = k \/ i = k + 1
        <5>1. i \in Nat /\ 1 <= i /\ i <= k + 1
          BY <1>5, <3>1
        <5> QED  BY <1>2, <5>1
      <4>2. buf[i] = s[i]
        BY <1>1, <3>1
      <4> QED  BY <4>1, <4>2, TokensDiffer DEF Runs
    <3>2. CASE i \notin 1..n
      <4>1. i \in 1..Len(p) /\ buf[i] = p[i]
        BY <1>1, <3>2
      <4>2. CASE m = 0
        <5>1. p[i][1] \in Whats
          BY <4>1, <4>2 DEF Received
        <5> QED  BY <4>1, <5>1, TokensDiffer
      <4>3. CASE m # 0
        <5>1. PICK x \in 1..m : p[i] = Data(j, x)
          BY <4>1, <4>3 DEF Received
        <5> QED  BY <4>1, <5>1, TokensDiffer
      <4> QED  BY <4>2, <4>3
    <3> QED  BY <3>1, <3>2
  <2>2. ToSet(buf) = {buf[i] : i \in 1..Len(buf)}
    <3>1. buf \in Seq(Tokens)
      BY <1>1
    <3> QED  BY <3>1, ElementsOf
  <2> QED  BY <2>1, <2>2
<1> DEFINE g == SubSeq(buf, 1, k - 1)
<1>6. g \in Seq(Tokens) /\ Len(g) = k - 1 /\ \A i \in 1..k - 1 : g[i] = Data(j, m + i)
  <2>0. (IF 1 <= k - 1 THEN k - 1 - 1 + 1 ELSE 0) = k - 1
    BY <1>2
  <2>1. g \in Seq(Tokens) /\ Len(g) = (IF 1 <= k - 1 THEN k - 1 - 1 + 1 ELSE 0)
        /\ \A i \in 1..Len(g) : g[i] = buf[1 - 1 + i]
    <3>1. 1 \in Nat \ {0} /\ k - 1 \in 0..Len(buf) /\ buf \in Seq(Tokens)
      BY <1>1, <1>2
    <3>2. g \in Seq(Tokens) /\ IsCut(buf, 1, k - 1, g)
      BY <3>1, CutOf
    <3> QED  BY <3>2 DEF IsCut
  <2> HIDE DEF g
  <2>2. Len(g) = k - 1
    BY <2>0, <2>1
  <2>3. ASSUME NEW i \in 1..k - 1 PROVE g[i] = Data(j, m + i)
    <3>1. 1 - 1 + i = i /\ i \in 1..n
      <4>1. i \in Nat /\ 1 <= i /\ i <= k - 1
        BY <2>3
      <4> QED  BY <1>2, <4>1
    <3>2. g[i] = buf[1 - 1 + i]
      BY <2>1, <2>2
    <3>3. buf[i] = s[i] /\ s[i] = Data(j, m + i)
      BY <1>1, <3>1 DEF Runs
    <3> QED  BY <3>1, <3>2, <3>3
  <2> QED  BY <2>1, <2>2, <2>3
<1> HIDE DEF g
<1>7. ASSUME js[j].what # "list" PROVE Has(js, j, f \o g, js[j].size)
  <2>1. Has(js, j, f \o g, m + (k - 1))
    BY <1>2, <1>6, <1>7, GainsPieces
  <2> QED  BY <1>2, <2>1
<1>8. k = 1 => m = js[j].size
  BY <1>2
<1> QED  BY <1>1, <1>2, <1>3, <1>4, <1>5, <1>6, <1>7, <1>8 DEF g, WordIsTaken

-----------------------------------------------------------------------------
\* The invariant under the actions.
LEMMA JobsAre ==
  ASSUME jobs \in Jobs
  PROVE  /\ Len(jobs) \in Nat /\ DOMAIN jobs = 1..Len(jobs)
         /\ \A j \in 1..Len(jobs) : /\ jobs[j].what \in Whats /\ jobs[j].size \in Nat
                                    /\ jobs[j].file \in {"there", "missing", "denied", "unwritable"}
                                    /\ jobs[j].what = "list" => jobs[j].file = "there"
                                    /\ jobs[j].file = "unwritable" => jobs[j].what = "get"
<1> DEFINE R == [what : {"list", "get", "put"}, size : Nat,
                 file : {"there", "missing", "denied", "unwritable"}]
<1>1. jobs \in Seq(R)
  BY FileAssumption
<1> HIDE DEF R
<1>2. Len(jobs) \in Nat /\ DOMAIN jobs = 1..Len(jobs)
  BY <1>1
<1>3. \A j \in 1..Len(jobs) : jobs[j] \in R
  BY <1>1
<1>4. \A j \in DOMAIN jobs : /\ jobs[j].what = "list" => jobs[j].file = "there"
                             /\ jobs[j].file = "unwritable" => jobs[j].what = "get"
  BY FileAssumption
<1>5. \A x \in R : /\ x.what \in Whats /\ x.size \in Nat
                    /\ x.file \in {"there", "missing", "denied", "unwritable"}
  BY DEF R, Whats
<1> QED  BY <1>2, <1>3, <1>4, <1>5

\* What is sent to the server comes last, and changes nothing for it.
SentOn(t) ==
    /\ Streams' /\ ServerAt' /\ SavedRight'
    /\ stream'[Srv] \in Seq(Tokens) /\ stream'[Srv] # <<>>
    /\ stream'[Srv][Len(stream'[Srv])] = t[Len(t)]
    /\ \A i \in 1..Len(t) : \E h \in 1..Len(stream'[Srv]) : stream'[Srv][h] = t[i]
    /\ \A j : Under(j) => Under(j)'

LEMMA SentToServer ==
  ASSUME jobs \in Jobs, Whole, UNCHANGED <<jobs, serving, saved>>,
         doing'[Srv] = doing[Srv], left2send'[Srv] = left2send[Srv],
         file'[Srv] = file[Srv], piece'[Srv] = piece[Srv], stream'[Clt] = stream[Clt],
         NEW t \in Seq(Tokens), t # <<>>, stream'[Srv] = stream[Srv] \o t,
         Linked(jobs, t, ToServer'), t[1] \in ToServer,
         \A i \in 1..Len(t) : t[i][1] \in Whats =>
             \E j \in 1..Len(jobs) : /\ t[i] = Command(jobs[j].what, j)
                                     /\ ~(jobs[j].what = "put" /\ jobs[j].file = "missing")
  PROVE  SentOn(t)
<1>0. PICK s \in Seq(Tokens) : s = stream[Srv]
  BY DEF Whole, FileTypes, Sides
<1>1. PICK r : r = stream'[Srv]
  OBVIOUS
<1>2. PICK old, new : old = ToServer /\ new = ToServer'
  OBVIOUS
<1>3. Pushed(jobs, s, t, old, new, r)
  <2>1. Linked(jobs, s, old)
    BY <1>0, <1>2 DEF Whole, Streams
  <2>2. Linked(jobs, t, new) /\ t[1] \in old /\ r = s \o t
    BY <1>0, <1>1, <1>2
  <2> QED  BY <1>0, <2>1, <2>2, LinkPush
<1>4. PICK m \in Nat, n \in Nat \ {0} : m = Len(s) /\ n = Len(t)
  <2>1. Len(s) \in Nat /\ Len(t) \in Nat /\ Len(t) # 0
    BY <1>0, EmptyIsShort
  <2> QED  BY <2>1
<1>5. /\ r \in Seq(Tokens) /\ r # <<>> /\ Len(r) = m + n
      /\ \A i \in 1..m : r[i] = s[i] /\ i \in 1..m + n
      /\ \A i \in 1..n : r[m + i] = t[i] /\ m + i \in 1..m + n
      /\ Linked(jobs, r, new) /\ Heads(r, new) \subseteq Heads(s, old)
  <2>1. (\A i \in 1..m : i \in 1..m + n) /\ (\A i \in 1..n : m + i \in 1..m + n)
    BY <1>4
  <2> QED  BY <1>3, <1>4, <2>1 DEF Pushed
<1>6. \A i \in 1..m + n : i \in 1..m \/ \E h \in 1..n : i = m + h
  <2>1. \A i \in 1..m + n : i \in 1..m \/ (i - m \in 1..n /\ i = m + (i - m))
    BY <1>4
  <2> QED  BY <2>1
<1>7. CommandsAreJobs'
  <2> SUFFICES ASSUME NEW i \in 1..Len(r), r[i][1] \in Whats
               PROVE  \E j \in 1..Len(jobs) : /\ r[i] = Command(jobs[j].what, j)
                                              /\ ~(jobs[j].what = "put" /\ jobs[j].file = "missing")
    BY <1>1 DEF CommandsAreJobs, Command
  <2>1. CASE i \in 1..m
    BY <1>0, <1>4, <1>5, <2>1 DEF Whole, Streams, CommandsAreJobs
  <2>2. CASE i \notin 1..m
    <3>1. i \in 1..m + n
      BY <1>5
    <3>2. PICK h \in 1..n : i = m + h
      BY <1>6, <2>2, <3>1
    <3>3. r[i] = t[h]
      BY <1>5, <3>2
    <3> QED  BY <1>4, <3>2, <3>3
  <2> QED  BY <2>1, <2>2
<1>8. Streams'
  <2>1. ToClient' = ToClient
    BY DEF ToClient, Expect
  <2>2. Linked(jobs, stream[Clt], ToClient)
    BY DEF Whole, Streams
  <2>3. Linked(jobs, stream[Clt], ToClient)'
    <3>1. PICK c, q : c = stream[Clt] /\ q = ToClient
      OBVIOUS
    <3>2. Linked(jobs, c, q)
      BY <2>2, <3>1
    <3> QED  BY <2>1, <3>1, <3>2 DEF Linked, May, Expect
  <2>4. Linked(jobs, stream[Srv], ToServer)'
    BY <1>1, <1>2, <1>5 DEF Linked, May, Expect
  <2> QED  BY <1>7, <2>3, <2>4 DEF Streams
<1>9. ServerAt'
  <2> SUFFICES ASSUME doing[Srv] = "receive" PROVE ServerAt'
    BY DEF ServerAt
  <2>1. PICK k \in 0..jobs[serving].size :
            /\ Received(jobs, serving, file[Srv], piece[Srv], k)
            /\ Heads(s, old) \subseteq {Expect(jobs, serving, k)}
    BY <1>0, <1>2 DEF Whole, ServerAt, Receives
  <2>2. Heads(r, new) \subseteq {Expect(jobs, serving, k)}
    BY <1>5, <2>1
  <2>3. serving \in 1..Len(jobs) /\ jobs[serving].what = "put" /\ jobs[serving].file = "there"
    BY DEF Whole, ServerAt
  <2>4. Received(jobs, serving, file[Srv], piece[Srv], k)'
    BY <2>1 DEF Received, Has, Data
  <2>5. (Heads(stream[Srv], ToServer) \subseteq {Expect(jobs, serving, k)})'
    BY <1>1, <1>2, <2>2 DEF Heads, Expect, Data
  <2> QED  BY <2>3, <2>4, <2>5 DEF ServerAt, Receives
<1>10. SavedRight'
  BY DEF Whole, SavedRight, Has, Data, nofile, NoExist
<1>11. \A i \in 1..Len(t) : \E h \in 1..Len(r) : r[h] = t[i]
  BY <1>4, <1>5
<1>12. r[Len(r)] = t[Len(t)]
  <2>1. n \in 1..n
    BY <1>4
  <2> QED  BY <1>4, <1>5, <2>1
<1>13. ASSUME NEW j, Under(j) PROVE Under(j)'
  <2>1. \A i \in 1..Len(s) : \E h \in 1..Len(r) : r[h] = s[i]
    BY <1>4, <1>5
  <2>2. CASE \E i \in 1..Len(stream[Srv]) : stream[Srv][i] = Command("put", j)
    <3>1. \E h \in 1..Len(r) : r[h] = Command("put", j)
      BY <1>0, <2>1, <2>2
    <3> QED  BY <1>1, <3>1 DEF Under, Command
  <2>3. CASE saved[j] # nofile \/ (doing[Srv] = "receive" /\ serving = j)
    BY <2>3 DEF Under, nofile, NoExist
  <2> QED  BY <1>13, <2>2, <2>3 DEF Under
<1> QED  BY <1>1, <1>5, <1>8, <1>9, <1>10, <1>11, <1>12, <1>13 DEF SentOn

LEMMA TokenTypes ==
  /\ W1 \in Tokens /\ W2 \in Tokens /\ NoExist \in Tokens /\ nofile \in Seq(Tokens)
  /\ \A j, i \in Nat : Data(j, i) \in Tokens
  /\ \A w \in Whats, j \in Nat : Command(w, j) \in Tokens /\ Command(w, j)[1] = w /\ Command(w, j)[2] = j
<1>1. W1 \in Tokens /\ W2 \in Tokens /\ NoExist \in Tokens
  BY DEF W1, W2, NoExist, Tokens
<1> QED  BY <1>1 DEF Data, Tokens, Command, nofile

LEMMA FileInitial == FileInit => FileInv
<1> SUFFICES ASSUME FileInit PROVE FileInv
  OBVIOUS
<1>1. jobs \in Jobs
  BY DEF FileInit
<1>2. Len(jobs) \in Nat /\ DOMAIN jobs = 1..Len(jobs)
  BY <1>1, JobsAre
<1>3. FileTypes
  <2>1. saved \in [1..Len(jobs) -> Seq(Tokens)]
    BY <1>2, TokenTypes DEF FileInit
  <2> QED  BY <1>2, <2>1 DEF FileInit, FileTypes, Sides, Clt, Srv
<1>4. stream[Clt] = <<>> /\ stream[Srv] = <<>> /\ doing[Clt] = "command" /\ doing[Srv] = "command"
  BY DEF FileInit, Sides, Clt, Srv
<1>5. Streams
  BY <1>4 DEF Streams, Linked, CommandsAreJobs
<1>6. ClientAt /\ ServerAt
  BY <1>4 DEF ClientAt, ServerAt, Expects
<1>7. SavedRight
  BY <1>2 DEF FileInit, SavedRight
<1>8. NothingForgotten
  <2>1. \A j \in 1..Len(jobs) : ~(j < job)
    BY <1>2 DEF FileInit
  <2> QED  BY <1>4, <2>1 DEF NothingForgotten
<1> QED  BY <1>1, <1>3, <1>5, <1>6, <1>7, <1>8 DEF FileInv, Whole

\* A put of a file that is not there is not asked for.
LEMMA PutSkipped ==
  ASSUME jobs \in Jobs, Whole, doing[Clt] = "command", job \in DOMAIN jobs,
         jobs[job].file = "missing", job' = job + 1,
         UNCHANGED <<jobs, stream, doing, left2send, serving, piece, file, saved>>
  PROVE  Whole'
<1>1. Len(jobs) \in Nat /\ DOMAIN jobs = 1..Len(jobs)
  BY JobsAre
<1>2. FileTypes'
  <2>1. job + 1 \in 1..Len(jobs) + 1
    BY <1>1
  <2> QED  BY <2>1 DEF Whole, FileTypes
<1>3. Streams'
  BY DEF Whole, Streams, CommandsAreJobs, Linked, May, Expect, Data, W1, W2, ToServer, ToClient,
         AnyCommand, Command, Whats
<1>4. ClientAt'
  BY DEF Whole, ClientAt, Expects
<1>5. ServerAt'
  <2>1. ToServer' = ToServer
    BY DEF ToServer, AnyCommand, Command, Whats
  <2> QED  BY <2>1 DEF Whole, ServerAt, Receives, Received, Has, Heads, Data, Expect, W1
<1>6. SavedRight'
  BY DEF Whole, SavedRight, Has, Data, nofile, NoExist
<1>7. NothingForgotten'
  <2> SUFFICES ASSUME \A j \in 1..Len(jobs) : jobs[j].file # "denied",
                      NEW j \in 1..Len(jobs), j < job + 1, jobs[j].file = "there"
               PROVE  Under(j)'
    BY DEF NothingForgotten
  <2>1. j < job
    BY <1>1
  <2>2. Under(j)
    BY <2>1 DEF Whole, NothingForgotten
  <2> QED  BY <2>2 DEF Under, nofile, NoExist, Command
<1> QED  BY <1>2, <1>3, <1>4, <1>5, <1>6, <1>7 DEF Whole

LEMMA CommandIsSent ==
  ASSUME jobs \in Jobs, Whole, doing[Clt] = "command", job \in DOMAIN jobs,
         ~(jobs[job].what = "put" /\ jobs[job].file = "missing"),
         stream' = [stream EXCEPT ![Srv] = @ \o <<Command(jobs[job].what, job)>>],
         doing' = [doing EXCEPT ![Clt] = CASE jobs[job].what = "list" -> "receive"
                                           [] jobs[job].what = "get"  -> "answer"
                                           [] jobs[job].what = "put"  -> "send"],
         left2send' = [left2send EXCEPT ![Clt] = jobs[job].size],
         piece' = [piece EXCEPT ![Clt] = <<Command(jobs[job].what, job)>>],
         file' = [file EXCEPT ![Clt] = <<>>],
         UNCHANGED <<jobs, job, serving, saved>>
  PROVE  Whole'
<1>1. /\ Len(jobs) \in Nat /\ DOMAIN jobs = 1..Len(jobs) /\ job \in 1..Len(jobs)
      /\ jobs[job].what \in Whats /\ jobs[job].size \in Nat
  BY JobsAre
<1>2. /\ stream \in [Sides -> Seq(Tokens)] /\ doing \in [Sides -> {"command", "answer", "receive", "send"}]
      /\ left2send \in [Sides -> Nat]
      /\ piece \in [Sides -> Seq(Tokens)] /\ file \in [Sides -> Seq(Tokens)]
      /\ doing[Srv] # "answer"
  BY DEF Whole, FileTypes
<1>0. PICK c, t : c = Command(jobs[job].what, job) /\ t = <<c>>
  OBVIOUS
<1>3. /\ c \in Tokens /\ c[1] = jobs[job].what /\ c[2] = job /\ job \in Nat /\ c \in AnyCommand
      /\ t \in Seq(Tokens) /\ Len(t) = 1 /\ t[1] = c /\ t # <<>>
  <2>1. job \in Nat
    BY <1>1
  <2>2. c \in Tokens /\ c[1] = jobs[job].what /\ c[2] = job
    BY <1>0, <1>1, <2>1, TokenTypes
  <2>3. c \in AnyCommand
    BY <1>0, <1>1, <2>1 DEF AnyCommand
  <2> QED  BY <1>0, <2>1, <2>2, <2>3
<1>4. /\ stream'[Srv] = stream[Srv] \o t /\ stream'[Clt] = stream[Clt]
      /\ left2send'[Clt] = jobs[job].size /\ left2send'[Srv] = left2send[Srv]
      /\ file'[Srv] = file[Srv] /\ piece'[Srv] = piece[Srv] /\ doing'[Srv] = doing[Srv]
      /\ file'[Clt] = <<>> /\ piece'[Clt] = t
  BY <1>0, <1>2 DEF Sides, Clt, Srv
<1>5. doing'[Clt] = IF jobs[job].what = "list" THEN "receive"
                    ELSE IF jobs[job].what = "get" THEN "answer" ELSE "send"
  BY <1>1, <1>2 DEF Whats, Sides, Clt, Srv
<1>6. ToServer = AnyCommand
  BY DEF ToServer
<1>7. ToServer' = IF jobs[job].what = "put" THEN {Expect(jobs, job, 0)} ELSE {}
  <2>1. jobs[job].size - jobs[job].size = 0
    BY <1>1
  <2>2. CASE jobs[job].what = "put"
    <3>1. doing'[Clt] = "send"
      BY <1>5, <2>2
    <3>2. ToServer' = {Expect(jobs, job, jobs[job].size - left2send'[Clt])}
      BY <3>1 DEF ToServer, Expect, Data, W1
    <3> QED  BY <1>4, <2>1, <2>2, <3>2
  <2>3. CASE jobs[job].what # "put"
    BY <1>1, <1>5, <2>3 DEF ToServer, Whats
  <2> QED  BY <2>2, <2>3
<1>8. SentOn(t)
  <2>1. Linked(jobs, t, ToServer')
    <3>1. \A y \in ToServer' : May(jobs, c, y)
      BY <1>3, <1>7 DEF May
    <3> QED  BY <1>3, <3>1 DEF Linked
  <2>2. t[1] \in ToServer
    BY <1>3, <1>6
  <2>3. \A i \in 1..Len(t) : t[i] = Command(jobs[job].what, job)
    BY <1>0, <1>3
  <2>4. \A i \in 1..Len(t) : t[i][1] \in Whats =>
             \E j \in 1..Len(jobs) : /\ t[i] = Command(jobs[j].what, j)
                                     /\ ~(jobs[j].what = "put" /\ jobs[j].file = "missing")
    BY <1>1, <2>3
  <2> QED  BY <1>3, <1>4, <2>1, <2>2, <2>4, SentToServer
<1>9. FileTypes'
  <2>1. stream' \in [Sides -> Seq(Tokens)]
    <3>1. stream'[Srv] \in Seq(Tokens) /\ stream[Clt] \in Seq(Tokens)
      BY <1>2, <1>8 DEF SentOn, Sides
    <3> QED  BY <1>2, <1>4, <3>1 DEF Sides
  <2>2. piece' \in [Sides -> Seq(Tokens)] /\ file' \in [Sides -> Seq(Tokens)]
    <3>1. <<>> \in Seq(Tokens)
      OBVIOUS
    <3> QED  BY <1>0, <1>2, <1>3, <3>1
  <2>3. left2send' \in [Sides -> Nat]
    BY <1>1, <1>2
  <2>4. doing' \in [Sides -> {"command", "answer", "receive", "send"}] /\ doing'[Srv] # "answer"
    <3>1. doing'[Clt] \in {"command", "answer", "receive", "send"}
      BY <1>5
    <3> QED  BY <1>2, <1>4, <3>1 DEF Sides
  <2> QED  BY <2>1, <2>2, <2>3, <2>4 DEF Whole, FileTypes
<1>10. stream[Clt] = <<>> /\ doing[Srv] # "send"
  BY DEF Whole, ClientAt, Expects
<1>11. ClientAt'
  <2>1. CASE jobs[job].what = "put"
    <3>1. doing'[Clt] = "send"
      BY <1>5, <2>1
    <3>2. left2send'[Clt] <= jobs[job].size
      BY <1>1, <1>4
    <3>3. job <= Len(jobs)
      BY <1>1
    <3> QED  BY <1>4, <1>10, <2>1, <3>1, <3>2, <3>3 DEF ClientAt, Expects
  <2>2. CASE jobs[job].what # "put"
    <3>1. /\ doing'[Clt] \in {"answer", "receive"}
          /\ jobs[job].what \in {"list", "get"}
          /\ jobs[job].what = "list" => doing'[Clt] = "receive"
          /\ jobs[job].what = "get" => doing'[Clt] = "answer"
      BY <1>1, <1>5, <2>2 DEF Whats
    <3>2. job <= Len(jobs)
      BY <1>1
    <3>3. CommandSent'
      <4>1. Received(jobs, job, <<>>, t, 0)
        <5>1. 0 \in 0..jobs[job].size /\ 1..0 = {} /\ Len(<<>>) = 0
          BY <1>1
        <5>2. ToSet(<<>>) = {}
          BY DEF ToSet
        <5>3. Has(jobs, job, <<>>, 0)
          BY <5>1, <5>2 DEF Has
        <5>4. Len(t) <= 1 /\ \A i \in 1..Len(t) : t[i][1] \in Whats
          BY <1>1, <1>3
        <5> QED  BY <5>1, <5>3, <5>4 DEF Received
      <4>2. Received(jobs, job, file[Clt], piece[Clt], 0)'
        <5> QED  BY <1>4, <4>1 DEF Received, Has, Data
      <4>3. stream'[Srv] # <<>> /\ stream'[Srv][Len(stream'[Srv])] = c
        BY <1>3, <1>8 DEF SentOn
      <4>4. (stream[Srv][Len(stream[Srv])] = Command(jobs[job].what, job))'
        BY <1>0, <4>3 DEF Command
      <4> QED  BY <1>4, <1>10, <3>1, <4>2, <4>3, <4>4 DEF CommandSent
    <3> QED  BY <3>1, <3>2, <3>3 DEF ClientAt, Expects
  <2> QED  BY <2>1, <2>2
<1>12. NothingForgotten'
  <2> SUFFICES ASSUME \A j \in 1..Len(jobs) : jobs[j].file # "denied", NEW j \in 1..Len(jobs),
                      j < job \/ (j = job /\ doing'[Clt] = "send"), jobs[j].file = "there"
               PROVE  Under(j)'
    BY DEF NothingForgotten
  <2>1. CASE j < job
    <3>1. Under(j)
      BY <2>1 DEF Whole, NothingForgotten
    <3> QED  BY <1>8, <3>1 DEF SentOn
  <2>2. CASE j = job /\ doing'[Clt] = "send"
    <3>1. jobs[job].what = "put"
      BY <1>1, <1>5, <2>2 DEF Whats
    <3>2. c = Command("put", j)
      BY <1>0, <2>2, <3>1
    <3>3. \E h \in 1..Len(stream'[Srv]) : stream'[Srv][h] = t[1]
      <4>1. 1 \in 1..Len(t)
        BY <1>3
      <4> QED  BY <1>8, <4>1 DEF SentOn
    <3>4. \E h \in 1..Len(stream'[Srv]) : stream'[Srv][h] = Command("put", j)
      BY <1>3, <3>2, <3>3
    <3> QED  BY <3>4 DEF Under, Command
  <2> QED  BY <2>1, <2>2
<1> QED  BY <1>8, <1>9, <1>11, <1>12 DEF SentOn, Whole

\* A piece of a file is what comes next, and so is the word.
PieceIs(js, j, a, n, t) ==
    /\ t \in Seq(Tokens) /\ Len(t) = n /\ t # <<>> /\ t[1] = Expect(js, j, a)
    /\ \A i \in 1..Len(t) : t[i] = Data(j, a + i)
    /\ Linked(js, t, {Expect(js, j, a + n)})

PlacesOfPiece(z, a, n) ==
    /\ a + 1 \in Nat \ {0} /\ a + n \in 0..z /\ a + 1 <= a + n /\ a + n - (a + 1) + 1 = n
    /\ a < z /\ n \in 1..n /\ 1 \in 1..n /\ a + n \in Nat
    /\ \A i \in 1..n : a + 1 - 1 + i = a + i /\ a + i \in 1..z
    /\ \A i \in 1..n - 1 : i \in 1..n /\ i + 1 \in 1..n /\ a + i < z /\ a + i + 1 = a + (i + 1)
LEMMA PieceIsAt ==
  ASSUME NEW z \in Nat, NEW a \in Nat, NEW n \in Nat \ {0}, a + n <= z
  PROVE  PlacesOfPiece(z, a, n)
  BY DEF PlacesOfPiece

LEMMA PieceOf ==
  ASSUME NEW js, NEW j \in Nat, js[j].size \in Nat, NEW a \in Nat, NEW n \in Nat \ {0},
         a + n <= js[j].size,
         NEW t, t = SubSeq([i \in 1..js[j].size |-> <<"data", j, i>>], a + 1, a + n)
  PROVE  PieceIs(js, j, a, n, t)
<1>0. PICK z, c : z \in Nat /\ z = js[j].size /\ c = [i \in 1..z |-> Data(j, i)]
  OBVIOUS
<1>1. c \in Seq(Tokens) /\ Len(c) = z /\ \A i \in 1..z : c[i] = Data(j, i)
  <2>1. \A i \in 1..z : Data(j, i) \in Tokens
    BY TokenTypes
  <2>2. c \in [1..z -> Tokens]
    BY <1>0, <2>1
  <2>3. z \in Nat /\ \A i \in 1..z : c[i] = Data(j, i)
    BY <1>0
  <2>4. c \in Seq(Tokens) /\ Len(c) = z
    BY <2>2, <2>3
  <2> QED  BY <2>3, <2>4
<1>2. /\ a + 1 \in Nat \ {0} /\ a + n \in 0..z /\ a + 1 <= a + n /\ a + n - (a + 1) + 1 = n
      /\ a < z /\ n \in 1..n /\ 1 \in 1..n /\ a + n \in Nat
      /\ \A i \in 1..n : a + 1 - 1 + i = a + i /\ a + i \in 1..z
      /\ \A i \in 1..n - 1 : i \in 1..n /\ i + 1 \in 1..n /\ a + i < z /\ a + i + 1 = a + (i + 1)
  <2>1. PlacesOfPiece(z, a, n)
    BY <1>0, PieceIsAt
  <2> QED  BY <2>1 DEF PlacesOfPiece
<1>3. t = SubSeq(c, a + 1, a + n)
  BY <1>0 DEF Data
<1>4. PICK lo \in Nat \ {0}, hi \in 0..z : lo = a + 1 /\ hi = a + n
  BY <1>2
<1>5. t \in Seq(Tokens) /\ Len(t) = n /\ \A i \in 1..n : t[i] = c[a + i]
  <2>1. t \in Seq(Tokens) /\ IsCut(c, lo, hi, t)
    BY <1>1, <1>3, <1>4, CutOf
  <2>2. Len(t) = n
    BY <1>2, <1>4, <2>1 DEF IsCut
  <2>3. \A i \in 1..n : t[i] = c[lo - 1 + i]
    BY <2>1, <2>2 DEF IsCut
  <2>4. \A i \in 1..n : lo - 1 + i = a + i
    BY <1>4
  <2> QED  BY <2>1, <2>2, <2>3, <2>4
<1>6. ASSUME NEW i \in 1..n PROVE t[i] = Data(j, a + i)
  <2>1. t[i] = c[a + i]
    BY <1>5
  <2> QED  BY <1>1, <1>2, <2>1
<1>7. t # <<>>
  BY <1>5, EmptyIsShort
<1>8. t[1] = Expect(js, j, a)
  BY <1>0, <1>2, <1>6 DEF Expect
<1>9. \A x, y : x \in Nat /\ y = Expect(js, j, x) => May(js, Data(j, x), y)
  BY DEF May, Data
<1>10. Linked(js, t, {Expect(js, j, a + n)})
  <2>1. ASSUME NEW i \in 1..n - 1 PROVE May(js, t[i], t[i + 1])
    <3>0. i \in 1..n /\ i + 1 \in 1..n /\ a + i < z /\ a + i + 1 = a + (i + 1)
      BY <1>2
    <3>1. t[i] = Data(j, a + i) /\ t[i + 1] = Data(j, a + i + 1)
      BY <1>6, <3>0
    <3>2. a + i \in Nat /\ t[i + 1] = Expect(js, j, a + i)
      BY <1>0, <3>0, <3>1 DEF Expect
    <3> QED  BY <1>9, <3>1, <3>2
  <2>2. May(js, t[n], Expect(js, j, a + n))
    <3>1. t[n] = Data(j, a + n)
      BY <1>2, <1>6
    <3>2. May(js, Data(j, a + n), Expect(js, j, a + n))
      BY <1>2, <1>9
    <3> QED  BY <3>1, <3>2
  <2> QED  BY <1>5, <2>1, <2>2 DEF Linked
<1> QED  BY <1>5, <1>6, <1>7, <1>8, <1>10 DEF PieceIs

LEMMA WordIs ==
  ASSUME NEW js, NEW new, \A y \in new : y[1] \in Whats
  PROVE  /\ Word \in Seq(Tokens) /\ Len(Word) = 2 /\ Word # <<>> /\ Word[1] = W1 /\ Word[2] = W2
         /\ \A i \in 1..2 : Word[i] \in {W1, W2}
         /\ Linked(js, Word, new)
<1>1. Word = <<W1, W2>>
  BY DEF Word, W1, W2
<1>2. Word \in Seq(Tokens) /\ Len(Word) = 2 /\ Word # <<>> /\ Word[1] = W1 /\ Word[2] = W2
  BY <1>1, TokenTypes
<1>3. May(js, W1, W2) /\ \A y \in new : May(js, W2, y)
  BY DEF May
<1> QED  BY <1>2, <1>3 DEF Linked

LEMMA ClientSendsPiece ==
  ASSUME jobs \in Jobs, Whole, SendPiece(Clt)
  PROVE  Whole'
<1>1. /\ Len(jobs) \in Nat /\ DOMAIN jobs = 1..Len(jobs) /\ job \in 1..Len(jobs)
      /\ jobs[job].size \in Nat /\ doing[Clt] = "send"
      /\ jobs[job].what = "put" /\ jobs[job].file # "missing" /\ left2send[Clt] <= jobs[job].size
  <2>1. doing[Clt] = "send"
    BY DEF SendPiece
  <2>2. job \in 1..Len(jobs) + 1 /\ job <= Len(jobs)
    BY <2>1 DEF Whole, FileTypes, ClientAt
  <2>3. Len(jobs) \in Nat /\ DOMAIN jobs = 1..Len(jobs)
    BY JobsAre
  <2>4. job \in 1..Len(jobs)
    BY <2>2, <2>3
  <2> QED  BY <2>1, <2>3, <2>4, JobsAre DEF Whole, ClientAt
<1>2. /\ stream \in [Sides -> Seq(Tokens)] /\ doing \in [Sides -> {"command", "answer", "receive", "send"}]
      /\ left2send \in [Sides -> Nat] /\ doing[Srv] # "answer"
  BY DEF Whole, FileTypes
<1>3. stream[Clt] = <<>> /\ doing[Srv] # "send"
  BY <1>1 DEF Whole, ClientAt, Expects
<1>4. PICK a, n, rest : /\ rest = left2send[Clt] /\ a = jobs[job].size - rest
                        /\ n = IF rest < PieceSize THEN rest ELSE PieceSize
  OBVIOUS
<1>5. /\ rest \in Nat /\ a \in Nat /\ n \in Nat /\ n <= rest /\ a + n <= jobs[job].size
      /\ rest - n \in Nat /\ jobs[job].size - (rest - n) = a + n /\ rest - n <= jobs[job].size
      /\ n = 0 => a = jobs[job].size
  <2>1. rest \in Nat /\ PieceSize \in Nat \ {0}
    BY <1>2, <1>4, FileAssumption DEF Sides
  <2>2. PICK z \in Nat : z = jobs[job].size
    BY <1>1
  <2>3. rest <= z /\ a = z - rest /\ n = IF rest < PieceSize THEN rest ELSE PieceSize
    BY <1>1, <1>4, <2>2
  <2>4. a \in Nat /\ n \in Nat /\ n <= rest /\ (n = 0 => rest = 0)
    BY <2>1, <2>2, <2>3
  <2>5. a + n <= z /\ rest - n \in Nat /\ z - (rest - n) = a + n /\ rest - n <= z /\ (n = 0 => a = z)
    BY <2>1, <2>2, <2>3, <2>4
  <2> QED  BY <2>1, <2>2, <2>4, <2>5
<1>6. ToServer = {Expect(jobs, job, a)}
  BY <1>1, <1>4 DEF ToServer
<1>7. UNCHANGED <<jobs, serving, piece, file, saved>>
  BY DEF SendPiece
<1>8. CASE n > 0
  <2>1. PICK t : t = SubSeq(Content(job), a + 1, a + n)
    OBVIOUS
  <2>2. /\ stream' = [stream EXCEPT ![Srv] = @ \o t]
        /\ left2send' = [left2send EXCEPT ![Clt] = rest - n] /\ UNCHANGED <<doing, job>>
    BY <1>4, <1>8, <2>1 DEF SendPiece, Sent, Peer, Clt, Srv
  <2>3. /\ t \in Seq(Tokens) /\ Len(t) = n /\ t # <<>> /\ t[1] = Expect(jobs, job, a)
        /\ \A i \in 1..Len(t) : t[i] = Data(job, a + i)
        /\ Linked(jobs, t, {Expect(jobs, job, a + n)})
    <3>1. PICK js, j, z : js = jobs /\ j = job /\ z = jobs[job].size
      OBVIOUS
    <3>2. j \in Nat /\ n \in Nat \ {0} /\ js[j].size \in Nat /\ a \in Nat /\ a + n <= js[j].size
      BY <1>1, <1>5, <1>8, <3>1
    <3>3. t = SubSeq([i \in 1..js[j].size |-> <<"data", j, i>>], a + 1, a + n)
      BY <2>1, <3>1 DEF Content
    <3>4. PieceIs(js, j, a, n, t)
      BY <3>2, <3>3, PieceOf
    <3> QED  BY <3>1, <3>4 DEF PieceIs
  <2>4. /\ stream'[Srv] = stream[Srv] \o t /\ stream'[Clt] = stream[Clt]
        /\ left2send'[Clt] = rest - n /\ left2send'[Srv] = left2send[Srv]
    BY <1>2, <2>2 DEF Sides, Clt, Srv
  <2>5. ToServer' = {Expect(jobs, job, a + n)}
    <3>1. ToServer' = {Expect(jobs, job, jobs[job].size - left2send'[Clt])}
      BY <1>1, <1>7, <2>2 DEF ToServer, Expect, Data, W1
    <3> QED  BY <1>5, <2>4, <3>1
  <2>6. SentOn(t)
    <3>1. \A i \in 1..Len(t) : t[i][1] \notin Whats
      BY <2>3, TokensDiffer
    <3> QED  BY <1>6, <1>7, <2>2, <2>3, <2>4, <2>5, <3>1, SentToServer
  <2>7. FileTypes'
    <3>1. stream' \in [Sides -> Seq(Tokens)]
      <4>1. stream'[Srv] \in Seq(Tokens) /\ stream[Clt] \in Seq(Tokens)
        BY <1>2, <2>6 DEF SentOn, Sides
      <4> QED  BY <1>2, <2>2, <2>4, <4>1 DEF Sides
    <3>2. left2send' \in [Sides -> Nat]
      BY <1>2, <1>5, <2>2
    <3> QED  BY <1>7, <2>2, <3>1, <3>2 DEF Whole, FileTypes
  <2>8. ClientAt'
    BY <1>1, <1>3, <1>5, <1>7, <2>2, <2>4 DEF ClientAt, Expects
  <2>9. NothingForgotten'
    <3>1. \A j : Under(j) => Under(j)'
      BY <2>6 DEF SentOn
    <3> QED  BY <1>7, <2>2, <3>1 DEF Whole, NothingForgotten
  <2> QED  BY <2>6, <2>7, <2>8, <2>9 DEF SentOn, Whole
<1>9. CASE ~(n > 0)
  <2>1. n = 0 /\ a = jobs[job].size
    BY <1>5, <1>9
  <2>2. /\ stream' = [stream EXCEPT ![Srv] = @ \o Word] /\ doing' = [doing EXCEPT ![Clt] = "command"]
        /\ job' = job + 1 /\ UNCHANGED left2send
    BY <1>4, <1>9 DEF SendPiece, Sent, Now, Peer, Clt, Srv
  <2>3. /\ stream'[Srv] = stream[Srv] \o Word /\ stream'[Clt] = stream[Clt]
        /\ doing'[Clt] = "command" /\ doing'[Srv] = doing[Srv]
    BY <1>2, <2>2 DEF Sides, Clt, Srv
  <2>4. ToServer' = AnyCommand /\ \A y \in AnyCommand : y[1] \in Whats
    BY <2>3 DEF ToServer, AnyCommand, Command, Whats
  <2>5. SentOn(Word)
    <3>1. /\ Word \in Seq(Tokens) /\ Len(Word) = 2 /\ Word # <<>> /\ Word[1] = W1 /\ Word[2] = W2
          /\ \A i \in 1..2 : Word[i] \in {W1, W2}
          /\ Linked(jobs, Word, ToServer')
      BY <2>4, WordIs
    <3>2. Word[1] \in ToServer
      <4>1. ~(jobs[job].size < jobs[job].size)
        BY <1>1
      <4> QED  BY <1>6, <2>1, <3>1, <4>1 DEF Expect
    <3>3. \A i \in 1..Len(Word) : Word[i][1] \notin Whats
      BY <3>1, TokensDiffer
    <3> QED  BY <1>7, <2>2, <2>3, <3>1, <3>2, <3>3, SentToServer
  <2>6. FileTypes'
    <3>1. stream' \in [Sides -> Seq(Tokens)]
      <4>1. stream'[Srv] \in Seq(Tokens) /\ stream[Clt] \in Seq(Tokens)
        BY <1>2, <2>5 DEF SentOn, Sides
      <4> QED  BY <1>2, <2>2, <2>3, <4>1 DEF Sides
    <3>2. doing' \in [Sides -> {"command", "answer", "receive", "send"}] /\ doing'[Srv] # "answer"
      BY <1>2, <2>2, <2>3
    <3>3. job' \in 1..Len(jobs) + 1
      BY <1>1, <2>2
    <3> QED  BY <1>7, <2>2, <3>1, <3>2, <3>3 DEF Whole, FileTypes
  <2>7. ClientAt'
    BY <1>3, <2>3 DEF ClientAt, Expects
  <2>8. NothingForgotten'
    <3> SUFFICES ASSUME \A j \in 1..Len(jobs) : jobs[j].file # "denied", NEW j \in 1..Len(jobs),
                        j < job + 1, jobs[j].file = "there"
                 PROVE  Under(j)'
      BY <1>7, <2>2, <2>3 DEF NothingForgotten
    <3>1. j < job \/ j = job
      BY <1>1
    <3>2. Under(j)
      BY <1>1, <3>1 DEF Whole, NothingForgotten
    <3> QED  BY <2>5, <3>2 DEF SentOn
  <2> QED  BY <2>5, <2>6, <2>7, <2>8 DEF SentOn, Whole
<1> QED  BY <1>8, <1>9

\* What the server sends is for the job the client waits for.
LEMMA ServerIsAnswering ==
  ASSUME jobs \in Jobs, Whole, doing[Srv] = "send"
  PROVE  /\ Expects /\ job \in 1..Len(jobs) /\ jobs[job].size \in Nat /\ serving = job
         /\ left2send[Srv] <= jobs[job].size /\ BeingAnswered
         /\ jobs[job].what \in {"list", "get"} /\ (jobs[job].what = "list" => doing[Clt] = "receive")
<1>1. Expects /\ BeingAnswered /\ job <= Len(jobs) /\ jobs[job].what \in {"list", "get"}
      /\ (jobs[job].what = "list" => doing[Clt] = "receive")
  BY DEF Whole, ClientAt, CommandSent, NoSuchFile, NotAnswered
<1>2. job \in 1..Len(jobs)
  <2>1. Len(jobs) \in Nat /\ job \in 1..Len(jobs) + 1
    BY JobsAre DEF Whole, FileTypes
  <2> QED  BY <1>1, <2>1
<1>3. jobs[job].size \in Nat
  BY <1>2, JobsAre
<1> QED  BY <1>1, <1>2, <1>3 DEF BeingAnswered

LEMMA SentToClient ==
  ASSUME jobs \in Jobs, Whole, doing[Srv] = "send", UNCHANGED <<jobs, job, serving, piece, file, saved>>,
         stream'[Srv] = stream[Srv], doing'[Clt] = doing[Clt], left2send'[Clt] = left2send[Clt],
         NEW t \in Seq(Tokens), t # <<>>, stream'[Clt] = stream[Clt] \o t,
         Linked(jobs, t, ToClient'), t[1] \in ToClient, \A i \in 1..Len(t) : t[i][1] \notin Whats,
         \/ doing'[Srv] = "send" /\ left2send'[Srv] <= jobs[job].size
         \/ doing'[Srv] = "command" /\ t[Len(t)] = W2
  PROVE  Streams' /\ ClientAt' /\ ServerAt' /\ SavedRight' /\ NothingForgotten' /\ stream'[Clt] \in Seq(Tokens)
<1>0. PICK s \in Seq(Tokens) : s = stream[Clt]
  BY DEF Whole, FileTypes, Sides
<1>1. PICK r, old, new : r = stream'[Clt] /\ old = ToClient /\ new = ToClient'
  OBVIOUS
<1>2. Pushed(jobs, s, t, old, new, r)
  <2>1. Linked(jobs, s, old)
    BY <1>0, <1>1 DEF Whole, Streams
  <2>2. Linked(jobs, t, new) /\ t[1] \in old /\ r = s \o t
    BY <1>0, <1>1
  <2> QED  BY <1>0, <2>1, <2>2, LinkPush
<1>3. PICK m \in Nat, n \in Nat \ {0} : m = Len(s) /\ n = Len(t)
  <2>1. Len(s) \in Nat /\ Len(t) \in Nat /\ Len(t) # 0
    BY <1>0, EmptyIsShort
  <2> QED  BY <2>1
<1>4. /\ r \in Seq(Tokens) /\ r # <<>> /\ Len(r) = m + n
      /\ \A i \in 1..m : r[i] = s[i]
      /\ \A i \in 1..n : r[m + i] = t[i]
      /\ Linked(jobs, r, new) /\ Heads(r, new) \subseteq Heads(s, old)
  BY <1>2, <1>3 DEF Pushed
<1>5. \A i \in 1..m + n : i \in 1..m \/ \E h \in 1..n : i = m + h
  <2>1. \A i \in 1..m + n : i \in 1..m \/ (i - m \in 1..n /\ i = m + (i - m))
    BY <1>3
  <2> QED  BY <2>1
<1>6. /\ Expects /\ job \in 1..Len(jobs) /\ jobs[job].size \in Nat /\ serving = job
      /\ left2send[Srv] <= jobs[job].size /\ BeingAnswered
      /\ jobs[job].what \in {"list", "get"} /\ (jobs[job].what = "list" => doing[Clt] = "receive")
  BY ServerIsAnswering
<1>7. \A i \in 1..Len(r) : r[i][1] \notin Whats
  <2>1. \A i \in 1..m : s[i][1] \notin Whats
    BY <1>0, <1>3, <1>6 DEF BeingAnswered
  <2>2. ASSUME NEW i \in 1..m + n PROVE r[i][1] \notin Whats
    <3>1. CASE i \in 1..m
      BY <1>4, <2>1, <3>1
    <3>2. CASE i \notin 1..m
      <4>1. PICK h \in 1..n : i = m + h
        BY <1>5, <3>2
      <4>2. r[i] = t[h]
        BY <1>4, <4>1
      <4> QED  BY <1>3, <4>2
    <3> QED  BY <3>1, <3>2
  <2> QED  BY <1>4, <2>2
<1>8. r[Len(r)] = t[Len(t)]
  <2>1. n \in 1..n
    BY <1>3
  <2> QED  BY <1>3, <1>4, <2>1
<1>9. BeingAnswered'
  <2>1. /\ stream'[Srv] = <<>> /\ jobs[job].file \in CanOpen
        /\ jobs[job].file = "unwritable" => doing[Clt] = "answer"
    BY <1>6 DEF BeingAnswered
  <2>2. PICK k \in 0..jobs[job].size :
            /\ Received(jobs, job, file[Clt], piece[Clt], k)
            /\ Heads(s, old) \subseteq {Expect(jobs, job, k)}
    BY <1>0, <1>1, <1>6 DEF BeingAnswered, Receives
  <2>3. Heads(r, new) \subseteq {Expect(jobs, job, k)}
    BY <1>4, <2>2
  <2>4. Received(jobs, job, file[Clt], piece[Clt], k)'
    BY <2>2 DEF Received, Has, Data
  <2>5. (Heads(stream[Clt], ToClient) \subseteq {Expect(jobs, job, k)})'
    BY <1>1, <2>3 DEF Heads, Expect, Data
  <2>6. Receives(jobs, job, file[Clt], piece[Clt], stream[Clt], ToClient)'
    BY <2>4, <2>5 DEF Receives
  <2>7. \/ doing'[Srv] = "send" /\ serving = job /\ left2send'[Srv] <= jobs[job].size
        \/ doing'[Srv] = "command" /\ stream'[Clt] # <<>> /\ stream'[Clt][Len(stream'[Clt])] = W2
    BY <1>1, <1>4, <1>6, <1>8
  <2>8. \A i \in 1..Len(stream'[Clt]) : stream'[Clt][i][1] \notin Whats
    BY <1>1, <1>7
  <2> QED  BY <2>1, <2>6, <2>7, <2>8 DEF BeingAnswered, W2, Whats
<1>10. ClientAt'
  <2>1. job <= Len(jobs)
    BY <1>6, JobsAre
  <2>2. doing'[Clt] \in {"answer", "receive"}
    BY <1>6 DEF Expects
  <2> QED  BY <1>6, <1>9, <2>1, <2>2 DEF ClientAt, Expects
<1>11. Streams'
  <2>1. ToServer' = ToServer
    BY DEF ToServer, Expect, AnyCommand
  <2>2. Linked(jobs, stream[Clt], ToClient)'
    BY <1>1, <1>4 DEF Linked, May, Expect
  <2>3. PICK c, q : c = stream[Srv] /\ q = ToServer
    OBVIOUS
  <2>4. Linked(jobs, c, q)
    BY <2>3 DEF Whole, Streams
  <2>5. Linked(jobs, stream[Srv], ToServer)'
    BY <2>1, <2>3, <2>4 DEF Linked, May, Expect
  <2>6. CommandsAreJobs'
    <3>1. CommandsAreJobs
      BY DEF Whole, Streams
    <3>2. PICK ahead, js : ahead = stream[Srv] /\ js = jobs
      OBVIOUS
    <3>3. \A i \in 1..Len(ahead) : ahead[i][1] \in Whats =>
              \E j \in 1..Len(js) : /\ ahead[i] = Command(js[j].what, j)
                                    /\ ~(js[j].what = "put" /\ js[j].file = "missing")
      BY <3>1, <3>2 DEF CommandsAreJobs
    <3>4. stream'[Srv] = ahead /\ jobs' = js
      BY <3>2
    <3> QED  BY <3>3, <3>4 DEF CommandsAreJobs, Command
  <2> QED  BY <2>2, <2>5, <2>6 DEF Streams
<1>12. ServerAt'
  BY DEF ServerAt
<1>13. SavedRight'
  BY DEF Whole, SavedRight, Has, Data, nofile, NoExist
<1>14. NothingForgotten'
  <2>1. \A j : Under(j) => Under(j)'
    BY DEF Under, nofile, NoExist, Command
  <2> QED  BY <2>1 DEF Whole, NothingForgotten
<1> QED  BY <1>1, <1>4, <1>10, <1>11, <1>12, <1>13, <1>14

LEMMA ServerSendsPiece ==
  ASSUME jobs \in Jobs, Whole, SendPiece(Srv)
  PROVE  Whole'
<1>1. doing[Srv] = "send"
  BY DEF SendPiece
<1>2. /\ Expects /\ job \in 1..Len(jobs) /\ jobs[job].size \in Nat /\ serving = job
      /\ left2send[Srv] <= jobs[job].size /\ BeingAnswered
  BY <1>1, ServerIsAnswering
<1>3. /\ stream \in [Sides -> Seq(Tokens)] /\ doing \in [Sides -> {"command", "answer", "receive", "send"}]
      /\ left2send \in [Sides -> Nat]
  BY DEF Whole, FileTypes
<1>4. PICK a, n, rest : /\ rest = left2send[Srv] /\ a = jobs[job].size - rest
                        /\ n = IF rest < PieceSize THEN rest ELSE PieceSize
  OBVIOUS
<1>5. /\ rest \in Nat /\ a \in Nat /\ n \in Nat /\ n <= rest /\ a + n <= jobs[job].size
      /\ rest - n \in Nat /\ jobs[job].size - (rest - n) = a + n /\ rest - n <= jobs[job].size
      /\ n = 0 => a = jobs[job].size
  <2>1. rest \in Nat /\ PieceSize \in Nat \ {0}
    BY <1>3, <1>4, FileAssumption DEF Sides
  <2>2. PICK z \in Nat : z = jobs[job].size
    BY <1>2
  <2>3. rest <= z /\ a = z - rest /\ n = IF rest < PieceSize THEN rest ELSE PieceSize
    BY <1>2, <1>4, <2>2
  <2>4. a \in Nat /\ n \in Nat /\ n <= rest /\ (n = 0 => rest = 0)
    BY <2>1, <2>2, <2>3
  <2>5. a + n <= z /\ rest - n \in Nat /\ z - (rest - n) = a + n /\ rest - n <= z /\ (n = 0 => a = z)
    BY <2>1, <2>2, <2>3, <2>4
  <2> QED  BY <2>1, <2>2, <2>4, <2>5
<1>6. ToClient = {Expect(jobs, job, a)}
  BY <1>1, <1>2, <1>4 DEF ToClient
<1>7. UNCHANGED <<jobs, job, serving, piece, file, saved>>
  BY DEF SendPiece, Clt, Srv
<1>8. CASE n > 0
  <2>1. PICK t : t = SubSeq(Content(job), a + 1, a + n)
    OBVIOUS
  <2>2. /\ stream' = [stream EXCEPT ![Clt] = @ \o t]
        /\ left2send' = [left2send EXCEPT ![Srv] = rest - n] /\ UNCHANGED doing
    BY <1>2, <1>4, <1>8, <2>1 DEF SendPiece, Sent, Peer, Clt, Srv
  <2>3. /\ t \in Seq(Tokens) /\ Len(t) = n /\ t # <<>> /\ t[1] = Expect(jobs, job, a)
        /\ \A i \in 1..Len(t) : t[i] = Data(job, a + i)
        /\ Linked(jobs, t, {Expect(jobs, job, a + n)})
    <3>1. PICK js, j, z : js = jobs /\ j = job /\ z = jobs[job].size
      OBVIOUS
    <3>2. j \in Nat /\ n \in Nat \ {0} /\ js[j].size \in Nat /\ a \in Nat /\ a + n <= js[j].size
      BY <1>2, <1>5, <1>8, <3>1
    <3>3. t = SubSeq([i \in 1..js[j].size |-> <<"data", j, i>>], a + 1, a + n)
      BY <2>1, <3>1 DEF Content
    <3>4. PieceIs(js, j, a, n, t)
      BY <3>2, <3>3, PieceOf
    <3> QED  BY <3>1, <3>4 DEF PieceIs
  <2>4. /\ stream'[Clt] = stream[Clt] \o t /\ stream'[Srv] = stream[Srv]
        /\ left2send'[Srv] = rest - n /\ left2send'[Clt] = left2send[Clt]
    BY <1>3, <2>2 DEF Sides, Clt, Srv
  <2>5. ToClient' = {Expect(jobs, job, a + n)}
    <3>1. ToClient' = {Expect(jobs, job, jobs[job].size - left2send'[Srv])}
      BY <1>1, <1>2, <1>7, <2>2 DEF ToClient, Expect, Data, W1
    <3> QED  BY <1>5, <2>4, <3>1
  <2>6. Streams' /\ ClientAt' /\ ServerAt' /\ SavedRight' /\ NothingForgotten' /\ stream'[Clt] \in Seq(Tokens)
    <3>1. \A i \in 1..Len(t) : t[i][1] \notin Whats
      BY <2>3, TokensDiffer
    <3>2. doing'[Srv] = "send" /\ left2send'[Srv] <= jobs[job].size
      BY <1>1, <1>5, <2>2, <2>4
    <3>3. t[1] \in ToClient /\ Linked(jobs, t, ToClient')
      BY <1>6, <2>3, <2>5
    <3> QED  BY <1>1, <1>7, <2>2, <2>3, <2>4, <3>1, <3>2, <3>3, SentToClient
  <2>7. FileTypes'
    <3>1. stream' \in [Sides -> Seq(Tokens)]
      <4>1. stream[Srv] \in Seq(Tokens)
        BY <1>3 DEF Sides
      <4> QED  BY <1>3, <2>2, <2>4, <2>6, <4>1 DEF Sides
    <3>2. left2send' \in [Sides -> Nat]
      BY <1>3, <1>5, <2>2
    <3> QED  BY <1>7, <2>2, <3>1, <3>2 DEF Whole, FileTypes
  <2> QED  BY <2>6, <2>7 DEF Whole
<1>9. CASE ~(n > 0)
  <2>1. n = 0 /\ a = jobs[job].size
    BY <1>5, <1>9
  <2>2. /\ stream' = [stream EXCEPT ![Clt] = @ \o Word] /\ doing' = [doing EXCEPT ![Srv] = "command"]
        /\ UNCHANGED left2send
    BY <1>2, <1>4, <1>9 DEF SendPiece, Sent, Now, Peer, Clt, Srv
  <2>3. /\ stream'[Clt] = stream[Clt] \o Word /\ stream'[Srv] = stream[Srv]
        /\ doing'[Srv] = "command" /\ doing'[Clt] = doing[Clt]
    BY <1>3, <2>2 DEF Sides, Clt, Srv
  <2>4. ToClient' = {}
    BY <2>3 DEF ToClient
  <2>5. Streams' /\ ClientAt' /\ ServerAt' /\ SavedRight' /\ NothingForgotten' /\ stream'[Clt] \in Seq(Tokens)
    <3>1. /\ Word \in Seq(Tokens) /\ Len(Word) = 2 /\ Word # <<>> /\ Word[1] = W1 /\ Word[2] = W2
          /\ \A i \in 1..2 : Word[i] \in {W1, W2}
          /\ Linked(jobs, Word, ToClient')
      BY <2>4, WordIs
    <3>2. Word[1] \in ToClient
      <4>1. ~(jobs[job].size < jobs[job].size)
        BY <1>2
      <4> QED  BY <1>6, <2>1, <3>1, <4>1 DEF Expect
    <3>3. \A i \in 1..Len(Word) : Word[i][1] \notin Whats
      BY <3>1, TokensDiffer
    <3>4. doing'[Srv] = "command" /\ Word[Len(Word)] = W2
      BY <2>3, <3>1
    <3>5. left2send'[Clt] = left2send[Clt]
      BY <2>2
    <3> QED  BY <1>1, <1>7, <2>3, <3>1, <3>2, <3>3, <3>4, <3>5, SentToClient
  <2>6. FileTypes'
    <3>1. stream' \in [Sides -> Seq(Tokens)]
      <4>1. stream[Srv] \in Seq(Tokens)
        BY <1>3 DEF Sides
      <4> QED  BY <1>3, <2>2, <2>3, <2>5, <4>1 DEF Sides
    <3>2. doing' \in [Sides -> {"command", "answer", "receive", "send"}] /\ doing'[Srv] # "answer"
      BY <1>3, <2>2, <2>3
    <3> QED  BY <1>7, <2>2, <3>1, <3>2 DEF Whole, FileTypes
  <2> QED  BY <2>5, <2>6 DEF Whole
<1> QED  BY <1>8, <1>9

LEMMA NoPairs == (\A x : \A i \in 1..Len(<<x>>) - 1 : FALSE) /\ (\A i \in 1..Len(<<>>) - 1 : FALSE)
<1>1. ASSUME NEW x PROVE 1..Len(<<x>>) - 1 = {}
  <2>1. Len(<<x>>) = 1
    OBVIOUS
  <2> QED  BY <2>1
<1>2. 1..Len(<<>>) - 1 = {}
  <2>1. Len(<<>>) = 0
    OBVIOUS
  <2> QED  BY <2>1
<1> QED  BY <1>1, <1>2

\* What the server has taken from its stream.
ServerTakes(s, n) ==
    /\ stream'[Srv] \in Seq(Tokens) /\ ToServer' = ToServer
    /\ Linked(jobs, stream[Srv], ToServer)' /\ CommandsAreJobs'
    /\ Heads(stream'[Srv], ToServer) = IF n = Len(s) THEN ToServer ELSE {s[n + 1]}
    /\ \A y \in Heads(stream'[Srv], ToServer) : May(jobs, s[n], y)
    /\ n = Len(s) => stream'[Srv] = <<>>
    /\ n # Len(s) => stream'[Srv] # <<>> /\ stream'[Srv][Len(stream'[Srv])] = s[Len(s)]
    /\ \A i \in 1..Len(s) : i \in 1..n \/ \E h \in 1..Len(stream'[Srv]) : stream'[Srv][h] = s[i]

LEMMA ServerTook ==
  ASSUME jobs \in Jobs, Whole, UNCHANGED <<jobs, job>>, doing'[Clt] = doing[Clt],
         left2send'[Clt] = left2send[Clt],
         NEW s \in Seq(Tokens), s = stream[Srv], NEW n \in 1..Len(s),
         stream'[Srv] = SubSeq(s, n + 1, Len(s))
  PROVE  ServerTakes(s, n)
<1>1. PICK r, q : r = stream'[Srv] /\ q = ToServer
  OBVIOUS
<1>2. Popped(jobs, s, n, q, r)
  <2>1. Linked(jobs, s, q)
    BY <1>1 DEF Whole, Streams
  <2> QED  BY <1>1, <2>1, LinkPop
<1>3. PICK l \in Nat : l = Len(s)
  OBVIOUS
<1>4. /\ r \in Seq(Tokens) /\ Len(r) = l - n /\ (r = <<>> <=> n = l)
      /\ \A i \in 1..l - n : r[i] = s[n + i] /\ n + i \in 1..l
      /\ Linked(jobs, r, q)
      /\ Heads(r, q) = IF n = l THEN q ELSE {s[n + 1]}
      /\ \A y \in Heads(r, q) : May(jobs, s[n], y)
  BY <1>2, <1>3 DEF Popped
<1>5. n \in 1..l
  BY <1>3
<1>6. ToServer' = ToServer
  BY DEF ToServer, Expect, AnyCommand
<1>7. CommandsAreJobs'
  <2> SUFFICES ASSUME NEW i \in 1..Len(r), r[i][1] \in Whats
               PROVE  \E j \in 1..Len(jobs) : /\ r[i] = Command(jobs[j].what, j)
                                              /\ ~(jobs[j].what = "put" /\ jobs[j].file = "missing")
    BY <1>1 DEF CommandsAreJobs, Command
  <2>1. r[i] = s[n + i] /\ n + i \in 1..l
    BY <1>4
  <2> QED  BY <1>3, <2>1 DEF Whole, Streams, CommandsAreJobs
<1>8. Linked(jobs, stream[Srv], ToServer)'
  BY <1>1, <1>4, <1>6 DEF Linked, May, Expect
<1>9. ASSUME n # l PROVE r # <<>> /\ r[Len(r)] = s[l]
  <2>1. l - n \in 1..l - n /\ n + (l - n) = l
    BY <1>3, <1>5, <1>9
  <2> QED  BY <1>4, <1>9, <2>1
<1>10. ASSUME NEW i \in 1..l, i \notin 1..n PROVE \E h \in 1..Len(r) : r[h] = s[i]
  <2>1. i - n \in 1..l - n /\ n + (i - n) = i
    BY <1>5, <1>10
  <2>2. r[i - n] = s[i]
    BY <1>4, <2>1
  <2> QED  BY <1>4, <2>1, <2>2
<1> QED  BY <1>1, <1>3, <1>4, <1>6, <1>7, <1>8, <1>9, <1>10 DEF ServerTakes

\* What every reading of a command does.
CommandRead(s) ==
    /\ jobs \in Jobs /\ Whole /\ UNCHANGED <<jobs, job, saved>>
    /\ doing[Srv] = "command" /\ doing'[Clt] = doing[Clt] /\ left2send'[Clt] = left2send[Clt]
    /\ file'[Clt] = file[Clt] /\ piece'[Clt] = piece[Clt]
    /\ s \in Seq(Tokens) /\ s = stream[Srv] /\ s # <<>> /\ 1 \in 1..Len(s)
    /\ ServerTakes(s, 1)

LEMMA StillWaiting ==
  ASSUME NEW s, CommandRead(s), stream'[Clt] = stream[Clt], doing'[Srv] # "send",
         s[Len(s)] # s[1] \/ s[1][1] \notin {"list", "get"}
  PROVE  ClientAt'
<1>1. ASSUME Expects PROVE CommandSent' /\ job <= Len(jobs) /\ jobs[job].what \in {"list", "get"}
                           /\ (jobs[job].what = "list" => doing[Clt] = "receive")
  <2>1. CommandSent /\ job <= Len(jobs) /\ jobs[job].what \in {"list", "get"}
        /\ (jobs[job].what = "list" => doing[Clt] = "receive")
    BY <1>1 DEF CommandRead, Whole, ClientAt, BeingAnswered, NoSuchFile, NotAnswered
  <2>2. s[Len(s)] = Command(jobs[job].what, job)
    BY <2>1 DEF CommandSent, CommandRead
  <2>3. s[Len(s)][1] \in {"list", "get"}
    BY <2>1, <2>2 DEF Command
  <2>4. 1 # Len(s)
    BY <2>3
  <2>5. stream'[Srv] # <<>> /\ stream'[Srv][Len(stream'[Srv])] = Command(jobs[job].what, job)
    BY <2>2, <2>4 DEF CommandRead, ServerTakes
  <2>6. Received(jobs, job, file[Clt], piece[Clt], 0)'
    BY <2>1 DEF CommandSent, CommandRead, Received, Has, Data
  <2> QED  BY <2>1, <2>5, <2>6 DEF CommandSent, CommandRead, Command
<1>2. CASE Expects
  BY <1>1, <1>2 DEF CommandRead, ClientAt, Expects
<1>3. CASE ~Expects
  BY <1>3 DEF CommandRead, Whole, ClientAt, Expects
<1> QED  BY <1>2, <1>3

\* Nothing is forgotten of what is not read, and of what is then received.
LEMMA StillUnder ==
  ASSUME NEW s, CommandRead(s),
         \/ s[1][1] # "put"
         \/ \E j \in 1..Len(jobs) : /\ s[1] = Command("put", j)
                                    /\ \/ jobs[j].file = "denied"
                                       \/ doing'[Srv] = "receive" /\ serving' = j
  PROVE  SavedRight' /\ NothingForgotten'
<1>1. SavedRight'
  BY DEF CommandRead, Whole, SavedRight, Has, Data, nofile, NoExist
<1>2. NothingForgotten'
  <2> SUFFICES ASSUME \A j \in 1..Len(jobs) : jobs[j].file # "denied", NEW j \in 1..Len(jobs),
                      j < job \/ (j = job /\ doing[Clt] = "send"), jobs[j].file = "there"
               PROVE  Under(j)'
    BY DEF NothingForgotten, CommandRead
  <2>1. Under(j)
    BY DEF CommandRead, Whole, NothingForgotten
  <2>2. CASE saved[j] # nofile
    BY <2>2 DEF CommandRead, Under, nofile, NoExist
  <2>3. CASE \E i \in 1..Len(s) : s[i] = Command("put", j)
    <3>1. PICK i \in 1..Len(s) : s[i] = Command("put", j)
      BY <2>3
    <3>2. CASE i \in 1..1
      <4>1. s[1] = Command("put", j) /\ s[1][1] = "put" /\ s[1][2] = j
        BY <3>1, <3>2 DEF Command
      <4>2. PICK k \in 1..Len(jobs) : /\ s[1] = Command("put", k)
                                      /\ \/ jobs[k].file = "denied"
                                         \/ doing'[Srv] = "receive" /\ serving' = k
        BY <4>1
      <4>3. k = j
        BY <4>1, <4>2 DEF Command
      <4> QED  BY <4>2, <4>3 DEF Under
    <3>3. CASE i \notin 1..1
      <4>1. \E h \in 1..Len(stream'[Srv]) : stream'[Srv][h] = Command("put", j)
        BY <3>1, <3>3 DEF CommandRead, ServerTakes
      <4> QED  BY <4>1 DEF Under, Command
    <3> QED  BY <3>2, <3>3
  <2> QED  BY <2>1, <2>2, <2>3 DEF CommandRead, Under
<1> QED  BY <1>1, <1>2

LEMMA CommandDropped ==
  ASSUME NEW s, CommandRead(s), stream'[Clt] = stream[Clt], FileTypes', s[1][1] \notin Whats,
         UNCHANGED <<serving, doing, left2send>>
  PROVE  Whole'
<1>1. ClientAt'
  BY StillWaiting DEF CommandRead, Whats
<1>2. SavedRight' /\ NothingForgotten'
  BY StillUnder DEF Whats
<1>3. ServerAt'
  BY DEF CommandRead, ServerAt
<1>4. Linked(jobs, stream[Clt], ToClient)'
  <2>1. ToClient' = ToClient
    BY DEF CommandRead, ToClient, Expect
  <2>2. PICK c, q : c = stream[Clt] /\ q = ToClient
    OBVIOUS
  <2>3. Linked(jobs, c, q)
    BY <2>2 DEF CommandRead, Whole, Streams
  <2> QED  BY <2>1, <2>2, <2>3 DEF CommandRead, Linked, May, Expect
<1>5. Streams'
  BY <1>4 DEF CommandRead, ServerTakes, Streams
<1> QED  BY <1>1, <1>2, <1>3, <1>5 DEF Whole

LEMMA PutIsRead ==
  ASSUME NEW s, CommandRead(s), stream'[Clt] = stream[Clt], FileTypes',
         NEW j \in 1..Len(jobs), s[1] = Command("put", j), jobs[j].what = "put", jobs[j].file # "missing",
         doing'[Srv] = IF jobs[j].file # "denied" THEN "receive" ELSE "command",
         serving' = j, file'[Srv] = <<>>, piece'[Srv] = <<>>
  PROVE  Whole'
<1>0. /\ jobs[j].size \in Nat /\ jobs[j].file \in {"there", "missing", "denied", "unwritable"}
      /\ jobs[j].file # "unwritable"
      /\ s[1][1] = "put" /\ s[1][2] = j /\ doing'[Srv] # "send"
  BY JobsAre DEF CommandRead, Command
<1>1. ClientAt'
  BY <1>0, StillWaiting
<1>2. SavedRight' /\ NothingForgotten'
  BY <1>0, StillUnder
<1>3. ServerAt'
  <2> SUFFICES ASSUME doing'[Srv] = "receive" PROVE ServerAt'
    BY DEF ServerAt
  <2>1. jobs[j].file = "there"
    BY <1>0
  <2>2. Received(jobs, j, <<>>, <<>>, 0)
    <3>1. 0 \in 0..jobs[j].size /\ 1..0 = {} /\ Len(<<>>) = 0
      BY <1>0
    <3> QED  BY <3>1 DEF Received, Has
  <2>3. Received(jobs, serving, file[Srv], piece[Srv], 0)'
    BY <2>2 DEF CommandRead, Received, Has, Data
  <2>4. \A y \in Heads(stream'[Srv], ToServer') : y = Expect(jobs, j, 0)
    <3>1. \A y : May(jobs, s[1], y) => y = Expect(jobs, j, 0)
      BY <1>0 DEF May, W1, W2
    <3> QED  BY <3>1 DEF CommandRead, ServerTakes
  <2>5. (Heads(stream[Srv], ToServer) \subseteq {Expect(jobs, serving, 0)})'
    BY <2>4 DEF CommandRead, Heads, Expect, Data
  <2>6. 0 \in 0..jobs[j].size
    BY <1>0
  <2>7. Receives(jobs, serving, file[Srv], piece[Srv], stream[Srv], ToServer)'
    BY <2>3, <2>5, <2>6 DEF CommandRead, Receives
  <2> QED  BY <2>1, <2>7 DEF CommandRead, ServerAt
<1>4. Linked(jobs, stream[Clt], ToClient)'
  <2>1. ToClient' = ToClient
    BY <1>0 DEF CommandRead, ToClient
  <2>2. PICK c, q : c = stream[Clt] /\ q = ToClient
    OBVIOUS
  <2>3. Linked(jobs, c, q)
    BY <2>2 DEF CommandRead, Whole, Streams
  <2> QED  BY <2>1, <2>2, <2>3 DEF CommandRead, Linked, May, Expect
<1>5. Streams'
  BY <1>4 DEF CommandRead, ServerTakes, Streams
<1> QED  BY <1>1, <1>2, <1>3, <1>5 DEF Whole

LEMMA RequestIsRead ==
  ASSUME NEW s, CommandRead(s), FileTypes',
         NEW j \in 1..Len(jobs), s[1] = Command(jobs[j].what, j), jobs[j].what \in {"list", "get"},
         doing'[Srv] = IF jobs[j].file \in CanOpen THEN "send" ELSE "command",
         serving' = j, left2send'[Srv] = jobs[j].size,
         stream'[Clt] = IF jobs[j].file = "missing" THEN Append(stream[Clt], NoExist) ELSE stream[Clt]
  PROVE  Whole'
<1>0. /\ jobs[j].size \in Nat /\ jobs[j].file \in {"there", "missing", "denied", "unwritable"}
      /\ jobs[j].what = "list" => jobs[j].file = "there"
      /\ s[1][1] = jobs[j].what /\ s[1][2] = j
  BY JobsAre DEF CommandRead, Command
<1>1. Heads(stream'[Srv], ToServer) = {}
  <2>1. \A y : ~May(jobs, s[1], y)
    BY <1>0 DEF May, W1, W2
  <2> QED  BY <2>1 DEF CommandRead, ServerTakes
<1>2. 1 = Len(s) /\ ToServer = {} /\ stream'[Srv] = <<>>
  BY <1>1 DEF CommandRead, ServerTakes
<1>3. Expects
  <2>1. doing[Clt] # "send" /\ doing[Clt] # "command"
    <3>1. Command("get", 1) \in AnyCommand
      BY DEF AnyCommand, Whats
    <3> QED  BY <1>2, <3>1 DEF ToServer
  <2>2. doing[Clt] \in {"command", "answer", "receive", "send"}
    BY DEF CommandRead, Whole, FileTypes, Sides
  <2> QED  BY <2>1, <2>2 DEF Expects
<1>4. CommandSent /\ job <= Len(jobs) /\ (jobs[job].what = "list" => doing[Clt] = "receive")
  BY <1>3 DEF CommandRead, Whole, ClientAt, BeingAnswered, NoSuchFile, NotAnswered
<1>5. job = j
  <2>1. s[1] = Command(jobs[job].what, job)
    BY <1>2, <1>4 DEF CommandSent, CommandRead
  <2> QED  BY <1>0, <2>1 DEF Command
<1>6. stream[Clt] = <<>>
  BY <1>4 DEF CommandSent
<1>7. Received(jobs, job, file[Clt], piece[Clt], 0)'
  BY <1>4 DEF CommandSent, CommandRead, Received, Has, Data
<1>8. doing'[Clt] \in {"answer", "receive"}
  BY <1>3 DEF Expects, CommandRead
<1>9. BeingAnswered' \/ NoSuchFile' \/ NotAnswered'
  <2>1. CASE jobs[j].file \in CanOpen
    <3>1. stream'[Clt] = <<>> /\ doing'[Srv] = "send"
      BY <1>6, <2>1 DEF CanOpen
    <3>2. ToClient' = {Expect(jobs, job, 0)}
      <4>1. jobs[job].size - left2send'[Srv] = 0
        BY <1>0, <1>5
      <4>2. ToClient' = {Expect(jobs, job, jobs[job].size - left2send'[Srv])}
        BY <1>5, <3>1 DEF CommandRead, ToClient, Expect, Data, W1
      <4> QED  BY <4>1, <4>2
    <3>3. (Heads(stream[Clt], ToClient) \subseteq {Expect(jobs, job, 0)})'
      BY <3>1, <3>2 DEF CommandRead, Heads, Expect, Data
    <3>4. 0 \in 0..jobs[job].size
      BY <1>0, <1>5
    <3>5. Receives(jobs, job, file[Clt], piece[Clt], stream[Clt], ToClient)'
      BY <1>7, <3>3, <3>4 DEF CommandRead, Receives
    <3>6. left2send'[Srv] <= jobs[job].size /\ 1..Len(stream'[Clt]) = {}
      <4>1. left2send'[Srv] <= jobs[job].size
        BY <1>0, <1>5
      <4>2. 1..Len(stream'[Clt]) = {}
        <5>1. PICK q : q = stream'[Clt] /\ q = <<>>
          BY <3>1
        <5>2. 1..Len(q) = {}
          BY <5>1
        <5> QED  BY <5>1, <5>2
      <4> QED  BY <4>1, <4>2
    <3>7. jobs[job].file = "unwritable" => doing'[Clt] = "answer"
      BY <1>0, <1>4, <1>5 DEF CommandSent, CommandRead
    <3> QED  BY <1>2, <1>5, <2>1, <3>1, <3>5, <3>6, <3>7 DEF CommandRead, BeingAnswered
  <2>2. CASE jobs[j].file = "missing"
    <3>1. stream'[Clt] = <<NoExist>> /\ doing'[Srv] = "command"
      BY <1>6, <2>2 DEF CanOpen
    <3>2. jobs[job].what = "get" /\ doing'[Clt] = "answer"
      BY <1>0, <1>4, <1>5, <2>2 DEF CommandSent, CommandRead
    <3> QED  BY <1>2, <1>5, <1>7, <2>2, <3>1, <3>2 DEF CommandRead, NoSuchFile, NoExist
  <2>3. CASE jobs[j].file = "denied"
    <3>1. stream'[Clt] = <<>> /\ doing'[Srv] = "command"
      BY <1>6, <2>3 DEF CanOpen
    <3> QED  BY <1>2, <1>5, <2>3, <3>1 DEF CommandRead, NotAnswered
  <2> QED  BY <1>0, <2>1, <2>2, <2>3 DEF CanOpen
<1>10. ClientAt'
  <2>1. job' = job /\ jobs' = jobs /\ doing'[Clt] = doing[Clt]
    BY DEF CommandRead
  <2> QED  BY <1>4, <1>5, <1>8, <1>9, <2>1 DEF ClientAt, Expects
<1>11. SavedRight' /\ NothingForgotten'
  BY <1>0, StillUnder
<1>12. ServerAt'
  BY DEF ServerAt
<1>13. Linked(jobs, stream[Clt], ToClient)'
  <2>1. CASE jobs[j].file = "missing"
    <3>1. stream'[Clt] = <<NoExist>> /\ doing'[Srv] # "send"
      BY <1>6, <2>1 DEF CanOpen
    <3>3. ToClient' = {}
      BY <3>1 DEF ToClient
    <3>2. \A i \in 1..Len(stream'[Clt]) - 1 : FALSE
      BY <3>1, NoPairs
    <3> QED  BY <3>1, <3>2, <3>3 DEF Linked
  <2>2. CASE jobs[j].file # "missing"
    <3>1. stream'[Clt] = <<>>
      BY <1>6, <2>2
    <3>2. \A i \in 1..Len(stream'[Clt]) - 1 : FALSE
      BY <3>1, NoPairs
    <3> QED  BY <3>1, <3>2 DEF Linked
  <2> QED  BY <2>1, <2>2
<1>14. Streams'
  BY <1>13 DEF CommandRead, ServerTakes, Streams
<1> QED  BY <1>10, <1>11, <1>12, <1>14 DEF Whole

LEMMA ServerCommandKeeps ==
  ASSUME jobs \in Jobs, Whole, ServerCommand, ~joined'
  PROVE  Whole'
<1>1. PICK s \in Seq(Tokens) : s = stream[Srv]
  BY DEF Whole, FileTypes, Sides
<1>2. /\ stream \in [Sides -> Seq(Tokens)] /\ doing \in [Sides -> {"command", "answer", "receive", "send"}]
      /\ left2send \in [Sides -> Nat]
      /\ piece \in [Sides -> Seq(Tokens)] /\ file \in [Sides -> Seq(Tokens)]
  BY DEF Whole, FileTypes
<1>3. PICK n \in Available(Srv, CommandSize) :
        /\ joined' = (joined \/ n > 1)
        /\ doing[Srv] = "command" /\ UNCHANGED <<jobs, job, saved>>
        /\ stream' = [stream EXCEPT ![Srv] = SubSeq(s, n + 1, Len(s)),
                                    ![Clt] = IF s[1][1] = "get" /\ jobs[s[1][2]].file = "missing"
                                             THEN Append(@, NoExist) ELSE @]
        /\ IF s[1][1] \in Whats
           THEN /\ serving' = s[1][2]
                /\ doing' = [doing EXCEPT ![Srv] =
                        CASE s[1][1] = "list" -> "send"
                          [] s[1][1] = "get" /\ jobs[s[1][2]].file \in CanOpen -> "send"
                          [] s[1][1] = "put" /\ jobs[s[1][2]].file # "denied" -> "receive"
                          [] OTHER -> "command"]
                /\ left2send' = [left2send EXCEPT ![Srv] = jobs[s[1][2]].size]
                /\ file' = [file EXCEPT ![Srv] = <<>>]
                /\ piece' = [piece EXCEPT ![Srv] = <<>>]
           ELSE UNCHANGED <<serving, doing, left2send, file, piece>>
  BY <1>1 DEF ServerCommand, Now, Whats, CanOpen
<1>31. n = 1 /\ 1 \in 1..Len(s) /\ s # <<>>
  <2>1. PICK l \in Nat, z \in Nat \ {0} : l = Len(s) /\ z = CommandSize
    BY FileAssumption
  <2>2. n \in 1..IF l < z THEN l ELSE z
    BY <1>1, <1>3, <2>1 DEF Available
  <2>3. n \in Nat /\ n >= 1 /\ n <= l
    BY <2>1, <2>2
  <2>4. ~(n > 1)
    BY <1>3
  <2>5. n = 1 /\ 1 \in 1..Len(s)
    BY <2>1, <2>3, <2>4
  <2> QED  BY <1>1, <2>5, EmptyIsShort
<1>4. /\ doing[Srv] = "command" /\ UNCHANGED <<jobs, job, saved>>
      /\ stream' = [stream EXCEPT ![Srv] = SubSeq(s, 1 + 1, Len(s)),
                                  ![Clt] = IF s[1][1] = "get" /\ jobs[s[1][2]].file = "missing"
                                           THEN Append(@, NoExist) ELSE @]
      /\ IF s[1][1] \in Whats
         THEN /\ serving' = s[1][2]
              /\ doing' = [doing EXCEPT ![Srv] =
                      CASE s[1][1] = "list" -> "send"
                        [] s[1][1] = "get" /\ jobs[s[1][2]].file \in CanOpen -> "send"
                        [] s[1][1] = "put" /\ jobs[s[1][2]].file # "denied" -> "receive"
                        [] OTHER -> "command"]
              /\ left2send' = [left2send EXCEPT ![Srv] = jobs[s[1][2]].size]
              /\ file' = [file EXCEPT ![Srv] = <<>>]
              /\ piece' = [piece EXCEPT ![Srv] = <<>>]
         ELSE UNCHANGED <<serving, doing, left2send, file, piece>>
  BY <1>3, <1>31
<1>5. /\ stream'[Srv] = SubSeq(s, 1 + 1, Len(s))
      /\ stream'[Clt] = IF s[1][1] = "get" /\ jobs[s[1][2]].file = "missing"
                        THEN Append(stream[Clt], NoExist) ELSE stream[Clt]
      /\ doing'[Clt] = doing[Clt] /\ left2send'[Clt] = left2send[Clt]
      /\ file'[Clt] = file[Clt] /\ piece'[Clt] = piece[Clt]
  <2>1. /\ stream'[Srv] = SubSeq(s, 1 + 1, Len(s))
        /\ stream'[Clt] = IF s[1][1] = "get" /\ jobs[s[1][2]].file = "missing"
                          THEN Append(stream[Clt], NoExist) ELSE stream[Clt]
    BY <1>2, <1>4 DEF Sides, Clt, Srv
  <2>2. /\ doing'[Clt] = doing[Clt] /\ left2send'[Clt] = left2send[Clt]
        /\ file'[Clt] = file[Clt] /\ piece'[Clt] = piece[Clt]
    BY <1>2, <1>4 DEF Sides, Clt, Srv
  <2> QED  BY <2>1, <2>2
<1>6. ServerTakes(s, 1)
  BY <1>1, <1>31, <1>4, <1>5, ServerTook
<1>7. CommandRead(s)
  BY <1>1, <1>31, <1>4, <1>5, <1>6 DEF CommandRead
<1>8. s[1][1] \in Whats => \E j \in 1..Len(jobs) : /\ s[1] = Command(jobs[j].what, j)
                                                   /\ ~(jobs[j].what = "put" /\ jobs[j].file = "missing")
  BY <1>1, <1>31 DEF Whole, Streams, CommandsAreJobs
<1>9. /\ Len(jobs) \in Nat
      /\ \A j \in 1..Len(jobs) : /\ jobs[j].what \in Whats /\ jobs[j].size \in Nat
                                 /\ jobs[j].file \in {"there", "missing", "denied", "unwritable"}
                                 /\ jobs[j].what = "list" => jobs[j].file = "there"
  BY JobsAre
<1>10. FileTypes'
  <2>1. stream' \in [Sides -> Seq(Tokens)]
    <3>1. stream'[Srv] \in Seq(Tokens)
      BY <1>6 DEF ServerTakes
    <3>2. stream[Clt] \in Seq(Tokens) /\ NoExist \in Tokens
      BY <1>2, TokenTypes DEF Sides
    <3>3. stream'[Clt] \in Seq(Tokens)
      BY <1>5, <3>2
    <3>4. stream' \in [Sides -> Seq(Tokens) \cup {stream'[Srv], stream'[Clt]}]
      BY <1>2, <1>4, <1>5 DEF Sides, Clt, Srv
    <3> QED  BY <3>1, <3>3, <3>4
  <2>2. CASE s[1][1] \in Whats
    <3>1. PICK j \in 1..Len(jobs) : s[1] = Command(jobs[j].what, j)
      BY <1>8, <2>2
    <3>2. s[1][2] = j /\ j \in Nat /\ jobs[j].size \in Nat
      BY <1>9, <3>1 DEF Command
    <3>3. left2send' \in [Sides -> Nat] /\ serving' \in Nat
      BY <1>2, <1>4, <2>2, <3>2
    <3>4. file' \in [Sides -> Seq(Tokens)] /\ piece' \in [Sides -> Seq(Tokens)]
      <4>1. <<>> \in Seq(Tokens)
        OBVIOUS
      <4> QED  BY <1>2, <1>4, <2>2, <4>1
    <3>5. PICK d : d = CASE s[1][1] = "list" -> "send"
                        [] s[1][1] = "get" /\ jobs[s[1][2]].file \in CanOpen -> "send"
                        [] s[1][1] = "put" /\ jobs[s[1][2]].file # "denied" -> "receive"
                        [] OTHER -> "command"
      OBVIOUS
    <3>6. d \in {"send", "receive", "command"}
      BY <3>5
    <3>7. doing' = [doing EXCEPT ![Srv] = d]
      BY <1>4, <2>2, <3>5
    <3>8. doing' \in [Sides -> {"command", "answer", "receive", "send"}] /\ doing'[Srv] # "answer"
      BY <1>2, <3>6, <3>7 DEF Sides
    <3> QED  BY <1>4, <2>1, <3>3, <3>4, <3>8 DEF Whole, FileTypes
  <2>3. CASE s[1][1] \notin Whats
    BY <1>4, <2>1, <2>3 DEF Whole, FileTypes
  <2> QED  BY <2>2, <2>3
<1>11. CASE s[1][1] \notin Whats
  <2>1. stream'[Clt] = stream[Clt]
    BY <1>5, <1>11 DEF Whats
  <2> QED  BY <1>4, <1>7, <1>10, <1>11, <2>1, CommandDropped
<1>12. CASE s[1][1] \in Whats
  <2>1. PICK j \in 1..Len(jobs) : /\ s[1] = Command(jobs[j].what, j)
                                  /\ ~(jobs[j].what = "put" /\ jobs[j].file = "missing")
    BY <1>8, <1>12
  <2>2. s[1][1] = jobs[j].what /\ s[1][2] = j
    BY <2>1 DEF Command
  <2>3. /\ serving' = j /\ file'[Srv] = <<>> /\ piece'[Srv] = <<>> /\ left2send'[Srv] = jobs[j].size
    BY <1>2, <1>4, <1>12, <2>2 DEF Sides
  <2>4. doing'[Srv] = CASE jobs[j].what = "list" -> "send"
                        [] jobs[j].what = "get" /\ jobs[j].file \in CanOpen -> "send"
                        [] jobs[j].what = "put" /\ jobs[j].file # "denied" -> "receive"
                        [] OTHER -> "command"
    BY <1>2, <1>4, <1>12, <2>2 DEF Sides
  <2>5. CASE jobs[j].what = "put"
    <3>1. doing'[Srv] = IF jobs[j].file # "denied" THEN "receive" ELSE "command"
      BY <2>4, <2>5
    <3>2. stream'[Clt] = stream[Clt] /\ jobs[j].file # "missing"
      BY <1>5, <2>1, <2>2, <2>5
    <3> QED  BY <1>7, <1>10, <2>1, <2>3, <2>5, <3>1, <3>2, PutIsRead
  <2>6. CASE jobs[j].what # "put"
    <3>1. jobs[j].what \in {"list", "get"} /\ (jobs[j].what = "list" => jobs[j].file = "there")
          /\ jobs[j].file \in {"there", "missing", "denied", "unwritable"}
      BY <1>9, <2>6 DEF Whats
    <3>2. doing'[Srv] = IF jobs[j].file \in CanOpen THEN "send" ELSE "command"
      BY <2>4, <3>1 DEF CanOpen
    <3>3. stream'[Clt] = IF jobs[j].file = "missing" THEN Append(stream[Clt], NoExist) ELSE stream[Clt]
      BY <1>5, <2>2, <3>1
    <3> QED  BY <1>7, <1>10, <2>1, <2>3, <3>1, <3>2, <3>3, RequestIsRead
  <2> QED  BY <2>5, <2>6
<1> QED  BY <1>11, <1>12

LEMMA FirstIsFirst ==
  ASSUME NEW S, S \subseteq Nat, S # {}
  PROVE  FirstOf(S) \in S /\ \A n \in S : FirstOf(S) <= n
<1>1. \E m \in S : \A n \in S : m <= n
  BY LeastNumber
<1> QED  BY <1>1 DEF FirstOf

\* do_get cannot create its file.
Fails(e, j) == doing[e] = "answer" /\ jobs[j].file = "unwritable"

\* What one recv of a file does to the side e, of which j is the job.
Receipt(e, j, s, n, took, buf, k) ==
    /\ n \in 1..Len(s) /\ took = Taken(s, n) /\ buf = Buffer(s, piece[e], n) /\ s[n] # W1
    /\ k = FirstOf(Places(buf))
    /\ stream' = [stream EXCEPT ![e] = SubSeq(s, n + 1, Len(s))]
    /\ piece' = [piece EXCEPT ![e] = buf]
    /\ file' = [file EXCEPT ![e] = @ \o (IF jobs[j].what = "list"
                                         THEN IF Places(buf) = {} THEN buf ELSE <<>>
                                         ELSE IF k = 0 THEN took ELSE SubSeq(buf, 1, k - 1))]
    /\ LET no == doing[e] = "answer" /\ NoExist \in ToSet(buf)
       IN  /\ IF no \/ Fails(e, j) \/ Places(buf) # {}
              THEN /\ doing' = [doing EXCEPT ![e] = "command"]
                   /\ saved' = IF no \/ Fails(e, j) THEN saved ELSE [saved EXCEPT ![j] = file'[e]]
                   /\ job' = IF e = Clt THEN job + 1 ELSE job
              ELSE doing' = [doing EXCEPT ![e] = "receive"] /\ UNCHANGED <<saved, job>>
           /\ ~no /\ Fails(e, j) => Places(buf) # {}
    /\ Places(buf) # {} => ~(n > k + 1 \/ (jobs[j].what = "list" /\ k > 1))
    /\ UNCHANGED <<jobs, left2send, serving>>

LEMMA ReceiptOf ==
  ASSUME NEW e \in Sides, FileTypes, ReceivePiece(e), ~cutWord', ~joined', ~abandoned',
         NEW j, j = IF e = Clt THEN job ELSE serving, NEW s \in Seq(Tokens), s = stream[e]
  PROVE  \E n, took, buf, k : Receipt(e, j, s, n, took, buf, k)
<1>0. PICK n \in Available(e, PieceSize) : ReceiveBytes(e, n)
  BY DEF ReceivePiece
<1>1. PICK took, buf, at, k :
        /\ took = Took(e, n)
        /\ buf = Took(e, n) \o SubSeq(piece[e], n + 1, Len(piece[e]))
        /\ at = {h \in 1..Len(buf) - 1 : SubSeq(buf, h, h + 1) = Word} /\ k = FirstOf(at)
  OBVIOUS
<1>12. /\ stream' = [stream EXCEPT ![e] = SubSeq(s, n + 1, Len(s))]
       /\ piece' = [piece EXCEPT ![e] = buf]
       /\ UNCHANGED <<jobs, left2send, serving>>
       /\ cutWord' = (cutWord \/ took[n] = Word[1])
       /\ joined' = (joined \/ (at # {} /\ (n > k + 1 \/ (jobs[j].what = "list" /\ k > 1))))
  BY <1>0, <1>1 DEF ReceiveBytes
<1>13. file' = [file EXCEPT ![e] = @ \o (IF jobs[j].what = "list" THEN IF at = {} THEN buf ELSE <<>>
                                         ELSE Gained(took, buf, k))]
  BY <1>0, <1>1 DEF ReceiveBytes
<1>2. n \in 1..Len(s)
  <2>1. PICK l \in Nat, z \in Nat : l = Len(s) /\ z = PieceSize
    BY FileAssumption
  <2>2. n \in 1..IF l < z THEN l ELSE z
    BY <1>0, <2>1 DEF Available
  <2> QED  BY <2>1, <2>2
<1>3. took = Taken(s, n) /\ buf = Buffer(s, piece[e], n)
  BY <1>1 DEF Took, Taken, Buffer
<1>4. Word[1] = W1 /\ took[n] = s[n]
  <2>1. piece[e] \in Seq(Tokens)
    BY DEF FileTypes
  <2>2. IsBuffer(s, piece[e], n, took, buf)
    BY <1>2, <1>3, <2>1, BufferOf
  <2>3. n \in 1..n
    BY <1>2
  <2> QED  BY <2>2, <2>3 DEF IsBuffer, Word, W1
<1>5. at = Places(buf) /\ k = FirstOf(Places(buf))
  BY <1>1 DEF Places
<1>6. file' = [file EXCEPT ![e] = @ \o (IF jobs[j].what = "list"
                                         THEN IF Places(buf) = {} THEN buf ELSE <<>>
                                         ELSE IF k = 0 THEN took ELSE SubSeq(buf, 1, k - 1))]
  BY <1>13, <1>5, Zenon DEF Gained
<1>7. PICK no, unable :
        /\ no = (doing[e] = "answer" /\ NoExist \in ToSet(buf))
        /\ unable = (doing[e] = "answer" /\ ~no /\ jobs[j].file = "unwritable")
  OBVIOUS
<1>8. /\ IF no \/ unable \/ at # {}
         THEN /\ doing' = [doing EXCEPT ![e] = "command"]
              /\ saved' = IF no \/ unable THEN saved ELSE [saved EXCEPT ![j] = file'[e]]
              /\ job' = IF e = Clt THEN job + 1 ELSE job
         ELSE doing' = [doing EXCEPT ![e] = "receive"] /\ UNCHANGED <<saved, job>>
      /\ abandoned' = (abandoned \/ (unable /\ at = {}))
  BY <1>0, <1>1, <1>7 DEF ReceiveBytes, Now
<1>9. LET refused == doing[e] = "answer" /\ NoExist \in ToSet(buf)
      IN  /\ IF refused \/ Fails(e, j) \/ Places(buf) # {}
             THEN /\ doing' = [doing EXCEPT ![e] = "command"]
                  /\ saved' = IF refused \/ Fails(e, j) THEN saved ELSE [saved EXCEPT ![j] = file'[e]]
                  /\ job' = IF e = Clt THEN job + 1 ELSE job
             ELSE doing' = [doing EXCEPT ![e] = "receive"] /\ UNCHANGED <<saved, job>>
          /\ ~refused /\ Fails(e, j) => Places(buf) # {}
  BY <1>5, <1>7, <1>8 DEF Fails
<1>10. s[n] # W1
  BY <1>4, <1>12
<1>11. Places(buf) # {} => ~(n > k + 1 \/ (jobs[j].what = "list" /\ k > 1))
  BY <1>5, <1>12
<1>14. Receipt(e, j, s, n, took, buf, k)
  BY <1>2, <1>3, <1>5, <1>6, <1>9, <1>10, <1>11, <1>12, Zenon DEF Receipt
<1> QED  BY <1>14

\* A side that receives a file has more of it, or all.
More(e, j, s, n) ==
    /\ doing' = [doing EXCEPT ![e] = "receive"] /\ UNCHANGED <<saved, job>> /\ ~Fails(e, j)
    /\ \E m \in 0..jobs[j].size : s[n] = Data(j, m) /\ Received(jobs, j, file'[e], piece'[e], m)
All(e, j, s, n) ==
    /\ doing' = [doing EXCEPT ![e] = "command"]
    /\ saved' = IF Fails(e, j) THEN saved ELSE [saved EXCEPT ![j] = file'[e]]
    /\ job' = IF e = Clt THEN job + 1 ELSE job
    /\ s[n] = W2 /\ Has(jobs, j, file'[e], jobs[j].size)
Gets(e, j, s, n) ==
    /\ stream' = [stream EXCEPT ![e] = SubSeq(s, n + 1, Len(s))]
    /\ UNCHANGED <<jobs, left2send, serving>>
    /\ piece' \in [Sides -> Seq(Tokens)] /\ file' \in [Sides -> Seq(Tokens)]
    /\ \A o \in Sides \ {e} : piece'[o] = piece[o] /\ file'[o] = file[o]
    /\ \A i \in 1..n : s[i][1] \notin Whats
    /\ More(e, j, s, n) \/ All(e, j, s, n)

LEMMA FileReceived ==
  ASSUME jobs \in Jobs, FileTypes, NEW e \in Sides, NEW j \in 1..Len(jobs),
         j = IF e = Clt THEN job ELSE serving, ReceivePiece(e), ~cutWord', ~joined', ~abandoned',
         NEW s \in Seq(Tokens), s = stream[e], NEW offer, Linked(jobs, s, offer),
         Receives(jobs, j, file[e], piece[e], s, offer)
  PROVE  \E n \in 1..Len(s) : Gets(e, j, s, n)
<1>1. PICK n, took, buf, k : Receipt(e, j, s, n, took, buf, k)
  BY ReceiptOf
<1>2. PICK js, p, f : js = jobs /\ p = piece[e] /\ f = file[e]
  OBVIOUS
<1>3. /\ n \in 1..Len(s) /\ took = Taken(s, n) /\ buf = Buffer(s, p, n) /\ s[n] # W1
      /\ k = FirstOf(Places(buf))
  BY <1>1, <1>2 DEF Receipt
<1>4. p \in Seq(Tokens) /\ f \in Seq(Tokens) /\ js[j].size \in Nat /\ Linked(js, s, offer)
  BY <1>2, JobsAre DEF FileTypes
<1>5. PICK m \in 0..js[j].size : Received(js, j, f, p, m) /\ Heads(s, offer) \subseteq {Expect(js, j, m)}
  BY <1>2 DEF Receives
<1>6. /\ stream' = [stream EXCEPT ![e] = SubSeq(s, n + 1, Len(s))]
      /\ piece' = [piece EXCEPT ![e] = buf] /\ piece'[e] = buf
      /\ UNCHANGED <<jobs, left2send, serving>>
  BY <1>1 DEF Receipt, FileTypes
<1>71. PICK g : g = IF js[j].what = "list" THEN IF Places(buf) = {} THEN buf ELSE <<>>
                    ELSE IF k = 0 THEN took ELSE SubSeq(buf, 1, k - 1)
  OBVIOUS
<1>72. file' = [file EXCEPT ![e] = @ \o g]
  BY <1>1, <1>2, <1>71 DEF Receipt
<1>73. file' = [file EXCEPT ![e] = f \o g] /\ file'[e] = f \o g
  BY <1>2, <1>72 DEF FileTypes
<1>7. /\ g = IF js[j].what = "list" THEN IF Places(buf) = {} THEN buf ELSE <<>>
             ELSE IF k = 0 THEN took ELSE SubSeq(buf, 1, k - 1)
      /\ file' = [file EXCEPT ![e] = f \o g] /\ file'[e] = f \o g
  BY <1>71, <1>73
<1>8. ASSUME buf \in Seq(Tokens), f \o g \in Seq(Tokens)
      PROVE  /\ piece' \in [Sides -> Seq(Tokens)] /\ file' \in [Sides -> Seq(Tokens)]
             /\ \A o \in Sides \ {e} : piece'[o] = piece[o] /\ file'[o] = file[o]
  BY <1>6, <1>7, <1>8 DEF FileTypes
<1>9. CASE m + n <= js[j].size /\ \A i \in 1..n : s[i] = Data(j, m + i)
  <2>0. Runs(j, s, m, n)
    BY <1>9 DEF Runs
  <2>1. PICK r : r = f \o (IF js[j].what = "list" THEN buf ELSE took)
    OBVIOUS
  <2>2. /\ Places(buf) = {} /\ NoExist \notin ToSet(buf)
        /\ buf \in Seq(Tokens) /\ r \in Seq(Tokens) /\ Received(js, j, r, buf, m + n)
    <3>1. PiecesAreTaken(js, j, m + n, r, buf)
      BY <1>3, <1>4, <1>5, <1>9, <2>0, <2>1, PiecesTaken
    <3> QED  BY <3>1 DEF PiecesAreTaken
  <2>3. r = f \o g
    <3>1. k = 0
      BY <1>3, <2>2 DEF FirstOf
    <3> QED  BY <1>7, <2>1, <2>2, <3>1
  <2>4. doing' = [doing EXCEPT ![e] = "receive"] /\ UNCHANGED <<saved, job>> /\ ~Fails(e, j)
    BY <1>1, <2>2 DEF Receipt
  <2>5. s[n] = Data(j, m + n) /\ m + n \in 0..js[j].size
    <3>1. n \in 1..n /\ m + n \in 0..js[j].size
      BY <1>3, <1>4, <1>5, <1>9
    <3> QED  BY <1>9, <3>1
  <2>6. More(e, j, s, n)
    <3>1. Received(jobs, j, file'[e], piece'[e], m + n)
      BY <1>2, <1>6, <1>7, <2>2, <2>3
    <3> QED  BY <1>2, <2>4, <2>5, <3>1 DEF More
  <2>7. \A i \in 1..n : s[i][1] \notin Whats
    BY <1>9, TokensDiffer
  <2>8. /\ piece' \in [Sides -> Seq(Tokens)] /\ file' \in [Sides -> Seq(Tokens)]
        /\ \A o \in Sides \ {e} : piece'[o] = piece[o] /\ file'[o] = file[o]
    BY <1>8, <2>2, <2>3
  <2> QED  BY <1>3, <1>6, <2>6, <2>7, <2>8 DEF Gets
<1>10. ASSUME NEW h \in 1..n - 1, h = js[j].size - m + 1, s[h] = W1, s[h + 1] = W2,
              \A i \in 1..h - 1 : s[i] = Data(j, m + i)
       PROVE  Gets(e, j, s, n)
  <2>0. Runs(j, s, m, h - 1)
    BY <1>10 DEF Runs
  <2>1. /\ h \in Places(buf) /\ \A i \in Places(buf) : h <= i
        /\ n = h + 1 => NoExist \notin ToSet(buf)
        /\ buf \in Seq(Tokens)
        /\ SubSeq(buf, 1, h - 1) \in Seq(Tokens)
        /\ js[j].what # "list" => Has(js, j, f \o SubSeq(buf, 1, h - 1), js[j].size)
        /\ js[j].what = "list" /\ h = 1 => Has(js, j, f, js[j].size)
    <3>1. WordIsTaken(js, j, f, n, h, buf)
      BY <1>3, <1>4, <1>5, <1>10, <2>0, WordTaken
    <3> QED  BY <3>1 DEF WordIsTaken
  <2>2. k = h
    <3>1. k \in Places(buf) /\ \A i \in Places(buf) : k <= i
      <4>1. Places(buf) # {} /\ Places(buf) \subseteq Nat
        <5>1. Places(buf) # {}
          BY <2>1
        <5>2. Places(buf) \subseteq Nat
          BY DEF Places
        <5> QED  BY <5>1, <5>2
      <4> QED  BY <1>3, <4>1, FirstIsFirst
    <3>2. k <= h /\ h <= k /\ k \in Nat /\ h \in Nat
      <4>1. k \in Nat
        BY <3>1 DEF Places
      <4>2. h \in Nat
        BY <1>10
      <4> QED  BY <2>1, <3>1, <4>1, <4>2
    <3> QED  BY <3>2
  <2>3. n = h + 1 /\ (js[j].what = "list" => h = 1) /\ h # 0 /\ n \in Nat /\ h \in Nat
    <3>1. ~(n > h + 1) /\ ~(js[j].what = "list" /\ h > 1)
      BY <1>1, <1>2, <2>1, <2>2 DEF Receipt
    <3>2. n \in Nat /\ h \in 1..n - 1
      BY <1>3, <1>10
    <3> QED  BY <3>1, <3>2
  <2>4. Has(js, j, f \o g, js[j].size) /\ f \o g \in Seq(Tokens)
    <3>1. CASE js[j].what = "list"
      <4>1. g = <<>> /\ f \o g = f
        BY <1>4, <1>7, <2>1, <3>1, ConcatEmptySeq
      <4> QED  BY <1>4, <2>1, <2>3, <3>1, <4>1
    <3>2. CASE js[j].what # "list"
      <4>1. g = SubSeq(buf, 1, h - 1)
        BY <1>7, <2>2, <2>3, <3>2
      <4>2. f \o g \in Seq(Tokens)
        BY <1>4, <2>1, <4>1, ConcatProperties
      <4> QED  BY <2>1, <3>2, <4>1, <4>2
    <3> QED  BY <3>1, <3>2
  <2>5. /\ doing' = [doing EXCEPT ![e] = "command"]
        /\ saved' = IF Fails(e, j) THEN saved ELSE [saved EXCEPT ![j] = file'[e]]
        /\ job' = IF e = Clt THEN job + 1 ELSE job
    BY <1>1, <2>1, <2>3 DEF Receipt
  <2>6. All(e, j, s, n)
    BY <1>2, <1>7, <1>10, <2>3, <2>4, <2>5 DEF All
  <2>7. ASSUME NEW i \in 1..n PROVE s[i][1] \notin Whats
    <3>1. i \in 1..h - 1 \/ i = h \/ i = h + 1
      BY <2>3
    <3> QED  BY <1>10, <3>1, TokensDiffer
  <2>8. /\ piece' \in [Sides -> Seq(Tokens)] /\ file' \in [Sides -> Seq(Tokens)]
        /\ \A o \in Sides \ {e} : piece'[o] = piece[o] /\ file'[o] = file[o]
    BY <1>8, <2>1, <2>4
  <2> QED  BY <1>3, <1>6, <2>6, <2>7, <2>8 DEF Gets
<1>11. \/ m + n <= js[j].size /\ \A i \in 1..n : s[i] = Data(j, m + i)
       \/ \E h \in 1..n - 1 : /\ h = js[j].size - m + 1 /\ s[h] = W1 /\ s[h + 1] = W2
                              /\ \A i \in 1..h - 1 : s[i] = Data(j, m + i)
  <2>1. WhatCame(js, j, s, m, n)
    BY <1>3, <1>4, <1>5, WhatIsTaken
  <2> QED  BY <2>1 DEF WhatCame
<1> QED  BY <1>3, <1>9, <1>10, <1>11

LEMMA AFileIsThere == ASSUME NEW js, NEW j, NEW f, NEW m, Has(js, j, f, m) PROVE f # nofile
<1> SUFFICES ASSUME f = <<NoExist>> PROVE FALSE
  BY DEF nofile
<1>1. ToSet(f) = {NoExist} /\ Len(f) = 1 /\ f[1] = NoExist
  BY DEF ToSet
<1>2. CASE js[j].what = "list"
  BY <1>1, <1>2, TokensDiffer DEF Has
<1>3. CASE js[j].what # "list"
  <2>1. m = 1 /\ 1 \in 1..1
    BY <1>1, <1>3 DEF Has
  <2>2. f[1] = Data(j, 1)
    BY <1>3, <2>1 DEF Has
  <2> QED  BY <1>1, <2>2, TokensDiffer
<1> QED  BY <1>2, <1>3

LEMMA RestIsStream ==
  ASSUME NEW s \in Seq(Tokens), NEW n \in 1..Len(s)
  PROVE  SubSeq(s, n + 1, Len(s)) \in Seq(Tokens)
<1>1. PICK a \in Nat \ {0}, b \in 0..Len(s) : a = n + 1 /\ b = Len(s)
  <2>1. n + 1 \in Nat \ {0} /\ Len(s) \in 0..Len(s)
    OBVIOUS
  <2> QED  BY <2>1
<1> QED  BY <1>1, CutOf

LEMMA GetsTypes ==
  ASSUME jobs \in Jobs, FileTypes, NEW e \in Sides, NEW j \in 1..Len(jobs),
         e = Clt => job \in 1..Len(jobs), NEW s \in Seq(Tokens), NEW n \in 1..Len(s), Gets(e, j, s, n)
  PROVE  FileTypes'
<1>1. SubSeq(s, n + 1, Len(s)) \in Seq(Tokens) /\ Len(jobs) \in Nat
  BY RestIsStream, JobsAre
<1>2. stream' \in [Sides -> Seq(Tokens)] /\ UNCHANGED <<jobs, left2send, serving>>
      /\ piece' \in [Sides -> Seq(Tokens)] /\ file' \in [Sides -> Seq(Tokens)]
  BY <1>1 DEF Gets, FileTypes
<1>3. \E what \in {"receive", "command"} : doing' = [doing EXCEPT ![e] = what]
  BY DEF Gets, More, All
<1>4. doing' \in [Sides -> {"command", "answer", "receive", "send"}] /\ doing'[Srv] # "answer"
  BY <1>3 DEF FileTypes, Sides
<1>5. job' \in 1..Len(jobs) + 1
  <2>1. job' = job \/ (e = Clt /\ job' = job + 1)
    BY DEF Gets, More, All
  <2> QED  BY <1>1, <2>1 DEF FileTypes
<1>6. saved' \in [1..Len(jobs) -> Seq(Tokens)]
  <2>1. saved' = saved \/ saved' = [saved EXCEPT ![j] = file'[e]]
    BY DEF Gets, More, All
  <2> QED  BY <1>2, <2>1 DEF FileTypes
<1> QED  BY <1>2, <1>4, <1>5, <1>6 DEF FileTypes

LEMMA ServerReceives ==
  ASSUME jobs \in Jobs, Whole, ReceivePiece(Srv), ~cutWord', ~joined', ~abandoned'
  PROVE  Whole'
<1>0. FileTypes /\ Srv \in Sides /\ Clt \in Sides \ {Srv} /\ Srv # Clt
  BY DEF Whole, Sides, Srv, Clt
<1>1. doing[Srv] = "receive"
  BY <1>0 DEF ReceivePiece, ReceiveBytes, FileTypes
<1>2. PICK j, s, offer : j = serving /\ s = stream[Srv] /\ offer = ToServer
  OBVIOUS
<1>3. /\ j \in 1..Len(jobs) /\ jobs[j].what = "put" /\ jobs[j].file = "there"
      /\ Receives(jobs, j, file[Srv], piece[Srv], s, offer)
  BY <1>1, <1>2 DEF Whole, ServerAt
<1>4. s \in Seq(Tokens) /\ Linked(jobs, s, offer)
  BY <1>0, <1>2 DEF Whole, FileTypes, Streams
<1>5. PICK n \in 1..Len(s) : Gets(Srv, j, s, n)
  BY <1>0, <1>2, <1>3, <1>4, FileReceived
<1>6. FileTypes'
  BY <1>0, <1>3, <1>4, <1>5, GetsTypes
<1>7. /\ stream'[Srv] = SubSeq(s, n + 1, Len(s)) /\ stream'[Clt] = stream[Clt]
      /\ UNCHANGED <<jobs, job, left2send, serving>>
      /\ file'[Clt] = file[Clt] /\ piece'[Clt] = piece[Clt]
      /\ \A i \in 1..n : s[i][1] \notin Whats
  BY <1>0, <1>5 DEF Gets, More, All, FileTypes
<1>8. doing'[Clt] = doing[Clt] /\ doing'[Srv] \in {"receive", "command"}
  BY <1>0, <1>5 DEF Gets, More, All, FileTypes
<1>9. ServerTakes(s, n)
  BY <1>2, <1>4, <1>7, <1>8, ServerTook
<1>10. \A i \in 1..Len(s) : s[i][1] \in Whats => \E h \in 1..Len(stream'[Srv]) : stream'[Srv][h] = s[i]
  BY <1>7, <1>9 DEF ServerTakes
<1>11. Streams'
  <2>1. ToClient = {} /\ ToClient' = {}
    BY <1>1, <1>8 DEF ToClient
  <2>2. Linked(jobs, stream[Clt], ToClient)'
    BY <1>7, <2>1 DEF Whole, Streams, Linked, May, Expect, Data
  <2> QED  BY <1>7, <1>9, <2>2 DEF ServerTakes, Streams
<1>12. ClientAt'
  <2>1. CASE Expects
    <3>1. s # <<>>
      BY <1>4, EmptyIsShort
    <3>2. CommandSent /\ job <= Len(jobs) /\ jobs[job].what \in {"list", "get"}
          /\ (jobs[job].what = "list" => doing[Clt] = "receive")
      BY <1>2, <2>1, <3>1 DEF Whole, ClientAt, BeingAnswered, NoSuchFile, NotAnswered
    <3>3. s[Len(s)] = Command(jobs[job].what, job) /\ s[Len(s)][1] \in Whats
      BY <1>2, <3>2 DEF CommandSent, Command, Whats
    <3>4. n # Len(s)
      <4>1. n \in 1..n
        BY <1>5
      <4> QED  BY <1>7, <3>3, <4>1
    <3>5. stream'[Srv] # <<>> /\ stream'[Srv][Len(stream'[Srv])] = Command(jobs[job].what, job)
      BY <1>9, <3>3, <3>4 DEF ServerTakes
    <3>6. Received(jobs, job, file[Clt], piece[Clt], 0)'
      BY <1>7, <3>2 DEF CommandSent, Received, Has, Data
    <3>7. CommandSent'
      BY <1>7, <1>8, <3>2, <3>5, <3>6 DEF CommandSent, Command
    <3> QED  BY <1>7, <1>8, <2>1, <3>2, <3>7 DEF ClientAt, Expects
  <2>2. CASE ~Expects
    BY <1>7, <1>8, <2>2 DEF Whole, ClientAt, Expects
  <2> QED  BY <2>1, <2>2
<1>13. CASE More(Srv, j, s, n)
  <2>1. doing'[Srv] = "receive" /\ UNCHANGED <<saved, doing>>
    BY <1>0, <1>1, <1>13 DEF More, FileTypes
  <2>2. PICK m \in 0..jobs[j].size : s[n] = Data(j, m) /\ Received(jobs, j, file'[Srv], piece'[Srv], m)
    BY <1>13 DEF More
  <2>3. ServerAt'
    <3>1. \A y : May(jobs, Data(j, m), y) => y = Expect(jobs, j, m)
      BY DEF May, Data, W1, W2
    <3>2. \A y \in Heads(stream'[Srv], ToServer') : y = Expect(jobs, j, m)
      BY <1>9, <2>2, <3>1 DEF ServerTakes
    <3>3. (Heads(stream[Srv], ToServer) \subseteq {Expect(jobs, serving, m)})'
      BY <1>2, <1>7, <3>2 DEF Heads, Expect, Data
    <3>4. Received(jobs, serving, file[Srv], piece[Srv], m)'
      BY <1>2, <1>7, <2>2 DEF Received, Has, Data
    <3>5. Receives(jobs, serving, file[Srv], piece[Srv], stream[Srv], ToServer)'
      BY <1>2, <1>7, <2>2, <3>3, <3>4 DEF Receives
    <3> QED  BY <1>2, <1>3, <1>7, <3>5 DEF ServerAt
  <2>4. SavedRight'
    BY <1>7, <2>1 DEF Whole, SavedRight, Has, Data, nofile, NoExist
  <2>5. NothingForgotten'
    <3>1. ASSUME NEW k, Under(k) PROVE Under(k)'
      <4>1. (\E i \in 1..Len(s) : s[i] = Command("put", k)) =>
              \E h \in 1..Len(stream'[Srv]) : stream'[Srv][h] = Command("put", k)
        BY <1>10 DEF Command, Whats
      <4> QED  BY <1>2, <1>7, <2>1, <3>1, <4>1 DEF Under, Command, nofile, NoExist
    <3> QED  BY <1>7, <2>1, <3>1 DEF Whole, NothingForgotten
  <2> QED  BY <1>6, <1>11, <1>12, <2>3, <2>4, <2>5 DEF Whole
<1>14. CASE All(Srv, j, s, n)
  <2>1. doing'[Srv] = "command" /\ saved' = [saved EXCEPT ![j] = file'[Srv]]
        /\ Has(jobs, j, file'[Srv], jobs[j].size)
    BY <1>0, <1>1, <1>14 DEF All, Fails, FileTypes
  <2>2. /\ saved'[j] = file'[Srv] /\ saved'[j] # nofile
        /\ \A k \in 1..Len(jobs) : k # j => saved'[k] = saved[k]
    <3>1. saved'[j] = file'[Srv] /\ \A k \in 1..Len(jobs) : k # j => saved'[k] = saved[k]
      BY <1>0, <1>3, <2>1 DEF FileTypes
    <3> QED  BY <2>1, <3>1, AFileIsThere
  <2>3. ServerAt'
    BY <2>1 DEF ServerAt
  <2>4. SavedRight'
    <3> SUFFICES ASSUME NEW k \in 1..Len(jobs), saved'[k] # nofile
                 PROVE  jobs[k].file = "there" /\ Has(jobs, k, saved'[k], jobs[k].size)
      BY <1>7 DEF SavedRight, nofile, NoExist, Has, Data
    <3>1. CASE k = j
      BY <1>3, <2>1, <2>2, <3>1
    <3>2. CASE k # j
      BY <2>2, <3>2 DEF Whole, SavedRight
    <3> QED  BY <3>1, <3>2
  <2>5. NothingForgotten'
    <3> SUFFICES ASSUME \A k \in 1..Len(jobs) : jobs[k].file # "denied", NEW k \in 1..Len(jobs),
                        k < job \/ (k = job /\ doing[Clt] = "send"), jobs[k].file = "there"
                 PROVE  Under(k)'
      BY <1>7, <1>8 DEF NothingForgotten
    <3>1. Under(k)
      BY DEF Whole, NothingForgotten
    <3>2. CASE k = j
      BY <2>2, <3>2 DEF Under, nofile, NoExist
    <3>3. CASE k # j
      <4>1. saved[k] # nofile \/ \E i \in 1..Len(s) : s[i] = Command("put", k)
        BY <1>2, <3>1, <3>3 DEF Under
      <4>2. (\E i \in 1..Len(s) : s[i] = Command("put", k)) =>
              \E h \in 1..Len(stream'[Srv]) : stream'[Srv][h] = Command("put", k)
        BY <1>10 DEF Command, Whats
      <4> QED  BY <2>2, <3>3, <4>1, <4>2 DEF Under, Command, nofile, NoExist
    <3> QED  BY <3>2, <3>3
  <2> QED  BY <1>6, <1>11, <1>12, <2>3, <2>4, <2>5 DEF Whole
<1> QED  BY <1>5, <1>13, <1>14 DEF Gets

\* The client receives what answers it.
LEMMA AnswerReceived ==
  ASSUME jobs \in Jobs, Whole, job \in 1..Len(jobs), BeingAnswered, ReceivePiece(Clt), ~cutWord', ~joined', ~abandoned'
  PROVE  Whole'
<1>0. FileTypes /\ Clt \in Sides /\ Srv \in Sides \ {Clt} /\ Srv # Clt /\ Len(jobs) \in Nat
  BY JobsAre DEF Whole, Sides, Srv, Clt
<1>1. doing[Clt] \in {"answer", "receive"} /\ Expects
  BY DEF ReceivePiece, ReceiveBytes, Expects
<1>2. PICK j, s, offer : j = job /\ s = stream[Clt] /\ offer = ToClient
  OBVIOUS
<1>3. /\ j \in 1..Len(jobs) /\ jobs[j].what \in {"list", "get"} /\ jobs[j].file \in CanOpen
      /\ (jobs[j].file = "unwritable" => Fails(Clt, j))
      /\ Receives(jobs, j, file[Clt], piece[Clt], s, offer) /\ stream[Srv] = <<>>
      /\ \/ doing[Srv] = "send" /\ serving = job /\ left2send[Srv] <= jobs[job].size
         \/ doing[Srv] = "command" /\ s # <<>> /\ s[Len(s)] = W2
      /\ \A i \in 1..Len(s) : s[i][1] \notin Whats
  BY <1>1, <1>2 DEF Whole, ClientAt, BeingAnswered, Fails
<1>4. s \in Seq(Tokens) /\ Linked(jobs, s, offer)
  BY <1>0, <1>2 DEF Whole, FileTypes, Streams
<1>5. PICK n \in 1..Len(s) : Gets(Clt, j, s, n)
  BY <1>0, <1>2, <1>3, <1>4, FileReceived
<1>6. FileTypes'
  BY <1>0, <1>2, <1>3, <1>4, <1>5, GetsTypes
<1>7. /\ stream'[Clt] = SubSeq(s, n + 1, Len(s)) /\ stream'[Srv] = <<>>
      /\ UNCHANGED <<jobs, left2send, serving>>
  BY <1>0, <1>3, <1>5 DEF Gets, FileTypes
<1>8. doing'[Srv] = doing[Srv] /\ doing[Srv] \in {"send", "command"}
      /\ doing'[Clt] \in {"receive", "command"}
  BY <1>0, <1>3, <1>5 DEF Gets, More, All, FileTypes
<1>9. PICK r : r = stream'[Clt]
  OBVIOUS
<1>10. Popped(jobs, s, n, offer, r)
  BY <1>4, <1>7, <1>9, LinkPop
<1>11. ToClient' = {Expect(jobs, serving, jobs[serving].size - left2send[Srv])} \/ ToClient' = {}
  BY <1>7 DEF ToClient, Expect, Data, W1
<1>12. ToClient' = offer
  BY <1>2, <1>7, <1>8 DEF ToClient, Expect, Data, W1
<1>13. Linked(jobs, stream[Clt], ToClient)'
  BY <1>7, <1>9, <1>10, <1>12 DEF Popped, Linked, May, Expect, Data
<1>14. Streams'
  <2>1. Linked(jobs, stream[Srv], ToServer)'
    BY <1>7, NoPairs DEF Linked
  <2>2. 1..Len(stream'[Srv]) = {}
    BY <1>7
  <2> QED  BY <1>13, <2>1, <2>2 DEF Streams, CommandsAreJobs
<1>15. ServerAt'
  BY <1>8 DEF ServerAt
<1>16. \A i \in 1..Len(r) : r[i][1] \notin Whats
  BY <1>3, <1>10 DEF Popped
<1>17. CASE More(Clt, j, s, n)
  <2>1. doing'[Clt] = "receive" /\ UNCHANGED <<saved, job>> /\ jobs[j].file # "unwritable"
    BY <1>0, <1>3, <1>17 DEF More, FileTypes
  <2>2. PICK m \in 0..jobs[j].size : s[n] = Data(j, m) /\ Received(jobs, j, file'[Clt], piece'[Clt], m)
    BY <1>17 DEF More
  <2>3. Receives(jobs, job, file[Clt], piece[Clt], stream[Clt], ToClient)'
    <3>1. \A y : May(jobs, Data(j, m), y) => y = Expect(jobs, j, m)
      BY DEF May, Data, W1, W2
    <3>2. \A y \in Heads(r, offer) : y = Expect(jobs, j, m)
      BY <1>10, <2>2, <3>1 DEF Popped
    <3>3. (Heads(stream[Clt], ToClient) \subseteq {Expect(jobs, job, m)})'
      BY <1>2, <1>7, <1>9, <1>12, <2>1, <3>2 DEF Heads, Expect, Data
    <3>4. Received(jobs, job, file[Clt], piece[Clt], m)'
      BY <1>2, <1>7, <2>1, <2>2 DEF Received, Has, Data
    <3> QED  BY <1>2, <1>7, <2>1, <2>2, <3>3, <3>4 DEF Receives
  <2>4. ASSUME s # <<>>, s[Len(s)] = W2 PROVE r # <<>> /\ r[Len(r)] = W2
    <3>1. n # Len(s)
      BY <2>2, <2>4, TokensDiffer
    <3>2. r # <<>> /\ Len(r) = Len(s) - n /\ Len(s) \in Nat /\ n \in 1..Len(s)
      BY <1>4, <1>10, <3>1 DEF Popped
    <3>3. Len(r) \in 1..Len(r) /\ n + Len(r) = Len(s)
      BY <3>1, <3>2
    <3>4. r[Len(r)] = s[n + Len(r)]
      BY <1>10, <3>3 DEF Popped
    <3> QED  BY <2>4, <3>2, <3>3, <3>4
  <2>5. BeingAnswered'
    <3>1. \/ doing'[Srv] = "send" /\ serving = job /\ left2send[Srv] <= jobs[job].size
          \/ doing'[Srv] = "command" /\ r # <<>> /\ r[Len(r)] = W2
      BY <1>3, <1>8, <2>4
    <3> QED  BY <1>2, <1>3, <1>7, <1>9, <1>16, <2>1, <2>3, <3>1 DEF BeingAnswered, W2, Whats
  <2>6. ClientAt'
    <3>1. job <= Len(jobs)
      BY <1>0
    <3> QED  BY <1>2, <1>3, <1>7, <2>1, <2>5, <3>1 DEF ClientAt, Expects
  <2>7. SavedRight'
    BY <1>7, <2>1 DEF Whole, SavedRight, Has, Data, nofile, NoExist
  <2>8. NothingForgotten'
    <3>1. \A k : Under(k) => Under(k)'
      BY <1>3, <1>7, <1>8, <2>1 DEF Under, Command, nofile, NoExist
    <3> QED  BY <1>7, <2>1, <3>1 DEF Whole, NothingForgotten
  <2> QED  BY <1>6, <1>14, <1>15, <2>6, <2>7, <2>8 DEF Whole
<1>18. CASE All(Clt, j, s, n)
  <2>1. /\ doing'[Clt] = "command" /\ job' = job + 1
        /\ saved' = IF Fails(Clt, j) THEN saved ELSE [saved EXCEPT ![j] = file'[Clt]]
        /\ Has(jobs, j, file'[Clt], jobs[j].size) /\ s[n] = W2
    BY <1>0, <1>18 DEF All, FileTypes
  <2>2. /\ \A k \in 1..Len(jobs) : k # j => saved'[k] = saved[k]
        /\ \/ jobs[j].file = "there" /\ saved'[j] = file'[Clt] /\ saved'[j] # nofile
           \/ jobs[j].file = "unwritable" /\ saved'[j] = saved[j]
    <3>1. CASE Fails(Clt, j)
      BY <2>1, <3>1 DEF Fails
    <3>2. CASE ~Fails(Clt, j)
      <4>1. saved'[j] = file'[Clt] /\ \A k \in 1..Len(jobs) : k # j => saved'[k] = saved[k]
        BY <1>0, <1>3, <2>1, <3>2 DEF FileTypes
      <4> QED  BY <1>3, <2>1, <3>2, <4>1, AFileIsThere DEF CanOpen
    <3> QED  BY <3>1, <3>2
  <2>3. \A y \in Heads(r, offer) : y[1] \in Whats
    <3>1. \A y : May(jobs, W2, y) => y[1] \in Whats
      BY TokensDiffer DEF May, W1, W2
    <3> QED  BY <1>10, <2>1, <3>1 DEF Popped
  <2>4. r = <<>>
    <3> SUFFICES ASSUME r # <<>> PROVE FALSE
      OBVIOUS
    <3>1. r[1][1] \in Whats
      BY <2>3 DEF Heads
    <3>2. 1 \in 1..Len(r)
      BY <1>10, EmptyIsShort DEF Popped
    <3> QED  BY <1>16, <3>1, <3>2
  <2>5. doing[Srv] = "command"
    <3> SUFFICES ASSUME doing[Srv] = "send" PROVE FALSE
      BY <1>8
    <3>1. PICK y : offer = {y} /\ (y = W1 \/ \E h, i : y = Data(h, i))
      BY <1>2 DEF ToClient, Expect
    <3>2. y[1] \in Whats
      BY <2>3, <2>4, <3>1 DEF Heads
    <3> QED  BY <3>1, <3>2, TokensDiffer
  <2>6. ClientAt'
    BY <1>8, <1>9, <2>1, <2>4, <2>5 DEF ClientAt, Expects
  <2>7. SavedRight'
    <3> SUFFICES ASSUME NEW k \in 1..Len(jobs), saved'[k] # nofile
                 PROVE  jobs[k].file = "there" /\ Has(jobs, k, saved'[k], jobs[k].size)
      BY <1>7 DEF SavedRight, nofile, NoExist, Has, Data
    <3>1. CASE k = j /\ jobs[j].file = "there"
      BY <2>1, <2>2, <3>1
    <3>2. CASE k # j \/ jobs[j].file = "unwritable"
      <4>1. saved'[k] = saved[k]
        BY <2>2, <3>2
      <4> QED  BY <4>1 DEF Whole, SavedRight
    <3> QED  BY <2>2, <3>1, <3>2
  <2>8. NothingForgotten'
    <3> SUFFICES ASSUME \A k \in 1..Len(jobs) : jobs[k].file # "denied", NEW k \in 1..Len(jobs),
                        k < job + 1, jobs[k].file = "there"
                 PROVE  Under(k)'
      BY <1>7, <2>1 DEF NothingForgotten
    <3>1. CASE k = j
      BY <2>2, <3>1 DEF Under, nofile, NoExist
    <3>2. CASE k # j
      <4>1. k < job
        BY <1>0, <1>2, <3>2
      <4>2. Under(k)
        BY <4>1 DEF Whole, NothingForgotten
      <4>3. saved[k] # nofile
        BY <1>3, <2>5, <4>2 DEF Under
      <4> QED  BY <2>2, <3>2, <4>3 DEF Under, nofile, NoExist
    <3> QED  BY <3>1, <3>2
  <2> QED  BY <1>6, <1>14, <1>15, <2>6, <2>7, <2>8 DEF Whole
<1> QED  BY <1>5, <1>17, <1>18 DEF Gets

\* A client that is told that there is no such file goes on.
LEMMA RefusalReceived ==
  ASSUME jobs \in Jobs, Whole, job \in 1..Len(jobs), NoSuchFile, ReceivePiece(Clt), ~cutWord', ~joined', ~abandoned'
  PROVE  Whole'
<1>0. FileTypes /\ Clt \in Sides /\ Srv \in Sides \ {Clt} /\ Srv # Clt /\ Len(jobs) \in Nat
  BY JobsAre DEF Whole, Sides, Srv, Clt
<1>1. PICK j, s : j = job /\ s = stream[Clt]
  OBVIOUS
<1>2. PICK p : p = piece[Clt]
  OBVIOUS
<1>3. /\ stream[Srv] = <<>> /\ doing[Srv] = "command" /\ s = <<NoExist>>
      /\ doing[Clt] = "answer" /\ jobs[job].file = "missing"
      /\ p \in Seq(Tokens) /\ s \in Seq(Tokens) /\ Len(s) = 1 /\ s[1] = NoExist
  BY <1>0, <1>1, <1>2, TokenTypes DEF NoSuchFile, FileTypes
<1>4. Len(p) <= 1
  BY <1>2 DEF NoSuchFile, Received
<1>5. PICK n, took, buf, k : Receipt(Clt, j, s, n, took, buf, k)
  BY <1>0, <1>1, <1>3, ReceiptOf
<1>6. n = 1 /\ n \in 1..Len(s) /\ took = Taken(s, n) /\ buf = Buffer(s, p, n) /\ k = FirstOf(Places(buf))
  BY <1>2, <1>3, <1>5 DEF Receipt
<1>7. took \in Seq(Tokens) /\ buf \in Seq(Tokens) /\ Len(buf) = 1 /\ buf[1] = NoExist
  <2>1. IsBuffer(s, p, n, took, buf)
    BY <1>3, <1>6, BufferOf
  <2> QED  BY <1>3, <1>4, <1>6, <2>1 DEF IsBuffer
<1>8. Places(buf) = {} /\ NoExist \in ToSet(buf)
  <2>1. 1..Len(buf) - 1 = {} /\ 1 \in 1..Len(buf)
    BY <1>7
  <2>2. ToSet(buf) = {buf[i] : i \in 1..Len(buf)}
    BY <1>7, ElementsOf
  <2> QED  BY <1>7, <2>1, <2>2 DEF Places
<1>9. /\ stream' = [stream EXCEPT ![Clt] = SubSeq(s, n + 1, Len(s))]
      /\ piece' = [piece EXCEPT ![Clt] = buf]
      /\ UNCHANGED <<jobs, left2send, serving, saved>>
      /\ doing' = [doing EXCEPT ![Clt] = "command"] /\ job' = job + 1
  BY <1>3, <1>5, <1>8 DEF Receipt
<1>10. PICK g : file' = [file EXCEPT ![Clt] = @ \o g] /\ (g = buf \/ g = took)
  <2>1. k = 0
    BY <1>6, <1>8 DEF FirstOf
  <2>2. file' = [file EXCEPT ![Clt] = @ \o (IF jobs[j].what = "list" THEN buf ELSE took)]
    BY <1>5, <1>8, <2>1 DEF Receipt
  <2>3. PICK h : h = IF jobs[j].what = "list" THEN buf ELSE took
    OBVIOUS
  <2>4. file' = [file EXCEPT ![Clt] = @ \o h] /\ (h = buf \/ h = took)
    BY <2>2, <2>3
  <2> QED  BY <2>4
<1>11. stream'[Clt] = <<>> /\ stream'[Srv] = <<>> /\ SubSeq(s, n + 1, Len(s)) = <<>>
       /\ doing'[Clt] = "command" /\ doing'[Srv] = "command"
  <2>1. SubSeq(s, n + 1, Len(s)) = <<>>
    BY <1>3, <1>6
  <2> QED  BY <1>0, <1>3, <1>9, <2>1 DEF FileTypes
<1>12. FileTypes'
  <2>1. stream' \in [Sides -> Seq(Tokens)] /\ piece' \in [Sides -> Seq(Tokens)]
    <3>1. <<>> \in Seq(Tokens)
      OBVIOUS
    <3> QED  BY <1>0, <1>7, <1>9, <1>11, <3>1 DEF FileTypes
  <2>2. file' \in [Sides -> Seq(Tokens)]
    <3>1. PICK f \in Seq(Tokens) : f = file[Clt]
      BY <1>0 DEF FileTypes
    <3>2. f \o g \in Seq(Tokens)
      BY <1>7, <1>10, <3>1, ConcatProperties
    <3>3. file' = [file EXCEPT ![Clt] = f \o g]
      BY <1>10, <3>1
    <3> QED  BY <1>0, <3>2, <3>3 DEF FileTypes
  <2>3. doing' \in [Sides -> {"command", "answer", "receive", "send"}] /\ doing'[Srv] # "answer"
    BY <1>0, <1>9, <1>11 DEF FileTypes
  <2>4. job' \in 1..Len(jobs) + 1
    BY <1>0, <1>9
  <2> QED  BY <1>0, <1>9, <2>1, <2>2, <2>3, <2>4 DEF FileTypes
<1>13. Streams'
  <2>1. Linked(jobs, stream[Srv], ToServer)' /\ Linked(jobs, stream[Clt], ToClient)'
    BY <1>11, NoPairs DEF Linked
  <2>2. 1..Len(stream'[Srv]) = {}
    BY <1>11
  <2> QED  BY <2>1, <2>2 DEF Streams, CommandsAreJobs
<1>14. ClientAt' /\ ServerAt'
  BY <1>11 DEF ClientAt, ServerAt, Expects
<1>15. SavedRight'
  BY <1>9 DEF Whole, SavedRight, Has, Data, nofile, NoExist
<1>16. NothingForgotten'
  <2> SUFFICES ASSUME \A i \in 1..Len(jobs) : jobs[i].file # "denied", NEW i \in 1..Len(jobs),
                      i < job + 1, jobs[i].file = "there"
               PROVE  Under(i)'
    BY <1>9, <1>11 DEF NothingForgotten
  <2>1. i < job
    BY <1>0, <1>3
  <2>2. Under(i)
    BY <2>1 DEF Whole, NothingForgotten
  <2>3. saved[i] # nofile
    <3>1. 1..Len(stream[Srv]) = {}
      BY <1>3
    <3> QED  BY <1>3, <2>2, <3>1 DEF Under
  <2> QED  BY <1>9, <2>3 DEF Under, nofile, NoExist
<1> QED  BY <1>12, <1>13, <1>14, <1>15, <1>16 DEF Whole

LEMMA ClientReceives ==
  ASSUME jobs \in Jobs, Whole, ReceivePiece(Clt), ~cutWord', ~joined', ~abandoned'
  PROVE  Whole'
<1>1. Expects /\ FileTypes /\ Clt \in Sides /\ Len(jobs) \in Nat
  BY JobsAre DEF ReceivePiece, ReceiveBytes, Expects, Whole, Sides
<1>2. job <= Len(jobs) /\ (CommandSent \/ BeingAnswered \/ NoSuchFile \/ NotAnswered)
  BY <1>1 DEF Whole, ClientAt
<1>3. job \in 1..Len(jobs)
  BY <1>1, <1>2 DEF FileTypes
<1>4. stream[Clt] # <<>>
  <2>1. PICK s, j : s \in Seq(Tokens) /\ s = stream[Clt] /\ j = job
    BY <1>1 DEF FileTypes
  <2>2. PICK n, took, buf, k : Receipt(Clt, j, s, n, took, buf, k)
    BY <1>1, <2>1, ReceiptOf
  <2>3. n \in 1..Len(s)
    BY <2>2 DEF Receipt
  <2> QED  BY <2>1, <2>3, EmptyIsShort
<1>5. BeingAnswered \/ NoSuchFile
  BY <1>2, <1>4 DEF CommandSent, NotAnswered
<1> QED  BY <1>3, <1>5, AnswerReceived, RefusalReceived

LEMMA FileStep ==
  ASSUME FileInv, [FileNext]_fileVars
  PROVE  FileInv'
<1>1. jobs \in Jobs /\ jobs' = jobs
  <2>1. ClientCommand => jobs' = jobs
    BY DEF ClientCommand
  <2>2. ServerCommand => jobs' = jobs
    BY DEF ServerCommand
  <2>3. ASSUME NEW e \in Sides, SendPiece(e) PROVE jobs' = jobs
    BY <2>3 DEF SendPiece
  <2>4. ASSUME NEW e \in Sides, ReceivePiece(e) PROVE jobs' = jobs
    BY <2>4, Zenon DEF ReceivePiece, ReceiveBytes
  <2> QED  BY <2>1, <2>2, <2>3, <2>4 DEF FileInv, FileNext, fileVars
<1>2. (cutWord => cutWord') /\ (joined => joined') /\ (abandoned => abandoned')
  <2>1. CASE ClientCommand
    BY <2>1 DEF ClientCommand
  <2>5. CASE ServerCommand
    <3>1. cutWord' = cutWord /\ abandoned' = abandoned /\ \E n : joined' = (joined \/ n > 1)
      BY <2>5 DEF ServerCommand
    <3> QED  BY <3>1
  <2>2. ASSUME NEW e \in Sides, SendPiece(e)
        PROVE  (cutWord => cutWord') /\ (joined => joined') /\ (abandoned => abandoned')
    BY <2>2 DEF SendPiece
  <2>3. ASSUME NEW e \in Sides, ReceivePiece(e)
        PROVE  (cutWord => cutWord') /\ (joined => joined') /\ (abandoned => abandoned')
    <3>1. \E c, o, a : cutWord' = (cutWord \/ c) /\ joined' = (joined \/ o) /\ abandoned' = (abandoned \/ a)
      BY <2>3, Zenon DEF ReceivePiece, ReceiveBytes
    <3> QED  BY <3>1
  <2>4. CASE UNCHANGED fileVars
    BY <2>4 DEF fileVars
  <2> QED  BY <2>1, <2>2, <2>3, <2>4, <2>5 DEF FileNext
<1> SUFFICES ASSUME ~cutWord', ~joined', ~abandoned' PROVE Whole'
  BY <1>1 DEF FileInv
<1>3. Whole
  BY <1>2 DEF FileInv
<1>4. CASE ClientCommand
  <2>1. /\ doing[Clt] = "command" /\ job \in DOMAIN jobs
        /\ UNCHANGED <<jobs, serving, saved>>
    BY <1>4 DEF ClientCommand
  <2>2. CASE jobs[job].what = "put" /\ jobs[job].file = "missing"
    <3>1. job' = job + 1 /\ UNCHANGED <<stream, doing, left2send, piece, file>>
      BY <1>4, <2>2 DEF ClientCommand
    <3> QED  BY <1>1, <1>3, <2>1, <2>2, <3>1, PutSkipped
  <2>3. CASE ~(jobs[job].what = "put" /\ jobs[job].file = "missing")
    <3>1. /\ stream' = [stream EXCEPT ![Srv] = @ \o <<Command(jobs[job].what, job)>>]
          /\ doing' = [doing EXCEPT ![Clt] = CASE jobs[job].what = "list" -> "receive"
                                               [] jobs[job].what = "get"  -> "answer"
                                               [] jobs[job].what = "put"  -> "send"]
          /\ left2send' = [left2send EXCEPT ![Clt] = jobs[job].size]
          /\ piece' = [piece EXCEPT ![Clt] = <<Command(jobs[job].what, job)>>]
          /\ file' = [file EXCEPT ![Clt] = <<>>]
          /\ UNCHANGED job
      BY <1>4, <2>3 DEF ClientCommand, Sent, Now
    <3> QED  BY <1>1, <1>3, <2>1, <2>3, <3>1, CommandIsSent
  <2> QED  BY <2>2, <2>3
<1>5. CASE ServerCommand
  BY <1>1, <1>3, <1>5, ServerCommandKeeps
<1>6. ASSUME NEW e \in Sides, SendPiece(e) PROVE Whole'
  BY <1>1, <1>3, <1>6, ClientSendsPiece, ServerSendsPiece DEF Sides
<1>7. ASSUME NEW e \in Sides, ReceivePiece(e) PROVE Whole'
  BY <1>1, <1>3, <1>7, ClientReceives, ServerReceives DEF Sides
<1>8. CASE UNCHANGED fileVars
  <2>1. FileTypes' /\ Streams'
    BY <1>3, <1>8 DEF fileVars, Whole, FileTypes, Streams, Linked, May, Expect, Data, ToServer, ToClient,
                      AnyCommand, Command, CommandsAreJobs
  <2>2. ClientAt' /\ ServerAt'
    <3>1. UNCHANGED <<ToServer, ToClient>>
      BY <1>8 DEF fileVars, ToServer, ToClient, Expect, Data, AnyCommand, Command, W1
    <3>2. /\ Receives(jobs, job, file[Clt], piece[Clt], stream[Clt], ToClient)' <=>
               Receives(jobs, job, file[Clt], piece[Clt], stream[Clt], ToClient)
          /\ Receives(jobs, serving, file[Srv], piece[Srv], stream[Srv], ToServer)' <=>
               Receives(jobs, serving, file[Srv], piece[Srv], stream[Srv], ToServer)
      BY <1>8, <3>1 DEF fileVars, Receives, Received, Has, Heads, Expect, Data, W1
    <3>3. UNCHANGED <<CommandSent, BeingAnswered, NoSuchFile, NotAnswered>>
      BY <1>8, <3>2 DEF fileVars, CommandSent, BeingAnswered, NoSuchFile, NotAnswered, Received, Has, Data,
                        Command, NoExist, W2, Whats
    <3> QED  BY <1>3, <1>8, <3>2, <3>3 DEF fileVars, Whole, ClientAt, ServerAt, Expects
  <2>3. SavedRight' /\ NothingForgotten'
    BY <1>3, <1>8 DEF fileVars, Whole, SavedRight, NothingForgotten, Under, Has, Data, Command
  <2> QED  BY <2>1, <2>2, <2>3 DEF Whole
<1> QED  BY <1>4, <1>5, <1>6, <1>7, <1>8 DEF FileNext

LEMMA ContentIs ==
  ASSUME jobs \in Jobs, NEW j \in 1..Len(jobs)
  PROVE  /\ Content(j) = [i \in 1..jobs[j].size |-> Data(j, i)]
         /\ ToSet(Content(j)) = {Data(j, i) : i \in 1..jobs[j].size}
<1>1. PICK z, c : z \in Nat /\ z = jobs[j].size /\ c = Content(j) /\ j \in Nat
  BY JobsAre
<1>2. c = [i \in 1..z |-> Data(j, i)]
  BY <1>1 DEF Content, Data
<1>3. \A i \in 1..z : Data(j, i) \in Tokens
  BY <1>1, TokenTypes
<1>4. c \in Seq(Tokens) /\ Len(c) = z
  BY <1>1, <1>2, <1>3
<1>5. ToSet(c) = {c[i] : i \in 1..Len(c)}
  BY <1>4, ElementsOf
<1> QED  BY <1>1, <1>2, <1>4, <1>5

\* What is saved is what was sent.
LEMMA SavedIsSent ==
  ASSUME jobs \in Jobs, FileTypes, SavedRight, NEW j \in 1..Len(jobs), saved[j] # nofile
  PROVE  /\ jobs[j].file = "there"
         /\ IF jobs[j].what = "list" THEN ToSet(saved[j]) = ToSet(Content(j)) ELSE saved[j] = Content(j)
<1>1. PICK f \in Seq(Tokens) : f = saved[j]
  BY DEF FileTypes
<1>2. jobs[j].file = "there" /\ Has(jobs, j, f, jobs[j].size)
  BY <1>1 DEF SavedRight
<1>3. CASE jobs[j].what = "list"
  BY <1>1, <1>2, <1>3, ContentIs DEF Has
<1>4. CASE jobs[j].what # "list"
  <2>1. Len(f) = jobs[j].size /\ \A i \in 1..jobs[j].size : f[i] = Data(j, i)
    BY <1>2, <1>4 DEF Has
  <2>2. f = [i \in 1..jobs[j].size |-> f[i]]
    BY <2>1
  <2>3. f = [i \in 1..jobs[j].size |-> Data(j, i)]
    BY <2>1, <2>2
  <2> QED  BY <1>1, <1>2, <1>4, <2>3, ContentIs
<1> QED  BY <1>3, <1>4

\* When nothing is on the way, and nobody sends or has anything to ask for, all is done.
LEMMA NothingUndone ==
  ASSUME jobs \in Jobs, Whole, stream = [e \in Sides |-> <<>>], doing[Clt] # "send", doing[Srv] # "send",
         ~(doing[Clt] = "command" /\ job <= Len(jobs)),
         \A j \in 1..Len(jobs) : ~(jobs[j].file = "denied" /\ jobs[j].what # "list")
  PROVE  /\ job > Len(jobs) /\ doing = [e \in Sides |-> "command"]
         /\ \A j \in 1..Len(jobs) : saved[j] # nofile <=> jobs[j].file = "there"
<1>1. /\ Len(jobs) \in Nat /\ job \in 1..Len(jobs) + 1
      /\ doing \in [Sides -> {"command", "answer", "receive", "send"}] /\ doing[Srv] # "answer"
  BY JobsAre DEF Whole, FileTypes
<1>2. stream[Clt] = <<>> /\ stream[Srv] = <<>>
  BY DEF Sides
<1>3. \A j \in 1..Len(jobs) : jobs[j].file # "denied"
  BY JobsAre
<1>4. ~Expects
  <2> SUFFICES ASSUME Expects PROVE FALSE
    OBVIOUS
  <2>1. job <= Len(jobs) /\ NotAnswered
    BY <1>2 DEF Whole, ClientAt, CommandSent, BeingAnswered, NoSuchFile
  <2>2. job \in 1..Len(jobs)
    BY <1>1, <2>1
  <2> QED  BY <1>3, <2>1, <2>2 DEF NotAnswered
<1>5. doing[Clt] = "command"
  BY <1>1, <1>4 DEF Expects, Sides
<1>6. job > Len(jobs)
  BY <1>1, <1>5
<1>7. doing[Srv] = "command"
  <2> SUFFICES ASSUME doing[Srv] = "receive" PROVE FALSE
    BY <1>1 DEF Sides
  <2>1. PICK m : AnyCommand \subseteq {Expect(jobs, serving, m)}
    BY <1>2, <1>5 DEF Whole, ServerAt, Receives, Heads, ToServer
  <2>2. Command("get", 1) \in AnyCommand
    BY DEF AnyCommand, Whats
  <2> QED  BY <2>1, <2>2 DEF Command, Expect, Data, W1
<1>8. doing = [e \in Sides |-> "command"]
  BY <1>1, <1>5, <1>7 DEF Sides
<1>9. ASSUME NEW j \in 1..Len(jobs), jobs[j].file = "there" PROVE saved[j] # nofile
  <2>1. j < job
    BY <1>1, <1>6
  <2>2. Under(j)
    BY <1>3, <1>9, <2>1 DEF Whole, NothingForgotten
  <2>3. 1..Len(stream[Srv]) = {}
    BY <1>2
  <2> QED  BY <1>7, <2>2, <2>3 DEF Under
<1>10. ASSUME NEW j \in 1..Len(jobs), saved[j] # nofile PROVE jobs[j].file = "there"
  BY <1>10 DEF Whole, SavedRight
<1> QED  BY <1>6, <1>8, <1>9, <1>10

\* Wherever recv cuts the files of the file service (commands and NO_EXIST arrive whole), what
\* has been saved is the file that was sent, and nothing asked for stays undone, unless a recv cuts
\* the word that ends a file, or takes it or a command together with more, or a get could not
\* create its file and left the rest of the answer, or the server could not open a file.
THEOREM TransfersAreWhole == FileSpec => []TransfersWhole
<1>1. FileInit => FileInv
  BY FileInitial
<1>2. FileInv /\ [FileNext]_fileVars => FileInv'
  BY FileStep
<1>3. FileInv => TransfersWhole
  <2> SUFFICES ASSUME FileInv PROVE TransfersWhole
    OBVIOUS
  <2>1. CASE cutWord \/ joined \/ abandoned
    BY <2>1 DEF TransfersWhole
  <2>2. CASE ~cutWord /\ ~joined /\ ~abandoned
    <3>1. jobs \in Jobs /\ Whole /\ DOMAIN jobs = 1..Len(jobs)
      BY <2>2, JobsAre DEF FileInv
    <3>2. \A j \in DOMAIN jobs : saved[j] # nofile =>
              IF jobs[j].what = "list" THEN ToSet(saved[j]) = ToSet(Content(j)) ELSE saved[j] = Content(j)
      BY <3>1, SavedIsSent DEF Whole
    <3>3. ASSUME stream = [e \in Sides |-> <<>>], doing[Clt] # "send", doing[Srv] # "send",
                 ~(doing[Clt] = "command" /\ job <= Len(jobs)),
                 ~\E j \in DOMAIN jobs : jobs[j].file = "denied" /\ jobs[j].what # "list"
          PROVE  /\ job > Len(jobs) /\ doing = [e \in Sides |-> "command"]
                 /\ \A j \in DOMAIN jobs : saved[j] # nofile <=> jobs[j].file = "there"
      BY <3>1, <3>3, NothingUndone
    <3> QED  BY <3>2, <3>3 DEF TransfersWhole
  <2> QED  BY <2>1, <2>2
<1> QED  BY <1>1, <1>2, <1>3, PTL DEF FileSpec
=============================================================================
