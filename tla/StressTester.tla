---------------------------- MODULE StressTester ----------------------------
(***************************************************************************)
(* connect_test of 86_server_modulate_debug_test/main.cpp: one thread and  *)
(* its epoll table, in which every connection waits either to write a      *)
(* request or to read, edge triggered; and a server that answers each      *)
(* request in one or two pieces, a read taking one or two of them.         *)
(***************************************************************************)
EXTENDS Naturals, FiniteSets

CONSTANTS
    Conns,      \* the num connections
    Room        \* requests the socket buffers hold

ASSUME TesterAssumption == Room \in Nat \ {0}

VARIABLES
    mode,       \* mode[c]: "in", "out", or "closed" (not in the epoll table)
    ready,      \* the ready list of epoll
    evs,        \* events of this epoll_wait not yet handled, with their mask
    alive,      \* FALSE once SIGPIPE has killed the tester
    owed,       \* requests sent and not answered
    coming,     \* pieces of answers still to come
    came,       \* pieces of answers not read yet
    peer        \* peer[c]: "open"; "fin": it has closed; "written": since when
                \* a request was sent; "broken", its RST is here; "rst": it
                \* closed with requests unread

testerVars == <<mode, ready, evs, alive, owed, coming, came, peer>>

TesterInit ==
    /\ mode \in [Conns -> {"out", "closed"}]    \* connect may have failed
    /\ ready = {c \in Conns : mode[c] = "out"}
    /\ evs = {} /\ alive = TRUE
    /\ owed = [c \in Conns |-> 0] /\ coming = [c \in Conns |-> 0]
    /\ came = [c \in Conns |-> 0]
    /\ peer = [c \in Conns |-> IF mode[c] = "out" THEN "open" ELSE "rst"]

Reset(c)    == peer[c] \in {"broken", "rst"}
HasInput(c) == came[c] > 0 \/ peer[c] # "open"
HasSpace(c) == owed[c] < Room \/ Reset(c)
Reported(c) == \/ mode[c] = "in" /\ HasInput(c)
               \/ mode[c] = "out" /\ HasSpace(c)

-----------------------------------------------------------------------------
\* The server.
Serves(c) == mode[c] # "closed" /\ peer[c] = "open"

ServerAnswers(c) ==
    /\ Serves(c) /\ owed[c] > 0
    /\ \E n \in 1..2 : coming[c] + n <= 2 /\ coming' = [coming EXCEPT ![c] = @ + n]
    /\ owed' = [owed EXCEPT ![c] = @ - 1]
    /\ ready' = ready \cup (IF owed[c] = Room THEN {c} ELSE {})
    /\ UNCHANGED <<mode, evs, alive, came, peer>>

\* data is an edge for a connection that waits to read
Deliver(c) ==
    /\ Serves(c) /\ coming[c] > 0 /\ came[c] < 3
    /\ coming' = [coming EXCEPT ![c] = @ - 1]
    /\ came' = [came EXCEPT ![c] = @ + 1]
    /\ ready' = ready \cup (IF mode[c] = "in" THEN {c} ELSE {})
    /\ UNCHANGED <<mode, evs, alive, owed, peer>>

Hangs(c) ==
    /\ Serves(c) /\ coming[c] = 0
    /\ peer' = [peer EXCEPT ![c] = IF owed[c] = 0 THEN "fin" ELSE "rst"]
    /\ owed' = [owed EXCEPT ![c] = 0]
    /\ ready' = ready \cup {c}
    /\ UNCHANGED <<mode, evs, alive, coming, came>>

RstComes(c) ==
    /\ mode[c] # "closed" /\ peer[c] = "written"
    /\ peer' = [peer EXCEPT ![c] = "broken"]
    /\ ready' = ready \cup {c}
    /\ UNCHANGED <<mode, evs, alive, owed, coming, came>>

-----------------------------------------------------------------------------
\* The tester.
TesterWait ==
    /\ alive /\ evs = {} /\ \E c \in ready : Reported(c)
    /\ evs' = {c \in ready : Reported(c)}
    /\ ready' = {}
    /\ UNCHANGED <<mode, alive, owed, coming, came, peer>>

\* epoll_ctl MOD looks at the descriptor at once; it fails on a closed one
Mod(c, t) ==
    /\ mode' = [mode EXCEPT ![c] = t]
    /\ ready' = IF t = "closed" THEN ready \ {c} ELSE ready \cup {c}

\* read_once
ReadAnswer(c) ==
    /\ alive /\ c \in evs /\ mode[c] = "in"
    /\ evs' = evs \ {c}
    /\ IF came[c] > 0
       THEN /\ \E n \in 1..2 : n <= came[c] /\ came' = [came EXCEPT ![c] = @ - n]
            /\ Mod(c, "out")
       ELSE Mod(c, "closed") /\ UNCHANGED came
    /\ UNCHANGED <<alive, owed, coming, peer>>

\* mutant: the connection goes on waiting to write
WriteStays(c) ==
    /\ alive /\ c \in evs /\ mode[c] = "out" /\ peer[c] = "open"
    /\ evs' = evs \ {c}
    /\ owed' = [owed EXCEPT ![c] = @ + 1]
    /\ UNCHANGED <<mode, ready, alive, coming, came, peer>>

\* write_bytes
WriteRequest(c) ==
    /\ alive /\ c \in evs /\ mode[c] = "out" /\ ~Reset(c)
    /\ evs' = evs \ {c}
    /\ IF peer[c] = "open"
       THEN owed' = [owed EXCEPT ![c] = @ + 1] /\ UNCHANGED peer
       ELSE peer' = [peer EXCEPT ![c] = "written"] /\ UNCHANGED owed
    /\ Mod(c, "in")
    /\ UNCHANGED <<alive, coming, came>>

\* send fails with ECONNRESET, or with EPIPE, whose signal is not handled
WriteFailed(c) ==
    /\ alive /\ c \in evs /\ mode[c] = "out" /\ Reset(c)
    /\ evs' = evs \ {c}
    /\ alive' = (peer[c] = "rst")
    /\ Mod(c, "closed")
    /\ UNCHANGED <<owed, coming, came, peer>>

TesterNext ==
    \/ TesterWait
    \/ \E c \in Conns : \/ ServerAnswers(c) \/ Deliver(c) \/ Hangs(c) \/ RstComes(c)
                        \/ ReadAnswer(c) \/ WriteRequest(c) \/ WriteFailed(c)
TesterSpec == TesterInit /\ [][TesterNext]_testerVars

-----------------------------------------------------------------------------
(***************************************************************************)
(* The load does not dry up: when the tester has no event to handle, every *)
(* connection that is not closed has a request the server owes an answer   *)
(* to, and nothing unread, although data can come before the descriptor is *)
(* set back to reading and one read is made for each request.  It closes   *)
(* no connection the server has not closed.  But a second request can go   *)
(* out before an answer is complete: buffers full of requests keep the     *)
(* tester from reading what has come, and a server that closes in the      *)
(* middle of a long answer kills it by SIGPIPE.                            *)
(***************************************************************************)
LoadGoesOn ==
    /\ \A c \in Conns : peer[c] = "open" => mode[c] # "closed"
    /\ alive /\ evs = {} /\ (\A c \in ready : ~Reported(c)) =>
        \A c \in Conns : mode[c] # "closed" =>
            /\ peer[c] = "open"
            /\ \/ mode[c] = "in" /\ owed[c] + coming[c] > 0 /\ came[c] = 0
               \/ mode[c] = "out" /\ owed[c] = Room
=============================================================================
