---------------------------- MODULE FileTransfer ----------------------------
(***************************************************************************)
(* FileServer and FileClient of 09_server_model: commands, files and the   *)
(* word **OVER** that ends them, in one TCP stream each way.  A token      *)
(* stands for some bytes.  recv takes any number of those sent: the next   *)
(* ones may still be under way.  The word is two tokens and may be cut; a  *)
(* command and NO_EXIST are one token and arrive whole, alone or with what *)
(* follows them; no file contains a command, NO_EXIST or the word.         *)
(***************************************************************************)
EXTENDS Naturals, Sequences, SequencesExt

CONSTANTS
    Jobs,       \* what the user can ask for, one after the other: sequences of
                \* [what, size, file]; file: "there", "missing", "denied", or
                \* "unwritable" (the server's is there, get cannot create its own)
    PieceSize,  \* sizeof(buf) where files are sent and received
    CommandSize \* sizeof(buf) of the loop that reads commands

ASSUME FileAssumption ==
    /\ Jobs \subseteq Seq([what : {"list", "get", "put"}, size : Nat,
                           file : {"there", "missing", "denied", "unwritable"}])
    /\ \A js \in Jobs : \A j \in DOMAIN js :
           /\ js[j].what = "list" => js[j].file = "there"
           /\ js[j].file = "unwritable" => js[j].what = "get"
    /\ PieceSize \in Nat \ {0} /\ CommandSize \in Nat \ {0}

VARIABLES
    jobs, job,  \* what is asked for, and which the client is at
    stream,     \* stream[e]: what has been sent to e, and not read
    doing,      \* doing[e]: "command", "answer" (a get's first recv), "receive", "send"
    left2send,  \* how much of a file e has still to send
    serving,    \* the job of the server's last command
    piece,      \* buf of e, with what earlier recvs have left in it
    file,       \* the file e is writing
    saved,      \* saved[j]: the file of job j, or what a list has printed
    cutWord, joined, \* history: the word came in two recvs; one recv took a
                     \* command or the word together with something else;
    abandoned        \* a get that could not create its file left the word unread

fileVars == <<jobs, job, stream, doing, left2send, serving, piece, file, saved,
              cutWord, joined, abandoned>>

Clt  == "client"
Srv  == "server"
Sides == {Clt, Srv}
Peer(e) == IF e = Clt THEN Srv ELSE Clt
\* A token: a kind, the job it belongs to, and its place in the file.
Word == <<<<"**OV", 0, 0>>, <<"ER**", 0, 0>>>>
NoExist == <<"NO_EXIST", 0, 0>>
Command(what, j) == <<what, j, 0>>
Content(j) == [i \in 1..jobs[j].size |-> <<"data", j, i>>]
nofile == <<NoExist>>

FileInit ==
    /\ jobs \in Jobs /\ job = 1 /\ serving = 1
    /\ stream = [e \in Sides |-> <<>>]
    /\ doing = [e \in Sides |-> "command"]
    /\ left2send = [e \in Sides |-> 0]
    /\ piece = [e \in Sides |-> <<>>]
    /\ file = [e \in Sides |-> <<>>]
    /\ saved = [j \in DOMAIN jobs |-> nofile]
    /\ cutWord = FALSE /\ joined = FALSE /\ abandoned = FALSE

Sent(to, tokens) == stream' = [stream EXCEPT ![to] = @ \o tokens]
Now(e, what) == doing' = [doing EXCEPT ![e] = what]

\* do_list, do_get, do_put up to their first recv or read
ClientCommand ==
    LET asked == jobs[job]
    IN  /\ doing[Clt] = "command" /\ job \in DOMAIN jobs
        /\ \/ /\ asked.what = "put" /\ asked.file = "missing"
              /\ job' = job + 1
              /\ UNCHANGED <<stream, doing, left2send, piece, file>>
           \/ /\ ~(asked.what = "put" /\ asked.file = "missing")
              /\ Sent(Srv, <<Command(asked.what, job)>>)
              /\ Now(Clt, CASE asked.what = "list" -> "receive"
                               [] asked.what = "get"  -> "answer"
                               [] asked.what = "put"  -> "send")
              /\ left2send' = [left2send EXCEPT ![Clt] = asked.size]
              /\ piece' = [piece EXCEPT ![Clt] = <<Command(asked.what, job)>>]
              /\ file' = [file EXCEPT ![Clt] = <<>>]
              /\ UNCHANGED job
        /\ UNCHANGED <<jobs, serving, saved, cutWord, joined, abandoned>>

\* A piece of the file; then, a second later, the word.
SendPiece(e) ==
    LET j == IF e = Clt THEN job ELSE serving
        from == jobs[j].size - left2send[e]
        n == IF left2send[e] < PieceSize THEN left2send[e] ELSE PieceSize
    IN  /\ doing[e] = "send"
        /\ IF n > 0
           THEN /\ Sent(Peer(e), SubSeq(Content(j), from + 1, from + n))
                /\ left2send' = [left2send EXCEPT ![e] = @ - n]
                /\ UNCHANGED <<doing, job>>
           ELSE /\ Sent(Peer(e), Word)
                /\ Now(e, "command")
                /\ job' = IF e = Clt THEN job + 1 ELSE job
                /\ UNCHANGED left2send
        /\ UNCHANGED <<jobs, serving, piece, file, saved, cutWord, joined, abandoned>>

-----------------------------------------------------------------------------
\* What recv may return: 1 byte, or more, as far as the buffer goes.
Available(e, size) == 1..(IF Len(stream[e]) < size THEN Len(stream[e]) ELSE size)
Took(e, n) == SubSeq(stream[e], 1, n)

\* exec: what is not a command is dropped, and so is what follows one.
ServerCommand == \E n \in Available(Srv, CommandSize) :
    LET command == stream[Srv][1]
        j == command[2]
    IN  /\ doing[Srv] = "command"
        /\ joined' = (joined \/ n > 1)
        /\ LET rest == SubSeq(stream[Srv], n + 1, Len(stream[Srv]))
               no == command[1] = "get" /\ jobs[j].file = "missing"
           IN  stream' = [stream EXCEPT ![Srv] = rest,
                                        ![Clt] = IF no THEN Append(@, NoExist) ELSE @]
        /\ IF command[1] \in {"list", "get", "put"}
           THEN /\ serving' = j
                /\ Now(Srv, CASE command[1] = "list" -> "send"
                                 [] /\ command[1] = "get"
                                    /\ jobs[j].file \in {"there", "unwritable"} -> "send"
                                 [] command[1] = "put" /\ jobs[j].file # "denied" -> "receive"
                                 [] OTHER -> "command")
                /\ left2send' = [left2send EXCEPT ![Srv] = jobs[j].size]
                /\ file' = [file EXCEPT ![Srv] = <<>>]
                /\ piece' = [piece EXCEPT ![Srv] = <<>>]
           ELSE UNCHANGED <<serving, doing, left2send, file, piece>>
        /\ UNCHANGED <<jobs, job, saved, cutWord, abandoned>>

\* What the file gains when `got` came into buf, in which the word is at k (0: is not).
\* mutant: the whole buffer is written, whatever the length received
GainedBuffer(got, buf, k) == IF k = 0 THEN buf ELSE SubSeq(buf, 1, k - 1)
Gained(got, buf, k) == IF k = 0 THEN got ELSE SubSeq(buf, 1, k - 1)

\* What strstr returns of the places where the word is: the first, or NULL.
FirstOf(at) == IF at = {} THEN 0 ELSE CHOOSE i \in at : \A h \in at : i <= h

\* do_get's first recv, and the loops of file_put, do_get and do_list; strstr looks
\* at the whole buffer.  A get that cannot create its file returns at once.
ReceiveBytes(e, n) ==
    LET buf == Took(e, n) \o SubSeq(piece[e], n + 1, Len(piece[e]))
        at  == {k \in 1..Len(buf) - 1 : SubSeq(buf, k, k + 1) = Word}
        k   == FirstOf(at)
        j   == IF e = Clt THEN job ELSE serving
        no  == doing[e] = "answer" /\ NoExist \in ToSet(buf)
        fails == doing[e] = "answer" /\ ~no /\ jobs[j].file = "unwritable"
        printed == jobs[j].what = "list"
    IN  /\ doing[e] \in {"answer", "receive"}
        /\ stream' = [stream EXCEPT ![e] = SubSeq(@, n + 1, Len(@))]
        /\ piece' = [piece EXCEPT ![e] = buf]
        /\ file' = [file EXCEPT ![e] =
                        @ \o (IF printed THEN IF at = {} THEN buf ELSE <<>>
                              ELSE Gained(Took(e, n), buf, k))]
        /\ IF no \/ fails \/ at # {}
           THEN /\ Now(e, "command")
                /\ saved' = IF no \/ fails THEN saved ELSE [saved EXCEPT ![j] = file'[e]]
                /\ job' = IF e = Clt THEN job + 1 ELSE job
           ELSE Now(e, "receive") /\ UNCHANGED <<saved, job>>
        /\ cutWord' = (cutWord \/ Took(e, n)[n] = Word[1])
        /\ joined' = (joined \/ (at # {} /\ (n > k + 1 \/ (printed /\ k > 1))))
        /\ abandoned' = (abandoned \/ (fails /\ at = {}))
        /\ UNCHANGED <<jobs, left2send, serving>>
ReceivePiece(e) == \E n \in Available(e, PieceSize) : ReceiveBytes(e, n)

FileNext == \/ ClientCommand \/ ServerCommand
            \/ \E e \in Sides : SendPiece(e) \/ ReceivePiece(e)

FileSpec == FileInit /\ [][FileNext]_fileVars

-----------------------------------------------------------------------------
(***************************************************************************)
(* Wherever recv cuts the files, a file that has been received is the file *)
(* that was sent and a list names every file, and what was asked for does  *)
(* not stay undone - unless a recv cut the word that ends a file, or took  *)
(* it or a command together with what follows, or a get could not create   *)
(* its file and left the rest of the answer to the next job, or the server *)
(* could not open a file, of which it tells nobody.                        *)
(***************************************************************************)
TransfersWhole ==
    LET spoilt == cutWord \/ joined \/ abandoned
        denied(j) == jobs[j].file = "denied" /\ jobs[j].what # "list"
        undone == stream = [e \in Sides |-> <<>>] /\ doing[Clt] # "send"
                  /\ doing[Srv] # "send" /\ ~(doing[Clt] = "command" /\ job <= Len(jobs))
    IN  /\ spoilt \/ \A j \in DOMAIN jobs : saved[j] # nofile =>
              IF jobs[j].what = "list" THEN ToSet(saved[j]) \subseteq ToSet(Content(j))
                                            /\ ToSet(Content(j)) \subseteq ToSet(saved[j])
              ELSE saved[j] = Content(j)
        /\ undone => \/ spoilt \/ \E j \in DOMAIN jobs : denied(j)
                     \/ /\ job > Len(jobs) /\ doing = [e \in Sides |-> "command"]
                        /\ \A j \in DOMAIN jobs :
                               saved[j] # nofile <=> jobs[j].file = "there"
=============================================================================
