------------------------------ MODULE HttpConn ------------------------------
(***************************************************************************)
(* The parser that finds a request in one read buffer, in the two servers  *)
(* that have it: http_conn (85_process_pool_thread_pool/http_conn.h), which *)
(* keeps the connection and sends a file, and server_test                  *)
(* (78_server_framework/main.cpp), which answers with one of two strings.  *)
(* A token stands for the text of a line, a line end or a byte of content; *)
(* the network cuts the stream of tokens anywhere.                         *)
(***************************************************************************)
EXTENDS Naturals, Sequences, SequencesExt

CONSTANTS
    Sessions,   \* what a client can ask, one request after the other:
                \* [line, eol, headers, content]
    BufSize,    \* READ_BUF_SIZE, in tokens
    HeaderSize, FileSize  \* sizes of an answer's header and of the file

CRLF == <<"CR", "LF">>
\* the request lines that are accepted, by what they ask for
Targets == {"file", "empty", "missing", "forbidden", "dir"}

(***************************************************************************)
(* A request has a line, a line end that may be a wrong one, headers, and  *)
(* content of two bytes when a header says so.                             *)
(***************************************************************************)
IsRequest(r) ==
    /\ r.line \in Targets \cup {"bad"}
    /\ r.eol \in {CRLF, <<"CR">>, <<"LF">>}
    /\ r.headers \in Seq(ToSet(r.headers)) /\ r.content \in Seq(ToSet(r.content))
    /\ \A i \in DOMAIN r.headers : r.headers[i] \notin {"CR", "LF"}
    /\ Len(r.content) = IF "len2" \in ToSet(r.headers) THEN 2 ELSE 0

ASSUME HttpConnAssumption ==
    /\ BufSize \in Nat /\ HeaderSize \in Nat \ {0} /\ FileSize \in Nat \ {0}
    /\ \A s \in Sessions : s \in Seq(ToSet(s)) /\ \A i \in DOMAIN s : IsRequest(s[i])

VARIABLES
    server,     \* which of the two
    asked, asking, rest,    \* the client's requests, how many it has begun to
                    \* send, and what is left of the last of these
    wire,       \* in the socket, not read yet
    buf,        \* _read_buf up to _read_idx
    chk, start, chk_state, content_length, linger,  \* the parser's members
    line_status,
    hpc,        \* what the server does next
    answer,     \* the answer being written
    have, got,  \* bytes_have_send; how much of the answer the client has
    answers,    \* what the client was answered
    early, bodyCut  \* history: it asked again before it was answered; the
                    \* content of a request came in more than one read

askingVars == <<asked, asking, rest>>
parserVars == <<buf, chk, start, chk_state, content_length, linger, line_status>>
writeVars  == <<answer, have, got>>
httpConnVars == <<server, askingVars, wire, parserVars, hpc, writeVars, answers,
                  early, bodyCut>>

HeaderLines(r) == [i \in 1..3 * Len(r.headers) |->
    IF i % 3 = 1 THEN r.headers[(i + 2) \div 3] ELSE IF i % 3 = 2 THEN "CR" ELSE "LF"]
Tokens(r) == <<r.line>> \o r.eol \o HeaderLines(r) \o CRLF \o r.content
HeadLen(r) == Len(Tokens(r)) - Len(r.content)
\* what has been read ends in the content
CutsContent(r, read) == read \in HeadLen(r)+1..Len(Tokens(r))-1

Cleared == [buf |-> <<>>, chk |-> 0, start |-> 0, chk_state |-> "line",
            content_length |-> 0, linger |-> FALSE]
\* mutant: the mark of the last request stays
ClearKeepsMark == /\ buf' = Cleared.buf /\ chk' = chk /\ start' = Cleared.start
                  /\ chk_state' = Cleared.chk_state
                  /\ content_length' = Cleared.content_length
                  /\ linger' = Cleared.linger
Clear == /\ buf' = Cleared.buf /\ chk' = Cleared.chk /\ start' = Cleared.start
         /\ chk_state' = Cleared.chk_state
         /\ content_length' = Cleared.content_length
         /\ linger' = Cleared.linger

HttpConnInit ==
    /\ server \in {"http_conn", "one_buffer"}
    /\ asked \in Sessions
    /\ asking = 0 /\ rest = <<>>
    /\ wire = <<>> /\ hpc = "read" /\ line_status = "ok"
    /\ buf = <<>> /\ chk = 0 /\ start = 0
    /\ chk_state = "line" /\ content_length = 0 /\ linger = FALSE
    /\ answer = <<>> /\ have = 0 /\ got = 0
    /\ answers = <<>> /\ early = FALSE /\ bodyCut = FALSE

\* The next piece of the request the client is at, or the first of another.
ClientSends ==
    LET anew == rest = <<>>
        text == IF anew THEN Tokens(asked[asking + 1]) ELSE rest
    IN  /\ anew => asking < Len(asked)
        /\ \E n \in 1..Len(text) :
              /\ wire' = wire \o SubSeq(text, 1, n)
              /\ rest' = SubSeq(text, n + 1, Len(text))
        /\ asking' = IF anew THEN asking + 1 ELSE asking
        /\ early' = (early \/ (anew /\ Len(answers) < asking))
        /\ UNCHANGED <<server, asked, parserVars, hpc, writeVars, answers, bodyCut>>

-----------------------------------------------------------------------------
CloseNow == hpc' = "closed" /\ UNCHANGED <<parserVars, writeVars, answers, bodyCut>>

(***************************************************************************)
(* read(): all there is.  A buffer that is full makes the next recv return *)
(* 0, as if the client had closed; http_conn finds that before it parses.  *)
(***************************************************************************)
ReadFull ==
    /\ hpc = "read" /\ wire # <<>>
    /\ IF server = "http_conn" THEN Len(buf) + Len(wire) >= BufSize
                               ELSE Len(buf) = BufSize
    /\ CloseNow
    /\ UNCHANGED <<server, askingVars, wire, early>>

Read ==
    LET room == BufSize - Len(buf)
        n == IF Len(wire) < room THEN Len(wire) ELSE room
    IN  /\ hpc = "read" /\ n > 0
        /\ server = "http_conn" => n < room
        /\ buf' = buf \o SubSeq(wire, 1, n)
        /\ wire' = SubSeq(wire, n + 1, Len(wire))
        /\ hpc' = "parse" /\ line_status' = "ok"
        /\ bodyCut' = (bodyCut \/ (/\ Len(answers) < Len(asked)
                                   /\ CutsContent(asked[Len(answers) + 1], Len(buf'))))
        /\ UNCHANGED <<server, askingVars, chk, start, chk_state, content_length,
                       linger, writeVars, answers, early>>

-----------------------------------------------------------------------------
\* parse_line: where the scan stops, and what it has found there
Ends == {p \in chk+1..Len(buf) : buf[p] \in {"CR", "LF"}}
End  == CHOOSE p \in Ends : \A q \in Ends : p <= q
Found(status, mark) == [status |-> status, chk |-> mark]
FollowedByLF == End < Len(buf) /\ buf[End + 1] = "LF"
\* mutant: a CR at the end of the buffer is not given the time to be followed
FoundCRHasty == IF FollowedByLF THEN Found("ok", End + 1) ELSE Found("bad", End - 1)
FoundCR == IF FollowedByLF THEN Found("ok", End + 1)
           ELSE Found(IF End = Len(buf) THEN "open" ELSE "bad", End - 1)
FoundLF == IF End > 2 /\ buf[End - 1] = "CR" THEN Found("ok", End) ELSE Found("bad", End - 1)
LineFound == IF Ends = {} THEN Found("open", Len(buf))
             ELSE IF buf[End] = "CR" THEN FoundCR ELSE FoundLF

Reply(code) ==
    IF server = "one_buffer"
    THEN /\ answers' = Append(answers, [code |-> code, keep |-> FALSE, whole |-> TRUE,
                                        short |-> FALSE])
         /\ hpc' = "closed"
         /\ UNCHANGED writeVars
    ELSE /\ answer' = [code |-> code, head |-> IF code = "200" THEN HeaderSize ELSE HeaderSize + 1,
                       total |-> HeaderSize + (IF code = "200" THEN FileSize ELSE 1), short |-> FALSE]
         /\ hpc' = "write"
         /\ UNCHANGED <<have, got, answers>>

\* do_request and process_write; an empty file makes process_write fail
Target == buf[1]
RequestCode ==
    IF server = "one_buffer" THEN "200"
    ELSE CASE Target = "file" -> "200"
           [] Target = "missing" -> "404"
           [] Target = "forbidden" -> "403"
           [] Target = "dir" -> "400"
DoRequest ==
    IF server = "http_conn" /\ Target = "empty"
    THEN hpc' = "closed" /\ UNCHANGED <<writeVars, answers>>
    ELSE Reply(RequestCode)

GoOn == hpc' = "parse" /\ UNCHANGED <<writeVars, answers>>

\* parse_content, with the mark the line parser has reached
ParseContent(mark) ==
    IF Len(buf) >= content_length + mark
    THEN DoRequest /\ UNCHANGED line_status
    ELSE GoOn /\ line_status' = "open"

ContentDirectly == chk_state = "content" /\ line_status = "ok"
ParseStep == hpc = "parse" /\ UNCHANGED <<server, askingVars, wire, early, bodyCut>>

ParseBody ==
    /\ ParseStep /\ ContentDirectly
    /\ ParseContent(chk)
    /\ start' = chk
    /\ UNCHANGED <<buf, chk, chk_state, content_length, linger>>

ParseLine ==
    LET found == LineFound
        txt == SubSeq(buf, start + 1, found.chk - 2)
    IN  /\ ParseStep /\ ~ContentDirectly /\ found.status = "ok"
        /\ chk' = found.chk /\ start' = found.chk
        /\ UNCHANGED buf
        /\ \/ /\ chk_state = "line"
              /\ IF txt # <<>> /\ txt[1] \in Targets
                 THEN GoOn /\ chk_state' = "header"
                 ELSE Reply("400") /\ UNCHANGED chk_state
              /\ line_status' = "ok"
              /\ UNCHANGED <<content_length, linger>>
           \/ /\ chk_state = "header" /\ txt = <<>>
              /\ IF content_length # 0 THEN GoOn /\ chk_state' = "content"
                                       ELSE DoRequest /\ UNCHANGED chk_state
              /\ line_status' = "ok"
              /\ UNCHANGED <<content_length, linger>>
           \/ /\ chk_state = "header" /\ txt # <<>>
              /\ linger' = (linger \/ (txt[1] = "keep" /\ server = "http_conn"))
              /\ content_length' = IF txt[1] = "len2" /\ server = "http_conn"
                                   THEN 2 ELSE content_length
              /\ GoOn /\ line_status' = "ok"
              /\ UNCHANGED chk_state
           \/ /\ chk_state = "content"
              /\ ParseContent(found.chk)
              /\ UNCHANGED <<chk_state, content_length, linger>>

\* No complete line: more is to be read, also after one http_conn cannot read.
ParseMore ==
    LET found == LineFound
    IN  /\ ParseStep /\ ~ContentDirectly /\ found.status # "ok"
        /\ chk' = found.chk
        /\ IF found.status = "bad" /\ server = "one_buffer"
           THEN Reply("400")
           ELSE hpc' = "read" /\ UNCHANGED <<writeVars, answers>>
        /\ UNCHANGED <<buf, start, chk_state, content_length, linger, line_status>>

-----------------------------------------------------------------------------
(***************************************************************************)
(* write(): every writev begins at the start of the answer; the loop ends  *)
(* when it has sent as many bytes as are left of the header.  SO_LINGER is *)
(* on with no time (main.cpp:62-63): the close that follows an answer      *)
(* which is not kept discards what of it has not left the socket.          *)
(***************************************************************************)
WriteSome ==
    /\ hpc = "write"
    /\ \E n \in 1..answer.total :
          /\ have' = have + n
          /\ got' = IF got = 0 THEN n ELSE answer.total + 1
          /\ answer' = [answer EXCEPT !.short = @ \/ n < answer.total]
    /\ answer.head > have' + have'
    /\ UNCHANGED <<server, askingVars, wire, parserVars, hpc, answers, early, bodyCut>>

WriteEnd ==
    /\ hpc = "write"
    /\ \E n \in 1..answer.total, discarded \in BOOLEAN :
          /\ answer.head <= (have + n) + (have + n)
          /\ linger => ~discarded
          /\ answers' = Append(answers,
                [code |-> answer.code, keep |-> linger,
                 whole |-> got = 0 /\ n = answer.total /\ ~discarded,
                 short |-> answer.short \/ n < answer.total])
    /\ hpc' = IF linger THEN "read" ELSE "closed"
    /\ IF linger THEN Clear /\ UNCHANGED line_status ELSE UNCHANGED parserVars
    /\ answer' = <<>> /\ have' = 0 /\ got' = 0
    /\ UNCHANGED <<server, askingVars, wire, early, bodyCut>>

\* EAGAIN: the next EPOLLOUT starts write() again
WriteFromStart ==
    /\ hpc = "write" /\ have > 0
    /\ have' = 0
    /\ UNCHANGED <<server, askingVars, wire, parserVars, hpc, answer, got, answers,
                   early, bodyCut>>

HttpConnStep == \/ ReadFull \/ Read
                \/ ParseBody \/ ParseLine \/ ParseMore
                \/ WriteSome \/ WriteEnd \/ WriteFromStart
HttpConnNext == ClientSends \/ HttpConnStep
HttpConnSpec == HttpConnInit /\ [][HttpConnNext]_httpConnVars

-----------------------------------------------------------------------------
WellFormed(r) == r.eol = CRLF
Expected(r) ==
    IF ~WellFormed(r) \/ r.line = "bad" THEN "400"
    ELSE IF server = "one_buffer" THEN "200"
    ELSE CASE r.line \in {"file", "empty"} -> "200"
           [] r.line = "missing" -> "404"
           [] r.line = "forbidden" -> "403"
           [] r.line = "dir" -> "400"
Keeps(r) == server = "http_conn" /\ "keep" \in ToSet(r.headers)

(***************************************************************************)
(* However the network cuts the requests, each is answered with what it    *)
(* asks for and whether it asks to be kept is obeyed, as long as the       *)
(* client does not ask again before it has its answer; and it gets the     *)
(* whole of an answer unless the socket took a part of it in one call, or  *)
(* http_conn closed on it.                                                 *)
(***************************************************************************)
AnswersAreRight ==
    \A i \in DOMAIN answers :
        /\ answers[i].short \/ answers[i].whole
              \/ (server = "http_conn" /\ ~answers[i].keep)
        /\ early \/ (/\ answers[i].code = Expected(asked[i])
                     /\ answers[i].keep <=> (Keeps(asked[i]) /\ asked[i].line # "bad"))

(***************************************************************************)
(* When everything sent has been read and looked at, a client is without   *)
(* answer only because its request is malformed (http_conn waits for more  *)
(* of it), because its content came in two reads (the mark of the line     *)
(* parser has moved into it), because it asked too early, or because the   *)
(* server has closed: after an answer to a request that does not ask to be *)
(* kept, for a full buffer, or instead of an empty file.                   *)
(***************************************************************************)
Unanswered == asked[Len(answers) + 1]
UnansweredHasReason ==
    Len(answers) < Len(asked) =>
        /\ hpc = "read" /\ wire = <<>> /\ rest = <<>> /\ asking > Len(answers) =>
              early \/ bodyCut \/ (server = "http_conn" /\ ~WellFormed(Unanswered))
        /\ hpc = "closed" =>
              \/ early
              \/ IF answers = <<>> THEN FALSE ELSE ~Last(answers).keep
              \/ Len(buf) + Len(wire) >= BufSize
              \/ server = "http_conn" /\ Unanswered.line = "empty"
=============================================================================
