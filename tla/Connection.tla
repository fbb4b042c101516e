----------------------------- MODULE Connection -----------------------------
(***************************************************************************)
(* One connection of the server (serverhttp/connection.cpp) from its start *)
(* to its end: the text of a request arrives in pieces of any size, the    *)
(* parser goes on where the last piece left it, and a complete or invalid  *)
(* request is answered; the client reads the status line of the answer.    *)
(* What the handler does with a request that it does not refuse is in      *)
(* RequestHandler; here it may come to any of its results.                 *)
(*                                                                         *)
(* Connections share neither buffer nor parser, and of one connection only *)
(* one handler is pending at a time: one connection is enough.             *)
(***************************************************************************)
EXTENDS RequestParser, Reply

CONSTANTS
  Requests,     \* what the client may send
  Accounts,     \* the hashes of the accounts in LoginDB.csv
  BufferSize    \* the size of buffer_

\* Paths that stand for themselves: absolute, without a control character,
\* question mark, percent or plus sign, and without two dots in a row.
PlainPath(s) ==
  /\ s # <<>> /\ s[1] = "/"
  /\ \A i \in 1..Len(s) : s[i] \in Text \ {"%", "+"}
  /\ ~ TwoDots(s)

\* What the client gives its constructor: any path and any content, the word
\* that was typed for an account, the digits of a hash, the length and the type
\* of what is uploaded; "/login" and "/reconnect" have neither of the last two.
ASSUME ConnectionAssumption ==
  /\ \A r \in Requests :
       /\ r.method \in {GET, POST, DELETE}
       /\ r.path \in Seq(Alphabet) /\ r.body \in Seq(Alphabet)
       /\ r.client \in Seq(Text \cup {"?"}) /\ r.hash \in Seq(1..255)
       /\ r.length \in Seq(Text) /\ r.type \in Seq(Text)
       /\ r.method = POST /\ r.length = <<>> =>
            r.type = <<>> /\ PlainPath(r.path) /\ ~ Contains(r.path, ".")
  /\ BufferSize \in Nat \ {0}

VARIABLES
  sent,      \* the request the client sends on this connection
  wire,      \* what the server has not read of its text
  gone,      \* whether the client has closed the connection
  parser,    \* request_parser_ and request_
  stage,     \* the handler that runs next
  reply,     \* reply_, or NoReply
  answer,    \* the buffers on the way to the client
  client     \* what the client has read: its autherror and statuscode

vars == <<sent, wire, gone, parser, stage, reply, answer, client>>

Stages    == {"handle_read", "handle_write", "closed"}
NoReply   == BareReply("none", "")
NothingYet == [autherror |-> FALSE, statuscode |-> Unset]

Init ==
  /\ sent \in Requests
  /\ wire = RequestText(sent)
  /\ gone = FALSE
  /\ parser = NewParser
  /\ stage = "handle_read"
  /\ reply = NoReply
  /\ answer = <<>>
  /\ client = NothingYet

-----------------------------------------------------------------------------

\* The results of a request that is not refused: the comparison, the removal,
\* a file, a login or ping (neither length nor type), a folder.
Results(p) ==
  LET extension == Extension(CHOOSE path \in RequestPath(p.uri) : TRUE)
  IN CASE p.method = GET    -> {StockReply("not_found"),
                                BareReply("accepted", "file"),
                                BareReply("not_sync", "file")}
       [] p.method = DELETE -> {BareReply("not_found", ""), BareReply("accepted", "")}
       [] p.method = POST /\ extension # <<>> ->
            {BareReply("created", ""), BareReply("internal_server_error", "")}
       [] p.method = POST /\ extension = <<>> ->
            {BareReply(IF p.headers[6] = <<>> /\ p.headers[7] = <<>>
                         THEN "accepted" ELSE "created", "")}

\* The lines of the file are tried one after the other.
Recognized(auth) == \E account \in Accounts : CString(Decode64(auth)) = account

\* handle_request looks first at who asks, then at the path.  It does not look
\* at how many headers there are: with fewer, which only a path with a question
\* mark and a line end can bring about (see OneLine), it reads behind the end of
\* the vector, and what it reads there is left open.
HandleRequest(p) ==
  IF ~ Recognized(p.headers[3]) THEN {StockReply("unauthorized")}
  ELSE IF RequestPath(p.uri) = {} THEN {StockReply("bad_request")}
  ELSE Results(p)

\* async_read_some returns what has arrived, as far as the buffer holds it.
HandleRead == \E n \in 1..BufferSize :
  /\ stage = "handle_read" /\ n <= Len(wire)
  /\ parser' = Parse(parser, SubSeq(wire, 1, n))
  /\ wire' = SubSeq(wire, n + 1, Len(wire))
  /\ reply' \in CASE parser'.result = "true"          -> HandleRequest(parser')
                  [] parser'.result = "false"         -> {StockReply("bad_request")}
                  [] parser'.result = "indeterminate" -> {NoReply}
  /\ stage' = IF parser'.result = "indeterminate" THEN "handle_read"
              ELSE "handle_write"
  /\ UNCHANGED <<sent, gone, answer, client>>

\* The connection object is destroyed.
HandleReadError ==
  /\ stage = "handle_read" /\ gone
  /\ stage' = "closed"
  /\ UNCHANGED <<sent, wire, gone, parser, reply, answer, client>>

\* The reply is written; with an error or without one, the connection ends.
HandleWrite ==
  /\ stage = "handle_write"
  /\ stage' = "closed"
  /\ answer' = ToBuffers(reply)
  /\ UNCHANGED <<sent, wire, gone, parser, reply, client>>

\* The client reads the status line and hangs up.
ClientReads ==
  /\ answer # <<>> /\ ~ gone
  /\ client' = ReadStatusLine(answer)
  /\ gone' = TRUE
  /\ UNCHANGED <<sent, wire, parser, stage, reply, answer>>

\* The client exits in the middle of the request.
ClientExits ==
  /\ ~ gone /\ stage # "closed"
  /\ gone' = TRUE
  /\ UNCHANGED <<sent, wire, parser, stage, reply, answer, client>>

Server == HandleRead \/ HandleReadError \/ HandleWrite
Next   == Server \/ ClientReads \/ ClientExits

Spec == Init /\ [][Next]_vars /\ WF_vars(Server)

-----------------------------------------------------------------------------

\* The types: every state of the parser has a case in consume(), and the
\* connection reads on just as long as the parser wants more.
TypeOK ==
  /\ sent \in Requests
  /\ parser.state \in States
  /\ stage \in Stages /\ gone \in BOOLEAN
  /\ reply = NoReply \/ reply.status \in Cases
  /\ client.autherror \in BOOLEAN /\ client.statuscode \in Nat
  /\ parser.result = "indeterminate" <=> reply = NoReply
  /\ stage = "handle_read" => reply = NoReply
  /\ IsSuffix(wire, RequestText(sent))

\* The part of a body before the first marker in it.
BeforeMarker(body) ==
  LET ends == {i \in 0..Len(body) :
                  SubSeq(body \o Marker, i + 1, i + Len(Marker)) = Marker}
  IN SubSeq(body, 1, CHOOSE i \in ends : \A j \in ends : i <= j)

\* Not both a question mark, which ends the path, and a line end: behind them
\* the rest of a path would read as the headers.
OneLine(s) == ~ (Contains(s, "?") /\ Contains(s, LF))

(* However the text is cut into pieces, what the handler gets is what the  *)
(* client has put in: the method, the path, the values at the positions it *)
(* reads them from, and the body up to the first marker - all of it if     *)
(* there is none, since no text that the body ends in can begin the marker *)
(* (main.cpp:32-41, request_parser.cpp:22-307).                            *)
ReadsWhatWasSent ==
  parser.result = "true" /\ OneLine(sent.path) =>
    /\ parser.method = sent.method
    /\ parser.uri = sent.path
    /\ parser.headers = HeadersOf(sent)
    /\ parser.content = BeforeMarker(sent.body)

(* A request for a plain path is carried out for that very path, whatever  *)
(* blanks, dots and non-ASCII letters are in it and whatever the body is;  *)
(* a request whose path has a question mark (and no line end) is refused,  *)
(* it is never taken for one for another path (request_parser.cpp:53-78,   *)
(* 314-317, request_handler.cpp:50-64).                                    *)
PlainPathsArrive ==
  reply # NoReply /\ sent.hash \in Accounts /\ ~ Contains(sent.client, "?") =>
    /\ PlainPath(sent.path) =>
         /\ reply.status # "bad_request"
         /\ RequestPath(parser.uri) = {sent.path}
    /\ Contains(sent.path, "?") /\ ~ Contains(sent.path, LF) =>
         reply.status = "bad_request"

(* The server tells a login and a ping from the upload of a folder by two  *)
(* empty headers, which it finds by their position: it creates nothing for *)
(* the former, and never takes an upload for them (main.cpp:40-41, 269,    *)
(* 289, 327, request_handler.cpp:126-133).                                 *)
UploadsAndSignIns ==
  sent.method = POST /\ OneLine(sent.path)
    /\ reply.status \in {"created", "accepted"} =>
    (reply.status = "accepted" <=> sent.length = <<>>)

(* Exactly those who have an account are let in: what the client has       *)
(* encoded reads on the server as it was, although its padding is decoded  *)
(* to a zero byte more than there was (crypto.cpp:38-44 of both sides,     *)
(* request_handler.cpp:28-48).                                             *)
AccountsRecognized ==
  parser.result = "true" /\ OneLine(sent.path) =>
    (reply.status = "unauthorized" <=> sent.hash \notin Accounts)

(* Server and client agree on the codes: checksync takes an entry for      *)
(* missing or different, and the login takes itself for rejected, exactly  *)
(* if the server has found it so; and the client reads nothing that leaves *)
(* both of its members unset (reply.cpp:52-89, main.cpp:122-141, 246).     *)
RepliesUnderstood ==
  [][ClientReads =>
       /\ client'.autherror <=> reply.status = "unauthorized"
       /\ client'.statuscode \in {404, 305} <=>
            reply.status \in {"not_found", "not_sync"}
       /\ client' # NothingYet]_vars

(* A client that stays gets an answer: no request, with whatever body and  *)
(* cut into whatever pieces, leaves the server waiting for more of it when *)
(* all has arrived.  Fairness: the pool of threads runs what is ready      *)
(* (connection.cpp:35-75, README.md:18).                                   *)
Answered == <>(gone \/ reply # NoReply)

(* The content that the handler gets is that of the file (README.md:5:     *)
(* "keeping the content of the configured folder in sync").                *)
ContentArrives == parser.result = "true" => parser.content = sent.body

=============================================================================
