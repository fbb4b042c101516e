---------------------------- MODULE RepliesProofs ----------------------------
(***************************************************************************)
(* What a reply says, and what becomes of it: the proofs of RepliesTrue    *)
(* and UploadsKept, on the invariants of ServerProofs and OverlapProofs.   *)
(***************************************************************************)
EXTENDS OverlapProofs

\* The names tell files from folders.
FilesHaveNames == Files = HasExt /\ NamesTell

DirsNoExt == \A p \in Paths : kind[p] = "dir" => p \notin HasExt

\* Which requests come to which call.
MethodOK(c) ==
  /\ conn[c].stage \in {"get", "read"} => conn[c].method = "GET"
  /\ conn[c].stage = "delete" => conn[c].method = "DELETE"
  /\ conn[c].stage \in {"post", "mkdirs", "mkdir", "open", "write"}
       => conn[c].method = "POST"
  /\ conn[c].stage = "remove"
       => \/ conn[c].method = "DELETE"
          \/ conn[c].method = "POST" /\ conn[c].path \in HasExt
  /\ conn[c].method = "POST" => conn[c].body \in Bodies("POST", conn[c].path)

\* What a clean request relies on: the folders for its file are there, the file
\* that is written is empty and has its name, the one that is read is there and
\* has its name, the reply is true.
Ready(c) ==
  conn[c].clean =>
    /\ conn[c].stage = "read" => conn[c].linked /\ Present(conn[c].path)
    /\ conn[c].stage = "open" =>
         \A q \in Above[conn[c].path] : kind[q] = "dir"
    /\ conn[c].stage = "write" =>
         /\ conn[c].linked
         /\ kind[conn[c].path] = "file"
         /\ content[conn[c].path] = EmptyContent
    /\ conn[c].stage = "reply" /\ conn[c].path # NoPath => ReplyTrue(c)

RepliesInv == DirsNoExt /\ \A c \in Conns : MethodOK(c) /\ Ready(c)

(* A step of one request that changes nothing but above or below its entry *)
(* leaves what the others rely on.                                         *)
LEMMA OthersReply ==
  ASSUME HandlerInv, OverlapInv, RepliesInv, NEW c \in Conns,
         conn[c].path \in Paths, Active(c), DirsNoExt',
         conn[c].method # "GET" \/ (kind' = kind /\ content' = content),
         MethodOK(c)', Ready(c)',
         \A d \in Conns \ {c} :
           /\ conn'[d].stage = conn[d].stage /\ conn'[d].path = conn[d].path
           /\ conn'[d].clean = conn[d].clean /\ conn'[d].method = conn[d].method
           /\ conn'[d].body = conn[d].body /\ conn'[d].status = conn[d].status
           /\ conn[d].linked
              /\ (conn[c].method = "GET" \/ ~ Related(conn[c].path, conn[d].path))
                => conn'[d].linked,
         \A q \in Paths : kind'[q] # kind[q] \/ content'[q] # content[q]
                            => Related(conn[c].path, q),
         \A q \in Paths : ~ Present(q) /\ Present(q)'
                            => conn[c].path \in Subtree(q),
         \A q \in Paths : kind[q] = "dir" /\ kind'[q] # "dir"
                            => q \in Subtree(conn[c].path)
  PROVE  RepliesInv'
<1>1. ASSUME NEW d \in Conns, d # c PROVE MethodOK(d)'
  BY <1>1 DEF RepliesInv, MethodOK, Bodies, Contents
<1>2. ASSUME NEW d \in Conns, d # c PROVE Ready(d)'
  <2> SUFFICES ASSUME conn[d].clean, conn[d].path \in Paths, Active(d)
               PROVE  Ready(d)'
    <3>1. conn[d].path \in Paths \cup {NoPath}
      BY DEF HandlerInv, RequestsOK, Connection
    <3>2. Running(d) => conn[d].path \in Paths /\ Active(d)
      BY RunningActive
    <3> QED
      BY <1>2, <3>1, <3>2 DEF Ready, Running, Active
  <2>2. Ready(d)
    BY DEF RepliesInv
  <2>7. CASE conn[c].method = "GET"
    <3>1. ReplyTrue(d) => ReplyTrue(d)'
      BY <1>2, <2>7 DEF ReplyTrue, Subtree, Below, Present
    <3> QED
      BY <1>2, <2>2, <2>7, <3>1 DEF Ready, Present
  <2> SUFFICES ASSUME conn[c].method # "GET" PROVE Ready(d)'
    BY <2>7
  <2>1. ~ Related(conn[c].path, conn[d].path)
    BY <1>2 DEF OverlapInv, Apart
  <2>3. /\ kind'[conn[d].path] = kind[conn[d].path]
        /\ content'[conn[d].path] = content[conn[d].path]
    BY <2>1
  <2>4. ASSUME NEW q \in Above[conn[d].path], kind[q] = "dir" PROVE kind'[q] = "dir"
    <3>1. q \in Paths /\ conn[d].path \in Subtree(q)
      BY TreeAssumption DEF Subtree, Below
    <3>2. q \notin Subtree(conn[c].path)
      BY <2>1, <3>1, SubtreeBelow DEF Related
    <3> QED
      BY <2>4, <3>1, <3>2
  <2>5. ASSUME NEW q \in Subtree(conn[d].path), ~ Present(q) PROVE ~ Present(q)'
    <3>1. q \in Paths
      BY DEF Subtree, Below
    <3>2. conn[c].path \notin Subtree(q)
      BY <2>1, SubtreeBelow DEF Related
    <3> QED
      BY <2>5, <3>1, <3>2
  <2>6. ASSUME conn[d].stage = "reply", ReplyTrue(d) PROVE ReplyTrue(d)'
    <3>1. /\ conn'[d].path = conn[d].path /\ conn'[d].method = conn[d].method
          /\ conn'[d].body = conn[d].body /\ conn'[d].status = conn[d].status
      BY <1>2
    <3>2. ASSUME conn[d].method = "DELETE"
          PROVE  \A q \in Subtree(conn[d].path) : ~ Present(q)'
      BY <2>5, <2>6, <3>2 DEF ReplyTrue
    <3>3. Subtree(conn[d].path)' = Subtree(conn[d].path)
      BY <3>1 DEF Subtree, Below
    <3>4. Present(conn[d].path)' = Present(conn[d].path)
      BY <2>3, <3>1 DEF Present
    <3> QED
      BY <2>3, <2>6, <3>1, <3>2, <3>3, <3>4 DEF ReplyTrue
  <2> QED
    BY <1>2, <2>1, <2>2, <2>3, <2>4, <2>6 DEF Ready, Present
<1> QED
  BY <1>1, <1>2 DEF RepliesInv

(* A step of one request that leaves the folder alone.                     *)
LEMMA SameFolderReply ==
  ASSUME HandlerInv, OverlapInv, RepliesInv, NEW c \in Conns, Running(c),
         kind' = kind, content' = content,
         NEW r, conn' = [conn EXCEPT ![c] = r],
         MethodOK(c)', Ready(c)'
  PROVE  RepliesInv'
<1>1. conn[c].path \in Paths /\ Active(c)
  BY RunningActive
<1>2. \A d \in Conns \ {c} : conn'[d] = conn[d]
  BY DEF HandlerInv, RequestsOK
<1>3. DirsNoExt'
  BY DEF RepliesInv, DirsNoExt
<1>4. \A q \in Paths : Present(q)' = Present(q)
  BY DEF Present
<1> QED
  BY <1>1, <1>2, <1>3, <1>4, OthersReply

(* The request is answered: what the reply says is so when it is given.    *)
LEMMA AnswerReply ==
  ASSUME HandlerInv, OverlapInv, RepliesInv, NEW c \in Conns, Running(c),
         kind' = kind, content' = content, NEW s, Finish(c, s),
         conn[c].clean => ReplyTrue(c)'
  PROVE  RepliesInv'
<1> DEFINE r == [conn[c] EXCEPT !.stage = "reply", !.status = s]
<1>1. conn' = [conn EXCEPT ![c] = r] /\ conn'[c] = r
  BY DEF Finish, HandlerInv, RequestsOK
<1>2. /\ r.stage = "reply" /\ r.path = conn[c].path /\ r.clean = conn[c].clean
      /\ r.method = conn[c].method /\ r.body = conn[c].body
  BY RunningActive DEF Connection
<1>3. MethodOK(c)'
  BY <1>1, <1>2 DEF RepliesInv, MethodOK, Bodies, Contents
<1>4. Ready(c)'
  BY <1>1, <1>2 DEF Ready
<1> QED
  BY <1>1, <1>3, <1>4, SameFolderReply

(* The reply in terms of the request.                                      *)
LEMMA Answered ==
  ASSUME HandlerInv, NEW c \in Conns, Running(c), NEW s, Finish(c, s)
  PROVE  /\ conn'[c].path = conn[c].path /\ conn'[c].method = conn[c].method
         /\ conn'[c].body = conn[c].body /\ conn'[c].status = s
  BY RunningActive DEF Finish, HandlerInv, RequestsOK, Connection

(* A GET of what is not there is answered; else it is opened.              *)
LEMMA GetOpenReply ==
  ASSUME HandlerInv, OverlapInv, RepliesInv, NEW c \in Conns, GetOpen(c)
  PROVE  RepliesInv'
<1> DEFINE p == conn[c].path
<1>1. Running(c) /\ kind' = kind /\ content' = content /\ conn[c].method = "GET"
  BY DEF GetOpen, Running, RepliesInv, MethodOK
<1>2. CASE Present(p)
  <2> DEFINE r == [conn[c] EXCEPT !.stage = "read", !.linked = TRUE]
  <2>1. conn' = [conn EXCEPT ![c] = r] /\ conn'[c] = r
    BY <1>2 DEF GetOpen, Set, HandlerInv, RequestsOK
  <2>2. r.stage = "read" /\ r.method = "GET" /\ r.linked /\ r.path = p
    BY <1>1, RunningActive DEF Connection
  <2>3. MethodOK(c)' /\ Ready(c)'
    BY <1>1, <1>2, <2>1, <2>2 DEF MethodOK, Ready, Present
  <2> QED
    BY <1>1, <2>1, <2>3, SameFolderReply
<1>3. CASE ~ Present(p)
  <2>1. Finish(c, "not_found")
    BY <1>3 DEF GetOpen
  <2>2. /\ conn'[c].path = p /\ conn'[c].method = "GET"
        /\ conn'[c].status = "not_found"
    BY <1>1, <2>1, Answered
  <2>3. ReplyTrue(c)'
    BY <1>1, <1>3, <2>2 DEF ReplyTrue, Present
  <2> QED
    BY <1>1, <2>1, <2>3, AnswerReply
<1> QED
  BY <1>2, <1>3

(* The comparison of a GET is true if nothing has come between.            *)
LEMMA GetReadReply ==
  ASSUME HandlerInv, OverlapInv, RepliesInv, NEW c \in Conns, GetRead(c)
  PROVE  RepliesInv'
<1> DEFINE p == conn[c].path
<1>1. PICK s \in {"accepted", "not_sync"} :
        /\ Finish(c, s)
        /\ conn[c].linked => (s = "accepted" <=> content[p] = conn[c].body)
  BY DEF GetRead
<1>2. Running(c) /\ kind' = kind /\ content' = content /\ conn[c].stage = "read"
  BY DEF GetRead, Running
<1>3. /\ conn'[c].path = p /\ conn'[c].method = "GET"
      /\ conn'[c].body = conn[c].body /\ conn'[c].status = s
  BY <1>1, <1>2, Answered DEF RepliesInv, MethodOK
<1>4. conn[c].clean => ReplyTrue(c)'
  <2>1. conn[c].clean => conn[c].linked /\ Present(p)
    BY <1>2 DEF RepliesInv, Ready
  <2> QED
    BY <1>1, <1>2, <1>3, <2>1 DEF ReplyTrue, Present
<1> QED
  BY <1>1, <1>2, <1>4, AnswerReply

(* A DELETE of what is not there has nothing to remove; else it starts to. *)
LEMMA DeleteReply ==
  ASSUME HandlerInv, OverlapInv, RepliesInv, NEW c \in Conns, DeleteOpen(c)
  PROVE  RepliesInv'
<1> DEFINE p == conn[c].path
<1>1. Running(c) /\ kind' = kind /\ content' = content /\ p \in Paths
  BY RunningActive DEF DeleteOpen, Running
<1>2. CASE Present(p)
  <2> DEFINE T == {q \in Subtree(p) : Present(q)}
             r == [conn[c] EXCEPT !.stage = "remove", !.todo = T]
  <2>1. conn' = [conn EXCEPT ![c] = r] /\ conn'[c] = r
    BY <1>2 DEF DeleteOpen, StartRemove, Set, HandlerInv, RequestsOK
  <2>2. r.stage = "remove" /\ r.method = "DELETE"
    BY <1>1, RunningActive DEF Connection, DeleteOpen, RepliesInv, MethodOK
  <2>3. MethodOK(c)' /\ Ready(c)'
    BY <2>1, <2>2 DEF MethodOK, Ready
  <2> QED
    BY <1>1, <2>1, <2>3, SameFolderReply
<1>3. CASE ~ Present(p)
  <2>1. Finish(c, "not_found")
    BY <1>3 DEF DeleteOpen
  <2>2. conn'[c].path = p /\ conn'[c].method = "DELETE"
    BY <1>1, <2>1, Answered DEF DeleteOpen, RepliesInv, MethodOK
  <2>3. ASSUME NEW q \in Subtree(p) PROVE ~ Present(q)
    BY <1>1, <1>3 DEF Subtree, Below, HandlerInv, FilesOK, InPlace, Present
  <2>4. ReplyTrue(c)'
    BY <1>1, <2>2, <2>3 DEF ReplyTrue, Subtree, Below, Present
  <2> QED
    BY <1>1, <2>1, <2>4, AnswerReply
<1> QED
  BY <1>2, <1>3

(* A POST for a name with an extension: the old entry goes first.          *)
LEMMA PostReply ==
  ASSUME HandlerInv, OverlapInv, RepliesInv, NEW c \in Conns, PostOpen(c)
  PROVE  RepliesInv'
<1>1. Running(c) /\ kind' = kind /\ content' = content
  BY DEF PostOpen, Running
<1>2. PICK s \in {"remove", "mkdirs"}, T \in SUBSET Paths :
        conn' = [conn EXCEPT ![c] = [conn[c] EXCEPT !.stage = s, !.todo = T]]
  <2>1. CASE Present(conn[c].path)
    <3>1. {q \in Subtree(conn[c].path) : Present(q)} \in SUBSET Paths
      BY <1>1, RunningActive DEF Subtree, Below
    <3> QED
      BY <2>1, <3>1 DEF PostOpen, StartRemove, Set
  <2>2. CASE ~ Present(conn[c].path)
    <3>1. [conn[c] EXCEPT !.stage = "mkdirs"]
            = [conn[c] EXCEPT !.stage = "mkdirs", !.todo = conn[c].todo]
          /\ conn[c].todo \in SUBSET Paths
      BY <1>1, RunningActive DEF Connection
    <3> QED
      BY <2>2, <3>1 DEF PostOpen, Set
  <2> QED
    BY <2>1, <2>2
<1> DEFINE r == [conn[c] EXCEPT !.stage = s, !.todo = T]
<1>3. conn'[c] = r
  BY <1>2 DEF HandlerInv, RequestsOK
<1>4. /\ r.stage = s /\ r.path = conn[c].path /\ r.body = conn[c].body
      /\ r.method = conn[c].method
  BY <1>1, RunningActive DEF Connection
<1>5. MethodOK(c)' /\ Ready(c)'
  BY <1>3, <1>4
  DEF PostOpen, OverlapInv, StageOK, RepliesInv, MethodOK, Ready, Bodies, Contents
<1> QED
  BY <1>1, <1>2, <1>5, SameFolderReply

(* Everything is removed: a DELETE is done, a POST goes on.                *)
LEMMA RemoveDoneReply ==
  ASSUME HandlerInv, OverlapInv, RepliesInv, NEW c \in Conns, RemoveDone(c)
  PROVE  RepliesInv'
<1>1. /\ Running(c) /\ kind' = kind /\ content' = content
      /\ conn[c].path \in Paths /\ conn[c].stage = "remove"
      /\ conn[c].todo = {}
  BY RunningActive DEF RemoveDone, Running
<1>2. CASE conn[c].method = "DELETE"
  <2>1. Finish(c, "accepted")
    BY <1>2 DEF RemoveDone
  <2>2. conn'[c].path = conn[c].path /\ conn'[c].method = "DELETE"
    BY <1>1, <1>2, <2>1, Answered
  <2>3. conn[c].clean => \A q \in Subtree(conn[c].path) : ~ Present(q)
    BY <1>1 DEF OverlapInv, CleanOK
  <2>4. conn[c].clean => ReplyTrue(c)'
    BY <1>1, <2>2, <2>3 DEF ReplyTrue, Subtree, Below, Present
  <2> QED
    BY <1>1, <2>1, <2>4, AnswerReply
<1>3. CASE conn[c].method # "DELETE"
  <2> DEFINE r == [conn[c] EXCEPT !.stage = "mkdirs"]
  <2>1. conn' = [conn EXCEPT ![c] = r] /\ conn'[c] = r
    BY <1>3 DEF RemoveDone, Set, HandlerInv, RequestsOK
  <2>2. /\ r.stage = "mkdirs" /\ r.path = conn[c].path
        /\ r.body = conn[c].body /\ r.method = conn[c].method
    BY <1>1, RunningActive DEF Connection
  <2>3. MethodOK(c)' /\ Ready(c)'
    BY <1>1, <1>3, <2>1, <2>2 DEF RepliesInv, MethodOK, Ready, Bodies, Contents
  <2> QED
    BY <1>1, <2>1, <2>3, SameFolderReply
<1> QED
  BY <1>2, <1>3

(* The missing folders are looked up.                                      *)
LEMMA MkdirsReply ==
  ASSUME HandlerInv, OverlapInv, RepliesInv, NEW c \in Conns, Mkdirs(c)
  PROVE  RepliesInv'
<1> DEFINE r == [conn[c] EXCEPT !.stage = "mkdir",
                                !.todo = {q \in Wanted(c) : ~ Present(q)}]
<1>1. Running(c) /\ kind' = kind /\ content' = content /\ conn[c].stage = "mkdirs"
  BY DEF Mkdirs, Running
<1>2. conn' = [conn EXCEPT ![c] = r] /\ conn'[c] = r
  BY DEF Mkdirs, Set, HandlerInv, RequestsOK
<1>3. /\ r.stage = "mkdir" /\ r.path = conn[c].path
      /\ r.body = conn[c].body /\ r.method = conn[c].method
  BY <1>1, RunningActive DEF Connection
<1>4. MethodOK(c)' /\ Ready(c)'
  BY <1>1, <1>2, <1>3 DEF RepliesInv, MethodOK, Ready, Bodies, Contents
<1> QED
  BY <1>1, <1>2, <1>4, SameFolderReply

(* A folder is created, under a name without an extension.                 *)
LEMMA MkdirReply ==
  ASSUME NamesTell, HandlerInv, OverlapInv, RepliesInv, NEW c \in Conns, Mkdir(c)
  PROVE  RepliesInv'
<1>1. PICK q \in conn[c].todo :
        /\ conn[c].stage = "mkdir" /\ InPlace(q)
        /\ kind' = [kind EXCEPT ![q] = "dir"] /\ content' = content
        /\ conn' = [conn EXCEPT ![c] = [conn[c] EXCEPT !.todo = @ \ {q}]]
  BY DEF Mkdir, Set
<1> DEFINE r == [conn[c] EXCEPT !.todo = @ \ {q}]
<1>2. /\ Running(c) /\ conn[c] \in Connection
      /\ conn[c].path \in Paths /\ Active(c)
  BY <1>1, RunningActive DEF Running
<1>3. /\ conn'[c] = r /\ r.stage = "mkdir" /\ r.path = conn[c].path
      /\ r.body = conn[c].body /\ r.method = conn[c].method
  BY <1>1, <1>2 DEF Connection, HandlerInv, RequestsOK
<1>4. q \in Wanted(c) /\ q \in Paths /\ conn[c].path \in Subtree(q)
  BY <1>1, <1>2, WantedAbove DEF OverlapInv, StageOK
<1>5. q \notin HasExt /\ conn[c].method # "GET"
  BY <1>1, <1>2, <1>4 DEF NamesTell, Wanted, RepliesInv, MethodOK
<1>6. DirsNoExt'
  BY <1>1, <1>4, <1>5 DEF RepliesInv, DirsNoExt, HandlerInv, FilesOK
<1>7. MethodOK(c)' /\ Ready(c)'
  BY <1>1, <1>3 DEF RepliesInv, MethodOK, Ready, Bodies, Contents
<1>8. \A p \in Paths : kind'[p] # kind[p] \/ content'[p] # content[p] => p = q
  BY <1>1, <1>4 DEF HandlerInv, FilesOK
<1>9. \A p \in Paths : kind[p] = "dir" => kind'[p] = "dir"
  BY <1>1, <1>4 DEF HandlerInv, FilesOK
<1>10. \A d \in Conns \ {c} : conn'[d] = conn[d]
  BY <1>1 DEF HandlerInv, RequestsOK
<1>11. \A p \in Paths : ~ Present(p) /\ Present(p)' => p = q
  BY <1>8 DEF Present
<1> QED
  BY <1>2, <1>4, <1>5, <1>6, <1>7, <1>8, <1>9, <1>10, <1>11, OthersReply
  DEF Related

(* All folders are there: a file can be opened in them, or the POST of a   *)
(* folder is done.                                                         *)
LEMMA MkdirDoneReply ==
  ASSUME FilesHaveNames, HandlerInv, OverlapInv, RepliesInv,
         NEW c \in Conns, MkdirDone(c)
  PROVE  RepliesInv'
<1> DEFINE p == conn[c].path
<1>1. /\ Running(c) /\ kind' = kind /\ content' = content /\ p \in Paths
      /\ conn[c].method = "POST"
  BY RunningActive DEF MkdirDone, Running, RepliesInv, MethodOK
<1>2. conn[c].clean => \A q \in Wanted(c) : kind[q] = "dir"
  BY DEF MkdirDone, OverlapInv, CleanOK
<1>3. CASE p \in HasExt
  <2> DEFINE r == [conn[c] EXCEPT !.stage = "open"]
  <2>1. conn' = [conn EXCEPT ![c] = r] /\ conn'[c] = r
    BY <1>3 DEF MkdirDone, Set, HandlerInv, RequestsOK
  <2>2. /\ r.stage = "open" /\ r.path = p /\ r.clean = conn[c].clean
        /\ r.body = conn[c].body /\ r.method = "POST"
    BY <1>1, RunningActive DEF Connection
  <2>3. MethodOK(c)'
    BY <1>1, <2>1, <2>2 DEF RepliesInv, MethodOK, Bodies, Contents
  <2>4. Ready(c)'
    BY <1>1, <1>2, <1>3, <2>1, <2>2 DEF Ready, Wanted
  <2> QED
    BY <1>1, <2>1, <2>3, <2>4, SameFolderReply
<1>4. CASE p \notin HasExt
  <2>1. Finish(c, "created")
    BY <1>4 DEF MkdirDone
  <2>2. /\ conn'[c].path = p /\ conn'[c].method = "POST"
        /\ conn'[c].body = conn[c].body /\ conn'[c].status = "created"
    BY <1>1, <2>1, Answered
  <2>3. conn[c].body = EmptyContent
    BY <1>1, <1>4 DEF FilesHaveNames, RepliesInv, MethodOK, Bodies
  <2>4. conn[c].clean => kind[p] = "dir" /\ content[p] = EmptyContent
    BY <1>1, <1>2, <1>4 DEF Wanted, HandlerInv, FilesOK
  <2>5. conn[c].clean => ReplyTrue(c)'
    BY <1>1, <1>4, <2>2, <2>3, <2>4 DEF FilesHaveNames, ReplyTrue, Present
  <2> QED
    BY <1>1, <2>1, <2>5, AnswerReply
<1> QED
  BY <1>3, <1>4

(* The file is opened, and nothing keeps it from that.                     *)
LEMMA OpenReply ==
  ASSUME HandlerInv, OverlapInv, RepliesInv, NEW c \in Conns, OpenFile(c)
  PROVE  RepliesInv'
<1> DEFINE p == conn[c].path
           r == [conn[c] EXCEPT !.stage = "write", !.linked = TRUE]
<1>1. /\ Running(c) /\ conn[c] \in Connection /\ p \in Paths /\ Active(c)
      /\ conn[c].stage = "open" /\ p \in HasExt
  BY RunningActive DEF Running, OpenFile, OverlapInv, StageOK
<1>2. CASE kind[p] = "dir" \/ ~ InPlace(p)
  <2>1. ~ conn[c].clean
    BY <1>1, <1>2 DEF RepliesInv, DirsNoExt, Ready, InPlace
  <2> QED
    BY <1>1, <1>2, <2>1, AnswerReply DEF OpenFile
<1>3. CASE ~ (kind[p] = "dir" \/ ~ InPlace(p))
  <2>1. /\ kind' = [kind EXCEPT ![p] = "file"]
        /\ content' = [content EXCEPT ![p] = EmptyContent]
        /\ conn' = [conn EXCEPT ![c] = r]
    BY <1>3 DEF OpenFile, Set
  <2>2. /\ conn'[c] = r /\ r.stage = "write" /\ r.path = p /\ r.linked
        /\ r.body = conn[c].body /\ r.method = conn[c].method
    BY <1>1, <2>1 DEF Connection, HandlerInv, RequestsOK
  <2>3. MethodOK(c)'
    BY <1>1, <2>2 DEF RepliesInv, MethodOK, Bodies, Contents
  <2>4. Ready(c)'
    BY <1>1, <2>1, <2>2 DEF Ready, HandlerInv, FilesOK
  <2>5. DirsNoExt'
    BY <1>1, <2>1 DEF RepliesInv, DirsNoExt, HandlerInv, FilesOK
  <2>6. \A q \in Paths : kind'[q] # kind[q] \/ content'[q] # content[q] => q = p
    BY <1>1, <2>1 DEF HandlerInv, FilesOK
  <2>7. \A q \in Paths : kind[q] = "dir" => kind'[q] = "dir"
    BY <1>1, <1>3, <2>1 DEF HandlerInv, FilesOK
  <2>8. \A d \in Conns \ {c} : conn'[d] = conn[d]
    BY <2>1 DEF HandlerInv, RequestsOK
  <2>9. \A q \in Paths : ~ Present(q) /\ Present(q)' => q = p
    BY <2>6 DEF Present
  <2>10. p \in Subtree(p) /\ conn[c].method # "GET"
    BY <1>1 DEF Subtree, RepliesInv, MethodOK
  <2> QED
    BY <1>1, <2>3, <2>4, <2>5, <2>6, <2>7, <2>8, <2>9, <2>10, OthersReply
    DEF Related
<1> QED
  BY <1>2, <1>3

(* What is written to the empty file is what was sent.                     *)
LEMMA WriteReply ==
  ASSUME FilesHaveNames, HandlerInv, LinkedOK, OverlapInv, RepliesInv,
         NEW c \in Conns, WriteFile(c)
  PROVE  RepliesInv'
<1> DEFINE p == conn[c].path
           r == [conn[c] EXCEPT !.stage = "reply", !.status = "created"]
<1>1. /\ Running(c) /\ conn[c] \in Connection /\ p \in Paths /\ Active(c)
      /\ conn[c].method = "POST" /\ p \in HasExt /\ kind' = kind
  BY RunningActive
  DEF Running, WriteFile, OverlapInv, StageOK, RepliesInv, MethodOK
<1>2. conn' = [conn EXCEPT ![c] = r]
  BY DEF WriteFile, Finish
<1>3. /\ conn'[c] = r /\ r.stage = "reply" /\ r.path = p /\ r.clean = conn[c].clean
      /\ r.body = conn[c].body /\ r.method = "POST" /\ r.status = "created"
  BY <1>1, <1>2 DEF Connection, HandlerInv, RequestsOK
<1>4. \A q \in Paths : content'[q] # content[q] => q = p
  BY <1>1 DEF WriteFile, HandlerInv, FilesOK
<1>5. ASSUME conn[c].clean
      PROVE  kind'[p] = "file" /\ content'[p] = conn[c].body
  <2>1. conn[c].linked /\ kind[p] = "file" /\ content[p] = EmptyContent
    BY <1>5 DEF RepliesInv, Ready, WriteFile
  <2>2. Overlay(EmptyContent, conn[c].body) = conn[c].body
    BY TreeAssumption DEF Overlay, Torn, EmptyContent, FirstStamp
  <2> QED
    BY <1>1, <2>1, <2>2 DEF WriteFile, HandlerInv, FilesOK
<1>6. conn[c].clean => ReplyTrue(c)'
  BY <1>1, <1>3, <1>5 DEF ReplyTrue, Present, FilesHaveNames
<1>7. MethodOK(c)' /\ Ready(c)'
  BY <1>1, <1>3, <1>6 DEF RepliesInv, MethodOK, Ready, Bodies, Contents
<1>8. DirsNoExt' /\ \A q \in Paths : Present(q)' = Present(q)
  BY <1>1 DEF RepliesInv, DirsNoExt, Present
<1>9. \A d \in Conns \ {c} : conn'[d] = conn[d]
  BY <1>2 DEF HandlerInv, RequestsOK
<1>10. p \in Subtree(p) /\ conn[c].method # "GET"
  BY <1>1 DEF Subtree
<1> QED
  BY <1>1, <1>3, <1>4, <1>7, <1>8, <1>9, <1>10, OthersReply DEF Related

(* The error reply is one that WritesFail accounts for.                    *)
LEMMA WriteFailsReply ==
  ASSUME HandlerInv, OverlapInv, RepliesInv, NEW c \in Conns, WriteFails(c)
  PROVE  RepliesInv'
<1>1. /\ Running(c) /\ kind' = kind /\ content' = content /\ WritesFail
      /\ conn[c].method = "POST" /\ Finish(c, "internal_server_error")
  BY DEF WriteFails, Running, RepliesInv, MethodOK
<1>2. ReplyTrue(c)'
  BY <1>1, Answered DEF ReplyTrue
<1> QED
  BY <1>1, <1>2, AnswerReply

(* An entry is removed; only a request that overlaps loses its file.       *)
LEMMA RemoveReply ==
  ASSUME HandlerInv, OverlapInv, RepliesInv, NEW c \in Conns, RemoveOne(c)
  PROVE  RepliesInv'
<1>1. PICK q \in Removable(c) :
        /\ conn[c].stage = "remove"
        /\ kind' = [kind EXCEPT ![q] = "absent"]
        /\ content' = [content EXCEPT ![q] = EmptyContent]
        /\ conn' = [d \in Conns |->
             IF d = c THEN [conn[d] EXCEPT !.todo = @ \ {q}]
             ELSE [conn[d] EXCEPT !.linked = @ /\ conn[d].path # q]]
  BY DEF RemoveOne
<1>2. /\ Running(c) /\ conn[c] \in Connection
      /\ conn[c].path \in Paths /\ Active(c)
  BY <1>1, RunningActive DEF Running
<1>3. /\ conn'[c].stage = "remove" /\ conn'[c].path = conn[c].path
      /\ conn'[c].body = conn[c].body /\ conn'[c].method = conn[c].method
  BY <1>1, <1>2 DEF Connection
<1>4. /\ q \in Subtree(conn[c].path) /\ q \in Paths
      /\ conn[c].method # "GET"
  BY <1>1, <1>2
  DEF Removable, OverlapInv, StageOK, Connection, RepliesInv, MethodOK
<1>5. ASSUME NEW d \in Conns \ {c}
      PROVE  /\ conn'[d].stage = conn[d].stage /\ conn'[d].path = conn[d].path
             /\ conn'[d].clean = conn[d].clean /\ conn'[d].method = conn[d].method
             /\ conn'[d].body = conn[d].body /\ conn'[d].status = conn[d].status
             /\ conn'[d].linked = (conn[d].linked /\ conn[d].path # q)
  BY <1>1 DEF HandlerInv, RequestsOK, Connection
<1>6. MethodOK(c)' /\ Ready(c)'
  BY <1>1, <1>3 DEF RepliesInv, MethodOK, Ready, Bodies, Contents
<1>7. DirsNoExt'
  BY <1>1, <1>4 DEF RepliesInv, DirsNoExt, HandlerInv, FilesOK
<1>8. \A p \in Paths : kind'[p] # kind[p] \/ content'[p] # content[p] => p = q
  BY <1>1, <1>4 DEF HandlerInv, FilesOK
<1>9. \A p \in Paths : Present(p)' => Present(p)
  BY <1>1, <1>4 DEF Present, HandlerInv, FilesOK
<1> QED
  BY <1>2, <1>4, <1>5, <1>6, <1>7, <1>8, <1>9, OthersReply DEF Related

(* A connection that is not worked on changes, and the others only lose    *)
(* their being clean.                                                      *)
LEMMA ConnectionReply ==
  ASSUME HandlerInv, RepliesInv, NEW c \in Conns,
         kind' = kind, content' = content, MethodOK(c)', Ready(c)',
         \A d \in Conns \ {c} :
           /\ conn'[d].stage = conn[d].stage /\ conn'[d].path = conn[d].path
           /\ conn'[d].method = conn[d].method /\ conn'[d].body = conn[d].body
           /\ conn'[d].status = conn[d].status /\ conn'[d].linked = conn[d].linked
           /\ conn'[d].clean => conn[d].clean
  PROVE  RepliesInv'
<1>1. DirsNoExt'
  BY DEF RepliesInv, DirsNoExt
<1>2. ASSUME NEW d \in Conns, d # c PROVE MethodOK(d)' /\ Ready(d)'
  <2>1. MethodOK(d)'
    BY <1>2 DEF RepliesInv, MethodOK, Bodies, Contents
  <2>2. ReplyTrue(d) => ReplyTrue(d)'
    BY <1>2 DEF ReplyTrue, Subtree, Below, Present
  <2>3. Ready(d)'
    BY <1>2, <2>2 DEF RepliesInv, Ready, Present
  <2> QED
    BY <2>1, <2>3
<1> QED
  BY <1>1, <1>2 DEF RepliesInv

(* A request comes in, and comes to the call that is for its method.       *)
LEMMA ReceiveReply ==
  ASSUME HandlerInv, RepliesInv, NEW c \in Conns, Receive(c)
  PROVE  RepliesInv'
<1>1. PICK m \in {"GET", "POST", "DELETE"}, p \in Paths :
        \E b \in Bodies(m, p) : Admit(c, m, p, b)
  BY DEF Receive
<1>2. PICK b \in Bodies(m, p) : Admit(c, m, p, b)
  BY <1>1
<1>3. /\ conn'[c].stage = FirstStage(m, p) /\ conn'[c].path = p
      /\ conn'[c].method = m /\ conn'[c].body = b
  BY <1>2 DEF Admit, Request
<1>4. ASSUME NEW d \in Conns \ {c}
      PROVE  /\ conn'[d].stage = conn[d].stage /\ conn'[d].path = conn[d].path
             /\ conn'[d].method = conn[d].method /\ conn'[d].body = conn[d].body
             /\ conn'[d].status = conn[d].status /\ conn'[d].linked = conn[d].linked
             /\ conn'[d].clean => conn[d].clean
  BY <1>2 DEF Admit, HandlerInv, RequestsOK, Connection
<1>5. MethodOK(c)'
  BY <1>2, <1>3 DEF MethodOK, FirstStage, Bodies, Contents
<1>6. Ready(c)'
  BY <1>2, <1>3 DEF Ready, FirstStage
<1> QED
  BY <1>2, <1>4, <1>5, <1>6, ConnectionReply DEF Admit

(* The connection is closed, or answered at once.                          *)
LEMMA IdleReply ==
  ASSUME HandlerInv, OverlapInv, RepliesInv, NEW c \in Conns,
         Reply(c) \/ Dismiss(c)
  PROVE  RepliesInv'
<1>1. /\ kind' = kind /\ content' = content
      /\ \A d \in Conns \ {c} : conn'[d] = conn[d]
  BY DEF Reply, Dismiss, Set, Finish, HandlerInv, RequestsOK
<1>2. MethodOK(c)' /\ Ready(c)'
  <2>1. CASE Reply(c)
    BY <2>1 DEF Reply, Set, NoConnection, HandlerInv, RequestsOK, MethodOK, Ready
  <2>2. CASE Dismiss(c)
    <3>1. /\ conn'[c].stage = "reply" /\ conn'[c].path = NoPath
          /\ conn[c].path = NoPath /\ conn'[c].method = conn[c].method
          /\ conn'[c].body = conn[c].body
      BY <2>2 DEF Dismiss, Finish, OverlapInv, StageOK, HandlerInv, RequestsOK,
         Connection
    <3> QED
      BY <3>1 DEF RepliesInv, MethodOK, Ready, Bodies, Contents
  <2> QED
    BY <2>1, <2>2
<1> QED
  BY <1>1, <1>2, ConnectionReply

(* The end of the process and its next start leave no request.             *)
LEMMA EndReply ==
  ASSUME RepliesInv, Terminate \/ Restart PROVE RepliesInv'
<1>1. CASE Terminate
  BY <1>1 DEF Terminate, NoConnection, RepliesInv, DirsNoExt, MethodOK, Ready
<1>2. CASE Restart
  BY <1>2 DEF Restart, RepliesInv, DirsNoExt, MethodOK, Ready, ReplyTrue, Bodies,
     Contents, Present, Subtree, Below
<1> QED
  BY <1>1, <1>2

(* Every step keeps the invariant.                                         *)
LEMMA NextRepliesInv ==
  ASSUME FilesHaveNames, HandlerInv, LinkedOK, OverlapInv, RepliesInv,
         [Next]_vars
  PROVE  RepliesInv'
<1>1. CASE UNCHANGED vars
  BY <1>1 DEF vars, RepliesInv, DirsNoExt, MethodOK, Ready, ReplyTrue, Bodies,
     Contents, Present, Subtree, Below
<1>2. CASE Stop \/ Restart \/ \E c \in Conns : MkdirThrows(c) \/ RemoveThrows(c)
  BY <1>2, EndReply DEF Stop, MkdirThrows, RemoveThrows
<1>3. ASSUME NEW c \in Conns, Receive(c) \/ Dismiss(c) \/ Reply(c)
      PROVE  RepliesInv'
  BY <1>3, ReceiveReply, IdleReply
<1>4. ASSUME NEW c \in Conns,
             \/ GetOpen(c) \/ GetRead(c) \/ PostOpen(c) \/ DeleteOpen(c)
             \/ RemoveOne(c) \/ RemoveDone(c)
      PROVE  RepliesInv'
  BY <1>4, GetOpenReply, GetReadReply, PostReply, DeleteReply, RemoveReply,
     RemoveDoneReply
<1>5. ASSUME NEW c \in Conns,
             \/ Mkdirs(c) \/ Mkdir(c) \/ MkdirDone(c)
             \/ OpenFile(c) \/ WriteFile(c) \/ WriteFails(c)
      PROVE  RepliesInv'
  BY <1>5, MkdirsReply, MkdirReply, MkdirDoneReply, OpenReply, WriteReply,
     WriteFailsReply DEF FilesHaveNames
<1> QED
  BY <1>1, <1>2, <1>3, <1>4, <1>5 DEF Next, HandleRequest

(* If the names tell files from folders, the reply to a request that no    *)
(* other one on a related entry overlaps is true, whatever the tree, the   *)
(* number of connections and the way their calls interleave                *)
(* (request_handler.cpp:82-145).                                           *)
THEOREM RepliesAreTrue ==
  ASSUME FilesHaveNames PROVE Spec => []RepliesTrue
<1> DEFINE Inv == HandlerIInv /\ OverlapInv /\ RepliesInv
<1>1. Init => Inv
  <2>1. Init => HandlerIInv
    BY InitHandlerIInv
  <2>2. Init => OverlapInv
    BY DEF Init, NoConnection, OverlapInv, FilesHaveExt, StageOK, Apart, CleanOK,
       Active
  <2>3. Init => RepliesInv
    BY DEF Init, NoConnection, RepliesInv, DirsNoExt, MethodOK, Ready
  <2> QED
    BY <2>1, <2>2, <2>3
<1>2. Inv /\ [Next]_vars => Inv'
  BY NextHandlerIInv, NextOverlapInv, NextRepliesInv DEF HandlerIInv
<1>3. Inv => RepliesTrue
  BY DEF RepliesInv, Ready, RepliesTrue
<1> QED
  BY <1>1, <1>2, <1>3, PTL DEF Spec

-----------------------------------------------------------------------------
\* A POST of p that has removed the file, or is about to, and has not opened the
\* new one yet.
Rewrites(c, p) ==
  /\ conn[c].path = p /\ conn[c].method = "POST"
  /\ conn[c].stage \in {"remove", "mkdirs", "mkdir", "open"}

\* The file p is there or will be, in a folder that is there.
Safe(p) ==
  /\ p \in HasExt /\ InPlace(p)
  /\ Present(p) \/ \E c \in Conns : Rewrites(c, p)

StoredInv == \A p \in stored : Safe(p) /\ ~ Deleting(p)

(* A file is safe if the step of a request leaves it, or goes on to        *)
(* write it.                                                               *)
LEMMA SafeStep ==
  ASSUME NEW c \in Conns, NEW p \in Paths, Safe(p), InPlace(p)',
         Present(p) => Present(p)' \/ Rewrites(c, p)',
         ~ Present(p) /\ Rewrites(c, p) => Present(p)' \/ Rewrites(c, p)',
         \A d \in Conns \ {c} :
           /\ conn'[d].stage = conn[d].stage /\ conn'[d].path = conn[d].path
           /\ conn'[d].method = conn[d].method
  PROVE  Safe(p)'
<1>1. ASSUME NEW d \in Conns \ {c}, Rewrites(d, p) PROVE Rewrites(d, p)'
  BY <1>1 DEF Rewrites
<1>2. CASE Present(p)
  BY <1>2 DEF Safe
<1>3. CASE ~ Present(p)
  BY <1>1, <1>3 DEF Safe
<1> QED
  BY <1>2, <1>3

(* The calls that leave the entries what they are: a POST that is to write *)
(* the file goes on to open it.                                            *)
LEMMA SafeLook ==
  ASSUME HandlerInv, NEW c \in Conns, NEW p \in Paths,
         Safe(p), kind' = kind,
         Rewrites(c, p) /\ ~ Present(p) => Rewrites(c, p)',
         \A d \in Conns \ {c} :
           /\ conn'[d].stage = conn[d].stage /\ conn'[d].path = conn[d].path
           /\ conn'[d].method = conn[d].method
  PROVE  Safe(p)'
<1>1. InPlace(p)' /\ Present(p)' = Present(p)
  BY DEF Safe, InPlace, Present
<1> QED
  BY <1>1, SafeStep

(* No call takes a file away that is not to be removed for a DELETE.       *)
LEMMA SafeHandle ==
  ASSUME FilesHaveNames, HandlerInv, OverlapInv, RepliesInv,
         NEW c \in Conns, HandleRequest(c), alive', alive,
         NEW p \in Paths, Safe(p), ~ Deleting(p)
  PROVE  Safe(p)'
<1>1. \A d \in Conns \ {c} :
        /\ conn'[d].stage = conn[d].stage /\ conn'[d].path = conn[d].path
        /\ conn'[d].method = conn[d].method
  BY HandleRequestStep DEF Terminate
<1>2. conn[c] \in Connection /\ StageOK(c) /\ MethodOK(c)
  BY DEF HandlerInv, RequestsOK, OverlapInv, RepliesInv
<1>3. CASE \/ GetOpen(c) \/ GetRead(c) \/ PostOpen(c) \/ DeleteOpen(c)
           \/ WriteFile(c) \/ WriteFails(c)
  <2>1. ~ Rewrites(c, p) /\ kind' = kind
    BY <1>3 DEF Rewrites, GetOpen, GetRead, PostOpen, DeleteOpen, WriteFile, WriteFails
  <2> QED
    BY <1>1, <2>1, SafeLook
<1>4. CASE Mkdirs(c)
  <2>1. Rewrites(c, p) => Rewrites(c, p)'
    BY <1>2, <1>4 DEF Rewrites, Mkdirs, Set, Connection, HandlerInv, RequestsOK
  <2> QED
    BY <1>1, <1>4, <2>1, SafeLook DEF Mkdirs
<1>5. CASE MkdirDone(c) \/ RemoveDone(c)
  <2>1. Rewrites(c, p) => Rewrites(c, p)'
    BY <1>2, <1>5
    DEF Rewrites, MkdirDone, RemoveDone, Set, Connection, HandlerInv, RequestsOK, Safe
  <2> QED
    BY <1>1, <1>5, <2>1, SafeLook DEF MkdirDone, RemoveDone
<1>6. CASE OpenFile(c)
  <2>1. CASE conn[c].path = p
    <3>1. kind[p] # "dir" /\ InPlace(p)
      BY DEF Safe, RepliesInv, DirsNoExt
    <3>2. kind' = [kind EXCEPT ![p] = "file"]
      BY <1>6, <2>1, <3>1 DEF OpenFile
    <3>3. InPlace(p)' /\ Present(p)'
      BY <3>1, <3>2, TreeAssumption DEF InPlace, Present, HandlerInv, FilesOK
    <3> QED
      BY <1>1, <3>3, SafeStep
  <2>2. CASE conn[c].path # p
    <3>1. \/ kind' = kind
          \/ /\ kind[conn[c].path] # "dir"
             /\ kind' = [kind EXCEPT ![conn[c].path] = "file"]
      BY <1>6 DEF OpenFile
    <3>2. InPlace(p)' /\ (Present(p) => Present(p)')
      BY <2>2, <3>1, TreeAssumption
      DEF Safe, InPlace, Present, HandlerInv, FilesOK
    <3> QED
      BY <1>1, <2>2, <3>2, SafeStep DEF Rewrites
  <2> QED
    BY <2>1, <2>2
<1>7. CASE Mkdir(c)
  <2>1. PICK q \in conn[c].todo :
          /\ conn[c].stage = "mkdir"
          /\ kind' = [kind EXCEPT ![q] = "dir"]
          /\ conn' = [conn EXCEPT ![c] = [conn[c] EXCEPT !.todo = @ \ {q}]]
    BY <1>7 DEF Mkdir, Set
  <2>2. InPlace(p)' /\ (Present(p) => Present(p)')
    BY <2>1, TreeAssumption DEF Safe, InPlace, Present, HandlerInv, FilesOK
  <2>3. Rewrites(c, p) => Rewrites(c, p)'
    BY <1>2, <2>1 DEF Rewrites, Connection, HandlerInv, RequestsOK
  <2> QED
    BY <1>1, <2>2, <2>3, SafeStep
<1>8. CASE RemoveOne(c)
  <2>1. PICK q \in Removable(c) :
          /\ conn[c].stage = "remove"
          /\ kind' = [kind EXCEPT ![q] = "absent"]
          /\ conn' = [d \in Conns |->
               IF d = c THEN [conn[d] EXCEPT !.todo = @ \ {q}]
               ELSE [conn[d] EXCEPT !.linked = @ /\ conn[d].path # q]]
    BY <1>8 DEF RemoveOne
  <2>2. q \in Subtree(conn[c].path) /\ q \in Paths /\ conn[c].path \in Paths
    BY <1>2, <2>1 DEF Removable, StageOK, Connection, HandlerInv, RequestsOK, Running
  <2>3. Rewrites(c, p) => Rewrites(c, p)'
    BY <1>2, <2>1 DEF Rewrites, Connection
  <2>4. ASSUME p \in Subtree(q) PROVE q = p /\ Rewrites(c, p)
    <3>1. p \in Subtree(conn[c].path)
      BY <2>2, <2>4, SubtreeBelow
    <3>2. conn[c].method = "POST" /\ conn[c].path \in HasExt
      BY <1>2, <2>1, <3>1 DEF MethodOK, Deleting, Running
    <3>3. conn[c].path \notin Above[p] /\ conn[c].path \notin Above[q]
      BY <2>2, <3>2 DEF FilesHaveNames, NamesTell
    <3> QED
      BY <2>1, <2>2, <3>1, <3>2, <3>3 DEF Subtree, Below, Rewrites
  <2>5. q = p => Rewrites(c, p)'
    BY <2>3, <2>4 DEF Subtree
  <2>6. q # p => (Present(p) => Present(p)')
    BY <2>1 DEF Present, HandlerInv, FilesOK
  <2>7. q \notin Above[p]
    <3>1. q \in Above[p] => p \in Subtree(q) /\ q # p
      BY TreeAssumption DEF Subtree, Below
    <3> QED
      BY <2>4, <3>1
  <2>8. InPlace(p)'
    BY <2>1, <2>7, TreeAssumption DEF Safe, InPlace, HandlerInv, FilesOK
  <2> QED
    BY <1>1, <2>3, <2>5, <2>6, <2>8, SafeStep
<1>9. CASE MkdirThrows(c) \/ RemoveThrows(c)
  BY <1>9 DEF MkdirThrows, RemoveThrows, Terminate
<1> QED
  BY <1>3, <1>4, <1>5, <1>6, <1>7, <1>8, <1>9 DEF HandleRequest

(* A file whose upload is acknowledged is there.                           *)
LEMMA AcknowledgedSafe ==
  ASSUME HandlerInv, LinkedOK, OverlapInv, NEW c \in Conns,
         kind' = kind \/ conn[c].stage # "write",
         \A d \in Conns \ {c} : conn'[d].stage = conn[d].stage,
         NEW p \in Acknowledged
  PROVE  Safe(p)'
<1>1. p \in Paths
  BY DEF Acknowledged
<1>2. PICK d \in Conns :
        /\ conn[d].stage = "write" /\ conn[d].linked /\ conn[d].path = p
        /\ conn'[d].stage = "reply"
  BY DEF Acknowledged
<1>3. d = c /\ kind' = kind
  BY <1>2
<1>4. kind[p] = "file" /\ p \in HasExt
  BY <1>2 DEF LinkedOK, OverlapInv, StageOK
<1>5. InPlace(p)
  BY <1>1, <1>4 DEF Present, HandlerInv, FilesOK
<1> QED
  BY <1>3, <1>4, <1>5 DEF Safe, InPlace, Present

(* Every step keeps the files that are remembered.                         *)
LEMMA StoredNext ==
  ASSUME FilesHaveNames, HandlerIInv, OverlapInv, RepliesInv,
         HandlerIInv', RepliesInv', stored \subseteq Paths, StoredInv,
         [ServerNext]_serverVars
  PROVE  stored' \subseteq Paths /\ StoredInv'
<1> HandlerInv /\ HandlerInv' /\ LinkedOK
  BY DEF HandlerIInv
<1>1. CASE \/ UNCHANGED serverVars \/ AcceptFails \/ Signal \/ StartServer
           \/ \E c \in Conns : Accept(c) \/ ReadFails(c)
  <2>1. stored' = stored /\ kind' = kind /\ conn' = conn
    BY <1>1 DEF serverVars, vars, AcceptFails, Signal, StartServer, Restart, Accept,
       ReadFails
  <2> QED
    BY <2>1 DEF StoredInv, Safe, InPlace, Present, Rewrites, Deleting, Running,
       Subtree, Below
<1>2. ASSUME NEW c \in Conns, Read(c)
      PROVE  stored' \subseteq Paths /\ StoredInv'
  <2>1. /\ kind' = kind /\ conn[c].stage = "idle"
        /\ \A d \in Conns \ {c} :
             /\ conn'[d].stage = conn[d].stage /\ conn'[d].path = conn[d].path
             /\ conn'[d].method = conn[d].method
    BY <1>2 DEF Read, Receive, Admit, Dismiss, Finish, HandlerInv, RequestsOK,
       Connection
  <2>2. Acknowledged = {}
    <3> SUFFICES ASSUME NEW p \in Acknowledged PROVE FALSE
      OBVIOUS
    <3> QED
      BY <2>1 DEF Acknowledged
  <2>3. stored' \subseteq stored /\ \A p \in stored' : ~ Deleting(p)'
    BY <1>2, <2>2 DEF Read, Remember
  <2>4. ASSUME NEW p \in stored' PROVE Safe(p)'
    <3>1. p \in Paths /\ Safe(p) /\ ~ Rewrites(c, p)
      BY <2>1, <2>3, <2>4 DEF StoredInv, Rewrites
    <3> QED
      BY <2>1, <3>1, SafeLook
  <2> QED
    BY <2>3, <2>4 DEF StoredInv
<1>3. ASSUME NEW c \in Conns, Handling(c)
      PROVE  stored' \subseteq Paths /\ StoredInv'
  <2>1. HandleRequest(c)
    BY <1>3 DEF Handling
  <2>2. CASE ~ alive'
    BY <1>3, <2>2 DEF Handling, StoredInv
  <2>3. CASE alive'
    <3>1. /\ alive
          /\ \A d \in Conns \ {c} :
               /\ conn'[d].stage = conn[d].stage /\ conn'[d].path = conn[d].path
               /\ conn'[d].method = conn[d].method
      BY <2>1, <2>3, HandleRequestStep DEF Terminate
    <3>2. stored' = {p \in stored \cup Acknowledged : ~ Deleting(p)'}
      BY <1>3, <2>3 DEF Handling, Remember
    <3>3. stored' \subseteq Paths
      BY <3>2 DEF Acknowledged
    <3>4. ASSUME NEW p \in stored PROVE Safe(p)'
      <4>1. p \in Paths /\ Safe(p) /\ ~ Deleting(p)
        BY <3>4 DEF StoredInv
      <4> QED
        BY <2>1, <2>3, <3>1, <4>1, SafeHandle
    <3>5. kind' = kind \/ conn[c].stage # "write"
      BY <2>1 DEF HandleRequest, GetOpen, GetRead, PostOpen, Mkdirs, Mkdir,
         MkdirThrows, MkdirDone, OpenFile, WriteFile, WriteFails, DeleteOpen,
         RemoveOne, RemoveThrows, RemoveDone, Terminate
    <3>6. ASSUME NEW p \in Acknowledged PROVE Safe(p)'
      BY <3>1, <3>5, <3>6, AcknowledgedSafe
    <3> HIDE DEF Acknowledged
    <3> QED
      BY <3>2, <3>3, <3>4, <3>6 DEF StoredInv
  <2> QED
    BY <2>2, <2>3
<1>4. ASSUME NEW c \in Conns, HandleWrite(c)
      PROVE  stored' \subseteq Paths /\ StoredInv'
  <2>1. /\ stored' = stored /\ kind' = kind /\ conn[c].stage = "reply"
        /\ conn'[c].stage = "idle"
        /\ \A d \in Conns \ {c} : conn'[d] = conn[d]
    BY <1>4 DEF HandleWrite, Reply, Set, NoConnection, HandlerInv, RequestsOK
  <2>2. ASSUME NEW p \in stored' PROVE Safe(p)' /\ ~ Deleting(p)'
    <3>1. p \in Paths /\ Safe(p) /\ ~ Deleting(p) /\ ~ Rewrites(c, p)
      BY <2>1, <2>2 DEF StoredInv, Rewrites
    <3>2. Safe(p)'
      BY <2>1, <3>1, SafeLook
    <3>3. ~ Deleting(p)'
      BY <2>1, <3>1 DEF Deleting, Running, Subtree, Below
    <3> QED
      BY <3>2, <3>3
  <2> QED
    BY <2>1, <2>2 DEF StoredInv
<1>5. CASE ShutDown
  <2>1. /\ \A c \in Conns : ~ Running(c)
        /\ stored' = stored /\ kind' = kind
        /\ conn' = [c \in Conns |-> NoConnection]
    BY <1>5 DEF ShutDown, Stop, Terminate
  <2>2. ASSUME NEW p \in stored' PROVE Safe(p)' /\ ~ Deleting(p)'
    <3>1. Present(p) /\ p \in HasExt /\ InPlace(p)
      BY <2>1, <2>2 DEF StoredInv, Safe, Rewrites, Running
    <3> QED
      BY <2>1, <3>1 DEF Safe, InPlace, Present, Deleting, Running, NoConnection
  <2> QED
    BY <2>1, <2>2 DEF StoredInv
<1> QED
  BY <1>1, <1>2, <1>3, <1>4, <1>5 DEF ServerNext, Pool

(* If the names tell files from folders, a file whose upload has been      *)
(* acknowledged is kept until a DELETE is for it or for a folder it lies   *)
(* in, whatever the tree and the number of connections: other requests     *)
(* leave it, a later upload of it comes to its end, a signal included      *)
(* (request_handler.cpp:104-125, server.cpp:45-53).                        *)
THEOREM UploadsAreKept ==
  ASSUME FilesHaveNames PROVE ServerSpec => []UploadsKept
<1> DEFINE Inv == /\ HandlerIInv /\ OverlapInv /\ RepliesInv
                  /\ stored \subseteq Paths /\ StoredInv
<1>1. ServerInit => Inv
  <2> SUFFICES ASSUME ServerInit PROVE Inv
    OBVIOUS
  <2>1. Init /\ stored = {}
    BY DEF ServerInit
  <2>2. HandlerIInv
    BY <2>1, InitHandlerIInv
  <2>3. OverlapInv
    BY <2>1 DEF Init, NoConnection, OverlapInv, FilesHaveExt, StageOK, Apart,
       CleanOK, Active
  <2>4. RepliesInv
    BY <2>1 DEF Init, NoConnection, RepliesInv, DirsNoExt, MethodOK, Ready
  <2> QED
    BY <2>1, <2>2, <2>3, <2>4 DEF StoredInv
<1>2. Inv /\ [ServerNext]_serverVars => Inv'
  <2> SUFFICES ASSUME Inv, [ServerNext]_serverVars PROVE Inv'
    OBVIOUS
  <2>1. [Next]_vars
    BY ServerStep
  <2>2. HandlerIInv' /\ OverlapInv' /\ RepliesInv'
    BY <2>1, NextHandlerIInv, NextOverlapInv, NextRepliesInv DEF HandlerIInv
  <2>3. stored' \subseteq Paths /\ StoredInv'
    BY <2>2, StoredNext
  <2> QED
    BY <2>2, <2>3
<1>3. Inv => UploadsKept
  <2> SUFFICES ASSUME Inv, NEW p \in stored, ~ Present(p) PROVE Posting(p)
    BY DEF UploadsKept
  <2>1. PICK c \in Conns : Rewrites(c, p)
    BY DEF StoredInv, Safe
  <2> QED
    BY <2>1 DEF Rewrites, Posting, Running
<1> QED
  BY <1>1, <1>2, <1>3, PTL DEF ServerSpec

=============================================================================
