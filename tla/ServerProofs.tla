---------------------------- MODULE ServerProofs ----------------------------
(***************************************************************************)
(* Proofs about RequestHandler and Server, for every set of connections    *)
(* and every tree of entries.                                              *)
(***************************************************************************)
EXTENDS Server, TLAPS

\* The part of TypeOK that is about the account's folder.
FilesOK ==
  /\ kind \in [Paths -> Kinds]
  /\ content \in [Paths -> Nat]
  /\ \A p \in Paths : Present(p) => InPlace(p)
  /\ \A p \in Paths : kind[p] # "file" => content[p] = EmptyContent

\* The requests.  What the file system calls rely on besides the types: the
\* request that they work for is one for an entry.
RequestsOK ==
  /\ conn \in [Conns -> Connection]
  /\ \A c \in Conns : Running(c) => conn[c].path \in Paths

HandlerInv == FilesOK /\ RequestsOK /\ alive \in BOOLEAN

\* What a write relies on: as long as the file that was opened has its name,
\* a file is what this name stands for.
LinkedOK ==
  \A c \in Conns :
    conn[c].stage = "write" /\ conn[c].linked => kind[conn[c].path] = "file"

(* A connection without a request is a connection.                         *)
LEMMA NoConnectionType == NoConnection \in Connection
  BY DEF NoConnection, Connection, Kinds, Stages, Statuses, Absent

(* The empty folder of a new account, and a process without connections.   *)
LEMMA InitHandlerInv == Init => HandlerInv
<1> SUFFICES ASSUME Init PROVE HandlerInv
  OBVIOUS
<1>1. FilesOK
  BY DEF Init, FilesOK, Present, Kinds, EmptyContent
<1>2. RequestsOK
  BY NoConnectionType DEF Init, RequestsOK, Running, NoConnection
<1> QED
  BY <1>1, <1>2 DEF HandlerInv, Init

(* A step that goes on with one request.                                   *)
LEMMA RequestStep ==
  ASSUME RequestsOK, NEW c \in Conns, NEW r \in Connection,
         r.stage \notin {"idle", "reply"} => r.path \in Paths,
         conn' = [conn EXCEPT ![c] = r]
  PROVE  RequestsOK'
<1>1. conn' \in [Conns -> Connection]
  BY DEF RequestsOK
<1>2. ASSUME NEW e \in Conns, Running(e)' PROVE conn'[e].path \in Paths
  BY <1>2 DEF RequestsOK, Running
<1> QED
  BY <1>1, <1>2 DEF RequestsOK

(* A step that ends the work on one request.                               *)
LEMMA FinishStep ==
  ASSUME RequestsOK, NEW c \in Conns, NEW s \in Statuses, Finish(c, s)
  PROVE  RequestsOK'
<1> DEFINE r == [conn[c] EXCEPT !.stage = "reply", !.status = s]
<1>1. r \in Connection /\ r.stage = "reply"
  BY DEF RequestsOK, Connection, Stages
<1>2. conn' = [conn EXCEPT ![c] = r]
  BY DEF Finish
<1> QED
  BY <1>1, <1>2, RequestStep

(* A step of a request that goes on to another call, with other things to  *)
(* do.                                                                     *)
LEMMA CallStep ==
  ASSUME RequestsOK, NEW c \in Conns, Running(c), NEW s \in Stages,
         NEW T \in SUBSET Paths, NEW l \in BOOLEAN,
         conn' = [conn EXCEPT ![c] =
                    [conn[c] EXCEPT !.stage = s, !.todo = T, !.linked = l]]
  PROVE  RequestsOK'
<1> DEFINE r == [conn[c] EXCEPT !.stage = s, !.todo = T, !.linked = l]
<1>1. r \in Connection /\ r.path \in Paths
  BY DEF RequestsOK, Connection
<1> QED
  BY <1>1, RequestStep

(* The files are left alone.                                               *)
LEMMA SameFiles == FilesOK /\ UNCHANGED <<kind, content>> => FilesOK'
  BY DEF FilesOK, Present, InPlace

(* The end of the process.                                                 *)
LEMMA TerminateStep == HandlerInv /\ Terminate => HandlerInv'
<1> SUFFICES ASSUME HandlerInv, Terminate PROVE HandlerInv'
  OBVIOUS
<1>1. RequestsOK'
  BY NoConnectionType DEF Terminate, RequestsOK, Running, NoConnection
<1> QED
  BY <1>1, SameFiles DEF HandlerInv, Terminate

(* A request comes in; it is one for an entry.                             *)
LEMMA ReceiveStep ==
  ASSUME HandlerInv, NEW c \in Conns, Receive(c) PROVE HandlerInv'
<1>1. PICK m \in {"GET", "POST", "DELETE"}, p \in Paths :
        \E b \in Bodies(m, p) : Admit(c, m, p, b)
  BY DEF Receive
<1>2. PICK b \in Nat : Admit(c, m, p, b)
  <2>1. Bodies(m, p) \subseteq Nat
    BY TreeAssumption DEF Bodies, Contents, EmptyContent, FirstStamp
  <2> QED
    BY <1>1, <2>1
<1>3. Request(m, p, b) \in Connection
  <2>1. FirstStage(m, p) \in Stages
    BY DEF FirstStage, Stages
  <2>2. (Disturbing(p) = {}) \in BOOLEAN
    OBVIOUS
  <2> QED
    BY <2>1, <2>2 DEF Request, Connection, Statuses
<1>4. ASSUME NEW d \in Conns, d # c
      PROVE  [conn[d] EXCEPT !.clean = @ /\ (m = "GET" \/ d \notin Overlapping(p))]
               \in Connection
  BY <1>4 DEF HandlerInv, RequestsOK, Connection
<1>5. conn' \in [Conns -> Connection]
  BY <1>2, <1>3, <1>4 DEF Admit
<1>6. ASSUME NEW d \in Conns, Running(d)' PROVE conn'[d].path \in Paths
  <2>1. CASE d = c
    BY <1>2, <2>1 DEF Admit, Request
  <2>2. CASE d # c
    <3>1. conn'[d].stage = conn[d].stage /\ conn'[d].path = conn[d].path
      BY <1>2, <2>2 DEF Admit, HandlerInv, RequestsOK, Connection
    <3> QED
      BY <1>6, <3>1 DEF HandlerInv, RequestsOK, Running
  <2> QED
    BY <2>1, <2>2
<1>7. RequestsOK'
  BY <1>5, <1>6 DEF RequestsOK
<1> QED
  BY <1>2, <1>7, SameFiles DEF HandlerInv, Admit

(* The request is answered at once, or it is done with.                    *)
LEMMA DismissStep ==
  ASSUME HandlerInv, NEW c \in Conns, Dismiss(c) PROVE HandlerInv'
<1>1. RequestsOK'
  BY FinishStep DEF HandlerInv, Dismiss, Statuses
<1> QED
  BY <1>1, SameFiles DEF HandlerInv, Dismiss

(* The reply is sent and the connection closed.                            *)
LEMMA ReplyStep ==
  ASSUME HandlerInv, NEW c \in Conns, Reply(c) PROVE HandlerInv'
<1>1. RequestsOK'
  BY RequestStep, NoConnectionType
  DEF HandlerInv, Reply, Set, NoConnection
<1> QED
  BY <1>1, SameFiles DEF HandlerInv, Reply

(* The calls that only look at the folder.                                 *)
LEMMA LookStep ==
  ASSUME HandlerInv, NEW c \in Conns,
         \/ GetOpen(c) \/ GetRead(c) \/ PostOpen(c) \/ DeleteOpen(c) \/ Mkdirs(c)
         \/ MkdirDone(c) \/ RemoveDone(c) \/ WriteFails(c)
  PROVE  HandlerInv'
<1>1. FilesOK' /\ alive' = alive
  BY SameFiles DEF HandlerInv, GetOpen, GetRead, PostOpen, DeleteOpen, Mkdirs,
     MkdirDone, RemoveDone, WriteFails
<1>2. Running(c) /\ conn[c] \in Connection
  BY DEF HandlerInv, RequestsOK, Running, GetOpen, GetRead, PostOpen, DeleteOpen,
     Mkdirs, MkdirDone, RemoveDone, WriteFails
<1>3. ASSUME NEW s \in Stages, Set(c, [conn[c] EXCEPT !.stage = s])
      PROVE  RequestsOK'
  <2>1. [conn[c] EXCEPT !.stage = s] \in Connection
    BY <1>2 DEF Connection
  <2>2. [conn[c] EXCEPT !.stage = s].path \in Paths
    BY <1>2 DEF HandlerInv, RequestsOK, Connection
  <2> QED
    BY <1>3, <2>1, <2>2, RequestStep DEF Set, HandlerInv
<1>4. ASSUME NEW s \in Stages, NEW T \in SUBSET Paths,
             Set(c, [conn[c] EXCEPT !.stage = s, !.todo = T])
      PROVE  RequestsOK'
  <2>1. [conn[c] EXCEPT !.stage = s, !.todo = T] \in Connection
    BY <1>2 DEF Connection
  <2>2. [conn[c] EXCEPT !.stage = s, !.todo = T].path \in Paths
    BY <1>2 DEF HandlerInv, RequestsOK, Connection
  <2> QED
    BY <1>4, <2>1, <2>2, RequestStep DEF Set, HandlerInv
<1>5. CASE \E s \in Statuses : Finish(c, s)
  BY <1>1, <1>5, FinishStep DEF HandlerInv
<1>6. CASE StartRemove(c)
  <2>1. {q \in Subtree(conn[c].path) : Present(q)} \in SUBSET Paths
    BY <1>2 DEF Subtree, Below, HandlerInv, RequestsOK
  <2> QED
    BY <1>1, <1>4, <1>6, <2>1 DEF StartRemove, Stages, HandlerInv
<1>7. CASE Mkdirs(c)
  <2>1. {q \in Wanted(c) : ~ Present(q)} \in SUBSET Paths
    BY <1>2, TreeAssumption DEF Wanted, HandlerInv, RequestsOK
  <2> QED
    BY <1>1, <1>4, <1>7, <2>1 DEF Mkdirs, Stages, HandlerInv
<1>8. CASE \/ Set(c, [conn[c] EXCEPT !.stage = "mkdirs"])
           \/ Set(c, [conn[c] EXCEPT !.stage = "open"])
  BY <1>1, <1>3, <1>8 DEF Stages, HandlerInv
<1>9. CASE GetOpen(c)
  <2>1. CASE Present(conn[c].path)
    <3>1. [conn[c] EXCEPT !.stage = "read", !.linked = TRUE] \in Connection
      BY <1>2 DEF Connection, Stages
    <3>2. [conn[c] EXCEPT !.stage = "read", !.linked = TRUE].path \in Paths
      BY <1>2 DEF HandlerInv, RequestsOK, Connection
    <3> QED
      BY <1>1, <1>9, <2>1, <3>1, <3>2, RequestStep DEF GetOpen, Set, HandlerInv
  <2>2. CASE ~ Present(conn[c].path)
    BY <1>5, <1>9, <2>2 DEF GetOpen, Statuses
  <2> QED
    BY <2>1, <2>2
<1>15. CASE GetRead(c)
  BY <1>5, <1>15 DEF GetRead, Statuses
<1>10. CASE PostOpen(c)
  BY <1>6, <1>8, <1>10 DEF PostOpen
<1>11. CASE DeleteOpen(c)
  BY <1>5, <1>6, <1>11 DEF DeleteOpen, Statuses
<1>12. CASE MkdirDone(c)
  BY <1>5, <1>8, <1>12 DEF MkdirDone, Statuses
<1>13. CASE RemoveDone(c)
  BY <1>5, <1>8, <1>13 DEF RemoveDone, Statuses
<1>14. CASE WriteFails(c)
  BY <1>5, <1>14 DEF WriteFails, Statuses
<1> QED
  BY <1>7, <1>9, <1>10, <1>11, <1>12, <1>13, <1>14, <1>15

(* A folder is created in a folder that is there, and in no file's place.  *)
LEMMA MkdirStep ==
  ASSUME HandlerInv, NEW c \in Conns, Mkdir(c) PROVE HandlerInv'
<1>1. PICK q \in conn[c].todo :
        /\ conn[c].stage = "mkdir"
        /\ InPlace(q) /\ kind[q] # "file"
        /\ kind' = [kind EXCEPT ![q] = "dir"]
        /\ Set(c, [conn[c] EXCEPT !.todo = @ \ {q}])
        /\ content' = content /\ alive' = alive
  BY DEF Mkdir
<1>2. conn[c] \in Connection /\ Running(c) /\ conn[c].path \in Paths
  BY <1>1 DEF HandlerInv, RequestsOK, Running
<1>3. q \in Paths
  BY <1>1, <1>2 DEF Connection
<1>4. FilesOK'
  <2>1. kind' \in [Paths -> Kinds]
    BY <1>1 DEF HandlerInv, FilesOK, Kinds
  <2>2. ASSUME NEW p \in Paths, Present(p)' PROVE InPlace(p)'
    <3>1. InPlace(p)
      BY <1>1, <1>3, <2>2 DEF Present, HandlerInv, FilesOK
    <3> QED
      BY <1>1, <1>3, <3>1, TreeAssumption DEF InPlace, HandlerInv, FilesOK
  <2>3. ASSUME NEW p \in Paths, kind'[p] # "file" PROVE content'[p] = EmptyContent
    BY <1>1, <1>3, <2>3 DEF HandlerInv, FilesOK
  <2> QED
    BY <1>1, <2>1, <2>2, <2>3 DEF FilesOK, HandlerInv
<1>5. RequestsOK'
  <2>1. [conn[c] EXCEPT !.todo = @ \ {q}] \in Connection
    BY <1>2 DEF Connection
  <2>2. [conn[c] EXCEPT !.todo = @ \ {q}].path \in Paths
    BY <1>2 DEF Connection
  <2> QED
    BY <1>1, <2>1, <2>2, RequestStep DEF Set, HandlerInv
<1> QED
  BY <1>1, <1>4, <1>5 DEF HandlerInv

(* A file is opened where no folder is.                                    *)
LEMMA OpenStep ==
  ASSUME HandlerInv, NEW c \in Conns, OpenFile(c) PROVE HandlerInv'
<1> DEFINE p == conn[c].path
<1>1. conn[c] \in Connection /\ Running(c) /\ p \in Paths
  BY DEF HandlerInv, RequestsOK, Running, OpenFile
<1>2. CASE kind[p] = "dir" \/ ~ InPlace(p)
  BY <1>2, FinishStep, SameFiles DEF OpenFile, HandlerInv, Statuses
<1>3. CASE ~ (kind[p] = "dir" \/ ~ InPlace(p))
  <2>1. /\ kind' = [kind EXCEPT ![p] = "file"]
        /\ content' = [content EXCEPT ![p] = EmptyContent]
        /\ Set(c, [conn[c] EXCEPT !.stage = "write", !.linked = TRUE])
        /\ alive' = alive
    BY <1>3 DEF OpenFile
  <2>2. kind' \in [Paths -> Kinds] /\ content' \in [Paths -> Nat]
    BY <1>1, <2>1 DEF HandlerInv, FilesOK, Kinds, EmptyContent
  <2>3. ASSUME NEW q \in Paths, Present(q)' PROVE InPlace(q)'
    <3>1. InPlace(q)
      BY <1>1, <1>3, <2>1, <2>3 DEF Present, HandlerInv, FilesOK
    <3> QED
      BY <1>1, <1>3, <2>1, <3>1, TreeAssumption DEF InPlace, HandlerInv, FilesOK
  <2>4. ASSUME NEW q \in Paths, kind'[q] # "file" PROVE content'[q] = EmptyContent
    BY <1>1, <2>1, <2>4 DEF HandlerInv, FilesOK
  <2>5. RequestsOK'
    <3>1. [conn[c] EXCEPT !.stage = "write", !.linked = TRUE] \in Connection
      BY <1>1 DEF Connection, Stages
    <3>2. [conn[c] EXCEPT !.stage = "write", !.linked = TRUE].path \in Paths
      BY <1>1 DEF Connection
    <3> QED
      BY <2>1, <3>1, <3>2, RequestStep DEF Set, HandlerInv
  <2> QED
    BY <2>1, <2>2, <2>3, <2>4, <2>5 DEF HandlerInv, FilesOK
<1> QED
  BY <1>2, <1>3

(* What is written to a file that has lost its name is lost with it.       *)
LEMMA WriteStep ==
  ASSUME HandlerInv, LinkedOK, NEW c \in Conns, WriteFile(c) PROVE HandlerInv'
<1>1. conn[c] \in Connection
  BY DEF HandlerInv, RequestsOK
<1>2. RequestsOK'
  BY FinishStep DEF WriteFile, HandlerInv, Statuses
<1>3. content' \in [Paths -> Nat]
  <2>1. ASSUME NEW old \in Nat PROVE Overlay(old, conn[c].body) \in Nat
    BY <1>1, TreeAssumption DEF Overlay, Torn, Connection, FirstStamp
  <2> QED
    BY <2>1 DEF WriteFile, LinkedOK, HandlerInv, FilesOK
<1>4. ASSUME NEW q \in Paths, kind[q] # "file" PROVE content'[q] = EmptyContent
  BY <1>4 DEF WriteFile, LinkedOK, HandlerInv, FilesOK
<1> QED
  BY <1>2, <1>3, <1>4 DEF WriteFile, HandlerInv, FilesOK, Present, InPlace

(* An entry is removed that has nothing in it.                             *)
LEMMA RemoveStep ==
  ASSUME HandlerInv, NEW c \in Conns, RemoveOne(c) PROVE HandlerInv'
<1>1. PICK q \in Removable(c) :
        /\ conn[c].stage = "remove"
        /\ \A r \in Below(q) : ~ Present(r)
        /\ kind' = [kind EXCEPT ![q] = "absent"]
        /\ content' = [content EXCEPT ![q] = EmptyContent]
        /\ conn' = [d \in Conns |->
             IF d = c THEN [conn[d] EXCEPT !.todo = @ \ {q}]
             ELSE [conn[d] EXCEPT !.linked = @ /\ conn[d].path # q]]
        /\ alive' = alive
  BY DEF RemoveOne
<1>2. conn[c] \in Connection /\ q \in Paths
  BY DEF Removable, HandlerInv, RequestsOK, Connection
<1>3. FilesOK'
  <2>1. kind' \in [Paths -> Kinds] /\ content' \in [Paths -> Nat]
    BY <1>1, <1>2 DEF HandlerInv, FilesOK, Kinds, EmptyContent
  <2>2. ASSUME NEW p \in Paths, Present(p)' PROVE InPlace(p)'
    <3>1. Present(p) /\ InPlace(p)
      BY <1>1, <1>2, <2>2 DEF Present, HandlerInv, FilesOK
    <3>2. q \notin Above[p]
      BY <1>1, <3>1 DEF Below
    <3> QED
      BY <1>1, <1>2, <3>1, <3>2, TreeAssumption DEF InPlace, HandlerInv, FilesOK
  <2>3. ASSUME NEW p \in Paths, kind'[p] # "file" PROVE content'[p] = EmptyContent
    BY <1>1, <1>2, <2>3 DEF HandlerInv, FilesOK
  <2> QED
    BY <2>1, <2>2, <2>3 DEF FilesOK
<1>4. ASSUME NEW d \in Conns
      PROVE  /\ conn'[d] \in Connection
             /\ conn'[d].stage = conn[d].stage /\ conn'[d].path = conn[d].path
  <2>1. conn[d] \in Connection
    BY DEF HandlerInv, RequestsOK
  <2> QED
    BY <1>1, <2>1 DEF Connection
<1>5. RequestsOK'
  <2>1. conn' \in [Conns -> Connection]
    BY <1>1, <1>4
  <2> QED
    BY <1>4, <2>1 DEF HandlerInv, RequestsOK, Running
<1> QED
  BY <1>1, <1>3, <1>5 DEF HandlerInv

(* A step of one request keeps LinkedOK if it takes no file from its name  *)
(* and comes to no write of a file that is not there.                      *)
LEMMA LinkedStep ==
  ASSUME HandlerInv, LinkedOK, NEW c \in Conns, NEW r,
         conn' = [conn EXCEPT ![c] = r],
         r.stage = "write" => kind'[r.path] = "file",
         \A p \in Paths : kind[p] = "file" => kind'[p] = "file"
  PROVE  LinkedOK'
<1>1. ASSUME NEW d \in Conns, d # c, conn[d].stage = "write", conn[d].linked
      PROVE  kind'[conn[d].path] = "file"
  BY <1>1 DEF HandlerInv, RequestsOK, LinkedOK, Running
<1>2. conn'[c] = r /\ \A d \in Conns \ {c} : conn'[d] = conn[d]
  BY DEF HandlerInv, RequestsOK
<1> QED
  BY <1>1, <1>2 DEF LinkedOK

(* The same for a step that leaves the entries what they are.              *)
LEMMA LinkedLook ==
  ASSUME HandlerInv, LinkedOK, NEW c \in Conns, NEW r,
         conn' = [conn EXCEPT ![c] = r], r.stage # "write", kind' = kind
  PROVE  LinkedOK'
  BY LinkedStep

(* The steps of the handler, of the acceptor and of the operator.          *)
LEMMA LinkedNext ==
  ASSUME HandlerInv, LinkedOK, Next PROVE LinkedOK'
<1>1. CASE Stop \/ \E c \in Conns : MkdirThrows(c) \/ RemoveThrows(c)
  BY <1>1 DEF Stop, MkdirThrows, RemoveThrows, Terminate, LinkedOK, NoConnection
<1>2. CASE Restart
  BY <1>2 DEF Restart, LinkedOK
<1>3. ASSUME NEW c \in Conns, Receive(c) PROVE LinkedOK'
  <2>1. PICK m \in {"GET", "POST", "DELETE"}, p \in Paths :
          \E b \in Bodies(m, p) : Admit(c, m, p, b)
    BY <1>3 DEF Receive
  <2>2. conn'[c].stage # "write"
    BY <2>1 DEF Admit, Request, FirstStage
  <2>3. ASSUME NEW d \in Conns, d # c
        PROVE  /\ conn'[d].linked = conn[d].linked
               /\ conn'[d].path = conn[d].path /\ conn'[d].stage = conn[d].stage
    BY <2>1, <2>3 DEF Admit, HandlerInv, RequestsOK, Connection
  <2> QED
    BY <2>1, <2>2, <2>3 DEF LinkedOK, Admit
<1>4. ASSUME NEW c \in Conns, NEW s, Finish(c, s), kind' = kind PROVE LinkedOK'
  <2>1. [conn[c] EXCEPT !.stage = "reply", !.status = s].stage = "reply"
    BY DEF HandlerInv, RequestsOK, Connection
  <2> QED
    BY <1>4, <2>1, LinkedLook DEF Finish
<1>5. ASSUME NEW c \in Conns, NEW s, kind' = kind, s # "write",
             Set(c, [conn[c] EXCEPT !.stage = s])
      PROVE  LinkedOK'
  <2>1. [conn[c] EXCEPT !.stage = s].stage = s
    BY DEF HandlerInv, RequestsOK, Connection
  <2> QED
    BY <1>5, <2>1, LinkedLook DEF Set
<1>6. ASSUME NEW c \in Conns, NEW s, NEW T, kind' = kind, s # "write",
             Set(c, [conn[c] EXCEPT !.stage = s, !.todo = T])
      PROVE  LinkedOK'
  <2>1. [conn[c] EXCEPT !.stage = s, !.todo = T].stage = s
    BY DEF HandlerInv, RequestsOK, Connection
  <2> QED
    BY <1>6, <2>1, LinkedLook DEF Set
<1>7. ASSUME NEW c \in Conns, Reply(c) PROVE LinkedOK'
  <2>1. NoConnection.stage # "write"
    BY DEF NoConnection
  <2> QED
    BY <1>7, <2>1, LinkedLook DEF Reply, Set
<1>8. ASSUME NEW c \in Conns, Dismiss(c) \/ GetRead(c) \/ WriteFile(c) \/ WriteFails(c)
      PROVE  LinkedOK'
  BY <1>4, <1>8 DEF Dismiss, GetRead, WriteFile, WriteFails
<1>9. ASSUME NEW c \in Conns, GetOpen(c) PROVE LinkedOK'
  <2>1. [conn[c] EXCEPT !.stage = "read", !.linked = TRUE].stage = "read"
    BY DEF HandlerInv, RequestsOK, Connection
  <2> QED
    BY <1>4, <1>9, <2>1, LinkedLook DEF GetOpen, Set
<1>10. ASSUME NEW c \in Conns, PostOpen(c) \/ DeleteOpen(c) PROVE LinkedOK'
  BY <1>4, <1>5, <1>6, <1>10 DEF PostOpen, DeleteOpen, StartRemove
<1>11. ASSUME NEW c \in Conns, Mkdirs(c) \/ MkdirDone(c) \/ RemoveDone(c)
       PROVE  LinkedOK'
  BY <1>4, <1>5, <1>6, <1>11 DEF Mkdirs, MkdirDone, RemoveDone
<1>12. ASSUME NEW c \in Conns, Mkdir(c) PROVE LinkedOK'
  <2>1. PICK q \in conn[c].todo :
          /\ conn[c].stage = "mkdir"
          /\ kind[q] # "file" /\ kind' = [kind EXCEPT ![q] = "dir"]
          /\ Set(c, [conn[c] EXCEPT !.todo = @ \ {q}])
    BY <1>12 DEF Mkdir
  <2>2. \A p \in Paths : kind[p] = "file" => kind'[p] = "file"
    BY <2>1 DEF HandlerInv, FilesOK
  <2>3. [conn[c] EXCEPT !.todo = @ \ {q}].stage = "mkdir"
    BY <2>1 DEF HandlerInv, RequestsOK, Connection
  <2> QED
    BY <2>1, <2>2, <2>3, LinkedStep DEF Set
<1>13. ASSUME NEW c \in Conns, OpenFile(c) PROVE LinkedOK'
  <2> DEFINE p == conn[c].path
             r == [conn[c] EXCEPT !.stage = "write", !.linked = TRUE]
  <2>1. CASE kind[p] = "dir" \/ ~ InPlace(p)
    BY <1>4, <1>13, <2>1 DEF OpenFile
  <2>2. CASE ~ (kind[p] = "dir" \/ ~ InPlace(p))
    <3>1. kind' = [kind EXCEPT ![p] = "file"] /\ Set(c, r)
      BY <1>13, <2>2 DEF OpenFile
    <3>2. r.path = p /\ p \in Paths
      BY <1>13 DEF HandlerInv, RequestsOK, Connection, Running, OpenFile
    <3>3. kind'[p] = "file" /\ \A q \in Paths : kind[q] = "file" => kind'[q] = "file"
      BY <3>1, <3>2 DEF HandlerInv, FilesOK
    <3> QED
      BY <3>1, <3>2, <3>3, LinkedStep DEF Set
  <2> QED
    BY <2>1, <2>2
<1>14. ASSUME NEW c \in Conns, RemoveOne(c) PROVE LinkedOK'
  <2>1. PICK q \in Removable(c) :
          /\ conn[c].stage = "remove"
          /\ kind' = [kind EXCEPT ![q] = "absent"]
          /\ conn' = [d \in Conns |->
               IF d = c THEN [conn[d] EXCEPT !.todo = @ \ {q}]
               ELSE [conn[d] EXCEPT !.linked = @ /\ conn[d].path # q]]
    BY <1>14 DEF RemoveOne
  <2>2. ASSUME NEW d \in Conns, conn'[d].stage = "write", conn'[d].linked
        PROVE  kind'[conn'[d].path] = "file"
    <3>1. conn[d] \in Connection
      BY DEF HandlerInv, RequestsOK
    <3>2. CASE d = c
      BY <2>1, <2>2, <3>1, <3>2 DEF Connection
    <3>3. CASE d # c
      <4>1. /\ conn[d].linked /\ conn[d].path # q
            /\ conn'[d].path = conn[d].path /\ conn[d].stage = "write"
        BY <2>1, <2>2, <3>1, <3>3 DEF Connection
      <4>2. conn[d].path \in Paths
        BY <4>1 DEF HandlerInv, RequestsOK, Running
      <4> QED
        BY <2>1, <4>1, <4>2 DEF LinkedOK, HandlerInv, FilesOK
    <3> QED
      BY <3>2, <3>3
  <2> QED
    BY <2>2 DEF LinkedOK
<1> QED
  BY <1>1, <1>2, <1>3, <1>7, <1>8, <1>9, <1>10, <1>11, <1>12, <1>13, <1>14
  DEF Next, HandleRequest

\* The inductive invariant of RequestHandler.
HandlerIInv == HandlerInv /\ LinkedOK

(* A server without connections has it.                                    *)
LEMMA InitHandlerIInv == Init => HandlerIInv
  BY InitHandlerInv DEF HandlerIInv, LinkedOK, Init, NoConnection

(* A step of one of the connections, of the signal or of the operator      *)
(* keeps it.                                                               *)
LEMMA NextHandlerIInv == HandlerIInv /\ [Next]_vars => HandlerIInv'
<1>1. HandlerIInv /\ UNCHANGED vars => HandlerIInv'
  <2> SUFFICES ASSUME HandlerIInv, UNCHANGED vars PROVE HandlerIInv'
    OBVIOUS
  <2>1. kind' = kind /\ content' = content /\ conn' = conn /\ alive' = alive
    BY DEF vars
  <2>2. FilesOK' /\ RequestsOK'
    BY <2>1, SameFiles DEF HandlerIInv, HandlerInv, RequestsOK, Running
  <2>3. LinkedOK'
    BY <2>1 DEF HandlerIInv, LinkedOK
  <2> QED
    BY <2>1, <2>2, <2>3 DEF HandlerIInv, HandlerInv
<1> SUFFICES ASSUME HandlerIInv, Next PROVE HandlerIInv'
  BY <1>1
<1> HandlerInv /\ LinkedOK
  BY DEF HandlerIInv
<1>2. LinkedOK'
  BY LinkedNext
<1>3. CASE Stop \/ \E c \in Conns : MkdirThrows(c) \/ RemoveThrows(c)
  BY <1>2, <1>3, TerminateStep
  DEF Stop, MkdirThrows, RemoveThrows, HandlerIInv
<1>4. CASE Restart
  BY <1>2, <1>4, SameFiles
  DEF Restart, HandlerInv, RequestsOK, Running, HandlerIInv
<1>5. ASSUME NEW c \in Conns, Receive(c) \/ Dismiss(c) \/ Reply(c)
      PROVE  HandlerInv'
  BY <1>5, ReceiveStep, DismissStep, ReplyStep
<1>6. ASSUME NEW c \in Conns,
             \/ GetOpen(c) \/ GetRead(c) \/ PostOpen(c) \/ DeleteOpen(c) \/ Mkdirs(c)
             \/ MkdirDone(c) \/ RemoveDone(c) \/ WriteFails(c)
      PROVE  HandlerInv'
  BY <1>6, LookStep
<1>7. ASSUME NEW c \in Conns,
             Mkdir(c) \/ OpenFile(c) \/ WriteFile(c) \/ RemoveOne(c)
      PROVE  HandlerInv'
  BY <1>7, MkdirStep, OpenStep, WriteStep, RemoveStep
<1> QED
  BY <1>2, <1>3, <1>4, <1>5, <1>6, <1>7
  DEF Next, HandleRequest, HandlerIInv

(* What exists on the server lies in folders that exist, and only files    *)
(* have a content, however the file system calls of concurrent requests    *)
(* interleave and whenever the process ends: an entry is created in its    *)
(* place only and removed after what it contains, and a write after the    *)
(* file has lost its name goes nowhere (request_handler.cpp:104-141).      *)
THEOREM HandlerTypeCorrect == Spec => []TypeOK
<1>1. Init => HandlerIInv
  BY InitHandlerIInv
<1>2. HandlerIInv /\ [Next]_vars => HandlerIInv'
  BY NextHandlerIInv
<1>3. HandlerIInv => TypeOK
  BY DEF HandlerIInv, HandlerInv, FilesOK, RequestsOK, TypeOK
<1> QED
  BY <1>1, <1>2, <1>3, PTL DEF Spec

-----------------------------------------------------------------------------
(* Every step of the server process is one of the handler or leaves the    *)
(* requests and the folder alone.                                          *)
LEMMA ServerStep == [ServerNext]_serverVars => [Next]_vars
<1> SUFFICES ASSUME [ServerNext]_serverVars PROVE [Next]_vars
  OBVIOUS
<1>1. CASE UNCHANGED serverVars
  BY <1>1 DEF serverVars
<1>2. ASSUME NEW c \in Conns, Accept(c) \/ ReadFails(c) PROVE UNCHANGED vars
  BY <1>2 DEF Accept, ReadFails
<1>3. ASSUME NEW c \in Conns, Pool(c) PROVE Next
  BY <1>3 DEF Pool, Read, Handling, HandleWrite, Next
<1>4. CASE AcceptFails \/ Signal
  BY <1>4 DEF AcceptFails, Signal
<1>5. CASE ShutDown \/ StartServer
  BY <1>5 DEF ShutDown, StartServer, Next
<1> QED
  BY <1>1, <1>2, <1>3, <1>4, <1>5 DEF ServerNext

(* What is remembered are entries.                                         *)
LEMMA StoredStep ==
  ASSUME stored \subseteq Paths, Remember \/ stored' = {}
  PROVE  stored' \subseteq Paths
  BY DEF Remember, Acknowledged

(* A call of a handler either throws, which ends the process, or leaves it *)
(* running and the other requests where they were.                         *)
LEMMA HandleRequestStep ==
  ASSUME HandlerInv, NEW c \in Conns, HandleRequest(c)
  PROVE  /\ conn[c].stage # "idle"
         /\ \/ Terminate
            \/ /\ alive' = alive
               /\ \A d \in Conns \ {c} :
                    /\ conn'[d].stage = conn[d].stage
                    /\ conn'[d].path = conn[d].path
                    /\ conn'[d].method = conn[d].method
<1>1. CASE MkdirThrows(c) \/ RemoveThrows(c)
  BY <1>1 DEF MkdirThrows, RemoveThrows
<1>2. CASE RemoveOne(c)
  BY <1>2 DEF RemoveOne, HandlerInv, RequestsOK, Connection
<1>3. CASE \/ GetOpen(c) \/ GetRead(c) \/ PostOpen(c) \/ DeleteOpen(c) \/ Mkdirs(c)
           \/ Mkdir(c) \/ MkdirDone(c) \/ RemoveDone(c)
  BY <1>3 DEF GetOpen, GetRead, PostOpen, DeleteOpen, Mkdirs, Mkdir, MkdirDone,
     RemoveDone, StartRemove, Set, Finish, HandlerInv, RequestsOK
<1>4. CASE OpenFile(c) \/ WriteFile(c) \/ WriteFails(c)
  BY <1>4 DEF OpenFile, WriteFile, WriteFails, Set, Finish, HandlerInv,
     RequestsOK
<1> QED
  BY <1>1, <1>2, <1>3, <1>4 DEF HandleRequest

(* Only a connection that has been accepted carries a request, and none    *)
(* outlives the process: a connection is closed after its reply, and with  *)
(* the process all of them are (server.cpp:45-66).                         *)
THEOREM ServerTypeCorrect == ServerSpec => []ServerTypeOK
<1> DEFINE Inv == HandlerIInv /\ ServerTypeOK
<1>1. ServerInit => Inv
  <2>1. ServerInit => HandlerIInv
    BY InitHandlerIInv DEF ServerInit
  <2>2. ServerInit => ServerTypeOK
    <3> SUFFICES ASSUME ServerInit PROVE ServerTypeOK
      OBVIOUS
    <3>1. /\ open = {} /\ stored = {}
          /\ accepting \in BOOLEAN /\ stopped \in BOOLEAN
      BY DEF ServerInit
    <3>2. \A c \in Conns : conn[c].stage = "idle"
      BY DEF ServerInit, Init, NoConnection
    <3> QED
      BY <3>1, <3>2 DEF ServerTypeOK
  <2> QED
    BY <2>1, <2>2
<1>2. Inv /\ [ServerNext]_serverVars => Inv'
  <2> SUFFICES ASSUME Inv, [ServerNext]_serverVars PROVE Inv'
    OBVIOUS
  <2> HandlerInv
    BY DEF HandlerIInv
  <2>1. HandlerIInv'
    BY NextHandlerIInv, ServerStep
  <2>2. ServerTypeOK'
    <3>1. CASE UNCHANGED serverVars
      BY <3>1 DEF serverVars, vars, ServerTypeOK
    <3>2. ASSUME NEW c \in Conns, Accept(c) PROVE ServerTypeOK'
      BY <3>2 DEF Accept, Dispatching, vars, ServerTypeOK
    <3>3. ASSUME NEW c \in Conns, ReadFails(c) PROVE ServerTypeOK'
      BY <3>3 DEF ReadFails, Dispatching, vars, ServerTypeOK
    <3>4. ASSUME NEW c \in Conns, Read(c) PROVE ServerTypeOK'
      <4>1. /\ alive' = alive /\ open' = open /\ c \in open
            /\ accepting' = accepting /\ stopped' = stopped
        BY <3>4 DEF Read, Receive, Admit, Dismiss
      <4>2. stored' \subseteq Paths
        BY <3>4, StoredStep DEF Read, ServerTypeOK
      <4>3. \A d \in Conns \ {c} : conn'[d].stage = conn[d].stage
        BY <3>4 DEF Read, Receive, Admit, Dismiss, Finish, HandlerInv, RequestsOK,
           Connection
      <4> QED
        BY <4>1, <4>2, <4>3 DEF ServerTypeOK
    <3>5. ASSUME NEW c \in Conns, Handling(c) PROVE ServerTypeOK'
      <4>1. stored' \subseteq Paths
        BY <3>5, StoredStep DEF Handling, ServerTypeOK
      <4>2. CASE Terminate
        BY <3>5, <4>1, <4>2 DEF Handling, Terminate, NoConnection, ServerTypeOK
      <4>3. CASE /\ alive' = alive
                 /\ \A d \in Conns \ {c} : conn'[d].stage = conn[d].stage
        BY <3>5, <4>1, <4>3, HandleRequestStep DEF Handling, ServerTypeOK
      <4> QED
        BY <3>5, <4>2, <4>3, HandleRequestStep DEF Handling
    <3>6. ASSUME NEW c \in Conns, HandleWrite(c) PROVE ServerTypeOK'
      BY <3>6 DEF HandleWrite, Reply, Set, NoConnection, Dispatching,
         ServerTypeOK, HandlerInv, RequestsOK
    <3>7. CASE AcceptFails \/ Signal
      BY <3>7 DEF AcceptFails, Signal, vars, ServerTypeOK
    <3>8. CASE ShutDown
      BY <3>8 DEF ShutDown, Stop, Terminate, NoConnection, ServerTypeOK
    <3>9. CASE StartServer
      BY <3>9 DEF StartServer, Restart, ServerTypeOK
    <3> QED
      BY <3>1, <3>2, <3>3, <3>4, <3>5, <3>6, <3>7, <3>8, <3>9
      DEF ServerNext, Pool
  <2> QED
    BY <2>1, <2>2
<1> QED
  BY <1>1, <1>2, PTL DEF ServerSpec

=============================================================================
