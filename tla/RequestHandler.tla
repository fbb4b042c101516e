--------------------------- MODULE RequestHandler ---------------------------
(***************************************************************************)
(* request_handler::handle_request (serverhttp/request_handler.cpp) on the *)
(* connections of one account, and the account's folder on the server.     *)
(* Each connection carries one request and may be handled by a thread of   *)
(* its own (server.cpp), so the file system calls of several requests      *)
(* interleave: one action is one call, or one entry of a recursive one.    *)
(* An exception that leaves the handler ends the server process: no reply  *)
(* is sent, on any connection.                                             *)
(*                                                                         *)
(* The entries form a tree: Above[p] is the set of the folders p lies in.  *)
(* Files are the entries that are regular files at the client, the others  *)
(* are folders; HasExt are those whose last name has an extension, which   *)
(* is all the handler goes by.                                             *)
(***************************************************************************)
EXTENDS BackupCommon, FiniteSets

CONSTANTS
  Conns,       \* connections that are open at a time
  Above,       \* the tree
  Files,       \* what the client has as files
  HasExt,      \* entries with an extension
  Long,        \* the longer of the two contents of a file, see Overlay
  WritesFail   \* whether writing can fail (no space left)

ASSUME TreeAssumption ==
  /\ Above \in [Paths -> SUBSET Paths]
  /\ \A p \in Paths : p \notin Above[p]
  /\ \A p \in Paths : \A q \in Above[p] : Above[q] \subseteq Above[p]
  /\ Files \subseteq Paths /\ HasExt \subseteq Paths
  /\ Long = FirstStamp + 1
  /\ WritesFail \in BOOLEAN

Contents == {FirstStamp, Long}
Torn     == Long + 1      \* a short content with the tail of a longer one

VARIABLES
  kind,      \* kind[p]: what p is on the server
  content,   \* content[p]: the bytes of the file p
  conn,      \* conn[c]: the request on connection c
  alive      \* whether the server process runs

vars == <<kind, content, conn, alive>>

Kinds    == {"absent", "file", "dir"}
Stages   == {"idle", "get", "read", "post", "mkdirs", "mkdir", "open",
             "write", "delete", "remove", "reply"}
Statuses == {"none", "accepted", "created", "not_sync", "not_found",
             "internal_server_error"}

\* todo: entries to be created or removed.  linked: what is open is still what
\* has this name.  clean: no POST or DELETE of a related entry overlaps the
\* request (history).
Connection ==
  [stage : Stages, method : {"none", "GET", "POST", "DELETE"},
   path : Paths \cup {NoPath}, body : Nat, todo : SUBSET Paths,
   linked : BOOLEAN, status : Statuses, clean : BOOLEAN]

NoConnection ==
  [stage |-> "idle", method |-> "none", path |-> NoPath, body |-> Absent,
   todo |-> {}, linked |-> FALSE, status |-> "none", clean |-> TRUE]

Present(p)    == kind[p] # "absent"
Below(p)      == {q \in Paths : p \in Above[q]}
Subtree(p)    == {p} \cup Below(p)
InPlace(p)    == \A q \in Above[p] : kind[q] = "dir"
Related(p, q) == p \in Subtree(q) \/ q \in Subtree(p)
Active(c)     == conn[c].stage # "idle" /\ conn[c].path # NoPath
Running(c)    == conn[c].stage \notin {"idle", "reply"}

\* The types, and the tree: what exists lies in folders that exist.
TypeOK ==
  /\ kind \in [Paths -> Kinds]
  /\ content \in [Paths -> Nat]
  /\ conn \in [Conns -> Connection]
  /\ alive \in BOOLEAN
  /\ \A p \in Paths : Present(p) => InPlace(p)
  /\ \A p \in Paths : kind[p] # "file" => content[p] = EmptyContent

Init ==
  /\ kind = [p \in Paths |-> "absent"]
  /\ content = [p \in Paths |-> EmptyContent]
  /\ conn = [c \in Conns |-> NoConnection]
  /\ alive = TRUE

Set(c, r) == conn' = [conn EXCEPT ![c] = r]

Finish(c, s) ==
  conn' = [conn EXCEPT ![c].stage = "reply", ![c].status = s]

\* The exception ends the process and with it all connections.
Terminate ==
  /\ alive' = FALSE
  /\ conn' = [c \in Conns |-> NoConnection]
  /\ UNCHANGED <<kind, content>>

-----------------------------------------------------------------------------
(* A request comes in.  The client reads a folder as an empty file, and    *)
(* sends no content with a DELETE.                                         *)

Bodies(m, p) ==
  IF m # "DELETE" /\ p \in Files THEN Contents ELSE {EmptyContent}

\* The requests for related entries, and those of them that change something.
Overlapping(p) == {d \in Conns : Active(d) /\ Related(conn[d].path, p)}
Disturbing(p)  == {d \in Overlapping(p) : conn[d].method # "GET"}

FirstStage(m, p) ==
  CASE m = "GET"    -> "get"
    [] m = "DELETE" -> "delete"
    [] m = "POST"   -> IF p \in HasExt THEN "post" ELSE "mkdirs"

Request(m, p, b) ==
  [stage |-> FirstStage(m, p), method |-> m, path |-> p, body |-> b,
   todo |-> {}, linked |-> FALSE, status |-> "none",
   clean |-> (Disturbing(p) = {})]

Admit(c, m, p, b) ==
  /\ alive /\ conn[c].stage = "idle"
  /\ conn' = [d \in Conns |->
                IF d = c THEN Request(m, p, b)
                ELSE [conn[d] EXCEPT
                        !.clean = @ /\ (m = "GET" \/ d \notin Overlapping(p))]]
  /\ UNCHANGED <<kind, content, alive>>

Receive(c) ==
  \E m \in {"GET", "POST", "DELETE"}, p \in Paths :
    \E b \in Bodies(m, p) : Admit(c, m, p, b)

\* Answered at once, as Connection describes: /login and /reconnect, bad
\* credentials, a bad path.
Dismiss(c) ==
  /\ alive /\ conn[c].stage = "idle"
  /\ Finish(c, "none")
  /\ UNCHANGED <<kind, content, alive>>

\* The reply is written and the connection shut down.
Reply(c) ==
  /\ conn[c].stage = "reply"
  /\ Set(c, NoConnection)
  /\ UNCHANGED <<kind, content, alive>>

-----------------------------------------------------------------------------
(* GET                                                                     *)

\* A folder can be opened, too.
GetOpen(c) ==
  /\ conn[c].stage = "get"
  /\ IF Present(conn[c].path)
       THEN Set(c, [conn[c] EXCEPT !.stage = "read", !.linked = TRUE])
       ELSE Finish(c, "not_found")
  /\ UNCHANGED <<kind, content, alive>>

\* A folder reads as empty.  What has lost its name since it was opened is
\* still read, but the model no longer has its content.
GetRead(c) == \E s \in {"accepted", "not_sync"} :
  /\ conn[c].stage = "read"
  /\ conn[c].linked =>
       (s = "accepted" <=> content[conn[c].path] = conn[c].body)
  /\ Finish(c, s)
  /\ UNCHANGED <<kind, content, alive>>

-----------------------------------------------------------------------------
(* remove_all, on behalf of a POST or of a DELETE.  An operator whose      *)
(* comment starts with "Bug:" is no part of the specification: it takes    *)
(* the place of the definition that follows it to see that a property      *)
(* notices.                                                                *)

StartRemove(c) ==
  Set(c, [conn[c] EXCEPT !.stage = "remove",
                         !.todo = {q \in Subtree(conn[c].path) : Present(q)}])

\* The entries of a folder go before the folder itself.
Removable(c) ==
  {q \in conn[c].todo : Below(q) \cap conn[c].todo = {}}

\* Removing what is gone is no error.  A file that another request has open
\* loses its name.
RemoveOne(c) == \E q \in Removable(c) :
  /\ conn[c].stage = "remove"
  /\ \A r \in Below(q) : ~ Present(r)
  /\ kind' = [kind EXCEPT ![q] = "absent"]
  /\ content' = [content EXCEPT ![q] = EmptyContent]
  /\ conn' = [d \in Conns |->
       IF d = c THEN [conn[d] EXCEPT !.todo = @ \ {q}]
       ELSE [conn[d] EXCEPT !.linked = @ /\ conn[d].path # q]]
  /\ UNCHANGED alive

\* A folder that has got a new entry meanwhile cannot be removed.
RemoveThrows(c) == \E q \in Removable(c) :
  /\ conn[c].stage = "remove"
  /\ \E r \in Below(q) : Present(r)
  /\ Terminate

\* Bug: once the old entry is gone, the handler returns.
RemoveAndReply(c) ==
  /\ conn[c].stage = "remove" /\ conn[c].todo = {}
  /\ Finish(c, "accepted")
  /\ UNCHANGED <<kind, content, alive>>

RemoveDone(c) ==
  /\ conn[c].stage = "remove" /\ conn[c].todo = {}
  /\ IF conn[c].method = "DELETE"
       THEN Finish(c, "accepted")
       ELSE Set(c, [conn[c] EXCEPT !.stage = "mkdirs"])
  /\ UNCHANGED <<kind, content, alive>>

-----------------------------------------------------------------------------
(* POST                                                                    *)

\* An entry of that name goes first, whatever it is.
PostOpen(c) ==
  /\ conn[c].stage = "post"
  /\ IF Present(conn[c].path)
       THEN StartRemove(c)
       ELSE Set(c, [conn[c] EXCEPT !.stage = "mkdirs"])
  /\ UNCHANGED <<kind, content, alive>>

\* What create_directories is called for.
Wanted(c) == IF conn[c].path \in HasExt THEN Above[conn[c].path]
             ELSE Above[conn[c].path] \cup {conn[c].path}

\* It first looks up which folders are missing ...
Mkdirs(c) ==
  /\ conn[c].stage = "mkdirs"
  /\ \A q \in Wanted(c) : kind[q] # "file"
  /\ Set(c, [conn[c] EXCEPT !.stage = "mkdir",
                            !.todo = {q \in Wanted(c) : ~ Present(q)}])
  /\ UNCHANGED <<kind, content, alive>>

\* Bug: the folders are created in any order.
MkdirAny(c) == \E q \in conn[c].todo :
  /\ conn[c].stage = "mkdir"
  /\ kind' = [kind EXCEPT ![q] = "dir"]
  /\ Set(c, [conn[c] EXCEPT !.todo = @ \ {q}])
  /\ UNCHANGED <<content, alive>>

\* ... then creates them from the top; one that exists by now is no error.
Mkdir(c) == \E q \in conn[c].todo :
  /\ conn[c].stage = "mkdir" /\ Above[q] \cap conn[c].todo = {}
  /\ InPlace(q) /\ kind[q] # "file"
  /\ kind' = [kind EXCEPT ![q] = "dir"]
  /\ Set(c, [conn[c] EXCEPT !.todo = @ \ {q}])
  /\ UNCHANGED <<content, alive>>

\* Bug: it is an error as well if another request has created the folder.
MkdirThrowsIfThere(c) ==
  /\ conn[c].stage = "mkdir"
  /\ \E q \in conn[c].todo :
       Above[q] \cap conn[c].todo = {} /\ (~ InPlace(q) \/ Present(q))
  /\ Terminate

\* A file is in the way, or a folder has gone.
MkdirThrows(c) ==
  /\ \/ /\ conn[c].stage = "mkdirs"
        /\ \E q \in Wanted(c) : kind[q] = "file"
     \/ /\ conn[c].stage = "mkdir"
        /\ \E q \in conn[c].todo : /\ Above[q] \cap conn[c].todo = {}
                                   /\ ~ InPlace(q) \/ kind[q] = "file"
  /\ Terminate

MkdirDone(c) ==
  /\ conn[c].stage = "mkdir" /\ conn[c].todo = {}
  /\ IF conn[c].path \in HasExt
       THEN Set(c, [conn[c] EXCEPT !.stage = "open"])
       ELSE Finish(c, "created")
  /\ UNCHANGED <<kind, content, alive>>

\* The output file is opened, which truncates it.
OpenFile(c) ==
  /\ conn[c].stage = "open"
  /\ LET p == conn[c].path
     IN IF kind[p] = "dir" \/ ~ InPlace(p)
          THEN /\ Finish(c, "internal_server_error")
               /\ UNCHANGED <<kind, content>>
          ELSE /\ kind' = [kind EXCEPT ![p] = "file"]
               /\ content' = [content EXCEPT ![p] = EmptyContent]
               /\ Set(c, [conn[c] EXCEPT !.stage = "write", !.linked = TRUE])
  /\ UNCHANGED alive

\* Bytes are written from the start of the file: a shorter content that lands
\* on a longer one leaves its tail.
Overlay(old, new) == IF old \in {Long, Torn} /\ new # Long THEN Torn ELSE new

WriteFile(c) ==
  /\ conn[c].stage = "write"
  /\ content' = IF conn[c].linked
                  THEN [content EXCEPT
                          ![conn[c].path] = Overlay(@, conn[c].body)]
                  ELSE content
  /\ Finish(c, "created")
  /\ UNCHANGED <<kind, alive>>

WriteFails(c) ==
  /\ WritesFail
  /\ conn[c].stage = "write"
  /\ Finish(c, "internal_server_error")
  /\ UNCHANGED <<kind, content, alive>>

-----------------------------------------------------------------------------
(* DELETE                                                                  *)

DeleteOpen(c) ==
  /\ conn[c].stage = "delete"
  /\ IF Present(conn[c].path)
       THEN StartRemove(c)
       ELSE Finish(c, "not_found")
  /\ UNCHANGED <<kind, content, alive>>

-----------------------------------------------------------------------------

HandleRequest(c) ==
  \/ GetOpen(c) \/ GetRead(c)
  \/ PostOpen(c) \/ Mkdirs(c) \/ Mkdir(c) \/ MkdirThrows(c) \/ MkdirDone(c)
  \/ OpenFile(c) \/ WriteFile(c) \/ WriteFails(c)
  \/ DeleteOpen(c) \/ RemoveOne(c) \/ RemoveThrows(c) \/ RemoveDone(c)

\* The server ends on a signal, when no handler is running.  A reply that is
\* still to be written may not be.
Stop ==
  /\ alive /\ \A c \in Conns : ~ Running(c)
  /\ Terminate

\* The server is started again by hand.
Restart ==
  /\ ~ alive
  /\ alive' = TRUE
  /\ UNCHANGED <<kind, content, conn>>

Next ==
  \/ \E c \in Conns : Receive(c) \/ Dismiss(c) \/ HandleRequest(c) \/ Reply(c)
  \/ Stop \/ Restart

Spec == Init /\ [][Next]_vars

-----------------------------------------------------------------------------
\* What the reply says of the request is so.
ReplyTrue(c) ==
  LET p == conn[c].path
      same == Present(p) /\ content[p] = conn[c].body
  IN /\ conn[c].method = "POST" =>
          \/ /\ conn[c].status = "created"
             /\ same
             /\ kind[p] = IF p \in Files THEN "file" ELSE "dir"
          \/ WritesFail /\ conn[c].status = "internal_server_error"
     /\ conn[c].method = "DELETE" => \A q \in Subtree(p) : ~ Present(q)
     /\ conn[c].method = "GET" =>
          /\ conn[c].status = "accepted" <=> same
          /\ conn[c].status = "not_found" <=> ~ Present(p)

(* What a reply says of a request is so: the entry of a POST is on the     *)
(* server with the content sent, nothing is left of the entry of a DELETE, *)
(* and the answer to a GET tells whether the two copies agree, whatever    *)
(* other requests do at the same time to the folders it shares with their  *)
(* entries, and however many read its own; provided that no POST or DELETE *)
(* of the same entry, of a folder it lies in or of one below it overlaps   *)
(* (request_handler.cpp:82-145, README.md:18).                             *)
RepliesTrue ==
  \A c \in Conns :
    conn[c].stage = "reply" /\ conn[c].path # NoPath /\ conn[c].clean
      => ReplyTrue(c)

(* With names that tell files from folders, only a request that a POST or  *)
(* DELETE of a related entry overlaps can bring the server down in the     *)
(* middle of a request: requests for entries of the same folder may create *)
(* it at the same time, and no GET is in the way of a removal.  A signal   *)
(* cannot, as the threads of the pool are joined                           *)
(* (request_handler.cpp:85-141, server.cpp:45-47).                         *)
DiesOnlyOnOverlap ==
  [][alive /\ ~ alive' =>
       \/ \E c \in Conns : Active(c) /\ ~ conn[c].clean
       \/ \A c \in Conns : ~ Running(c)]_vars

(* Every message gets a response (README.md:18: "incoming messages will be *)
(* evaluated in the order they arrive and a suitable response will be      *)
(* generated"): a request that has come in leaves through its reply.       *)
EveryRequestAnswered ==
  [][\A c \in Conns :
       Running(c) => conn'[c].stage # "idle"]_vars

=============================================================================
