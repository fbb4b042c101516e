------------------------------- MODULE Server -------------------------------
(***************************************************************************)
(* The life of the server process and of its connections: server.cpp and   *)
(* main() of serverhttp, around the handler of RequestHandler.  A          *)
(* connection is accepted, read by a thread of the pool when its client    *)
(* has sent the request, handled, answered and closed.  Conns stands for   *)
(* the descriptors the process may have open: an accept that finds none    *)
(* left fails, and handle_accept starts another accept only after one that *)
(* succeeded.                                                              *)
(*                                                                         *)
(* The pool is as large as it needs to be; a smaller one only takes        *)
(* interleavings away.  Connection looks into the reading of a request.    *)
(***************************************************************************)
EXTENDS RequestHandler

VARIABLES
  open,        \* connections that have been accepted and not closed yet
  accepting,   \* whether an accept is pending
  stopped,     \* whether the io_service has been stopped
  stored       \* files that were there when the reply to their upload was
               \* given, and that no DELETE has been for since (history)

serverVars == <<vars, open, accepting, stopped, stored>>

\* Only an accepted connection carries a request.
ServerTypeOK ==
  /\ open \subseteq Conns
  /\ accepting \in BOOLEAN /\ stopped \in BOOLEAN
  /\ stored \subseteq Paths
  /\ \A c \in Conns : conn[c].stage # "idle" => c \in open
  /\ alive \/ open = {}

ServerInit ==
  /\ Init
  /\ open = {}
  /\ accepting = TRUE
  /\ stopped = FALSE
  /\ stored = {}

\* What handlers that run are to remove, and to create.
Deleting(p) == \E c \in Conns :
  Running(c) /\ conn[c].method = "DELETE" /\ p \in Subtree(conn[c].path)
Posting(p)  == \E c \in Conns :
  Running(c) /\ conn[c].method = "POST" /\ conn[c].path = p

\* The file a step acknowledges.
Acknowledged == {p \in Paths : \E c \in Conns :
  /\ conn[c].stage = "write" /\ conn[c].linked /\ conn[c].path = p
  /\ conn'[c].stage = "reply" /\ conn'[c].status = "created"}

Remember == stored' = {p \in stored \cup Acknowledged : ~ Deleting(p)'}

\* No further handler is started once the io_service is stopped.
Dispatching == alive /\ ~ stopped

\* The connection starts to read, and the next accept is started.
Accept(c) ==
  /\ Dispatching /\ accepting /\ c \notin open
  /\ open' = open \cup {c}
  /\ UNCHANGED <<vars, accepting, stopped, stored>>

\* Too many open files: no accept is pending any more.
AcceptFails ==
  /\ Dispatching /\ accepting /\ open = Conns
  /\ accepting' = FALSE
  /\ UNCHANGED <<vars, open, stopped, stored>>

\* A request has come in whole.
Read(c) ==
  /\ Dispatching /\ c \in open
  /\ Receive(c) \/ Dismiss(c)
  /\ Remember
  /\ UNCHANGED <<open, accepting, stopped>>

\* The client leaves before that: the connection object goes away.
ReadFails(c) ==
  /\ Dispatching /\ c \in open /\ conn[c].stage = "idle"
  /\ open' = open \ {c}
  /\ UNCHANGED <<vars, accepting, stopped, stored>>

\* A handler that runs goes on, whether or not the service is stopped.  One
\* that throws takes down the others with it, and may leave any file halfway.
Handling(c) ==
  /\ HandleRequest(c)
  /\ open' = IF alive' THEN open ELSE {}
  /\ IF alive' THEN Remember ELSE stored' = {}
  /\ UNCHANGED <<accepting, stopped>>

\* Bug: the connection is closed before its reply is written.
WriteForgotten(c) ==
  /\ Dispatching /\ conn[c].stage = "reply"
  /\ open' = open \ {c}
  /\ UNCHANGED <<vars, accepting, stopped, stored>>

\* The reply is written, the socket shut down, the connection destroyed.
HandleWrite(c) ==
  /\ Dispatching
  /\ Reply(c)
  /\ open' = open \ {c}
  /\ UNCHANGED <<accepting, stopped, stored>>

\* SIGINT, SIGQUIT or SIGTERM: main() calls stop().
Signal ==
  /\ Dispatching
  /\ stopped' = TRUE
  /\ UNCHANGED <<vars, open, accepting, stored>>

\* Bug: main() returns without joining the threads.
ShutDownAtOnce ==
  /\ alive /\ stopped
  /\ Terminate
  /\ open' = {}
  /\ UNCHANGED <<accepting, stopped, stored>>

\* Bug: the threads are joined when all connections are closed, as if the
\* io_service had not been stopped.
ShutDownDrained ==
  /\ stopped /\ open = {}
  /\ Stop
  /\ UNCHANGED <<open, accepting, stopped, stored>>

\* The threads are joined and the process ends.
ShutDown ==
  /\ stopped
  /\ Stop
  /\ open' = {}
  /\ UNCHANGED <<accepting, stopped, stored>>

\* The constructor of the server starts the first accept.
StartServer ==
  /\ Restart
  /\ accepting' = TRUE
  /\ stopped' = FALSE
  /\ UNCHANGED <<open, stored>>

Pool(c) == Read(c) \/ Handling(c) \/ HandleWrite(c)

ServerNext ==
  \/ \E c \in Conns : Accept(c) \/ ReadFails(c) \/ Pool(c)
  \/ AcceptFails \/ Signal \/ ShutDown \/ StartServer

ServerSpec == ServerInit /\ [][ServerNext]_serverVars

\* The threads of the pool and main() are scheduled.  Nothing is asked of the
\* clients, of the signal or of who starts the server.
FairServerSpec ==
  /\ ServerSpec
  /\ \A c \in Conns : WF_serverVars(Handling(c)) /\ WF_serverVars(HandleWrite(c))
  /\ WF_serverVars(ShutDown)

-----------------------------------------------------------------------------
(* An upload that was acknowledged is kept: a later one of the same file   *)
(* removes the file before it writes it again, but it comes to its end     *)
(* even if a signal stops the server, whatever other requests and the      *)
(* acceptor do meanwhile.  Only a DELETE takes the file away, or the end   *)
(* of the process by an exception (request_handler.cpp:104-125,            *)
(* server.cpp:45-53, main.cpp:55-57; README.md:18: "In case of success,    *)
(* any implication of the command will be guaranteed").                    *)
UploadsKept == \A p \in stored : Present(p) \/ Posting(p)

(* A signal ends the server: no handler that runs on goes on for ever, be  *)
(* it that another one creates what it removes or removes what it creates, *)
(* and main() does not wait for replies that are still to be written or    *)
(* for clients that send nothing (request_handler.cpp:104-141,             *)
(* server.cpp:45-53, main.cpp:55-57).                                      *)
SignalEndsServer == stopped ~> ~ alive

=============================================================================
