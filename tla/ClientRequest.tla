--------------------------- MODULE ClientRequest ----------------------------
(***************************************************************************)
(* class client (asynclienthttp/main.cpp) and the server it talks to.  A   *)
(* client object is one HTTP request: its constructor starts the           *)
(* resolution of the name, io_context.run() then runs its handlers until   *)
(* one of them starts no further operation.  Every thread has at most one  *)
(* request at a time.                                                      *)
(*                                                                         *)
(* check_connection is a plain int that all threads share.  Its increment  *)
(* is a load and a later store (the build does not optimize), so another   *)
(* thread's update can get lost in between: HandleResolve and              *)
(* HandleConnectNext load, CountConnect stores.                            *)
(*                                                                         *)
(* The server is reduced to its effect on the store, one atomic step per   *)
(* request; RequestHandler and Server describe it.  A connection to it is  *)
(* refused while it is down, and what is in flight is lost when it goes    *)
(* down.  After an accept that failed it is deaf: it goes on listening but *)
(* accepts no more (server.cpp:55), so the kernel completes a connection   *)
(* and queues it, and nobody answers it until the process is restarted.    *)
(***************************************************************************)
EXTENDS BackupCommon

CONSTANTS
  Threads,      \* the threads that issue requests
  Endpoints,    \* how many endpoints the resolver returns
  FaultKinds,   \* which faults happen
  MaxFaults     \* bound on the faults

ASSUME FaultAssumption ==
  /\ Endpoints \in Nat \ {0}
  /\ FaultKinds \subseteq {"refuse", "midrequest", "resolve", "accept",
                          "exit", "credentials"}
  /\ MaxFaults \in Nat

VARIABLES
  check_connection,  \* 0, 1, or Many: any value above 1
  req,               \* req[t]: the request of thread t
  server,            \* "up", "deaf" or "down"
  auth,              \* whether the server knows the credentials given to login
  remote,            \* remote[p]: the content the server holds for p, or Absent
  faults             \* how many faults have happened

requestVars == <<check_connection, req, server, auth, remote, faults>>

\* The code distinguishes 0 and 1 from the rest.
Many == 2
Incremented(n) == IF n = 0 THEN 1 ELSE Many

Methods  == {"login", "GET", "POST", "DELETE", "ping"}
Stages   == {"idle", "resolve", "count", "connect", "write", "reply", "done"}
Statuses == {"unset", "created", "accepted", "not_found", "not_sync",
             "unauthorized"}

\* link: "none" before the connection attempt, then one of the others.
\* reg: the value the increment in progress has loaded.  left: the endpoints
\* not tried yet.  status: the reply; statuscode, which nothing initializes,
\* if it is another than "unauthorized", which sets autherror instead.
\* Fields that no later handler reads are reset, to keep the states few.
Request == [stage : Stages, method : Methods, path : Paths \cup {NoPath},
            body : Nat,
            link : {"none", "ok", "queued", "refused", "lost"},
            reg : 0..Many, left : 0..Endpoints, status : Statuses]

NoRequest == [stage |-> "idle", method |-> "ping", path |-> NoPath,
              body |-> Absent, link |-> "none", reg |-> 0, left |-> 0,
              status |-> "unset"]

RequestTypeOK ==
  /\ check_connection \in 0..Many
  /\ req \in [Threads -> Request]
  /\ server \in {"up", "deaf", "down"}
  /\ auth \in BOOLEAN
  /\ remote \in [Paths -> Nat]
  /\ faults \in 0..MaxFaults

InFlight(t) == req[t].link = "ok"

Done(t) == req[t].stage = "done"

\* The constructor: the request is formed and the resolution is started.
NewRequest(m, p, b) ==
  [NoRequest EXCEPT !.stage = "resolve", !.method = m, !.path = p,
                    !.body = b, !.left = Endpoints]

\* async_connect to the one fixed address, whatever endpoint comes next.
TryConnect(r) ==
  [r EXCEPT !.stage = "count", !.reg = check_connection,
            !.left = @ - 1,
            !.link =
              CASE server = "up"   -> "ok"
                [] server = "deaf" -> "queued"
                [] server = "down" -> "refused"]

-----------------------------------------------------------------------------
(* The handlers of thread t.                                               *)

\* The attempt starts, and only then the flag counts it as a success.
HandleResolve(t) ==
  /\ req[t].stage = "resolve"
  /\ req' = [req EXCEPT ![t] = TryConnect(@)]
  /\ UNCHANGED <<check_connection, server, auth, remote, faults>>

\* The name cannot be resolved: printed, the flag stays as it is.
HandleResolveError(t) ==
  /\ "resolve" \in FaultKinds /\ faults < MaxFaults
  /\ req[t].stage = "resolve"
  /\ req' = [req EXCEPT ![t].stage = "done"]
  /\ faults' = faults + 1
  /\ UNCHANGED <<check_connection, server, auth, remote>>

\* Bug: the attempt is not counted.
ConnectUncounted(t) ==
  /\ req[t].stage = "count"
  /\ req' = [req EXCEPT ![t].stage = "connect"]
  /\ UNCHANGED <<check_connection, server, auth, remote, faults>>

CountConnect(t) ==
  /\ req[t].stage = "count"
  /\ check_connection' = Incremented(req[t].reg)
  /\ req' = [req EXCEPT ![t].stage = "connect", ![t].reg = 0]
  /\ UNCHANGED <<server, auth, remote, faults>>

\* An established connection may have been reset before the handler runs.
HandleConnect(t) ==
  /\ req[t].stage = "connect" /\ req[t].link \in {"ok", "queued", "lost"}
  /\ req' = [req EXCEPT ![t].stage = "write", ![t].left = 0]
  /\ UNCHANGED <<check_connection, server, auth, remote, faults>>

\* Bug: the end of the endpoint list is not looked for.
ConnectPastEnd(t) ==
  /\ req[t].stage = "connect" /\ req[t].link \in {"refused", "lost"}
  /\ req' = [req EXCEPT ![t] = TryConnect(@)]
  /\ UNCHANGED <<check_connection, server, auth, remote, faults>>

HandleConnectNext(t) ==
  /\ req[t].stage = "connect" /\ req[t].link \in {"refused", "lost"}
  /\ req[t].left > 0
  /\ req' = [req EXCEPT ![t] = TryConnect(@)]
  /\ UNCHANGED <<check_connection, server, auth, remote, faults>>

HandleConnectError(t) ==
  /\ req[t].stage = "connect" /\ req[t].link \in {"refused", "lost"}
  /\ req[t].left = 0
  /\ check_connection' = 0
  /\ req' = [req EXCEPT ![t].stage = "done"]
  /\ UNCHANGED <<server, auth, remote, faults>>

HandleReadStatusLine(t) ==
  /\ req[t].stage = "reply" /\ req[t].link = "ok"
  /\ req' = [req EXCEPT ![t].stage = "done", ![t].link = "none"]
  /\ UNCHANGED <<check_connection, server, auth, remote, faults>>

\* Bug: an error while the reply is read is ignored.
HandleWriteErrorOnly(t) ==
  /\ req[t].stage = "write" /\ req[t].link = "lost"
  /\ req' = [req EXCEPT ![t].stage = "done", ![t].status = "unset"]
  /\ UNCHANGED <<check_connection, server, auth, remote, faults>>

\* handle_write_request or handle_read_status_line gets an error: printed,
\* neither the flag nor statuscode is set.
HandleIoError(t) ==
  /\ req[t].stage \in {"write", "reply"} /\ req[t].link = "lost"
  /\ req' = [req EXCEPT ![t].stage = "done", ![t].link = "none",
                        ![t].status = "unset"]
  /\ UNCHANGED <<check_connection, server, auth, remote, faults>>

Handle(t) ==
  \/ HandleResolve(t) \/ HandleResolveError(t) \/ CountConnect(t)
  \/ HandleConnect(t) \/ HandleConnectNext(t) \/ HandleConnectError(t)
  \/ HandleReadStatusLine(t) \/ HandleIoError(t)

-----------------------------------------------------------------------------
(* The server.                                                             *)

Answer(r) ==
  LET missing == remote[r.path] = Absent IN
  IF ~ auth THEN "unauthorized"
  ELSE CASE r.method \in {"login", "ping"}           -> "accepted"
         [] r.method = "POST"                        -> "created"
         [] r.method \in {"GET", "DELETE"} /\ missing -> "not_found"
         [] r.method = "DELETE" /\ ~ missing         -> "accepted"
         [] r.method = "GET" /\ ~ missing ->
              IF remote[r.path] = r.body THEN "accepted" ELSE "not_sync"

\* The request has arrived in full: it takes effect and is answered.
ServerHandles(t) ==
  /\ req[t].stage = "write" /\ req[t].link = "ok"
  /\ req' = [req EXCEPT ![t].stage = "reply", ![t].status = Answer(req[t])]
  /\ remote' =
       IF auth /\ req[t].method \in {"POST", "DELETE"}
         THEN [remote EXCEPT ![req[t].path] =
                 IF req[t].method = "POST" THEN req[t].body ELSE Absent]
         ELSE remote
  /\ UNCHANGED <<check_connection, server, auth, faults>>

\* An accept fails, and with it every connection not accepted yet.
ServerDeaf ==
  /\ server = "up" /\ faults < MaxFaults /\ "accept" \in FaultKinds
  /\ \E queued \in SUBSET {t \in Threads : InFlight(t) /\ req[t].stage # "reply"} :
       req' = [t \in Threads |->
                 IF t \in queued THEN [req[t] EXCEPT !.link = "queued"] ELSE req[t]]
  /\ server' = "deaf"
  /\ faults' = faults + 1
  /\ UNCHANGED <<check_connection, auth, remote>>

\* Replies that are already on their way may still arrive.  A deaf server
\* goes down when somebody restarts it.
ServerDown ==
  /\ \/ /\ server = "up" /\ faults < MaxFaults
        /\ FaultKinds \cap {"refuse", "midrequest"} # {}
        /\ "midrequest" \notin FaultKinds => \A t \in Threads : ~ InFlight(t)
        /\ faults' = faults + 1
     \/ server = "deaf" /\ UNCHANGED faults
  /\ \E spared \in SUBSET {t \in Threads : req[t].stage = "reply"} :
       req' = [t \in Threads |->
                 IF req[t].link \in {"ok", "queued"} /\ t \notin spared
                   THEN [req[t] EXCEPT !.link = "lost"] ELSE req[t]]
  /\ server' = "down"
  /\ UNCHANGED <<check_connection, auth, remote>>

ServerUp ==
  /\ server = "down"
  /\ server' = "up"
  /\ UNCHANGED <<check_connection, req, auth, remote, faults>>

=============================================================================
