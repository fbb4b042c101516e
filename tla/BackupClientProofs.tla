------------------------- MODULE BackupClientProofs -------------------------
(***************************************************************************)
(* Proofs about BackupClient, for every set of entries, every number of    *)
(* endpoints and every kind and number of faults: where the threads are,   *)
(* what their requests are for, the types, and who gets past the login.    *)
(***************************************************************************)
EXTENDS BackupClient, TLAPS

-----------------------------------------------------------------------------
(* The invariant that the others rest on: where the three threads are,     *)
(* what the watcher's fields are there, and what request is under way.     *)

\* The steps at which a thread waits for its request, or looks at its reply.
Waits == {"login", "cs_deleted", "cs_got", "cs_post", "cs_posted", "posted",
          "deleted", "ping"}

\* main in the watcher's callback, but for the synchronization in it.
CallbackSteps == {"called", "check", "post", "posted", "delete", "deleted"}

\* The tasks are started with the watcher, and end with the process.
ControlInv ==
  /\ pc["main"] \in LoginSteps \cup MainSteps \cup SyncSteps
  /\ pc["f"] \in SyncSteps \cup {"off", "finished"}
  /\ pc["f3"] \in {"off", "wait", "ping"}
  /\ pc["main"] \in LoginSteps => pc["f"] = "off" /\ pc["f3"] = "off"
  /\ pc["main"] \notin LoginSteps => pc["f"] # "off" /\ pc["f3"] # "off"
  /\ pc["main"] \in LoginSteps =>
       deleted_files = {} /\ \A t \in Syncers : walk[t] = {} /\ seen[t] = {}

\* An entry is called back on from the loop that found it, and is recorded.
WatchInv ==
  /\ pc["main"] \in LoginSteps \cup {"sleep", "start"} => phase = "idle"
  /\ pc["main"] \in LoginSteps \cup {"sleep", "start", "watch"} => cur = NoPath
  /\ pc["main"] \in CallbackSteps => cur # NoPath
  /\ pc["main"] \in SyncSteps /\ cur = NoPath => phase = "idle"
  /\ cur # NoPath => /\ paths_[cur] # Absent
                     /\ phase = IF status = "erased" THEN "erase" ELSE "scan"
  /\ pc["main"] \in {"delete", "deleted"} => status = "erased"
  /\ pc["main"] \in {"post", "posted"} => status # "erased"

\* What thread t waits for is what it has asked for.
RequestAgrees(t) ==
  /\ req[t].stage = "idle" <=> pc[t] \notin Waits
  /\ req[t].stage = "idle" => req[t].link = "none"
  /\ req[t].stage = "resolve" => req[t].left > 0
  /\ pc[t] = "login" => req[t].method = "login"
  /\ pc[t] \in {"cs_deleted", "deleted"} => req[t].method = "DELETE"
  /\ pc[t] \in {"cs_got", "cs_post"} => req[t].method = "GET"
  /\ pc[t] \in {"cs_posted", "posted"} => req[t].method = "POST"
  /\ pc[t] = "ping" => req[t].method = "ping"
  /\ pc[t] \in {"cs_deleted", "cs_got", "cs_post", "cs_posted"} => req[t].path \in Paths
  /\ pc[t] \in {"posted", "deleted"} => req[t].path = cur
  /\ pc[t] = "cs_post" => Done(t)

RequestInv == \A t \in Threads : RequestAgrees(t)

BaseInv == TypeOK /\ ControlInv /\ WatchInv /\ RequestInv

(* The first start of the program establishes BaseInv.                     *)
LEMMA InitBase == Init => BaseInv
<1> SUFFICES ASSUME Init PROVE BaseInv
  OBVIOUS
<1> USE ThreadsAssumption, FaultAssumption DEF Init
<1>1. WatcherTypeOK
  BY DEF FWInit, WatcherTypeOK, FileStatus, Absent, FirstStamp, Tracked
<1>2. NoRequest \in Request
  BY DEF NoRequest, Request, Stages, Methods, Statuses, Many, Absent
<1>3. RequestTypeOK
  BY <1>2 DEF RequestTypeOK, Many, Absent, FirstStamp
<1>4. TypeOK
  BY <1>1, <1>3 DEF TypeOK, FWInit, SyncSteps, MainSteps, LoginSteps, Syncers, Absent,
     FirstStamp
<1>5. ControlInv /\ WatchInv
  BY DEF FWInit, ControlInv, WatchInv, SyncSteps, MainSteps, LoginSteps, Syncers,
     CallbackSteps
<1>6. RequestInv
  BY DEF RequestInv, RequestAgrees, NoRequest, Waits
<1> QED
  BY <1>4, <1>5, <1>6 DEF BaseInv

-----------------------------------------------------------------------------
(* Steps of one request.                                                   *)

(* A step of the request of t leaves the other threads' alone.             *)
LEMMA RequestStep ==
  ASSUME RequestTypeOK, NEW t \in Threads, NEW r \in Request,
         req' = [req EXCEPT ![t] = r]
  PROVE  /\ req' \in [Threads -> Request]
         /\ req'[t] = r
         /\ \A u \in Threads \ {t} : req'[u] = req[u]
BY DEF RequestTypeOK

(* A request agrees with its thread as long as neither of them moves.      *)
LEMMA SameRequest ==
  ASSUME NEW t \in Threads, RequestAgrees(t), req'[t] = req[t], pc'[t] = pc[t],
         pc[t] \in {"posted", "deleted"} => cur' = cur
  PROVE  RequestAgrees(t)'
BY DEF RequestAgrees, Done

(* Thread t goes on, between requests.                                     *)
LEMMA IdleStep ==
  ASSUME BaseInv, NEW t \in Threads, NEW l,
         pc' = [pc EXCEPT ![t] = l], UNCHANGED req,
         pc[t] \notin Waits, l \notin Waits,
         cur' # cur => t = "main"
  PROVE  RequestInv'
<1> SUFFICES ASSUME NEW u \in Threads PROVE RequestAgrees(u)'
  BY DEF RequestInv
<1>1. CASE u = t
  BY <1>1 DEF BaseInv, TypeOK, RequestInv, RequestAgrees, Waits
<1>2. CASE u # t
  <2>1. pc'[u] = pc[u] /\ (pc[u] \in {"posted", "deleted"} => cur' = cur)
    BY <1>2, ThreadsAssumption DEF BaseInv, TypeOK, ControlInv, SyncSteps
  <2> QED
    BY <2>1, SameRequest DEF BaseInv, RequestInv
<1> QED
  BY <1>1, <1>2

(* What the constructor of a client object makes is a request.             *)
LEMMA NewRequestType ==
  ASSUME NEW m \in Methods, NEW p \in Paths \cup {NoPath}, NEW b \in Nat
  PROVE  NewRequest(m, p, b) \in Request
<1> USE FaultAssumption
<1> DEFINE r1 == [NoRequest EXCEPT !.stage = "resolve", !.method = m]
           r2 == [r1 EXCEPT !.path = p, !.body = b]
           r3 == [r2 EXCEPT !.left = Endpoints]
<1>1. NewRequest(m, p, b) = r3
  BY DEF NewRequest
<1>2. NoRequest \in Request
  BY DEF NoRequest, Request, Stages, Methods, Statuses, Many, Absent
<1> HIDE DEF r1, r2, r3
<1>3. r1 \in Request
  BY <1>2 DEF Request, Stages, r1
<1>4. r2 \in Request
  BY <1>3 DEF Request, r2
<1>5. r3 \in Request
  BY <1>4 DEF Request, r3
<1> QED
  BY <1>1, <1>5

(* Thread t sends a request and waits for it.                              *)
LEMMA IssueStep ==
  ASSUME BaseInv, NEW t \in Threads, NEW l \in Waits,
         NEW m \in Methods, NEW p \in Paths \cup {NoPath}, NEW b \in Nat,
         Issue(t, m, p, b), Goto(t, l), UNCHANGED cur,
         l = "login" => m = "login",
         l \in {"cs_deleted", "deleted"} => m = "DELETE",
         l = "cs_got" => m = "GET",
         l \in {"cs_posted", "posted"} => m = "POST",
         l = "ping" => m = "ping",
         l \in {"cs_deleted", "cs_got", "cs_posted"} => p \in Paths,
         l \in {"posted", "deleted"} => p = cur,
         l # "cs_post"
  PROVE  RequestInv' /\ RequestTypeOK'
<1> USE FaultAssumption
<1>1. NewRequest(m, p, b) \in Request
  BY NewRequestType
<1>2. req' = [req EXCEPT ![t] = NewRequest(m, p, b)]
  BY DEF Issue
<1>3. /\ req' \in [Threads -> Request]
      /\ req'[t] = NewRequest(m, p, b)
      /\ \A u \in Threads \ {t} : req'[u] = req[u]
  BY <1>1, <1>2, RequestStep DEF BaseInv, TypeOK
<1>4. RequestTypeOK'
  BY <1>3 DEF BaseInv, TypeOK, RequestTypeOK, Issue
<1>5. /\ req'[t].stage = "resolve" /\ req'[t].link = "none"
      /\ req'[t].left = Endpoints /\ req'[t].method = m /\ req'[t].path = p
  BY <1>3 DEF NewRequest, NoRequest
<1>6. pc'[t] = l /\ \A u \in Threads \ {t} : pc'[u] = pc[u]
  BY DEF Goto, BaseInv, TypeOK
<1>7. RequestAgrees(t)'
  BY <1>5, <1>6 DEF RequestAgrees, Waits
<1>8. \A u \in Threads \ {t} : RequestAgrees(u)'
  BY <1>3, <1>6, SameRequest DEF BaseInv, RequestInv
<1> QED
  BY <1>4, <1>7, <1>8 DEF RequestInv

(* Thread t goes on with the reply to its request.                         *)
LEMMA ReturnStep ==
  ASSUME BaseInv, NEW t \in Threads, NEW l,
         Return(t), Goto(t, l), l \notin Waits,
         cur' # cur => t = "main"
  PROVE  RequestInv' /\ RequestTypeOK'
<1> USE FaultAssumption
<1>1. NoRequest \in Request
  BY DEF NoRequest, Request, Stages, Methods, Statuses, Many, Absent
<1>2. req' = [req EXCEPT ![t] = NoRequest]
  BY DEF Return
<1>3. /\ req' \in [Threads -> Request]
      /\ req'[t] = NoRequest
      /\ \A u \in Threads \ {t} : req'[u] = req[u]
  BY <1>1, <1>2, RequestStep DEF BaseInv, TypeOK
<1>4. RequestTypeOK'
  BY <1>3 DEF BaseInv, TypeOK, RequestTypeOK, Return
<1>5. pc'[t] = l /\ \A u \in Threads \ {t} : pc'[u] = pc[u]
  BY DEF Goto, BaseInv, TypeOK
<1>6. RequestAgrees(t)'
  BY <1>3, <1>5 DEF RequestAgrees, Waits, NoRequest
<1>7. ASSUME NEW u \in Threads \ {t} PROVE RequestAgrees(u)'
  <2>1. pc[u] \in {"posted", "deleted"} => cur' = cur
    BY ThreadsAssumption DEF BaseInv, ControlInv, SyncSteps
  <2> QED
    BY <1>3, <1>5, <2>1, SameRequest DEF BaseInv, RequestInv
<1> QED
  BY <1>4, <1>6, <1>7 DEF RequestInv

-----------------------------------------------------------------------------
(* What the handlers, the server and its failures do to the requests.      *)

\* The server has answered, or the request has been given up.
Answered(t) == req[t].stage \in {"reply", "done"}

\* Nothing has happened to the connection.
Undisturbed(t) == req[t].link \in {"none", "ok"}

(* An attempt to connect makes a request of a request.                     *)
LEMMA TryConnectType ==
  ASSUME RequestTypeOK, NEW r \in Request, r.left > 0
  PROVE  /\ TryConnect(r) \in Request
         /\ TryConnect(r).stage = "count"
         /\ TryConnect(r).method = r.method
         /\ TryConnect(r).path = r.path
         /\ TryConnect(r).body = r.body
         /\ TryConnect(r).reg = check_connection
         /\ TryConnect(r).link # "none"
         /\ server = "up" => TryConnect(r).link = "ok"
<1> DEFINE link == CASE server = "up"   -> "ok"
                     [] server = "deaf" -> "queued"
                     [] server = "down" -> "refused"
           r1 == [r EXCEPT !.stage = "count", !.reg = check_connection]
           r2 == [r1 EXCEPT !.left = @ - 1, !.link = link]
<1>1. TryConnect(r) = r2
  BY DEF TryConnect
<1>2. link \in {"ok", "queued", "refused"} /\ (server = "up" => link = "ok")
  BY DEF RequestTypeOK
<1> HIDE DEF link, r1, r2
<1>3. r1 \in Request /\ r1.left = r.left
  BY FaultAssumption DEF RequestTypeOK, Request, Stages, r1
<1>4. r1.left - 1 \in 0..Endpoints
  BY <1>3, FaultAssumption DEF Request
<1>5. r2 \in Request
  BY <1>2, <1>3, <1>4 DEF Request, r2
<1>6. r2.stage = "count" /\ r2.reg = check_connection /\ r2.link = link
      /\ r2.method = r.method /\ r2.path = r.path /\ r2.body = r.body
  BY <1>3 DEF r1, r2, Request
<1> QED
  BY <1>1, <1>2, <1>5, <1>6

(* A handler makes a request of a request.                                 *)
LEMMA HandleType ==
  ASSUME RequestTypeOK, NEW t \in Threads, RequestAgrees(t), Handle(t)
  PROVE  RequestTypeOK'
<1>1. CASE HandleResolve(t)
  BY <1>1, TryConnectType DEF HandleResolve, RequestTypeOK, RequestAgrees
<1>2. CASE HandleResolveError(t)
  BY <1>2, FaultAssumption DEF HandleResolveError, RequestTypeOK, Request, Stages
<1>3. CASE CountConnect(t)
  <2> DEFINE r1 == [req[t] EXCEPT !.stage = "connect"]
             r2 == [r1 EXCEPT !.reg = 0]
  <2>1. r1 \in Request
    BY DEF RequestTypeOK, Request, Stages
  <2>2. req' = [req EXCEPT ![t] = r2]
    BY <1>3 DEF CountConnect, RequestTypeOK
  <2> HIDE DEF r1
  <2>3. r2 \in Request
    BY <2>1 DEF Request, Many
  <2>4. check_connection' \in 0..Many
    BY <1>3 DEF CountConnect, Incremented, Many
  <2> QED
    BY <1>3, <2>2, <2>3, <2>4 DEF CountConnect, RequestTypeOK
<1>4. CASE HandleConnect(t)
  <2> DEFINE r1 == [req[t] EXCEPT !.stage = "write"]
             r2 == [r1 EXCEPT !.left = 0]
  <2>1. r1 \in Request
    BY DEF RequestTypeOK, Request, Stages
  <2>2. req' = [req EXCEPT ![t] = r2]
    BY <1>4 DEF HandleConnect, RequestTypeOK
  <2> HIDE DEF r1
  <2>3. r2 \in Request
    BY <2>1, FaultAssumption DEF Request
  <2> QED
    BY <1>4, <2>2, <2>3 DEF HandleConnect, RequestTypeOK
<1>5. CASE HandleConnectNext(t)
  BY <1>5, TryConnectType DEF HandleConnectNext, RequestTypeOK, RequestAgrees
<1>6. CASE HandleConnectError(t)
  BY <1>6 DEF HandleConnectError, RequestTypeOK, Request, Stages, Many
<1>7. CASE HandleReadStatusLine(t)
  BY <1>7 DEF HandleReadStatusLine, RequestTypeOK, Request, Stages
<1>8. CASE HandleIoError(t)
  BY <1>8 DEF HandleIoError, RequestTypeOK, Request, Stages, Statuses
<1> QED
  BY <1>1, <1>2, <1>3, <1>4, <1>5, <1>6, <1>7, <1>8 DEF Handle
  
\* What a handler of thread t does, as far as the invariants tell: without a
\* fault it neither loses the connection nor the reply, and does not take the
\* server for down.
HandlerEffect(t) ==
  /\ \A u \in Threads \ {t} : req'[u] = req[u]
  /\ UNCHANGED <<server, auth, remote>>
  /\ req'[t].method = req[t].method /\ req'[t].path = req[t].path
  /\ req'[t].body = req[t].body
  /\ req[t].stage \notin {"idle", "done"}
  /\ req'[t].stage \in {"count", "connect", "write", "done"}
  /\ faults' \in {faults, faults + 1}
  /\ server = "up" /\ Undisturbed(t) /\ faults' = faults =>
       /\ Undisturbed(t)'
       /\ Answered(t)' <=> Answered(t)
       /\ Answered(t) => req'[t].status = req[t].status
       /\ check_connection' # 0 \/ check_connection = 0 
  /\ faults' # faults =>
       req'[t].link = req[t].link /\ check_connection' = check_connection
  /\ \/ check_connection' \in {0, check_connection}
     \/ req[t].stage = "count" /\ check_connection' = Incremented(req[t].reg)
  /\ req'[t].stage = "count" => req'[t].reg = check_connection

(* Every handler has this effect.                                          *)
LEMMA HandleEffect ==
  ASSUME RequestTypeOK, NEW t \in Threads, RequestAgrees(t), Handle(t)
  PROVE  HandlerEffect(t)
<1>1. CASE HandleResolve(t)
  BY <1>1, TryConnectType DEF HandleResolve, RequestTypeOK, RequestAgrees,
     HandlerEffect, Undisturbed, Answered
<1>2. CASE HandleResolveError(t)
  BY <1>2, FaultAssumption DEF HandleResolveError, RequestTypeOK, Request,
     HandlerEffect, Undisturbed, Answered
<1>3. CASE CountConnect(t)
  BY <1>3 DEF CountConnect, RequestTypeOK, Request, Incremented,
     Many, HandlerEffect, Undisturbed, Answered
<1>4. CASE HandleConnect(t)
  BY <1>4, FaultAssumption DEF HandleConnect, RequestTypeOK, Request,
     HandlerEffect, Undisturbed, Answered
<1>5. CASE HandleConnectNext(t)
  BY <1>5, TryConnectType DEF HandleConnectNext, RequestTypeOK, RequestAgrees,
     HandlerEffect, Undisturbed, Answered
<1>6. CASE HandleConnectError(t)
  BY <1>6 DEF HandleConnectError, RequestTypeOK, Request,
     HandlerEffect, Undisturbed, Answered
<1>7. CASE HandleReadStatusLine(t)
  BY <1>7 DEF HandleReadStatusLine, RequestTypeOK, Request,
     HandlerEffect, Undisturbed, Answered
<1>8. CASE HandleIoError(t)
  BY <1>8 DEF HandleIoError, RequestTypeOK, Request,
     HandlerEffect, Undisturbed, Answered
<1> QED
  BY <1>1, <1>2, <1>3, <1>4, <1>5, <1>6, <1>7, <1>8 DEF Handle

(* The server's answer is a status.                                        *)
LEMMA AnswerType ==
  ASSUME NEW r \in Request
  PROVE  Answer(r) \in Statuses
BY DEF Answer, Request, Methods, Statuses

\* What the server does with the request of thread t.
ServerEffect(t) ==
  /\ req[t].stage = "write" /\ req[t].link = "ok"
  /\ \A u \in Threads \ {t} : req'[u] = req[u]
  /\ req'[t].stage = "reply" /\ req'[t].status = Answer(req[t])
  /\ req'[t].method = req[t].method /\ req'[t].path = req[t].path
  /\ req'[t].body = req[t].body /\ req'[t].link = "ok"
  /\ UNCHANGED <<check_connection, server, auth, faults>>

(* The server's step has this effect.                                      *)
LEMMA ServerHandlesEffect ==
  ASSUME RequestTypeOK, NEW t \in Threads, ServerHandles(t)
  PROVE  RequestTypeOK' /\ ServerEffect(t)
<1> DEFINE r1 == [req[t] EXCEPT !.stage = "reply"]
           r2 == [r1 EXCEPT !.status = Answer(req[t])]
<1>1. r1 \in Request
  BY DEF RequestTypeOK, Request, Stages
<1>2. req' = [req EXCEPT ![t] = r2]
  BY DEF ServerHandles, RequestTypeOK
<1>3. Answer(req[t]) \in Statuses
  BY AnswerType DEF RequestTypeOK
<1>4. ServerEffect(t)
  BY DEF ServerHandles, ServerEffect, RequestTypeOK, Request
<1> HIDE DEF r1
<1>5. r2 \in Request
  BY <1>1, <1>3 DEF Request
<1>6. req' \in [Threads -> Request]
  BY <1>2, <1>5 DEF RequestTypeOK
<1>7. remote' \in [Paths -> Nat]
  BY DEF ServerHandles, RequestTypeOK, Request, Absent
<1> QED
  BY <1>4, <1>6, <1>7 DEF ServerHandles, RequestTypeOK

\* What a change of the server's state does to the request of thread u.
LinkEffect(u) ==
  /\ req'[u].stage = req[u].stage /\ req'[u].left = req[u].left
  /\ req'[u].method = req[u].method /\ req'[u].path = req[u].path
  /\ req'[u].body = req[u].body /\ req'[u].status = req[u].status
  /\ req[u].link = "none" => req'[u].link = "none"

(* The server's failures and its return have this effect, and no other on  *)
(* the client; only the return needs no fault.                             *)
LEMMA ServerFaultEffect ==
  ASSUME RequestTypeOK, ServerDown \/ ServerDeaf \/ ServerUp
  PROVE  /\ RequestTypeOK'
         /\ \A u \in Threads : LinkEffect(u)
         /\ UNCHANGED <<check_connection, auth, remote>>
         /\ server = "up" => faults' = faults + 1
         /\ faults' \in {faults, faults + 1}
<1>1. CASE ServerUp
  BY <1>1 DEF ServerUp, RequestTypeOK, LinkEffect
<1>2. CASE ServerDeaf
  <2>1. PICK Q \in SUBSET {t \in Threads : InFlight(t) /\ req[t].stage # "reply"} :
          req' = [t \in Threads |->
                    IF t \in Q THEN [req[t] EXCEPT !.link = "queued"] ELSE req[t]]
    BY <1>2 DEF ServerDeaf
  <2>2. \A u \in Threads : req'[u] \in Request /\ LinkEffect(u)
    BY <2>1 DEF RequestTypeOK, Request, LinkEffect, InFlight
  <2>3. req' \in [Threads -> Request]
    BY <2>1, <2>2
  <2>4. /\ UNCHANGED <<check_connection, auth, remote>>
        /\ server' = "deaf" /\ faults < MaxFaults /\ faults' = faults + 1
    BY <1>2 DEF ServerDeaf
  <2> QED
    BY <2>2, <2>3, <2>4, FaultAssumption DEF RequestTypeOK
<1>3. CASE ServerDown
  <2>1. PICK Q \in SUBSET {t \in Threads : req[t].stage = "reply"} :
          req' = [t \in Threads |->
                    IF req[t].link \in {"ok", "queued"} /\ t \notin Q
                      THEN [req[t] EXCEPT !.link = "lost"] ELSE req[t]]
    BY <1>3 DEF ServerDown
  <2>2. \A u \in Threads : req'[u] \in Request /\ LinkEffect(u)
    BY <2>1 DEF RequestTypeOK, Request, LinkEffect
  <2>3. req' \in [Threads -> Request]
    BY <2>1, <2>2
  <2>4. UNCHANGED <<check_connection, auth, remote>> /\ server' = "down"
    BY <1>3 DEF ServerDown
  <2>5. \/ server = "up" /\ faults < MaxFaults /\ faults' = faults + 1
        \/ server = "deaf" /\ faults' = faults
    BY <1>3 DEF ServerDown
  <2> QED
    BY <2>2, <2>3, <2>4, <2>5, FaultAssumption DEF RequestTypeOK
<1> QED
  BY <1>1, <1>2, <1>3

-----------------------------------------------------------------------------
(* Steps of the program.                                                   *)

(* The types of the watcher, while it stands still.                        *)
LEMMA SameWatcher ==
  ASSUME WatcherTypeOK, UNCHANGED watcherVars
  PROVE  WatcherTypeOK'
BY DEF WatcherTypeOK, watcherVars, Tracked

(* The types of the requests, while they stand still.                      *)
LEMMA SameRequests ==
  ASSUME RequestTypeOK, UNCHANGED requestVars
  PROVE  RequestTypeOK'
BY DEF RequestTypeOK, requestVars

(* The login is sent.                                                      *)
LEMMA LoginBase == BaseInv /\ Login => BaseInv'
<1> SUFFICES ASSUME BaseInv, Login PROVE BaseInv'
  OBVIOUS
<1> USE ThreadsAssumption DEF BaseInv
<1>1. PICK known \in BOOLEAN : auth' = known
  BY DEF Login
<1>2. /\ pc["main"] = "prompt" /\ pc' = [pc EXCEPT !["main"] = "login"]
      /\ req' = [req EXCEPT !["main"] = NewRequest("login", NoPath, Absent)]
      /\ UNCHANGED <<watcherVars, check_connection, server, remote, faults,
                     localVars, history>>
  BY DEF Login, Goto
<1>3. NewRequest("login", NoPath, Absent) \in Request
  BY NewRequestType DEF Methods, Absent
<1>4. /\ req' \in [Threads -> Request]
      /\ req'["main"] = NewRequest("login", NoPath, Absent)
      /\ \A u \in Threads \ {"main"} : req'[u] = req[u]
  BY <1>2, <1>3, RequestStep DEF TypeOK
<1>5. RequestTypeOK'
  BY <1>1, <1>2, <1>4 DEF TypeOK, RequestTypeOK
<1>6. TypeOK'
  BY <1>2, <1>5, SameWatcher DEF TypeOK, LoginSteps, localVars, history, watcherVars
<1>7. ControlInv' /\ WatchInv'
  BY <1>2 DEF ControlInv, WatchInv, TypeOK, LoginSteps, MainSteps, SyncSteps, CallbackSteps,
     localVars, watcherVars
<1>8. RequestAgrees("main")'
  BY <1>2, <1>4, FaultAssumption DEF RequestAgrees, NewRequest, NoRequest, Waits, TypeOK
<1>9. \A u \in Threads \ {"main"} : RequestAgrees(u)'
  BY <1>2, <1>4, SameRequest DEF RequestInv, TypeOK, watcherVars
<1> QED
  BY <1>6, <1>7, <1>8, <1>9 DEF RequestInv

(* The login ends well, or is to be tried again.                           *)
LEMMA LoginEndsBase == BaseInv /\ (LoginAccepted \/ LoginRetry) => BaseInv'
<1> SUFFICES ASSUME BaseInv, LoginAccepted \/ LoginRetry PROVE BaseInv'
  OBVIOUS
<1> USE ThreadsAssumption DEF BaseInv
<1>1. PICK l \in {"path", "prompt"} :
        Return("main") /\ Goto("main", l) /\ pc["main"] = "login"
  BY DEF LoginAccepted, LoginRetry
<1>2. /\ tentativi' \in 0..(MaxTentativi - 1)
      /\ UNCHANGED <<watcherVars, deleted_files, seen, walk, history>>
  BY DEF LoginAccepted, LoginRetry, TypeOK
<1>3. RequestInv' /\ RequestTypeOK'
  BY <1>1, <1>2, ReturnStep DEF Waits, watcherVars
<1>4. TypeOK'
  BY <1>1, <1>2, <1>3, SameWatcher DEF TypeOK, Goto, LoginSteps, history, watcherVars
<1>5. ControlInv' /\ WatchInv'
  BY <1>1, <1>2 DEF ControlInv, WatchInv, TypeOK, Goto, LoginSteps, MainSteps, SyncSteps,
     CallbackSteps, watcherVars
<1> QED
  BY <1>3, <1>4, <1>5

(* The end of a life leaves what the next one starts with.                 *)
LEMMA EndOfLifeBase ==
  ASSUME BaseInv, EndOfLife, faults' \in 0..MaxFaults, healthySince' \in 0..clock
  PROVE  BaseInv'
<1> USE ThreadsAssumption DEF BaseInv
<1>1. NoRequest \in Request
  BY FaultAssumption DEF NoRequest, Request, Stages, Methods, Statuses, Many, Absent
<1>2. RequestTypeOK'
  BY <1>1 DEF EndOfLife, RequestTypeOK, TypeOK, Many
<1>3. WatcherTypeOK'
  BY DEF EndOfLife, Discard, WatcherTypeOK, TypeOK, Absent, FileStatus
<1>4. TypeOK'
  BY <1>2, <1>3 DEF EndOfLife, Discard, TypeOK, LoginSteps, Absent, Syncers, WatcherTypeOK
<1>5. ControlInv' /\ WatchInv'
  BY DEF EndOfLife, Discard, ControlInv, WatchInv, LoginSteps, MainSteps, SyncSteps,
     CallbackSteps
<1>6. RequestInv'
  BY DEF EndOfLife, RequestInv, RequestAgrees, NoRequest, Waits
<1> QED
  BY <1>4, <1>5, <1>6

(* A login that fails, and Ctrl-C.                                         *)
LEMMA EndsBase == BaseInv /\ (LoginFails \/ Exit) => BaseInv'
<1> SUFFICES ASSUME BaseInv, LoginFails \/ Exit PROVE BaseInv'
  OBVIOUS
<1>1. EndOfLife
  BY DEF LoginFails, Exit
<1>2. faults' \in 0..MaxFaults /\ healthySince' \in 0..clock
  BY FaultAssumption DEF LoginFails, Exit, BaseInv, TypeOK, RequestTypeOK, WatcherTypeOK
<1> QED
  BY <1>1, <1>2, EndOfLifeBase

(* The watcher is made and the tasks are started.                          *)
LEMMA WatchBase == BaseInv /\ Watch => BaseInv'
<1> SUFFICES ASSUME BaseInv, Watch PROVE BaseInv'
  OBVIOUS
<1> USE ThreadsAssumption DEF BaseInv
<1>1. /\ pc["main"] = "path" /\ pc["f"] = "off" /\ pc["f3"] = "off"
      /\ phase = "idle" /\ cur = NoPath
  BY DEF Watch, ControlInv, WatchInv, LoginSteps
<1>2. /\ UNCHANGED <<requestVars, localVars, healthySince, disk, clock,
                      phase, todo, cur, status>>
      /\ paths_' = disk
  BY DEF Watch, Construct
<1>3. /\ pc'["main"] = "sleep" /\ pc'["f"] = "cs_delete" /\ pc'["f3"] = "wait"
      /\ pc' \in [Threads -> {"sleep", "cs_delete", "wait"}]
  BY DEF Watch
<1>4. WatcherTypeOK'
  BY <1>1, <1>2 DEF TypeOK, WatcherTypeOK
<1>5. calm' \in [Syncers -> BOOLEAN]
  BY DEF Watch, TypeOK, RequestTypeOK
<1>6. quietSince' \in 0..clock /\ clock' = clock
  BY DEF Watch, Construct, TypeOK, WatcherTypeOK, Absent
<1>7. TypeOK'
  BY <1>2, <1>3, <1>4, <1>5, <1>6, SameRequests DEF TypeOK, localVars, SyncSteps, MainSteps
<1>8. ControlInv' /\ WatchInv'
  BY <1>1, <1>2, <1>3 DEF ControlInv, WatchInv, LoginSteps, MainSteps, SyncSteps,
     CallbackSteps, localVars
<1>9. RequestInv'
  BY <1>1, <1>2, <1>3 DEF RequestInv, RequestAgrees, requestVars, Waits, Done
<1> QED
  BY <1>7, <1>8, <1>9

(* The program is started again.                                           *)
LEMMA StartBase == BaseInv /\ Start => BaseInv'
<1> SUFFICES ASSUME BaseInv, Start PROVE BaseInv'
  OBVIOUS
<1> USE ThreadsAssumption DEF BaseInv
<1>1. /\ pc["main"] = "off" /\ pc' = [pc EXCEPT !["main"] = "prompt"]
      /\ UNCHANGED <<watcherVars, requestVars, localVars, history>>
  BY DEF Start, Goto
<1>2. RequestInv'
  BY <1>1, IdleStep DEF Waits, requestVars
<1>3. TypeOK'
  BY <1>1, SameWatcher, SameRequests DEF TypeOK, localVars, history, watcherVars, LoginSteps
<1>4. ControlInv' /\ WatchInv'
  BY <1>1 DEF ControlInv, WatchInv, TypeOK, LoginSteps, MainSteps, SyncSteps, CallbackSteps,
     localVars, watcherVars
<1> QED
  BY <1>2, <1>3, <1>4

(* checksync goes on without a request.                                    *)
LEMMA SyncMovesBase ==
  ASSUME BaseInv, NEW t \in Syncers, SyncDeletedAll(t) \/ SyncClear(t)
  PROVE  BaseInv'
<1> USE ThreadsAssumption DEF BaseInv
<1>1. PICK l \in {"cs_clear", "cs_walk"} :
        pc[t] \in {"cs_delete", "cs_clear"} /\ pc' = [pc EXCEPT ![t] = l]
  BY DEF SyncDeletedAll, SyncClear, Goto
<1>2. /\ UNCHANGED <<watcherVars, requestVars, seen, tentativi, history>>
      /\ deleted_files' \in {{}, deleted_files} /\ walk' \in [Syncers -> SUBSET Paths]
  BY DEF SyncDeletedAll, SyncClear, localVars, OnDisk, TypeOK
<1>3. RequestInv'
  BY <1>1, <1>2, IdleStep DEF Waits, requestVars, watcherVars, Syncers
<1>4. TypeOK'
  BY <1>1, <1>2, SameWatcher, SameRequests DEF TypeOK, history, watcherVars, SyncSteps
<1>5. pc["main"] \notin LoginSteps
  BY <1>1 DEF ControlInv, LoginSteps, Syncers
<1>6. ControlInv' /\ WatchInv'
  BY <1>1, <1>2, <1>5 DEF ControlInv, WatchInv, TypeOK, LoginSteps, MainSteps, SyncSteps,
     CallbackSteps, watcherVars, Syncers
<1> QED
  BY <1>3, <1>4, <1>6

(* checksync ends: in a callback main goes on with it, otherwise with a    *)
(* pass.                                                                   *)
LEMMA SyncEndsBase ==
  ASSUME BaseInv, NEW t \in Syncers, SyncEnd(t) \/ SyncAbandon(t)
  PROVE  BaseInv'
<1> USE ThreadsAssumption DEF BaseInv
<1>1. /\ pc[t] = "cs_walk" /\ pc' = [pc EXCEPT ![t] = AfterSync(t)]
      /\ UNCHANGED <<watcherVars, requestVars, deleted_files, tentativi>>
      /\ seen' \in [Syncers -> SUBSET Paths] /\ walk' \in [Syncers -> SUBSET Paths]
      /\ calm' \in [Syncers -> BOOLEAN]
  BY DEF SyncEnd, SyncAbandon, Goto, TypeOK
<1>2. {healthySince', quietSince'} \subseteq 0..clock
  BY DEF SyncEnd, SyncAbandon, TypeOK, WatcherTypeOK, Absent
<1>3. AfterSync(t) \in {"finished", "start", "check"}
  BY DEF AfterSync
<1>4. RequestInv'
  BY <1>1, <1>3, IdleStep DEF Waits, requestVars, watcherVars, Syncers
<1>5. TypeOK'
  BY <1>1, <1>2, <1>3, SameWatcher, SameRequests DEF TypeOK, watcherVars, MainSteps
<1>6. pc["main"] \notin LoginSteps
  BY <1>1 DEF ControlInv, LoginSteps, Syncers
<1>7. ControlInv' /\ WatchInv'
  BY <1>1, <1>6 DEF ControlInv, WatchInv, TypeOK, LoginSteps, MainSteps, SyncSteps,
     CallbackSteps, watcherVars, Syncers, AfterSync
<1> QED
  BY <1>4, <1>5, <1>7

(* The requests of checksync.                                              *)
LEMMA SyncIssuesBase ==
  ASSUME BaseInv, NEW t \in Syncers, SyncDelete(t) \/ SyncGet(t) \/ SyncPost(t)
  PROVE  BaseInv'
<1> USE ThreadsAssumption DEF BaseInv
<1>1. PICK l \in {"cs_deleted", "cs_got", "cs_posted"} :
        Goto(t, l) /\ pc[t] \in {"cs_delete", "cs_walk", "cs_post"}
  BY DEF SyncDelete, SyncGet, SyncPost
<1>2. /\ UNCHANGED <<watcherVars, deleted_files, tentativi, history>>
      /\ seen' \in [Syncers -> SUBSET Paths] /\ walk' \in [Syncers -> SUBSET Paths]
  BY DEF SyncDelete, SyncGet, SyncPost, localVars, TypeOK
<1>3. RequestInv' /\ RequestTypeOK'
  <2>1. t \in Threads /\ cur' = cur /\ EmptyContent \in Nat
        /\ \A p \in Paths : ReadFile(p) \in Nat
    BY <1>2 DEF Syncers, watcherVars, EmptyContent, ReadFile, TypeOK, WatcherTypeOK
  <2>2. CASE SyncDelete(t)
    <3>1. PICK p \in Paths : Issue(t, "DELETE", p, EmptyContent) /\ Goto(t, "cs_deleted")
      BY <2>2 DEF SyncDelete
    <3> QED
      BY <2>1, <3>1, IssueStep DEF Waits, Methods
  <2>3. CASE SyncGet(t)
    <3>1. PICK p \in Paths : Issue(t, "GET", p, ReadFile(p)) /\ Goto(t, "cs_got")
      BY <2>3 DEF SyncGet
    <3> QED
      BY <2>1, <3>1, IssueStep DEF Waits, Methods
  <2>4. CASE SyncPost(t)
    <3>1. /\ Issue(t, "POST", req[t].path, ReadFile(req[t].path)) /\ Goto(t, "cs_posted")
          /\ req[t].path \in Paths
      BY <2>1, <2>4 DEF SyncPost, RequestInv, RequestAgrees
    <3> QED
      BY <2>1, <3>1, IssueStep DEF Waits, Methods
  <2> QED
    BY <2>2, <2>3, <2>4
<1>4. TypeOK'
  BY <1>1, <1>2, <1>3, SameWatcher DEF TypeOK, history, watcherVars, SyncSteps, Goto
<1>5. pc["main"] \notin LoginSteps
  BY <1>1 DEF ControlInv, LoginSteps, Syncers
<1>6. ControlInv' /\ WatchInv'
  BY <1>1, <1>2, <1>5 DEF ControlInv, WatchInv, TypeOK, LoginSteps, MainSteps, SyncSteps,
     CallbackSteps, watcherVars, Syncers, Goto
<1> QED
  BY <1>3, <1>4, <1>6

(* checksync has its reply; a missing copy leaves the request where it is. *)
LEMMA SyncReturnsBase ==
  ASSUME BaseInv, NEW t \in Syncers, SyncDeleted(t) \/ SyncGot(t) \/ SyncPosted(t)
  PROVE  BaseInv'
<1> USE ThreadsAssumption DEF BaseInv
<1>1. PICK l \in {"cs_delete", "cs_post", "cs_walk"} :
        Goto(t, l) /\ pc[t] \in {"cs_deleted", "cs_got", "cs_posted"}
  BY DEF SyncDeleted, SyncGot, SyncPosted
<1>2. UNCHANGED <<watcherVars, localVars, history>> /\ t \in Threads
  BY DEF SyncDeleted, SyncGot, SyncPosted, Syncers
<1>3. RequestInv' /\ RequestTypeOK'
  <2>1. CASE Return(t) /\ l # "cs_post"
    BY <1>1, <1>2, <2>1, ReturnStep DEF Waits, watcherVars
  <2>2. CASE /\ UNCHANGED requestVars /\ pc[t] = "cs_got" /\ Done(t) /\ l = "cs_post"
    <3>1. \A u \in Threads \ {t} : RequestAgrees(u)'
      BY <1>1, <1>2, <2>2, SameRequest DEF Goto, RequestInv, requestVars, watcherVars, TypeOK
    <3>2. RequestAgrees(t)'
      BY <1>1, <1>2, <2>2 DEF Goto, RequestInv, RequestAgrees, requestVars, TypeOK, Done, Waits
    <3> QED
      BY <2>2, <3>1, <3>2, SameRequests DEF RequestInv, TypeOK
  <2>3. \/ Return(t) /\ l # "cs_post"
        \/ UNCHANGED requestVars /\ pc[t] = "cs_got" /\ Done(t) /\ l = "cs_post"
    <3>1. CASE SyncGot(t)
      BY <1>1, <1>2, <3>1 DEF SyncGot, Goto, Return, requestVars, TypeOK
    <3>2. CASE SyncDeleted(t) \/ SyncPosted(t)
      BY <1>1, <1>2, <3>2 DEF SyncDeleted, SyncPosted, Goto, TypeOK
    <3> QED
      BY <3>1, <3>2
  <2> QED
    BY <2>1, <2>2, <2>3
<1>4. TypeOK'
  BY <1>1, <1>2, <1>3, SameWatcher DEF TypeOK, history, watcherVars, localVars, SyncSteps, Goto
<1>5. pc["main"] \notin LoginSteps
  BY <1>1 DEF ControlInv, LoginSteps, Syncers
<1>6. ControlInv' /\ WatchInv'
  BY <1>1, <1>2, <1>5 DEF ControlInv, WatchInv, TypeOK, LoginSteps, MainSteps, SyncSteps,
     CallbackSteps, watcherVars, localVars, Syncers, Goto
<1> QED
  BY <1>3, <1>4, <1>6

(* The polling loop, up to the requests of the callback.                   *)
LEMMA LoopBase ==
  ASSUME BaseInv,
         PollSync \/ Poll \/ BeginPass \/ WatcherStep \/ CallAction
           \/ ActionSync \/ ActionNoSync \/ ActionSwitch
  PROVE  BaseInv'
<1> USE ThreadsAssumption DEF BaseInv
<1>1. PICK l \in {"sleep", "start", "watch", "called", "check", "post", "delete", "cs_delete"} :
        /\ pc' = [pc EXCEPT !["main"] = l]
        /\ pc["main"] \in {"sleep", "start", "watch", "called", "check"}
  <2>1. CASE WatcherStep /\ phase' # "idle"
    <3>1. pc' = pc /\ pc["main"] = "watch"
      BY <2>1 DEF WatcherStep
    <3> QED
      BY <3>1 DEF TypeOK
  <2> QED
    BY <2>1 DEF PollSync, Poll, BeginPass, WatcherStep, CallAction, ActionSync,
       ActionNoSync, ActionSwitch, EnterSync, Goto
<1>2. /\ UNCHANGED <<requestVars, deleted_files, walk, tentativi, healthySince, quietSince>>
      /\ seen' \in [Syncers -> SUBSET Paths] /\ calm' \in [Syncers -> BOOLEAN]
  <2>1. CASE PollSync \/ ActionSync
    BY <2>1 DEF PollSync, ActionSync, EnterSync, TypeOK, RequestTypeOK
  <2>2. CASE Poll \/ BeginPass \/ WatcherStep \/ CallAction \/ ActionNoSync \/ ActionSwitch
    BY <2>2 DEF Poll, BeginPass, WatcherStep, CallAction, ActionNoSync, ActionSwitch,
       localVars, history, TypeOK
  <2> QED
    BY <2>1, <2>2
<1>3. RequestInv'
  BY <1>1, <1>2, IdleStep DEF Waits, requestVars
<1>4. WatcherTypeOK' /\ UNCHANGED <<disk, clock>>
  <2>1. CASE UNCHANGED watcherVars
    BY <2>1, SameWatcher DEF TypeOK, watcherVars
  <2>2. CASE BeginPass
    BY <2>2 DEF BeginPass, StartPass, TypeOK, WatcherTypeOK, Tracked
  <2>3. CASE WatcherStep
    BY <2>3 DEF WatcherStep, Advance, StartScan, EndPass, KeepEntry, FindUnchanged,
       AbandonScan, TypeOK, WatcherTypeOK, Tracked, OnDisk
  <2>4. CASE CallAction
    <3>1. PICK p \in Paths : FindErased(p) \/ FindChanged(p)
      BY <2>4 DEF CallAction, StartCallback
    <3> QED
      BY <3>1, NoPathAssumption DEF FindErased, FindChanged, TypeOK, WatcherTypeOK, Tracked,
         FileStatus
  <2> QED
    BY <2>1, <2>2, <2>3, <2>4 DEF PollSync, Poll, ActionSync, ActionNoSync, ActionSwitch
<1>5. TypeOK'
  BY <1>1, <1>2, <1>4, SameRequests DEF TypeOK, MainSteps, SyncSteps
<1>6. ControlInv'
  BY <1>1, <1>2 DEF ControlInv, TypeOK, LoginSteps, MainSteps, SyncSteps
<1>7. WatchInv'
  <2>1. CASE Poll \/ BeginPass \/ PollSync
    BY <2>1 DEF Poll, BeginPass, StartPass, PollSync, EnterSync, Goto, WatchInv, TypeOK,
       WatcherTypeOK, LoginSteps, SyncSteps, CallbackSteps, watcherVars
  <2>2. CASE WatcherStep
    BY <2>2 DEF WatcherStep, Advance, StartScan, EndPass, KeepEntry, FindUnchanged,
       AbandonScan, Goto, WatchInv, TypeOK, WatcherTypeOK, LoginSteps, SyncSteps, CallbackSteps
  <2>3. CASE CallAction
    <3>1. PICK p \in Paths : FindErased(p) \/ FindChanged(p)
      BY <2>3 DEF CallAction, StartCallback
    <3> QED
      BY <2>3, <3>1, NoPathAssumption DEF CallAction, Goto, FindErased, FindChanged, WatchInv,
         TypeOK, WatcherTypeOK, Tracked, LoginSteps, SyncSteps, CallbackSteps
  <2>4. CASE ActionSync \/ ActionNoSync \/ ActionSwitch
    BY <2>4 DEF ActionSync, ActionNoSync, ActionSwitch, EnterSync, Goto, WatchInv, TypeOK,
       LoginSteps, SyncSteps, CallbackSteps, watcherVars
  <2> QED
    BY <2>1, <2>2, <2>3, <2>4
<1> QED
  BY <1>3, <1>5, <1>6, <1>7

(* The requests of the callback.                                           *)
LEMMA ReportBase ==
  ASSUME BaseInv, ActionPost \/ ActionDelete
  PROVE  BaseInv'
<1> USE ThreadsAssumption DEF BaseInv
<1>1. cur \in Paths /\ EmptyContent \in Nat /\ ReadFile(cur) \in Nat
  BY DEF ActionPost, ActionDelete, WatchInv, CallbackSteps, TypeOK, WatcherTypeOK,
     EmptyContent, ReadFile
<1>2. UNCHANGED <<watcherVars, localVars, history>>
  BY DEF ActionPost, ActionDelete
<1>3. PICK l \in {"posted", "deleted"} :
        /\ Goto("main", l) /\ pc["main"] \in {"post", "delete"}
        /\ l = "posted" <=> pc["main"] = "post"
  BY DEF ActionPost, ActionDelete
<1>4. RequestInv' /\ RequestTypeOK'
  BY <1>1, <1>2, IssueStep DEF ActionPost, ActionDelete, Waits, Methods, watcherVars
<1>5. TypeOK'
  BY <1>2, <1>3, <1>4, SameWatcher DEF TypeOK, Goto, MainSteps, history, localVars, watcherVars
<1>6. ControlInv' /\ WatchInv'
  BY <1>2, <1>3 DEF ControlInv, WatchInv, TypeOK, Goto, LoginSteps, MainSteps, SyncSteps,
     CallbackSteps, watcherVars, localVars
<1> QED
  BY <1>4, <1>5, <1>6

(* The watcher, when its callback returns.                                 *)
LEMMA CallbackReturnsBase ==
  ASSUME BaseInv, pc["main"] \in CallbackSteps, CallbackReturns
  PROVE  /\ WatcherTypeOK' /\ cur \in Paths /\ UNCHANGED <<disk, clock, phase>>
         /\ phase # "idle" /\ cur' = NoPath
<1>1. cur \in Paths /\ phase # "idle"
  BY DEF CallbackReturns, BaseInv, TypeOK, WatcherTypeOK, WatchInv
<1> QED
  BY <1>1 DEF BaseInv, TypeOK, WatcherTypeOK, CallbackReturns, Tracked, Absent, FileStatus

(* The callback returns.                                                   *)
LEMMA ReturnsBase ==
  ASSUME BaseInv, ActionIgnores \/ ActionPosted \/ ActionDeleted
  PROVE  BaseInv'
<1> USE ThreadsAssumption DEF BaseInv
<1>1. /\ Goto("main", "watch") /\ CallbackReturns
      /\ pc["main"] \in {"check", "posted", "deleted"}
      /\ UNCHANGED <<tentativi, seen, walk, history>>
  BY DEF ActionIgnores, ActionPosted, ActionDeleted, localVars
<1>2. /\ WatcherTypeOK' /\ cur \in Paths /\ UNCHANGED <<disk, clock, phase>>
      /\ phase # "idle" /\ cur' = NoPath
  BY <1>1, CallbackReturnsBase DEF CallbackSteps
<1>3. RequestInv' /\ RequestTypeOK'
  <2>1. CASE ActionIgnores
    BY <1>1, <2>1, IdleStep, SameRequests DEF ActionIgnores, Goto, Waits, requestVars, TypeOK
  <2>2. CASE ActionPosted \/ ActionDeleted
    BY <1>1, <2>2, ReturnStep DEF ActionPosted, ActionDeleted, Waits
  <2> QED
    BY <2>1, <2>2
<1>4. deleted_files' \in SUBSET Paths
  BY <1>2 DEF ActionIgnores, ActionPosted, ActionDeleted, localVars, TypeOK
<1>5. TypeOK'
  BY <1>1, <1>2, <1>3, <1>4 DEF TypeOK, Goto, MainSteps, history
<1>6. ControlInv' /\ WatchInv'
  BY <1>1, <1>2 DEF ControlInv, WatchInv, TypeOK, Goto, LoginSteps, MainSteps, SyncSteps,
     CallbackSteps
<1> QED
  BY <1>3, <1>5, <1>6

(* The ping and its end.                                                   *)
LEMMA ReconnectionBase == BaseInv /\ (Tick \/ TickEnd) => BaseInv'
<1> SUFFICES ASSUME BaseInv, Tick \/ TickEnd PROVE BaseInv'
  OBVIOUS
<1> USE ThreadsAssumption DEF BaseInv
<1>1. PICK l \in {"wait", "ping"} : Goto("f3", l) /\ pc["f3"] \in {"wait", "ping"}
  BY DEF Tick, TickEnd
<1>2. UNCHANGED <<watcherVars, localVars, history>>
  BY DEF Tick, TickEnd
<1>3. RequestInv' /\ RequestTypeOK'
  BY <1>2, IssueStep, ReturnStep DEF Tick, TickEnd, Waits, Methods, watcherVars, EmptyContent
<1>4. TypeOK'
  BY <1>1, <1>2, <1>3, SameWatcher DEF TypeOK, Goto, history, localVars, watcherVars
<1>5. ControlInv' /\ WatchInv'
  BY <1>1, <1>2 DEF ControlInv, WatchInv, TypeOK, Goto, LoginSteps, MainSteps, SyncSteps,
     CallbackSteps, watcherVars, localVars
<1> QED
  BY <1>3, <1>4, <1>5

(* A step outside the threads of main().                                   *)
LEMMA RemoteBase ==
  ASSUME BaseInv, UNCHANGED <<watcherVars, pc, localVars>>, RequestTypeOK', RequestInv',
         calm' \in [Syncers -> BOOLEAN], {healthySince', quietSince'} \subseteq 0..clock
  PROVE  BaseInv'
<1>1. TypeOK'
  BY SameWatcher DEF BaseInv, TypeOK, localVars, watcherVars
<1> QED
  BY <1>1 DEF BaseInv, ControlInv, WatchInv, watcherVars, localVars

(* The history of the synchronizations.                                    *)
LEMMA DisturbType ==
  ASSUME BaseInv, NEW ts, Disturb(ts)
  PROVE  calm' \in [Syncers -> BOOLEAN]
BY DEF Disturb, BaseInv, TypeOK

(* A handler of a request.                                                 *)
LEMMA HandlerBase ==
  ASSUME BaseInv, NEW t \in Threads, HandlerOf(t)
  PROVE  BaseInv'
<1> USE DEF BaseInv
<1>1. /\ Handle(t) /\ UNCHANGED <<watcherVars, pc, localVars>>
      /\ RequestAgrees(t) /\ RequestTypeOK
  BY DEF HandlerOf, RequestInv, TypeOK
<1>2. RequestTypeOK' /\ HandlerEffect(t)
  BY <1>1, HandleType, HandleEffect
<1>3. RequestAgrees(t)'
  BY <1>1, <1>2 DEF HandlerEffect, RequestAgrees, Done, watcherVars, Waits
<1>4. \A u \in Threads \ {t} : RequestAgrees(u)'
  BY <1>1, <1>2, SameRequest DEF HandlerEffect, RequestInv, watcherVars
<1>5. calm' \in [Syncers -> BOOLEAN] /\ {healthySince', quietSince'} \subseteq 0..clock
  BY DisturbType DEF HandlerOf, Fault, TypeOK, WatcherTypeOK, history, Absent
<1> QED
  BY <1>1, <1>2, <1>3, <1>4, <1>5, RemoteBase DEF RequestInv

(* The server answers.                                                     *)
LEMMA ServerStepBase ==
  ASSUME BaseInv, NEW t \in Threads, ServerStep(t)
  PROVE  BaseInv'
<1> USE DEF BaseInv
<1>1. /\ ServerHandles(t) /\ UNCHANGED <<watcherVars, pc, localVars, healthySince, quietSince>>
      /\ RequestAgrees(t) /\ RequestTypeOK
  BY DEF ServerStep, RequestInv, TypeOK
<1>2. RequestTypeOK' /\ ServerEffect(t)
  BY <1>1, ServerHandlesEffect
<1>3. RequestAgrees(t)'
  BY <1>1, <1>2 DEF ServerEffect, RequestAgrees, Done, watcherVars, Waits
<1>4. \A u \in Threads \ {t} : RequestAgrees(u)'
  BY <1>1, <1>2, SameRequest DEF ServerEffect, RequestInv, watcherVars
<1>5. calm' \in [Syncers -> BOOLEAN]
  BY DisturbType DEF ServerStep
<1> QED
  BY <1>1, <1>2, <1>3, <1>4, <1>5, RemoteBase DEF RequestInv, TypeOK

(* The server goes and comes back.                                         *)
LEMMA ServerFaultBase == BaseInv /\ ServerFault => BaseInv'
<1> SUFFICES ASSUME BaseInv, ServerFault PROVE BaseInv'
  OBVIOUS
<1> USE DEF BaseInv
<1>1. /\ ServerDown \/ ServerDeaf \/ ServerUp
      /\ UNCHANGED <<watcherVars, pc, localVars>>
  BY DEF ServerFault
<1>2. RequestTypeOK' /\ \A u \in Threads : LinkEffect(u)
  BY <1>1, ServerFaultEffect DEF TypeOK
<1>3. RequestInv'
  BY <1>1, <1>2 DEF LinkEffect, RequestInv, RequestAgrees, Done, watcherVars
<1>4. calm' \in [Syncers -> BOOLEAN] /\ {healthySince', quietSince'} \subseteq 0..clock
  BY DisturbType DEF ServerFault, Fault, TypeOK, WatcherTypeOK, Absent
<1> QED
  BY <1>1, <1>2, <1>3, <1>4, RemoteBase

(* The user edits.                                                         *)
LEMMA UserBase == BaseInv /\ UserEdits => BaseInv'
<1> SUFFICES ASSUME BaseInv, UserEdits PROVE BaseInv'
  OBVIOUS
<1> USE DEF BaseInv
<1>1. PICK p \in Paths : Write(p) \/ Remove(p)
  BY DEF UserEdits, User
<1>2. /\ UNCHANGED <<paths_, phase, todo, cur, status>>
      /\ clock' \in {clock, clock + 1} /\ disk' \in [Paths -> Nat]
  BY <1>1 DEF Write, Remove, TypeOK, WatcherTypeOK, Absent
<1>3. UNCHANGED <<requestVars, pc, localVars, healthySince, quietSince>>
  BY DEF UserEdits
<1>4. WatcherTypeOK'
  BY <1>2 DEF TypeOK, WatcherTypeOK, Tracked
<1>5. calm' \in [Syncers -> BOOLEAN]
  BY DisturbType DEF UserEdits
<1>6. TypeOK'
  BY <1>2, <1>3, <1>4, <1>5, SameRequests DEF TypeOK, localVars, WatcherTypeOK
<1> QED
  BY <1>2, <1>3, <1>6 DEF ControlInv, WatchInv, RequestInv, RequestAgrees, Done, localVars,
     requestVars

(* Every step keeps BaseInv.                                               *)
LEMMA NextBase == BaseInv /\ [Next]_vars => BaseInv'
<1> SUFFICES ASSUME BaseInv, [Next]_vars PROVE BaseInv'
  OBVIOUS
<1> USE ThreadsAssumption
<1>1. CASE UNCHANGED vars
  BY <1>1, SameWatcher, SameRequests DEF vars, watcherVars, requestVars, localVars, history,
     BaseInv, TypeOK, ControlInv, WatchInv, RequestInv, RequestAgrees, Done
<1>2. CASE LoginLoop \/ Operator \/ (MayFail /\ Exit)
  BY <1>2, LoginBase, LoginEndsBase, EndsBase, WatchBase, StartBase DEF LoginLoop, Operator
<1>3. CASE MainLoop
  BY <1>3, LoopBase, ReportBase, ReturnsBase DEF MainLoop
<1>4. ASSUME NEW t \in Syncers, CheckSync(t) PROVE BaseInv'
  BY <1>4, SyncMovesBase, SyncEndsBase, SyncIssuesBase, SyncReturnsBase DEF CheckSync
<1>5. ASSUME NEW t \in Threads, HandlerOf(t) \/ ServerStep(t) PROVE BaseInv'
  BY <1>5, HandlerBase, ServerStepBase
<1>6. CASE Tick \/ TickEnd \/ ServerFault \/ UserEdits
  BY <1>6, ReconnectionBase, ServerFaultBase, UserBase
<1> QED
  BY <1>1, <1>2, <1>3, <1>4, <1>5, <1>6 DEF Next, Main, InitialSync, Reconnection, Syncers

(* BaseInv is an invariant.                                               *)
THEOREM BaseInductive == Spec => []BaseInv
BY InitBase, NextBase, PTL DEF Spec

(* The types hold; the erase loop never stands on a key that is not in the *)
(* map any more, and the program never asks for the file of no entry.      *)
THEOREM ClientTypeCorrect == Spec => []TypeOK
<1>1. BaseInv => TypeOK
  BY DEF BaseInv
<1> QED
  BY <1>1, BaseInductive, PTL

-----------------------------------------------------------------------------
(* Who is rejected watches nothing.                                        *)

\* A step of the three threads between the handlers of their requests.
ThreadStep ==
  \/ LoginAccepted \/ LoginRetry \/ Watch \/ Start
  \/ MainLoop \/ Tick \/ TickEnd
  \/ \E t \in Syncers : CheckSync(t)

(* The steps there are.                                                    *)
LEMMA StepKinds ==
  ASSUME Next
  PROVE  \/ ThreadStep \/ Login \/ LoginFails \/ Exit
         \/ \E t \in Threads : HandlerOf(t) \/ ServerStep(t)
         \/ ServerFault \/ UserEdits
BY ThreadsAssumption DEF Next, Main, InitialSync, Reconnection, LoginLoop, Operator,
   ThreadStep, Syncers

\* A request begins, ends or is left alone.
RequestEffect(u) ==
  \/ req'[u] = req[u]
  \/ /\ req'[u].stage \in {"idle", "resolve"} /\ req'[u].link = "none"
     /\ req'[u].status = "unset"

(* Sending a request has this effect, and so has its end.                  *)
LEMMA IssueEffect ==
  ASSUME BaseInv, NEW t \in Threads, NEW m, NEW p, NEW b,
         Issue(t, m, p, b) \/ Return(t)
  PROVE  /\ \A u \in Threads : RequestEffect(u)
         /\ UNCHANGED <<check_connection, server, auth, remote, faults>>
<1> DEFINE new == NewRequest(m, p, b)
<1>1. /\ new.stage = "resolve" /\ new.link = "none"
      /\ NoRequest.stage = "idle" /\ NoRequest.link = "none"
      /\ new.status = "unset" /\ NoRequest.status = "unset"
  BY DEF NewRequest, NoRequest
<1> HIDE DEF new
<1>2. req' = [req EXCEPT ![t] = new] \/ req' = [req EXCEPT ![t] = NoRequest]
  BY DEF Issue, Return, new
<1>3. \A u \in Threads : req'[u] \in {req[u], new, NoRequest}
  BY <1>2 DEF BaseInv, TypeOK, RequestTypeOK
<1> QED
  BY <1>1, <1>3 DEF Issue, Return, RequestEffect

(* A step of a thread touches the server in no other way.                  *)
LEMMA ThreadEffect ==
  ASSUME BaseInv, ThreadStep
  PROVE  /\ \A u \in Threads : RequestEffect(u)
         /\ UNCHANGED <<check_connection, server, auth, remote, faults>>
<1> USE ThreadsAssumption
<1>1. CASE UNCHANGED requestVars
  BY <1>1 DEF requestVars, RequestEffect
<1>2. CASE \E t \in Threads : \E m, p, b : Issue(t, m, p, b) \/ Return(t)
  BY <1>2, IssueEffect
<1>3. CASE LoginAccepted \/ LoginRetry \/ Watch \/ Start \/ Tick \/ TickEnd
  BY <1>1, <1>3, IssueEffect DEF LoginAccepted, LoginRetry, Watch, Start, Tick, TickEnd
<1>4. CASE MainLoop
  BY <1>1, <1>4, IssueEffect DEF MainLoop, PollSync, Poll, BeginPass, WatcherStep, CallAction,
     ActionSync, ActionNoSync, ActionIgnores, ActionSwitch, ActionPost, ActionDelete,
     ActionPosted, ActionDeleted
<1>5. ASSUME NEW t \in Syncers, CheckSync(t)
      PROVE  /\ \A u \in Threads : RequestEffect(u)
             /\ UNCHANGED <<check_connection, server, auth, remote, faults>>
  <2>1. t \in Threads
    BY DEF Syncers
  <2>2. CASE SyncGot(t)
    BY <2>1, <2>2 DEF SyncGot, RequestEffect, NoRequest, BaseInv, TypeOK, RequestTypeOK
  <2>3. CASE SyncAbandon(t) \/ SyncDeletedAll(t) \/ SyncClear(t) \/ SyncEnd(t)
    BY <1>1, <2>3 DEF SyncAbandon, SyncDeletedAll, SyncClear, SyncEnd
  <2>4. CASE SyncDelete(t) \/ SyncDeleted(t) \/ SyncGet(t) \/ SyncPost(t) \/ SyncPosted(t)
    BY <2>1, <2>4, IssueEffect DEF SyncDelete, SyncDeleted, SyncGet, SyncPost, SyncPosted
  <2> QED
    BY <1>5, <2>2, <2>3, <2>4 DEF CheckSync
<1> QED
  BY <1>3, <1>4, <1>5 DEF ThreadStep

\* Without a fault every request is answered, and a rejection gets through.
RejectInv ==
  /\ RejectedStaysOut
  /\ faults = 0 => /\ server = "up"
                   /\ \A t \in Threads :
                        /\ Undisturbed(t)
                        /\ Answered(t) /\ ~ auth => req[t].status = "unauthorized"
  /\ pc["main"] = "off" => auth

(* At the first start the server is up and no credentials are given yet.   *)
LEMMA InitReject == Init => RejectInv
BY DEF Init, RejectInv, RejectedStaysOut, Undisturbed, Answered, NoRequest

(* Every step keeps RejectInv: a request without a fault in its way is     *)
(* neither lost nor refused, so a login with wrong credentials comes back  *)
(* with the rejection.                                                     *)
LEMMA NextReject == BaseInv /\ RejectInv /\ [Next]_vars => RejectInv'
<1> SUFFICES ASSUME BaseInv, RejectInv, [Next]_vars PROVE RejectInv'
  OBVIOUS
<1> USE ThreadsAssumption
<1>1. CASE UNCHANGED vars
  BY <1>1 DEF vars, requestVars, RejectInv, RejectedStaysOut, Undisturbed, Answered
<1>2. CASE ThreadStep
  <2>1. /\ \A u \in Threads : RequestEffect(u)
        /\ UNCHANGED <<check_connection, server, auth, remote, faults>>
    BY <1>2, ThreadEffect
  <2>2. ASSUME NEW t \in Threads, faults' = 0
        PROVE  Undisturbed(t)' /\ (Answered(t)' /\ ~ auth' => req'[t].status = "unauthorized")
    BY <2>1, <2>2 DEF RejectInv, RequestEffect, Undisturbed, Answered
  <2>3. CASE faults = 0 /\ ~ auth
    <3>1. /\ pc["main"] \in {"prompt", "login"}
          /\ pc["f"] = "off" /\ pc["f3"] = "off"
      BY <2>3 DEF RejectInv, RejectedStaysOut, BaseInv, ControlInv, LoginSteps
    <3>2. LoginAccepted \/ LoginRetry
      BY <1>2, <3>1 DEF ThreadStep, Watch, Start, MainLoop, PollSync, Poll, BeginPass,
         WatcherStep, CallAction, ActionSync, ActionNoSync, ActionIgnores, ActionSwitch,
         ActionPost, ActionDelete, ActionPosted, ActionDeleted, Tick, TickEnd, Syncers,
         CheckSync, SyncAbandon, SyncDelete, SyncDeleted, SyncDeletedAll, SyncClear, SyncGet,
         SyncGot, SyncPost, SyncPosted, SyncEnd
    <3>3. ~ LoginAccepted
      BY <2>3 DEF LoginAccepted, Rejected, Return, Done, RejectInv, Answered
    <3>4. pc'["main"] = "prompt"
      BY <3>2, <3>3 DEF LoginRetry, Goto, BaseInv, TypeOK
    <3> QED
      BY <2>1, <2>2, <3>4 DEF RejectInv, RejectedStaysOut
  <2>4. CASE ~ (faults = 0 /\ ~ auth)
    <3>1. pc'["main"] = "off" => pc["main"] = "off"
      BY <1>2 DEF ThreadStep, LoginAccepted, LoginRetry, Watch, Start, MainLoop, PollSync,
         Poll, BeginPass, WatcherStep, CallAction, ActionSync, ActionNoSync, ActionIgnores,
         ActionSwitch, ActionPost, ActionDelete, ActionPosted, ActionDeleted, Tick, TickEnd,
         CheckSync, SyncAbandon, SyncDelete, SyncDeleted, SyncDeletedAll, SyncClear, SyncGet,
         SyncGot, SyncPost, SyncPosted, SyncEnd, Goto, EnterSync, AfterSync, BaseInv, TypeOK,
         Syncers
    <3> QED
      BY <2>1, <2>2, <2>4, <3>1 DEF RejectInv, RejectedStaysOut
  <2> QED
    BY <2>3, <2>4
<1>3. CASE Login
  <2>1. /\ pc["main"] = "prompt" /\ pc' = [pc EXCEPT !["main"] = "login"]
        /\ req' = [req EXCEPT !["main"] = NewRequest("login", NoPath, Absent)]
        /\ UNCHANGED <<server, faults>>
    BY <1>3 DEF Login, Goto
  <2>2. \A t \in Threads \ {"main"} : pc[t] \notin Waits
    BY <2>1 DEF BaseInv, ControlInv, LoginSteps, Waits
  <2>3. \A t \in Threads : Undisturbed(t)' /\ ~ Answered(t)'
    BY <2>1, <2>2 DEF BaseInv, RequestInv, RequestAgrees, Undisturbed, Answered, NewRequest,
       NoRequest, TypeOK, RequestTypeOK
  <2>4. pc'["main"] = "login"
    BY <2>1 DEF BaseInv, TypeOK
  <2> QED
    BY <2>1, <2>3, <2>4 DEF RejectInv, RejectedStaysOut
<1>4. CASE LoginFails \/ Exit
  <2>1. EndOfLife
    BY <1>4 DEF LoginFails, Exit
  <2>2. faults' = 0 => faults = 0
    BY <1>4, FaultAssumption DEF LoginFails, Exit, BaseInv, TypeOK, RequestTypeOK
  <2> QED
    BY <2>1, <2>2 DEF EndOfLife, RejectInv, RejectedStaysOut, Undisturbed, Answered, NoRequest
<1>5. ASSUME NEW t \in Threads, HandlerOf(t) PROVE RejectInv'
  <2>1. HandlerEffect(t) /\ UNCHANGED pc
    BY <1>5, HandleEffect DEF HandlerOf, BaseInv, TypeOK, RequestInv
  <2>2. faults' = 0 => faults = 0
    BY <2>1, FaultAssumption DEF HandlerEffect, BaseInv, TypeOK, RequestTypeOK
  <2> QED
    BY <2>1, <2>2 DEF HandlerEffect, RejectInv, RejectedStaysOut, Undisturbed, Answered
<1>6. ASSUME NEW t \in Threads, ServerStep(t) PROVE RejectInv'
  <2>1. ServerEffect(t) /\ UNCHANGED pc
    BY <1>6, ServerHandlesEffect DEF ServerStep, BaseInv, TypeOK
  <2> QED
    BY <2>1 DEF ServerEffect, RejectInv, RejectedStaysOut, Undisturbed, Answered, Answer
<1>7. CASE ServerFault
  <2>1. /\ server = "up" => faults' = faults + 1
        /\ faults' \in {faults, faults + 1}
        /\ UNCHANGED <<auth, pc>>
    BY <1>7, ServerFaultEffect DEF ServerFault, BaseInv, TypeOK
  <2>2. faults' # 0
    BY <2>1, FaultAssumption DEF RejectInv, BaseInv, TypeOK, RequestTypeOK
  <2> QED
    BY <2>1, <2>2 DEF RejectInv, RejectedStaysOut
<1>8. CASE UserEdits
  BY <1>8 DEF UserEdits, requestVars, RejectInv, RejectedStaysOut, Undisturbed, Answered
<1> QED
  BY <1>1, <1>2, <1>3, <1>4, <1>5, <1>6, <1>7, <1>8, StepKinds

(* Without a fault, who is rejected never gets to name a folder.           *)
THEOREM RejectedWatchesNothing == Spec => []RejectedStaysOut
<1>1. RejectInv => RejectedStaysOut
  BY DEF RejectInv
<1>2. Spec => []RejectInv
  BY BaseInductive, InitReject, NextReject, PTL DEF Spec
<1> QED
  BY <1>1, <1>2, PTL

=============================================================================
