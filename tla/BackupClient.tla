---------------------------- MODULE BackupClient ----------------------------
(***************************************************************************)
(* The client (main(), asynclienthttp/main.cpp): three threads, the user,  *)
(* and the lives of the process one after the other.                       *)
(*   "main"  logs in, then polls the folder and runs the watcher's         *)
(*           callback; it also                                             *)
(*           runs the synchronizations f2 and f4, for whose end it waits   *)
(*           in the destructor of their futures;                           *)
(*   "f"     runs the initial synchronization, beside main;                *)
(*   "f3"    runs reconnection(), a ping on each timer tick that finds     *)
(*           check_connection = 0.                                         *)
(* A life ends with Ctrl-C or a login that fails; nothing but the folder   *)
(* and the server's copy outlives it.  A request that is then under way is *)
(* dropped: that the server still handles it is the same as that it did so *)
(* just before, if the client is not started again faster than that.       *)
(* Time is left out: a tick and a poll can come at any moment.  The two    *)
(* threads' unsynchronized accesses to the list deleted_files are taken as *)
(* atomic, what a broken list does is undefined.  Reading a file is atomic *)
(* (it yields one version).                                                *)
(***************************************************************************)
EXTENDS FileWatcher, ClientRequest

CONSTANTS
  MaxTentativi,      \* how many logins may be rejected: 3 in the code
  InitialSyncAlone   \* whether the user and the faults wait for f

ASSUME ThreadsAssumption ==
  /\ Threads = {"main", "f", "f3"}
  /\ MaxTentativi \in Nat \ {0}
  /\ InitialSyncAlone \in BOOLEAN

VARIABLES
  pc,             \* pc[t]: what thread t does next
  tentativi,      \* logins rejected in this life
  deleted_files,  \* entries whose deletion is to be repeated
  seen,           \* seen[t]: entries of the list that checksync has deleted
  walk,           \* walk[t]: entries that checksync has still to compare
  calm,           \* calm[t]: t is in a checksync that nothing has disturbed
                  \* so far (history)
  healthySince,   \* the clock at the last fault or recovery, or when the
                  \* last synchronization was abandoned (history)
  quietSince      \* the clock at the start of the watcher, or Absent if one
                  \* of these was since then (history)

history == <<calm, healthySince, quietSince>>
localVars == <<tentativi, deleted_files, seen, walk>>
vars == <<watcherVars, requestVars, pc, localVars, history>>

\* The two threads that run checksync, and where they go on after it.
Syncers == {"main", "f"}
SyncSteps == {"cs_delete", "cs_deleted", "cs_clear", "cs_walk", "cs_got",
              "cs_post", "cs_posted"}
MainSteps == {"sleep", "start", "watch", "called", "check", "post", "posted",
              "delete", "deleted"}

LoginSteps == {"prompt", "login", "path", "off"}

\* main synchronizes before a pass or, in a callback, before it reports.
AfterSync(t) == IF t = "f" THEN "finished"
                ELSE IF cur = NoPath THEN "start" ELSE "check"

TypeOK ==
  /\ WatcherTypeOK /\ RequestTypeOK
  /\ pc \in [Threads -> SyncSteps \cup MainSteps \cup LoginSteps
                        \cup {"finished", "wait", "ping"}]
  /\ tentativi \in 0..(MaxTentativi - 1)
  /\ deleted_files \in SUBSET Paths
  /\ seen \in [Syncers -> SUBSET Paths]
  /\ walk \in [Syncers -> SUBSET Paths]
  /\ calm \in [Syncers -> BOOLEAN]
  /\ {healthySince, quietSince} \subseteq 0..clock

\* The program is started for the first time, and the watcher's fields have
\* no meaning yet.  The server may hold an older copy of a file, or none.
Init ==
  /\ FWInit
  /\ remote \in [Paths -> {Absent, FirstStamp, FirstStamp + 1}]
  /\ \A p \in Paths : remote[p] # Absent => disk[p] # Absent
  /\ check_connection = 1
  /\ req = [t \in Threads |-> NoRequest]
  /\ server = "up" /\ auth = TRUE
  /\ faults = 0
  /\ pc = [t \in Threads |-> IF t = "main" THEN "prompt" ELSE "off"]
  /\ tentativi = 0
  /\ deleted_files = {}
  /\ seen = [t \in Syncers |-> {}]
  /\ walk = [t \in Syncers |-> {}]
  /\ calm = [t \in Syncers |-> FALSE]
  /\ healthySince = clock
  /\ quietSince = Absent

Goto(t, label) == pc' = [pc EXCEPT ![t] = label]

\* t builds a client object and runs its io_context.
Issue(t, m, p, b) ==
  /\ req' = [req EXCEPT ![t] = NewRequest(m, p, b)]
  /\ UNCHANGED <<check_connection, server, auth, remote, faults>>

\* io_context.run() returns: the client object goes out of scope.
Return(t) ==
  /\ Done(t)
  /\ req' = [req EXCEPT ![t] = NoRequest]
  /\ UNCHANGED <<check_connection, server, auth, remote, faults>>

-----------------------------------------------------------------------------
(* The login loop and the end of a life.                                   *)

\* The user types email and password, and the request /login is sent.
Login ==
  /\ pc["main"] = "prompt"
  /\ \E known \in BOOLEAN :
       /\ "credentials" \notin FaultKinds => known
       /\ auth' = known
  /\ req' = [req EXCEPT !["main"] = NewRequest("login", NoPath, Absent)]
  /\ Goto("main", "login")
  /\ UNCHANGED <<watcherVars, check_connection, server, remote, faults,
                 localVars, history>>

Rejected == req["main"].status = "unauthorized"

\* Bug: only the flag is looked at, not autherror.
LoginConnected ==
  /\ pc["main"] = "login" /\ check_connection # 0
  /\ Return("main")
  /\ Goto("main", "path")
  /\ tentativi' = 0
  /\ UNCHANGED <<watcherVars, deleted_files, seen, walk, history>>

\* No rejection has come, be it that no answer has come at all.
LoginAccepted ==
  /\ pc["main"] = "login" /\ check_connection # 0 /\ ~ Rejected
  /\ Return("main")
  /\ Goto("main", "path")
  /\ tentativi' = 0
  /\ UNCHANGED <<watcherVars, deleted_files, seen, walk, history>>

\* The user wants to try again.
LoginRetry ==
  /\ pc["main"] = "login" /\ check_connection # 0 /\ Rejected
  /\ tentativi + 1 < MaxTentativi
  /\ Return("main")
  /\ Goto("main", "prompt")
  /\ tentativi' = tentativi + 1
  /\ UNCHANGED <<watcherVars, deleted_files, seen, walk, history>>

\* The process ends, and its memory is gone: what is left of the state has
\* the values that the next life starts with.
EndOfLife ==
  /\ Discard
  /\ req' = [t \in Threads |-> NoRequest]
  /\ check_connection' = 1
  /\ auth' = TRUE
  /\ pc' = [t \in Threads |-> "off"]
  /\ tentativi' = 0
  /\ deleted_files' = {}
  /\ seen' = [t \in Syncers |-> {}]
  /\ walk' = [t \in Syncers |-> {}]
  /\ calm' = [t \in Syncers |-> FALSE]
  /\ quietSince' = Absent
  /\ UNCHANGED <<server, remote>>

\* "Server down. Try to connect later...", a third rejection, or a user who
\* does not want to retry.
LoginFails ==
  /\ pc["main"] = "login" /\ Done("main")
  /\ check_connection = 0 \/ Rejected
  /\ EndOfLife
  /\ UNCHANGED <<faults, healthySince>>

\* The login has got through: with the flag at 1, as a login that could not
\* resolve the name leaves it, main would synchronize beside f.
AllWell == server = "up" /\ auth /\ check_connection = Many

\* Bug: the folder is taken to be in sync at the start.
WatchUnsynced ==
  /\ pc["main"] = "path"
  /\ Construct
  /\ pc' = [t \in Threads |-> CASE t = "main" -> "sleep"
                                [] t = "f"    -> "finished"
                                [] t = "f3"   -> "wait"]
  /\ quietSince' = IF AllWell THEN clock ELSE Absent
  /\ UNCHANGED <<requestVars, localVars, calm, healthySince>>

\* The user names a folder: the watcher is made and the tasks are started.
Watch ==
  /\ pc["main"] = "path"
  /\ Construct
  /\ pc' = [t \in Threads |-> CASE t = "main" -> "sleep"
                                [] t = "f"    -> "cs_delete"
                                [] t = "f3"   -> "wait"]
  /\ calm' = [calm EXCEPT !["f"] = server = "up" /\ auth]
  /\ quietSince' = IF AllWell THEN clock ELSE Absent
  /\ UNCHANGED <<requestVars, localVars, healthySince>>

\* Ctrl-C, at any moment.
Exit ==
  /\ "exit" \in FaultKinds /\ faults < MaxFaults
  /\ pc["main"] # "off"
  /\ EndOfLife
  /\ faults' = faults + 1
  /\ healthySince' = clock

Start ==
  /\ pc["main"] = "off"
  /\ Goto("main", "prompt")
  /\ UNCHANGED <<watcherVars, requestVars, localVars, history>>

\* What the user does, and what main does about it.
Operator == Login \/ Watch \/ Start
LoginLoop == LoginAccepted \/ LoginRetry \/ LoginFails

-----------------------------------------------------------------------------
(* checksync, run by t.                                                    *)

EnterSync(t) ==
  /\ Goto(t, "cs_delete")
  /\ seen' = [seen EXCEPT ![t] = {}]
  /\ calm' = [calm EXCEPT ![t] = server = "up" /\ auth]
  /\ UNCHANGED <<tentativi, deleted_files, walk, healthySince, quietSince>>

SyncDelete(t) == \E p \in Paths :
  /\ pc[t] = "cs_delete" /\ p \in deleted_files \ seen[t]
  /\ Issue(t, "DELETE", p, EmptyContent)
  /\ seen' = [seen EXCEPT ![t] = @ \cup {p}]
  /\ Goto(t, "cs_deleted")
  /\ UNCHANGED <<tentativi, watcherVars, deleted_files, walk, history>>

\* Whether the deletion got through is not looked at.
SyncDeleted(t) ==
  /\ pc[t] = "cs_deleted"
  /\ Return(t)
  /\ Goto(t, "cs_delete")
  /\ UNCHANGED <<watcherVars, localVars, history>>

\* Bug: the list is cleared before it is worked off.
SyncDeletedSome(t) ==
  /\ pc[t] = "cs_delete"
  /\ Goto(t, "cs_clear")
  /\ UNCHANGED <<watcherVars, requestVars, localVars, history>>

SyncDeletedAll(t) ==
  /\ pc[t] = "cs_delete" /\ deleted_files \subseteq seen[t]
  /\ Goto(t, "cs_clear")
  /\ UNCHANGED <<watcherVars, requestVars, localVars, history>>

\* The list is cleared, then the directory iterator is opened.
SyncClear(t) ==
  /\ pc[t] = "cs_clear"
  /\ deleted_files' = {}
  /\ walk' = [walk EXCEPT ![t] = OnDisk]
  /\ Goto(t, "cs_walk")
  /\ UNCHANGED <<tentativi, watcherVars, requestVars, seen, history>>

\* The file is read, and its hash sent for comparison.
SyncGet(t) == \E p \in Paths :
  /\ pc[t] = "cs_walk" /\ p \in walk[t]
  /\ Issue(t, "GET", p, ReadFile(p))
  /\ walk' = [walk EXCEPT ![t] = @ \ {p}]
  /\ Goto(t, "cs_got")
  /\ UNCHANGED <<tentativi, watcherVars, deleted_files, seen, history>>

\* Bug: a copy that differs (305) is taken for a good one.
SyncGotMissing(t) ==
  /\ pc[t] = "cs_got" /\ Done(t)
  /\ IF req[t].status = "not_found"
       THEN Goto(t, "cs_post") /\ UNCHANGED req
       ELSE Goto(t, "cs_walk") /\ req' = [req EXCEPT ![t] = NoRequest]
  /\ UNCHANGED <<watcherVars, check_connection, server, auth, remote, faults,
                 localVars, history>>

\* An unset statuscode is whatever the stack held, 404 or 305 included; a
\* rejection leaves it unset too.
SyncGot(t) ==
  /\ pc[t] = "cs_got" /\ Done(t)
  /\ \/ /\ req[t].status \in {"not_found", "not_sync", "unset", "unauthorized"}
        /\ Goto(t, "cs_post")
        /\ UNCHANGED req
     \/ /\ req[t].status \in {"accepted", "unset", "unauthorized"}
        /\ Goto(t, "cs_walk")
        /\ req' = [req EXCEPT ![t] = NoRequest]
  /\ UNCHANGED <<watcherVars, check_connection, server, auth, remote, faults,
                 localVars, history>>

\* post_method reads the file again.
SyncPost(t) ==
  /\ pc[t] = "cs_post"
  /\ Issue(t, "POST", req[t].path, ReadFile(req[t].path))
  /\ Goto(t, "cs_posted")
  /\ UNCHANGED <<watcherVars, localVars, history>>

SyncPosted(t) ==
  /\ pc[t] = "cs_posted"
  /\ Return(t)
  /\ Goto(t, "cs_walk")
  /\ UNCHANGED <<watcherVars, localVars, history>>

SyncEnd(t) ==
  /\ pc[t] = "cs_walk" /\ walk[t] = {}
  /\ Goto(t, AfterSync(t))
  /\ seen' = [seen EXCEPT ![t] = {}]
  /\ calm' = [calm EXCEPT ![t] = FALSE]
  /\ UNCHANGED <<tentativi, watcherVars, requestVars, deleted_files, walk, healthySince,
                 quietSince>>

\* The iterator throws at a folder that has vanished before it was entered.
\* The future keeps the exception to itself, and the rest is not compared.
SyncAbandon(t) ==
  /\ pc[t] = "cs_walk" /\ \E p \in walk[t] : disk[p] = Absent
  /\ Goto(t, AfterSync(t))
  /\ seen' = [seen EXCEPT ![t] = {}]
  /\ walk' = [walk EXCEPT ![t] = {}]
  /\ calm' = [calm EXCEPT ![t] = FALSE]
  /\ healthySince' = clock /\ quietSince' = Absent
  /\ UNCHANGED <<tentativi, watcherVars, requestVars, deleted_files>>

CheckSync(t) ==
  \/ SyncAbandon(t) \/ SyncDelete(t) \/ SyncDeleted(t) \/ SyncDeletedAll(t) \/ SyncClear(t)
  \/ SyncGet(t) \/ SyncGot(t) \/ SyncPost(t) \/ SyncPosted(t) \/ SyncEnd(t)

-----------------------------------------------------------------------------
(* The polling loop and the watcher's callback.                            *)

\* "The first connection that succeeds after the error" starts f2.
PollSync ==
  /\ pc["main"] = "sleep" /\ check_connection = 1
  /\ EnterSync("main")
  /\ UNCHANGED <<watcherVars, requestVars>>

Poll ==
  /\ pc["main"] = "sleep" /\ check_connection # 1
  /\ Goto("main", "start")
  /\ UNCHANGED <<watcherVars, requestVars, localVars, history>>

BeginPass ==
  /\ pc["main"] = "start"
  /\ StartPass
  /\ Goto("main", "watch")
  /\ UNCHANGED <<requestVars, localVars, history>>

WatcherStep ==
  /\ pc["main"] = "watch"
  /\ Advance
  /\ IF phase' = "idle" THEN Goto("main", "sleep") ELSE UNCHANGED pc
  /\ UNCHANGED <<requestVars, localVars, history>>

CallAction ==
  /\ pc["main"] = "watch"
  /\ StartCallback
  /\ Goto("main", "called")
  /\ UNCHANGED <<requestVars, localVars, history>>

\* f4, in the callback.
ActionSync ==
  /\ pc["main"] = "called" /\ check_connection = 1
  /\ EnterSync("main")
  /\ UNCHANGED <<watcherVars, requestVars>>

ActionNoSync ==
  /\ pc["main"] = "called" /\ check_connection # 1
  /\ Goto("main", "check")
  /\ UNCHANGED <<watcherVars, requestVars, localVars, history>>

\* Bug: the early return does not except erased entries.
ActionIgnoresErased ==
  /\ pc["main"] = "check" /\ disk[cur] = Absent
  /\ CallbackReturns
  /\ Goto("main", "watch")
  /\ UNCHANGED <<requestVars, localVars, history>>

\* Neither a regular file nor a directory, and not erased: nothing to do.
ActionIgnores ==
  /\ pc["main"] = "check" /\ status # "erased" /\ disk[cur] = Absent
  /\ CallbackReturns
  /\ Goto("main", "watch")
  /\ UNCHANGED <<requestVars, localVars, history>>

ActionSwitch ==
  /\ pc["main"] = "check" /\ (status = "erased" \/ disk[cur] # Absent)
  /\ Goto("main", IF status = "erased" THEN "delete" ELSE "post")
  /\ UNCHANGED <<watcherVars, requestVars, localVars, history>>

\* Bug: nothing is sent while the flag says that the server is away.
ActionPostIfConnected ==
  /\ pc["main"] = "post"
  /\ IF check_connection = 0
       THEN /\ CallbackReturns
            /\ Goto("main", "watch")
            /\ UNCHANGED requestVars
       ELSE /\ Issue("main", "POST", cur, ReadFile(cur))
            /\ Goto("main", "posted")
            /\ UNCHANGED watcherVars
  /\ UNCHANGED <<localVars, history>>

ActionPost ==
  /\ pc["main"] = "post"
  /\ Issue("main", "POST", cur, ReadFile(cur))
  /\ Goto("main", "posted")
  /\ UNCHANGED <<watcherVars, localVars, history>>

ActionDelete ==
  /\ pc["main"] = "delete"
  /\ Issue("main", "DELETE", cur, EmptyContent)
  /\ Goto("main", "deleted")
  /\ UNCHANGED <<watcherVars, localVars, history>>

\* Bug: the callback does not wait for the request.
ActionPostedEarly ==
  /\ pc["main"] = "posted"
  /\ CallbackReturns
  /\ Goto("main", "watch")
  /\ UNCHANGED <<requestVars, localVars, history>>

ActionPosted ==
  /\ pc["main"] = "posted"
  /\ Return("main") /\ CallbackReturns
  /\ Goto("main", "watch")
  /\ UNCHANGED <<localVars, history>>

\* The deletion is kept for later if the flag says that the server is away.
ActionDeleted ==
  /\ pc["main"] = "deleted"
  /\ Return("main") /\ CallbackReturns
  /\ deleted_files' = IF check_connection = 0 THEN deleted_files \cup {cur}
                      ELSE deleted_files
  /\ Goto("main", "watch")
  /\ UNCHANGED <<tentativi, seen, walk, history>>

MainLoop ==
  \/ PollSync \/ Poll \/ BeginPass \/ WatcherStep \/ CallAction
  \/ ActionSync \/ ActionNoSync \/ ActionIgnores \/ ActionSwitch
  \/ ActionPost \/ ActionDelete \/ ActionPosted \/ ActionDeleted

-----------------------------------------------------------------------------
(* reconnection().                                                         *)

\* A tick that finds another value just sets the timer again.
Tick ==
  /\ pc["f3"] = "wait" /\ check_connection = 0
  /\ Issue("f3", "ping", NoPath, EmptyContent)
  /\ Goto("f3", "ping")
  /\ UNCHANGED <<watcherVars, localVars, history>>

TickEnd ==
  /\ pc["f3"] = "ping"
  /\ Return("f3")
  /\ Goto("f3", "wait")
  /\ UNCHANGED <<watcherVars, localVars, history>>

-----------------------------------------------------------------------------

\* The user edits between lives as well.
MayEdit == InitialSyncAlone => pc["f"] = "finished" \/ pc["main"] = "off"
MayFail == InitialSyncAlone => pc["f"] \in {"finished", "off"}

\* The history variables follow the handlers and the faults.
Disturb(ts) == calm' = [t \in Syncers |-> calm[t] /\ t \notin ts]

Fault == healthySince' = clock /\ quietSince' = Absent

HandlerOf(t) ==
  /\ Handle(t)
  /\ UNCHANGED <<watcherVars, pc, localVars>>
  /\ IF faults' # faults
       THEN MayFail /\ Fault /\ Disturb({t})
       ELSE UNCHANGED history

ServerStep(t) ==
  /\ ServerHandles(t)
  /\ Disturb(IF req[t].method \in {"POST", "DELETE"} THEN Syncers \ {t} ELSE {})
  /\ UNCHANGED <<watcherVars, pc, localVars, healthySince, quietSince>>

ServerFault ==
  /\ MayFail
  /\ ServerDown \/ ServerDeaf \/ ServerUp
  /\ Fault /\ Disturb(Syncers)
  /\ UNCHANGED <<watcherVars, pc, localVars>>

UserEdits ==
  /\ MayEdit
  /\ User
  /\ Disturb(Syncers)
  /\ UNCHANGED <<requestVars, pc, localVars, healthySince, quietSince>>

Main == LoginLoop \/ MainLoop \/ CheckSync("main") \/ HandlerOf("main")
InitialSync == CheckSync("f") \/ HandlerOf("f")
Reconnection == Tick \/ TickEnd \/ HandlerOf("f3")

Next ==
  \/ Main \/ InitialSync \/ Reconnection
  \/ \E t \in Threads : ServerStep(t)
  \/ ServerFault \/ UserEdits \/ Operator \/ (MayFail /\ Exit)

Spec == Init /\ [][Next]_vars

\* Every thread is scheduled, and a server that is up answers every request.
\* Nothing is asked of the user, of the faults or of the server's return.
FairSpec ==
  /\ Spec
  /\ WF_vars(Main) /\ WF_vars(InitialSync) /\ WF_vars(Reconnection)
  /\ \A t \in Threads : WF_vars(ServerStep(t))

-----------------------------------------------------------------------------
(* As long as every request gets through and the initial synchronization   *)
(* is left alone, the client implements WatchedMirror: the two reads and   *)
(* the five handlers of each request amount to one read and one report.    *)
Stage ==
  CASE cur = NoPath            -> "none"
    [] pc["main"] = "posted"   -> IF req["main"].stage \in {"reply", "done"}
                                    THEN "reported" ELSE "read"
    [] pc["main"] = "deleted"  -> IF req["main"].stage \in {"reply", "done"}
                                    THEN "reported" ELSE "called"
    [] OTHER                   -> "called"

Mirror == INSTANCE WatchedMirror WITH
            remote <- IF pc["f"] = "finished" THEN remote ELSE disk,
            stage  <- Stage,
            buf    <- IF pc["main"] = "posted" THEN req["main"].body ELSE Absent

Refinement == Mirror!Spec

(* Once the user has logged in, and stops editing, the server ends up with *)
(* the folder's content and keeps it (README.md:5).                        *)
EventuallyMirrored == <>(pc["main"] \notin LoginSteps) => <>[](remote = disk)

(* At rest nothing is out of sync: when no thread has anything left to do, *)
(* the server is there and no synchronization is due, the server has what  *)
(* the folder has (README.md:5).                                           *)
AtRest ==
  /\ pc["main"] = "sleep" /\ pc["f"] = "finished" /\ pc["f3"] = "wait"
  /\ paths_ = disk
  /\ server = "up" /\ auth /\ check_connection = Many

InSyncAtRest == AtRest => remote = disk

(* What the server holds of an entry is something the entry has been: at   *)
(* rest there is no empty file that no one has ever written, neither in    *)
(* place of an entry that exists nor of one that does not (README.md:5).   *)
NothingInvented ==
  AtRest => \A p \in Paths : remote[p] # EmptyContent

(* What changes while the client runs is sent, and tried again after a     *)
(* transient error: at rest, every entry of the folder is on the server as *)
(* it is on disk (README.md:5).                                            *)
ChangesArrive ==
  AtRest => \A p \in OnDisk : remote[p] = disk[p]

(* A synchronization that nothing disturbs repairs what the faults before  *)
(* it have broken: the deletions it strikes off the list have reached the  *)
(* server, and in the end the server's copy of every entry of the folder   *)
(* is the entry itself (main.cpp:212-256).                                 *)
CheckSyncRepairs ==
  [][\A t \in Syncers : calm[t] =>
       /\ SyncClear(t) => \A p \in deleted_files : remote[p] = Absent
       /\ SyncEnd(t) => \A p \in OnDisk : remote[p] = disk[p]]_vars

(* Faults have no effect on later edits: with the server back and no       *)
(* synchronization under way, an entry written since the last fault that   *)
(* the watcher takes for unchanged is on the server as it is on disk.  In  *)
(* a synchronization it need not be: a repeated deletion also removes the  *)
(* copy of an entry that exists again, until the entry's turn in the walk  *)
(* comes; and if the walk is abandoned, that turn does not come            *)
(* (main.cpp:212-256, 368-452).                                            *)
EditsAfterRecovery ==
  server = "up" /\ auth /\ pc["f"] = "finished" /\ pc["main"] \notin SyncSteps =>
    \A p \in OnDisk \ {cur} :
      paths_[p] = disk[p] /\ disk[p] > healthySince => remote[p] = disk[p]

(* No deletion is forgotten while the client runs: one that finds the      *)
(* server away is noted, and one that is noted leaves the list when the    *)
(* server has no copy of the entry, or when the entry exists again         *)
(* (README.md:5, main.cpp:214-224, 434-437).                               *)
DeletionsKept ==
  [][/\ ActionDeleted /\ req["main"].link = "refused" => cur \in deleted_files'
     /\ pc'["main"] # "off" =>
          \A p \in deleted_files \ deleted_files' :
            remote[p] = Absent \/ disk[p] # Absent]_vars

(* A restart makes good for the edits made while no client was running and *)
(* for what an earlier life left undone, removals excepted: with no fault  *)
(* and no abandoned synchronization since the watcher was made, what       *)
(* differs at rest is a copy of an entry that does not exist, from before  *)
(* that start (main.cpp:357-366).                                          *)
RestartRepairs ==
  AtRest /\ quietSince # Absent =>
    \A p \in Paths : remote[p] # disk[p] =>
      disk[p] = Absent /\ remote[p] <= quietSince

(* Who is rejected watches nothing.  A client with wrong credentials gets  *)
(* past the login only if a fault kept the rejection from it               *)
(* (main.cpp:328-343).                                                     *)
RejectedStaysOut ==
  faults = 0 /\ ~ auth => pc["main"] \in {"prompt", "login"}

(* No fault stops the polling: whatever is lost, main comes back to sleep, *)
(* or back to the user if the process has ended.  The one exception is a   *)
(* request to a server that goes on listening and never answers: no        *)
(* operation has a timeout (main.cpp:99-112).                              *)
MainKeepsPolling ==
  \/ []<>(pc["main"] \in {"sleep", "prompt", "path", "off"})
  \/ <>[](req["main"].link = "queued")

(* Once the server is back for good, the client notices (main.cpp:281).    *)
Reconnects == <>[](server # "down") => <>[](check_connection # 0)

=============================================================================
