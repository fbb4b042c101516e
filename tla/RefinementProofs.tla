-------------------------- MODULE RefinementProofs --------------------------
(***************************************************************************)
(* The client implements WatchedMirror, and at rest the server has what    *)
(* the folder has: the proofs of Refinement and InSyncAtRest, for a run in *)
(* which no request is lost and the initial synchronization is left alone. *)
(***************************************************************************)
EXTENDS SyncProofs

-----------------------------------------------------------------------------
(* Nothing fails, and the initial synchronization is left alone.           *)

\* Every request gets through and is counted, from the login on: main never
\* synchronizes, and what the watcher does not track has no copy.
WellInv ==
  /\ faults = 0 /\ auth /\ check_connection # 0
  /\ \A t \in Threads : /\ req[t].stage = "count" => req[t].reg # 0
                        /\ req[t].status # "unauthorized"
  /\ pc["main"] # "off"
  /\ pc["main"] = "login" /\ req["main"].stage \notin {"resolve", "count"} =>
       check_connection = Many
  /\ pc["main"] \notin {"prompt", "login"} => check_connection = Many
  /\ pc["main"] \notin LoginSteps => quietSince # Absent
  /\ pc["main"] \in LoginSteps => paths_ = disk
  /\ \A p \in Paths : paths_[p] = Absent => remote[p] = Absent

CalmRunInv == RepairInv /\ RejectInv /\ WellInv

(* The server has no copy of an entry that does not exist.                 *)
LEMMA InitWell == Init => WellInv
BY ThreadsAssumption DEF Init, FWInit, WellInv, NoRequest, LoginSteps

(* What CalmRunInv means for the client.                                   *)
LEMMA CalmRun ==
  ASSUME CalmRunInv
  PROVE  /\ BaseInv /\ server = "up" /\ auth /\ faults = 0
         /\ \A t \in Threads : Undisturbed(t)
         /\ pc["main"] \notin SyncSteps \cup {"off"}
         /\ pc["main"] \in MainSteps \cup {"path"} => check_connection = Many
         /\ pc["f"] # "finished" => paths_ = disk /\ cur = NoPath
         /\ \A p \in Paths : paths_[p] = Absent => remote[p] = Absent
<1> USE DEF CalmRunInv, RepairInv
<1>1. pc["main"] \notin SyncSteps
  BY DEF WellInv, QuietInv, SyncSteps, LoginSteps
<1>2. pc["f"] # "finished" => paths_ = disk /\ cur = NoPath
  BY DEF WellInv, AloneInv, BaseInv, ControlInv, WatchInv
<1> QED
  BY <1>1, <1>2 DEF WellInv, RejectInv, MainSteps

(* No step is a fault's.                                                   *)
LEMMA NoFaults ==
  ASSUME FaultKinds = {}, CalmRunInv, [Next]_vars
  PROVE  /\ ~ Exit /\ ~ ServerFault /\ ~ LoginFails /\ ~ LoginRetry /\ ~ Start
         /\ ~ PollSync /\ ~ ActionSync /\ ~ CheckSync("main")
         /\ ~ SyncAbandon("f") /\ ~ SyncDelete("f") /\ ~ SyncDeleted("f")
         /\ \A t \in Threads : Handle(t) => faults' = faults
<1> USE ThreadsAssumption, CalmRun DEF BaseInv
<1>1. ~ Exit /\ ~ ServerFault
  BY DEF Exit, ServerFault, ServerDown, ServerDeaf, ServerUp
<1>2. ~ LoginFails /\ ~ LoginRetry /\ ~ Start
  BY DEF LoginFails, LoginRetry, Rejected, Start, CalmRunInv, WellInv
<1>3. ~ PollSync /\ ~ ActionSync
  BY DEF PollSync, ActionSync, Many, MainSteps
<1>4. ~ CheckSync("main")
  BY DEF CheckSync, SyncAbandon, SyncDelete, SyncDeleted, SyncDeletedAll, SyncClear, SyncGet,
     SyncGot, SyncPost, SyncPosted, SyncEnd, SyncSteps
<1>5. ~ SyncAbandon("f") /\ ~ SyncDelete("f") /\ ~ SyncDeleted("f")
  BY DEF SyncAbandon, SyncDelete, SyncDeleted, CalmRunInv, RepairInv, AloneInv, SyncSteps,
     Syncers, OnDisk
<1>6. \A t \in Threads : Handle(t) => faults' = faults
  BY DEF Handle, HandleResolve, HandleResolveError, CountConnect, HandleConnect,
     HandleConnectNext, HandleConnectError, HandleReadStatusLine, HandleIoError
<1> QED
  BY <1>1, <1>2, <1>3, <1>4, <1>5, <1>6

\* What a handler does to the flag and the status, when nothing fails.
WellHandler(t) ==
  /\ check_connection' # 0 /\ (check_connection = Many => check_connection' = Many)
  /\ req'[t].stage = "count" => req'[t].reg # 0
  /\ req[t].stage = "count" => check_connection' = Many
  /\ req'[t].stage \in {"resolve", "count"} \/ req[t].stage \notin {"idle", "resolve"}
  /\ req'[t].status \in {req[t].status, "unset"}

(* Every handler does that.                                                *)
LEMMA WellHandles ==
  ASSUME FaultKinds = {}, RequestTypeOK, NEW t \in Threads, RequestAgrees(t), Handle(t),
         server = "up", Undisturbed(t), check_connection # 0,
         req[t].stage = "count" => req[t].reg # 0
  PROVE  WellHandler(t)
<1>0. ~ HandleResolveError(t) /\ ~ HandleConnectError(t) /\ ~ HandleConnectNext(t)
  BY DEF HandleResolveError, HandleConnectError, HandleConnectNext, Undisturbed
<1>1. CASE HandleResolve(t)
  <2>1. req'[t] = TryConnect(req[t]) /\ req[t] \in Request /\ req[t].left > 0
    BY <1>1 DEF HandleResolve, RequestTypeOK, RequestAgrees
  <2>2. TryConnect(req[t]).status = req[t].status
    BY <2>1 DEF TryConnect, Request
  <2> QED
    BY <1>1, <2>1, <2>2, TryConnectType DEF HandleResolve, WellHandler
<1>2. CASE CountConnect(t)
  BY <1>2 DEF CountConnect, RequestTypeOK, Request, Incremented, Many, WellHandler
<1>3. CASE HandleConnect(t)
  BY <1>3, FaultAssumption DEF HandleConnect, RequestTypeOK, Request, WellHandler
<1>4. CASE HandleReadStatusLine(t)
  BY <1>4 DEF HandleReadStatusLine, RequestTypeOK, Request, WellHandler
<1>5. CASE HandleIoError(t)
  BY <1>5 DEF HandleIoError, Undisturbed
<1> QED
  BY <1>0, <1>1, <1>2, <1>3, <1>4, <1>5 DEF Handle

(* The steps of the threads.                                               *)
LEMMA WellThread ==
  ASSUME FaultKinds = {}, CalmRunInv, ThreadStep, [Next]_vars
  PROVE  WellInv'
<1> USE ThreadsAssumption, NoPathAssumption, CalmRun DEF BaseInv
<1>1. /\ \A u \in Threads : RequestEffect(u)
      /\ UNCHANGED <<check_connection, server, auth, remote, faults>>
  BY ThreadEffect
<1>2. /\ WellInv
      /\ \A t \in Threads : /\ req'[t].stage = "count" => req'[t].reg # 0
                            /\ req'[t].status # "unauthorized"
  BY <1>1 DEF CalmRunInv, WellInv, RequestEffect
<1>3. CASE LoginAccepted
  <2>1. /\ pc["main"] = "login" /\ Done("main") /\ pc'["main"] = "path"
        /\ UNCHANGED watcherVars
    BY <1>3 DEF LoginAccepted, Return, Goto, TypeOK
  <2> QED
    BY <1>1, <1>2, <2>1 DEF WellInv, Done, watcherVars, LoginSteps
<1>4. CASE Watch
  <2>1. /\ pc["main"] = "path" /\ pc'["main"] = "sleep" /\ paths_' = disk /\ UNCHANGED disk
        /\ quietSince' = IF AllWell THEN clock ELSE Absent
    BY <1>4 DEF Watch, Construct
  <2>2. AllWell /\ clock # Absent /\ check_connection = Many
    BY <1>2, <2>1 DEF AllWell, WellInv, CalmRunInv, RepairInv, StampInv, FirstStamp, Absent,
       TypeOK, WatcherTypeOK
  <2> QED
    BY <1>1, <1>2, <2>1, <2>2 DEF WellInv, LoginSteps
<1>5. CASE MainLoop
  <2>1. pc["main"] \in MainSteps /\ UNCHANGED <<disk, quietSince>>
    BY <1>5, MainAt, MainFrame
  <2>2. quietSince # Absent /\ check_connection = Many
    BY <1>2, <2>1 DEF WellInv, MainSteps, LoginSteps
  <2>3. /\ pc'["main"] \notin LoginSteps
        /\ \A p \in Paths : paths_'[p] = Absent => remote[p] = Absent
    BY <1>5, <2>1, <2>2, QuietMain DEF CalmRunInv, RepairInv
  <2> QED
    BY <1>1, <1>2, <2>1, <2>2, <2>3 DEF WellInv, LoginSteps
<1>6. CASE pc'["main"] = pc["main"] /\ UNCHANGED <<watcherVars, quietSince>>
                /\ req'["main"] = req["main"]
  BY <1>1, <1>2, <1>6 DEF WellInv, watcherVars
<1>7. CASE Tick \/ TickEnd
  BY <1>6, <1>7 DEF Tick, TickEnd, Issue, Return, Goto, TypeOK, RequestTypeOK, history
<1>8. CASE CheckSync("f")
  <2>1. UNCHANGED quietSince
    BY <1>8, NoFaults DEF CheckSync, SyncDeletedAll, SyncClear, SyncGet, SyncGot, SyncPost,
       SyncPosted, SyncEnd, history
  <2> QED
    BY <1>6, <1>8, <2>1, SyncFrame DEF Syncers
<1> QED
  BY <1>3, <1>4, <1>5, <1>7, <1>8, NoFaults DEF ThreadStep, Syncers

(* Every step keeps WellInv, if nothing fails.                             *)
LEMMA NextWell ==
  ASSUME FaultKinds = {}, InitialSyncAlone
  PROVE  CalmRunInv /\ [Next]_vars => WellInv'
<1> SUFFICES ASSUME CalmRunInv, [Next]_vars PROVE WellInv'
  OBVIOUS
<1> USE ThreadsAssumption, NoPathAssumption, CalmRun DEF BaseInv
<1>0. WellInv
  BY DEF CalmRunInv
<1>1. CASE UNCHANGED vars
  BY <1>0, <1>1 DEF vars, watcherVars, requestVars, history, WellInv
<1>2. CASE ThreadStep
  BY <1>2, WellThread
<1>3. CASE Login
  <2>1. /\ pc["main"] = "prompt" /\ pc'["main"] = "login" /\ auth'
        /\ req' = [req EXCEPT !["main"] = NewRequest("login", NoPath, Absent)]
        /\ UNCHANGED <<watcherVars, check_connection, remote, faults, quietSince>>
    BY <1>3 DEF Login, Goto, TypeOK, history
  <2>2. /\ req'["main"].stage = "resolve" /\ req'["main"].status = "unset"
        /\ \A u \in Threads \ {"main"} : req'[u] = req[u]
    BY <2>1 DEF NewRequest, NoRequest, TypeOK, RequestTypeOK
  <2> QED
    BY <1>0, <2>1, <2>2 DEF WellInv, LoginSteps, watcherVars
<1>4. ASSUME NEW u \in Threads, HandlerOf(u) PROVE WellInv'
  <2>1. /\ Handle(u) /\ HandlerEffect(u) /\ UNCHANGED <<watcherVars, pc, localVars>>
        /\ RequestTypeOK /\ RequestAgrees(u)
    BY <1>4, HandleEffect DEF HandlerOf, TypeOK, RequestInv
  <2>2. faults' = faults /\ UNCHANGED quietSince
    BY <1>4, <2>1, NoFaults DEF HandlerOf, history
  <2>3. WellHandler(u)
    BY <1>0, <2>1, WellHandles DEF WellInv
  <2> QED
    BY <1>0, <2>1, <2>2, <2>3 DEF WellInv, WellHandler, HandlerEffect, watcherVars
<1>5. ASSUME NEW u \in Threads, ServerStep(u) PROVE WellInv'
  <2>1. ServerEffect(u) /\ UNCHANGED <<watcherVars, pc, quietSince>>
    BY <1>5, ServerHandlesEffect DEF ServerStep, TypeOK
  <2>2. req'[u].status # "unauthorized"
    BY <2>1 DEF ServerEffect, Answer, TypeOK, RequestTypeOK, Request, Methods
  <2>3. \A p \in Paths : paths_[p] = Absent => remote'[p] = Absent
    BY <1>5, PostsTracked DEF CalmRunInv, RepairInv
  <2> QED
    BY <1>0, <2>1, <2>2, <2>3 DEF WellInv, ServerEffect, watcherVars
<1>6. CASE UserEdits
  <2>1. UNCHANGED <<paths_, requestVars, pc, quietSince>> /\ pc["f"] = "finished"
    BY <1>6 DEF UserEdits, User, Write, Remove, MayEdit
  <2> QED
    BY <1>0, <2>1 DEF WellInv, requestVars, ControlInv
<1> QED
  BY <1>1, <1>2, <1>3, <1>4, <1>5, <1>6, NoFaults, StepKinds

(* All that is proved to be invariant, together.                           *)
LEMMA CalmRunInductive ==
  ASSUME FaultKinds = {}, InitialSyncAlone
  PROVE  Spec => []CalmRunInv
<1>1. RepairInv => BaseInv
  BY DEF RepairInv
<1>2. Spec => []RepairInv
  BY RepairInductive
<1>3. Spec => []RejectInv
  BY <1>1, <1>2, InitReject, NextReject, PTL DEF Spec
<1>4. RepairInv /\ RejectInv /\ WellInv <=> CalmRunInv
  BY DEF CalmRunInv
<1>5. CalmRunInv /\ [Next]_vars => WellInv'
  BY NextWell
<1> QED
  BY <1>2, <1>3, <1>4, <1>5, InitWell, PTL DEF Spec

(* At rest the server has what the folder has.                             *)
THEOREM RestIsInSync ==
  ASSUME FaultKinds = {}, InitialSyncAlone
  PROVE  Spec => []InSyncAtRest
<1>1. CalmRunInv => InSyncAtRest
  <2> SUFFICES ASSUME CalmRunInv, AtRest PROVE remote = disk
    BY DEF InSyncAtRest
  <2>1. /\ pc["main"] = "sleep" /\ pc["f"] = "finished" /\ paths_ = disk
        /\ server = "up" /\ auth /\ cur = NoPath /\ quietSince # Absent
    BY DEF AtRest, CalmRunInv, RepairInv, BaseInv, WatchInv, WellInv, LoginSteps
  <2>2. ASSUME NEW p \in Paths PROVE remote[p] = disk[p]
    <3>1. CASE disk[p] # Absent
      <4>1. Due(p) /\ p # cur
        BY <2>1, <3>1, NoPathAssumption DEF Due
      <4> QED
        BY <2>1, <4>1 DEF CalmRunInv, RepairInv, DueInv, DueGood, LoginSteps, SyncSteps
    <3>2. CASE disk[p] = Absent
      BY <2>1, <3>2 DEF CalmRunInv, WellInv
    <3> QED
      BY <3>1, <3>2
  <2> QED
    BY <2>2 DEF CalmRunInv, RepairInv, BaseInv, TypeOK, WatcherTypeOK, RequestTypeOK
<1>2. Spec => []CalmRunInv
  BY CalmRunInductive
<1> QED
  BY <1>1, <1>2, PTL

-----------------------------------------------------------------------------
(* The refinement.                                                         *)

\* The state of WatchedMirror that a state of the client stands for.
mRemote == IF pc["f"] = "finished" THEN remote ELSE disk
mBuf    == IF pc["main"] = "posted" THEN req["main"].body ELSE Absent
mVars   == <<watcherVars, mRemote, Stage, mBuf>>

(* The abstract watcher is the watcher: the mapping renames nothing in it.  *)
LEMMA SameConstants ==
  /\ Mirror!Absent = Absent /\ Mirror!EmptyContent = EmptyContent
  /\ Mirror!FirstStamp = FirstStamp
BY DEF Absent, EmptyContent, FirstStamp, Mirror!Absent, Mirror!EmptyContent, Mirror!FirstStamp

(* The same for its steps.                                                 *)
LEMMA SameSteps ==
  /\ StartPass => Mirror!StartPass
  /\ Advance => Mirror!Advance
  /\ StartCallback => Mirror!StartCallback
  /\ CallbackReturns => Mirror!CallbackReturns
  /\ User => Mirror!User
  /\ ReadFile(cur) = Mirror!ReadFile(cur)
<1> USE SameConstants
<1>1. StartPass => Mirror!StartPass
  BY DEF StartPass, Tracked, Mirror!StartPass, Mirror!Tracked
<1>2. Advance => Mirror!Advance
  BY DEF Advance, StartScan, EndPass, KeepEntry, FindUnchanged, AbandonScan, OnDisk,
     Mirror!Advance, Mirror!StartScan, Mirror!EndPass, Mirror!KeepEntry, Mirror!FindUnchanged,
     Mirror!AbandonScan, Mirror!OnDisk
<1>3. StartCallback => Mirror!StartCallback
  BY DEF StartCallback, FindErased, FindChanged, Mirror!StartCallback, Mirror!FindErased,
     Mirror!FindChanged
<1>4. CallbackReturns => Mirror!CallbackReturns
  BY DEF CallbackReturns, Mirror!CallbackReturns
<1>5. User => Mirror!User
  BY DEF User, Write, Remove, Mirror!User, Mirror!Write, Mirror!Remove
<1>6. ReadFile(cur) = Mirror!ReadFile(cur)
  BY DEF ReadFile, Mirror!ReadFile
<1> QED
  BY <1>1, <1>2, <1>3, <1>4, <1>5, <1>6

(* A first start is a first state of WatchedMirror.                        *)
LEMMA InitMirrors == Init => Mirror!Init
BY ThreadsAssumption, SameConstants DEF Init, FWInit, Mirror!Init, Mirror!FWInit, Stage

(* A step that leaves all of this alone is a stutter.                      *)
LEMMA Stutter ==
  ASSUME UNCHANGED mVars
  PROVE  [Mirror!Next]_(Mirror!vars)
BY DEF mVars, mRemote, mBuf, Mirror!vars, Mirror!watcherVars, watcherVars

\* main in its callback, as WatchedMirror sees it.
StageAgrees ==
  /\ cur = NoPath => Stage = "none" /\ mBuf = Absent
  /\ cur # NoPath => /\ pc["f"] = "finished" /\ mRemote = remote
                     /\ pc["main"] \in CallbackSteps
  /\ pc["main"] \in {"called", "check", "post", "delete"} =>
       Stage = "called" /\ mBuf = Absent
  /\ pc["main"] = "posted" =>
       /\ Stage = IF Answered("main") THEN "reported" ELSE "read"
       /\ mBuf = req["main"].body
  /\ pc["main"] = "deleted" =>
       /\ Stage = IF Answered("main") THEN "reported" ELSE "called"
       /\ mBuf = Absent

(* Its callback is one read, one report and one return, or nothing.        *)
LEMMA StageIs == CalmRunInv => StageAgrees
<1> SUFFICES ASSUME CalmRunInv PROVE StageAgrees
  OBVIOUS
<1> USE ThreadsAssumption, NoPathAssumption, CalmRun DEF BaseInv
<1>1. cur # NoPath => pc["main"] \in CallbackSteps
  BY DEF ControlInv, WatchInv, MainSteps, CallbackSteps
<1>2. pc["main"] \in CallbackSteps => cur # NoPath
  BY DEF WatchInv
<1> QED
  BY <1>1, <1>2 DEF StageAgrees, Stage, mBuf, mRemote, Answered, CallbackSteps

(* The same after a step.                                                  *)
LEMMA StageWillBe == CalmRunInv' => StageAgrees'
BY StageIs, PTL

(* The steps of the polling loop.                                          *)
LEMMA MainMirrors ==
  ASSUME FaultKinds = {}, CalmRunInv, CalmRunInv', MainLoop, [Next]_vars
  PROVE  [Mirror!Next]_(Mirror!vars)
<1> USE ThreadsAssumption, NoPathAssumption, CalmRun DEF BaseInv
<1>0. StageAgrees /\ StageAgrees'
  BY StageIs, StageWillBe
<1>1. /\ UNCHANGED <<disk, clock, remote>> /\ pc'["f"] = pc["f"] /\ mRemote' = mRemote
  BY MainFrame, ThreadEffect DEF ThreadStep, mRemote
<1>2. /\ cur = NoPath => Stage = "none" /\ mBuf = Absent
      /\ cur' = NoPath => Stage' = "none" /\ mBuf' = Absent
  BY <1>0 DEF StageAgrees
<1>3. CASE Poll \/ ActionNoSync \/ ActionSwitch
  <2>1. /\ UNCHANGED watcherVars
        /\ Stage' = Stage /\ mBuf' = mBuf
    BY <1>3 DEF Poll, ActionNoSync, ActionSwitch, Goto, TypeOK, Stage, mBuf, watcherVars
  <2> QED
    BY <1>1, <2>1, Stutter DEF mVars
<1>4. CASE BeginPass
  <2>1. StartPass /\ cur = NoPath /\ cur' = NoPath
    BY <1>4 DEF BeginPass, StartPass, WatchInv
  <2> QED
    BY <1>1, <1>2, <2>1, SameSteps DEF mRemote, mBuf, Mirror!Next, Mirror!Program,
       Mirror!BeginPass
<1>5. CASE WatcherStep
  <2>1. cur = NoPath /\ cur' = NoPath
    BY <1>5 DEF WatcherStep, WatchInv, Advance, StartScan, EndPass, KeepEntry, FindUnchanged,
       AbandonScan
  <2>2. Advance
    BY <1>5 DEF WatcherStep
  <2>3. Mirror!Advance
    BY <2>2, SameSteps
  <2> QED
    BY <1>1, <1>2, <2>1, <2>3 DEF mRemote, mBuf, Mirror!Next, Mirror!Program, Mirror!WatcherStep
<1>6. CASE CallAction
  <2>1. StartCallback /\ pc'["main"] = "called" /\ cur = NoPath
    BY <1>6 DEF CallAction, Goto, TypeOK, WatchInv
  <2>2. Mirror!StartCallback
    BY <2>1, SameSteps
  <2>3. Stage' = "called" /\ mBuf' = Absent
    BY <2>1, <1>0 DEF StageAgrees
  <2> QED
    BY <1>1, <1>2, <2>1, <2>2, <2>3 DEF mRemote, mBuf, Mirror!Next, Mirror!Program,
       Mirror!CallAction
<1>7. CASE ActionIgnores
  <2>1. /\ pc["main"] = "check" /\ status # "erased" /\ disk[cur] = Absent /\ CallbackReturns
        /\ Stage = "called" /\ mBuf = Absent
    BY <1>7, <1>0 DEF StageAgrees, ActionIgnores
  <2>2. Mirror!CallbackReturns /\ cur' = NoPath
    BY <2>1, SameSteps DEF CallbackReturns
  <2> QED
    BY <1>1, <1>2, <2>1, <2>2, SameConstants DEF mRemote, mBuf, Mirror!Next,
       Mirror!Program, Mirror!Callback, Mirror!IgnoreVanished
<1>8. CASE ActionPost
  <2>1. /\ pc["main"] = "post" /\ status # "erased" /\ Stage = "called"
        /\ pc'["main"] = "posted" /\ UNCHANGED watcherVars
        /\ Issue("main", "POST", cur, ReadFile(cur))
    BY <1>8, <1>0 DEF StageAgrees, ActionPost, Goto, TypeOK, WatchInv
  <2>2. req'["main"].stage = "resolve" /\ req'["main"].body = ReadFile(cur)
    BY <2>1 DEF Issue, NewRequest, NoRequest, TypeOK, RequestTypeOK
  <2>3. Stage' = "read" /\ mBuf' = ReadFile(cur)
    BY <2>1, <2>2, <1>0 DEF StageAgrees, Answered
  <2> QED
    BY <1>1, <2>1, <2>3, SameSteps DEF mRemote, mBuf, Mirror!Next, Mirror!Program,
       Mirror!Callback, Mirror!ReadContent, watcherVars, Mirror!watcherVars
<1>9. CASE ActionDelete
  <2>1. /\ pc["main"] = "delete" /\ Stage = "called" /\ mBuf = Absent
        /\ pc'["main"] = "deleted" /\ UNCHANGED watcherVars
        /\ Issue("main", "DELETE", cur, EmptyContent)
    BY <1>9, <1>0 DEF StageAgrees, ActionDelete, Goto, TypeOK
  <2>2. req'["main"].stage = "resolve"
    BY <2>1 DEF Issue, NewRequest, NoRequest, TypeOK, RequestTypeOK
  <2>3. Stage' = "called" /\ mBuf' = Absent
    BY <2>1, <2>2, <1>0 DEF StageAgrees, Answered
  <2> QED
    BY <1>1, <2>1, <2>3, Stutter DEF mVars
<1>10. CASE ActionPosted \/ ActionDeleted
  <2>1. /\ pc["main"] \in {"posted", "deleted"} /\ Answered("main") /\ CallbackReturns
    BY <1>10 DEF ActionPosted, ActionDeleted, Return, Done, Answered
  <2>2. Stage = "reported"
    BY <2>1, <1>0 DEF StageAgrees
  <2>3. Mirror!CallbackReturns /\ cur' = NoPath
    BY <2>1, SameSteps DEF CallbackReturns
  <2> QED
    BY <1>1, <1>2, <2>2, <2>3, SameConstants DEF mRemote, mBuf, Mirror!Next,
       Mirror!Program, Mirror!Callback, Mirror!ReturnAction
<1> QED
  BY <1>3, <1>4, <1>5, <1>6, <1>7, <1>8, <1>9, <1>10, NoFaults DEF MainLoop

(* The end of the initial synchronization is not seen: the server then has *)
(* what the folder has.                                                    *)
LEMMA SyncMirrors ==
  ASSUME FaultKinds = {}, CalmRunInv, CalmRunInv', CheckSync("f"), [Next]_vars
  PROVE  [Mirror!Next]_(Mirror!vars)
<1> USE ThreadsAssumption, NoPathAssumption, CalmRun DEF BaseInv
<1>0. StageAgrees /\ StageAgrees'
  BY StageIs, StageWillBe
<1>1. /\ UNCHANGED <<watcherVars, remote>>
      /\ pc'["main"] = pc["main"] /\ req'["main"] = req["main"]
  BY SyncFrame, ThreadEffect DEF ThreadStep, Syncers
<1>2. pc["f"] # "finished"
  BY DEF CheckSync, SyncAbandon, SyncDelete, SyncDeleted, SyncDeletedAll, SyncClear, SyncGet,
     SyncGot, SyncPost, SyncPosted, SyncEnd
<1>3. CASE SyncEnd("f")
  <2>1. pc["f"] = "cs_walk" /\ walk["f"] = {} /\ paths_ = disk /\ cur = NoPath
        /\ pc["main"] \notin LoginSteps
    BY <1>2, <1>3 DEF SyncEnd, ControlInv
  <2>2. quietSince # Absent
    BY <2>1 DEF CalmRunInv, WellInv
  <2>3. ASSUME NEW p \in Paths PROVE remote[p] = disk[p]
    <3>1. CASE disk[p] # Absent
      <4>1. Due(p) /\ p # cur
        BY <2>1, <2>2, <3>1 DEF Due
      <4>2. Compared("f", p)
        BY <2>1, <4>1 DEF CalmRunInv, RepairInv, DueInv, DueGood, Syncers
      <4> QED
        BY <2>1, <4>2 DEF Compared, WalkSteps
    <3>2. CASE disk[p] = Absent
      BY <2>1, <3>2
    <3> QED
      BY <3>1, <3>2
  <2>4. remote = disk
    BY <2>3 DEF TypeOK, WatcherTypeOK, RequestTypeOK
  <2> QED
    BY <1>1, <2>4, Stutter DEF mVars, mRemote, mBuf, Stage, watcherVars
<1>4. CASE ~ SyncEnd("f")
  <2>1. pc'["f"] \in SyncSteps
    BY <1>4, NoFaults DEF CheckSync, SyncDeletedAll, SyncClear, SyncGet, SyncGot, SyncPost,
       SyncPosted, Goto, TypeOK, SyncSteps
  <2>2. pc'["f"] # "finished"
    BY <2>1 DEF SyncSteps
  <2> QED
    BY <1>1, <1>2, <2>2, Stutter DEF mVars, mRemote, mBuf, Stage, watcherVars
<1> QED
  BY <1>3, <1>4

(* The server takes the report over.                                       *)
LEMMA ServerMirrors ==
  ASSUME FaultKinds = {}, CalmRunInv, CalmRunInv', NEW u \in Threads, ServerStep(u)
  PROVE  [Mirror!Next]_(Mirror!vars)
<1> USE ThreadsAssumption, NoPathAssumption, CalmRun DEF BaseInv
<1>0. StageAgrees /\ StageAgrees'
  BY StageIs, StageWillBe
<1>1. /\ ServerHandles(u) /\ ServerEffect(u) /\ UNCHANGED <<watcherVars, pc>>
      /\ RequestTypeOK
  BY ServerHandlesEffect DEF ServerStep, TypeOK
<1>2. pc[u] \in Waits
  BY <1>1 DEF ServerEffect, RequestInv, RequestAgrees
<1>3. CASE pc["f"] # "finished"
  <2>1. cur = NoPath /\ cur' = NoPath
    BY <1>1, <1>3 DEF watcherVars
  <2>2. Stage' = Stage /\ mBuf' = mBuf
    BY <2>1, <1>0 DEF StageAgrees
  <2> QED
    BY <1>1, <1>3, <2>2, Stutter DEF mVars, mRemote, watcherVars
<1>4. CASE pc["f"] = "finished" /\ u # "main"
  <2>1. req[u].method = "ping"
    BY <1>2, <1>4 DEF ControlInv, Waits, RequestInv, RequestAgrees
  <2>2. UNCHANGED remote /\ req'["main"] = req["main"]
    BY <1>1, <1>4, <2>1 DEF ServerHandles, ServerEffect
  <2> QED
    BY <1>1, <2>2, Stutter DEF mVars, mRemote, mBuf, Stage, watcherVars
<1>5. CASE pc["f"] = "finished" /\ u = "main"
  <2>1. pc["main"] \in {"posted", "deleted"}
    BY <1>2, <1>5 DEF ControlInv, Waits, LoginSteps, SyncSteps, MainSteps
  <2>2. /\ cur # NoPath /\ req["main"].path = cur /\ ~ Answered("main") /\ Answered("main")'
    BY <1>1, <1>5, <2>1 DEF WatchInv, CallbackSteps, RequestInv, RequestAgrees, ServerEffect,
       Answered
  <2>3. Stage' = "reported" /\ mRemote = remote /\ mRemote' = remote'
    BY <1>1, <1>5, <2>1, <2>2, <1>0 DEF StageAgrees, mRemote
  <2>4. CASE pc["main"] = "posted"
    <3>1. req["main"].method = "POST"
      BY <2>4 DEF RequestInv, RequestAgrees
    <3>2. remote' = [remote EXCEPT ![cur] = req["main"].body]
      BY <1>1, <1>5, <2>2, <3>1 DEF ServerHandles
    <3>3. Stage = "read" /\ mBuf = req["main"].body /\ mBuf' = mBuf
      BY <1>1, <1>5, <2>2, <2>4, <1>0 DEF StageAgrees, ServerEffect
    <3> QED
      BY <1>1, <2>3, <3>2, <3>3 DEF mRemote, mBuf, watcherVars, Mirror!Next, Mirror!Program,
         Mirror!Callback, Mirror!ReportContent, Mirror!watcherVars
  <2>5. CASE pc["main"] = "deleted"
    <3>1. req["main"].method = "DELETE" /\ status = "erased"
      BY <2>5 DEF RequestInv, RequestAgrees, WatchInv
    <3>2. remote' = [remote EXCEPT ![cur] = Absent]
      BY <1>1, <1>5, <2>2, <3>1 DEF ServerHandles
    <3>3. Stage = "called" /\ mBuf = Absent /\ mBuf' = Absent
      BY <1>1, <2>2, <2>5, <1>0 DEF StageAgrees
    <3> QED
      BY <1>1, <2>3, <3>1, <3>2, <3>3, SameConstants DEF mRemote, mBuf, watcherVars,
         Mirror!Next, Mirror!Program, Mirror!Callback, Mirror!ReportErased, Mirror!watcherVars
  <2> QED
    BY <2>1, <2>4, <2>5
<1> QED
  BY <1>3, <1>4, <1>5

(* Every step is one of WatchedMirror, or a stutter.                       *)
LEMMA StepMirrors ==
  ASSUME FaultKinds = {}, InitialSyncAlone
  PROVE  CalmRunInv /\ CalmRunInv' /\ [Next]_vars => [Mirror!Next]_(Mirror!vars)
<1> SUFFICES ASSUME CalmRunInv, CalmRunInv', [Next]_vars PROVE [Mirror!Next]_(Mirror!vars)
  OBVIOUS
<1> USE ThreadsAssumption, NoPathAssumption, CalmRun DEF BaseInv
<1>0. StageAgrees /\ StageAgrees'
  BY StageIs, StageWillBe
<1>1. CASE UNCHANGED vars
  BY <1>1, Stutter DEF vars, watcherVars, requestVars, mVars, mRemote, mBuf, Stage
<1>2. CASE MainLoop
  BY <1>2, MainMirrors
<1>3. CASE CheckSync("f")
  BY <1>3, SyncMirrors
<1>4. CASE LoginAccepted \/ Login
  <2>1. /\ pc["main"] \in LoginSteps /\ pc'["main"] \in LoginSteps /\ pc'["f"] = pc["f"]
        /\ UNCHANGED <<watcherVars, remote>>
    BY <1>4 DEF LoginAccepted, Login, Return, Goto, TypeOK, LoginSteps
  <2>2. cur = NoPath /\ cur' = NoPath
    BY <2>1 DEF WatchInv, watcherVars
  <2>3. Stage' = Stage /\ mBuf' = mBuf
    BY <2>2, <1>0 DEF StageAgrees
  <2> QED
    BY <2>1, <2>3, Stutter DEF mVars, mRemote, watcherVars
<1>5. CASE Watch
  <2>1. /\ pc["main"] = "path" /\ pc'["f"] = "cs_delete" /\ paths_' = disk
        /\ UNCHANGED <<disk, clock, phase, todo, cur, status>>
    BY <1>5 DEF Watch, Construct
  <2>2. pc["f"] = "off" /\ paths_ = disk /\ cur = NoPath
    BY <2>1 DEF ControlInv, LoginSteps
  <2>3. Stage' = Stage /\ mBuf' = mBuf
    BY <2>1, <2>2, <1>0 DEF StageAgrees
  <2> QED
    BY <2>1, <2>2, <2>3, Stutter DEF mVars, mRemote, watcherVars
<1>6. CASE Tick \/ TickEnd
  <2>1. /\ pc'["main"] = pc["main"] /\ pc'["f"] = pc["f"] /\ req'["main"] = req["main"]
        /\ UNCHANGED <<watcherVars, remote>>
    BY <1>6 DEF Tick, TickEnd, Issue, Return, Goto, TypeOK, RequestTypeOK
  <2> QED
    BY <2>1, Stutter DEF mVars, mRemote, mBuf, Stage, watcherVars
<1>7. ASSUME NEW u \in Threads, HandlerOf(u) PROVE [Mirror!Next]_(Mirror!vars)
  <2>1. HandlerEffect(u) /\ UNCHANGED <<watcherVars, pc>> /\ faults' = faults
    BY <1>7, HandleEffect, NoFaults DEF HandlerOf, TypeOK, RequestInv
  <2>2. req'["main"].body = req["main"].body /\ (Answered("main")' <=> Answered("main"))
    BY <2>1 DEF HandlerEffect, Answered
  <2> QED
    BY <2>1, <2>2, Stutter DEF mVars, mRemote, mBuf, Stage, Answered, HandlerEffect, watcherVars
<1>8. ASSUME NEW u \in Threads, ServerStep(u) PROVE [Mirror!Next]_(Mirror!vars)
  BY <1>8, ServerMirrors
<1>9. CASE UserEdits
  <2>1. /\ User /\ UNCHANGED <<requestVars, pc, cur>> /\ pc["f"] = "finished"
    BY <1>9 DEF UserEdits, User, Write, Remove, MayEdit
  <2>2. Mirror!User
    BY <2>1, SameSteps
  <2>3. /\ mRemote' = mRemote /\ mBuf' = mBuf /\ Stage' = Stage
    BY <2>1 DEF mRemote, mBuf, Stage, requestVars
  <2> QED
    BY <2>2, <2>3 DEF mRemote, mBuf, Mirror!Next, Mirror!UserEdits
<1> QED
  BY <1>1, <1>2, <1>3, <1>4, <1>5, <1>6, <1>7, <1>8, <1>9, NoFaults, StepKinds
  DEF ThreadStep, Syncers

(* The client implements WatchedMirror, as long as nothing fails and the   *)
(* initial synchronization is left alone.                                  *)
THEOREM ClientRefinesMirror ==
  ASSUME FaultKinds = {}, InitialSyncAlone
  PROVE  Spec => Refinement
<1>1. Init => Mirror!Init
  BY InitMirrors
<1>2. CalmRunInv /\ CalmRunInv' /\ [Next]_vars => [Mirror!Next]_(Mirror!vars)
  BY StepMirrors
<1>3. Spec => []CalmRunInv
  BY CalmRunInductive
<1> QED
  BY <1>1, <1>2, <1>3, PTL DEF Spec, Refinement, Mirror!Spec

=============================================================================
