----------------------------- MODULE SyncProofs -----------------------------
(***************************************************************************)
(* What checksync repairs: the proof of CheckSyncRepairs, and of what the  *)
(* server has after a fault or a restart (EditsAfterRecovery and           *)
(* RestartRepairs), if the initial synchronization is left alone.          *)
(***************************************************************************)
EXTENDS BackupClientProofs

-----------------------------------------------------------------------------
(* One entry in the walk of checksync.                                     *)

\* What the request of thread t for p does, if nothing gets in its way.
PostGood(t, p) ==
  /\ Undisturbed(t) /\ req[t].body = disk[p]
  /\ Answered(t) => remote[p] = disk[p]

GetGood(t, p) ==
  /\ Undisturbed(t) /\ req[t].body = disk[p]
  /\ Answered(t) => /\ req[t].status \in {"accepted", "not_found", "not_sync"}
                    /\ req[t].status = "accepted" => remote[p] = disk[p]

DeleteGood(t, p) == Undisturbed(t) /\ (Answered(t) => remote[p] = Absent)

WalkSteps == {"cs_walk", "cs_got", "cs_post", "cs_posted"}

\* p has still its turn in the walk, or has it, or is on the server as on disk.
Compared(t, p) ==
  pc[t] \in WalkSteps /\ p \notin walk[t] =>
    IF pc[t] = "cs_walk" \/ req[t].path # p
      THEN remote[p] = disk[p]
      ELSE /\ pc[t] = "cs_got" => GetGood(t, p)
           /\ pc[t] = "cs_posted" => PostGood(t, p)

(* The steps of checksync itself: what the reply to GET says is true, and  *)
(* the content that is sent is that of the file.                           *)
LEMMA ComparedStep ==
  ASSUME BaseInv, NEW t \in Syncers, NEW p \in OnDisk, auth,
         Compared(t, p), CheckSync(t)
  PROVE  Compared(t, p)'
<1> USE ThreadsAssumption DEF BaseInv
<1>1. /\ p \in Paths /\ disk[p] # Absent /\ t \in Threads
      /\ UNCHANGED <<disk, remote>>
      /\ ReadFile(p) = disk[p]
  BY ThreadEffect DEF OnDisk, CheckSync, ThreadStep, Syncers, ReadFile, SyncAbandon, SyncDelete,
     SyncDeleted, SyncDeletedAll, SyncClear, SyncGet, SyncGot, SyncPost, SyncPosted, SyncEnd,
     watcherVars
<1>2. CASE SyncDelete(t) \/ SyncDeleted(t) \/ SyncDeletedAll(t)
  BY <1>1, <1>2 DEF SyncDelete, SyncDeleted, SyncDeletedAll, Goto, TypeOK, Compared, WalkSteps
<1>3. CASE SyncAbandon(t) \/ SyncEnd(t)
  BY <1>1, <1>3 DEF SyncAbandon, SyncEnd, Goto, AfterSync, TypeOK, Compared, WalkSteps
<1>4. CASE SyncClear(t)
  BY <1>1, <1>4 DEF SyncClear, Goto, TypeOK, Compared
<1>5. CASE SyncGet(t)
  <2>1. PICK q \in Paths :
          /\ pc[t] = "cs_walk" /\ q \in walk[t]
          /\ Issue(t, "GET", q, ReadFile(q))
          /\ walk' = [walk EXCEPT ![t] = @ \ {q}]
          /\ Goto(t, "cs_got")
    BY <1>5 DEF SyncGet
  <2>2. pc'[t] = "cs_got" /\ walk'[t] = walk[t] \ {q}
    BY <1>1, <2>1 DEF Goto, TypeOK
  <2>3. /\ req'[t].path = q /\ req'[t].body = ReadFile(q)
        /\ req'[t].link = "none" /\ req'[t].stage = "resolve"
    BY <1>1, <2>1 DEF Issue, NewRequest, NoRequest, TypeOK, RequestTypeOK
  <2> QED
    BY <1>1, <2>1, <2>2, <2>3 DEF Compared, WalkSteps, GetGood, Undisturbed, Answered
<1>6. CASE SyncGot(t)
  <2>1. pc[t] = "cs_got" /\ Answered(t) /\ UNCHANGED walk
    BY <1>6 DEF SyncGot, Done, Answered, localVars
  <2>2. \/ pc'[t] = "cs_post" /\ req' = req
        \/ pc'[t] = "cs_walk" /\ req[t].status \in {"accepted", "unset", "unauthorized"}
    BY <1>1, <1>6 DEF SyncGot, Goto, TypeOK
  <2> QED
    BY <1>1, <2>1, <2>2 DEF Compared, WalkSteps, GetGood
<1>7. CASE SyncPost(t)
  <2>1. /\ pc[t] = "cs_post" /\ pc'[t] = "cs_posted" /\ UNCHANGED walk
        /\ Issue(t, "POST", req[t].path, ReadFile(req[t].path))
    BY <1>1, <1>7 DEF SyncPost, Goto, TypeOK, localVars
  <2>2. /\ req'[t].path = req[t].path /\ req'[t].body = ReadFile(req[t].path)
        /\ req'[t].link = "none" /\ req'[t].stage = "resolve"
    BY <1>1, <2>1 DEF Issue, NewRequest, NoRequest, TypeOK, RequestTypeOK
  <2> QED
    BY <1>1, <2>1, <2>2 DEF Compared, WalkSteps, PostGood, Undisturbed, Answered
<1>8. CASE SyncPosted(t)
  <2>1. /\ pc[t] = "cs_posted" /\ pc'[t] = "cs_walk" /\ UNCHANGED walk /\ Answered(t)
    BY <1>1, <1>8 DEF SyncPosted, Return, Done, Answered, Goto, TypeOK, localVars
  <2> QED
    BY <1>1, <2>1 DEF Compared, WalkSteps, PostGood
<1> QED
  BY <1>2, <1>3, <1>4, <1>5, <1>6, <1>7, <1>8 DEF CheckSync

(* A step of another thread, or of the server for another thread, as long  *)
(* as it sends p as it is.                                                 *)
LEMMA ComparedOther ==
  ASSUME NEW t \in Syncers, NEW p \in Paths, Compared(t, p),
         pc'[t] = pc[t], walk'[t] = walk[t], req'[t] = req[t],
         disk'[p] = disk[p], remote'[p] \in {remote[p], disk[p]}
  PROVE  Compared(t, p)'
BY DEF Compared, GetGood, PostGood, Undisturbed, Answered

(* A handler of the request.                                               *)
LEMMA ComparedHandler ==
  ASSUME NEW t \in Syncers, NEW p \in Paths, Compared(t, p), server = "up",
         HandlerEffect(t), faults' = faults,
         pc'[t] = pc[t], walk'[t] = walk[t], disk'[p] = disk[p]
  PROVE  Compared(t, p)'
BY DEF Compared, HandlerEffect, GetGood, PostGood, Undisturbed, Answered

(* What the server does to the copies.                                     *)
LEMMA ServerCopies ==
  ASSUME RequestTypeOK, NEW t \in Threads, ServerHandles(t), NEW p \in Paths
  PROVE  /\ req[t].path # p => remote'[p] = remote[p]
         /\ req[t].method \notin {"POST", "DELETE"} => remote'[p] = remote[p]
         /\ req[t].method = "POST" => remote'[p] \in {remote[p], req[t].body}
         /\ req[t].method = "DELETE" => remote'[p] \in {remote[p], Absent}
         /\ auth /\ req[t].path = p =>
              /\ req[t].method = "POST" => remote'[p] = req[t].body
              /\ req[t].method = "DELETE" => remote'[p] = Absent
BY DEF ServerHandles, RequestTypeOK

(* The server answers the request.                                         *)
LEMMA ComparedServer ==
  ASSUME BaseInv, NEW t \in Syncers, NEW p \in OnDisk, auth, Compared(t, p), ServerStep(t)
  PROVE  Compared(t, p)'
<1> USE ThreadsAssumption DEF BaseInv
<1>1. /\ p \in Paths /\ disk[p] # Absent /\ t \in Threads
      /\ ServerHandles(t) /\ UNCHANGED <<watcherVars, pc, localVars>>
  BY DEF OnDisk, Syncers, ServerStep
<1>2. ServerEffect(t) /\ disk'[p] = disk[p] /\ pc'[t] = pc[t] /\ walk'[t] = walk[t]
  BY <1>1, ServerHandlesEffect DEF TypeOK, watcherVars, localVars
<1>3. CASE pc[t] \in {"cs_walk", "cs_post"} \/ pc[t] \notin WalkSteps
  BY <1>1, <1>2, <1>3 DEF Compared, ServerEffect, WalkSteps, RequestInv, RequestAgrees, Waits,
     Done
<1>4. CASE pc[t] = "cs_got"
  <2>1. req[t].method = "GET" /\ remote'[p] = remote[p]
    BY <1>1, <1>4, ServerCopies DEF TypeOK, RequestInv, RequestAgrees
  <2>2. req[t].path = p =>
          /\ Answer(req[t]) \in {"accepted", "not_found", "not_sync"}
          /\ Answer(req[t]) = "accepted" => remote[p] = req[t].body
    BY <2>1 DEF Answer
  <2> QED
    BY <1>2, <1>4, <2>1, <2>2 DEF Compared, ServerEffect, GetGood, Undisturbed, Answered
<1>5. CASE pc[t] = "cs_posted"
  <2>1. req[t].method = "POST"
    BY <1>1, <1>5 DEF RequestInv, RequestAgrees
  <2>2. IF req[t].path = p THEN remote'[p] = req[t].body ELSE remote'[p] = remote[p]
    BY <1>1, <2>1, ServerCopies DEF TypeOK
  <2> QED
    BY <1>2, <1>5, <2>2 DEF Compared, ServerEffect, PostGood, Undisturbed, Answered
<1> QED
  BY <1>3, <1>4, <1>5 DEF WalkSteps

-----------------------------------------------------------------------------
(* A synchronization that nothing has disturbed so far.                    *)

\* The deletions that are struck off the list have reached the server.
Deleted(t) ==
  /\ pc[t] = "cs_delete" => \A p \in seen[t] : remote[p] = Absent
  /\ pc[t] = "cs_deleted" => /\ \A p \in seen[t] \ {req[t].path} : remote[p] = Absent
                             /\ DeleteGood(t, req[t].path)
  /\ pc[t] = "cs_clear" => \A p \in deleted_files : remote[p] = Absent

Calm(t) ==
  /\ pc[t] \in SyncSteps /\ server = "up" /\ auth /\ Undisturbed(t)
  /\ Deleted(t)
  /\ \A p \in OnDisk : Compared(t, p)

\* The initial synchronization starts with an empty list, and main, which has
\* got through, adds nothing to it.
CalmStart ==
  /\ pc["main"] = "path" => check_connection # 0
  /\ calm["f"] => /\ deleted_files = {} /\ check_connection # 0
                  /\ \A u \in Threads : Undisturbed(u)

CalmInv == CalmStart /\ \A t \in Syncers : calm[t] => Calm(t)

(* Nothing is synchronized at the start.                                   *)
LEMMA InitCalm == Init => CalmInv
BY DEF Init, CalmInv, CalmStart, Syncers

(* A synchronization stays calm through the steps of others that leave the *)
(* folder and the copies alone.                                            *)
LEMMA CalmOther ==
  ASSUME NEW t \in Syncers, Calm(t),
         pc'[t] = pc[t], walk'[t] = walk[t], seen'[t] = seen[t], req'[t] = req[t],
         deleted_files' \subseteq deleted_files, UNCHANGED <<disk, remote, server, auth>>
  PROVE  Calm(t)'
<1>1. \A p \in OnDisk' : Compared(t, p)'
  BY ComparedOther DEF Calm, OnDisk
<1> QED
  BY <1>1 DEF Calm, Deleted, DeleteGood, Undisturbed, Answered

(* The first step of a synchronization.                                    *)
LEMMA CalmEnter ==
  ASSUME NEW t \in Syncers, pc'[t] = "cs_delete", seen'[t] = {},
         server' = "up", auth', Undisturbed(t)'
  PROVE  Calm(t)'
BY DEF Calm, Deleted, Compared, WalkSteps, SyncSteps

(* The steps of the synchronization itself.                                *)
LEMMA CalmStep ==
  ASSUME BaseInv, NEW t \in Syncers, Calm(t), CheckSync(t), calm'[t]
  PROVE  Calm(t)'
<1> USE ThreadsAssumption DEF BaseInv
<1>1. t \in Threads /\ CheckSync(t) /\ ThreadStep
  BY DEF Syncers, ThreadStep
<1>2. UNCHANGED <<disk, server, auth, remote>>
  BY <1>1, ThreadEffect DEF CheckSync, SyncAbandon, SyncDelete, SyncDeleted, SyncDeletedAll,
     SyncClear, SyncGet, SyncGot, SyncPost, SyncPosted, SyncEnd, watcherVars
<1>3. ~ SyncEnd(t) /\ ~ SyncAbandon(t)
  BY DEF SyncEnd, SyncAbandon, TypeOK
<1>4. Undisturbed(t)'
  BY <1>1, ThreadEffect DEF RequestEffect, Undisturbed, Calm
<1>5. \A p \in OnDisk' : Compared(t, p)'
  BY <1>2, ComparedStep DEF Calm, OnDisk
<1>6. Deleted(t)' /\ pc'[t] \in SyncSteps
  <2>1. CASE SyncDelete(t)
    <3>1. PICK p \in Paths :
            /\ pc[t] = "cs_delete" /\ Issue(t, "DELETE", p, EmptyContent)
            /\ seen' = [seen EXCEPT ![t] = @ \cup {p}]
            /\ Goto(t, "cs_deleted")
      BY <2>1 DEF SyncDelete
    <3>2. pc'[t] = "cs_deleted" /\ seen'[t] = seen[t] \cup {p}
      BY <1>1, <3>1 DEF Goto, TypeOK
    <3>3. req'[t].path = p /\ req'[t].link = "none" /\ req'[t].stage = "resolve"
      BY <1>1, <3>1 DEF Issue, NewRequest, NoRequest, TypeOK, RequestTypeOK
    <3> QED
      BY <1>2, <3>1, <3>2, <3>3 DEF Calm, Deleted, DeleteGood, Undisturbed, Answered, SyncSteps
  <2>2. CASE SyncDeleted(t)
    BY <1>1, <1>2, <2>2 DEF SyncDeleted, Return, Done, Goto, TypeOK, localVars, Calm, Deleted,
       DeleteGood, Answered, SyncSteps
  <2>3. CASE SyncDeletedAll(t)
    BY <1>1, <1>2, <2>3 DEF SyncDeletedAll, Goto, TypeOK, localVars, Calm, Deleted, SyncSteps
  <2>4. CASE SyncClear(t)
    BY <1>1, <2>4 DEF SyncClear, Goto, TypeOK, Deleted, SyncSteps
  <2>5. CASE SyncGet(t) \/ SyncGot(t) \/ SyncPost(t) \/ SyncPosted(t)
    BY <1>1, <2>5 DEF SyncGet, SyncGot, SyncPost, SyncPosted, Goto, TypeOK, Deleted, SyncSteps
  <2> QED
    BY <1>3, <2>1, <2>2, <2>3, <2>4, <2>5 DEF CheckSync
<1> QED
  BY <1>2, <1>4, <1>5, <1>6 DEF Calm

(* The handlers and the server, for the synchronization itself.            *)
LEMMA CalmHandler ==
  ASSUME BaseInv, NEW t \in Syncers, Calm(t), HandlerOf(t), calm'[t]
  PROVE  Calm(t)'
<1> USE ThreadsAssumption DEF BaseInv
<1>1. /\ t \in Threads /\ Handle(t) /\ UNCHANGED <<watcherVars, pc, localVars>>
      /\ RequestTypeOK /\ RequestAgrees(t)
  BY DEF Syncers, HandlerOf, RequestInv, TypeOK
<1>2. HandlerEffect(t) /\ faults' = faults
  BY <1>1, HandleEffect DEF HandlerOf, Disturb, TypeOK
<1>3. \A p \in OnDisk' : Compared(t, p)'
  BY <1>1, <1>2, ComparedHandler DEF Calm, OnDisk, watcherVars, localVars
<1> QED
  BY <1>1, <1>2, <1>3 DEF Calm, Deleted, DeleteGood, HandlerEffect, Undisturbed, Answered,
     localVars

(* The same for the server.                                                *)
LEMMA CalmServer ==
  ASSUME BaseInv, NEW t \in Syncers, Calm(t), ServerStep(t)
  PROVE  Calm(t)'
<1> USE ThreadsAssumption DEF BaseInv
<1>1. /\ t \in Threads /\ ServerHandles(t) /\ UNCHANGED <<watcherVars, pc, localVars>>
      /\ RequestTypeOK /\ RequestAgrees(t)
  BY DEF Syncers, ServerStep, RequestInv, TypeOK
<1>2. ServerEffect(t)
  BY <1>1, ServerHandlesEffect
<1>3. \A p \in OnDisk' : Compared(t, p)'
  BY <1>1, ComparedServer DEF Calm, OnDisk, watcherVars
<1>4. Deleted(t)'
  <2>1. CASE pc[t] = "cs_deleted"
    <3>1. /\ req[t].method = "DELETE" /\ req[t].path \in Paths
          /\ remote'[req[t].path] = Absent
          /\ \A p \in Paths \ {req[t].path} : remote'[p] = remote[p]
      BY <1>1, <2>1, ServerCopies DEF RequestAgrees, Calm
    <3> QED
      BY <1>1, <1>2, <2>1, <3>1 DEF Calm, Deleted, DeleteGood, ServerEffect, Undisturbed,
         Answered, TypeOK, localVars
  <2>2. CASE pc[t] # "cs_deleted"
    <3>1. pc[t] \in Waits
      BY <1>1, <1>2 DEF ServerEffect, RequestAgrees
    <3> QED
      BY <1>1, <2>2, <3>1 DEF Deleted, Waits
  <2> QED
    BY <2>1, <2>2
<1> QED
  BY <1>1, <1>2, <1>3, <1>4 DEF Calm, ServerEffect, Undisturbed, localVars

(* Where main is, when it takes a step of its own.                         *)
LEMMA MainAt ==
  ASSUME MainLoop
  PROVE  pc["main"] \in MainSteps
BY DEF MainLoop, PollSync, Poll, BeginPass, WatcherStep, CallAction, ActionSync, ActionNoSync,
   ActionIgnores, ActionSwitch, ActionPost, ActionDelete, ActionPosted, ActionDeleted, MainSteps

(* A step of main leaves the other threads alone, and the folder.          *)
LEMMA MainFrame ==
  ASSUME BaseInv, MainLoop
  PROVE  /\ \A t \in Threads \ {"main"} : pc'[t] = pc[t] /\ req'[t] = req[t]
         /\ walk' = walk /\ seen'["f"] = seen["f"] /\ calm'["f"] = calm["f"]
         /\ UNCHANGED <<disk, clock, healthySince, quietSince>>
         /\ deleted_files' # deleted_files => ActionDeleted /\ check_connection = 0
<1> USE ThreadsAssumption DEF BaseInv, TypeOK, RequestTypeOK, Syncers
<1>1. CASE PollSync \/ ActionSync
  BY <1>1 DEF PollSync, ActionSync, EnterSync, Goto, watcherVars, requestVars
<1>2. CASE Poll \/ BeginPass \/ ActionNoSync \/ ActionSwitch
  BY <1>2 DEF Poll, BeginPass, StartPass, ActionNoSync, ActionSwitch, Goto, watcherVars,
     requestVars, localVars, history
<1>3. CASE WatcherStep
  BY <1>3 DEF WatcherStep, Advance, StartScan, EndPass, KeepEntry, FindUnchanged, AbandonScan,
     Goto, requestVars, localVars, history
<1>4. CASE CallAction
  BY <1>4 DEF CallAction, StartCallback, FindErased, FindChanged, Goto, requestVars, localVars,
     history
<1>5. CASE ActionIgnores \/ ActionPosted \/ ActionDeleted
  BY <1>5 DEF ActionIgnores, ActionPosted, ActionDeleted, Return, CallbackReturns, Goto,
     requestVars, localVars, history
<1>6. CASE ActionPost \/ ActionDelete
  BY <1>6 DEF ActionPost, ActionDelete, Issue, Goto, watcherVars, localVars, history
<1> QED
  BY <1>1, <1>2, <1>3, <1>4, <1>5, <1>6 DEF MainLoop

(* A step of one synchronization leaves the other threads alone.           *)
LEMMA SyncFrame ==
  ASSUME BaseInv, NEW u \in Syncers, CheckSync(u)
  PROVE  /\ \A t \in Threads \ {u} : pc'[t] = pc[t] /\ req'[t] = req[t]
         /\ \A t \in Syncers \ {u} : walk'[t] = walk[t] /\ seen'[t] = seen[t]
                                     /\ calm'[t] = calm[t]
         /\ UNCHANGED watcherVars
         /\ deleted_files' \in {deleted_files, {}}
<1> USE ThreadsAssumption DEF BaseInv, TypeOK, RequestTypeOK, Syncers
<1>1. CASE SyncAbandon(u) \/ SyncEnd(u)
  BY <1>1 DEF SyncAbandon, SyncEnd, Goto, requestVars
<1>2. CASE SyncDelete(u) \/ SyncGet(u) \/ SyncPost(u)
  BY <1>2 DEF SyncDelete, SyncGet, SyncPost, Issue, Goto, localVars, history
<1>3. CASE SyncDeleted(u) \/ SyncPosted(u)
  BY <1>3 DEF SyncDeleted, SyncPosted, Return, Goto, localVars, history
<1>4. CASE SyncGot(u)
  BY <1>4 DEF SyncGot, Goto, localVars, history
<1>5. CASE SyncDeletedAll(u) \/ SyncClear(u)
  BY <1>5 DEF SyncDeletedAll, SyncClear, Goto, requestVars, localVars, history
<1> QED
  BY <1>1, <1>2, <1>3, <1>4, <1>5 DEF CheckSync

(* Every step of a thread keeps a calm synchronization calm.               *)
LEMMA CalmThread ==
  ASSUME BaseInv, CalmInv, ThreadStep
  PROVE  CalmInv'
<1> USE ThreadsAssumption DEF BaseInv
<1>1. /\ \A u \in Threads : RequestEffect(u)
      /\ UNCHANGED <<check_connection, server, auth, remote, faults>>
  BY ThreadEffect
<1>2. \A u \in Threads : Undisturbed(u) => Undisturbed(u)'
  BY <1>1 DEF RequestEffect, Undisturbed
<1>3. CASE LoginAccepted \/ LoginRetry \/ Start
  <2>1. pc["main"] \in LoginSteps /\ UNCHANGED calm
    BY <1>3 DEF LoginAccepted, LoginRetry, Start, LoginSteps, history
  <2>2. ~ calm["main"] /\ ~ calm["f"]
    BY <2>1 DEF CalmInv, Calm, ControlInv, LoginSteps, SyncSteps, Syncers
  <2>3. pc'["main"] = "path" => check_connection # 0
    BY <1>3 DEF LoginAccepted, LoginRetry, Start, Goto, TypeOK
  <2> QED
    BY <1>1, <2>1, <2>2, <2>3 DEF CalmInv, CalmStart, Syncers
<1>4. CASE Watch
  <2>1. /\ pc["main"] = "path" /\ pc'["main"] = "sleep" /\ pc'["f"] = "cs_delete"
        /\ calm' = [calm EXCEPT !["f"] = server = "up" /\ auth]
        /\ UNCHANGED <<req, deleted_files, seen>>
    BY <1>4 DEF Watch, requestVars, localVars
  <2>2. /\ pc["f"] = "off" /\ pc["f3"] = "off"
        /\ deleted_files = {} /\ seen["f"] = {} /\ check_connection # 0
    BY <2>1 DEF ControlInv, LoginSteps, Syncers, CalmInv, CalmStart
  <2>3. \A u \in Threads : Undisturbed(u)
    BY <2>1, <2>2 DEF RequestInv, RequestAgrees, Waits, Undisturbed
  <2>4. ~ calm["main"]
    BY <2>1 DEF CalmInv, Calm, SyncSteps, Syncers
  <2>5. calm'["f"] => Calm("f")'
    BY <1>1, <1>2, <2>1, <2>2, <2>3, CalmEnter DEF Syncers, TypeOK
  <2> QED
    BY <1>1, <1>2, <2>1, <2>2, <2>3, <2>4, <2>5 DEF CalmInv, CalmStart, Syncers, TypeOK
<1>5. CASE MainLoop
  <2>1. pc["main"] \in MainSteps /\ pc["main"] # "path"
    BY <1>5, MainAt DEF MainSteps
  <2>2. ~ calm["main"]
    BY <2>1 DEF CalmInv, Calm, MainSteps, SyncSteps, Syncers
  <2>3. calm'["main"] => Calm("main")'
    <3>1. CASE PollSync \/ ActionSync
      <4>1. /\ pc'["main"] = "cs_delete" /\ seen'["main"] = {}
            /\ calm'["main"] = (server = "up" /\ auth)
        BY <3>1 DEF PollSync, ActionSync, EnterSync, Goto, TypeOK, Syncers
      <4>2. pc["main"] \notin Waits
        BY <3>1 DEF PollSync, ActionSync, Waits
      <4>3. Undisturbed("main")
        BY <4>2 DEF RequestInv, RequestAgrees, Undisturbed
      <4> QED
        BY <1>1, <1>2, <4>1, <4>3, CalmEnter DEF Syncers
    <3>2. CASE ~ PollSync /\ ~ ActionSync
      BY <1>5, <2>2, <3>2 DEF MainLoop, Poll, BeginPass, WatcherStep, CallAction, ActionNoSync,
         ActionIgnores, ActionSwitch, ActionPost, ActionDelete, ActionPosted, ActionDeleted,
         history
    <3> QED
      BY <3>1, <3>2
  <2>4. calm["f"] => deleted_files' = deleted_files
    BY <1>5, MainFrame DEF CalmInv, CalmStart
  <2>5. calm'["f"] => Calm("f")'
    BY <1>1, <1>5, <2>4, MainFrame, CalmOther DEF CalmInv, Syncers
  <2>6. pc'["main"] # "path"
    BY <1>5 DEF MainLoop, PollSync, Poll, BeginPass, WatcherStep, CallAction, ActionSync,
       ActionNoSync, ActionIgnores, ActionSwitch, ActionPost, ActionDelete, ActionPosted,
       ActionDeleted, EnterSync, Goto, TypeOK
  <2> QED
    BY <1>1, <1>2, <1>5, <2>3, <2>4, <2>5, <2>6, MainFrame DEF CalmInv, CalmStart, Syncers
<1>6. CASE Tick \/ TickEnd
  <2>1. /\ \A t \in Syncers : pc'[t] = pc[t] /\ req'[t] = req[t]
        /\ UNCHANGED <<watcherVars, localVars, history>>
    BY <1>6 DEF Tick, TickEnd, Issue, Return, Goto, TypeOK, RequestTypeOK, Syncers
  <2> QED
    BY <1>1, <1>2, <2>1, CalmOther DEF CalmInv, CalmStart, watcherVars, localVars, history,
       Syncers
<1>7. ASSUME NEW u \in Syncers, CheckSync(u) PROVE CalmInv'
  <2>1. pc["main"] \notin LoginSteps
    BY <1>7 DEF CheckSync, SyncAbandon, SyncDelete, SyncDeleted, SyncDeletedAll, SyncClear,
       SyncGet, SyncGot, SyncPost, SyncPosted, SyncEnd, ControlInv, LoginSteps, Syncers
  <2>2. pc'["main"] # "path"
    BY <1>7, <2>1 DEF CheckSync, SyncAbandon, SyncDelete, SyncDeleted, SyncDeletedAll,
       SyncClear, SyncGet, SyncGot, SyncPost, SyncPosted, SyncEnd, AfterSync, Goto, TypeOK,
       LoginSteps, Syncers
  <2>3. ASSUME NEW t \in Syncers, calm'[t] PROVE calm[t] /\ Calm(t)'
    <3>1. calm[t]
      BY <1>7, <2>3, SyncFrame DEF CheckSync, SyncAbandon, SyncDelete, SyncDeleted,
         SyncDeletedAll, SyncClear, SyncGet, SyncGot, SyncPost, SyncPosted, SyncEnd, history,
         TypeOK
    <3>2. CASE t = u
      BY <1>7, <2>3, <3>1, <3>2, CalmStep DEF CalmInv
    <3>3. CASE t # u
      BY <1>1, <1>7, <3>1, <3>3, SyncFrame, CalmOther DEF CalmInv, Syncers, watcherVars
    <3> QED
      BY <3>1, <3>2, <3>3
  <2>4. deleted_files' \subseteq deleted_files
    BY <1>7, SyncFrame
  <2> QED
    BY <1>1, <1>2, <2>2, <2>3, <2>4 DEF CalmInv, CalmStart, Syncers
<1> QED
  BY <1>3, <1>4, <1>5, <1>6, <1>7 DEF ThreadStep

(* Every step keeps a calm synchronization calm, or disturbs it.           *)
LEMMA NextCalm == BaseInv /\ CalmInv /\ [Next]_vars => CalmInv'
<1> SUFFICES ASSUME BaseInv, CalmInv, [Next]_vars PROVE CalmInv'
  OBVIOUS
<1> USE ThreadsAssumption
<1>1. CASE UNCHANGED vars
  BY <1>1 DEF vars, watcherVars, requestVars, localVars, history, CalmInv, CalmStart, Calm,
     Deleted, DeleteGood, Compared, GetGood, PostGood, Undisturbed, Answered, OnDisk
<1>2. CASE ThreadStep
  BY <1>2, CalmThread
<1>3. CASE Login
  <2>1. /\ pc["main"] = "prompt" /\ pc' = [pc EXCEPT !["main"] = "login"] /\ UNCHANGED calm
    BY <1>3 DEF Login, Goto, history
  <2>2. ~ calm["main"] /\ ~ calm["f"]
    BY <2>1 DEF CalmInv, Calm, BaseInv, ControlInv, LoginSteps, SyncSteps, Syncers
  <2>3. pc'["main"] # "path"
    BY <2>1 DEF BaseInv, TypeOK
  <2> QED
    BY <2>1, <2>2, <2>3 DEF CalmInv, CalmStart, Syncers
<1>4. CASE LoginFails \/ Exit
  BY <1>4 DEF LoginFails, Exit, EndOfLife, CalmInv, CalmStart, Syncers
<1>5. ASSUME NEW u \in Threads, HandlerOf(u) PROVE CalmInv'
  <2>1. HandlerEffect(u) /\ UNCHANGED <<watcherVars, pc, localVars>>
    BY <1>5, HandleEffect DEF HandlerOf, BaseInv, TypeOK, RequestInv
  <2>2. faults' # faults => Disturb({u})
    BY <1>5 DEF HandlerOf
  <2>3. faults' = faults => UNCHANGED calm
    BY <1>5 DEF HandlerOf, history
  <2>4. \A t \in Syncers : calm'[t] => calm[t]
    BY <2>2, <2>3 DEF Disturb
  <2>5. pc["main"] # "path"
    BY <2>1 DEF HandlerEffect, BaseInv, ControlInv, LoginSteps, RequestInv, RequestAgrees, Waits
  <2>6. CalmStart'
    BY <2>1, <2>2, <2>4, <2>5 DEF CalmInv, CalmStart, Calm, HandlerEffect, Undisturbed,
       localVars, Syncers
  <2>7. ASSUME NEW t \in Syncers, calm'[t] PROVE Calm(t)'
    <3>1. CASE t = u
      BY <1>5, <2>4, <2>7, <3>1, CalmHandler DEF CalmInv
    <3>2. CASE t # u
      BY <2>1, <2>4, <2>7, <3>2, CalmOther DEF CalmInv, HandlerEffect, watcherVars, localVars,
         Syncers
    <3> QED
      BY <3>1, <3>2
  <2> QED
    BY <2>6, <2>7 DEF CalmInv
<1>6. ASSUME NEW u \in Threads, ServerStep(u) PROVE CalmInv'
  <2>1. ServerEffect(u) /\ UNCHANGED <<watcherVars, pc, localVars>>
    BY <1>6, ServerHandlesEffect DEF ServerStep, BaseInv, TypeOK
  <2>2. \A t \in Syncers : calm'[t] =>
          calm[t] /\ (t # u => req[u].method \notin {"POST", "DELETE"})
    BY <1>6 DEF ServerStep, Disturb
  <2>3. CalmStart'
    BY <2>1, <2>2 DEF CalmInv, CalmStart, ServerEffect, Undisturbed, localVars, Syncers
  <2>4. ASSUME NEW t \in Syncers, calm'[t] PROVE Calm(t)'
    <3>1. CASE t = u
      BY <1>6, <2>2, <2>4, <3>1, CalmServer DEF CalmInv
    <3>2. CASE t # u
      <4>1. UNCHANGED remote
        BY <1>6, <2>2, <2>4, <3>2 DEF ServerStep, ServerHandles
      <4> QED
        BY <2>1, <2>2, <2>4, <3>2, <4>1, CalmOther DEF CalmInv, ServerEffect, watcherVars,
           localVars, Syncers
    <3> QED
      BY <3>1, <3>2
  <2> QED
    BY <2>3, <2>4 DEF CalmInv
<1>7. CASE ServerFault \/ UserEdits
  <2>1. /\ \A t \in Syncers : ~ calm'[t]
        /\ UNCHANGED <<pc, check_connection>>
    BY <1>7, ServerFaultEffect DEF ServerFault, UserEdits, Disturb, requestVars, BaseInv, TypeOK
  <2> QED
    BY <2>1 DEF CalmInv, CalmStart, Syncers
<1> QED
  BY <1>1, <1>2, <1>3, <1>4, <1>5, <1>6, <1>7, StepKinds

(* The deletions that a calm synchronization strikes off the list have     *)
(* reached the server, and at its end the copies are the entries, whatever *)
(* the faults before it have broken.                                       *)
THEOREM CalmSyncRepairs == Spec => CheckSyncRepairs
<1>1. Spec => []CalmInv
  BY BaseInductive, InitCalm, NextCalm, PTL DEF Spec
<1>2. ASSUME CalmInv, BaseInv, NEW t \in Syncers, calm[t]
      PROVE  /\ SyncClear(t) => \A p \in deleted_files : remote[p] = Absent
             /\ SyncEnd(t) => \A p \in OnDisk : remote[p] = disk[p]
  BY <1>2 DEF CalmInv, Calm, Deleted, Compared, WalkSteps, SyncClear, SyncEnd
<1>3. BaseInv /\ CalmInv /\ [Next]_vars =>
        [\A t \in Syncers : calm[t] =>
           /\ SyncClear(t) => \A p \in deleted_files : remote[p] = Absent
           /\ SyncEnd(t) => \A p \in OnDisk : remote[p] = disk[p]]_vars
  BY <1>2
<1> QED
  BY <1>1, <1>3, BaseInductive, PTL DEF Spec, CheckSyncRepairs

-----------------------------------------------------------------------------
(* The order of the stamps.                                                *)

\* No content is from the future, and stamps lie above the special contents.
StampInv ==
  /\ FirstStamp < clock
  /\ \A p \in Paths : /\ disk[p] <= clock /\ paths_[p] <= clock /\ remote[p] <= clock
                      /\ disk[p] # Absent => FirstStamp < disk[p]
  /\ \A t \in Threads : req[t].body <= clock

(* The first stamp is given out before the program is started.             *)
LEMMA InitStamps == Init => StampInv
BY DEF Init, FWInit, StampInv, FirstStamp, Absent, NoRequest

(* A content that is read, or sent to be compared, is on disk.             *)
LEMMA IssueStamp ==
  ASSUME BaseInv, StampInv, NEW t \in Threads, NEW m, NEW p, NEW b \in Nat, b <= clock,
         Issue(t, m, p, b) \/ Return(t)
  PROVE  \A u \in Threads : req'[u].body <= clock
<1> DEFINE new == NewRequest(m, p, b)
<1>1. new.body = b /\ NoRequest.body = 0
  BY DEF NewRequest, NoRequest, Absent
<1> HIDE DEF new
<1>2. req' = [req EXCEPT ![t] = new] \/ req' = [req EXCEPT ![t] = NoRequest]
  BY DEF Issue, Return, new
<1>3. \A u \in Threads : req'[u] \in {req[u], new, NoRequest}
  BY <1>2 DEF BaseInv, TypeOK, RequestTypeOK
<1> QED
  BY <1>1, <1>3 DEF StampInv, BaseInv, TypeOK, WatcherTypeOK

(* No thread sends a content from the future.                              *)
LEMMA ThreadStamps ==
  ASSUME BaseInv, StampInv, ThreadStep
  PROVE  \A u \in Threads : req'[u].body <= clock
<1> USE ThreadsAssumption DEF BaseInv
<1>1. /\ EmptyContent \in Nat /\ EmptyContent <= clock
      /\ \A p \in Paths : ReadFile(p) \in Nat /\ ReadFile(p) <= clock
  BY DEF StampInv, EmptyContent, FirstStamp, ReadFile, TypeOK, WatcherTypeOK
<1>2. CASE UNCHANGED req
  BY <1>2 DEF StampInv
<1>3. ASSUME NEW t \in Threads, Return(t) PROVE \A u \in Threads : req'[u].body <= clock
  BY <1>1, <1>3, IssueStamp
<1>4. ASSUME NEW t \in Threads, NEW m, NEW p,
             NEW b \in {EmptyContent} \cup {ReadFile(q) : q \in Paths}, Issue(t, m, p, b)
      PROVE  \A u \in Threads : req'[u].body <= clock
  BY <1>1, <1>4, IssueStamp
<1>5. CASE LoginAccepted \/ LoginRetry \/ Watch \/ Start \/ Tick \/ TickEnd
  BY <1>2, <1>3, <1>4, <1>5 DEF LoginAccepted, LoginRetry, Watch, Start, Tick, TickEnd,
     requestVars
<1>6. CASE ActionPost \/ ActionDelete
  <2>1. cur \in Paths
    BY <1>6 DEF ActionPost, ActionDelete, WatchInv, CallbackSteps, TypeOK, WatcherTypeOK
  <2> QED
    BY <1>4, <1>6, <2>1 DEF ActionPost, ActionDelete
<1>7. CASE MainLoop /\ ~ ActionPost /\ ~ ActionDelete
  BY <1>2, <1>3, <1>7 DEF MainLoop, PollSync, Poll, BeginPass, WatcherStep, CallAction,
     ActionSync, ActionNoSync, ActionIgnores, ActionSwitch, ActionPosted, ActionDeleted,
     requestVars
<1>8. ASSUME NEW t \in Syncers, CheckSync(t) PROVE \A u \in Threads : req'[u].body <= clock
  <2>1. t \in Threads
    BY DEF Syncers
  <2>2. CASE SyncGot(t)
    BY <2>1, <2>2 DEF SyncGot, NoRequest, Absent, StampInv, TypeOK, RequestTypeOK, WatcherTypeOK
  <2>3. CASE SyncAbandon(t) \/ SyncDeletedAll(t) \/ SyncClear(t) \/ SyncEnd(t)
    BY <1>2, <2>3 DEF SyncAbandon, SyncDeletedAll, SyncClear, SyncEnd, requestVars
  <2>4. CASE SyncDelete(t) \/ SyncDeleted(t) \/ SyncGet(t) \/ SyncPosted(t)
    BY <1>3, <1>4, <2>1, <2>4 DEF SyncDelete, SyncDeleted, SyncGet, SyncPosted
  <2>5. CASE SyncPost(t)
    <3>1. req[t].path \in Paths
      BY <2>1, <2>5 DEF SyncPost, RequestInv, RequestAgrees
    <3> QED
      BY <1>4, <2>1, <2>5, <3>1 DEF SyncPost
  <2> QED
    BY <1>8, <2>2, <2>3, <2>4, <2>5 DEF CheckSync
<1> QED
  BY <1>5, <1>6, <1>7, <1>8 DEF ThreadStep

(* What a step of a thread does to the watcher's fields.                   *)
LEMMA ThreadFolder ==
  ASSUME BaseInv, ThreadStep
  PROVE  /\ UNCHANGED <<disk, clock>>
         /\ \A p \in Paths : paths_'[p] \in {paths_[p], disk[p], Absent}
<1> USE DEF BaseInv, TypeOK, WatcherTypeOK
<1>1. CASE UNCHANGED watcherVars
  BY <1>1 DEF watcherVars
<1>2. CASE LoginAccepted \/ LoginRetry \/ Watch \/ Start \/ Tick \/ TickEnd
  BY <1>1, <1>2 DEF LoginAccepted, LoginRetry, Watch, Construct, Start, Tick, TickEnd
<1>3. CASE MainLoop
  <2>1. CASE BeginPass \/ WatcherStep
    BY <2>1 DEF BeginPass, StartPass, WatcherStep, Advance, StartScan, EndPass, KeepEntry,
       FindUnchanged, AbandonScan
  <2>2. CASE CallAction
    BY <2>2 DEF CallAction, StartCallback, FindErased, FindChanged
  <2>3. CASE ActionIgnores \/ ActionPosted \/ ActionDeleted
    BY <2>3 DEF ActionIgnores, ActionPosted, ActionDeleted, CallbackReturns
  <2> QED
    BY <1>1, <1>3, <2>1, <2>2, <2>3 DEF MainLoop, PollSync, Poll, ActionSync, ActionNoSync,
       ActionSwitch, ActionPost, ActionDelete
<1>4. ASSUME NEW t \in Syncers, CheckSync(t) PROVE UNCHANGED watcherVars
  BY <1>4, SyncFrame
<1> QED
  BY <1>1, <1>2, <1>3, <1>4 DEF ThreadStep

(* Every step keeps StampInv.                                              *)
LEMMA NextStamps == BaseInv /\ StampInv /\ [Next]_vars => StampInv'
<1> SUFFICES ASSUME BaseInv, StampInv, [Next]_vars PROVE StampInv'
  OBVIOUS
<1> USE ThreadsAssumption
<1>1. CASE UNCHANGED vars
  BY <1>1 DEF vars, watcherVars, requestVars, StampInv
<1>2. CASE ThreadStep
  BY <1>2, ThreadStamps, ThreadFolder, ThreadEffect DEF StampInv, Absent, BaseInv, TypeOK,
     WatcherTypeOK
<1>3. CASE Login
  <2>1. /\ req' = [req EXCEPT !["main"] = NewRequest("login", NoPath, Absent)]
        /\ UNCHANGED <<watcherVars, remote>>
    BY <1>3 DEF Login
  <2>2. NewRequest("login", NoPath, Absent).body = 0
    BY DEF NewRequest, NoRequest, Absent
  <2>3. \A u \in Threads : req'[u].body <= clock
    BY <2>1, <2>2 DEF StampInv, BaseInv, TypeOK, RequestTypeOK, WatcherTypeOK
  <2> QED
    BY <2>1, <2>3 DEF StampInv, watcherVars
<1>4. CASE LoginFails \/ Exit
  BY <1>4 DEF LoginFails, Exit, EndOfLife, Discard, StampInv, Absent, NoRequest, BaseInv, TypeOK,
     WatcherTypeOK
<1>5. ASSUME NEW u \in Threads, HandlerOf(u) PROVE StampInv'
  <2>1. HandlerEffect(u) /\ UNCHANGED watcherVars
    BY <1>5, HandleEffect DEF HandlerOf, BaseInv, TypeOK, RequestInv
  <2> QED
    BY <2>1 DEF HandlerEffect, StampInv, watcherVars
<1>6. ASSUME NEW u \in Threads, ServerStep(u) PROVE StampInv'
  <2>1. ServerEffect(u) /\ UNCHANGED watcherVars /\ ServerHandles(u)
    BY <1>6, ServerHandlesEffect DEF ServerStep, BaseInv, TypeOK
  <2>2. \A p \in Paths : remote'[p] \in {remote[p], req[u].body, Absent}
    BY <2>1 DEF ServerHandles, BaseInv, TypeOK, RequestTypeOK
  <2> QED
    BY <2>1, <2>2 DEF ServerEffect, StampInv, watcherVars, Absent, BaseInv, TypeOK, WatcherTypeOK
<1>7. CASE ServerFault
  <2>1. /\ \A u \in Threads : LinkEffect(u)
        /\ UNCHANGED <<watcherVars, remote>>
    BY <1>7, ServerFaultEffect DEF ServerFault, BaseInv, TypeOK
  <2> QED
    BY <2>1 DEF LinkEffect, StampInv, watcherVars
<1>8. CASE UserEdits
  <2>1. UNCHANGED <<req, remote, paths_>> /\ \E p \in Paths : Write(p) \/ Remove(p)
    BY <1>8 DEF UserEdits, User, Write, Remove, requestVars
  <2>2. clock' \in {clock, clock + 1} /\ \A p \in Paths : disk'[p] \in {disk[p], clock', Absent}
    BY <2>1 DEF Write, Remove, BaseInv, TypeOK, WatcherTypeOK
  <2>3. \A u \in Threads : req[u].body \in Nat
    BY DEF BaseInv, TypeOK, RequestTypeOK, Request
  <2> QED
    BY <2>1, <2>2, <2>3 DEF StampInv, Absent, FirstStamp, BaseInv, TypeOK, WatcherTypeOK,
       RequestTypeOK
<1> QED
  BY <1>1, <1>2, <1>3, <1>4, <1>5, <1>6, <1>7, <1>8, StepKinds

-----------------------------------------------------------------------------
(* The initial synchronization, left alone.                                *)

\* As long as it runs there is nothing to report, so that main can at most
\* synchronize too, and the two send nothing but the files as they are.
AloneInv == pc["f"] \in SyncSteps =>
  /\ paths_ = disk /\ deleted_files = {} /\ cur = NoPath
  /\ \A t \in Syncers :
       /\ pc[t] # "cs_deleted" /\ walk[t] \subseteq OnDisk
       /\ pc[t] \in {"cs_got", "cs_post", "cs_posted"} => req[t].path \in OnDisk
       /\ pc[t] = "cs_posted" => req[t].body = disk[req[t].path]

(* Nothing is synchronized at the start.                                   *)
LEMMA InitAlone == Init => AloneInv
BY ThreadsAssumption DEF Init, AloneInv, SyncSteps

(* No callback runs beside it, and main records and notes nothing.         *)
LEMMA AloneMain ==
  ASSUME BaseInv, AloneInv, pc["f"] \in SyncSteps, MainLoop
  PROVE  /\ UNCHANGED <<paths_, cur, deleted_files>>
         /\ pc'["main"] \notin WalkSteps \cup {"cs_deleted"}
         /\ \A t \in Threads : req'[t] = req[t]
<1> USE ThreadsAssumption DEF BaseInv, AloneInv
<1>1. pc["main"] \notin CallbackSteps
  BY DEF WatchInv
<1>2. ~ CallAction
  <2>1. ~ \E p \in Paths : FindErased(p)
    BY DEF FindErased, TypeOK, WatcherTypeOK, Tracked
  <2>2. ~ \E p \in Paths : FindChanged(p)
    BY DEF FindChanged
  <2> QED
    BY <2>1, <2>2 DEF CallAction, StartCallback
<1>3. CASE PollSync
  BY <1>3 DEF PollSync, EnterSync, Goto, TypeOK, watcherVars, requestVars, WalkSteps
<1>4. CASE Poll
  BY <1>4 DEF Poll, Goto, TypeOK, watcherVars, requestVars, localVars, WalkSteps
<1>5. CASE BeginPass
  BY <1>5 DEF BeginPass, StartPass, Goto, TypeOK, requestVars, localVars, WalkSteps
<1>6. CASE WatcherStep
  BY <1>6 DEF WatcherStep, Advance, StartScan, EndPass, KeepEntry, FindUnchanged, AbandonScan,
     Goto, TypeOK, requestVars, localVars, WalkSteps
<1>7. CASE ActionSync \/ ActionNoSync \/ ActionIgnores \/ ActionSwitch \/ ActionPost
           \/ ActionDelete \/ ActionPosted \/ ActionDeleted
  BY <1>1, <1>7 DEF ActionSync, ActionNoSync, ActionIgnores, ActionSwitch, ActionPost,
     ActionDelete, ActionPosted, ActionDeleted, CallbackSteps
<1> QED
  BY <1>2, <1>3, <1>4, <1>5, <1>6, <1>7 DEF MainLoop

\* What AloneInv says of a thread that synchronizes.
AloneSync(t) ==
  /\ pc[t] # "cs_deleted" /\ walk[t] \subseteq OnDisk
  /\ pc[t] \in {"cs_got", "cs_post", "cs_posted"} => req[t].path \in OnDisk
  /\ pc[t] = "cs_posted" => req[t].body = disk[req[t].path]

(* A step of a synchronization, beside the initial one or in it.           *)
LEMMA AloneStep ==
  ASSUME BaseInv, NEW t \in Syncers, AloneSync(t), deleted_files = {}, CheckSync(t),
         UNCHANGED disk
  PROVE  AloneSync(t)'
<1> USE ThreadsAssumption DEF BaseInv
<1>1. /\ t \in Threads /\ OnDisk' = OnDisk /\ OnDisk \subseteq Paths
      /\ \A p \in OnDisk : ReadFile(p) = disk[p]
  BY DEF Syncers, OnDisk, ReadFile
<1>2. CASE SyncAbandon(t) \/ SyncEnd(t)
  BY <1>1, <1>2 DEF SyncAbandon, SyncEnd, Goto, AfterSync, TypeOK, AloneSync
<1>3. ~ SyncDelete(t) /\ ~ SyncDeleted(t)
  BY DEF SyncDelete, SyncDeleted, AloneSync
<1>4. CASE SyncDeletedAll(t) \/ SyncClear(t)
  BY <1>1, <1>4 DEF SyncDeletedAll, SyncClear, Goto, TypeOK, AloneSync, localVars
<1>5. CASE SyncGet(t)
  <2>1. PICK q \in Paths :
          /\ pc[t] = "cs_walk" /\ q \in walk[t]
          /\ Issue(t, "GET", q, ReadFile(q))
          /\ walk' = [walk EXCEPT ![t] = @ \ {q}]
          /\ Goto(t, "cs_got")
    BY <1>5 DEF SyncGet
  <2>2. pc'[t] = "cs_got" /\ walk'[t] = walk[t] \ {q}
    BY <1>1, <2>1 DEF Goto, TypeOK
  <2>3. req'[t].path = q
    BY <1>1, <2>1 DEF Issue, NewRequest, NoRequest, TypeOK, RequestTypeOK
  <2> QED
    BY <1>1, <2>1, <2>2, <2>3 DEF AloneSync
<1>6. CASE SyncGot(t)
  <2>1. pc[t] = "cs_got" /\ UNCHANGED walk
    BY <1>6 DEF SyncGot, localVars
  <2>2. \/ pc'[t] = "cs_post" /\ req' = req
        \/ pc'[t] = "cs_walk"
    BY <1>1, <1>6 DEF SyncGot, Goto, TypeOK
  <2> QED
    BY <1>1, <2>1, <2>2 DEF AloneSync
<1>7. CASE SyncPost(t)
  <2>1. /\ pc[t] = "cs_post" /\ pc'[t] = "cs_posted" /\ UNCHANGED walk
        /\ Issue(t, "POST", req[t].path, ReadFile(req[t].path))
    BY <1>1, <1>7 DEF SyncPost, Goto, TypeOK, localVars
  <2>2. req'[t].path = req[t].path /\ req'[t].body = ReadFile(req[t].path)
    BY <1>1, <2>1 DEF Issue, NewRequest, NoRequest, TypeOK, RequestTypeOK
  <2> QED
    BY <1>1, <2>1, <2>2 DEF AloneSync
<1>8. CASE SyncPosted(t)
  BY <1>1, <1>8 DEF SyncPosted, Goto, TypeOK, localVars, AloneSync
<1> QED
  BY <1>2, <1>3, <1>4, <1>5, <1>6, <1>7, <1>8 DEF CheckSync

(* Every step keeps AloneInv, if the user and the faults wait.             *)
LEMMA NextAlone ==
  ASSUME InitialSyncAlone
  PROVE  BaseInv /\ AloneInv /\ [Next]_vars => AloneInv'
<1> SUFFICES ASSUME BaseInv, AloneInv, [Next]_vars, pc'["f"] \in SyncSteps
             PROVE  AloneInv'
  BY DEF AloneInv
<1> USE ThreadsAssumption DEF BaseInv
<1>0. SUFFICES /\ paths_' = disk' /\ deleted_files' = {} /\ cur' = NoPath
               /\ \A t \in Syncers : AloneSync(t)'
  BY DEF AloneInv, AloneSync
<1>1. CASE Watch
  <2>1. /\ pc["main"] = "path" /\ pc'["main"] = "sleep" /\ pc'["f"] = "cs_delete"
        /\ paths_' = disk /\ UNCHANGED <<disk, cur, deleted_files, walk>>
    BY <1>1 DEF Watch, Construct, localVars
  <2> QED
    BY <2>1 DEF ControlInv, WatchInv, LoginSteps, AloneSync, Syncers
<1>2. CASE pc["f"] \in SyncSteps /\ ~ Watch
  <2>1. /\ paths_ = disk /\ deleted_files = {} /\ cur = NoPath
        /\ \A t \in Syncers : AloneSync(t)
    BY <1>2 DEF AloneInv, AloneSync
  <2>2. pc["main"] \notin LoginSteps
    BY <1>2 DEF ControlInv, SyncSteps
  <2>3. CASE UNCHANGED vars
    BY <2>1, <2>3 DEF vars, watcherVars, requestVars, localVars, AloneSync, OnDisk
  <2>4. CASE MainLoop
    <3>1. /\ UNCHANGED <<disk, walk, paths_, cur, deleted_files>>
          /\ \A t \in Threads : req'[t] = req[t]
          /\ pc'["f"] = pc["f"] /\ pc'["main"] \notin WalkSteps \cup {"cs_deleted"}
      BY <1>2, <2>4, MainFrame, AloneMain
    <3> QED
      BY <2>1, <3>1 DEF AloneSync, Syncers, OnDisk, WalkSteps
  <2>5. ASSUME NEW u \in Syncers, CheckSync(u)
        PROVE  /\ paths_' = disk' /\ deleted_files' = {} /\ cur' = NoPath
               /\ \A t \in Syncers : AloneSync(t)'
    <3>1. /\ UNCHANGED <<disk, paths_, cur>>
          /\ deleted_files' = {}
      BY <2>1, <2>5, SyncFrame DEF watcherVars
    <3>2. AloneSync(u)'
      BY <2>1, <2>5, <3>1, AloneStep
    <3>3. ASSUME NEW t \in Syncers, t # u PROVE AloneSync(t)'
      BY <2>1, <2>5, <3>1, <3>3, SyncFrame DEF AloneSync, OnDisk, Syncers
    <3> QED
      BY <2>1, <3>1, <3>2, <3>3
  <2>6. CASE Tick \/ TickEnd
    <3>1. /\ \A t \in Syncers : pc'[t] = pc[t] /\ req'[t] = req[t]
          /\ UNCHANGED <<watcherVars, localVars>>
      BY <2>6 DEF Tick, TickEnd, Issue, Return, Goto, TypeOK, RequestTypeOK, Syncers
    <3> QED
      BY <2>1, <3>1 DEF AloneSync, OnDisk, watcherVars, localVars
  <2>7. CASE LoginAccepted \/ LoginRetry \/ Start \/ Login \/ LoginFails
    BY <2>2, <2>7 DEF LoginAccepted, LoginRetry, Start, Login, LoginFails, LoginSteps
  <2>8. CASE Exit
    BY <2>8 DEF Exit, EndOfLife, SyncSteps
  <2>9. ASSUME NEW u \in Threads, HandlerOf(u)
        PROVE  /\ paths_' = disk' /\ deleted_files' = {} /\ cur' = NoPath
               /\ \A t \in Syncers : AloneSync(t)'
    <3>1. HandlerEffect(u) /\ UNCHANGED <<watcherVars, pc, localVars>>
      BY <2>9, HandleEffect DEF HandlerOf, TypeOK, RequestInv
    <3>2. \A t \in Syncers : req'[t].path = req[t].path /\ req'[t].body = req[t].body
      BY <3>1 DEF HandlerEffect, Syncers
    <3> QED
      BY <2>1, <3>1, <3>2 DEF AloneSync, OnDisk, watcherVars, localVars
  <2>10. ASSUME NEW u \in Threads, ServerStep(u)
         PROVE  /\ paths_' = disk' /\ deleted_files' = {} /\ cur' = NoPath
                /\ \A t \in Syncers : AloneSync(t)'
    <3>1. ServerEffect(u) /\ UNCHANGED <<watcherVars, pc, localVars>>
      BY <2>10, ServerHandlesEffect DEF ServerStep, TypeOK
    <3>2. \A t \in Syncers : req'[t].path = req[t].path /\ req'[t].body = req[t].body
      BY <3>1 DEF ServerEffect, Syncers
    <3> QED
      BY <2>1, <3>1, <3>2 DEF AloneSync, OnDisk, watcherVars, localVars
  <2>11. ~ ServerFault /\ ~ UserEdits
    BY <1>2, <2>2 DEF ServerFault, UserEdits, MayFail, MayEdit, SyncSteps, LoginSteps
  <2> QED
    BY <1>2, <2>3, <2>4, <2>5, <2>6, <2>7, <2>8, <2>9, <2>10, <2>11, StepKinds DEF ThreadStep
<1>3. CASE pc["f"] \notin SyncSteps /\ ~ Watch
  <2>1. pc["f"] \in {"off", "finished"}
    BY <1>3 DEF ControlInv
  <2>2. CASE pc'["f"] = pc["f"]
    BY <1>3, <2>2
  <2>3. CASE MainLoop
    BY <1>3, <2>3, MainFrame
  <2>4. ASSUME NEW u \in Syncers, CheckSync(u) PROVE pc'["f"] = pc["f"]
    <3>1. u # "f"
      BY <2>1, <2>4 DEF CheckSync, SyncAbandon, SyncDelete, SyncDeleted, SyncDeletedAll,
         SyncClear, SyncGet, SyncGot, SyncPost, SyncPosted, SyncEnd
    <3> QED
      BY <2>4, <3>1, SyncFrame
  <2>5. CASE LoginAccepted \/ LoginRetry \/ Start \/ Login \/ Tick \/ TickEnd
    BY <2>2, <2>5 DEF LoginAccepted, LoginRetry, Start, Login, Tick, TickEnd, Goto, TypeOK
  <2>6. CASE LoginFails \/ Exit
    BY <2>6 DEF LoginFails, Exit, EndOfLife, SyncSteps
  <2>7. CASE UNCHANGED pc
    BY <2>2, <2>7
  <2>8. CASE UNCHANGED vars \/ ServerFault \/ UserEdits
             \/ \E t \in Threads : HandlerOf(t) \/ ServerStep(t)
    BY <2>7, <2>8 DEF vars, ServerFault, UserEdits, HandlerOf, ServerStep
  <2> QED
    BY <1>3, <2>2, <2>3, <2>4, <2>5, <2>6, <2>8, StepKinds DEF ThreadStep
<1> QED
  BY <1>1, <1>2, <1>3

-----------------------------------------------------------------------------
(* An entry that the watcher takes for unchanged, and that has been        *)
(* written since the last fault or recorded in a start without one.        *)

Due(p) ==
  /\ server = "up" /\ auth
  /\ disk[p] # Absent /\ paths_[p] = disk[p]
  /\ disk[p] > healthySince \/ quietSince # Absent

\* Its copy is as it should be, or is on the way.
DueGood(p) ==
  /\ p # cur => /\ \A t \in Syncers : Compared(t, p)
                /\ pc["f"] = "finished" /\ pc["main"] \notin SyncSteps => remote[p] = disk[p]
  /\ p = cur /\ pc["main"] = "posted" => PostGood("main", p)

DueInv == pc["main"] \notin LoginSteps => \A p \in Paths : Due(p) => DueGood(p)

(* The program starts with the login.                                      *)
LEMMA InitDue == Init => DueInv
BY ThreadsAssumption DEF Init, DueInv, LoginSteps

(* A fault or an abandoned synchronization leaves nothing due.             *)
LEMMA NothingDue ==
  ASSUME StampInv, healthySince' = clock, quietSince' = Absent, UNCHANGED disk,
         NEW p \in Paths, BaseInv
  PROVE  ~ Due(p)'
BY DEF Due, StampInv, BaseInv, TypeOK, WatcherTypeOK

(* The steps of a synchronization.                                         *)
LEMMA DueSync ==
  ASSUME BaseInv, StampInv, DueInv, NEW u \in Syncers, CheckSync(u),
         pc["main"] \notin LoginSteps, NEW p \in Paths, Due(p)'
  PROVE  DueGood(p)'
<1> USE ThreadsAssumption DEF BaseInv
<1>1. /\ UNCHANGED <<watcherVars, server, auth, remote>>
      /\ \A t \in Threads \ {u} : pc'[t] = pc[t] /\ req'[t] = req[t]
      /\ \A t \in Syncers \ {u} : walk'[t] = walk[t]
  BY SyncFrame, ThreadEffect DEF ThreadStep
<1>2. ~ SyncAbandon(u)
  BY <1>1, NothingDue DEF SyncAbandon, watcherVars
<1>3. UNCHANGED <<healthySince, quietSince>>
  BY <1>2 DEF CheckSync, SyncDelete, SyncDeleted, SyncDeletedAll, SyncClear, SyncGet, SyncGot,
     SyncPost, SyncPosted, SyncEnd, history
<1>4. Due(p) /\ DueGood(p) /\ p \in OnDisk /\ auth
  BY <1>1, <1>3 DEF Due, DueInv, watcherVars, OnDisk
<1>5. ASSUME p # cur, NEW t \in Syncers PROVE Compared(t, p)'
  <2>1. Compared(t, p)
    BY <1>4, <1>5 DEF DueGood
  <2>2. CASE t = u
    BY <1>4, <2>1, <2>2, ComparedStep
  <2>3. CASE t # u
    BY <1>1, <2>1, <2>3, ComparedOther DEF Syncers, watcherVars
  <2> QED
    BY <2>2, <2>3
<1>6. ASSUME p # cur, pc'["f"] = "finished", pc'["main"] \notin SyncSteps
      PROVE  remote[p] = disk[p]
  <2>1. CASE SyncEnd(u)
    BY <1>4, <1>6, <2>1 DEF SyncEnd, DueGood, Compared, WalkSteps
  <2>2. CASE ~ SyncEnd(u)
    <3>1. pc'[u] \in SyncSteps
      BY <1>2, <2>2 DEF CheckSync, SyncDelete, SyncDeleted, SyncDeletedAll, SyncClear, SyncGet,
         SyncGot, SyncPost, SyncPosted, Goto, TypeOK, SyncSteps, Syncers
    <3> QED
      BY <1>6, <3>1 DEF SyncSteps, Syncers
  <2> QED
    BY <2>1, <2>2
<1>7. ASSUME p = cur, pc'["main"] = "posted" PROVE PostGood("main", p)'
  <2>1. u # "main"
    BY <1>7 DEF CheckSync, SyncAbandon, SyncDelete, SyncDeleted, SyncDeletedAll, SyncClear,
       SyncGet, SyncGot, SyncPost, SyncPosted, SyncEnd, AfterSync, Goto, TypeOK, Syncers
  <2> QED
    BY <1>1, <1>4, <1>7, <2>1 DEF DueGood, PostGood, Undisturbed, Answered, watcherVars
<1> QED
  BY <1>1, <1>5, <1>6, <1>7 DEF DueGood, watcherVars

(* The polling loop: a change is recorded first, so that what the callback *)
(* sends is either the recorded content or one that is not due.            *)
LEMMA DueMain ==
  ASSUME BaseInv, AloneInv, DueInv, MainLoop, NEW p \in Paths, Due(p)'
  PROVE  DueGood(p)'
<1> USE ThreadsAssumption, NoPathAssumption DEF BaseInv
<1>1. /\ pc["main"] \in MainSteps /\ pc["main"] \notin LoginSteps \cup SyncSteps
      /\ UNCHANGED <<disk, healthySince, quietSince, walk, server, auth, remote>>
      /\ pc'["f"] = pc["f"] /\ req'["f"] = req["f"]
  BY MainAt, MainFrame, ThreadEffect DEF MainSteps, LoginSteps, SyncSteps, ThreadStep
<1>2. pc'["main"] \notin WalkSteps
  BY DEF MainLoop, PollSync, Poll, BeginPass, WatcherStep, CallAction, ActionSync, ActionNoSync,
     ActionIgnores, ActionSwitch, ActionPost, ActionDelete, ActionPosted, ActionDeleted,
     EnterSync, Goto, TypeOK, WalkSteps
<1>3. ASSUME Due(p), p # cur, p # cur' PROVE DueGood(p)'
  <2>1. DueGood(p) /\ Compared("f", p)
    BY <1>1, <1>3 DEF DueInv, DueGood, Syncers
  <2>2. Compared("f", p)' /\ Compared("main", p)'
    BY <1>1, <1>2, <2>1, ComparedOther DEF Syncers, Compared
  <2> QED
    BY <1>1, <1>3, <2>1, <2>2 DEF DueGood, Syncers
<1>4. CASE CallAction
  <2>1. PICK q \in Paths : FindErased(q) \/ FindChanged(q)
    BY <1>4 DEF CallAction, StartCallback
  <2>2. cur' = q /\ cur = NoPath /\ (p # q => paths_'[p] = paths_[p])
    BY <2>1 DEF FindErased, FindChanged, TypeOK, WatcherTypeOK
  <2>3. pc'["main"] = "called"
    BY <1>4 DEF CallAction, Goto, TypeOK
  <2>4. CASE p = q
    BY <2>2, <2>3, <2>4 DEF DueGood
  <2>5. CASE p # q
    <3>1. Due(p) /\ p # cur /\ p # cur'
      BY <1>1, <2>2, <2>5 DEF Due
    <3> QED
      BY <3>1, <1>3
  <2> QED
    BY <2>4, <2>5
<1>5. CASE ActionIgnores \/ ActionPosted \/ ActionDeleted
  <2>1. /\ cur \in Paths /\ cur' = NoPath /\ pc["main"] \in CallbackSteps
        /\ pc'["main"] = "watch"
        /\ \A q \in Paths \ {cur} : paths_'[q] = paths_[q]
        /\ paths_'[cur] = IF status = "erased" THEN Absent ELSE paths_[cur]
    BY <1>5 DEF ActionIgnores, ActionPosted, ActionDeleted, CallbackReturns, Goto, TypeOK,
       WatcherTypeOK, CallbackSteps
  <2>2. CASE p = cur
    <3>1. disk[p] # Absent /\ paths_'[p] = disk[p]
      BY <1>1 DEF Due
    <3>2. ActionPosted
      BY <1>5, <2>1, <2>2, <3>1 DEF ActionIgnores, ActionDeleted, WatchInv
    <3>3. pc["main"] = "posted" /\ Answered("main") /\ status # "erased"
      BY <3>2 DEF ActionPosted, Return, Done, Answered, WatchInv
    <3>4. Due(p)
      BY <1>1, <2>1, <2>2, <3>1, <3>3 DEF Due
    <3>5. remote[p] = disk[p]
      BY <1>1, <2>2, <3>3, <3>4 DEF DueInv, DueGood, PostGood
    <3>6. pc["f"] \notin SyncSteps
      BY <2>1 DEF AloneInv
    <3> QED
      BY <1>1, <1>2, <2>1, <3>5, <3>6 DEF DueGood, Compared, WalkSteps, SyncSteps, Syncers
  <2>3. CASE p # cur
    <3>1. Due(p)
      BY <1>1, <2>1, <2>3 DEF Due
    <3> QED
      BY <1>3, <2>1, <2>3, <3>1
  <2> QED
    BY <2>2, <2>3
<1>6. CASE ActionPost
  <2>1. /\ Issue("main", "POST", cur, ReadFile(cur)) /\ cur \in Paths
        /\ UNCHANGED watcherVars
    BY <1>6 DEF ActionPost, WatchInv, CallbackSteps, TypeOK, WatcherTypeOK
  <2>2. Due(p)
    BY <1>1, <2>1 DEF Due, watcherVars
  <2>3. CASE p = cur
    <3>1. /\ req'["main"].body = disk[p] /\ req'["main"].link = "none"
          /\ req'["main"].stage = "resolve"
      BY <2>1, <2>2, <2>3 DEF Issue, NewRequest, NoRequest, TypeOK, RequestTypeOK, ReadFile, Due
    <3> QED
      BY <1>1, <2>1, <2>3, <3>1 DEF DueGood, PostGood, Undisturbed, Answered, watcherVars
  <2>4. CASE p # cur
    BY <1>3, <2>1, <2>2, <2>4 DEF watcherVars
  <2> QED
    BY <2>3, <2>4
<1>7. CASE ~ CallAction /\ ~ ActionIgnores /\ ~ ActionPosted /\ ~ ActionDeleted /\ ~ ActionPost
  <2>1. UNCHANGED <<paths_, cur>> /\ pc'["main"] # "posted"
    BY <1>7 DEF MainLoop, PollSync, Poll, BeginPass, StartPass, WatcherStep, Advance, StartScan,
       EndPass, KeepEntry, FindUnchanged, AbandonScan, ActionSync, ActionNoSync, ActionSwitch,
       ActionDelete, EnterSync, Goto, TypeOK, watcherVars
  <2>2. Due(p)
    BY <1>1, <2>1 DEF Due
  <2>3. CASE p = cur
    BY <2>1, <2>3 DEF DueGood
  <2>4. CASE p # cur
    BY <1>3, <2>1, <2>2, <2>4
  <2> QED
    BY <2>3, <2>4
<1> QED
  BY <1>4, <1>5, <1>6, <1>7

(* The server's step for one thread.                                       *)
LEMMA DueServer ==
  ASSUME BaseInv, AloneInv, DueInv, NEW u \in Threads, ServerStep(u),
         pc["main"] \notin LoginSteps, NEW p \in Paths, Due(p)'
  PROVE  DueGood(p)'
<1> USE ThreadsAssumption, NoPathAssumption DEF BaseInv
<1>1. /\ ServerHandles(u) /\ ServerEffect(u) /\ RequestTypeOK
      /\ UNCHANGED <<watcherVars, pc, localVars, healthySince, quietSince>>
  BY ServerHandlesEffect DEF ServerStep, TypeOK
<1>2. Due(p) /\ DueGood(p) /\ p \in OnDisk /\ auth
  BY <1>1 DEF Due, DueInv, ServerEffect, watcherVars, OnDisk
<1>3. pc[u] \in Waits /\ pc[u] # "login"
  BY <1>1 DEF ServerEffect, RequestInv, RequestAgrees, LoginSteps, ControlInv, SyncSteps
<1>4. pc[u] \in {"posted", "deleted"} => u = "main" /\ req[u].path = cur /\ cur # NoPath
  BY <1>3 DEF RequestInv, RequestAgrees, ControlInv, SyncSteps, WatchInv, CallbackSteps
<1>5. pc[u] \in {"ping", "cs_got", "cs_post"} => remote'[p] = remote[p]
  BY <1>1, ServerCopies DEF RequestInv, RequestAgrees
<1>6. req[u].path # p => remote'[p] = remote[p]
  BY <1>1, ServerCopies
<1>7. ASSUME p # cur, NEW t \in Syncers PROVE Compared(t, p)'
  <2>1. Compared(t, p)
    BY <1>2, <1>7 DEF DueGood
  <2>2. CASE t = u
    BY <1>2, <2>1, <2>2, ComparedServer
  <2>3. CASE t # u /\ pc[t] \notin WalkSteps
    BY <1>1, <2>3 DEF Compared
  <2>4. CASE t # u /\ pc[t] \in WalkSteps
    <3>1. remote'[p] \in {remote[p], disk[p]}
      <4>1. CASE pc[u] \in {"cs_deleted", "cs_posted"}
        <5>1. u \in Syncers /\ pc["f"] \in SyncSteps
          BY <2>4, <4>1 DEF Syncers, ControlInv, WalkSteps, SyncSteps
        <5>2. pc[u] = "cs_posted" /\ req[u].body = disk[req[u].path]
          BY <4>1, <5>1 DEF AloneInv
        <5>3. req[u].method = "POST"
          BY <5>2 DEF RequestInv, RequestAgrees
        <5> QED
          BY <1>1, <1>6, <5>2, <5>3, ServerCopies
      <4>2. CASE pc[u] \in {"posted", "deleted"}
        BY <1>4, <1>6, <1>7, <4>2
      <4> QED
        BY <1>3, <1>5, <4>1, <4>2 DEF Waits
    <3> QED
      BY <1>1, <2>1, <2>4, <3>1, ComparedOther DEF ServerEffect, watcherVars, localVars, Syncers
  <2> QED
    BY <2>2, <2>3, <2>4
<1>8. ASSUME p # cur, pc["f"] = "finished", pc["main"] \notin SyncSteps
      PROVE  remote'[p] = remote[p]
  BY <1>3, <1>4, <1>5, <1>6, <1>8 DEF Waits, SyncSteps, ControlInv
<1>9. ASSUME p = cur, pc["main"] = "posted" PROVE PostGood("main", p)'
  <2>1. PostGood("main", p)
    BY <1>2, <1>9 DEF DueGood
  <2>2. pc["f"] \notin SyncSteps
    BY <1>9 DEF AloneInv
  <2>3. CASE u = "main"
    <3>1. req[u].method = "POST" /\ req[u].path = p
      BY <1>9, <2>3 DEF RequestInv, RequestAgrees
    <3>2. remote'[p] = req[u].body
      BY <1>1, <1>2, <3>1, ServerCopies
    <3> QED
      BY <1>1, <2>1, <2>3, <3>2 DEF PostGood, ServerEffect, Undisturbed, Answered, watcherVars
  <2>4. CASE u # "main"
    <3>1. pc[u] = "ping"
      BY <1>3, <2>2, <2>4 DEF ControlInv, Waits
    <3> QED
      BY <1>1, <1>5, <2>1, <2>4, <3>1 DEF PostGood, ServerEffect, Undisturbed, Answered,
         watcherVars
  <2> QED
    BY <2>3, <2>4
<1> QED
  BY <1>1, <1>2, <1>7, <1>8, <1>9 DEF DueGood, watcherVars

(* Every step keeps DueInv, if the initial synchronization is left alone.  *)
LEMMA NextDue ==
  BaseInv /\ StampInv /\ AloneInv /\ DueInv /\ [Next]_vars => DueInv'
<1> SUFFICES ASSUME BaseInv, StampInv, AloneInv, DueInv, [Next]_vars,
                    pc'["main"] \notin LoginSteps, NEW p \in Paths, Due(p)'
             PROVE  DueGood(p)'
  BY DEF DueInv
<1> USE ThreadsAssumption, NoPathAssumption DEF BaseInv
<1>1. CASE UNCHANGED vars
  BY <1>1 DEF vars, watcherVars, requestVars, localVars, history, DueInv, Due, DueGood, Compared,
     GetGood, PostGood, Undisturbed, Answered
<1>2. CASE MainLoop
  BY <1>2, DueMain
<1>3. ASSUME NEW u \in Syncers, CheckSync(u) PROVE DueGood(p)'
  <2>1. pc["main"] \notin LoginSteps
    BY <1>3 DEF CheckSync, SyncAbandon, SyncDelete, SyncDeleted, SyncDeletedAll, SyncClear,
       SyncGet, SyncGot, SyncPost, SyncPosted, SyncEnd, ControlInv, LoginSteps, Syncers
  <2> QED
    BY <1>3, <2>1, DueSync
<1>4. CASE Watch
  <2>1. pc'["main"] = "sleep" /\ pc'["f"] = "cs_delete" /\ cur' = NoPath
    BY <1>4 DEF Watch, Construct, WatchInv, LoginSteps
  <2> QED
    BY <2>1 DEF DueGood, Compared, WalkSteps, Syncers
<1>5. CASE Tick \/ TickEnd
  <2>1. /\ pc["main"] \notin LoginSteps
        /\ \A t \in Syncers : pc'[t] = pc[t] /\ req'[t] = req[t]
        /\ UNCHANGED <<watcherVars, localVars, history, server, auth, remote>>
    BY <1>5 DEF Tick, TickEnd, Issue, Return, Goto, TypeOK, RequestTypeOK, ControlInv, Syncers
  <2>2. DueGood(p)
    BY <2>1 DEF DueInv, Due, watcherVars, history
  <2>3. \A t \in Syncers : Compared(t, p) => Compared(t, p)'
    BY <2>1, ComparedOther DEF watcherVars, localVars
  <2> QED
    BY <2>1, <2>2, <2>3 DEF DueGood, PostGood, Undisturbed, Answered, watcherVars, Syncers
<1>6. CASE LoginAccepted \/ LoginRetry \/ Start \/ Login
  BY <1>6 DEF LoginAccepted, LoginRetry, Start, Login, Goto, TypeOK, LoginSteps
<1>7. CASE LoginFails \/ Exit
  BY <1>7 DEF LoginFails, Exit, EndOfLife, LoginSteps
<1>8. ASSUME NEW u \in Threads, HandlerOf(u) PROVE DueGood(p)'
  <2>1. HandlerEffect(u) /\ UNCHANGED <<watcherVars, pc, localVars>>
    BY <1>8, HandleEffect DEF HandlerOf, TypeOK, RequestInv
  <2>2. faults' = faults /\ UNCHANGED history
    BY <1>8, <2>1, NothingDue DEF HandlerOf, Fault, watcherVars
  <2>3. Due(p) /\ DueGood(p)
    BY <2>1, <2>2 DEF DueInv, Due, HandlerEffect, watcherVars, history
  <2>4. ASSUME NEW t \in Syncers, Compared(t, p) PROVE Compared(t, p)'
    <3>1. CASE t = u
      BY <2>1, <2>2, <2>3, <2>4, <3>1, ComparedHandler DEF Due, watcherVars, localVars
    <3>2. CASE t # u
      BY <2>1, <2>4, <3>2, ComparedOther DEF HandlerEffect, watcherVars, localVars, Syncers
    <3> QED
      BY <3>1, <3>2
  <2>5. PostGood("main", p) => PostGood("main", p)'
    BY <2>1, <2>2, <2>3 DEF PostGood, HandlerEffect, Undisturbed, Answered, Due, watcherVars
  <2> QED
    BY <2>1, <2>3, <2>4, <2>5 DEF DueGood, HandlerEffect, watcherVars
<1>9. ASSUME NEW u \in Threads, ServerStep(u) PROVE DueGood(p)'
  BY <1>9, DueServer DEF ServerStep
<1>10. CASE ServerFault
  BY <1>10, NothingDue DEF ServerFault, Fault, watcherVars
<1>11. CASE UserEdits
  <2>1. /\ UNCHANGED <<paths_, cur, requestVars, pc, localVars, healthySince, quietSince>>
        /\ \E q \in Paths : Write(q) \/ Remove(q)
    BY <1>11 DEF UserEdits, User, Write, Remove
  <2>2. disk'[p] \in {disk[p], clock + 1, Absent}
    BY <2>1 DEF Write, Remove, TypeOK, WatcherTypeOK
  <2>3. disk'[p] = disk[p]
    BY <2>1, <2>2 DEF Due, StampInv, TypeOK, WatcherTypeOK
  <2>4. DueGood(p)
    BY <2>1, <2>3 DEF DueInv, Due, requestVars
  <2>5. \A t \in Syncers : Compared(t, p) => Compared(t, p)'
    BY <2>1, <2>3, ComparedOther DEF requestVars, localVars
  <2> QED
    BY <2>1, <2>3, <2>4, <2>5 DEF DueGood, PostGood, Undisturbed, Answered, requestVars
<1> QED
  BY <1>1, <1>2, <1>3, <1>4, <1>5, <1>6, <1>7, <1>8, <1>9, <1>10, <1>11, StepKinds
  DEF ThreadStep

-----------------------------------------------------------------------------
(* A start without a fault since.                                          *)

\* No request is disturbed or takes the server for away, so that main never
\* synchronizes; what the watcher does not track is from before the start.
QuietInv == quietSince # Absent =>
  /\ AllWell /\ pc["main"] \notin LoginSteps \cup SyncSteps
  /\ \A t \in Threads : Undisturbed(t) /\ (req[t].stage = "count" => req[t].reg = Many)
  /\ \A p \in Paths : paths_[p] = Absent => remote[p] <= quietSince
  /\ pc["main"] = "deleted" => DeleteGood("main", cur)

(* No watcher has been made yet.                                           *)
LEMMA InitQuiet == Init => QuietInv
BY DEF Init, QuietInv

(* The polling loop.                                                       *)
LEMMA QuietMain ==
  ASSUME BaseInv, QuietInv, MainLoop, quietSince' # Absent
  PROVE  /\ pc'["main"] \notin LoginSteps \cup SyncSteps
         /\ \A p \in Paths : paths_'[p] = Absent => Absent \in {paths_[p], remote[p]}
         /\ pc'["main"] = "deleted" => DeleteGood("main", cur)'
<1> USE ThreadsAssumption, NoPathAssumption DEF BaseInv
<1>1. /\ quietSince # Absent /\ check_connection = Many
      /\ pc["main"] \in MainSteps /\ UNCHANGED <<disk, remote>>
      /\ pc["main"] = "deleted" => DeleteGood("main", cur)
  BY MainAt, MainFrame, ThreadEffect DEF QuietInv, AllWell, ThreadStep
<1>2. ~ PollSync /\ ~ ActionSync
  BY <1>1 DEF PollSync, ActionSync, Many
<1>3. CASE Poll \/ BeginPass \/ WatcherStep \/ ActionNoSync \/ ActionSwitch \/ ActionPost
  BY <1>1, <1>3 DEF Poll, BeginPass, StartPass, WatcherStep, Advance, StartScan, EndPass,
     KeepEntry, FindUnchanged, AbandonScan, ActionNoSync, ActionSwitch, ActionPost, Goto,
     TypeOK, watcherVars, LoginSteps, SyncSteps, MainSteps
<1>4. CASE CallAction
  <2>1. \A p \in Paths : paths_'[p] = Absent => paths_[p] = Absent
    BY <1>4 DEF CallAction, StartCallback, FindErased, FindChanged, TypeOK, WatcherTypeOK
  <2> QED
    BY <1>1, <1>4, <2>1 DEF CallAction, Goto, TypeOK, LoginSteps, SyncSteps
<1>5. CASE ActionDelete
  <2>1. req'["main"].link = "none" /\ req'["main"].stage = "resolve"
    BY <1>5 DEF ActionDelete, Issue, NewRequest, NoRequest, TypeOK, RequestTypeOK
  <2> QED
    BY <1>1, <1>5, <2>1 DEF ActionDelete, Goto, TypeOK, LoginSteps, SyncSteps, watcherVars,
       DeleteGood, Undisturbed, Answered
<1>6. CASE ActionIgnores \/ ActionPosted \/ ActionDeleted
  <2>1. CallbackReturns /\ pc'["main"] = "watch"
    BY <1>6 DEF ActionIgnores, ActionPosted, ActionDeleted, Goto, TypeOK
  <2>2. CASE status = "erased"
    <3>1. ActionDeleted
      BY <1>6, <2>2 DEF ActionIgnores, ActionPosted, WatchInv
    <3>2. remote[cur] = Absent
      BY <1>1, <3>1 DEF ActionDeleted, Return, Done, DeleteGood, Answered
    <3>3. \A p \in Paths \ {cur} : paths_'[p] = paths_[p]
      BY <2>1 DEF CallbackReturns, TypeOK, WatcherTypeOK
    <3>4. \A p \in Paths : paths_'[p] = Absent => Absent \in {paths_[p], remote[p]}
      BY <3>2, <3>3
    <3> QED
      BY <2>1, <3>4 DEF LoginSteps, SyncSteps
  <2>3. CASE status # "erased"
    BY <1>1, <2>1, <2>3 DEF CallbackReturns, LoginSteps, SyncSteps
  <2> QED
    BY <2>2, <2>3
<1> QED
  BY <1>2, <1>3, <1>4, <1>5, <1>6 DEF MainLoop

(* The steps of the threads.                                               *)
LEMMA QuietThread ==
  ASSUME BaseInv, StampInv, QuietInv, ThreadStep
  PROVE  QuietInv'
<1> SUFFICES ASSUME quietSince' # Absent PROVE QuietInv'
  BY DEF QuietInv
<1> USE ThreadsAssumption, NoPathAssumption DEF BaseInv
<1>1. /\ \A u \in Threads : RequestEffect(u)
      /\ UNCHANGED <<check_connection, server, auth, remote, faults>>
  BY ThreadEffect
<1>2. CASE Watch
  <2>1. /\ pc["main"] = "path" /\ pc'["main"] = "sleep" /\ UNCHANGED req
        /\ quietSince' = clock /\ AllWell
    BY <1>2 DEF Watch, requestVars
  <2>2. \A t \in Threads : req[t].stage = "idle" /\ req[t].link = "none"
    BY <2>1 DEF ControlInv, RequestInv, RequestAgrees, LoginSteps, Waits
  <2>3. \A p \in Paths : remote[p] <= clock
    BY DEF StampInv
  <2> QED
    BY <1>1, <2>1, <2>2, <2>3 DEF QuietInv, AllWell, Undisturbed, LoginSteps, SyncSteps
<1>3. CASE ~ Watch
  <2>1. UNCHANGED quietSince
    <3>1. CASE LoginAccepted \/ LoginRetry \/ Start \/ Tick \/ TickEnd
      BY <3>1 DEF LoginAccepted, LoginRetry, Start, Tick, TickEnd, history
    <3>2. ASSUME NEW u \in Syncers, CheckSync(u) PROVE UNCHANGED quietSince
      BY <3>2 DEF CheckSync, SyncAbandon, SyncDelete, SyncDeleted, SyncDeletedAll, SyncClear,
         SyncGet, SyncGot, SyncPost, SyncPosted, SyncEnd, history
    <3> QED
      BY <1>3, <3>1, <3>2, MainFrame DEF ThreadStep
  <2>2. /\ AllWell' /\ pc["main"] \notin LoginSteps \cup SyncSteps
        /\ \A t \in Threads : Undisturbed(t) /\ (req[t].stage = "count" => req[t].reg = Many)
        /\ \A p \in Paths : paths_[p] = Absent => remote[p] <= quietSince
        /\ pc["main"] = "deleted" => DeleteGood("main", cur)
    BY <1>1, <2>1 DEF QuietInv, AllWell
  <2>3. \A t \in Threads :
          Undisturbed(t)' /\ (req'[t].stage = "count" => req'[t].reg = Many)
    BY <1>1, <2>2 DEF RequestEffect, Undisturbed
  <2>4. CASE MainLoop
    <3>1. \A p \in Paths : paths_'[p] = Absent => remote[p] <= quietSince
      BY <2>2, <2>4, QuietMain DEF Absent, TypeOK, WatcherTypeOK
    <3> QED
      BY <1>1, <2>1, <2>2, <2>3, <2>4, <3>1, QuietMain DEF QuietInv
  <2>5. CASE pc'["main"] = pc["main"] /\ UNCHANGED <<paths_, cur>>
    BY <1>1, <2>1, <2>2, <2>3, <2>5
       DEF QuietInv, DeleteGood, RequestEffect, Undisturbed, Answered
  <2>6. CASE LoginAccepted \/ LoginRetry \/ Start
    BY <2>2, <2>6 DEF LoginAccepted, LoginRetry, Start, LoginSteps
  <2>7. CASE Tick \/ TickEnd
    BY <2>5, <2>7 DEF Tick, TickEnd, Goto, TypeOK, watcherVars
  <2>8. ASSUME NEW u \in Syncers, CheckSync(u) PROVE QuietInv'
    <3>1. u # "main"
      BY <2>2, <2>8 DEF CheckSync, SyncAbandon, SyncDelete, SyncDeleted, SyncDeletedAll,
         SyncClear, SyncGet, SyncGot, SyncPost, SyncPosted, SyncEnd, SyncSteps
    <3> QED
      BY <2>5, <2>8, <3>1, SyncFrame DEF watcherVars
  <2> QED
    BY <1>3, <2>4, <2>6, <2>7, <2>8 DEF ThreadStep
<1> QED
  BY <1>2, <1>3

(* What is posted is tracked.                                              *)
LEMMA PostsTracked ==
  ASSUME BaseInv, AloneInv, pc["main"] \notin SyncSteps,
         NEW u \in Threads, ServerStep(u), NEW p \in Paths, paths_[p] = Absent
  PROVE  remote'[p] \in {remote[p], Absent}
<1> USE ThreadsAssumption, NoPathAssumption DEF BaseInv
<1>1. ServerHandles(u) /\ ServerEffect(u) /\ RequestTypeOK
  BY ServerHandlesEffect DEF ServerStep, TypeOK
<1>2. CASE req[u].method = "POST" /\ req[u].path = p
  <2>1. pc[u] \in {"posted", "cs_posted"}
    BY <1>1, <1>2 DEF ServerEffect, RequestInv, RequestAgrees, Waits
  <2>2. CASE pc[u] = "posted"
    BY <1>2, <2>2 DEF RequestInv, RequestAgrees, ControlInv, SyncSteps, WatchInv, CallbackSteps
  <2>3. CASE pc[u] = "cs_posted"
    <3>1. u = "f" /\ pc["f"] \in SyncSteps
      BY <2>3 DEF ControlInv, SyncSteps
    <3> QED
      BY <1>2, <2>3, <3>1 DEF AloneInv, OnDisk, Syncers
  <2> QED
    BY <2>1, <2>2, <2>3
<1> QED
  BY <1>1, <1>2, ServerCopies

(* The server's step.                                                      *)
LEMMA QuietServer ==
  ASSUME BaseInv, AloneInv, QuietInv, NEW u \in Threads, ServerStep(u)
  PROVE  QuietInv'
<1> SUFFICES ASSUME quietSince # Absent PROVE QuietInv'
  BY DEF QuietInv, ServerStep
<1> USE ThreadsAssumption, NoPathAssumption DEF BaseInv
<1>1. /\ ServerHandles(u) /\ ServerEffect(u) /\ RequestTypeOK
      /\ UNCHANGED <<watcherVars, pc, localVars, healthySince, quietSince>>
  BY ServerHandlesEffect DEF ServerStep, TypeOK
<1>2. /\ AllWell' /\ auth /\ pc["main"] \notin LoginSteps \cup SyncSteps
      /\ \A t \in Threads : Undisturbed(t) /\ (req[t].stage = "count" => req[t].reg = Many)
      /\ \A p \in Paths : paths_[p] = Absent => remote[p] <= quietSince
      /\ pc["main"] = "deleted" => DeleteGood("main", cur)
  BY <1>1 DEF QuietInv, AllWell, ServerEffect
<1>3. \A t \in Threads :
        Undisturbed(t)' /\ (req'[t].stage = "count" => req'[t].reg = Many)
  BY <1>1, <1>2 DEF ServerEffect, Undisturbed
<1>4. pc[u] \in Waits /\ pc[u] # "login"
  BY <1>1, <1>2 DEF ServerEffect, RequestInv, RequestAgrees, LoginSteps, ControlInv, SyncSteps
<1>5. ASSUME NEW p \in Paths, paths_[p] = Absent PROVE remote'[p] <= quietSince
  BY <1>2, <1>5, PostsTracked DEF Absent, TypeOK, WatcherTypeOK
<1>6. ASSUME pc["main"] = "deleted" PROVE DeleteGood("main", cur)'
  <2>1. cur \in Paths /\ pc["f"] \notin SyncSteps /\ UNCHANGED cur
    BY <1>1, <1>6 DEF WatchInv, CallbackSteps, AloneInv, TypeOK, WatcherTypeOK, watcherVars
  <2>2. CASE u = "main"
    <3>1. req[u].method = "DELETE" /\ req[u].path = cur
      BY <1>6, <2>2 DEF RequestInv, RequestAgrees
    <3>2. remote'[cur] = Absent
      BY <1>1, <1>2, <2>1, <3>1, ServerCopies
    <3> QED
      BY <1>3, <2>1, <3>2 DEF DeleteGood
  <2>3. CASE u # "main"
    <3>1. pc[u] = "ping"
      BY <1>4, <2>1, <2>3 DEF ControlInv, Waits
    <3>2. remote'[cur] = remote[cur] /\ req'["main"] = req["main"]
      BY <1>1, <2>1, <2>3, <3>1, ServerCopies DEF RequestInv, RequestAgrees, ServerEffect
    <3> QED
      BY <1>2, <1>3, <1>6, <2>1, <3>2 DEF DeleteGood, Answered
  <2> QED
    BY <2>2, <2>3
<1> QED
  BY <1>1, <1>2, <1>3, <1>5, <1>6 DEF QuietInv, watcherVars

(* Every step keeps QuietInv, if the initial synchronization is left alone.*)
LEMMA NextQuiet ==
  BaseInv /\ StampInv /\ AloneInv /\ QuietInv /\ [Next]_vars => QuietInv'
<1> SUFFICES ASSUME BaseInv, StampInv, AloneInv, QuietInv, [Next]_vars, quietSince' # Absent
             PROVE  QuietInv'
  BY DEF QuietInv
<1> USE ThreadsAssumption DEF BaseInv
<1>1. CASE UNCHANGED vars
  BY <1>1 DEF vars, watcherVars, requestVars, history, QuietInv, AllWell, DeleteGood,
     Undisturbed, Answered
<1>2. CASE ThreadStep
  BY <1>2, QuietThread
<1>3. ~ Login
  BY DEF Login, QuietInv, LoginSteps, history
<1>4. ~ LoginFails /\ ~ Exit /\ ~ ServerFault
  BY DEF LoginFails, Exit, EndOfLife, ServerFault, Fault
<1>5. ASSUME NEW u \in Threads, HandlerOf(u) PROVE QuietInv'
  <2>1. HandlerEffect(u) /\ UNCHANGED <<watcherVars, pc, localVars>>
    BY <1>5, HandleEffect DEF HandlerOf, TypeOK, RequestInv
  <2>2. faults' = faults /\ UNCHANGED quietSince
    BY <1>5 DEF HandlerOf, Fault, history
  <2>3. /\ server = "up" /\ auth /\ check_connection = Many
        /\ \A t \in Threads : Undisturbed(t) /\ (req[t].stage = "count" => req[t].reg = Many)
    BY <2>2 DEF QuietInv, AllWell
  <2>4. check_connection' = Many
    BY <2>1, <2>2, <2>3 DEF HandlerEffect, Incremented, Many
  <2>5. \A t \in Threads :
          Undisturbed(t)' /\ (req'[t].stage = "count" => req'[t].reg = Many)
    BY <2>1, <2>2, <2>3 DEF HandlerEffect, Undisturbed
  <2>6. pc["main"] = "deleted" => DeleteGood("main", cur)'
    BY <2>1, <2>2, <2>3, <2>5 DEF QuietInv, DeleteGood, HandlerEffect, Answered, watcherVars
  <2> QED
    BY <2>1, <2>2, <2>3, <2>4, <2>5, <2>6 DEF QuietInv, AllWell, HandlerEffect, watcherVars
<1>6. ASSUME NEW u \in Threads, ServerStep(u) PROVE QuietInv'
  BY <1>6, QuietServer
<1>7. CASE UserEdits
  <2>1. UNCHANGED <<paths_, cur, requestVars, pc, quietSince>>
    BY <1>7 DEF UserEdits, User, Write, Remove
  <2> QED
    BY <2>1 DEF requestVars, QuietInv, AllWell, DeleteGood, Undisturbed, Answered
<1> QED
  BY <1>1, <1>2, <1>3, <1>4, <1>5, <1>6, <1>7, StepKinds

\* Everything this module proves to be invariant, one name per reason.
RepairInv == BaseInv /\ CalmInv /\ StampInv /\ AloneInv /\ DueInv /\ QuietInv

(* It is an invariant, if the initial synchronization is left alone.       *)
THEOREM RepairInductive ==
  ASSUME InitialSyncAlone
  PROVE  Spec => []RepairInv
<1>1. BaseInv /\ AloneInv /\ [Next]_vars => AloneInv'
  BY NextAlone
<1>2. Spec => []BaseInv
  BY BaseInductive
<1>3. Spec => []AloneInv
  BY <1>1, <1>2, InitAlone, PTL DEF Spec
<1>4. Spec => []StampInv
  BY <1>2, InitStamps, NextStamps, PTL DEF Spec
<1>5. Spec => []CalmInv
  BY <1>2, InitCalm, NextCalm, PTL DEF Spec
<1>6. Spec => []DueInv
  BY <1>2, <1>3, <1>4, InitDue, NextDue, PTL DEF Spec
<1>7. Spec => []QuietInv
  BY <1>2, <1>3, <1>4, InitQuiet, NextQuiet, PTL DEF Spec
<1>8. BaseInv /\ CalmInv /\ StampInv /\ AloneInv /\ DueInv /\ QuietInv => RepairInv
  BY DEF RepairInv
<1> QED
  BY <1>2, <1>3, <1>4, <1>5, <1>6, <1>7, <1>8, PTL

(* Faults have no effect on later edits: once the server is back and no    *)
(* synchronization is under way, what has been written since and recorded  *)
(* is on the server as it is on disk.                                      *)
THEOREM EditsSurviveFaults ==
  ASSUME InitialSyncAlone
  PROVE  Spec => []EditsAfterRecovery
<1>1. RepairInv => EditsAfterRecovery
  <2> SUFFICES ASSUME RepairInv, server = "up", auth, pc["f"] = "finished",
                      pc["main"] \notin SyncSteps, NEW p \in OnDisk \ {cur},
                      paths_[p] = disk[p], disk[p] > healthySince
               PROVE  remote[p] = disk[p]
    BY DEF EditsAfterRecovery
  <2>1. pc["main"] \notin LoginSteps
    BY DEF RepairInv, BaseInv, ControlInv
  <2>2. p \in Paths /\ Due(p)
    BY DEF Due, OnDisk
  <2> QED
    BY <2>1, <2>2 DEF RepairInv, DueInv, DueGood
<1>2. Spec => []RepairInv
  BY RepairInductive
<1> QED
  BY <1>1, <1>2, PTL

(* A restart makes good for what was edited while no client was running,   *)
(* but for removals.                                                       *)
THEOREM RestartMakesGood ==
  ASSUME InitialSyncAlone
  PROVE  Spec => []RestartRepairs
<1>1. RepairInv => RestartRepairs
  <2> SUFFICES ASSUME RepairInv, AtRest, quietSince # Absent, NEW p \in Paths,
                      remote[p] # disk[p]
               PROVE  disk[p] = Absent /\ remote[p] <= quietSince
    BY DEF RestartRepairs
  <2>1. /\ pc["main"] = "sleep" /\ pc["f"] = "finished" /\ paths_ = disk
        /\ server = "up" /\ auth /\ cur = NoPath
    BY DEF AtRest, RepairInv, BaseInv, WatchInv
  <2>2. CASE disk[p] # Absent
    <3>1. Due(p) /\ p # cur
      BY <2>1, <2>2, NoPathAssumption DEF Due
    <3> QED
      BY <2>1, <3>1 DEF RepairInv, DueInv, DueGood, LoginSteps, SyncSteps
  <2>3. CASE disk[p] = Absent
    BY <2>1, <2>3 DEF RepairInv, QuietInv
  <2> QED
    BY <2>2, <2>3
<1>2. Spec => []RepairInv
  BY RepairInductive
<1> QED
  BY <1>1, <1>2, PTL

=============================================================================
