------------------------- MODULE WatchedMirrorProofs ------------------------
(***************************************************************************)
(* Proofs about WatchedMirror, for every set of entries and every bound on *)
(* the clock.  IInv is inductive: the watcher's bookkeeping (paths_) tells *)
(* the truth about the copy only because of what is known of a callback in *)
(* flight (CallbackFresh), of the order of the stamps (StampsBounded) and  *)
(* of untracked entries (UntrackedHasNoCopy).                              *)
(***************************************************************************)
EXTENDS WatchedMirror, TLAPS

(* The constructor of the watcher and the initial copy establish IInv.     *)
LEMMA InitInv == Init => IInv
<1> SUFFICES ASSUME Init PROVE IInv
  OBVIOUS
<1>1. TypeOK
  BY DEF Init, FWInit, TypeOK, WatcherTypeOK, FileStatus, Absent, FirstStamp, Tracked
<1>2. CallbackAgrees /\ CallbackFresh
  BY DEF Init, FWInit, CallbackAgrees, CallbackFresh
<1>3. StampsBounded
  BY DEF Init, FWInit, StampsBounded, Absent, FirstStamp
<1>4. UntrackedHasNoCopy /\ NoMissedChange
  BY DEF Init, FWInit, UntrackedHasNoCopy, NoMissedChange
<1> QED
  BY <1>1, <1>2, <1>3, <1>4 DEF IInv

(* The user's edits keep IInv: a write takes a stamp the watcher has never *)
(* recorded, a removal leaves a key whose time matches no file.            *)
LEMMA UserInv == IInv /\ UserEdits => IInv'
<1> SUFFICES ASSUME IInv, UserEdits PROVE IInv'
  OBVIOUS
<1> USE DEF IInv
<1>1. PICK p \in Paths : Write(p) \/ Remove(p)
  BY DEF UserEdits, User
<1>2. UNCHANGED <<paths_, phase, todo, cur, status, remote, stage, buf>>
  BY <1>1 DEF UserEdits, Write, Remove
<1>3. CallbackAgrees'
  BY <1>2 DEF CallbackAgrees
<1>4. UntrackedHasNoCopy'
  BY <1>2 DEF UntrackedHasNoCopy
<1>5. CASE Write(p)
  <2>1. /\ clock' = clock + 1
        /\ disk' = [disk EXCEPT ![p] = clock + 1]
    BY <1>5 DEF Write
  <2>2. TypeOK'
    BY <1>2, <2>1 DEF TypeOK, WatcherTypeOK, Tracked
  <2>3. StampsBounded'
    BY <1>2, <2>1 DEF StampsBounded, TypeOK, WatcherTypeOK, Absent, FirstStamp
  <2>4. CallbackFresh'
    BY <1>2, <2>1 DEF CallbackFresh, CallbackAgrees, StampsBounded, TypeOK,
       WatcherTypeOK, Absent, FirstStamp
  <2>5. NoMissedChange'
    BY <1>2, <2>1 DEF NoMissedChange, StampsBounded, TypeOK, WatcherTypeOK
  <2> QED
    BY <1>3, <1>4, <2>2, <2>3, <2>4, <2>5
<1>6. CASE Remove(p)
  <2>1. UNCHANGED clock /\ disk' = [disk EXCEPT ![p] = Absent]
    BY <1>6 DEF Remove
  <2>2. TypeOK'
    BY <1>2, <2>1 DEF TypeOK, WatcherTypeOK, Tracked, Absent
  <2>3. StampsBounded'
    BY <1>2, <2>1 DEF StampsBounded, TypeOK, WatcherTypeOK, Absent, FirstStamp
  <2>4. CallbackFresh'
    BY <1>2, <2>1 DEF CallbackFresh, CallbackAgrees, TypeOK, WatcherTypeOK, Absent
  <2>5. NoMissedChange'
    BY <1>2, <2>1 DEF NoMissedChange, UntrackedHasNoCopy, TypeOK, WatcherTypeOK
  <2> QED
    BY <1>3, <1>4, <2>2, <2>3, <2>4, <2>5
<1> QED
  BY <1>1, <1>5, <1>6

(* The steps between callbacks change neither a time nor a content.        *)
LEMMA LoopInv == IInv /\ (BeginPass \/ WatcherStep) => IInv'
<1> SUFFICES ASSUME IInv, BeginPass \/ WatcherStep PROVE IInv'
  OBVIOUS
<1> USE DEF IInv
<1>1. /\ UNCHANGED <<disk, clock, paths_, cur, status, remote, stage, buf>>
      /\ cur = NoPath
  BY DEF BeginPass, StartPass, WatcherStep, Advance, StartScan, EndPass, KeepEntry,
     FindUnchanged, AbandonScan, TypeOK, WatcherTypeOK, CallbackAgrees
<1>2. TypeOK'
  BY <1>1 DEF BeginPass, StartPass, WatcherStep, Advance, StartScan, EndPass,
     KeepEntry, FindUnchanged, AbandonScan, TypeOK, WatcherTypeOK, Tracked, OnDisk
<1>3. CallbackAgrees' /\ CallbackFresh'
  BY <1>1 DEF CallbackAgrees, CallbackFresh, TypeOK, WatcherTypeOK
<1>4. StampsBounded' /\ UntrackedHasNoCopy' /\ NoMissedChange'
  BY <1>1 DEF StampsBounded, UntrackedHasNoCopy, NoMissedChange
<1> QED
  BY <1>2, <1>3, <1>4

(* Starting a callback records the time the entry has now, or stands on a  *)
(* key whose file is gone.                                                 *)
LEMMA CallInv == IInv /\ CallAction => IInv'
<1> SUFFICES ASSUME IInv, CallAction PROVE IInv'
  OBVIOUS
<1> USE DEF IInv
<1>1. PICK p \in Paths : FindErased(p) \/ FindChanged(p)
  BY DEF CallAction, StartCallback
<1>2. /\ UNCHANGED <<disk, clock, phase, remote, buf>>
      /\ cur = NoPath /\ cur' = p /\ p # NoPath /\ stage' = "called"
  BY <1>1, NoPathAssumption DEF CallAction, FindErased, FindChanged
<1>3. CallbackFresh'
  BY <1>2 DEF CallbackFresh
<1>4. CASE FindErased(p)
  <2>1. /\ UNCHANGED <<paths_, todo>>
        /\ status' = "erased" /\ phase = "erase" /\ p \in todo
    BY <1>4 DEF FindErased
  <2>2. TypeOK'
    BY <1>2, <2>1 DEF TypeOK, WatcherTypeOK, FileStatus, Tracked
  <2>3. CallbackAgrees'
    BY <1>2, <2>1 DEF CallbackAgrees, TypeOK, WatcherTypeOK, Tracked
  <2>4. StampsBounded' /\ UntrackedHasNoCopy'
    BY <1>2, <2>1 DEF StampsBounded, UntrackedHasNoCopy
  <2>5. NoMissedChange'
    BY <1>2, <2>1, NoPathAssumption DEF NoMissedChange
  <2> QED
    BY <1>3, <2>2, <2>3, <2>4, <2>5
<1>5. CASE FindChanged(p)
  <2>1. /\ paths_' = [paths_ EXCEPT ![p] = disk[p]]
        /\ todo' = todo \ {p}
        /\ status' \in {"created", "modified"}
        /\ phase = "scan" /\ disk[p] # Absent
    BY <1>5 DEF FindChanged
  <2>2. TypeOK'
    BY <1>2, <2>1 DEF TypeOK, WatcherTypeOK, FileStatus
  <2>3. CallbackAgrees'
    BY <1>2, <2>1 DEF CallbackAgrees, TypeOK, WatcherTypeOK
  <2>4. StampsBounded' /\ UntrackedHasNoCopy'
    BY <1>2, <2>1 DEF StampsBounded, UntrackedHasNoCopy, TypeOK, WatcherTypeOK
  <2>5. NoMissedChange'
    BY <1>2, <2>1, NoPathAssumption DEF NoMissedChange, TypeOK, WatcherTypeOK
  <2> QED
    BY <1>3, <2>2, <2>3, <2>4, <2>5
<1> QED
  BY <1>1, <1>4, <1>5

(* Reading keeps the buffer no older than the entry was when its time was  *)
(* recorded.                                                               *)
LEMMA ReadInv == IInv /\ ReadContent => IInv'
<1> SUFFICES ASSUME IInv, ReadContent PROVE IInv'
  OBVIOUS
<1> USE DEF IInv
<1>1. /\ UNCHANGED <<disk, clock, paths_, phase, todo, cur, status, remote>>
      /\ stage = "called" /\ status # "erased"
      /\ stage' = "read" /\ buf' = ReadFile(cur)
  BY DEF ReadContent, watcherVars
<1>2. cur \in Paths /\ paths_[cur] # Absent
  BY <1>1 DEF CallbackAgrees, TypeOK, WatcherTypeOK
<1>3. TypeOK'
  BY <1>1, <1>2 DEF TypeOK, WatcherTypeOK, ReadFile, EmptyContent, Tracked
<1>4. CallbackAgrees'
  BY <1>1 DEF CallbackAgrees
<1>5. StampsBounded'
  BY <1>1, <1>2 DEF StampsBounded, TypeOK, WatcherTypeOK, ReadFile, EmptyContent, FirstStamp
<1>6. CallbackFresh'
  BY <1>1, <1>2 DEF CallbackFresh, StampsBounded, TypeOK, WatcherTypeOK, ReadFile,
     EmptyContent, FirstStamp
<1>7. UntrackedHasNoCopy' /\ NoMissedChange'
  BY <1>1 DEF UntrackedHasNoCopy, NoMissedChange
<1> QED
  BY <1>3, <1>4, <1>5, <1>6, <1>7

(* Reporting a content or an erased entry touches the copy of cur only,    *)
(* which NoMissedChange leaves out until the callback returns.             *)
LEMMA ReportInv == IInv /\ (ReportContent \/ ReportErased) => IInv'
<1> SUFFICES ASSUME IInv, ReportContent \/ ReportErased PROVE IInv'
  OBVIOUS
<1> USE DEF IInv
<1>1. /\ UNCHANGED <<disk, clock, paths_, phase, todo, cur, status, buf>>
      /\ stage # "none" /\ stage' = "reported"
  BY DEF ReportContent, ReportErased, watcherVars
<1>2. cur \in Paths /\ paths_[cur] # Absent
  BY <1>1 DEF CallbackAgrees, TypeOK, WatcherTypeOK
<1>3. CallbackAgrees'
  BY <1>1 DEF CallbackAgrees
<1>4. CASE ReportContent
  <2>1. stage = "read" /\ remote' = [remote EXCEPT ![cur] = buf]
    BY <1>4 DEF ReportContent
  <2>2. TypeOK'
    BY <1>1, <2>1 DEF TypeOK, WatcherTypeOK, Tracked
  <2>3. StampsBounded' /\ CallbackFresh'
    BY <1>1, <1>2, <2>1 DEF StampsBounded, CallbackFresh, CallbackAgrees, TypeOK, WatcherTypeOK
  <2>4. UntrackedHasNoCopy' /\ NoMissedChange'
    BY <1>1, <1>2, <2>1 DEF UntrackedHasNoCopy, NoMissedChange, TypeOK
  <2> QED
    BY <1>3, <2>2, <2>3, <2>4
<1>5. CASE ReportErased
  <2>1. status = "erased" /\ remote' = [remote EXCEPT ![cur] = Absent]
    BY <1>5 DEF ReportErased
  <2>2. TypeOK'
    BY <1>1, <2>1 DEF TypeOK, WatcherTypeOK, Tracked, Absent
  <2>3. StampsBounded' /\ CallbackFresh'
    BY <1>1, <1>2, <2>1 DEF StampsBounded, CallbackFresh, TypeOK, WatcherTypeOK, Absent
  <2>4. UntrackedHasNoCopy' /\ NoMissedChange'
    BY <1>1, <1>2, <2>1 DEF UntrackedHasNoCopy, NoMissedChange, TypeOK
  <2> QED
    BY <1>3, <2>2, <2>3, <2>4
<1> QED
  BY <1>4, <1>5

(* The return of the callback ends the exemption of cur from               *)
(* NoMissedChange: what CallbackFresh says of cur is what has to hold.     *)
LEMMA ReturnInv == IInv /\ (ReturnAction \/ IgnoreVanished) => IInv'
<1> SUFFICES ASSUME IInv, ReturnAction \/ IgnoreVanished PROVE IInv'
  OBVIOUS
<1> USE DEF IInv
<1>1. /\ UNCHANGED <<disk, clock, phase, remote>>
      /\ cur' = NoPath /\ status' = "none" /\ stage' = "none"
      /\ buf' \in {buf, Absent}
  BY DEF ReturnAction, IgnoreVanished, CallbackReturns
<1>2. cur \in Paths /\ cur # NoPath /\ paths_[cur] # Absent
  BY DEF ReturnAction, IgnoreVanished, CallbackReturns, CallbackAgrees, TypeOK, WatcherTypeOK
<1>3. CallbackAgrees' /\ CallbackFresh'
  BY <1>1 DEF CallbackAgrees, CallbackFresh
<1>4. CASE status = "erased"
  <2>1. /\ paths_' = [paths_ EXCEPT ![cur] = Absent]
        /\ todo' = todo \ {cur}
        /\ remote[cur] = Absent
    BY <1>4 DEF ReturnAction, IgnoreVanished, CallbackReturns, CallbackFresh
  <2>2. TypeOK'
    BY <1>1, <1>2, <2>1 DEF TypeOK, WatcherTypeOK, Absent, Tracked
  <2>3. StampsBounded' /\ UntrackedHasNoCopy'
    BY <1>1, <1>2, <2>1 DEF StampsBounded, UntrackedHasNoCopy, TypeOK, WatcherTypeOK, Absent
  <2>4. NoMissedChange'
    BY <1>1, <1>2, <2>1 DEF NoMissedChange, TypeOK, WatcherTypeOK
  <2> QED
    BY <1>3, <2>2, <2>3, <2>4
<1>5. CASE status # "erased"
  <2>1. UNCHANGED <<paths_, todo>>
    BY <1>5 DEF ReturnAction, IgnoreVanished, CallbackReturns
  <2>2. paths_[cur] = disk[cur] => remote[cur] = disk[cur]
    BY <1>2, <1>5 DEF ReturnAction, IgnoreVanished, CallbackFresh
  <2>3. TypeOK'
    BY <1>1, <2>1 DEF TypeOK, WatcherTypeOK, Absent, Tracked
  <2>4. StampsBounded' /\ UntrackedHasNoCopy'
    BY <1>1, <2>1 DEF StampsBounded, UntrackedHasNoCopy, TypeOK, WatcherTypeOK, Absent
  <2>5. NoMissedChange'
    BY <1>1, <1>2, <2>1, <2>2 DEF NoMissedChange
  <2> QED
    BY <1>3, <2>3, <2>4, <2>5
<1> QED
  BY <1>4, <1>5

LEMMA StepInv == IInv /\ [Next]_vars => IInv'
<1> SUFFICES ASSUME IInv, [Next]_vars PROVE IInv'
  OBVIOUS
<1>1. CASE UNCHANGED vars
  BY <1>1 DEF vars, watcherVars, IInv, TypeOK, WatcherTypeOK, Tracked, CallbackAgrees,
     StampsBounded, UntrackedHasNoCopy, CallbackFresh, NoMissedChange
<1>2. CASE Next
  BY <1>2, UserInv, LoopInv, CallInv, ReadInv, ReportInv, ReturnInv
     DEF Next, Program, Callback
<1> QED
  BY <1>1, <1>2

THEOREM Inductive == Spec => []IInv
BY InitInv, StepInv, PTL DEF Spec

(* The types hold, and the erase loop never stands on a key it has erased. *)
THEOREM TypeCorrect == Spec => []TypeOK
<1>1. IInv => TypeOK
  BY DEF IInv
<1> QED
  BY <1>1, Inductive, PTL

(* Whatever the watcher takes for unchanged is in the copy as on disk.     *)
THEOREM WatcherMissesNothing == Spec => []NoMissedChange
<1>1. IInv => NoMissedChange
  BY DEF IInv
<1> QED
  BY <1>1, Inductive, PTL

(* No copy is replaced by an older content of the same file.               *)
THEOREM CopiesOnlyAdvance == Spec => NoStaleOverwrite
<1>1. ASSUME IInv, [Next]_vars
      PROVE  [\A p \in Paths :
                remote'[p] >= FirstStamp => remote'[p] >= remote[p]]_vars
  <2>1. CASE ReportContent
    <3>1. /\ stage = "read" /\ remote' = [remote EXCEPT ![cur] = buf]
      BY <2>1 DEF ReportContent
    <3> QED
      BY <1>1, <3>1 DEF IInv, CallbackFresh, TypeOK
  <2>2. CASE ReportErased
    <3>1. remote' = [remote EXCEPT ![cur] = Absent]
      BY <2>2 DEF ReportErased
    <3> QED
      BY <1>1, <3>1 DEF IInv, TypeOK, Absent, FirstStamp
  <2>3. CASE UNCHANGED remote
    BY <1>1, <2>3 DEF IInv, TypeOK
  <2> QED
    BY <1>1, <2>1, <2>2, <2>3 DEF Next, Program, Callback, UserEdits, BeginPass,
       WatcherStep, CallAction, IgnoreVanished, ReadContent, ReturnAction, vars
<1> QED
  BY <1>1, Inductive, PTL DEF Spec, NoStaleOverwrite
=============================================================================
