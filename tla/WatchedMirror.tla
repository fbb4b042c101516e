--------------------------- MODULE WatchedMirror ----------------------------
(***************************************************************************)
(* What the watcher promises when every report gets through: a remote copy *)
(* that follows the folder.  The callback is an ideal reporter that does   *)
(* what post_method and delete_method do when nothing fails: it reads the  *)
(* file (post_method, asynclienthttp/main.cpp), the remote copy takes the  *)
(* content over, and the callback returns.  The user may edit between any  *)
(* two of these steps.                                                     *)
(*                                                                         *)
(* The behaviour starts after the initial synchronization, so the copy is  *)
(* the folder as recorded.  BackupClient implements this specification as  *)
(* long as the server answers and the initial synchronization is alone.    *)
(***************************************************************************)
EXTENDS FileWatcher

VARIABLES
  remote,    \* remote[p]: the content of the copy of p, or Absent
  stage,     \* how far the callback is: "none", "called", "read", "reported"
  buf        \* the content the callback has read and not reported yet

vars == <<watcherVars, remote, stage, buf>>

TypeOK ==
  /\ WatcherTypeOK
  /\ remote \in [Paths -> Nat]
  /\ stage \in {"none", "called", "read", "reported"}
  /\ buf \in Nat

Init ==
  /\ FWInit
  /\ remote = disk
  /\ stage = "none"
  /\ buf = Absent

UserEdits == User /\ UNCHANGED <<remote, stage, buf>>

BeginPass == StartPass /\ UNCHANGED <<remote, stage, buf>>

WatcherStep == Advance /\ UNCHANGED <<remote, stage, buf>>

CallAction ==
  /\ StartCallback
  /\ stage' = "called"
  /\ UNCHANGED <<remote, buf>>

\* Bug: the early return does not except erased entries.
IgnoreAnyVanished ==
  /\ stage = "called"
  /\ disk[cur] = Absent
  /\ CallbackReturns
  /\ stage' = "none"
  /\ UNCHANGED <<remote, buf>>

\* is_regular_file and is_directory both fail: the callback returns early.
IgnoreVanished ==
  /\ stage = "called" /\ status # "erased"
  /\ disk[cur] = Absent
  /\ CallbackReturns
  /\ stage' = "none"
  /\ UNCHANGED <<remote, buf>>

\* The file is read whole; it may have vanished since it was looked at.
ReadContent ==
  /\ stage = "called" /\ status # "erased"
  /\ buf' = ReadFile(cur)
  /\ stage' = "read"
  /\ UNCHANGED <<watcherVars, remote>>

ReportContent ==
  /\ stage = "read"
  /\ remote' = [remote EXCEPT ![cur] = buf]
  /\ stage' = "reported"
  /\ UNCHANGED <<watcherVars, buf>>

ReportErased ==
  /\ stage = "called" /\ status = "erased"
  /\ remote' = [remote EXCEPT ![cur] = Absent]
  /\ stage' = "reported"
  /\ UNCHANGED <<watcherVars, buf>>

ReturnAction ==
  /\ stage = "reported"
  /\ CallbackReturns
  /\ stage' = "none"
  /\ buf' = Absent
  /\ UNCHANGED remote

Callback ==
  IgnoreVanished \/ ReadContent \/ ReportContent \/ ReportErased \/ ReturnAction

Program == BeginPass \/ WatcherStep \/ CallAction \/ Callback

Next == UserEdits \/ Program

Spec == Init /\ [][Next]_vars

\* The polling loop runs for ever; nothing is asked of the user.
FairSpec == Spec /\ WF_vars(Program)

-----------------------------------------------------------------------------
(* An entry that the watcher takes for unchanged, and whose callback is    *)
(* not running, is in the copy as it is on disk; an entry it does not know *)
(* and that does not exist has no copy.  It is what polling by comparing   *)
(* times rests on: no write that lands between a visit, the read of the    *)
(* content and the report is ever taken for one already reported           *)
(* (FileWatcher.h:35-62, main.cpp:382-447).                                *)
NoMissedChange ==
  \A p \in Paths \ {cur} : paths_[p] = disk[p] => remote[p] = disk[p]

(* A copy is never replaced by an older content of the same file: the      *)
(* callback reads the file when it runs, not when the change was noticed   *)
(* (main.cpp:258-272).                                                     *)
NoStaleOverwrite ==
  [][\A p \in Paths :
       remote'[p] >= FirstStamp => remote'[p] >= remote[p]]_vars

(* What makes the properties above inductive, one name per reason.     *)

\* The callback's stage, its status and the loop it was called from agree.
CallbackAgrees ==
  /\ cur = NoPath <=> stage = "none"
  /\ cur # NoPath => /\ paths_[cur] # Absent
                     /\ phase = IF status = "erased" THEN "erase" ELSE "scan"
  /\ status = "erased" => stage # "read"

\* No stamp is from the future, and stamps lie above the special contents.
StampsBounded ==
  /\ FirstStamp < clock /\ buf <= clock
  /\ \A p \in Paths :
       /\ disk[p] <= clock /\ paths_[p] <= clock /\ remote[p] <= clock
       /\ disk[p] # Absent => disk[p] > FirstStamp
       /\ disk[p] # Absent => remote[p] <= disk[p]

\* What the watcher does not track has no copy.
UntrackedHasNoCopy == \A p \in Paths : paths_[p] = Absent => remote[p] = Absent

\* If the entry did not change since its time was recorded, what was read
\* and what was reported are its content.
CallbackFresh ==
  /\ stage = "read" /\ paths_[cur] = disk[cur] => buf = disk[cur]
  /\ stage = "read" /\ disk[cur] # Absent => buf <= disk[cur]
  /\ stage = "read" /\ buf >= FirstStamp => remote[cur] <= buf
  /\ stage = "reported" /\ status # "erased" /\ paths_[cur] = disk[cur]
       => remote[cur] = disk[cur]
  /\ stage = "reported" /\ status = "erased" => remote[cur] = Absent

IInv ==
  /\ TypeOK
  /\ CallbackAgrees
  /\ StampsBounded
  /\ UntrackedHasNoCopy
  /\ CallbackFresh
  /\ NoMissedChange

-----------------------------------------------------------------------------
(* When the user stops editing, the copy becomes the folder and stays so:  *)
(* the pass after the last edit finds whatever is left to report.          *)
EventuallyMirrored == <>[](remote = disk)

=============================================================================
