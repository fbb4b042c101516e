---------------------------- MODULE FileWatcher -----------------------------
(***************************************************************************)
(* class FileWatcher (asynclienthttp/FileWatcher.h) and the folder it      *)
(* polls.  start() is one pass: a loop over the recorded paths that looks  *)
(* for erased entries, then a loop over the folder that looks for created  *)
(* and modified ones.  For each difference it calls `action', and the      *)
(* user goes on editing the folder while the callback runs.  What the      *)
(* callback does is not described here: WatchedMirror puts an ideal        *)
(* reporter in its place, BackupClient the lambda of main().               *)
(*                                                                         *)
(* The entries are a flat set: the watcher treats each of them on its own. *)
(* Its constructor is atomic (FWInit, or Construct after a login), because *)
(* each entry is recorded on its own before any other component runs; that *)
(* it throws on an entry that vanishes while it runs is left out.          *)
(***************************************************************************)
EXTENDS BackupCommon

CONSTANT MaxStamp      \* bound on the clock: the user writes finitely often

ASSUME MaxStampAssumption == MaxStamp \in Nat

VARIABLES
  disk,      \* disk[p]: stamp of the last write of p, or Absent
  clock,     \* the last stamp given out
  paths_,    \* paths_[p]: recorded last_write_time, or Absent: p is no key
  phase,     \* where start() is: "idle" between passes, "erase" or "scan"
  todo,      \* the entries the current loop has not visited yet
  cur,       \* the entry whose callback is running, or NoPath
  status     \* the FileStatus the running callback was given, or "none"

watcherVars == <<disk, clock, paths_, phase, todo, cur, status>>

OnDisk  == {p \in Paths : disk[p] # Absent}
Tracked == {p \in Paths : paths_[p] # Absent}

\* What reading the whole of p yields: no content when p is gone.
ReadFile(p) == IF disk[p] = Absent THEN EmptyContent ELSE disk[p]

FileStatus == {"created", "modified", "erased"}

(* The types, and two facts that shape the loops: the erase loop only      *)
(* stands on keys that are in the map (its iterator is valid), and a       *)
(* callback runs if and only if there is an entry and a status for it.     *)
WatcherTypeOK ==
  /\ disk   \in [Paths -> Nat]
  /\ clock  \in Nat
  /\ paths_ \in [Paths -> Nat]
  /\ phase  \in {"idle", "erase", "scan"}
  /\ todo   \in SUBSET Paths
  /\ cur    \in Paths \cup {NoPath}
  /\ status \in FileStatus \cup {"none"}
  /\ phase = "erase" => todo \subseteq Tracked
  /\ cur = NoPath <=> status = "none"

\* The constructor records the folder as it is.
FWInit ==
  /\ disk \in [Paths -> {Absent, FirstStamp + 1}]
  /\ clock = FirstStamp + 1
  /\ paths_ = disk
  /\ phase = "idle"
  /\ todo = {}
  /\ cur = NoPath
  /\ status = "none"

\* A watcher is made for the folder as it is now.
Construct ==
  /\ paths_' = disk
  /\ UNCHANGED <<disk, clock, phase, todo, cur, status>>

\* The watcher is gone with its process.
Discard ==
  /\ paths_' = [p \in Paths |-> Absent]
  /\ phase' = "idle" /\ todo' = {} /\ cur' = NoPath /\ status' = "none"
  /\ UNCHANGED <<disk, clock>>

-----------------------------------------------------------------------------
(* The user.                                                               *)

\* The user creates p or writes a new content to it.
Write(p) ==
  /\ clock < MaxStamp
  /\ clock' = clock + 1
  /\ disk' = [disk EXCEPT ![p] = clock + 1]
  /\ UNCHANGED <<paths_, phase, todo, cur, status>>

Remove(p) ==
  /\ disk[p] # Absent
  /\ disk' = [disk EXCEPT ![p] = Absent]
  /\ UNCHANGED <<clock, paths_, phase, todo, cur, status>>

-----------------------------------------------------------------------------
(* One pass of start().  An operator whose comment starts with "Bug:" is   *)
(* no part of the specification: it is a mistake that start() could have   *)
(* made, put in the place of the action that follows it to see that a      *)
(* property notices.                                                       *)

StartPass ==
  /\ phase = "idle"
  /\ phase' = "erase"
  /\ todo' = Tracked
  /\ UNCHANGED <<disk, clock, paths_, cur, status>>

\* exists() holds: the iterator moves on.
KeepEntry(p) ==
  /\ phase = "erase" /\ cur = NoPath /\ p \in todo
  /\ disk[p] # Absent
  /\ todo' = todo \ {p}
  /\ UNCHANGED <<disk, clock, paths_, phase, cur, status>>

\* Bug: the key is erased before the callback, under the iterator.
FindErasedEarly(p) ==
  /\ phase = "erase" /\ cur = NoPath /\ p \in todo
  /\ disk[p] = Absent
  /\ paths_' = [paths_ EXCEPT ![p] = Absent]
  /\ cur' = p
  /\ status' = "erased"
  /\ UNCHANGED <<disk, clock, phase, todo>>

\* exists() fails: the callback starts; the key is erased when it returns.
FindErased(p) ==
  /\ phase = "erase" /\ cur = NoPath /\ p \in todo
  /\ disk[p] = Absent
  /\ cur' = p
  /\ status' = "erased"
  /\ UNCHANGED <<disk, clock, paths_, phase, todo>>

\* The directory iterator of the second loop is opened.
StartScan ==
  /\ phase = "erase" /\ cur = NoPath /\ todo = {}
  /\ phase' = "scan"
  /\ todo' = OnDisk
  /\ UNCHANGED <<disk, clock, paths_, cur, status>>

\* Bug: a known key counts as unchanged, the times are not compared.
FindKnown(p) ==
  /\ phase = "scan" /\ cur = NoPath /\ p \in todo
  /\ disk[p] # Absent /\ paths_[p] # Absent
  /\ todo' = todo \ {p}
  /\ UNCHANGED <<disk, clock, paths_, phase, cur, status>>

\* The recorded time is the current one, nothing to report.
FindUnchanged(p) ==
  /\ phase = "scan" /\ cur = NoPath /\ p \in todo
  /\ disk[p] # Absent /\ paths_[p] = disk[p]
  /\ todo' = todo \ {p}
  /\ UNCHANGED <<disk, clock, paths_, phase, cur, status>>

\* A new or changed entry: the time is recorded first, then the callback runs.
FindChanged(p) ==
  /\ phase = "scan" /\ cur = NoPath /\ p \in todo
  /\ disk[p] # Absent /\ paths_[p] # disk[p]
  /\ paths_' = [paths_ EXCEPT ![p] = disk[p]]
  /\ todo' = todo \ {p}
  /\ cur' = p
  /\ status' = IF paths_[p] = Absent THEN "created" ELSE "modified"
  /\ UNCHANGED <<disk, clock, phase>>

\* last_write_time() throws on an entry that is gone: main() catches the
\* exception outside start(), which ends the pass.
AbandonScan(p) ==
  /\ phase = "scan" /\ cur = NoPath /\ p \in todo
  /\ disk[p] = Absent
  /\ phase' = "idle"
  /\ todo' = {}
  /\ UNCHANGED <<disk, clock, paths_, cur, status>>

EndPass ==
  /\ phase = "scan" /\ cur = NoPath /\ todo = {}
  /\ phase' = "idle"
  /\ UNCHANGED <<disk, clock, paths_, todo, cur, status>>

\* Bug: the time is recorded when the callback has returned.
RecordLate ==
  /\ cur # NoPath
  /\ paths_' = [paths_ EXCEPT ![cur] = disk[cur]]
  /\ todo' = todo \ {cur}
  /\ cur' = NoPath
  /\ status' = "none"
  /\ UNCHANGED <<disk, clock, phase>>

\* The callback returns to the loop that called it.
CallbackReturns ==
  /\ cur # NoPath
  /\ IF status = "erased"
       THEN /\ paths_' = [paths_ EXCEPT ![cur] = Absent]
            /\ todo' = todo \ {cur}
       ELSE UNCHANGED <<paths_, todo>>
  /\ cur' = NoPath
  /\ status' = "none"
  /\ UNCHANGED <<disk, clock, phase>>

User == \E p \in Paths : Write(p) \/ Remove(p)

\* The steps of start() between callbacks, and those that start one.
Advance ==
  \/ StartScan
  \/ EndPass
  \/ \E p \in Paths : KeepEntry(p) \/ FindUnchanged(p) \/ AbandonScan(p)

StartCallback == \E p \in Paths : FindErased(p) \/ FindChanged(p)

=============================================================================
