---------------------------- MODULE BackupCommon ----------------------------
(***************************************************************************)
(* What the client and the server of the remote backup share: the entries  *)
(* below the watched folder and the values that stand for their contents.  *)
(*                                                                         *)
(* A content is a natural number.  Two of them are special: Absent says    *)
(* that the entry does not exist, EmptyContent is the empty string, what   *)
(* reading a file that has just vanished yields.  From FirstStamp on, a    *)
(* number stands at once for a modification time and for the bytes that    *)
(* were written at that time; the clock gives every write a stamp of its   *)
(* own, so equal stamps mean the same write.                               *)
(***************************************************************************)
EXTENDS Naturals

CONSTANTS
  Paths,     \* the entries that may exist below the watched folder
  NoPath     \* the value of a path variable that holds none

ASSUME NoPathAssumption == NoPath \notin Paths

Absent       == 0
EmptyContent == 1
FirstStamp   == 2

=============================================================================
